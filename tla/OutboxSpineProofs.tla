-------------------------- MODULE OutboxSpineProofs --------------------------
(***************************************************************************)
(* OutboxSpine for every number of entities, writers, drains, matchers,    *)
(* events and faults: no committed event is lost, references resolve, the  *)
(* stream keeps the order of an entity's events, and the spine implements  *)
(* the safety half of ChangeFeed.  The invariants are SpineInv and, for    *)
(* the order, OrderInv beside it, proved part by part.  Beside it, as an   *)
(* instance, the walk of the Entities a purge deletes and a map collects   *)
(* (MatchWalk).                                                            *)
(***************************************************************************)
EXTENDS OutboxSpine, FiniteSetTheorems, TLAPS

\* The count of faults stays within its bound.
LEMMA FaultType ==
    ASSUME TypeOK, Fault \/ NoFault
    PROVE  faults' \in 0..MaxFaults
BY SpineAssumption DEF TypeOK, Fault, NoFault

\* What the stream does with a message keeps its types.
LEMMA StoreType ==
    ASSUME TypeOK, NEW s \in Seqs, Store(s)
    PROVE  /\ window' \subseteq Seqs
           /\ stored' \in [Seqs -> Nat] /\ first' \in [Seqs -> Nat] /\ tail' \in Nat
           /\ bus' \subseteq Seqs \X Nat
<1>1. CASE s \in window
  BY <1>1 DEF Store, TypeOK, streamVars
<1>2. CASE s \notin window
  <2>1. stored[s] + 1 \in Nat /\ tail + 1 \in Nat
    BY DEF TypeOK
  <2>2. <<s, stored[s] + 1>> \in Seqs \X Nat
    BY <2>1
  <2>3. window' \subseteq Seqs /\ tail' \in Nat
    BY <1>2, <2>1 DEF Store, TypeOK
  <2>4. stored' \in [Seqs -> Nat]
    BY <1>2, <2>1 DEF Store, TypeOK
  <2>5. first' \in [Seqs -> Nat]
    BY <1>2, <2>1 DEF Store, TypeOK
  <2>6. bus' \subseteq Seqs \X Nat
    BY <1>2, <2>2 DEF Store, TypeOK
  <2>. QED
    BY <2>3, <2>4, <2>5, <2>6
<1>. QED
  BY <1>1, <1>2

\* What the stream stores is carried, and nothing else stops being carried.
LEMMA StoreCarries ==
    ASSUME TypeOK, DurableFirst, CarriedInv, NEW s \in Seqs, Store(s), UNCHANGED matchVars
    PROVE  /\ Carried(s)'
           /\ \A t : Carried(t) => Carried(t)'
           /\ \A t \in window' : Carried(t)'
<1>1. CASE s \in window
  BY <1>1 DEF Store, CarriedInv, Carried, OnBus, streamVars, matchVars
<1>2. CASE s \notin window
  <2>1. bus' = bus \cup {<<s, stored[s] + 1>>} /\ window' = window \cup {s}
    BY <1>2 DEF Store, CarriedInv
  <2>2. Carried(s)'
    <3>1. <<s, stored[s] + 1>> \in bus' /\ <<s, stored[s] + 1>>[1] = s
      BY <2>1
    <3>2. \E msg \in bus' : msg[1] = s
      BY <3>1
    <3>. QED
      BY <3>2 DEF Carried, OnBus
  <2>3. \A t : Carried(t) => Carried(t)'
    BY <2>1 DEF Carried, OnBus, matchVars
  <2>. QED
    BY <2>1, <2>2, <2>3 DEF CarriedInv
<1>. QED
  BY <1>1, <1>2

\* What every message of the bus was is preserved by the stream's storing s.
LEMMA StoreBus ==
    ASSUME TypeOK, NEW s \in Seqs, Store(s)
    PROVE  \A msg \in bus' : msg \in bus \/ msg[1] = s
BY DEF Store, streamVars

\* Every step preserves the types.
LEMMA TypeStep ==
    ASSUME TypeOK, CommitInv, [Next]_vars
    PROVE  TypeOK'
<1>1. ASSUME NEW w \in Writers, Enqueue(w)
      PROVE  TypeOK'
  <2>1. last + 1 \in Seqs /\ last' \in 0..MaxSeq
    BY <1>1, SpineAssumption DEF Enqueue, TypeOK, Seqs
  <2>2. row' \in [Seqs -> {"free", "open", "void"} \cup Committed]
    BY <1>1, <2>1 DEF Enqueue, TypeOK
  <2>. QED
    BY <1>1, <2>1, <2>2 DEF Enqueue, TypeOK, streamVars, matchVars, Oversized
<1>2. ASSUME NEW w \in Writers, Commit(w)
      PROVE  TypeOK'
  BY <1>2, SpineAssumption DEF Commit, EndTx, Opened, streamVars, matchVars, TypeOK, Seqs, Committed, Oversized
<1>3. ASSUME NEW w \in Writers, Rollback(w)
      PROVE  TypeOK'
  BY <1>3, SpineAssumption DEF Rollback, EndTx, Opened, streamVars, matchVars, TypeOK, Seqs, Committed, Oversized
<1>4. ASSUME NEW d \in Drains, Peek(d)
      PROVE  TypeOK'
  BY <1>4, SpineAssumption DEF Peek, Idle, Live, streamVars, matchVars, TypeOK, Seqs, Committed, Oversized
<1>5. ASSUME NEW d \in Drains, NEW s \in Seqs, Publish(d, s)
      PROVE  TypeOK'
  <2>1. /\ window' \subseteq Seqs
       /\ stored' \in [Seqs -> Nat] /\ first' \in [Seqs -> Nat] /\ tail' \in Nat
       /\ bus' \subseteq Seqs \X Nat
    BY <1>5, StoreType DEF Publish
  <2>2. drain[d] \in [pc: {"peek", "work"}, page: SUBSET Seqs,
                      acked: SUBSET {t \in Seqs : ~Oversized(t)},
                      retained: SUBSET {t \in Seqs : Oversized(t)}]
    BY DEF TypeOK
  <2>3. drain'[d] \in [pc: {"peek", "work"}, page: SUBSET Seqs,
                       acked: SUBSET {t \in Seqs : ~Oversized(t)},
                       retained: SUBSET {t \in Seqs : Oversized(t)}]
    BY <1>5, <2>2 DEF Publish, TypeOK
  <2>4. drain' \in [Drains -> [pc: {"peek", "work"}, page: SUBSET Seqs,
                                  acked: SUBSET {t \in Seqs : ~Oversized(t)},
                                  retained: SUBSET {t \in Seqs : Oversized(t)}]]
    BY <1>5, <2>3 DEF Publish, TypeOK
  <2>. QED
    BY <1>5, <2>1, <2>2, <2>3, <2>4 DEF Publish, TypeOK, streamVars, matchVars, Oversized
<1>6. ASSUME NEW d \in Drains, NEW s \in Seqs, NEW b \in BOOLEAN, PublishFails(d, s, b)
      PROVE  TypeOK'
  <2>1. faults' \in 0..MaxFaults
    BY <1>6, FaultType DEF PublishFails
  <2>2. /\ window' \subseteq Seqs
       /\ stored' \in [Seqs -> Nat] /\ first' \in [Seqs -> Nat] /\ tail' \in Nat
       /\ bus' \subseteq Seqs \X Nat
    BY <1>6, StoreType DEF PublishFails, TypeOK, streamVars
  <2>3. drain[d] \in [pc: {"peek", "work"}, page: SUBSET Seqs,
                      acked: SUBSET {t \in Seqs : ~Oversized(t)},
                      retained: SUBSET {t \in Seqs : Oversized(t)}]
    BY DEF TypeOK
  <2>4. [drain[d] EXCEPT !.page = {}]
           \in [pc: {"peek", "work"}, page: SUBSET Seqs,
               acked: SUBSET {t \in Seqs : ~Oversized(t)},
               retained: SUBSET {t \in Seqs : Oversized(t)}]
    BY <2>3
  <2>5. drain' = [drain EXCEPT ![d] = [drain[d] EXCEPT !.page = {}]]
    BY <1>6 DEF PublishFails, TypeOK
  <2>6. drain' \in [Drains -> [pc: {"peek", "work"}, page: SUBSET Seqs,
                                  acked: SUBSET {t \in Seqs : ~Oversized(t)},
                                  retained: SUBSET {t \in Seqs : Oversized(t)}]]
    BY <2>4, <2>5 DEF TypeOK
  <2>. QED
    BY ZenonT(30), <1>6, <2>1, <2>2, <2>3, <2>4, <2>5, <2>6 DEF PublishFails, TypeOK, streamVars, matchVars, Oversized
<1>7. ASSUME NEW d \in Drains, NEW s \in Seqs, NEW b \in BOOLEAN, Retain(d, s, b)
      PROVE  TypeOK'
  <2>1. faults' \in 0..MaxFaults
    BY <1>7, FaultType DEF Retain
  <2>2. drain[d] \in [pc: {"peek", "work"}, page: SUBSET Seqs,
                      acked: SUBSET {t \in Seqs : ~Oversized(t)},
                      retained: SUBSET {t \in Seqs : Oversized(t)}]
    BY DEF TypeOK
  <2>3. [drain[d] EXCEPT !.retained = drain[d].retained \ {s}]
           \in [pc: {"peek", "work"}, page: SUBSET Seqs,
               acked: SUBSET {t \in Seqs : ~Oversized(t)},
               retained: SUBSET {t \in Seqs : Oversized(t)}]
    BY <2>2
  <2>4. drain' = [drain EXCEPT ![d] = [drain[d] EXCEPT !.retained = drain[d].retained \ {s}]]
    BY <1>7 DEF Retain, TypeOK
  <2>5. drain' \in [Drains -> [pc: {"peek", "work"}, page: SUBSET Seqs,
                                  acked: SUBSET {t \in Seqs : ~Oversized(t)},
                                  retained: SUBSET {t \in Seqs : Oversized(t)}]]
    BY <2>3, <2>4 DEF TypeOK
  <2>6. row' \in [Seqs -> {"free", "open", "void"} \cup Committed]
    BY <1>7 DEF Retain, TypeOK, Committed
  <2>. QED
    BY ZenonT(30), <1>7, <2>1, <2>2, <2>3, <2>4, <2>5, <2>6 DEF Retain, TypeOK, streamVars, matchVars, Oversized
<1>8. ASSUME NEW d \in Drains, NEW b \in BOOLEAN, Ack(d, b)
      PROVE  TypeOK'
  <2>1. faults' \in 0..MaxFaults
    BY <1>8, FaultType DEF Ack
  <2>2. Idle \in [pc: {"peek", "work"}, page: SUBSET Seqs,
                acked: SUBSET {t \in Seqs : ~Oversized(t)},
                retained: SUBSET {t \in Seqs : Oversized(t)}]
    BY DEF Idle
  <2>3. drain' \in [Drains -> [pc: {"peek", "work"}, page: SUBSET Seqs,
                                  acked: SUBSET {t \in Seqs : ~Oversized(t)},
                                  retained: SUBSET {t \in Seqs : Oversized(t)}]]
    BY <1>8, <2>2 DEF Ack, TypeOK
  <2>4. row' \in [Seqs -> {"free", "open", "void"} \cup Committed]
    BY <1>8 DEF Ack, TypeOK, Committed
  <2>. QED
    BY <1>8, <2>1, <2>2, <2>3, <2>4 DEF Ack, TypeOK, streamVars, matchVars, Oversized
<1>9. ASSUME NEW d \in Drains, CrashDrain(d)
      PROVE  TypeOK'
  <2>1. faults' \in 0..MaxFaults
    BY <1>9, FaultType DEF CrashDrain
  <2>2. Idle \in [pc: {"peek", "work"}, page: SUBSET Seqs,
                acked: SUBSET {t \in Seqs : ~Oversized(t)},
                retained: SUBSET {t \in Seqs : Oversized(t)}]
    BY DEF Idle
  <2>3. drain' \in [Drains -> [pc: {"peek", "work"}, page: SUBSET Seqs,
                                  acked: SUBSET {t \in Seqs : ~Oversized(t)},
                                  retained: SUBSET {t \in Seqs : Oversized(t)}]]
    BY <1>9, <2>2 DEF CrashDrain, TypeOK
  <2>. QED
    BY <1>9, <2>1, <2>2, <2>3 DEF CrashDrain, TypeOK, streamVars, matchVars, Oversized
<1>10. ASSUME NEW s \in Seqs, Forget(s)
      PROVE  TypeOK'
  <2>1. faults' \in 0..MaxFaults
    BY <1>10, FaultType DEF Forget
  <2>. QED
    BY <1>10, <2>1 DEF Forget, TypeOK, streamVars, matchVars, Oversized
<1>11. ASSUME NEW s \in Seqs, Reap(s)
      PROVE  TypeOK'
  BY <1>11, SpineAssumption DEF Reap, Settled, streamVars, matchVars, TypeOK, Seqs, Committed, Oversized
<1>12. ASSUME ConsumeBalanced
      PROVE  TypeOK'
  BY <1>12, SpineAssumption DEF ConsumeBalanced, streamVars, matchVars, TypeOK, Seqs, Committed, Oversized
<1>13. ASSUME NEW m \in Matchers, NEW msg \in bus, Receive(m, msg)
      PROVE  TypeOK'
  <2>1. faults' \in 0..MaxFaults
    BY <1>13, FaultType DEF Receive
  <2>2. msg[1] \in 0..MaxSeq /\ msg[2] \in Nat
    BY SpineAssumption DEF TypeOK, Seqs
  <2>3. work' \in [Matchers -> [pc: {"idle", "process", "ack"}, seq: 0..MaxSeq, n: Nat]]
    BY <1>13, <2>2 DEF Receive, TypeOK
  <2>. QED
    BY <1>13, <2>1, <2>2, <2>3 DEF Receive, TypeOK, streamVars, matchVars, Oversized
<1>14. ASSUME NEW m \in Matchers, NEW ok \in BOOLEAN, NEW found \in BOOLEAN, Process(m, ok, found)
      PROVE  TypeOK'
  <2>1. faults' \in 0..MaxFaults
    BY <1>14, FaultType DEF Process
  <2>2. work' \in [Matchers -> [pc: {"idle", "process", "ack"}, seq: 0..MaxSeq, n: Nat]]
    BY <1>14 DEF Process, TypeOK
  <2>3. work[m].seq \in Seqs
    BY <1>14 DEF Process, CommitInv
  <2>4. handled' \subseteq Seqs /\ spoiled' \subseteq Seqs /\ phantom' \subseteq spoiled'
    BY <1>14, <2>3 DEF Process, TypeOK
  <2>. QED
    BY <1>14, <2>1, <2>2, <2>3, <2>4 DEF Process, TypeOK, streamVars, matchVars, Oversized
<1>15. ASSUME NEW m \in Matchers, NEW b \in BOOLEAN, AckMessage(m, b)
      PROVE  TypeOK'
  <2>1. faults' \in 0..MaxFaults
    BY <1>15, FaultType DEF AckMessage
  <2>2. NoWork \in [pc: {"idle", "process", "ack"}, seq: 0..MaxSeq, n: Nat]
    BY SpineAssumption DEF NoWork
  <2>3. work' \in [Matchers -> [pc: {"idle", "process", "ack"}, seq: 0..MaxSeq, n: Nat]]
    BY <1>15, <2>2 DEF AckMessage, TypeOK
  <2>. QED
    BY <1>15, <2>1, <2>2, <2>3 DEF AckMessage, TypeOK, streamVars, matchVars, Oversized
<1>16. ASSUME NEW m \in Matchers, CrashMatcher(m)
      PROVE  TypeOK'
  <2>1. faults' \in 0..MaxFaults
    BY <1>16, FaultType DEF CrashMatcher
  <2>2. NoWork \in [pc: {"idle", "process", "ack"}, seq: 0..MaxSeq, n: Nat]
    BY SpineAssumption DEF NoWork
  <2>3. work' \in [Matchers -> [pc: {"idle", "process", "ack"}, seq: 0..MaxSeq, n: Nat]]
    BY <1>16, <2>2 DEF CrashMatcher, TypeOK
  <2>. QED
    BY <1>16, <2>1, <2>2, <2>3 DEF CrashMatcher, TypeOK, streamVars, matchVars, Oversized
<1>17. CASE UNCHANGED vars
  BY <1>17 DEF vars, streamVars, matchVars, TypeOK, Oversized
<1>. QED
  BY <1>1, <1>2, <1>3, <1>4, <1>5, <1>6, <1>7, <1>8, <1>9, <1>10,
     <1>11, <1>12, <1>13, <1>14, <1>15, <1>16, <1>17 DEF Next, DrainStep, DrainFails, MatchStep, MatchFails

\* Every step keeps to committed rows.
LEMMA CommitStep ==
    ASSUME TypeOK, CommitInv, [Next]_vars
    PROVE  CommitInv'
<1>1. ASSUME NEW w \in Writers, Enqueue(w)
      PROVE  CommitInv'
  BY <1>1 DEF Enqueue, streamVars, matchVars, CommitInv, TypeOK, Committed, Seqs
<1>2. ASSUME NEW w \in Writers, Commit(w)
      PROVE  CommitInv'
  BY <1>2 DEF Commit, EndTx, Opened, streamVars, matchVars, CommitInv, TypeOK, Committed, Seqs
<1>3. ASSUME NEW w \in Writers, Rollback(w)
      PROVE  CommitInv'
  BY <1>3 DEF Rollback, EndTx, Opened, streamVars, matchVars, CommitInv, TypeOK, Committed, Seqs
<1>4. ASSUME NEW d \in Drains, Peek(d)
      PROVE  CommitInv'
  BY <1>4 DEF Peek, Idle, Live, streamVars, matchVars, CommitInv, TypeOK, Committed, Seqs
<1>5. ASSUME NEW d \in Drains, NEW s \in Seqs, Publish(d, s)
      PROVE  CommitInv'
  BY <1>5 DEF Publish, IsOldest, Store, streamVars, matchVars, CommitInv, TypeOK, Committed, Seqs
<1>6. ASSUME NEW d \in Drains, NEW s \in Seqs, NEW b \in BOOLEAN, PublishFails(d, s, b)
      PROVE  CommitInv'
  BY <1>6 DEF PublishFails, IsOldest, Store, Fault, streamVars, matchVars, CommitInv, TypeOK, Committed, Seqs
<1>7. ASSUME NEW d \in Drains, NEW s \in Seqs, NEW b \in BOOLEAN, Retain(d, s, b)
      PROVE  CommitInv'
  BY <1>7 DEF Retain, Fault, NoFault, streamVars, matchVars, CommitInv, TypeOK, Committed, Seqs
<1>8. ASSUME NEW d \in Drains, NEW b \in BOOLEAN, Ack(d, b)
      PROVE  CommitInv'
  BY <1>8 DEF Ack, Fault, NoFault, Idle, streamVars, matchVars, CommitInv, TypeOK, Committed, Seqs
<1>9. ASSUME NEW d \in Drains, CrashDrain(d)
      PROVE  CommitInv'
  BY <1>9 DEF CrashDrain, Fault, Idle, streamVars, matchVars, CommitInv, TypeOK, Committed, Seqs
<1>10. ASSUME NEW s \in Seqs, Forget(s)
      PROVE  CommitInv'
  BY <1>10 DEF Forget, Fault, streamVars, matchVars, CommitInv, TypeOK, Committed, Seqs
<1>11. ASSUME NEW s \in Seqs, Reap(s)
      PROVE  CommitInv'
  BY <1>11 DEF Reap, Settled, streamVars, matchVars, CommitInv, TypeOK, Committed, Seqs
<1>12. ASSUME ConsumeBalanced
      PROVE  CommitInv'
  BY <1>12 DEF ConsumeBalanced, streamVars, matchVars, CommitInv, TypeOK, Committed, Seqs
<1>13. ASSUME NEW m \in Matchers, NEW msg \in bus, Receive(m, msg)
      PROVE  CommitInv'
  BY <1>13 DEF Receive, Fault, NoFault, streamVars, matchVars, CommitInv, TypeOK, Committed, Seqs
<1>14. ASSUME NEW m \in Matchers, NEW ok \in BOOLEAN, NEW found \in BOOLEAN, Process(m, ok, found)
      PROVE  CommitInv'
  BY <1>14 DEF Process, Resolves, NoFault, Fault, Oversized, streamVars, matchVars, CommitInv, TypeOK, Committed, Seqs
<1>15. ASSUME NEW m \in Matchers, NEW b \in BOOLEAN, AckMessage(m, b)
      PROVE  CommitInv'
  BY <1>15 DEF AckMessage, Fault, NoFault, NoWork, streamVars, matchVars, CommitInv, TypeOK, Committed, Seqs
<1>16. ASSUME NEW m \in Matchers, CrashMatcher(m)
      PROVE  CommitInv'
  BY <1>16 DEF CrashMatcher, Fault, NoWork, streamVars, matchVars, CommitInv, TypeOK, Committed, Seqs
<1>17. CASE UNCHANGED vars
  BY <1>17 DEF vars, streamVars, matchVars, CommitInv, Committed, Seqs
<1>. QED
  BY <1>1, <1>2, <1>3, <1>4, <1>5, <1>6, <1>7, <1>8, <1>9, <1>10,
     <1>11, <1>12, <1>13, <1>14, <1>15, <1>16, <1>17 DEF Next, DrainStep, DrainFails, MatchStep, MatchFails

\* Acks come after processing.
LEMMA AckStep ==
    ASSUME TypeOK, AckInv, [Next]_vars
    PROVE  AckInv'
<1>1. ASSUME NEW w \in Writers, Enqueue(w)
      PROVE  AckInv'
  BY <1>1 DEF Enqueue, streamVars, matchVars, AckInv, TypeOK
<1>2. ASSUME NEW w \in Writers, Commit(w)
      PROVE  AckInv'
  BY <1>2 DEF Commit, EndTx, Opened, streamVars, matchVars, AckInv, TypeOK
<1>3. ASSUME NEW w \in Writers, Rollback(w)
      PROVE  AckInv'
  BY <1>3 DEF Rollback, EndTx, Opened, streamVars, matchVars, AckInv, TypeOK
<1>4. ASSUME NEW d \in Drains, Peek(d)
      PROVE  AckInv'
  BY <1>4 DEF Peek, Idle, Live, streamVars, matchVars, AckInv, TypeOK
<1>5. ASSUME NEW d \in Drains, NEW s \in Seqs, Publish(d, s)
      PROVE  AckInv'
  BY <1>5 DEF Publish, IsOldest, Store, streamVars, matchVars, AckInv, TypeOK
<1>6. ASSUME NEW d \in Drains, NEW s \in Seqs, NEW b \in BOOLEAN, PublishFails(d, s, b)
      PROVE  AckInv'
  BY <1>6 DEF PublishFails, IsOldest, Store, Fault, streamVars, matchVars, AckInv, TypeOK
<1>7. ASSUME NEW d \in Drains, NEW s \in Seqs, NEW b \in BOOLEAN, Retain(d, s, b)
      PROVE  AckInv'
  BY <1>7 DEF Retain, Fault, NoFault, streamVars, matchVars, AckInv, TypeOK
<1>8. ASSUME NEW d \in Drains, NEW b \in BOOLEAN, Ack(d, b)
      PROVE  AckInv'
  BY <1>8 DEF Ack, Fault, NoFault, Idle, streamVars, matchVars, AckInv, TypeOK
<1>9. ASSUME NEW d \in Drains, CrashDrain(d)
      PROVE  AckInv'
  BY <1>9 DEF CrashDrain, Fault, Idle, streamVars, matchVars, AckInv, TypeOK
<1>10. ASSUME NEW s \in Seqs, Forget(s)
      PROVE  AckInv'
  BY <1>10 DEF Forget, Fault, streamVars, matchVars, AckInv, TypeOK
<1>11. ASSUME NEW s \in Seqs, Reap(s)
      PROVE  AckInv'
  BY <1>11 DEF Reap, Settled, streamVars, matchVars, AckInv, TypeOK
<1>12. ASSUME ConsumeBalanced
      PROVE  AckInv'
  BY <1>12 DEF ConsumeBalanced, streamVars, matchVars, AckInv, TypeOK
<1>13. ASSUME NEW m \in Matchers, NEW msg \in bus, Receive(m, msg)
      PROVE  AckInv'
  BY <1>13 DEF Receive, Fault, NoFault, streamVars, matchVars, AckInv, TypeOK
<1>14. ASSUME NEW m \in Matchers, NEW ok \in BOOLEAN, NEW found \in BOOLEAN, Process(m, ok, found)
      PROVE  AckInv'
  BY <1>14 DEF Process, Resolves, NoFault, Fault, Oversized, streamVars, matchVars, AckInv, TypeOK
<1>15. ASSUME NEW m \in Matchers, NEW b \in BOOLEAN, AckMessage(m, b)
      PROVE  AckInv'
  BY <1>15 DEF AckMessage, Fault, NoFault, NoWork, streamVars, matchVars, AckInv, TypeOK
<1>16. ASSUME NEW m \in Matchers, CrashMatcher(m)
      PROVE  AckInv'
  BY <1>16 DEF CrashMatcher, Fault, NoWork, streamVars, matchVars, AckInv, TypeOK
<1>17. CASE UNCHANGED vars
  BY <1>17 DEF vars, streamVars, matchVars, AckInv
<1>. QED
  BY <1>1, <1>2, <1>3, <1>4, <1>5, <1>6, <1>7, <1>8, <1>9, <1>10,
     <1>11, <1>12, <1>13, <1>14, <1>15, <1>16, <1>17 DEF Next, DrainStep, DrainFails, MatchStep, MatchFails

\* Nothing the drain or the stream forgets goes missing.
LEMMA CarriedStep ==
    ASSUME TypeOK, CommitInv, AckInv, CarriedInv, [Next]_vars
    PROVE  CarriedInv'
<1>1. ASSUME NEW w \in Writers, Enqueue(w)
      PROVE  CarriedInv'
  BY <1>1 DEF Enqueue, streamVars, matchVars, CarriedInv, TypeOK, Carried, OnBus, AckInv
<1>2. ASSUME NEW w \in Writers, Commit(w)
      PROVE  CarriedInv'
  BY <1>2 DEF Commit, EndTx, Opened, streamVars, matchVars, CarriedInv, TypeOK, Carried, OnBus, AckInv
<1>3. ASSUME NEW w \in Writers, Rollback(w)
      PROVE  CarriedInv'
  BY <1>3 DEF Rollback, EndTx, Opened, streamVars, matchVars, CarriedInv, TypeOK, Carried, OnBus, AckInv
<1>4. ASSUME NEW d \in Drains, Peek(d)
      PROVE  CarriedInv'
  BY <1>4 DEF Peek, Idle, Live, streamVars, matchVars, CarriedInv, TypeOK, Carried, OnBus, AckInv
<1>5. ASSUME NEW d \in Drains, NEW s \in Seqs, Publish(d, s)
      PROVE  CarriedInv'
  <2>. SUFFICES ASSUME DurableFirst
               PROVE  /\ durable'
                      /\ \A t \in window' : Carried(t)'
                      /\ \A e \in Drains, t \in Seqs :
                            t \in drain'[e].acked \cup drain'[e].retained => Carried(t)'
                      /\ \A t \in Seqs : row'[t] \in {"kept", "gone"} => Carried(t)'
    BY DEF CarriedInv
  <2>1. /\ Carried(s)' /\ \A t : Carried(t) => Carried(t)'
        /\ \A t \in window' : Carried(t)'
    BY <1>5, StoreCarries DEF Publish
  <2>2. \A e \in Drains : /\ drain'[e].acked \subseteq drain[e].acked \cup {s}
                          /\ drain'[e].retained \subseteq drain[e].retained \cup {s}
    BY <1>5 DEF Publish, TypeOK
  <2>. QED
    BY <1>5, <2>1, <2>2 DEF Publish, CarriedInv
<1>6. ASSUME NEW d \in Drains, NEW s \in Seqs, NEW b \in BOOLEAN, PublishFails(d, s, b)
      PROVE  CarriedInv'
  <2>. SUFFICES ASSUME DurableFirst
               PROVE  /\ durable'
                      /\ \A t \in window' : Carried(t)'
                      /\ \A e \in Drains, t \in Seqs :
                            t \in drain'[e].acked \cup drain'[e].retained => Carried(t)'
                      /\ \A t \in Seqs : row'[t] \in {"kept", "gone"} => Carried(t)'
    BY DEF CarriedInv
  <2>1. /\ \A t : Carried(t) => Carried(t)'
        /\ \A t \in window' : Carried(t)'
    <3>1. CASE b
      BY <1>6, <3>1, StoreCarries DEF PublishFails
    <3>2. CASE ~b
      BY <1>6, <3>2 DEF PublishFails, streamVars, matchVars, CarriedInv, Carried, OnBus
    <3>. QED
      BY <3>1, <3>2
  <2>2. \A e \in Drains : drain'[e].acked = drain[e].acked /\ drain'[e].retained = drain[e].retained
    BY <1>6 DEF PublishFails, TypeOK
  <2>. QED
    BY <1>6, <2>1, <2>2 DEF PublishFails, CarriedInv
<1>7. ASSUME NEW d \in Drains, NEW s \in Seqs, NEW b \in BOOLEAN, Retain(d, s, b)
      PROVE  CarriedInv'
  BY <1>7 DEF Retain, Fault, NoFault, streamVars, matchVars, CarriedInv, TypeOK, Carried, OnBus, AckInv
<1>8. ASSUME NEW d \in Drains, NEW b \in BOOLEAN, Ack(d, b)
      PROVE  CarriedInv'
  BY <1>8 DEF Ack, Fault, NoFault, Idle, streamVars, matchVars, CarriedInv, TypeOK, Carried, OnBus, AckInv
<1>9. ASSUME NEW d \in Drains, CrashDrain(d)
      PROVE  CarriedInv'
  BY <1>9 DEF CrashDrain, Fault, Idle, streamVars, matchVars, CarriedInv, TypeOK, Carried, OnBus, AckInv
<1>10. ASSUME NEW s \in Seqs, Forget(s)
      PROVE  CarriedInv'
  BY <1>10 DEF Forget, Fault, streamVars, matchVars, CarriedInv, TypeOK, Carried, OnBus, AckInv
<1>11. ASSUME NEW s \in Seqs, Reap(s)
      PROVE  CarriedInv'
  BY <1>11 DEF Reap, Settled, streamVars, matchVars, CarriedInv, TypeOK, Carried, OnBus, AckInv
<1>12. ASSUME ConsumeBalanced
      PROVE  CarriedInv'
  BY <1>12 DEF ConsumeBalanced, streamVars, matchVars, CarriedInv, TypeOK, Carried, OnBus, AckInv
<1>13. ASSUME NEW m \in Matchers, NEW msg \in bus, Receive(m, msg)
      PROVE  CarriedInv'
  BY <1>13 DEF Receive, Fault, NoFault, streamVars, matchVars, CarriedInv, TypeOK, Carried, OnBus, AckInv
<1>14. ASSUME NEW m \in Matchers, NEW ok \in BOOLEAN, NEW found \in BOOLEAN, Process(m, ok, found)
      PROVE  CarriedInv'
  BY <1>14 DEF Process, Resolves, NoFault, Fault, Oversized, streamVars, matchVars, CarriedInv, TypeOK, Carried, OnBus, AckInv
<1>15. ASSUME NEW m \in Matchers, NEW b \in BOOLEAN, AckMessage(m, b)
      PROVE  CarriedInv'
  BY <1>15 DEF AckMessage, Fault, NoFault, NoWork, streamVars, matchVars, CarriedInv, TypeOK, Carried, OnBus, AckInv
<1>16. ASSUME NEW m \in Matchers, CrashMatcher(m)
      PROVE  CarriedInv'
  BY <1>16 DEF CrashMatcher, Fault, NoWork, streamVars, matchVars, CarriedInv, TypeOK, Carried, OnBus, AckInv
<1>17. CASE UNCHANGED vars
  BY <1>17 DEF vars, streamVars, matchVars, CarriedInv, Carried, OnBus, AckInv
<1>. QED
  BY <1>1, <1>2, <1>3, <1>4, <1>5, <1>6, <1>7, <1>8, <1>9, <1>10,
     <1>11, <1>12, <1>13, <1>14, <1>15, <1>16, <1>17 DEF Next, DrainStep, DrainFails, MatchStep, MatchFails

\* No step frees a row a reference still needs.
LEMMA ReferenceStep ==
    ASSUME TypeOK, CommitInv, ReferenceInv, [Next]_vars
    PROVE  ReferenceInv'
<1>1. ASSUME NEW w \in Writers, Enqueue(w)
      PROVE  ReferenceInv'
  BY <1>1 DEF Enqueue, streamVars, matchVars, ReferenceInv, TypeOK, OnBus, CommitInv, Committed, Oversized
<1>2. ASSUME NEW w \in Writers, Commit(w)
      PROVE  ReferenceInv'
  BY <1>2 DEF Commit, EndTx, Opened, streamVars, matchVars, ReferenceInv, TypeOK, OnBus, CommitInv, Committed, Oversized
<1>3. ASSUME NEW w \in Writers, Rollback(w)
      PROVE  ReferenceInv'
  BY <1>3 DEF Rollback, EndTx, Opened, streamVars, matchVars, ReferenceInv, TypeOK, OnBus, CommitInv, Committed, Oversized
<1>4. ASSUME NEW d \in Drains, Peek(d)
      PROVE  ReferenceInv'
  BY <1>4 DEF Peek, Idle, Live, streamVars, matchVars, ReferenceInv, TypeOK, OnBus, CommitInv, Committed, Oversized
<1>5. ASSUME NEW d \in Drains, NEW s \in Seqs, Publish(d, s)
      PROVE  ReferenceInv'
  BY <1>5 DEF Publish, IsOldest, Store, streamVars, matchVars, ReferenceInv, TypeOK, OnBus, CommitInv, Committed, Oversized
<1>6. ASSUME NEW d \in Drains, NEW s \in Seqs, NEW b \in BOOLEAN, PublishFails(d, s, b)
      PROVE  ReferenceInv'
  BY <1>6 DEF PublishFails, IsOldest, Store, Fault, streamVars, matchVars, ReferenceInv, TypeOK, OnBus, CommitInv, Committed, Oversized
<1>7. ASSUME NEW d \in Drains, NEW s \in Seqs, NEW b \in BOOLEAN, Retain(d, s, b)
      PROVE  ReferenceInv'
  BY <1>7 DEF Retain, Fault, NoFault, streamVars, matchVars, ReferenceInv, TypeOK, OnBus, CommitInv, Committed, Oversized
<1>8. ASSUME NEW d \in Drains, NEW b \in BOOLEAN, Ack(d, b)
      PROVE  ReferenceInv'
  BY <1>8 DEF Ack, Fault, NoFault, Idle, streamVars, matchVars, ReferenceInv, TypeOK, OnBus, CommitInv, Committed, Oversized
<1>9. ASSUME NEW d \in Drains, CrashDrain(d)
      PROVE  ReferenceInv'
  BY <1>9 DEF CrashDrain, Fault, Idle, streamVars, matchVars, ReferenceInv, TypeOK, OnBus, CommitInv, Committed, Oversized
<1>10. ASSUME NEW s \in Seqs, Forget(s)
      PROVE  ReferenceInv'
  BY <1>10 DEF Forget, Fault, streamVars, matchVars, ReferenceInv, TypeOK, OnBus, CommitInv, Committed, Oversized
<1>11. ASSUME NEW s \in Seqs, Reap(s)
      PROVE  ReferenceInv'
  BY <1>11 DEF Reap, Settled, streamVars, matchVars, ReferenceInv, TypeOK, OnBus, CommitInv, Committed, Oversized
<1>12. ASSUME ConsumeBalanced
      PROVE  ReferenceInv'
  BY <1>12 DEF ConsumeBalanced, streamVars, matchVars, ReferenceInv, TypeOK, OnBus, CommitInv, Committed, Oversized
<1>13. ASSUME NEW m \in Matchers, NEW msg \in bus, Receive(m, msg)
      PROVE  ReferenceInv'
  BY <1>13 DEF Receive, Fault, NoFault, streamVars, matchVars, ReferenceInv, TypeOK, OnBus, CommitInv, Committed, Oversized
<1>14. ASSUME NEW m \in Matchers, NEW ok \in BOOLEAN, NEW found \in BOOLEAN, Process(m, ok, found)
      PROVE  ReferenceInv'
  BY <1>14 DEF Process, Resolves, NoFault, Fault, Oversized, streamVars, matchVars, ReferenceInv, TypeOK, OnBus, CommitInv, Committed, Oversized
<1>15. ASSUME NEW m \in Matchers, NEW b \in BOOLEAN, AckMessage(m, b)
      PROVE  ReferenceInv'
  BY <1>15 DEF AckMessage, Fault, NoFault, NoWork, streamVars, matchVars, ReferenceInv, TypeOK, OnBus, CommitInv, Committed, Oversized
<1>16. ASSUME NEW m \in Matchers, CrashMatcher(m)
      PROVE  ReferenceInv'
  BY <1>16 DEF CrashMatcher, Fault, NoWork, streamVars, matchVars, ReferenceInv, TypeOK, OnBus, CommitInv, Committed, Oversized
<1>17. CASE UNCHANGED vars
  BY <1>17 DEF vars, streamVars, matchVars, ReferenceInv, OnBus, CommitInv, Committed, Oversized
<1>. QED
  BY <1>1, <1>2, <1>3, <1>4, <1>5, <1>6, <1>7, <1>8, <1>9, <1>10,
     <1>11, <1>12, <1>13, <1>14, <1>15, <1>16, <1>17 DEF Next, DrainStep, DrainFails, MatchStep, MatchFails

\* The initial state satisfies the invariant.
LEMMA InitInv == Init => SpineInv
<1>. SUFFICES ASSUME Init PROVE SpineInv
  OBVIOUS
<1>1. TypeOK
  <2>1. Idle \in [pc: {"peek", "work"}, page: SUBSET Seqs,
                  acked: SUBSET {t \in Seqs : ~Oversized(t)},
                  retained: SUBSET {t \in Seqs : Oversized(t)}]
    BY DEF Idle
  <2>2. NoWork \in [pc: {"idle", "process", "ack"}, seq: 0..MaxSeq, n: Nat]
    BY SpineAssumption DEF NoWork
  <2>. QED
    BY <2>1, <2>2, SpineAssumption DEF Init, TypeOK
<1>2. CommitInv
  BY DEF Init, CommitInv, Idle, NoWork
<1>3. CarriedInv
  BY DEF Init, CarriedInv, Idle
<1>4. AckInv
  BY DEF Init, AckInv, NoWork
<1>5. ReferenceInv
  BY DEF Init, ReferenceInv, OnBus, Idle, NoWork, Committed
<1>. QED
  BY <1>1, <1>2, <1>3, <1>4, <1>5 DEF SpineInv

\* SpineInv is an invariant of the spine.
THEOREM Invariance == Spec => []SpineInv
<1>1. Init => SpineInv
  BY InitInv
<1>2. SpineInv /\ [Next]_vars => SpineInv'
  BY TypeStep, CommitStep, AckStep, CarriedStep, ReferenceStep DEF SpineInv
<1>. QED
  BY <1>1, <1>2, PTL DEF Spec

\* The types hold whatever fails; in particular an oversized event is never
\* among the rows the drain deletes, a small one never among those it keeps.
THEOREM TypeCorrect == Spec => []TypeOK
<1>1. SpineInv => TypeOK
  BY DEF SpineInv
<1>. QED
  BY <1>1, Invariance, PTL

\* With the durable in place before the first publish, no committed event is
\* lost, however drains and matchers crash and calls fail.
THEOREM NothingLost ==
    ASSUME DurableFirst
    PROVE  Spec => []NoEventLost
<1>1. SpineInv => NoEventLost
  BY DEF SpineInv, CarriedInv, Carried, NoEventLost, Committed
<1>. QED
  BY <1>1, Invariance, PTL

\* A claim-check reference that can still be delivered resolves, as long as the
\* consumer lags less than the reap waits.
THEOREM ReferencesResolve == Spec => []ReferenceResolves
<1>1. SpineInv => ReferenceResolves
  BY DEF SpineInv, ReferenceInv, ReferenceResolves
<1>. QED
  BY <1>1, Invariance, PTL

\* Every step of the spine is a commit, a notification or a stutter of the
\* feed.
LEMMA FeedStep ==
    ASSUME SpineInv, [Next]_vars
    PROVE  [Feed!Next]_feed
<1>. USE DEF SpineInv
<1>1. ASSUME NEW w \in Writers, Commit(w)
      PROVE  Feed!Commit
  <2>1. Opened(w) \in SUBSET Seqs
    BY DEF Opened
  <2>2. \A s \in Opened(w) : feed[s] = "absent"
    BY DEF Opened, feed, CommitInv, Committed
  <2>3. feed' = [s \in Seqs |-> IF s \in Opened(w) THEN "due" ELSE feed[s]]
    BY <1>1, <2>2 DEF Commit, EndTx, feed, matchVars, Committed, CommitInv, Opened
  <2>. QED
    BY <2>1, <2>2, <2>3 DEF Feed!Commit
<1>2. ASSUME NEW m \in Matchers, NEW ok \in BOOLEAN, NEW found \in BOOLEAN, Process(m, ok, found)
      PROVE  feed' = feed \/ \E s \in Seqs : Feed!Notify(s)
  <2>. DEFINE s == work[m].seq
  <2>1. s \in Seqs /\ row[s] \in Committed
    BY <1>2 DEF Process, CommitInv
  <2>2. CASE handled' = handled
    BY <1>2, <2>2 DEF Process, feed
  <2>3. CASE s \in handled
    <3>1. handled' = handled
      BY <1>2, <2>3 DEF Process
    <3>. QED
      BY <1>2, <3>1 DEF Process, feed
  <2>4. CASE s \notin handled /\ handled' # handled
    <3>1. handled' = handled \cup {s} /\ row' = row
      BY <1>2, <2>4 DEF Process
    <3>2. feed[s] = "due"
      BY <2>1, <2>4 DEF feed
    <3>3. feed' = [feed EXCEPT ![s] = "notified"]
      BY <3>1, <2>1 DEF feed
    <3>. QED
      BY <2>1, <3>2, <3>3 DEF Feed!Notify
  <2>. QED
    BY <2>2, <2>3, <2>4
<1>3. ASSUME \A s \in Seqs : (row'[s] \in Committed) = (row[s] \in Committed), handled' = handled
      PROVE  feed' = feed
  BY <1>3 DEF feed
<1>4. ASSUME NEW w \in Writers, Enqueue(w)
      PROVE  feed' = feed
  BY <1>4, <1>3 DEF Enqueue, streamVars, matchVars, TypeOK, CommitInv, Committed
<1>5. ASSUME NEW w \in Writers, Rollback(w)
      PROVE  feed' = feed
  BY <1>5, <1>3 DEF Rollback, EndTx, Opened, streamVars, matchVars, TypeOK, CommitInv, Committed
<1>6. ASSUME NEW d \in Drains, Peek(d)
      PROVE  feed' = feed
  BY <1>6, <1>3 DEF Peek, streamVars, matchVars, TypeOK, CommitInv, Committed
<1>7. ASSUME NEW d \in Drains, NEW s \in Seqs, Publish(d, s)
      PROVE  feed' = feed
  BY <1>7, <1>3 DEF Publish, streamVars, matchVars, TypeOK, CommitInv, Committed
<1>8. ASSUME NEW d \in Drains, NEW s \in Seqs, NEW b \in BOOLEAN, PublishFails(d, s, b)
      PROVE  feed' = feed
  BY <1>8, <1>3 DEF PublishFails, streamVars, matchVars, TypeOK, CommitInv, Committed
<1>9. ASSUME NEW d \in Drains, NEW s \in Seqs, NEW b \in BOOLEAN, Retain(d, s, b)
      PROVE  feed' = feed
  BY <1>9, <1>3 DEF Retain, streamVars, matchVars, TypeOK, CommitInv, Committed
<1>10. ASSUME NEW d \in Drains, NEW b \in BOOLEAN, Ack(d, b)
      PROVE  feed' = feed
  BY <1>10, <1>3 DEF Ack, streamVars, matchVars, TypeOK, CommitInv, Committed
<1>11. ASSUME NEW d \in Drains, CrashDrain(d)
      PROVE  feed' = feed
  BY <1>11, <1>3 DEF CrashDrain, streamVars, matchVars, TypeOK, CommitInv, Committed
<1>12. ASSUME NEW s \in Seqs, Forget(s)
      PROVE  feed' = feed
  BY <1>12, <1>3 DEF Forget, streamVars, matchVars, TypeOK, CommitInv, Committed
<1>13. ASSUME NEW s \in Seqs, Reap(s)
      PROVE  feed' = feed
  BY <1>13, <1>3 DEF Reap, streamVars, matchVars, TypeOK, CommitInv, Committed
<1>14. ASSUME ConsumeBalanced
      PROVE  feed' = feed
  BY <1>14, <1>3 DEF ConsumeBalanced, streamVars, matchVars, TypeOK, CommitInv, Committed
<1>15. ASSUME NEW m \in Matchers, NEW msg \in bus, Receive(m, msg)
      PROVE  feed' = feed
  BY <1>15, <1>3 DEF Receive, streamVars, matchVars, TypeOK, CommitInv, Committed
<1>16. ASSUME NEW m \in Matchers, NEW b \in BOOLEAN, AckMessage(m, b)
      PROVE  feed' = feed
  BY <1>16, <1>3 DEF AckMessage, streamVars, matchVars, TypeOK, CommitInv, Committed
<1>17. ASSUME NEW m \in Matchers, CrashMatcher(m)
      PROVE  feed' = feed
  BY <1>17, <1>3 DEF CrashMatcher, streamVars, matchVars, TypeOK, CommitInv, Committed
<1>18. CASE UNCHANGED vars
  BY <1>18 DEF vars, matchVars, feed
<1>. QED
  BY <1>1, <1>2, <1>4, <1>5, <1>6, <1>7, <1>8, <1>9, <1>10,
     <1>11, <1>12, <1>13, <1>14, <1>15, <1>16, <1>17, <1>18
     DEF Next, DrainStep, DrainFails, MatchStep, MatchFails, Feed!Next

\* The spine implements the change feed: nothing uncommitted is ever handed to
\* the matcher, the changes of one transaction become due together, and none is
\* taken back.
THEOREM ImplementsFeedSafety == Spec => Feed!Spec
<1>1. Init => Feed!Init
  BY DEF Init, Feed!Init, feed, Committed
<1>2. SpineInv /\ [Next]_vars => [Feed!Next]_feed
  BY FeedStep
<1>. QED
  BY <1>1, <1>2, Invariance, PTL DEF Spec, Feed!Spec

-----------------------------------------------------------------------------
(* The order of an entity's events on the stream.  OrderInv needs the types *)
(* and CommitInv of SpineInv beside it.                                     *)

\* Storing s gives it a place behind all others, or leaves the one it has.
LEMMA StoreFirst ==
    ASSUME TypeOK, StreamInv, NEW s \in Seqs, Store(s)
    PROVE  /\ first'[s] # 0
           /\ \A t \in Seqs : first'[t] = first[t] \/ (t = s /\ first[s] = 0 /\ first'[s] = tail + 1)
           /\ \A t \in Seqs : first'[t] <= tail'
           /\ window' \subseteq window \cup {s}
<1>1. tail \in Nat /\ first \in [Seqs -> Nat]
  BY DEF TypeOK
<1>2. CASE s \in window
  BY <1>1, <1>2 DEF Store, streamVars, StreamInv
<1>3. CASE s \notin window
  <2>1. /\ tail' = tail + 1 /\ window' = window \cup {s}
        /\ first' = IF first[s] = 0 THEN [first EXCEPT ![s] = tail + 1] ELSE first
    BY <1>3 DEF Store
  <2>2. \A t \in Seqs : first'[t] = IF t = s /\ first[s] = 0 THEN tail + 1 ELSE first[t]
    BY <1>1, <2>1
  <2>3. \A t \in Seqs : first[t] \in Nat /\ first[t] <= tail
    BY <1>1 DEF StreamInv
  <2>. QED
    BY <1>1, <2>1, <2>2, <2>3
<1>. QED
  BY <1>2, <1>3

\* A step that stores nothing, fills no page and moves rows only once their
\* events are stored.
Quiet ==
    /\ UNCHANGED <<event, first, tail>>
    /\ window' \subseteq window
    /\ \A s \in Seqs : \/ row'[s] = row[s]
                       \/ row[s] \in Committed /\ row'[s] \in Committed /\ first[s] # 0
    /\ \A d \in Drains : /\ drain'[d].page \in {drain[d].page, {}}
                         /\ drain'[d].acked \subseteq drain[d].acked
                         /\ drain'[d].retained \subseteq drain[d].retained

LEMMA QuietOrder ==
    ASSUME TypeOK, OrderInv, Quiet
    PROVE  OrderInv'
<1>1. /\ \A s \in Seqs : row'[s] = "free" <=> row[s] = "free"
      /\ \A s \in Seqs : row'[s] = "open" <=> row[s] = "open"
      /\ \A s \in Seqs : row'[s] \in Committed <=> row[s] \in Committed
      /\ \A s \in Seqs : row'[s] = row[s] \/ first[s] # 0
  BY DEF Quiet, Committed
<1>2. LockInv'
  BY <1>1 DEF Quiet, OrderInv, LockInv, SameEntity
<1>3. StreamInv'
  BY <1>1 DEF Quiet, OrderInv, StreamInv, Committed
<1>4. PageInv'
  BY <1>1 DEF Quiet, OrderInv, PageInv, SameEntity, Committed
<1>5. EntityOrder'
  BY <1>1 DEF Quiet, OrderInv, EntityOrder, Committed
<1>. QED
  BY <1>2, <1>3, <1>4, <1>5 DEF OrderInv

\* A drain stores the oldest row of its page.
LEMMA StoreOrder ==
    ASSUME TypeOK, CommitInv, OrderInv, NEW d \in Drains, NEW s \in Seqs,
           IsOldest(d, s), Store(s), UNCHANGED <<event, row>>,
           \A e \in Drains :
               /\ drain'[e].page \in {drain[e].page, drain[e].page \ {s}, {}}
               /\ drain'[e].acked \subseteq drain[e].acked \cup {s}
               /\ drain'[e].retained \subseteq drain[e].retained \cup {s}
    PROVE  OrderInv'
<1>1. /\ first'[s] # 0
      /\ \A t \in Seqs : first'[t] = first[t] \/ (t = s /\ first[s] = 0 /\ first'[s] = tail + 1)
      /\ \A t \in Seqs : first'[t] <= tail'
      /\ window' \subseteq window \cup {s}
  BY StoreFirst DEF OrderInv
<1>2. tail \in Nat /\ first \in [Seqs -> Nat] /\ \A t \in Seqs : first[t] <= tail
  BY DEF TypeOK, OrderInv, StreamInv
<1>3. \A t \in Seqs : first[t] # 0 => first'[t] # 0 /\ first'[t] = first[t]
  BY <1>1
<1>4. row[s] \in Committed /\ s \in drain[d].page
  BY DEF IsOldest, CommitInv
<1>5. LockInv'
  BY DEF OrderInv, LockInv, SameEntity
<1>6. StreamInv'
  <2>1. \A t \in Seqs : first'[t] # 0 => row'[t] \in Committed
    BY <1>1, <1>4 DEF OrderInv, StreamInv
  <2>2. \A t \in window' : first'[t] # 0
    BY <1>1, <1>3 DEF OrderInv, StreamInv, TypeOK
  <2>3. \A e \in Drains : \A t \in drain'[e].acked \cup drain'[e].retained : first'[t] # 0
    <3>. SUFFICES ASSUME NEW e \in Drains, NEW t \in drain'[e].acked \cup drain'[e].retained
                  PROVE  first'[t] # 0
      OBVIOUS
    <3>1. t = s \/ t \in drain[e].acked \cup drain[e].retained
      OBVIOUS
    <3>2. t \in drain[e].acked \cup drain[e].retained => t \in Seqs /\ first[t] # 0
      BY DEF TypeOK, OrderInv, StreamInv
    <3>. QED
      BY <1>1, <1>3, <3>1, <3>2
  <2>4. \A t \in Seqs : row'[t] \in {"kept", "gone"} => first'[t] # 0
    BY <1>3 DEF OrderInv, StreamInv
  <2>. QED
    BY <1>1, <2>1, <2>2, <2>3, <2>4 DEF StreamInv
<1>7. PageInv'
  <2>. SUFFICES ASSUME NEW e \in Drains, NEW u \in Seqs, NEW t \in Seqs, SameEntity(u, t)',
                       t \in drain'[e].page, row'[u] \in Committed
                PROVE  u \in drain'[e].page \/ first'[u] # 0
    BY DEF PageInv, Committed
  <2>1. t \in drain[e].page
    OBVIOUS
  <2>2. u \in drain[e].page \/ first[u] # 0
    BY <2>1 DEF OrderInv, PageInv, SameEntity
  <2>3. u = s \/ (u \in drain[e].page => u \in drain'[e].page)
    BY <2>1
  <2>. QED
    BY <1>1, <1>3, <2>2, <2>3
<1>8. EntityOrder'
  <2>. SUFFICES ASSUME NEW u \in Seqs, NEW t \in Seqs, u < t, event[u].entity = event[t].entity,
                       row[u] \in Committed, first'[t] # 0
                PROVE  first'[u] # 0 /\ first'[u] < first'[t]
    BY DEF EntityOrder, Committed
  <2>1. CASE first[t] # 0
    BY <1>3, <2>1 DEF OrderInv, EntityOrder
  <2>2. CASE first[t] = 0
    <3>1. t = s /\ first'[t] = tail + 1
      BY <1>1, <2>2
    <3>2. u \notin drain[d].page
      BY <3>1 DEF IsOldest, Seqs
    <3>3. first[u] # 0
      BY <1>4, <3>1, <3>2 DEF OrderInv, PageInv, SameEntity
    <3>4. first'[u] = first[u] /\ first[u] <= tail /\ first[u] \in Nat
      BY <1>2, <1>3, <3>3
    <3>. QED
      BY <1>2, <3>1, <3>3, <3>4
  <2>. QED
    BY <2>1, <2>2
<1>. QED
  BY <1>5, <1>6, <1>7, <1>8 DEF OrderInv

\* A page that has an event has every live one of a smaller seq.
LEMMA PageIsInitial ==
    ASSUME NEW t \in Live, NEW s \in Live, s < t,
           Cardinality({u \in Live : u < t}) < PageSize
    PROVE  Cardinality({u \in Live : u < s}) < PageSize
<1>1. {u \in Live : u < s} \subseteq {u \in Live : u < t}
  BY DEF Live, Seqs
<1>2. IsFiniteSet({u \in Live : u < t})
  <2>1. IsFiniteSet(Seqs)
    BY SpineAssumption, FS_Interval DEF Seqs
  <2>2. {u \in Live : u < t} \subseteq Seqs
    BY DEF Live
  <2>. QED
    BY <2>1, <2>2, FS_Subset
<1>3. /\ Cardinality({u \in Live : u < s}) <= Cardinality({u \in Live : u < t})
      /\ IsFiniteSet({u \in Live : u < s})
  BY <1>1, <1>2, FS_Subset
<1>4. Cardinality({u \in Live : u < s}) \in Nat /\ Cardinality({u \in Live : u < t}) \in Nat
  BY <1>2, <1>3, FS_CardinalityType
<1>. QED
  BY <1>3, <1>4, SpineAssumption

LEMMA PeekOrder ==
    ASSUME TypeOK, OrderInv, NEW d \in Drains, Peek(d)
    PROVE  OrderInv'
<1>1. UNCHANGED <<event, row, first, tail, window>>
  BY DEF Peek, streamVars
<1>2. /\ drain'[d].page = {s \in Live : Cardinality({t \in Live : t < s}) < PageSize}
      /\ drain'[d].acked = {} /\ drain'[d].retained = {}
      /\ \A e \in Drains : e # d => drain'[e] = drain[e]
  BY DEF Peek, Idle, TypeOK
<1>3. LockInv' /\ EntityOrder'
  BY <1>1 DEF OrderInv, LockInv, SameEntity, EntityOrder, Committed
<1>4. StreamInv'
  BY <1>1, <1>2 DEF OrderInv, StreamInv, Committed
<1>5. PageInv'
  <2>. SUFFICES ASSUME NEW e \in Drains, NEW s \in Seqs, NEW t \in Seqs,
                       SameEntity(s, t), t \in drain'[e].page, row[s] \in Committed
                PROVE  s \in drain'[e].page \/ first[s] # 0
    BY <1>1 DEF PageInv, SameEntity, Committed
  <2>1. CASE e # d
    BY <1>2, <2>1 DEF OrderInv, PageInv
  <2>2. CASE e = d
    <3>1. t \in Live /\ Cardinality({u \in Live : u < t}) < PageSize
      BY <1>2, <2>2
    <3>2. CASE row[s] = "live"
      <4>1. s \in Live /\ s < t
        BY <3>2 DEF Live, SameEntity
      <4>2. Cardinality({u \in Live : u < s}) < PageSize
        BY <3>1, <4>1, PageIsInitial
      <4>. QED
        BY <1>2, <2>2, <4>1, <4>2
    <3>3. CASE row[s] # "live"
      BY <3>3 DEF OrderInv, StreamInv, Committed
    <3>. QED
      BY <3>2, <3>3
  <2>. QED
    BY <2>1, <2>2
<1>. QED
  BY <1>3, <1>4, <1>5 DEF OrderInv

\* An event is enqueued behind all others, under its entity's lock.
LEMMA EnqueueOrder ==
    ASSUME TypeOK, CommitInv, OrderInv, NEW w \in Writers, Enqueue(w)
    PROVE  OrderInv'
<1>. DEFINE n == last + 1
<1>1. /\ n \in Seqs /\ row[n] = "free"
      /\ \A s \in Seqs : s <= last \/ row[s] = "free"
      /\ \A s \in Seqs : row'[s] = IF s = n THEN "open" ELSE row[s]
      /\ UNCHANGED <<event, drain, first, tail, window>>
      /\ event[n].by = w
  BY SpineAssumption DEF Enqueue, TypeOK, CommitInv, streamVars, Seqs
<1>. HIDE DEF n
<1>2. \A s \in Seqs : row[s] = "open" /\ event[s].entity = event[n].entity => event[s].by = w
  BY DEF Enqueue, n
<1>3. \A s \in Seqs : n < s => row[s] = "free"
  BY <1>1 DEF CommitInv, TypeOK, Seqs, n
<1>4. LockInv'
  BY <1>1, <1>2, <1>3 DEF OrderInv, LockInv, SameEntity, Seqs
<1>5. \A s \in Seqs : row'[s] \in Committed <=> row[s] \in Committed
  BY <1>1 DEF Committed
<1>6. \A s \in Seqs : row'[s] \in {"kept", "gone"} => row[s] \in {"kept", "gone"}
  BY <1>1
<1>7. StreamInv' /\ PageInv' /\ EntityOrder'
  BY <1>1, <1>5, <1>6 DEF OrderInv, StreamInv, PageInv, EntityOrder, SameEntity, Committed
<1>. QED
  BY <1>4, <1>7 DEF OrderInv

\* A transaction ends with all its events.
LEMMA EndOrder ==
    ASSUME TypeOK, CommitInv, OrderInv, NEW w \in Writers, Commit(w) \/ Rollback(w)
    PROVE  OrderInv'
<1>1. /\ UNCHANGED <<event, drain, first, tail, window>>
      /\ \A s \in Seqs : \/ row'[s] = row[s] /\ ~(row[s] = "open" /\ event[s].by = w)
                         \/ row[s] = "open" /\ event[s].by = w /\ row'[s] \in {"live", "void"}
  BY DEF Commit, Rollback, EndTx, Opened, streamVars
<1>2. \A s, t \in Seqs : SameEntity(s, t) /\ row[t] \in Committed => row[s] # "open"
  BY DEF OrderInv, LockInv, Committed
<1>3. \A s \in Seqs : /\ row'[s] \in Committed => row[s] \in Committed \cup {"open"}
                      /\ row[s] \in Committed => row'[s] = row[s]
                      /\ row'[s] = "open" => row[s] = "open" /\ event[s].by # w
                      /\ row'[s] # "free" => row[s] # "free"
                      /\ row[s] = "open" /\ event[s].by # w => row'[s] = "open"
  BY <1>1 DEF Committed
<1>4. LockInv'
  BY <1>1, <1>3 DEF OrderInv, LockInv, SameEntity
<1>5. StreamInv'
  <2>1. \A s \in Seqs : row'[s] \in {"kept", "gone"} => row[s] \in {"kept", "gone"}
    BY <1>1
  <2>. QED
    BY <1>1, <1>3, <2>1 DEF OrderInv, StreamInv, Committed
<1>6. \A d \in Drains : \A t \in drain[d].page : t \in Seqs /\ row[t] \in Committed
  BY DEF TypeOK, CommitInv
<1>7. \A t \in Seqs : first[t] # 0 => row[t] \in Committed
  BY DEF OrderInv, StreamInv
<1>8. PageInv'
  BY <1>1, <1>2, <1>3, <1>6 DEF OrderInv, PageInv, SameEntity, Committed
<1>9. EntityOrder'
  BY <1>1, <1>2, <1>3, <1>7 DEF OrderInv, EntityOrder, SameEntity, Committed
<1>. QED
  BY <1>4, <1>5, <1>8, <1>9 DEF OrderInv

\* Every step keeps the order.
LEMMA OrderStep ==
    ASSUME TypeOK, CommitInv, OrderInv, [Next]_vars
    PROVE  OrderInv'
<1>1. ASSUME NEW w \in Writers, Enqueue(w) \/ Commit(w) \/ Rollback(w)
      PROVE  OrderInv'
  BY <1>1, EnqueueOrder, EndOrder
<1>2. ASSUME NEW d \in Drains, Peek(d)
      PROVE  OrderInv'
  BY <1>2, PeekOrder
<1>3. ASSUME NEW d \in Drains, NEW s \in Seqs, Publish(d, s)
      PROVE  OrderInv'
  <2>1. /\ IsOldest(d, s) /\ Store(s) /\ UNCHANGED <<event, row>>
        /\ drain'[d].page = drain[d].page \ {s}
        /\ drain'[d].acked \subseteq drain[d].acked \cup {s}
        /\ drain'[d].retained \subseteq drain[d].retained \cup {s}
        /\ \A e \in Drains : e # d => drain'[e] = drain[e]
    BY <1>3 DEF Publish, TypeOK
  <2>. QED
    BY <2>1, StoreOrder
<1>4. ASSUME NEW d \in Drains, NEW s \in Seqs, NEW reached \in BOOLEAN, PublishFails(d, s, reached)
      PROVE  OrderInv'
  <2>1. /\ IsOldest(d, s) /\ UNCHANGED <<event, row>>
        /\ drain'[d].page = {}
        /\ drain'[d].acked = drain[d].acked /\ drain'[d].retained = drain[d].retained
        /\ \A e \in Drains : e # d => drain'[e] = drain[e]
    BY <1>4 DEF PublishFails, TypeOK
  <2>2. CASE Store(s)
    BY <2>1, <2>2, StoreOrder
  <2>3. CASE UNCHANGED streamVars
    BY <2>1, <2>3, QuietOrder DEF Quiet, streamVars
  <2>. QED
    BY <1>4, <2>2, <2>3 DEF PublishFails
<1>5. ASSUME NEW d \in Drains, NEW s \in Seqs, NEW ok \in BOOLEAN, Retain(d, s, ok)
      PROVE  OrderInv'
  <2>1. /\ UNCHANGED <<event, first, tail, window>>
        /\ drain'[d].page = drain[d].page /\ drain'[d].acked = drain[d].acked
        /\ drain'[d].retained \subseteq drain[d].retained
        /\ \A e \in Drains : e # d => drain'[e] = drain[e]
    BY <1>5 DEF Retain, streamVars, TypeOK
  <2>2. first[s] # 0
    BY <1>5 DEF Retain, OrderInv, StreamInv
  <2>3. \A t \in Seqs : \/ row'[t] = row[t]
                        \/ t = s /\ row[t] = "live" /\ row'[t] = "kept"
    BY <1>5 DEF Retain, TypeOK
  <2>4. Quiet
    BY <2>1, <2>2, <2>3 DEF Quiet, Committed
  <2>. QED
    BY <2>4, QuietOrder
<1>6. ASSUME NEW d \in Drains, NEW ok \in BOOLEAN, Ack(d, ok)
      PROVE  OrderInv'
  <2>1. /\ UNCHANGED <<event, first, tail, window>>
        /\ drain'[d] = Idle /\ \A e \in Drains : e # d => drain'[e] = drain[e]
    BY <1>6 DEF Ack, streamVars, TypeOK
  <2>2. \A t \in drain[d].acked : t \in Seqs /\ row[t] \in Committed /\ first[t] # 0
    BY DEF TypeOK, CommitInv, OrderInv, StreamInv
  <2>3. \A t \in Seqs : row'[t] = row[t] \/ (t \in drain[d].acked /\ row'[t] = "gone")
    BY <1>6 DEF Ack
  <2>4. Quiet
    BY <2>1, <2>2, <2>3 DEF Quiet, Idle, Committed
  <2>. QED
    BY <2>4, QuietOrder
<1>7. ASSUME NEW d \in Drains, CrashDrain(d)
      PROVE  OrderInv'
  <2>1. /\ UNCHANGED <<event, row, first, tail, window>>
        /\ drain'[d] = Idle /\ \A e \in Drains : e # d => drain'[e] = drain[e]
    BY <1>7 DEF CrashDrain, streamVars, TypeOK
  <2>2. Quiet
    BY <2>1 DEF Quiet, Idle
  <2>. QED
    BY <2>2, QuietOrder
<1>8. ASSUME NEW s \in Seqs, Reap(s)
      PROVE  OrderInv'
  <2>1. /\ UNCHANGED <<event, drain, first, tail, window>>
        /\ \A t \in Seqs : row'[t] = row[t] \/ (t = s /\ row[t] = "kept" /\ row'[t] = "gone")
    BY <1>8 DEF Reap, streamVars, TypeOK
  <2>2. row[s] = "kept" => first[s] # 0
    BY DEF OrderInv, StreamInv
  <2>3. Quiet
    BY <2>1, <2>2 DEF Quiet, Committed
  <2>. QED
    BY <2>3, QuietOrder
<1>9. ASSUME UNCHANGED <<event, row, drain, first, tail>>, window' \subseteq window
      PROVE  OrderInv'
  <2>1. Quiet
    BY <1>9 DEF Quiet
  <2>. QED
    BY <2>1, QuietOrder
<1>10. ASSUME NEW s \in Seqs, Forget(s)
       PROVE  OrderInv'
  BY <1>9, <1>10 DEF Forget
<1>11. ASSUME NEW m \in Matchers, MatchStep(m) \/ MatchFails(m)
       PROVE  OrderInv'
  BY <1>9, <1>11 DEF MatchStep, MatchFails, Receive, Process, AckMessage, CrashMatcher, streamVars
<1>12. CASE ConsumeBalanced \/ UNCHANGED vars
  BY <1>9, <1>12 DEF ConsumeBalanced, vars, streamVars
<1>. QED
  BY <1>1, <1>2, <1>3, <1>4, <1>5, <1>6, <1>7, <1>8, <1>10, <1>11, <1>12
     DEF Next, DrainStep, DrainFails

\* For one entity the stream has its committed events in commit order, each
\* with every earlier one before it, however many drains publish, fail and
\* crash (pg/outbox.rs: "publishing order is the commit order").
THEOREM OrderKept == Spec => []EntityOrder
<1>1. Init => OrderInv
  BY DEF Init, OrderInv, LockInv, StreamInv, PageInv, EntityOrder, Idle, Committed, SameEntity
<1>2. SpineInv /\ OrderInv /\ [Next]_vars => OrderInv'
  BY OrderStep DEF SpineInv
<1>3. OrderInv => EntityOrder
  BY DEF OrderInv
<1>. QED
  BY <1>1, <1>2, <1>3, Invariance, PTL DEF Spec

-----------------------------------------------------------------------------
(* The walk of a match set (MatchWalk): every number of entities, every    *)
(* size of a window and every filter, over variables of its own.           *)

CONSTANTS Ids, Attrs, Queries, Chunk, Paged, Writes, MaxWrites
VARIABLES ents, walk, stayed, writes

Walk == INSTANCE MatchWalk WITH row <- ents

\* Entities have numbers in the order the store returns them, and the other
\* requests add: one that takes away moves rows up past the offset.
WalkGiven ==
    /\ Ids \subseteq Int /\ IsFiniteSet(Ids)
    /\ Chunk \in Nat /\ Paged \in BOOLEAN /\ MaxWrites \in Nat
    /\ Writes \subseteq {"create", "add"} /\ Queries \subseteq Walk!Walked

LEMMA WalkCount ==
    ASSUME NEW S
    PROVE  Walk!Cardinality(S) = Cardinality(S)
BY DEF Walk!Cardinality, Cardinality

Lower(i, S) == {j \in S : j < i}
Place(i, S) == Cardinality(Lower(i, S))

LEMMA Places ==
    ASSUME WalkGiven, NEW S \in SUBSET Ids, NEW i
    PROVE  /\ IsFiniteSet(S) /\ Cardinality(S) \in Nat
           /\ IsFiniteSet(Lower(i, S)) /\ Lower(i, S) \in SUBSET S /\ Place(i, S) \in Nat
           /\ Walk!Before(i, S) = Place(i, S)
<1>1. IsFiniteSet(S) /\ Cardinality(S) \in Nat
  BY FS_Subset, FS_CardinalityType DEF WalkGiven
<1>2. IsFiniteSet(Lower(i, S)) /\ Lower(i, S) \in SUBSET S
  BY <1>1, FS_Subset DEF Lower
<1>3. Place(i, S) \in Nat
  BY <1>2, FS_CardinalityType DEF Place
<1>. QED
  BY <1>1, <1>2, <1>3, WalkCount DEF Walk!Before, Place, Lower

\* What was before an entity stays before it, but for what is taken away.
LEMMA PlaceMoves ==
    ASSUME WalkGiven, NEW S \in SUBSET Ids, NEW T \in SUBSET Ids, NEW B \in SUBSET Ids,
           S \ B \subseteq T, NEW i
    PROVE  Place(i, T) >= Place(i, S) - Cardinality(B)
<1>. DEFINE L == Lower(i, S)
            K == L \ B
<1>1. IsFiniteSet(L) /\ IsFiniteSet(Lower(i, T)) /\ IsFiniteSet(B)
      /\ Place(i, S) \in Nat /\ Place(i, T) \in Nat /\ Cardinality(B) \in Nat
  BY Places
<1>2. Cardinality(K) = Cardinality(L) - Cardinality(L \cap B)
  BY <1>1, FS_Difference
<1>3. Cardinality(L \cap B) <= Cardinality(B) /\ Cardinality(L \cap B) \in Nat
  BY <1>1, FS_Subset, FS_CardinalityType
<1>4. K \in SUBSET Lower(i, T)
  BY DEF Lower
<1>5. Cardinality(K) <= Cardinality(Lower(i, T))
  BY <1>1, <1>4, FS_Subset
<1>6. Cardinality(L) = Place(i, S) /\ Cardinality(Lower(i, T)) = Place(i, T)
  BY DEF Place
<1>. HIDE DEF L, K
<1>. QED
  BY <1>1, <1>2, <1>3, <1>5, <1>6

LEMMA PlaceGrows ==
    ASSUME WalkGiven, NEW S \in SUBSET Ids, NEW T \in SUBSET Ids, S \subseteq T, NEW i
    PROVE  Place(i, T) >= Place(i, S)
<1>1. Cardinality({}) = 0 /\ {} \in SUBSET Ids /\ S \ {} \subseteq T
  BY FS_EmptySet
<1>2. Place(i, T) >= Place(i, S) - Cardinality({})
  BY <1>1, PlaceMoves
<1>3. Place(i, T) \in Nat /\ Place(i, S) \in Nat
  BY Places
<1>. QED
  BY <1>1, <1>2, <1>3

\* The first n of a set are n of it, or all.
Front(n, S) == {i \in S : Place(i, S) < n}

LEMMA FrontEnough ==
    ASSUME WalkGiven, NEW S \in SUBSET Ids, NEW n \in Nat, n <= Cardinality(S)
    PROVE  n <= Cardinality(Front(n, S))
<1>. DEFINE F == Front(n, S)
            T == S \ F
            U == {Lower(i, S) : i \in T}
<1>1. IsFiniteSet(S) /\ F \in SUBSET S
  BY Places DEF Front
<1>2. IsFiniteSet(F) /\ Cardinality(F) \in Nat
  BY <1>1, FS_Subset, FS_CardinalityType
<1>3. CASE T = {}
  <2>1. F = S
    BY <1>1, <1>3
  <2>. QED
    BY <2>1
<1>4. CASE T # {}
  <2>1. IsWellFoundedOn(StrictSubsetOrdering(S), FiniteSubsetsOf(S))
    BY FS_StrictSubsetOrderingWellFounded
  <2>2. \A i \in S : IsFiniteSet(Lower(i, S)) /\ Lower(i, S) \in SUBSET S
    BY Places
  <2>3. U \subseteq FiniteSubsetsOf(S) /\ U # {}
    BY <1>4, <2>2 DEF FiniteSubsetsOf
  <2>4. PICK x \in U : \A y \in U : ~ (<<y, x>> \in StrictSubsetOrdering(S))
    <3>. HIDE DEF U
    <3>. QED
      BY <2>1, <2>3, WFMin
  <2>5. PICK m \in T : x = Lower(m, S)
    BY <2>4
  <2>6. ASSUME NEW j \in T, j \in Lower(m, S)
        PROVE  FALSE
    <3>1. j \in Int /\ m \in Int /\ j < m
      BY <2>6 DEF Lower, WalkGiven
    <3>2. \A k \in S : k \in Int /\ ~(j < j) /\ (k < j => k < m)
      BY <3>1 DEF WalkGiven
    <3>3. Lower(j, S) \subseteq Lower(m, S) /\ j \notin Lower(j, S)
      BY <3>2 DEF Lower
    <3>4. <<Lower(j, S), Lower(m, S)>> \in StrictSubsetOrdering(S)
      BY <2>2, <2>6, <3>3 DEF StrictSubsetOrdering
    <3>. QED
      BY <2>4, <2>5, <2>6, <3>4
  <2>7. Lower(m, S) \in SUBSET F
    BY <2>2, <2>6
  <2>8. Place(m, S) <= Cardinality(F)
    BY <1>2, <2>7, FS_Subset DEF Place
  <2>9. ~(Place(m, S) < n) /\ Place(m, S) \in Nat
    BY Places DEF Front
  <2>. HIDE DEF F
  <2>10. n <= Cardinality(F)
    BY <1>2, <2>8, <2>9
  <2>. QED
    BY <2>10 DEF F
<1>. QED
  BY <1>3, <1>4

LEMMA FrontFew ==
    ASSUME WalkGiven, NEW S \in SUBSET Ids, NEW n \in Nat
    PROVE  IsFiniteSet(Front(n, S)) /\ Cardinality(Front(n, S)) \in Nat /\ Cardinality(Front(n, S)) <= n
<1>. DEFINE F == Front(n, S)
            Upper(i) == {j \in F : j > i}
            U == {Upper(i) : i \in F}
<1>1. IsFiniteSet(S) /\ F \in SUBSET S
  BY Places DEF Front
<1>2. IsFiniteSet(F) /\ Cardinality(F) \in Nat
  BY <1>1, FS_Subset, FS_CardinalityType
<1>3. CASE F = {}
  BY <1>2, <1>3, FS_EmptySet
<1>4. CASE F # {}
  <2>1. IsWellFoundedOn(StrictSubsetOrdering(F), FiniteSubsetsOf(F))
    BY <1>2, FS_StrictSubsetOrderingWellFounded
  <2>2. \A i \in F : IsFiniteSet(Upper(i)) /\ Upper(i) \in SUBSET F
    BY <1>2, FS_Subset
  <2>3. U \subseteq FiniteSubsetsOf(F) /\ U # {}
    BY <1>4, <2>2 DEF FiniteSubsetsOf
  <2>4. PICK x \in U : \A y \in U : ~ (<<y, x>> \in StrictSubsetOrdering(F))
    <3>. HIDE DEF U
    <3>. QED
      BY <2>1, <2>3, WFMin
  <2>5. PICK m \in F : x = Upper(m)
    BY <2>4
  <2>6. m \in Int /\ F \subseteq Int
    BY <1>1 DEF WalkGiven
  <2>. HIDE DEF F
  <2>7. ASSUME NEW j \in F, j > m
        PROVE  FALSE
    <3>0. \A k \in F : k \in Int /\ ~(j > j) /\ (k > j => k > m)
      BY <2>6, <2>7
    <3>1. Upper(j) \subseteq Upper(m) /\ j \in Upper(m) /\ j \notin Upper(j)
      BY <2>7, <3>0
    <3>2. <<Upper(j), Upper(m)>> \in StrictSubsetOrdering(F)
      BY <2>2, <3>1 DEF StrictSubsetOrdering
    <3>. QED
      BY <2>4, <2>5, <3>2
  <2>8. F \ {m} \in SUBSET Lower(m, S)
    BY <1>1, <2>6, <2>7 DEF Lower
  <2>9. Place(m, S) < n /\ Place(m, S) \in Nat /\ IsFiniteSet(Lower(m, S))
    BY Places DEF Front, F
  <2>10. Cardinality(F \ {m}) <= Place(m, S)
    BY <2>8, <2>9, FS_Subset DEF Place
  <2>11. Cardinality(F \ {m}) = Cardinality(F) - 1
    BY <1>2, FS_RemoveElement
  <2>. QED
    BY <1>2, <2>9, <2>10, <2>11 DEF F
<1>. QED
  BY <1>3, <1>4

\* A window holds no more than Chunk, and no fewer if anything is beyond it.
LEMMA WindowSize ==
    ASSUME WalkGiven, NEW S \in SUBSET Ids, NEW o \in Nat
    PROVE  LET W == {i \in S : Place(i, S) \in o..(o + Chunk - 1)}
           IN /\ IsFiniteSet(W) /\ Cardinality(W) \in Nat /\ Cardinality(W) <= Chunk
              /\ \A i \in S : Place(i, S) >= o + Chunk => Cardinality(W) >= Chunk
<1>. DEFINE W == {i \in S : Place(i, S) \in o..(o + Chunk - 1)}
            A == Front(o, S)
            B == Front(o + Chunk, S)
<1>0. IsFiniteSet(S) /\ Cardinality(S) \in Nat
  BY Places
<1>1. Chunk \in Nat /\ o + Chunk \in Nat /\ IsFiniteSet(S) /\ Cardinality(S) \in Nat
  BY <1>0 DEF WalkGiven
<1>2. \A i \in S : Place(i, S) \in Nat
  BY Places
<1>3. W = B \ A /\ A \in SUBSET B
  BY <1>1, <1>2 DEF Front
<1>4. /\ IsFiniteSet(A) /\ Cardinality(A) \in Nat /\ Cardinality(A) <= o
      /\ IsFiniteSet(B) /\ Cardinality(B) \in Nat /\ Cardinality(B) <= o + Chunk
  BY <1>1, FrontFew
<1>5. B \cap A = A
  BY <1>3
<1>6. IsFiniteSet(W) /\ Cardinality(W) = Cardinality(B) - Cardinality(A) /\ Cardinality(W) \in Nat
  <2>1. IsFiniteSet(B \ A) /\ Cardinality(B \ A) = Cardinality(B) - Cardinality(B \cap A)
    BY <1>4, FS_Difference
  <2>2. IsFiniteSet(W) /\ Cardinality(W) = Cardinality(B) - Cardinality(A)
    BY <1>3, <1>5, <2>1
  <2>. QED
    BY <2>2, FS_CardinalityType
<1>7. Cardinality(W) <= Chunk
  <2>1. CASE o <= Cardinality(S)
    <3>1. o <= Cardinality(A)
      BY <2>1, FrontEnough
    <3>. HIDE DEF W, A, B
    <3>. QED
      BY <1>1, <1>4, <1>6, <3>1
  <2>2. CASE Cardinality(S) < o
    <3>1. ASSUME NEW i \in S PROVE Place(i, S) < o
      <4>1. Lower(i, S) \in SUBSET S /\ Place(i, S) \in Nat
        BY Places
      <4>2. Place(i, S) <= Cardinality(S)
        BY <1>1, <4>1, FS_Subset DEF Place
      <4>. QED
        BY <1>1, <2>2, <4>1, <4>2
    <3>2. W = {}
      BY <1>1, <1>2, <3>1
    <3>3. Cardinality(W) = 0
      BY <3>2, FS_EmptySet
    <3>. QED
      BY <1>1, <3>3
  <2>. QED
    BY <1>1, <2>1, <2>2
<1>8. ASSUME NEW i \in S, Place(i, S) >= o + Chunk
      PROVE  Cardinality(W) >= Chunk
  <2>1. Lower(i, S) \in SUBSET S /\ Place(i, S) \in Nat
    BY Places
  <2>2. Place(i, S) <= Cardinality(S)
    BY <1>1, <2>1, FS_Subset DEF Place
  <2>3. o + Chunk <= Cardinality(S)
    BY <1>1, <1>8, <2>1, <2>2
  <2>4. o + Chunk <= Cardinality(B)
    BY <1>1, <2>3, FrontEnough
  <2>. HIDE DEF W, A, B
  <2>. QED
    BY <1>1, <1>4, <1>6, <2>4
<1>. HIDE DEF W
<1>9. /\ IsFiniteSet(W) /\ Cardinality(W) \in Nat /\ Cardinality(W) <= Chunk
      /\ \A i \in S : Place(i, S) >= o + Chunk => Cardinality(W) >= Chunk
  BY <1>6, <1>7, <1>8
<1>. QED
  BY <1>9 DEF W

\* The entities the walk still has to come to: nobody else wrote them, and they
\* are there, not pruned, or not in the map yet.
ToDo(w, r, s) ==
    {i \in s : CASE w.q.mode = "delete" -> i \in DOMAIN r
                 [] w.q.mode = "prune"  -> r[i] \cap w.q.purged # {}
                 [] w.q.mode = "map"    -> i \notin w.out}

Full(w) == w.q.mode = "map" /\ Cardinality(w.out) = Chunk

\* Between two rounds they are not before the offset.  Within a round they are
\* in the batch or not before the end of the window, and then the window was
\* full; when the walk ends there are none.
WalkInv ==
    LET all == Walk!Selected(walk.q, ents)
        todo == ToDo(walk, ents, stayed)
    IN /\ Walk!TypeOK
       /\ todo \subseteq Walk!Matched(walk.q, ents)
       /\ walk.q.mode # "delete" => stayed \subseteq DOMAIN ents
       /\ Cardinality(walk.out) <= Chunk
       /\ walk.pc = "read" => Full(walk) \/ \A i \in todo : Place(i, all) >= walk.offset
       /\ walk.pc = "apply" =>
             /\ walk.q.mode # "map"
             /\ walk.batch \subseteq DOMAIN ents /\ Cardinality(walk.batch) <= walk.rows
             /\ \A i \in todo \ walk.batch : Paged /\ walk.rows >= Chunk
                                               /\ Place(i, all) >= walk.offset + walk.rows
       /\ walk.pc = "done" => Full(walk) \/ todo = {}

WalkStates == [pc : {"read", "apply", "done", "failed"}, q : Walk!Walked, offset : Nat,
               batch : SUBSET Ids, rows : Nat, out : SUBSET Ids]

LEMMA WalkFacts ==
    ASSUME WalkGiven, Walk!TypeOK
    PROVE  /\ walk \in WalkStates /\ walk.q \in Walk!Walked /\ walk.offset \in Nat /\ walk.rows \in Nat
           /\ walk.q.mode \in {"delete", "prune", "map"} /\ Chunk \in Nat
           /\ walk.batch \in SUBSET Ids /\ walk.out \in SUBSET Ids
           /\ IsFiniteSet(walk.batch) /\ Cardinality(walk.batch) \in Nat
           /\ IsFiniteSet(walk.out) /\ Cardinality(walk.out) \in Nat
           /\ DOMAIN ents \subseteq Ids
           /\ Walk!Selected(walk.q, ents) \in SUBSET Ids
           /\ Walk!Matched(walk.q, ents) = Walk!Selected(walk.q, ents) \cap walk.q.ids
<1>1. walk \in WalkStates
  BY DEF Walk!TypeOK, WalkStates
<1>2. /\ walk.q \in Walk!Walked /\ walk.offset \in Nat /\ walk.rows \in Nat
      /\ walk.batch \in SUBSET Ids /\ walk.out \in SUBSET Ids
  BY <1>1 DEF WalkStates
<1>3. walk.q.mode \in {"delete", "prune", "map"}
  BY <1>2 DEF Walk!Walked, Walk!Modes
<1>4. DOMAIN ents \subseteq Ids
  BY DEF Walk!TypeOK
<1>5. Walk!Selected(walk.q, ents) \in SUBSET Ids
  BY <1>4 DEF Walk!Selected
<1>6. /\ IsFiniteSet(walk.batch) /\ Cardinality(walk.batch) \in Nat
      /\ IsFiniteSet(walk.out) /\ Cardinality(walk.out) \in Nat
  BY <1>2, Places
<1>7. Chunk \in Nat
  BY DEF WalkGiven
<1>. QED
  BY <1>1, <1>2, <1>3, <1>4, <1>5, <1>6, <1>7 DEF Walk!Matched

\* What a round's window is.
LEMMA Windows ==
    ASSUME WalkGiven, Walk!TypeOK
    PROVE  LET all == Walk!Selected(walk.q, ents)
               win == Walk!Window(walk.q, walk.offset)
           IN /\ win \in SUBSET all /\ win \in SUBSET Ids
              /\ IsFiniteSet(win) /\ Cardinality(win) \in Nat
              /\ ~Paged => win = all
              /\ Paged => Cardinality(win) <= Chunk
              /\ \A i \in all \ win : Place(i, all) >= walk.offset =>
                    /\ Paged /\ Cardinality(win) = Chunk
                    /\ Place(i, all) >= walk.offset + Cardinality(win)
<1>. DEFINE all == Walk!Selected(walk.q, ents)
            win == Walk!Window(walk.q, walk.offset)
            W == {i \in all : Place(i, all) \in walk.offset..(walk.offset + Chunk - 1)}
<1>1. all \in SUBSET Ids /\ walk.offset \in Nat /\ Chunk \in Nat
  BY WalkFacts
<1>2. \A i \in all : Walk!Before(i, all) = Place(i, all) /\ Place(i, all) \in Nat
  BY <1>1, Places
<1>3. Paged => win = W
  BY <1>2 DEF Walk!Window
<1>4. ~Paged => win = all
  BY DEF Walk!Window
<1>5. win \in SUBSET all
  BY <1>3, <1>4
<1>. HIDE DEF all, win
<1>6. win \in SUBSET Ids /\ IsFiniteSet(win) /\ Cardinality(win) \in Nat
  BY <1>1, <1>5, Places
<1>7. /\ Cardinality(W) <= Chunk
      /\ \A i \in all : Place(i, all) >= walk.offset + Chunk => Cardinality(W) >= Chunk
  BY <1>1, WindowSize
<1>8. ASSUME NEW i \in all \ win, Place(i, all) >= walk.offset
      PROVE  /\ Paged /\ Cardinality(win) = Chunk
             /\ Place(i, all) >= walk.offset + Cardinality(win)
  <2>1. Paged /\ win = W
    BY <1>3, <1>4, <1>8 DEF WalkGiven
  <2>2. Place(i, all) >= walk.offset + Chunk
    BY <1>1, <1>2, <1>8, <2>1
  <2>3. Cardinality(W) >= Chunk
    BY <1>7, <2>2
  <2>. HIDE DEF W
  <2>. QED
    BY <1>1, <1>6, <1>7, <2>1, <2>2, <2>3
<1>9. Paged => Cardinality(win) <= Chunk
  BY <1>3, <1>7
<1>10. /\ win \in SUBSET all /\ win \in SUBSET Ids
       /\ IsFiniteSet(win) /\ Cardinality(win) \in Nat
       /\ ~Paged => win = all
       /\ Paged => Cardinality(win) <= Chunk
       /\ \A i \in all \ win : Place(i, all) >= walk.offset =>
             /\ Paged /\ Cardinality(win) = Chunk
             /\ Place(i, all) >= walk.offset + Cardinality(win)
  BY <1>4, <1>5, <1>6, <1>8, <1>9
<1>. QED
  BY <1>10 DEF all, win

LEMMA WalkReads ==
    ASSUME WalkGiven, WalkInv, Walk!filter_entities_paged
    PROVE  WalkInv'
<1>. DEFINE all == Walk!Selected(walk.q, ents)
            win == Walk!Window(walk.q, walk.offset)
            todo == ToDo(walk, ents, stayed)
<1>1. Walk!TypeOK /\ walk.pc = "read" /\ walk.q.mode # "map"
  BY DEF WalkInv, Walk!filter_entities_paged
<1>2. UNCHANGED <<ents, stayed, writes>>
  BY DEF Walk!filter_entities_paged
<1>3. walk \in WalkStates
  BY <1>1, WalkFacts
<1>4. /\ win \in SUBSET all /\ win \in SUBSET Ids
      /\ IsFiniteSet(win) /\ Cardinality(win) \in Nat
      /\ \A i \in all \ win : Place(i, all) >= walk.offset =>
            /\ Paged /\ Cardinality(win) = Chunk
            /\ Place(i, all) >= walk.offset + Cardinality(win)
  BY <1>1, Windows
<1>5. walk' = [walk EXCEPT !.pc = "apply", !.rows = Cardinality(win), !.batch = win \cap walk.q.ids]
  BY WalkCount DEF Walk!filter_entities_paged
<1>. HIDE DEF win
<1>6. /\ walk' \in WalkStates /\ walk'.q = walk.q /\ walk'.out = walk.out /\ walk'.offset = walk.offset
      /\ walk'.pc = "apply" /\ walk'.rows = Cardinality(win) /\ walk'.batch = win \cap walk.q.ids
  BY <1>3, <1>4, <1>5 DEF WalkStates
<1>7. ToDo(walk', ents', stayed') = todo
  BY <1>2, <1>6 DEF ToDo
<1>8. Walk!Selected(walk'.q, ents') = all /\ Walk!Matched(walk'.q, ents') = all \cap walk.q.ids
  BY <1>2, <1>6 DEF Walk!Matched
<1>9. todo \subseteq all \cap walk.q.ids /\ \A i \in todo : Place(i, all) >= walk.offset
  BY <1>1 DEF WalkInv, Full, Walk!Matched
<1>10. Cardinality(walk'.batch) <= walk'.rows /\ walk'.batch \subseteq DOMAIN ents'
  <2>1. win \cap walk.q.ids \in SUBSET win
    OBVIOUS
  <2>2. Cardinality(win \cap walk.q.ids) <= Cardinality(win)
    BY <1>4, <2>1, FS_Subset
  <2>3. all \subseteq DOMAIN ents
    BY DEF Walk!Selected
  <2>. QED
    BY <1>2, <1>4, <1>6, <2>2, <2>3
<1>11. \A i \in todo \ walk'.batch : Paged /\ walk'.rows >= Chunk
                                      /\ Place(i, all) >= walk'.offset + walk'.rows
  <2>. SUFFICES ASSUME NEW i \in todo \ walk'.batch
                PROVE  Paged /\ walk'.rows >= Chunk /\ Place(i, all) >= walk'.offset + walk'.rows
    OBVIOUS
  <2>1. i \in all \ win /\ Place(i, all) >= walk.offset
    BY <1>6, <1>9
  <2>2. Chunk \in Nat
    BY <1>1, WalkFacts
  <2>. HIDE DEF all
  <2>. QED
    BY <1>4, <1>6, <2>1, <2>2
<1>12. Walk!TypeOK'
  BY <1>1, <1>2, <1>6 DEF Walk!TypeOK, WalkStates
<1>. QED
  BY <1>1, <1>2, <1>6, <1>7, <1>8, <1>9, <1>10, <1>11, <1>12 DEF WalkInv

LEMMA Advances ==
    ASSUME WalkGiven, NEW w \in WalkStates, NEW left \in Nat, left <= w.rows
    PROVE  LET v == Walk!Advance(w, left)
           IN /\ v \in WalkStates /\ v.q = w.q /\ v.out = w.out
              /\ \/ v.pc = "done" /\ (~Paged \/ w.rows < Chunk)
                 \/ v.pc = "read" /\ v.offset = w.offset + (w.rows - left)
<1>. DEFINE m == Walk!Max({w.rows - left, 0})
            next == Walk!next_scan_offset(w.offset, w.rows, left)
<1>1. w.rows \in Nat /\ w.offset \in Nat /\ w.rows - left \in Nat
  BY DEF WalkStates
<1>2. m = w.rows - left
  <2>. DEFINE c == w.rows - left
  <2>1. m = CHOOSE x \in {c, 0} : \A y \in {c, 0} : x >= y
    BY DEF Walk!Max
  <2>2. c \in Nat
    BY <1>1
  <2>. HIDE DEF c, m
  <2>3. c \in {c, 0} /\ \A y \in {c, 0} : c >= y
    BY <2>2
  <2>4. \A x \in {c, 0} : (\A y \in {c, 0} : x >= y) => x = c
    BY <2>2
  <2>5. m = c
    BY <2>1, <2>3, <2>4
  <2>. QED
    BY <2>5 DEF c
<1>3. next = IF ~Paged \/ w.rows < Chunk THEN -1 ELSE w.offset + m
  BY DEF Walk!next_scan_offset, Walk!None
<1>4. CASE ~Paged \/ w.rows < Chunk
  <2>1. Walk!Advance(w, left) = [w EXCEPT !.pc = "done"]
    BY <1>3, <1>4 DEF Walk!Advance, Walk!None
  <2>. QED
    BY <1>4, <2>1 DEF WalkStates
<1>5. CASE ~(~Paged \/ w.rows < Chunk)
  <2>1. next = w.offset + (w.rows - left) /\ next # -1 /\ next \in Nat
    BY <1>1, <1>2, <1>3, <1>5
  <2>2. Walk!Advance(w, left) = [w EXCEPT !.pc = "read", !.offset = next]
    BY <2>1 DEF Walk!Advance, Walk!None
  <2>. HIDE DEF next
  <2>. QED
    BY <2>1, <2>2 DEF WalkStates
<1>. QED
  BY <1>4, <1>5

\* A round that took its whole batch and left the rest in place ends well.
LEMMA RoundEnds ==
    ASSUME WalkGiven, WalkInv, walk.pc = "apply", NEW left \in Nat, left <= walk.rows,
           walk' = Walk!Advance(walk, left), UNCHANGED <<stayed, writes>>,
           DOMAIN ents' \subseteq Ids, \A i \in DOMAIN ents' : ents'[i] \subseteq Attrs,
           walk.q.mode # "delete" => DOMAIN ents' = DOMAIN ents,
           NEW todo, todo = ToDo(walk, ents', stayed),
           todo \subseteq ToDo(walk, ents, stayed) \ walk.batch,
           todo \subseteq Walk!Selected(walk.q, ents'),
           \A i \in todo :
              Place(i, Walk!Selected(walk.q, ents)) >= walk.offset + walk.rows
                => Place(i, Walk!Selected(walk.q, ents')) >= walk.offset + (walk.rows - left)
    PROVE  WalkInv'
<1>1. Walk!TypeOK /\ walk \in WalkStates /\ walk.q.mode # "map"
  BY WalkFacts DEF WalkInv
<1>2. /\ walk' \in WalkStates /\ walk'.q = walk.q /\ walk'.out = walk.out
      /\ \/ walk'.pc = "done" /\ (~Paged \/ walk.rows < Chunk)
         \/ walk'.pc = "read" /\ walk'.offset = walk.offset + (walk.rows - left)
  BY <1>1, Advances
<1>3. Walk!TypeOK'
  BY <1>1, <1>2 DEF Walk!TypeOK, WalkStates
<1>4. ToDo(walk', ents', stayed') = todo
  BY <1>2 DEF ToDo
<1>5. \A i \in todo : Paged /\ walk.rows >= Chunk
                      /\ Place(i, Walk!Selected(walk.q, ents)) >= walk.offset + walk.rows
  BY DEF WalkInv
<1>6. todo \subseteq Walk!Matched(walk'.q, ents')
  <2>1. todo \subseteq walk.q.ids
    BY DEF WalkInv, Walk!Matched
  <2>. QED
    BY <1>2, <2>1 DEF Walk!Matched
<1>7. walk'.pc = "done" => todo = {}
  <2>1. walk.rows \in Nat /\ Chunk \in Nat
    BY <1>1, WalkFacts
  <2>. QED
    BY <1>2, <1>5, <2>1
<1>8. walk'.pc = "read" => \A i \in todo : Place(i, Walk!Selected(walk'.q, ents')) >= walk'.offset
  BY <1>2, <1>5
<1>9. Cardinality(walk'.out) <= Chunk /\ (walk'.q.mode # "delete" => stayed' \subseteq DOMAIN ents')
  BY <1>2 DEF WalkInv
<1>10. walk'.pc # "apply"
  BY <1>2
<1>. QED
  BY <1>3, <1>4, <1>6, <1>7, <1>8, <1>9, <1>10 DEF WalkInv

LEMMA WalkDeletes ==
    ASSUME WalkGiven, WalkInv, Walk!ApplyDelete
    PROVE  WalkInv'
<1>. DEFINE S == Walk!Selected(walk.q, ents)
            T == Walk!Selected(walk.q, ents')
            todo == ToDo(walk, ents', stayed)
            left == Cardinality(walk.batch)
<1>1. walk.pc = "apply" /\ walk.q.mode = "delete" /\ UNCHANGED <<stayed, writes>>
  BY DEF Walk!ApplyDelete
<1>2. Walk!TypeOK /\ walk.batch \subseteq DOMAIN ents /\ left <= walk.rows
  BY <1>1 DEF WalkInv
<1>3. /\ left \in Nat /\ walk.batch \in SUBSET Ids /\ S \in SUBSET Ids /\ DOMAIN ents \subseteq Ids
      /\ walk.rows \in Nat /\ walk.offset \in Nat
  BY <1>2, WalkFacts
<1>4. ents' = [i \in DOMAIN ents \ walk.batch |-> ents[i]] /\ walk' = Walk!Advance(walk, left)
  <2>1. walk.batch \cap DOMAIN ents = walk.batch
    BY <1>2
  <2>. QED
    BY <2>1, WalkCount DEF Walk!ApplyDelete
<1>5. DOMAIN ents' = DOMAIN ents \ walk.batch /\ \A i \in DOMAIN ents' : ents'[i] = ents[i]
  BY <1>4
<1>6. T = S \ walk.batch /\ T \in SUBSET Ids
  BY <1>3, <1>5 DEF Walk!Selected
<1>7. todo \subseteq ToDo(walk, ents, stayed) \ walk.batch
  BY <1>1, <1>5 DEF ToDo
<1>8. todo \subseteq T
  BY <1>6, <1>7 DEF WalkInv, Walk!Matched
<1>9. ASSUME NEW i \in todo, Place(i, S) >= walk.offset + walk.rows
      PROVE  Place(i, T) >= walk.offset + (walk.rows - left)
  <2>1. Place(i, T) >= Place(i, S) - left
    BY <1>3, <1>6, PlaceMoves
  <2>2. Place(i, T) \in Nat /\ Place(i, S) \in Nat
    BY <1>3, <1>6, Places
  <2>. HIDE DEF left
  <2>. QED
    BY <1>3, <1>9, <2>1, <2>2
<1>10. DOMAIN ents' \subseteq Ids /\ \A i \in DOMAIN ents' : ents'[i] \subseteq Attrs
  BY <1>2, <1>5 DEF Walk!TypeOK
<1>. HIDE DEF S, T, todo, left
<1>11. todo = ToDo(walk, ents', stayed)
  BY DEF todo
<1>. QED
  BY <1>1, <1>2, <1>3, <1>4, <1>7, <1>8, <1>9, <1>10, <1>11, RoundEnds DEF S, T

LEMMA WalkPrunes ==
    ASSUME WalkGiven, WalkInv, Walk!ApplyPrune
    PROVE  WalkInv'
<1>. DEFINE S == Walk!Selected(walk.q, ents)
            T == Walk!Selected(walk.q, ents')
            todo == ToDo(walk, ents', stayed)
            left == IF Walk!Changed # {} THEN walk.rows ELSE 0
<1>1. walk.pc = "apply" /\ walk.q.mode = "prune" /\ UNCHANGED <<stayed, writes>>
  BY DEF Walk!ApplyPrune, Walk!Prune
<1>2. Walk!TypeOK /\ Cardinality(walk.batch) <= walk.rows /\ stayed \subseteq DOMAIN ents
      /\ walk.batch \subseteq DOMAIN ents
  BY <1>1 DEF WalkInv
<1>3. /\ walk.batch \in SUBSET Ids /\ S \in SUBSET Ids /\ DOMAIN ents \subseteq Ids
      /\ walk.rows \in Nat /\ walk.offset \in Nat /\ Cardinality(walk.batch) \in Nat
  BY <1>2, WalkFacts
<1>4. left \in Nat /\ left <= walk.rows
  BY <1>3
<1>5. /\ ents' = [i \in DOMAIN ents |->
                    IF i \in walk.batch THEN ents[i] \ walk.q.purged ELSE ents[i]]
      /\ walk' = Walk!Advance(walk, left)
  BY DEF Walk!ApplyPrune, Walk!Prune
<1>6. /\ DOMAIN ents' = DOMAIN ents
      /\ \A i \in DOMAIN ents : i \notin walk.batch => ents'[i] = ents[i]
      /\ \A i \in DOMAIN ents : i \in walk.batch => ents'[i] = ents[i] \ walk.q.purged
  BY <1>5
<1>7. T \in SUBSET Ids /\ S \ walk.batch \subseteq T
  BY <1>3, <1>6 DEF Walk!Selected
<1>8. todo \subseteq ToDo(walk, ents, stayed) \ walk.batch
  BY <1>1, <1>2, <1>6 DEF ToDo
<1>9. todo \subseteq T
  BY <1>7, <1>8 DEF WalkInv, Walk!Matched
<1>10. Walk!Changed = {} => S \subseteq T
  BY <1>6 DEF Walk!Selected, Walk!Changed
<1>11. ASSUME NEW i \in todo, Place(i, S) >= walk.offset + walk.rows
       PROVE  Place(i, T) >= walk.offset + (walk.rows - left)
  <2>1. Place(i, T) \in Nat /\ Place(i, S) \in Nat
    BY <1>3, <1>7, Places
  <2>2. CASE Walk!Changed = {}
    <3>1. Place(i, T) >= Place(i, S) /\ left = 0
      BY <1>3, <1>7, <1>10, <2>2, PlaceGrows
    <3>. QED
      BY <1>3, <1>11, <2>1, <3>1
  <2>3. CASE Walk!Changed # {}
    <3>1. Place(i, T) >= Place(i, S) - Cardinality(walk.batch) /\ left = walk.rows
      BY <1>3, <1>7, <2>3, PlaceMoves
    <3>. QED
      BY <1>2, <1>3, <1>11, <2>1, <3>1
  <2>. QED
    BY <2>2, <2>3
<1>12. DOMAIN ents' \subseteq Ids /\ \A i \in DOMAIN ents' : ents'[i] \subseteq Attrs
  <2>1. \A i \in DOMAIN ents : ents[i] \subseteq Attrs
    BY <1>2 DEF Walk!TypeOK
  <2>. QED
    BY <1>3, <1>6, <2>1
<1>. HIDE DEF S, T, todo, left
<1>13. todo = ToDo(walk, ents', stayed)
  BY DEF todo
<1>. QED
  BY <1>1, <1>4, <1>5, <1>6, <1>8, <1>9, <1>11, <1>12, <1>13, RoundEnds DEF S, T

LEMMA WalkCollects ==
    ASSUME WalkGiven, WalkInv, Walk!build_query_map
    PROVE  WalkInv'
<1>. DEFINE all == Walk!Selected(walk.q, ents)
            win == Walk!Window(walk.q, walk.offset)
            new == (win \cap walk.q.ids) \ walk.out
            room == Chunk - Cardinality(walk.out)
            taken == Front(room, new)
            out == walk.out \cup taken
            w == [walk EXCEPT !.rows = Cardinality(win), !.out = out]
            todo == ToDo(walk, ents, stayed)
<1>1. /\ Walk!TypeOK /\ walk.pc = "read" /\ walk.q.mode = "map" /\ UNCHANGED <<ents, stayed, writes>>
      /\ stayed \subseteq DOMAIN ents /\ Cardinality(walk.out) <= Chunk
  BY DEF WalkInv, Walk!build_query_map
<1>2. /\ walk \in WalkStates /\ walk.offset \in Nat /\ Chunk \in Nat
      /\ walk.out \in SUBSET Ids /\ IsFiniteSet(walk.out) /\ Cardinality(walk.out) \in Nat
  BY <1>1, WalkFacts
<1>3. /\ win \in SUBSET all /\ win \in SUBSET Ids
      /\ IsFiniteSet(win) /\ Cardinality(win) \in Nat
      /\ \A i \in all \ win : Place(i, all) >= walk.offset =>
            /\ Paged /\ Cardinality(win) = Chunk
            /\ Place(i, all) >= walk.offset + Cardinality(win)
  BY <1>1, Windows
<1>4. CASE Cardinality(walk.out) >= Chunk
  <2>1. walk' = [walk EXCEPT !.pc = "done"]
    BY <1>4, WalkCount DEF Walk!build_query_map
  <2>2. /\ walk' \in WalkStates /\ walk'.q = walk.q /\ walk'.out = walk.out /\ walk'.pc = "done"
    BY <1>2, <2>1 DEF WalkStates
  <2>3. Full(walk')
    BY <1>1, <1>2, <1>4, <2>2 DEF Full
  <2>4. ToDo(walk', ents', stayed') = todo /\ Walk!Matched(walk'.q, ents') = Walk!Matched(walk.q, ents)
    BY <1>1, <2>2 DEF ToDo
  <2>5. Walk!TypeOK'
    BY <1>1, <2>2 DEF Walk!TypeOK, WalkStates
  <2>. QED
    BY <1>1, <2>2, <2>3, <2>4, <2>5 DEF WalkInv
<1>5. CASE Cardinality(walk.out) < Chunk
  <2>1. room \in Nat /\ new \in SUBSET Ids
    BY <1>2, <1>3, <1>5
  <2>. HIDE DEF win
  <2>2. walk' = Walk!Advance(w, 0)
    <3>1. \A i \in new : Walk!Before(i, new) = Place(i, new)
      BY <2>1, Places
    <3>2. {i \in new : Walk!Before(i, new) < room} = taken
      BY <3>1 DEF Front
    <3>3. Walk!Cardinality(walk.out) = Cardinality(walk.out) /\ Walk!Cardinality(win) = Cardinality(win)
      BY WalkCount
    <3>4. ~(Walk!Cardinality(walk.out) >= Chunk)
      BY <1>2, <1>5, <3>3
    <3>5. walk' = Walk!Advance([walk EXCEPT !.rows = Walk!Cardinality(win),
                     !.out = walk.out \cup {i \in new :
                        Walk!Before(i, new) < Chunk - Walk!Cardinality(walk.out)}], 0)
      BY <3>4 DEF Walk!build_query_map, win
    <3>6. {i \in new : Walk!Before(i, new) < Chunk - Walk!Cardinality(walk.out)} = taken
      BY <3>2, <3>3
    <3>. HIDE DEF new, taken, room
    <3>. QED
      BY <3>3, <3>5, <3>6
  <2>3. /\ IsFiniteSet(taken) /\ Cardinality(taken) \in Nat /\ Cardinality(taken) <= room
        /\ room <= Cardinality(new) => room <= Cardinality(taken)
    BY <2>1, FrontFew, FrontEnough
  <2>4. taken \in SUBSET new
    BY DEF Front
  <2>5. Cardinality(out) = Cardinality(walk.out) + Cardinality(taken)
    <3>1. walk.out \cap taken = {}
      BY <2>4
    <3>2. Cardinality(out) = Cardinality(walk.out) + Cardinality(taken) - Cardinality(walk.out \cap taken)
      BY <1>2, <2>3, FS_Union
    <3>3. Cardinality(walk.out \cap taken) = 0
      BY <3>1, FS_EmptySet
    <3>. HIDE DEF out, taken
    <3>. QED
      BY <1>2, <2>3, <3>2, <3>3
  <2>6. out \in SUBSET Ids
    BY <1>2, <2>1, <2>4
  <2>7. Cardinality(out) <= Chunk
    <3>. HIDE DEF out, taken
    <3>. QED
      BY <1>2, <2>3, <2>5
  <2>. HIDE DEF out, taken, new
  <2>8. w \in WalkStates /\ w.q = walk.q /\ w.out = out /\ w.rows = Cardinality(win)
        /\ w.offset = walk.offset
    BY <1>2, <1>3, <2>6 DEF WalkStates
  <2>. HIDE DEF w
  <2>9. /\ walk' \in WalkStates /\ walk'.q = walk.q /\ walk'.out = out
        /\ \/ walk'.pc = "done" /\ (~Paged \/ Cardinality(win) < Chunk)
           \/ walk'.pc = "read" /\ walk'.offset = walk.offset + Cardinality(win)
    <3>1. 0 \in Nat /\ 0 <= w.rows
      BY <1>3, <2>8
    <3>2. LET v == Walk!Advance(w, 0)
          IN /\ v \in WalkStates /\ v.q = w.q /\ v.out = w.out
             /\ \/ v.pc = "done" /\ (~Paged \/ w.rows < Chunk)
                \/ v.pc = "read" /\ v.offset = w.offset + (w.rows - 0)
      BY <2>8, <3>1, Advances
    <3>. QED
      BY <1>2, <1>3, <2>2, <2>8, <3>2
  <2>10. ToDo(walk', ents', stayed') = stayed \ out /\ todo = stayed \ walk.out
    BY <1>1, <2>9 DEF ToDo
  <2>11. walk.out \subseteq out
    BY DEF out
  <2>12. todo \subseteq all \cap walk.q.ids
    BY DEF WalkInv, Walk!Matched
  <2>13. ASSUME Cardinality(out) # Chunk, NEW i \in stayed \ out
         PROVE  Paged /\ Cardinality(win) = Chunk /\ Place(i, all) >= walk.offset + Cardinality(win)
    <3>1. i \in todo /\ i \in all /\ i \in walk.q.ids
      BY <2>10, <2>11, <2>12, <2>13
    <3>2. Place(i, all) >= walk.offset
      BY <1>1, <1>2, <1>5, <3>1 DEF WalkInv, Full
    <3>3. i \notin win
      <4>. SUFFICES ASSUME i \in win PROVE FALSE
        OBVIOUS
      <4>1. i \in new \ taken
        BY <2>11, <2>13, <3>1 DEF new, out
      <4>2. Place(i, new) \in Nat /\ ~(Place(i, new) < room)
        BY <2>1, <4>1, Places DEF taken, Front
      <4>3. IsFiniteSet(new) /\ Lower(i, new) \in SUBSET new /\ Cardinality(new) \in Nat
        BY <2>1, Places
      <4>4. Place(i, new) <= Cardinality(new)
        BY <4>3, FS_Subset DEF Place
      <4>5. room <= Cardinality(taken)
        BY <2>1, <2>3, <4>2, <4>3, <4>4
      <4>. QED
        BY <1>2, <2>3, <2>5, <2>7, <2>13, <4>5
    <3>. HIDE DEF all
    <3>. QED
      BY <1>3, <3>1, <3>2, <3>3
  <2>14. walk'.pc = "done" => Cardinality(out) = Chunk \/ stayed \ out = {}
    BY <1>2, <1>3, <2>9, <2>13
  <2>15. walk'.pc = "read" => Cardinality(out) = Chunk
                              \/ \A i \in stayed \ out : Place(i, all) >= walk'.offset
    BY <2>9, <2>13
  <2>16. Walk!TypeOK'
    BY <1>1, <2>9 DEF Walk!TypeOK, WalkStates
  <2>17. Walk!Selected(walk'.q, ents') = all /\ Walk!Matched(walk'.q, ents') = all \cap walk.q.ids
    BY <1>1, <2>9 DEF Walk!Matched
  <2>18. stayed \ out \subseteq all \cap walk.q.ids
    BY <2>10, <2>11, <2>12
  <2>19. Full(walk') <=> Cardinality(out) = Chunk
    BY <1>1, <2>9 DEF Full
  <2>. HIDE DEF all, todo
  <2>. QED
    BY <1>1, <2>7, <2>9, <2>10, <2>14, <2>15, <2>16, <2>17, <2>18, <2>19 DEF WalkInv
<1>. QED
  BY <1>2, <1>4, <1>5

\* What another request adds moves nothing forward.
LEMMA OthersWrite ==
    ASSUME WalkGiven, WalkInv, NEW kind \in Writes, NEW e \in Ids, Walk!Write(kind, e)
    PROVE  WalkInv'
<1>. DEFINE S == Walk!Selected(walk.q, ents)
            T == Walk!Selected(walk.q, ents')
            todo == ToDo(walk, ents, stayed)
<1>1. Walk!TypeOK /\ UNCHANGED walk /\ stayed' = stayed \ {e} /\ kind \in {"create", "add"}
      /\ writes \in Nat /\ writes < MaxWrites /\ writes' = writes + 1
  BY DEF WalkInv, Walk!TypeOK, Walk!Write, WalkGiven
<1>2. /\ walk \in WalkStates /\ DOMAIN ents \subseteq Ids /\ S \in SUBSET Ids
      /\ walk.q.mode \in {"delete", "prune", "map"}
      /\ walk.offset \in Nat /\ walk.rows \in Nat
  BY <1>1, WalkFacts
<1>3. /\ DOMAIN ents \subseteq DOMAIN ents' /\ DOMAIN ents' \subseteq DOMAIN ents \cup {e}
      /\ \A i \in DOMAIN ents : ents[i] \subseteq ents'[i]
      /\ \A i \in DOMAIN ents : i # e => ents'[i] = ents[i]
      /\ \A i \in DOMAIN ents' : ents'[i] \subseteq Attrs
  <2>1. \A i \in DOMAIN ents : ents[i] \subseteq Attrs
    BY <1>1 DEF Walk!TypeOK
  <2>2. CASE kind = "create"
    <3>1. PICK A \in SUBSET Attrs : ents' = [j \in DOMAIN ents \cup {e} |-> IF j = e THEN A ELSE ents[j]]
      BY <2>2 DEF Walk!Write
    <3>2. e \notin DOMAIN ents
      BY <2>2 DEF Walk!Write
    <3>. QED
      BY <2>1, <3>1, <3>2
  <2>3. CASE kind = "add"
    <3>1. e \in DOMAIN ents
      BY <2>3 DEF Walk!Write
    <3>2. PICK a \in Attrs \ ents[e] : ents' = [ents EXCEPT ![e] = @ \cup {a}]
      BY <2>3 DEF Walk!Write
    <3>. QED
      BY <2>1, <3>1, <3>2
  <2>. QED
    BY <1>1, <2>2, <2>3
<1>4. S \subseteq T /\ T \in SUBSET Ids
  BY <1>2, <1>3 DEF Walk!Selected
<1>5. ToDo(walk', ents', stayed') \subseteq todo
  <2>1. walk.q.mode # "delete" => stayed \subseteq DOMAIN ents
    BY DEF WalkInv
  <2>. QED
    BY <1>1, <1>2, <1>3, <2>1 DEF ToDo
<1>6. \A i \in Ids : Place(i, T) >= Place(i, S) /\ Place(i, T) \in Nat /\ Place(i, S) \in Nat
  BY <1>2, <1>4, PlaceGrows, Places
<1>7. todo \subseteq S \cap walk.q.ids
  BY DEF WalkInv, Walk!Matched
<1>8. ToDo(walk', ents', stayed') \subseteq Walk!Matched(walk'.q, ents')
  BY <1>1, <1>4, <1>5, <1>7 DEF Walk!Matched
<1>9. Walk!TypeOK'
  <2>1. DOMAIN ents' \subseteq Ids /\ stayed' \subseteq Ids /\ walk' = walk
    BY <1>1, <1>2, <1>3 DEF Walk!TypeOK
  <2>2. writes' \in 0..MaxWrites
    BY <1>1 DEF WalkGiven
  <2>. QED
    BY <1>1, <1>3, <2>1, <2>2 DEF Walk!TypeOK
<1>10. Walk!Selected(walk'.q, ents') = T
  BY <1>1
<1>11. ASSUME NEW i \in todo, NEW n \in Nat, Place(i, S) >= n
       PROVE  Place(i, T) >= n
  BY <1>2, <1>6, <1>7, <1>11
<1>12. walk'.pc = "read" =>
          Full(walk') \/ \A i \in ToDo(walk', ents', stayed') : Place(i, T) >= walk'.offset
  BY <1>1, <1>2, <1>5, <1>11 DEF WalkInv
<1>13. walk'.pc = "apply" =>
          /\ walk'.q.mode # "map"
          /\ walk'.batch \subseteq DOMAIN ents' /\ Cardinality(walk'.batch) <= walk'.rows
          /\ \A i \in ToDo(walk', ents', stayed') \ walk'.batch :
                Paged /\ walk'.rows >= Chunk /\ Place(i, T) >= walk'.offset + walk'.rows
  <2>. SUFFICES ASSUME walk.pc = "apply"
                PROVE  /\ walk.q.mode # "map"
                       /\ walk.batch \subseteq DOMAIN ents' /\ Cardinality(walk.batch) <= walk.rows
                       /\ \A i \in ToDo(walk', ents', stayed') \ walk.batch :
                             Paged /\ walk.rows >= Chunk /\ Place(i, T) >= walk.offset + walk.rows
    BY <1>1
  <2>1. /\ walk.q.mode # "map" /\ walk.batch \subseteq DOMAIN ents
        /\ Cardinality(walk.batch) <= walk.rows
        /\ \A i \in todo \ walk.batch : Paged /\ walk.rows >= Chunk
                                          /\ Place(i, S) >= walk.offset + walk.rows
    BY DEF WalkInv
  <2>2. walk.offset + walk.rows \in Nat
    BY <1>2
  <2>. HIDE DEF S, T, todo
  <2>. QED
    BY <1>3, <1>5, <1>11, <2>1, <2>2
<1>14. walk'.pc = "done" => Full(walk') \/ ToDo(walk', ents', stayed') = {}
  BY <1>1, <1>5 DEF WalkInv
<1>15. walk'.q.mode # "delete" => stayed' \subseteq DOMAIN ents'
  BY <1>1, <1>3 DEF WalkInv
<1>16. Cardinality(walk'.out) <= Chunk
  BY <1>1 DEF WalkInv
<1>. HIDE DEF S, T, todo
<1>. QED
  BY <1>8, <1>9, <1>10, <1>12, <1>13, <1>14, <1>15, <1>16 DEF WalkInv

LEMMA WalkFails ==
    ASSUME WalkGiven, WalkInv, Walk!StoreFails
    PROVE  WalkInv'
<1>1. Walk!TypeOK /\ UNCHANGED <<ents, stayed, writes>> /\ walk' = [walk EXCEPT !.pc = "failed"]
  BY DEF WalkInv, Walk!StoreFails
<1>2. walk \in WalkStates
  BY <1>1, WalkFacts
<1>3. walk' \in WalkStates /\ walk'.q = walk.q /\ walk'.out = walk.out /\ walk'.pc = "failed"
  BY <1>1, <1>2 DEF WalkStates
<1>4. ToDo(walk', ents', stayed') = ToDo(walk, ents, stayed)
  BY <1>1, <1>3 DEF ToDo
<1>5. Walk!TypeOK' /\ Walk!Matched(walk'.q, ents') = Walk!Matched(walk.q, ents)
  BY <1>1, <1>3 DEF Walk!TypeOK, WalkStates
<1>. QED
  BY <1>1, <1>3, <1>4, <1>5 DEF WalkInv

LEMMA WalkBegins ==
    ASSUME WalkGiven, Walk!Init
    PROVE  WalkInv
<1>1. PICK live \in SUBSET Ids : ents \in [live -> SUBSET Attrs]
  BY DEF Walk!Init
<1>2. PICK q \in Queries :
         /\ walk = [pc |-> "read", q |-> q, offset |-> 0, batch |-> {}, rows |-> 0, out |-> {}]
         /\ stayed = Walk!Matched(q, ents)
  BY DEF Walk!Init
<1>3. q \in Walk!Walked /\ writes = 0 /\ MaxWrites \in Nat /\ Chunk \in Nat
  BY DEF WalkGiven, Walk!Init
<1>4. walk \in WalkStates /\ walk.q = q /\ walk.pc = "read" /\ walk.offset = 0 /\ walk.out = {}
  BY <1>2, <1>3 DEF WalkStates
<1>5. Walk!Selected(q, ents) \subseteq DOMAIN ents /\ DOMAIN ents = live
  BY <1>1 DEF Walk!Selected
<1>6. stayed \subseteq DOMAIN ents /\ stayed \subseteq Ids
  BY <1>2, <1>5 DEF Walk!Matched
<1>7. Walk!TypeOK
  <2>1. \A i \in DOMAIN ents : ents[i] \subseteq Attrs
    BY <1>1, <1>5
  <2>2. writes \in 0..MaxWrites
    BY <1>3
  <2>. QED
    BY <1>4, <1>5, <1>6, <2>1, <2>2 DEF Walk!TypeOK, WalkStates
<1>8. ToDo(walk, ents, stayed) \subseteq Walk!Matched(walk.q, ents)
  BY <1>2, <1>4 DEF ToDo
<1>9. \A i : Place(i, Walk!Selected(walk.q, ents)) >= walk.offset
  <2>1. Walk!Selected(walk.q, ents) \in SUBSET Ids
    BY <1>7, WalkFacts
  <2>2. \A i : Place(i, Walk!Selected(walk.q, ents)) \in Nat
    BY <2>1, Places
  <2>. QED
    BY <1>4, <2>2
<1>10. Cardinality(walk.out) <= Chunk
  BY <1>3, <1>4, FS_EmptySet
<1>. QED
  BY <1>4, <1>6, <1>7, <1>8, <1>9, <1>10 DEF WalkInv

LEMMA WalkSteps ==
    ASSUME WalkGiven, WalkInv, [Walk!Next]_Walk!vars
    PROVE  WalkInv'
<1>1. CASE UNCHANGED Walk!vars
  <2>1. UNCHANGED <<ents, walk, stayed, writes>>
    BY <1>1 DEF Walk!vars
  <2>2. Walk!TypeOK'
    BY <2>1 DEF WalkInv, Walk!TypeOK
  <2>3. ToDo(walk', ents', stayed') = ToDo(walk, ents, stayed)
        /\ Walk!Matched(walk'.q, ents') = Walk!Matched(walk.q, ents)
        /\ Walk!Selected(walk'.q, ents') = Walk!Selected(walk.q, ents)
    BY <2>1
  <2>. QED
    BY <2>1, <2>2, <2>3 DEF WalkInv
<1>2. CASE Walk!filter_entities_paged
  BY <1>2, WalkReads
<1>3. CASE Walk!ApplyDelete
  BY <1>3, WalkDeletes
<1>4. CASE Walk!ApplyPrune
  BY <1>4, WalkPrunes
<1>5. CASE Walk!build_query_map
  BY <1>5, WalkCollects
<1>6. CASE Walk!StoreFails
  BY <1>6, WalkFails
<1>7. ASSUME NEW kind \in Writes, NEW e \in Ids, Walk!Write(kind, e)
      PROVE  WalkInv'
  BY <1>7, OthersWrite
<1>. QED
  BY <1>1, <1>2, <1>3, <1>4, <1>5, <1>6, <1>7 DEF Walk!Next

\* "5.6.21.4 deletes ALL matched Entities, not the first page of them"
\* (entities.rs, next_scan_offset): what matched when the request began and
\* nobody else wrote is gone, pruned or in a map that is not full when the walk
\* ends, for any set of entities, any window and whatever other requests create
\* and add meanwhile.
THEOREM WalkReachesAll == WalkGiven /\ Walk!Spec => []Walk!WalksAll
<1>. SUFFICES ASSUME WalkGiven PROVE Walk!Spec => []Walk!WalksAll
  OBVIOUS
<1>1. Walk!Init => WalkInv
  BY WalkBegins
<1>2. WalkInv /\ [Walk!Next]_Walk!vars => WalkInv'
  BY WalkSteps
<1>3. WalkInv => Walk!WalksAll
  <2>. SUFFICES ASSUME WalkInv, walk.pc = "done" PROVE Walk!WalksAll
    BY DEF Walk!WalksAll
  <2>1. walk.q.mode \in {"delete", "prune", "map"}
    BY WalkFacts DEF WalkInv
  <2>2. Full(walk) \/ ToDo(walk, ents, stayed) = {}
    BY DEF WalkInv
  <2>3. CASE walk.q.mode = "delete"
    BY <2>2, <2>3 DEF Full, ToDo, Walk!WalksAll
  <2>4. CASE walk.q.mode = "prune"
    BY <2>2, <2>4 DEF Full, ToDo, Walk!WalksAll
  <2>5. CASE walk.q.mode = "map"
    BY <2>2, <2>5, WalkCount DEF Full, ToDo, Walk!WalksAll
  <2>. QED
    BY <2>1, <2>3, <2>4, <2>5
<1>. QED
  BY <1>1, <1>2, <1>3, PTL DEF Walk!Spec

\* The walk's offset, batch and map stay what they are meant to be.
THEOREM WalkTyped == WalkGiven /\ Walk!Spec => []Walk!TypeOK
<1>. SUFFICES ASSUME WalkGiven PROVE Walk!Spec => []Walk!TypeOK
  OBVIOUS
<1>1. Walk!Init => WalkInv
  BY WalkBegins
<1>2. WalkInv /\ [Walk!Next]_Walk!vars => WalkInv'
  BY WalkSteps
<1>3. WalkInv => Walk!TypeOK
  BY DEF WalkInv
<1>. QED
  BY <1>1, <1>2, <1>3, PTL DEF Walk!Spec
=============================================================================
