--------------------------- MODULE DeliveryProofs ---------------------------
(***************************************************************************)
(* Delivery for every number of subscriptions, attempts, handlers,         *)
(* replayers, retries and client writes: the types, the exactness of the   *)
(* 5.2.14.2 counters, booking before sending, what a dead letter means and,*)
(* while one send is in flight, that lastSuccess is the time of one.  The  *)
(* invariant is DeliveryInv, proved part by part.                          *)
(***************************************************************************)
EXTENDS Delivery, FiniteSetTheorems, TLAPS

-----------------------------------------------------------------------------
(* Documents.                                                              *)

\* The absent document is a document.
LEMMA NoDocType == NoDoc \in Docs
BY DEF NoDoc, Docs, Stamps

\* create stores a document.
LEMMA NewDocType == \A n \in Nat : NewDoc(n) \in Docs
BY DEF NewDoc, NoDoc, Docs, Stamps

\* apply_doc_fragment turns a document into a document.
LEMMA PatchedType == \A d \in Docs, n \in Nat, b \in BOOLEAN : Patched(d, n, b) \in Docs
BY DEF Patched, Docs, Stamps

\* record_delivery turns a document into a document.
LEMMA StampedType == \A d \in Docs, a \in Attempts : Stamped(d, a) \in Docs
<1>. TAKE d \in Docs, a \in Attempts
<1>1. d.sent + 1 \in Nat
  BY DEF Docs
<1>. QED
  BY <1>1 DEF Stamped, Docs, Stamps

\* The failure writeback turns a document into a document.
LEMMA RolledBackType == \A d \in Docs, p \in Stamps : RolledBack(d, p) \in Docs
<1>. TAKE d \in Docs, p \in Stamps
<1>1. d.failed + 1 \in Nat
  BY DEF Docs
<1>. QED
  BY <1>1 DEF RolledBack, Docs

\* The retry writeback turns a document into a document.
LEMMA RetriedType == \A d \in Docs, a \in Attempts : Retried(d, a) \in Docs
BY DEF Retried, Docs, Stamps

\* One more send still fits the retry bound.
LEMMA BelowBound == \A n \in Nat : \A m \in 0..n : m # n => m + 1 \in 0..n
OBVIOUS

-----------------------------------------------------------------------------
(* Types.                                                                  *)

\* Every step preserves the types; the retry bound keeps made in range and a
\* replay names a real attempt.
LEMMA TypeStep ==
    ASSUME TypeOK, PhaseInv, ReplayInv, [Next]_vars
    PROVE  TypeOK'
<1>. USE DEF TypeOK, attemptVars
<1>1. ASSUME NEW h \in Handlers, NEW s \in Subs, Create(h, s)
      PROVE  TypeOK'
  <2>1. NewDoc(writes[s] + 1) \in Docs
    BY NewDocType
  <2>. QED
    BY <1>1, <2>1 DEF Create
<1>2. ASSUME NEW h \in Handlers, NEW s \in Subs, NEW b \in BOOLEAN, Update(h, s, b)
      PROVE  TypeOK'
  <2>1. Patched(row[s], writes[s] + 1, b) \in Docs
    BY PatchedType
  <2>. QED
    BY <1>2, <2>1, NoDocType DEF Update
<1>3. ASSUME NEW h \in Handlers, UpdateGet(h)
      PROVE  TypeOK'
  BY <1>3, NoDocType DEF UpdateGet
<1>4. ASSUME NEW h \in Handlers, NEW s \in Subs, Delete(h, s)
      PROVE  TypeOK'
  BY <1>4, NoDocType DEF Delete
<1>5. ASSUME NEW h \in Handlers, SyncMirror(h)
      PROVE  TypeOK'
  BY <1>5, NoDocType DEF SyncMirror
<1>6. ASSUME NEW a \in Attempts, NEW s \in Subs, Match(a, s)
      PROVE  TypeOK'
  BY <1>6 DEF Match, AttemptSteps
<1>7. ASSUME NEW a \in Attempts, Suppress(a)
      PROVE  TypeOK'
  BY <1>7 DEF Suppress, AttemptSteps
<1>8. ASSUME NEW a \in Attempts, Book(a)
      PROVE  TypeOK'
  <2>1. row[sub[a]] \in Docs
    OBVIOUS
  <2>2. row[sub[a]].last \in Stamps /\ row[sub[a]].epoch \in Nat
    BY <2>1 DEF Docs
  <2>3. Stamped(row[sub[a]], a) \in Docs
    BY <2>1, StampedType
  <2>4. CASE Held(row[sub[a]])
    <3>1. row' \in [Subs -> Docs]
      BY <1>8, <2>3, <2>4 DEF Book
    <3>2. prev' \in [Attempts -> Stamps] /\ booked' \in [Attempts -> Nat]
      BY <1>8, <2>2, <2>4 DEF Book
    <3>3. carry' \in [Attempts -> Docs] /\ pc' \in [Attempts -> AttemptSteps]
      BY <1>8, <2>3, <2>4 DEF Book, AttemptSteps
    <3>. QED
      BY <1>8, <3>1, <3>2, <3>3 DEF Book
  <2>5. CASE ~Held(row[sub[a]])
    BY <1>8, <2>5 DEF Book, AttemptSteps
  <2>. QED
    BY <2>4, <2>5
<1>9. ASSUME NEW a \in Attempts, MirrorBooked(a)
      PROVE  TypeOK'
  BY <1>9 DEF MirrorBooked, Mirrored, AttemptSteps
<1>10. ASSUME NEW a \in Attempts, Refuse(a)
      PROVE  TypeOK'
  BY <1>10 DEF Refuse, AttemptSteps
<1>11. ASSUME NEW a \in Attempts, NEW b \in BOOLEAN, Send(a, b)
      PROVE  TypeOK'
  <2>1. 1 \in 0..MaxAttempts
    BY DeliveryAssumption
  <2>. QED
    BY <1>11, <2>1 DEF Send, AttemptSteps
<1>12. ASSUME NEW a \in Attempts, BookFailure(a)
      PROVE  TypeOK'
  <2>1. row[sub[a]] \in Docs
    OBVIOUS
  <2>2. row[sub[a]].epoch \in Nat
    BY <2>1 DEF Docs
  <2>3. RolledBack(row[sub[a]], prev[a]) \in Docs
    BY <2>1, RolledBackType
  <2>4. pc' \in [Attempts -> AttemptSteps]
    BY <1>12 DEF BookFailure, AttemptSteps
  <2>5. CASE Held(row[sub[a]])
    <3>1. row' \in [Subs -> Docs]
      BY <1>12, <2>3, <2>5 DEF BookFailure
    <3>2. failed' \in [Attempts -> Nat] /\ carry' \in [Attempts -> Docs]
      BY <1>12, <2>2, <2>3, <2>5 DEF BookFailure
    <3>. QED
      BY <1>12, <2>4, <3>1, <3>2 DEF BookFailure
  <2>6. CASE ~Held(row[sub[a]])
    BY <1>12, <2>4, <2>6, NoDocType DEF BookFailure
  <2>. QED
    BY <2>5, <2>6
<1>13. ASSUME NEW a \in Attempts, MirrorFailure(a)
      PROVE  TypeOK'
  BY <1>13 DEF MirrorFailure, Mirrored, AttemptSteps
<1>14. ASSUME NEW a \in Attempts, Retry(a)
      PROVE  TypeOK'
  BY <1>14 DEF Retry, AttemptSteps
<1>15. ASSUME NEW a \in Attempts, NEW b \in BOOLEAN, Resend(a, b)
      PROVE  TypeOK'
  <2>1. made[a] # MaxAttempts
    BY <1>15 DEF Resend, PhaseInv
  <2>a. MaxAttempts \in Nat /\ made[a] \in 0..MaxAttempts
    BY DeliveryAssumption
  <2>2. made[a] + 1 \in 0..MaxAttempts
    BY <2>1, <2>a, BelowBound
  <2>3. made' \in [Attempts -> 0..MaxAttempts]
    BY <1>15, <2>2 DEF Resend
  <2>4. pc' \in [Attempts -> AttemptSteps] /\ acked' \subseteq Attempts
    BY <1>15 DEF Resend, AttemptSteps
  <2>. QED
    BY <1>15, <2>3, <2>4 DEF Resend
<1>16. ASSUME NEW a \in Attempts, Settle(a)
      PROVE  TypeOK'
  <2>1. Retried(row[sub[a]], a) \in Docs
    BY RetriedType
  <2>2. pc' \in [Attempts -> AttemptSteps]
    BY <1>16 DEF Settle, AttemptSteps
  <2>3. row' \in [Subs -> Docs] /\ carry' \in [Attempts -> Docs]
    BY <1>16, <2>1, NoDocType DEF Settle
  <2>. QED
    BY <1>16, <2>2, <2>3 DEF Settle
<1>17. ASSUME NEW a \in Attempts, MirrorSettled(a)
      PROVE  TypeOK'
  BY <1>17 DEF MirrorSettled, Mirrored, AttemptSteps
<1>18. ASSUME NEW a \in Attempts, NEW b \in BOOLEAN, GiveUp(a, b)
      PROVE  TypeOK'
  BY <1>18 DEF GiveUp, AttemptSteps
<1>19. ASSUME NEW r \in Replayers, NEW a \in Attempts, ReplayGet(r, a)
      PROVE  TypeOK'
  BY <1>19 DEF ReplayGet, Stamps
<1>20. ASSUME NEW r \in Replayers, NEW b \in BOOLEAN, ReplaySend(r, b)
      PROVE  TypeOK'
  <2>1. replay[r].of \in Attempts
    BY <1>20 DEF ReplaySend, ReplayInv
  <2>. QED
    BY <1>20, <2>1 DEF ReplaySend, Stamps
<1>21. ASSUME NEW r \in Replayers, ReplayDelete(r)
      PROVE  TypeOK'
  <2>1. replay[r].of \in Attempts
    BY <1>21 DEF ReplayDelete, ReplayInv
  <2>. QED
    BY <1>21, <2>1 DEF ReplayDelete, Stamps
<1>22. ASSUME NEW a \in Attempts, NEW b \in BOOLEAN, BookFailureLost(a, b)
      PROVE  TypeOK'
  <2>1. RolledBack(row[sub[a]], prev[a]) \in Docs
    BY RolledBackType
  <2>2. pc' \in [Attempts -> AttemptSteps]
    BY <1>22 DEF BookFailureLost, AttemptSteps
  <2>. QED
    BY <1>22, <2>1, <2>2, NoDocType DEF BookFailureLost
<1>23. ASSUME NEW a \in Attempts, RetryBlind(a)
      PROVE  TypeOK'
  BY <1>23 DEF RetryBlind, AttemptSteps
<1>24. ASSUME NEW a \in Attempts, NEW b \in BOOLEAN, SettleLost(a, b)
      PROVE  TypeOK'
  <2>1. Retried(row[sub[a]], a) \in Docs
    BY RetriedType
  <2>2. pc' \in [Attempts -> AttemptSteps]
    BY <1>24 DEF SettleLost, AttemptSteps
  <2>. QED
    BY <1>24, <2>1, <2>2, NoDocType DEF SettleLost
<1>25. ASSUME NEW h \in Handlers, UpdateGetLost(h)
      PROVE  TypeOK'
  BY <1>25, NoDocType DEF UpdateGetLost
<1>26. ASSUME NEW r \in Replayers, ReplayDeleteLost(r)
      PROVE  TypeOK'
  BY <1>26 DEF ReplayDeleteLost, Stamps
<1>27. ASSUME NEW a \in Attempts, DropLetter(a)
      PROVE  TypeOK'
  BY <1>27 DEF DropLetter, AttemptSteps
<1>28. CASE UNCHANGED vars
  BY <1>28 DEF vars
<1>. QED
  BY SMTT(30), <1>1, <1>2, <1>3, <1>4, <1>5, <1>6, <1>7, <1>8, <1>9, <1>10, <1>11, <1>12,
     <1>13, <1>14, <1>15, <1>16, <1>17, <1>18, <1>19, <1>20, <1>21, <1>22, <1>23, <1>24, <1>25, <1>26, <1>27, <1>28 DEF Next, Client, Deliver, Admin

\* Every step keeps an attempt's record in line with where it is.
LEMMA PhaseStep ==
    ASSUME TypeOK, PhaseInv, EpochInv, [Next]_vars
    PROVE  PhaseInv'
<1>1. ASSUME NEW h \in Handlers, NEW s \in Subs, Create(h, s)
      PROVE  PhaseInv'
  BY <1>1 DEF Create, PhaseInv, TypeOK, attemptVars
<1>2. ASSUME NEW h \in Handlers, NEW s \in Subs, NEW b \in BOOLEAN, Update(h, s, b)
      PROVE  PhaseInv'
  BY <1>2 DEF Update, PhaseInv, TypeOK, attemptVars
<1>3. ASSUME NEW h \in Handlers, UpdateGet(h)
      PROVE  PhaseInv'
  BY <1>3 DEF UpdateGet, PhaseInv, TypeOK, attemptVars
<1>4. ASSUME NEW h \in Handlers, NEW s \in Subs, Delete(h, s)
      PROVE  PhaseInv'
  BY <1>4 DEF Delete, PhaseInv, TypeOK, attemptVars
<1>5. ASSUME NEW h \in Handlers, SyncMirror(h)
      PROVE  PhaseInv'
  BY <1>5 DEF SyncMirror, PhaseInv, TypeOK, attemptVars
<1>6. ASSUME NEW a \in Attempts, NEW s \in Subs, Match(a, s)
      PROVE  PhaseInv'
  BY <1>6 DEF Match, PhaseInv, TypeOK, attemptVars
<1>7. ASSUME NEW a \in Attempts, Suppress(a)
      PROVE  PhaseInv'
  BY <1>7 DEF Suppress, PhaseInv, TypeOK, attemptVars
<1>8. ASSUME NEW a \in Attempts, Book(a)
      PROVE  PhaseInv'
  <2>1. Held(row[sub[a]]) => row[sub[a]].epoch # 0
    BY DEF EpochInv, TypeOK
  <2>. QED
    BY <1>8, <2>1 DEF Book, PhaseInv, TypeOK
<1>9. ASSUME NEW a \in Attempts, MirrorBooked(a)
      PROVE  PhaseInv'
  BY <1>9 DEF MirrorBooked, PhaseInv, TypeOK, attemptVars
<1>10. ASSUME NEW a \in Attempts, Refuse(a)
      PROVE  PhaseInv'
  BY <1>10 DEF Refuse, PhaseInv, TypeOK, attemptVars
<1>11. ASSUME NEW a \in Attempts, NEW b \in BOOLEAN, Send(a, b)
      PROVE  PhaseInv'
  BY <1>11, DeliveryAssumption DEF Send, PhaseInv, TypeOK, attemptVars
<1>12. ASSUME NEW a \in Attempts, BookFailure(a)
      PROVE  PhaseInv'
  BY <1>12 DEF BookFailure, PhaseInv, TypeOK, attemptVars
<1>13. ASSUME NEW a \in Attempts, MirrorFailure(a)
      PROVE  PhaseInv'
  BY <1>13 DEF MirrorFailure, PhaseInv, TypeOK, attemptVars
<1>14. ASSUME NEW a \in Attempts, Retry(a)
      PROVE  PhaseInv'
  BY <1>14 DEF Retry, PhaseInv, TypeOK, attemptVars
<1>15. ASSUME NEW a \in Attempts, NEW b \in BOOLEAN, Resend(a, b)
      PROVE  PhaseInv'
  BY <1>15, DeliveryAssumption DEF Resend, PhaseInv, TypeOK, attemptVars
<1>16. ASSUME NEW a \in Attempts, Settle(a)
      PROVE  PhaseInv'
  BY <1>16 DEF Settle, PhaseInv, TypeOK, attemptVars
<1>17. ASSUME NEW a \in Attempts, MirrorSettled(a)
      PROVE  PhaseInv'
  BY <1>17 DEF MirrorSettled, PhaseInv, TypeOK, attemptVars
<1>18. ASSUME NEW a \in Attempts, NEW b \in BOOLEAN, GiveUp(a, b)
      PROVE  PhaseInv'
  BY <1>18 DEF GiveUp, PhaseInv, TypeOK, attemptVars
<1>19. ASSUME NEW r \in Replayers, NEW a \in Attempts, ReplayGet(r, a)
      PROVE  PhaseInv'
  BY <1>19 DEF ReplayGet, PhaseInv, TypeOK, attemptVars
<1>20. ASSUME NEW r \in Replayers, NEW b \in BOOLEAN, ReplaySend(r, b)
      PROVE  PhaseInv'
  BY <1>20 DEF ReplaySend, PhaseInv, TypeOK, attemptVars
<1>21. ASSUME NEW r \in Replayers, ReplayDelete(r)
      PROVE  PhaseInv'
  BY <1>21 DEF ReplayDelete, PhaseInv, TypeOK, attemptVars
<1>22. ASSUME NEW a \in Attempts, NEW b \in BOOLEAN, BookFailureLost(a, b)
      PROVE  PhaseInv'
  BY <1>22 DEF BookFailureLost, PhaseInv, TypeOK, attemptVars
<1>23. ASSUME NEW a \in Attempts, RetryBlind(a)
      PROVE  PhaseInv'
  BY <1>23 DEF RetryBlind, PhaseInv, TypeOK, attemptVars
<1>24. ASSUME NEW a \in Attempts, NEW b \in BOOLEAN, SettleLost(a, b)
      PROVE  PhaseInv'
  BY <1>24 DEF SettleLost, PhaseInv, TypeOK, attemptVars
<1>25. ASSUME NEW h \in Handlers, UpdateGetLost(h)
      PROVE  PhaseInv'
  BY <1>25 DEF UpdateGetLost, PhaseInv, TypeOK, attemptVars
<1>26. ASSUME NEW r \in Replayers, ReplayDeleteLost(r)
      PROVE  PhaseInv'
  BY <1>26 DEF ReplayDeleteLost, PhaseInv, TypeOK, attemptVars
<1>27. ASSUME NEW a \in Attempts, DropLetter(a)
      PROVE  PhaseInv'
  BY <1>27 DEF DropLetter, PhaseInv, TypeOK, attemptVars
<1>28. CASE UNCHANGED vars
  BY <1>28 DEF vars, PhaseInv, attemptVars
<1>. QED
  BY <1>1, <1>2, <1>3, <1>4, <1>5, <1>6, <1>7, <1>8, <1>9, <1>10, <1>11, <1>12,
     <1>13, <1>14, <1>15, <1>16, <1>17, <1>18, <1>19, <1>20, <1>21, <1>22, <1>23, <1>24, <1>25, <1>26, <1>27, <1>28 DEF Next, Client, Deliver, Admin

\* Acknowledgements and dead letters only come to booked attempts.
LEMMA OutcomeStep ==
    ASSUME TypeOK, PhaseInv, OutcomeInv, ReplayInv, [Next]_vars
    PROVE  OutcomeInv'
<1>1. ASSUME NEW h \in Handlers, NEW s \in Subs, Create(h, s)
      PROVE  OutcomeInv'
  BY <1>1 DEF Create, OutcomeInv, TypeOK, attemptVars
<1>2. ASSUME NEW h \in Handlers, NEW s \in Subs, NEW b \in BOOLEAN, Update(h, s, b)
      PROVE  OutcomeInv'
  BY <1>2 DEF Update, OutcomeInv, TypeOK, attemptVars
<1>3. ASSUME NEW h \in Handlers, UpdateGet(h)
      PROVE  OutcomeInv'
  BY <1>3 DEF UpdateGet, OutcomeInv, TypeOK, attemptVars
<1>4. ASSUME NEW h \in Handlers, NEW s \in Subs, Delete(h, s)
      PROVE  OutcomeInv'
  BY <1>4 DEF Delete, OutcomeInv, TypeOK, attemptVars
<1>5. ASSUME NEW h \in Handlers, SyncMirror(h)
      PROVE  OutcomeInv'
  BY <1>5 DEF SyncMirror, OutcomeInv, TypeOK, attemptVars
<1>6. ASSUME NEW a \in Attempts, NEW s \in Subs, Match(a, s)
      PROVE  OutcomeInv'
  BY <1>6 DEF Match, OutcomeInv, TypeOK, attemptVars
<1>7. ASSUME NEW a \in Attempts, Suppress(a)
      PROVE  OutcomeInv'
  BY <1>7 DEF Suppress, OutcomeInv, TypeOK, attemptVars
<1>8. ASSUME NEW a \in Attempts, Book(a)
      PROVE  OutcomeInv'
  BY <1>8 DEF Book, OutcomeInv, TypeOK, attemptVars
<1>9. ASSUME NEW a \in Attempts, MirrorBooked(a)
      PROVE  OutcomeInv'
  BY <1>9 DEF MirrorBooked, OutcomeInv, TypeOK, attemptVars
<1>10. ASSUME NEW a \in Attempts, Refuse(a)
      PROVE  OutcomeInv'
  BY <1>10 DEF Refuse, OutcomeInv, TypeOK, attemptVars
<1>11. ASSUME NEW a \in Attempts, NEW b \in BOOLEAN, Send(a, b)
      PROVE  OutcomeInv'
  BY <1>11 DEF Send, OutcomeInv, PhaseInv, TypeOK
<1>12. ASSUME NEW a \in Attempts, BookFailure(a)
      PROVE  OutcomeInv'
  BY <1>12 DEF BookFailure, OutcomeInv, TypeOK, attemptVars
<1>13. ASSUME NEW a \in Attempts, MirrorFailure(a)
      PROVE  OutcomeInv'
  BY <1>13 DEF MirrorFailure, OutcomeInv, TypeOK, attemptVars
<1>14. ASSUME NEW a \in Attempts, Retry(a)
      PROVE  OutcomeInv'
  BY <1>14 DEF Retry, OutcomeInv, TypeOK, attemptVars
<1>15. ASSUME NEW a \in Attempts, NEW b \in BOOLEAN, Resend(a, b)
      PROVE  OutcomeInv'
  BY <1>15 DEF Resend, OutcomeInv, PhaseInv, TypeOK
<1>16. ASSUME NEW a \in Attempts, Settle(a)
      PROVE  OutcomeInv'
  BY <1>16 DEF Settle, OutcomeInv, TypeOK, attemptVars
<1>17. ASSUME NEW a \in Attempts, MirrorSettled(a)
      PROVE  OutcomeInv'
  BY <1>17 DEF MirrorSettled, OutcomeInv, TypeOK, attemptVars
<1>18. ASSUME NEW a \in Attempts, NEW b \in BOOLEAN, GiveUp(a, b)
      PROVE  OutcomeInv'
  BY <1>18 DEF GiveUp, OutcomeInv, PhaseInv, TypeOK
<1>19. ASSUME NEW r \in Replayers, NEW a \in Attempts, ReplayGet(r, a)
      PROVE  OutcomeInv'
  BY <1>19 DEF ReplayGet, OutcomeInv, TypeOK, attemptVars
<1>20. ASSUME NEW r \in Replayers, NEW b \in BOOLEAN, ReplaySend(r, b)
      PROVE  OutcomeInv'
  <2>1. replay[r].of \in Attempts /\ letter[replay[r].of] # "none"
    BY <1>20 DEF ReplaySend, ReplayInv
  <2>. QED
    BY <1>20, <2>1 DEF ReplaySend, OutcomeInv, TypeOK
<1>21. ASSUME NEW r \in Replayers, ReplayDelete(r)
      PROVE  OutcomeInv'
  <2>1. replay[r].of \in Attempts /\ letter[replay[r].of] # "none"
    BY <1>21 DEF ReplayDelete, ReplayInv
  <2>. QED
    BY <1>21, <2>1 DEF ReplayDelete, OutcomeInv, TypeOK
<1>22. ASSUME NEW a \in Attempts, NEW b \in BOOLEAN, BookFailureLost(a, b)
      PROVE  OutcomeInv'
  BY <1>22 DEF BookFailureLost, OutcomeInv, TypeOK, attemptVars
<1>23. ASSUME NEW a \in Attempts, RetryBlind(a)
      PROVE  OutcomeInv'
  BY <1>23 DEF RetryBlind, OutcomeInv, TypeOK, attemptVars
<1>24. ASSUME NEW a \in Attempts, NEW b \in BOOLEAN, SettleLost(a, b)
      PROVE  OutcomeInv'
  BY <1>24 DEF SettleLost, OutcomeInv, TypeOK, attemptVars
<1>25. ASSUME NEW h \in Handlers, UpdateGetLost(h)
      PROVE  OutcomeInv'
  BY <1>25 DEF UpdateGetLost, OutcomeInv, TypeOK, attemptVars
<1>26. ASSUME NEW r \in Replayers, ReplayDeleteLost(r)
      PROVE  OutcomeInv'
  BY <1>26 DEF ReplayDeleteLost, OutcomeInv, TypeOK, attemptVars
<1>27. ASSUME NEW a \in Attempts, DropLetter(a)
      PROVE  OutcomeInv'
  BY <1>27 DEF DropLetter, OutcomeInv, TypeOK, attemptVars
<1>28. CASE UNCHANGED vars
  BY <1>28 DEF vars, OutcomeInv, attemptVars
<1>. QED
  BY <1>1, <1>2, <1>3, <1>4, <1>5, <1>6, <1>7, <1>8, <1>9, <1>10, <1>11, <1>12,
     <1>13, <1>14, <1>15, <1>16, <1>17, <1>18, <1>19, <1>20, <1>21, <1>22, <1>23, <1>24, <1>25, <1>26, <1>27, <1>28 DEF Next, Client, Deliver, Admin

\* A replay keeps naming a letter that was stored.
LEMMA ReplayStep ==
    ASSUME TypeOK, OutcomeInv, ReplayInv, [Next]_vars
    PROVE  ReplayInv'
<1>1. ASSUME NEW h \in Handlers, NEW s \in Subs, Create(h, s)
      PROVE  ReplayInv'
  BY <1>1 DEF Create, ReplayInv, TypeOK, attemptVars
<1>2. ASSUME NEW h \in Handlers, NEW s \in Subs, NEW b \in BOOLEAN, Update(h, s, b)
      PROVE  ReplayInv'
  BY <1>2 DEF Update, ReplayInv, TypeOK, attemptVars
<1>3. ASSUME NEW h \in Handlers, UpdateGet(h)
      PROVE  ReplayInv'
  BY <1>3 DEF UpdateGet, ReplayInv, TypeOK, attemptVars
<1>4. ASSUME NEW h \in Handlers, NEW s \in Subs, Delete(h, s)
      PROVE  ReplayInv'
  BY <1>4 DEF Delete, ReplayInv, TypeOK, attemptVars
<1>5. ASSUME NEW h \in Handlers, SyncMirror(h)
      PROVE  ReplayInv'
  BY <1>5 DEF SyncMirror, ReplayInv, TypeOK, attemptVars
<1>6. ASSUME NEW a \in Attempts, NEW s \in Subs, Match(a, s)
      PROVE  ReplayInv'
  BY <1>6 DEF Match, ReplayInv, TypeOK, attemptVars
<1>7. ASSUME NEW a \in Attempts, Suppress(a)
      PROVE  ReplayInv'
  BY <1>7 DEF Suppress, ReplayInv, TypeOK, attemptVars
<1>8. ASSUME NEW a \in Attempts, Book(a)
      PROVE  ReplayInv'
  BY <1>8 DEF Book, ReplayInv, TypeOK, attemptVars
<1>9. ASSUME NEW a \in Attempts, MirrorBooked(a)
      PROVE  ReplayInv'
  BY <1>9 DEF MirrorBooked, ReplayInv, TypeOK, attemptVars
<1>10. ASSUME NEW a \in Attempts, Refuse(a)
      PROVE  ReplayInv'
  BY <1>10 DEF Refuse, ReplayInv, TypeOK, attemptVars
<1>11. ASSUME NEW a \in Attempts, NEW b \in BOOLEAN, Send(a, b)
      PROVE  ReplayInv'
  BY <1>11 DEF Send, ReplayInv, TypeOK, attemptVars
<1>12. ASSUME NEW a \in Attempts, BookFailure(a)
      PROVE  ReplayInv'
  BY <1>12 DEF BookFailure, ReplayInv, TypeOK, attemptVars
<1>13. ASSUME NEW a \in Attempts, MirrorFailure(a)
      PROVE  ReplayInv'
  BY <1>13 DEF MirrorFailure, ReplayInv, TypeOK, attemptVars
<1>14. ASSUME NEW a \in Attempts, Retry(a)
      PROVE  ReplayInv'
  BY <1>14 DEF Retry, ReplayInv, TypeOK, attemptVars
<1>15. ASSUME NEW a \in Attempts, NEW b \in BOOLEAN, Resend(a, b)
      PROVE  ReplayInv'
  BY <1>15 DEF Resend, ReplayInv, TypeOK, attemptVars
<1>16. ASSUME NEW a \in Attempts, Settle(a)
      PROVE  ReplayInv'
  BY <1>16 DEF Settle, ReplayInv, TypeOK, attemptVars
<1>17. ASSUME NEW a \in Attempts, MirrorSettled(a)
      PROVE  ReplayInv'
  BY <1>17 DEF MirrorSettled, ReplayInv, TypeOK, attemptVars
<1>18. ASSUME NEW a \in Attempts, NEW b \in BOOLEAN, GiveUp(a, b)
      PROVE  ReplayInv'
  <2>1. letter[a] = "none"
    BY <1>18 DEF GiveUp, OutcomeInv, TypeOK
  <2>. QED
    BY <1>18, <2>1 DEF GiveUp, ReplayInv, TypeOK
<1>19. ASSUME NEW r \in Replayers, NEW a \in Attempts, ReplayGet(r, a)
      PROVE  ReplayInv'
  BY <1>19 DEF ReplayGet, ReplayInv, TypeOK, attemptVars
<1>20. ASSUME NEW r \in Replayers, NEW b \in BOOLEAN, ReplaySend(r, b)
      PROVE  ReplayInv'
  BY <1>20 DEF ReplaySend, ReplayInv, TypeOK, attemptVars
<1>21. ASSUME NEW r \in Replayers, ReplayDelete(r)
      PROVE  ReplayInv'
  BY <1>21 DEF ReplayDelete, ReplayInv, TypeOK, attemptVars
<1>22. ASSUME NEW a \in Attempts, NEW b \in BOOLEAN, BookFailureLost(a, b)
      PROVE  ReplayInv'
  BY <1>22 DEF BookFailureLost, ReplayInv, TypeOK, attemptVars
<1>23. ASSUME NEW a \in Attempts, RetryBlind(a)
      PROVE  ReplayInv'
  BY <1>23 DEF RetryBlind, ReplayInv, TypeOK, attemptVars
<1>24. ASSUME NEW a \in Attempts, NEW b \in BOOLEAN, SettleLost(a, b)
      PROVE  ReplayInv'
  BY <1>24 DEF SettleLost, ReplayInv, TypeOK, attemptVars
<1>25. ASSUME NEW h \in Handlers, UpdateGetLost(h)
      PROVE  ReplayInv'
  BY <1>25 DEF UpdateGetLost, ReplayInv, TypeOK, attemptVars
<1>26. ASSUME NEW r \in Replayers, ReplayDeleteLost(r)
      PROVE  ReplayInv'
  BY <1>26 DEF ReplayDeleteLost, ReplayInv, TypeOK, attemptVars
<1>27. ASSUME NEW a \in Attempts, DropLetter(a)
      PROVE  ReplayInv'
  BY <1>27 DEF DropLetter, ReplayInv, TypeOK, attemptVars
<1>28. CASE UNCHANGED vars
  BY <1>28 DEF vars, ReplayInv, attemptVars
<1>. QED
  BY <1>1, <1>2, <1>3, <1>4, <1>5, <1>6, <1>7, <1>8, <1>9, <1>10, <1>11, <1>12,
     <1>13, <1>14, <1>15, <1>16, <1>17, <1>18, <1>19, <1>20, <1>21, <1>22, <1>23, <1>24, <1>25, <1>26, <1>27, <1>28 DEF Next, Client, Deliver, Admin

\* Counter epochs stay among the client writes that have happened.
LEMMA EpochStep ==
    ASSUME TypeOK, PhaseInv, EpochInv, [Next]_vars
    PROVE  EpochInv'
<1>1. ASSUME NEW h \in Handlers, NEW s \in Subs, Create(h, s)
      PROVE  EpochInv'
  <2>1. NewDoc(writes[s] + 1).epoch = writes[s] + 1
    BY DEF NewDoc, NoDoc
  <2>2. \A t \in Subs : writes'[t] \in Nat /\ writes[t] \in Nat /\ writes[t] <= writes'[t]
    BY <1>1 DEF Create, TypeOK
  <2>5. \A t \in Subs : row[t].epoch \in Nat /\ row[t].gen \in Nat
    BY DEF TypeOK, Docs
  <2>3. ASSUME NEW t \in Subs
        PROVE  row'[t].epoch <= writes'[t] /\ (Held(row'[t]) => row'[t].epoch # 0)
    <3>1. CASE t = s
      <4>1. row'[t] = NewDoc(writes[s] + 1) /\ writes'[t] = writes[s] + 1
        BY <1>1, <3>1 DEF Create, TypeOK
      <4>. QED
        BY <2>1, <2>2, <2>5, <4>1 DEF Held
    <3>2. CASE t # s
      <4>1. row'[t] = row[t] /\ writes'[t] = writes[t]
        BY <1>1, <3>2 DEF Create, TypeOK
      <4>. QED
        BY <2>2, <2>5, <4>1 DEF EpochInv, Held
    <3>. QED
      BY <3>1, <3>2
  <2>4. ASSUME NEW c \in Attempts
        PROVE  booked'[c] <= writes'[sub'[c]] /\ failed'[c] <= writes'[sub'[c]]
    <3>1. booked'[c] = booked[c] /\ failed'[c] = failed[c] /\ sub'[c] = sub[c]
      BY <1>1 DEF Create, attemptVars
    <3>2. sub[c] \in Subs /\ booked[c] \in Nat /\ failed[c] \in Nat
      BY DEF TypeOK
    <3>. QED
      BY <2>2, <3>1, <3>2 DEF EpochInv
  <2>. QED
    BY <2>3, <2>4 DEF EpochInv
<1>2. ASSUME NEW h \in Handlers, NEW s \in Subs, NEW b \in BOOLEAN, Update(h, s, b)
      PROVE  EpochInv'
  <2>1. /\ Patched(row[s], writes[s] + 1, b).epoch \in {row[s].epoch, writes[s] + 1}
        /\ row[s].epoch \in Nat
    BY DEF Patched, TypeOK, Docs
  <2>2. \A t \in Subs : writes'[t] \in Nat /\ writes[t] \in Nat /\ writes[t] <= writes'[t]
    BY <1>2 DEF Update, TypeOK
  <2>5. \A t \in Subs : row[t].epoch \in Nat /\ row[t].gen \in Nat
    BY DEF TypeOK, Docs
  <2>3. ASSUME NEW t \in Subs
        PROVE  row'[t].epoch <= writes'[t] /\ (Held(row'[t]) => row'[t].epoch # 0)
    <3>1. CASE t = s
      <4>1. row'[t] = Patched(row[s], writes[s] + 1, b) /\ writes'[t] = writes[s] + 1
        BY <1>2, <3>1 DEF Update, TypeOK
      <4>. QED
        BY <2>1, <2>2, <2>5, <4>1, <1>2 DEF Update, EpochInv, Held
    <3>2. CASE t # s
      <4>1. row'[t] = row[t] /\ writes'[t] = writes[t]
        BY <1>2, <3>2 DEF Update, TypeOK
      <4>. QED
        BY <2>2, <2>5, <4>1 DEF EpochInv, Held
    <3>. QED
      BY <3>1, <3>2
  <2>4. ASSUME NEW c \in Attempts
        PROVE  booked'[c] <= writes'[sub'[c]] /\ failed'[c] <= writes'[sub'[c]]
    <3>1. booked'[c] = booked[c] /\ failed'[c] = failed[c] /\ sub'[c] = sub[c]
      BY <1>2 DEF Update, attemptVars
    <3>2. sub[c] \in Subs /\ booked[c] \in Nat /\ failed[c] \in Nat
      BY DEF TypeOK
    <3>. QED
      BY <2>2, <3>1, <3>2 DEF EpochInv
  <2>. QED
    BY <2>3, <2>4 DEF EpochInv
<1>3. ASSUME NEW h \in Handlers, UpdateGet(h)
      PROVE  EpochInv'
  BY <1>3 DEF UpdateGet, EpochInv, TypeOK, attemptVars
<1>4. ASSUME NEW h \in Handlers, NEW s \in Subs, Delete(h, s)
      PROVE  EpochInv'
  BY <1>4 DEF Delete, NoDoc, Held, EpochInv, TypeOK, attemptVars
<1>5. ASSUME NEW h \in Handlers, SyncMirror(h)
      PROVE  EpochInv'
  BY <1>5 DEF SyncMirror, EpochInv, TypeOK, attemptVars
<1>6. ASSUME NEW a \in Attempts, NEW s \in Subs, Match(a, s)
      PROVE  EpochInv'
  <2>1. booked[a] = 0 /\ failed[a] = 0
    BY <1>6 DEF Match, PhaseInv
  <2>. QED
    BY <1>6, <2>1 DEF Match, EpochInv, TypeOK
<1>7. ASSUME NEW a \in Attempts, Suppress(a)
      PROVE  EpochInv'
  BY <1>7 DEF Suppress, EpochInv, TypeOK, attemptVars
<1>8. ASSUME NEW a \in Attempts, Book(a)
      PROVE  EpochInv'
  <2>1. Stamped(row[sub[a]], a).epoch = row[sub[a]].epoch /\ Stamped(row[sub[a]], a).gen = row[sub[a]].gen
    BY DEF Stamped, TypeOK, Docs
  <2>2. \A t \in Subs : row'[t].epoch = row[t].epoch /\ row'[t].gen = row[t].gen
    BY <1>8, <2>1 DEF Book, TypeOK
  <2>b. \A t \in Subs : row[t].epoch \in Nat /\ row[t].gen \in Nat /\ writes[t] \in Nat
    BY DEF TypeOK, Docs
  <2>3. \A t \in Subs : row'[t].epoch <= writes'[t] /\ (Held(row'[t]) => row'[t].epoch # 0)
    BY <1>8, <2>2, <2>b DEF Book, EpochInv, Held
  <2>a. sub[a] \in Subs
    BY DEF TypeOK
  <2>4. row[sub[a]].epoch <= writes[sub[a]]
    BY <2>a, <2>b DEF EpochInv
  <2>5. \A c \in Attempts : booked'[c] <= writes'[sub'[c]] /\ failed'[c] <= writes'[sub'[c]]
    BY <1>8, <2>4 DEF Book, EpochInv, TypeOK
  <2>. QED
    BY <2>3, <2>5 DEF EpochInv
<1>9. ASSUME NEW a \in Attempts, MirrorBooked(a)
      PROVE  EpochInv'
  BY <1>9 DEF MirrorBooked, EpochInv, TypeOK, attemptVars
<1>10. ASSUME NEW a \in Attempts, Refuse(a)
      PROVE  EpochInv'
  BY <1>10 DEF Refuse, EpochInv, TypeOK, attemptVars
<1>11. ASSUME NEW a \in Attempts, NEW b \in BOOLEAN, Send(a, b)
      PROVE  EpochInv'
  BY <1>11 DEF Send, EpochInv, TypeOK, attemptVars
<1>12. ASSUME NEW a \in Attempts, BookFailure(a)
      PROVE  EpochInv'
  <2>1. RolledBack(row[sub[a]], prev[a]).epoch = row[sub[a]].epoch /\ RolledBack(row[sub[a]], prev[a]).gen = row[sub[a]].gen
    BY DEF RolledBack, TypeOK, Docs
  <2>2. \A t \in Subs : row'[t].epoch = row[t].epoch /\ row'[t].gen = row[t].gen
    BY <1>12, <2>1 DEF BookFailure, TypeOK
  <2>b. \A t \in Subs : row[t].epoch \in Nat /\ row[t].gen \in Nat /\ writes[t] \in Nat
    BY DEF TypeOK, Docs
  <2>3. \A t \in Subs : row'[t].epoch <= writes'[t] /\ (Held(row'[t]) => row'[t].epoch # 0)
    BY <1>12, <2>2, <2>b DEF BookFailure, EpochInv, Held
  <2>a. sub[a] \in Subs
    BY DEF TypeOK
  <2>4. row[sub[a]].epoch <= writes[sub[a]]
    BY <2>a, <2>b DEF EpochInv
  <2>5. \A c \in Attempts : booked'[c] <= writes'[sub'[c]] /\ failed'[c] <= writes'[sub'[c]]
    BY <1>12, <2>4 DEF BookFailure, EpochInv, TypeOK
  <2>. QED
    BY <2>3, <2>5 DEF EpochInv
<1>13. ASSUME NEW a \in Attempts, MirrorFailure(a)
      PROVE  EpochInv'
  BY <1>13 DEF MirrorFailure, EpochInv, TypeOK, attemptVars
<1>14. ASSUME NEW a \in Attempts, Retry(a)
      PROVE  EpochInv'
  BY <1>14 DEF Retry, EpochInv, TypeOK, attemptVars
<1>15. ASSUME NEW a \in Attempts, NEW b \in BOOLEAN, Resend(a, b)
      PROVE  EpochInv'
  BY <1>15 DEF Resend, EpochInv, TypeOK, attemptVars
<1>16. ASSUME NEW a \in Attempts, Settle(a)
      PROVE  EpochInv'
  <2>1. Retried(row[sub[a]], a).epoch = row[sub[a]].epoch /\ Retried(row[sub[a]], a).gen = row[sub[a]].gen
    BY DEF Retried, TypeOK, Docs
  <2>2. \A t \in Subs : row'[t].epoch = row[t].epoch /\ row'[t].gen = row[t].gen
    BY <1>16, <2>1 DEF Settle, TypeOK
  <2>. QED
    BY <1>16, <2>2 DEF Settle, EpochInv, Held, TypeOK
<1>17. ASSUME NEW a \in Attempts, MirrorSettled(a)
      PROVE  EpochInv'
  BY <1>17 DEF MirrorSettled, EpochInv, TypeOK, attemptVars
<1>18. ASSUME NEW a \in Attempts, NEW b \in BOOLEAN, GiveUp(a, b)
      PROVE  EpochInv'
  BY <1>18 DEF GiveUp, EpochInv, TypeOK, attemptVars
<1>19. ASSUME NEW r \in Replayers, NEW a \in Attempts, ReplayGet(r, a)
      PROVE  EpochInv'
  BY <1>19 DEF ReplayGet, EpochInv, TypeOK, attemptVars
<1>20. ASSUME NEW r \in Replayers, NEW b \in BOOLEAN, ReplaySend(r, b)
      PROVE  EpochInv'
  BY <1>20 DEF ReplaySend, EpochInv, TypeOK, attemptVars
<1>21. ASSUME NEW r \in Replayers, ReplayDelete(r)
      PROVE  EpochInv'
  BY <1>21 DEF ReplayDelete, EpochInv, TypeOK, attemptVars
<1>22. ASSUME NEW a \in Attempts, NEW b \in BOOLEAN, BookFailureLost(a, b)
      PROVE  EpochInv'
  BY <1>22 DEF BookFailureLost, EpochInv, TypeOK, attemptVars
<1>23. ASSUME NEW a \in Attempts, RetryBlind(a)
      PROVE  EpochInv'
  BY <1>23 DEF RetryBlind, EpochInv, TypeOK, attemptVars
<1>24. ASSUME NEW a \in Attempts, NEW b \in BOOLEAN, SettleLost(a, b)
      PROVE  EpochInv'
  BY <1>24 DEF SettleLost, EpochInv, TypeOK, attemptVars
<1>25. ASSUME NEW h \in Handlers, UpdateGetLost(h)
      PROVE  EpochInv'
  BY <1>25 DEF UpdateGetLost, EpochInv, TypeOK, attemptVars
<1>26. ASSUME NEW r \in Replayers, ReplayDeleteLost(r)
      PROVE  EpochInv'
  BY <1>26 DEF ReplayDeleteLost, EpochInv, TypeOK, attemptVars
<1>27. ASSUME NEW a \in Attempts, DropLetter(a)
      PROVE  EpochInv'
  BY <1>27 DEF DropLetter, EpochInv, TypeOK, attemptVars
<1>28. CASE UNCHANGED vars
  BY <1>28 DEF vars, EpochInv, attemptVars
<1>. QED
  BY <1>1, <1>2, <1>3, <1>4, <1>5, <1>6, <1>7, <1>8, <1>9, <1>10, <1>11, <1>12,
     <1>13, <1>14, <1>15, <1>16, <1>17, <1>18, <1>19, <1>20, <1>21, <1>22, <1>23, <1>24, <1>25, <1>26, <1>27, <1>28 DEF Next, Client, Deliver, Admin

\* A stored letter stays undelivered until a replay delivers it.
LEMMA LetterStep ==
    ASSUME TypeOK, OutcomeInv, ReplayInv, LetterMeansUndelivered, [Next]_vars
    PROVE  LetterMeansUndelivered'
<1>1. ASSUME NEW h \in Handlers, NEW s \in Subs, Create(h, s)
      PROVE  LetterMeansUndelivered'
  BY <1>1 DEF Create, LetterMeansUndelivered, TypeOK, attemptVars
<1>2. ASSUME NEW h \in Handlers, NEW s \in Subs, NEW b \in BOOLEAN, Update(h, s, b)
      PROVE  LetterMeansUndelivered'
  BY <1>2 DEF Update, LetterMeansUndelivered, TypeOK, attemptVars
<1>3. ASSUME NEW h \in Handlers, UpdateGet(h)
      PROVE  LetterMeansUndelivered'
  BY <1>3 DEF UpdateGet, LetterMeansUndelivered, TypeOK, attemptVars
<1>4. ASSUME NEW h \in Handlers, NEW s \in Subs, Delete(h, s)
      PROVE  LetterMeansUndelivered'
  BY <1>4 DEF Delete, LetterMeansUndelivered, TypeOK, attemptVars
<1>5. ASSUME NEW h \in Handlers, SyncMirror(h)
      PROVE  LetterMeansUndelivered'
  BY <1>5 DEF SyncMirror, LetterMeansUndelivered, TypeOK, attemptVars
<1>6. ASSUME NEW a \in Attempts, NEW s \in Subs, Match(a, s)
      PROVE  LetterMeansUndelivered'
  BY <1>6 DEF Match, LetterMeansUndelivered, TypeOK, attemptVars
<1>7. ASSUME NEW a \in Attempts, Suppress(a)
      PROVE  LetterMeansUndelivered'
  BY <1>7 DEF Suppress, LetterMeansUndelivered, TypeOK, attemptVars
<1>8. ASSUME NEW a \in Attempts, Book(a)
      PROVE  LetterMeansUndelivered'
  BY <1>8 DEF Book, LetterMeansUndelivered, TypeOK, attemptVars
<1>9. ASSUME NEW a \in Attempts, MirrorBooked(a)
      PROVE  LetterMeansUndelivered'
  BY <1>9 DEF MirrorBooked, LetterMeansUndelivered, TypeOK, attemptVars
<1>10. ASSUME NEW a \in Attempts, Refuse(a)
      PROVE  LetterMeansUndelivered'
  BY <1>10 DEF Refuse, LetterMeansUndelivered, TypeOK, attemptVars
<1>11. ASSUME NEW a \in Attempts, NEW b \in BOOLEAN, Send(a, b)
      PROVE  LetterMeansUndelivered'
  <2>1. letter[a] = "none"
    BY <1>11 DEF Send, OutcomeInv, TypeOK
  <2>. QED
    BY <1>11, <2>1 DEF Send, LetterMeansUndelivered, TypeOK
<1>12. ASSUME NEW a \in Attempts, BookFailure(a)
      PROVE  LetterMeansUndelivered'
  BY <1>12 DEF BookFailure, LetterMeansUndelivered, TypeOK, attemptVars
<1>13. ASSUME NEW a \in Attempts, MirrorFailure(a)
      PROVE  LetterMeansUndelivered'
  BY <1>13 DEF MirrorFailure, LetterMeansUndelivered, TypeOK, attemptVars
<1>14. ASSUME NEW a \in Attempts, Retry(a)
      PROVE  LetterMeansUndelivered'
  BY <1>14 DEF Retry, LetterMeansUndelivered, TypeOK, attemptVars
<1>15. ASSUME NEW a \in Attempts, NEW b \in BOOLEAN, Resend(a, b)
      PROVE  LetterMeansUndelivered'
  <2>1. letter[a] = "none"
    BY <1>15 DEF Resend, OutcomeInv, TypeOK
  <2>. QED
    BY <1>15, <2>1 DEF Resend, LetterMeansUndelivered, TypeOK
<1>16. ASSUME NEW a \in Attempts, Settle(a)
      PROVE  LetterMeansUndelivered'
  BY <1>16 DEF Settle, LetterMeansUndelivered, TypeOK, attemptVars
<1>17. ASSUME NEW a \in Attempts, MirrorSettled(a)
      PROVE  LetterMeansUndelivered'
  BY <1>17 DEF MirrorSettled, LetterMeansUndelivered, TypeOK, attemptVars
<1>18. ASSUME NEW a \in Attempts, NEW b \in BOOLEAN, GiveUp(a, b)
      PROVE  LetterMeansUndelivered'
  BY <1>18 DEF GiveUp, LetterMeansUndelivered, OutcomeInv, TypeOK
<1>19. ASSUME NEW r \in Replayers, NEW a \in Attempts, ReplayGet(r, a)
      PROVE  LetterMeansUndelivered'
  BY <1>19 DEF ReplayGet, LetterMeansUndelivered, ReplayInv, TypeOK, attemptVars
<1>20. ASSUME NEW r \in Replayers, NEW b \in BOOLEAN, ReplaySend(r, b)
      PROVE  LetterMeansUndelivered'
  BY <1>20 DEF ReplaySend, LetterMeansUndelivered, ReplayInv, TypeOK, attemptVars
<1>21. ASSUME NEW r \in Replayers, ReplayDelete(r)
      PROVE  LetterMeansUndelivered'
  BY <1>21 DEF ReplayDelete, LetterMeansUndelivered, ReplayInv, TypeOK, attemptVars
<1>22. ASSUME NEW a \in Attempts, NEW b \in BOOLEAN, BookFailureLost(a, b)
      PROVE  LetterMeansUndelivered'
  BY <1>22 DEF BookFailureLost, LetterMeansUndelivered, TypeOK, attemptVars
<1>23. ASSUME NEW a \in Attempts, RetryBlind(a)
      PROVE  LetterMeansUndelivered'
  BY <1>23 DEF RetryBlind, LetterMeansUndelivered, TypeOK, attemptVars
<1>24. ASSUME NEW a \in Attempts, NEW b \in BOOLEAN, SettleLost(a, b)
      PROVE  LetterMeansUndelivered'
  BY <1>24 DEF SettleLost, LetterMeansUndelivered, TypeOK, attemptVars
<1>25. ASSUME NEW h \in Handlers, UpdateGetLost(h)
      PROVE  LetterMeansUndelivered'
  BY <1>25 DEF UpdateGetLost, LetterMeansUndelivered, TypeOK, attemptVars
<1>26. ASSUME NEW r \in Replayers, ReplayDeleteLost(r)
      PROVE  LetterMeansUndelivered'
  BY <1>26 DEF ReplayDeleteLost, LetterMeansUndelivered, ReplayInv, TypeOK, attemptVars
<1>27. ASSUME NEW a \in Attempts, DropLetter(a)
      PROVE  LetterMeansUndelivered'
  BY <1>27 DEF DropLetter, LetterMeansUndelivered, TypeOK, attemptVars
<1>28. CASE UNCHANGED vars
  BY <1>28 DEF vars, LetterMeansUndelivered, attemptVars
<1>. QED
  BY <1>1, <1>2, <1>3, <1>4, <1>5, <1>6, <1>7, <1>8, <1>9, <1>10, <1>11, <1>12,
     <1>13, <1>14, <1>15, <1>16, <1>17, <1>18, <1>19, <1>20, <1>21, <1>22, <1>23, <1>24, <1>25, <1>26, <1>27, <1>28 DEF Next, Client, Deliver, Admin

-----------------------------------------------------------------------------
(* Counters.                                                               *)

\* Both counter sets are finite, so they have a cardinality.
LEMMA CountersFinite ==
    \A s, e : /\ IsFiniteSet(BookedIn(s, e)) /\ Cardinality(BookedIn(s, e)) \in Nat
             /\ IsFiniteSet(FailedIn(s, e)) /\ Cardinality(FailedIn(s, e)) \in Nat
<1>. TAKE s, e
<1>1. BookedIn(s, e) \in SUBSET Attempts /\ FailedIn(s, e) \in SUBSET Attempts
  BY DEF BookedIn, FailedIn
<1>2. IsFiniteSet(BookedIn(s, e)) /\ IsFiniteSet(FailedIn(s, e))
  BY <1>1, DeliveryAssumption, FS_Subset
<1>. QED
  BY <1>2, FS_CardinalityType

\* A step that books nothing and writes no row keeps the counters.
LEMMA CountersFrame ==
    ASSUME CountersExact, UNCHANGED <<row, sub, booked, failed>>
    PROVE  CountersExact'
BY DEF CountersExact, BookedIn, FailedIn

\* Rewriting one row to an epoch no attempt was counted in, with both counters
\* at zero, keeps them exact.
LEMMA CountersFresh ==
    ASSUME TypeOK, CountersExact, NEW s \in Subs, NEW d \in Docs,
           row' = [row EXCEPT ![s] = d], UNCHANGED <<sub, booked, failed>>,
           d.sent = 0, d.failed = 0,
           \A a \in Attempts : sub[a] = s => booked[a] # d.epoch /\ failed[a] # d.epoch
    PROVE  CountersExact'
<1>1. SUFFICES ASSUME NEW t \in Subs, Held(row'[t])
               PROVE  /\ row'[t].sent = Cardinality(BookedIn(t, row[t].epoch)')
                      /\ row'[t].failed = Cardinality(FailedIn(t, row[t].epoch)')
  BY DEF CountersExact, BookedIn, FailedIn
<1>2. CASE t = s
  <2>1. row'[t] = d
    BY <1>2 DEF TypeOK
  <2>2. BookedIn(t, row[t].epoch)' = {} /\ FailedIn(t, row[t].epoch)' = {}
    BY <1>2, <2>1 DEF BookedIn, FailedIn
  <2>. QED
    BY <2>1, <2>2, FS_EmptySet
<1>3. CASE t # s
  <2>1. row'[t] = row[t]
    BY <1>3 DEF TypeOK
  <2>2. /\ BookedIn(t, row[t].epoch)' = BookedIn(t, row[t].epoch)
        /\ FailedIn(t, row[t].epoch)' = FailedIn(t, row[t].epoch)
    BY <2>1 DEF BookedIn, FailedIn
  <2>. QED
    BY <1>1, <2>1, <2>2 DEF CountersExact
<1>. QED
  BY <1>2, <1>3

\* Rewriting one row without touching its counters or epoch keeps them exact.
LEMMA CountersKept ==
    ASSUME TypeOK, CountersExact, NEW s \in Subs, NEW d \in Docs,
           row' = [row EXCEPT ![s] = d], UNCHANGED <<sub, booked, failed>>,
           d.sent = row[s].sent, d.failed = row[s].failed, d.epoch = row[s].epoch,
           d.gen = row[s].gen
    PROVE  CountersExact'
<1>1. SUFFICES ASSUME NEW t \in Subs, Held(row'[t])
               PROVE  /\ row'[t].sent = Cardinality(BookedIn(t, row[t].epoch)')
                      /\ row'[t].failed = Cardinality(FailedIn(t, row[t].epoch)')
  BY DEF CountersExact, BookedIn, FailedIn
<1>2. /\ row'[t].sent = row[t].sent /\ row'[t].failed = row[t].failed
      /\ row'[t].epoch = row[t].epoch /\ row'[t].gen = row[t].gen
  BY DEF TypeOK
<1>3. /\ BookedIn(t, row[t].epoch)' = BookedIn(t, row[t].epoch)
      /\ FailedIn(t, row[t].epoch)' = FailedIn(t, row[t].epoch)
  BY <1>2 DEF BookedIn, FailedIn
<1>. QED
  BY <1>1, <1>2, <1>3 DEF CountersExact, Held

\* Every booking adds its attempt to exactly one counter set; every client write
\* that replaces `notification' opens an epoch nobody was counted in.
LEMMA CountersStep ==
    ASSUME TypeOK, PhaseInv, EpochInv, CountersExact, [Next]_vars
    PROVE  CountersExact'
<1>1. ASSUME NEW h \in Handlers, NEW s \in Subs, Create(h, s)
      PROVE  CountersExact'
  <2>. DEFINE d == NewDoc(writes[s] + 1)
  <2>1. d \in Docs
    BY NewDocType DEF TypeOK
  <2>2. d.epoch = writes[s] + 1 /\ d.sent = 0 /\ d.failed = 0
    BY DEF NewDoc, NoDoc
  <2>3. \A c \in Attempts : sub[c] = s => booked[c] # d.epoch /\ failed[c] # d.epoch
    BY <2>2 DEF EpochInv, TypeOK
  <2>4. row' = [row EXCEPT ![s] = d] /\ UNCHANGED <<sub, booked, failed>>
    BY <1>1 DEF Create, attemptVars
  <2>. HIDE DEF d
  <2>. QED
    BY <2>1, <2>2, <2>3, <2>4, CountersFresh
<1>2. ASSUME NEW h \in Handlers, NEW s \in Subs, NEW b \in BOOLEAN, Update(h, s, b)
      PROVE  CountersExact'
  <2>. DEFINE d == Patched(row[s], writes[s] + 1, b)
  <2>1. row[s] \in Docs /\ d \in Docs
    BY PatchedType DEF TypeOK
  <2>3. row' = [row EXCEPT ![s] = d] /\ UNCHANGED <<sub, booked, failed>>
    BY <1>2 DEF Update, attemptVars
  <2>4. CASE b
    <3>1. d.epoch = writes[s] + 1 /\ d.sent = 0 /\ d.failed = 0
      BY <2>1, <2>4 DEF Patched, Docs
    <3>2. \A c \in Attempts : sub[c] = s => booked[c] # d.epoch /\ failed[c] # d.epoch
      BY <3>1 DEF EpochInv, TypeOK
    <3>. HIDE DEF d
    <3>. QED
      BY <2>1, <2>3, <3>1, <3>2, CountersFresh
  <2>5. CASE ~b
    <3>1. /\ d.epoch = row[s].epoch /\ d.sent = row[s].sent /\ d.failed = row[s].failed
          /\ d.gen = row[s].gen
      BY <2>1, <2>5 DEF Patched, Docs
    <3>. HIDE DEF d
    <3>. QED
      BY <2>1, <2>3, <3>1, CountersKept
  <2>. QED
    BY <2>4, <2>5
<1>3. ASSUME NEW h \in Handlers, UpdateGet(h)
      PROVE  CountersExact'
  BY <1>3, CountersFrame DEF UpdateGet, attemptVars
<1>4. ASSUME NEW h \in Handlers, NEW s \in Subs, Delete(h, s)
      PROVE  CountersExact'
  <2>1. NoDoc \in Docs /\ NoDoc.sent = 0 /\ NoDoc.failed = 0 /\ ~Held(NoDoc)
    BY NoDocType DEF NoDoc, Held
  <2>2. SUFFICES ASSUME NEW t \in Subs, Held(row'[t])
                 PROVE  /\ row'[t].sent = Cardinality(BookedIn(t, row[t].epoch)')
                        /\ row'[t].failed = Cardinality(FailedIn(t, row[t].epoch)')
    BY DEF CountersExact, BookedIn, FailedIn
  <2>3. row'[t] = row[t]
    BY <1>4, <2>1, <2>2 DEF Delete, TypeOK
  <2>4. /\ BookedIn(t, row[t].epoch)' = BookedIn(t, row[t].epoch)
        /\ FailedIn(t, row[t].epoch)' = FailedIn(t, row[t].epoch)
    BY <1>4, <2>3 DEF Delete, attemptVars, BookedIn, FailedIn
  <2>. QED
    BY <2>2, <2>3, <2>4 DEF CountersExact
<1>5. ASSUME NEW h \in Handlers, SyncMirror(h)
      PROVE  CountersExact'
  BY <1>5, CountersFrame DEF SyncMirror, attemptVars
<1>6. ASSUME NEW a \in Attempts, NEW s \in Subs, Match(a, s)
      PROVE  CountersExact'
  <2>1. booked[a] = 0 /\ failed[a] = 0
    BY <1>6 DEF Match, PhaseInv
  <2>2. SUFFICES ASSUME NEW t \in Subs, Held(row[t])
                 PROVE  /\ BookedIn(t, row[t].epoch)' = BookedIn(t, row[t].epoch)
                        /\ FailedIn(t, row[t].epoch)' = FailedIn(t, row[t].epoch)
    BY <1>6 DEF Match, CountersExact, BookedIn, FailedIn
  <2>3. row[t].epoch # 0
    BY <2>2 DEF EpochInv
  <2>. QED
    BY <1>6, <2>1, <2>3 DEF Match, BookedIn, FailedIn, TypeOK
<1>7. ASSUME NEW a \in Attempts, Suppress(a)
      PROVE  CountersExact'
  BY <1>7, CountersFrame DEF Suppress, attemptVars
<1>8. ASSUME NEW a \in Attempts, Book(a)
      PROVE  CountersExact'
  <2>1. CASE Held(row[sub[a]])
    <3>. DEFINE s == sub[a]
    <3>. DEFINE e == row[s].epoch
    <3>. DEFINE d == Stamped(row[sub[a]], a)
    <3>1. s \in Subs /\ row[s] \in Docs /\ d \in Docs
      BY StampedType DEF TypeOK
    <3>2. /\ d.epoch = e /\ d.failed = row[s].failed /\ d.sent = row[s].sent + 1
      BY <3>1 DEF Stamped, Docs
    <3>3. /\ row' = [row EXCEPT ![s] = d] /\ booked' = [booked EXCEPT ![a] = e]
          /\ UNCHANGED <<sub, failed>>
      BY <1>8, <2>1 DEF Book
    <3>4. booked[a] = 0 /\ e # 0
      BY <1>8, <2>1, <3>1 DEF Book, PhaseInv, EpochInv
    <3>5. SUFFICES ASSUME NEW t \in Subs, Held(row'[t])
                   PROVE  /\ row'[t].sent = Cardinality(BookedIn(t, row[t].epoch)')
                          /\ row'[t].failed = Cardinality(FailedIn(t, row[t].epoch)')
      BY DEF CountersExact, BookedIn, FailedIn
    <3>6. CASE t = s
      <4>1. row'[t] = d
        BY <3>3, <3>6 DEF TypeOK
      <4>2. BookedIn(t, row[t].epoch)' = BookedIn(s, e) \cup {a} /\ a \notin BookedIn(s, e)
        BY <3>2, <3>3, <3>4, <3>6, <4>1 DEF BookedIn, TypeOK
      <4>3. FailedIn(t, row[t].epoch)' = FailedIn(s, e)
        BY <3>2, <3>3, <3>6, <4>1 DEF FailedIn
      <4>4. Cardinality(BookedIn(s, e) \cup {a}) = Cardinality(BookedIn(s, e)) + 1
        BY <4>2, CountersFinite, FS_AddElement
      <4>5. row[s].sent = Cardinality(BookedIn(s, e)) /\ row[s].failed = Cardinality(FailedIn(s, e))
        BY <2>1, <3>1 DEF CountersExact
      <4>. QED
        BY <3>2, <4>1, <4>2, <4>3, <4>4, <4>5
    <3>7. CASE t # s
      <4>1. row'[t] = row[t]
        BY <3>3, <3>7 DEF TypeOK
      <4>2. /\ BookedIn(t, row[t].epoch)' = BookedIn(t, row[t].epoch)
            /\ FailedIn(t, row[t].epoch)' = FailedIn(t, row[t].epoch)
        BY <3>3, <3>7, <4>1 DEF BookedIn, FailedIn, TypeOK
      <4>. QED
        BY <3>5, <4>1, <4>2 DEF CountersExact
    <3>. QED
      BY <3>6, <3>7
  <2>2. CASE ~Held(row[sub[a]])
    BY <1>8, <2>2, CountersFrame DEF Book
  <2>. QED
    BY <2>1, <2>2
<1>9. ASSUME NEW a \in Attempts, MirrorBooked(a)
      PROVE  CountersExact'
  BY <1>9, CountersFrame DEF MirrorBooked, attemptVars
<1>10. ASSUME NEW a \in Attempts, Refuse(a)
      PROVE  CountersExact'
  BY <1>10, CountersFrame DEF Refuse, attemptVars
<1>11. ASSUME NEW a \in Attempts, NEW b \in BOOLEAN, Send(a, b)
      PROVE  CountersExact'
  BY <1>11, CountersFrame DEF Send, attemptVars
<1>12. ASSUME NEW a \in Attempts, BookFailure(a)
      PROVE  CountersExact'
  <2>1. CASE Held(row[sub[a]])
    <3>. DEFINE s == sub[a]
    <3>. DEFINE e == row[s].epoch
    <3>. DEFINE d == RolledBack(row[sub[a]], prev[a])
    <3>1. s \in Subs /\ row[s] \in Docs /\ d \in Docs
      BY RolledBackType DEF TypeOK
    <3>2. /\ d.epoch = e /\ d.sent = row[s].sent /\ d.failed = row[s].failed + 1
      BY <3>1 DEF RolledBack, Docs
    <3>3. /\ row' = [row EXCEPT ![s] = d] /\ failed' = [failed EXCEPT ![a] = e]
          /\ UNCHANGED <<sub, booked>>
      BY <1>12, <2>1 DEF BookFailure
    <3>4. failed[a] = 0 /\ e # 0
      BY <1>12, <2>1, <3>1 DEF BookFailure, PhaseInv, EpochInv
    <3>5. SUFFICES ASSUME NEW t \in Subs, Held(row'[t])
                   PROVE  /\ row'[t].sent = Cardinality(BookedIn(t, row[t].epoch)')
                          /\ row'[t].failed = Cardinality(FailedIn(t, row[t].epoch)')
      BY DEF CountersExact, BookedIn, FailedIn
    <3>6. CASE t = s
      <4>1. row'[t] = d
        BY <3>3, <3>6 DEF TypeOK
      <4>2. FailedIn(t, row[t].epoch)' = FailedIn(s, e) \cup {a} /\ a \notin FailedIn(s, e)
        BY <3>2, <3>3, <3>4, <3>6, <4>1 DEF FailedIn, TypeOK
      <4>3. BookedIn(t, row[t].epoch)' = BookedIn(s, e)
        BY <3>2, <3>3, <3>6, <4>1 DEF BookedIn
      <4>4. Cardinality(FailedIn(s, e) \cup {a}) = Cardinality(FailedIn(s, e)) + 1
        BY <4>2, CountersFinite, FS_AddElement
      <4>5. row[s].sent = Cardinality(BookedIn(s, e)) /\ row[s].failed = Cardinality(FailedIn(s, e))
        BY <2>1, <3>1 DEF CountersExact
      <4>. QED
        BY <3>2, <4>1, <4>2, <4>3, <4>4, <4>5
    <3>7. CASE t # s
      <4>1. row'[t] = row[t]
        BY <3>3, <3>7 DEF TypeOK
      <4>2. /\ BookedIn(t, row[t].epoch)' = BookedIn(t, row[t].epoch)
            /\ FailedIn(t, row[t].epoch)' = FailedIn(t, row[t].epoch)
        BY <3>3, <3>7, <4>1 DEF BookedIn, FailedIn, TypeOK
      <4>. QED
        BY <3>5, <4>1, <4>2 DEF CountersExact
    <3>. QED
      BY <3>6, <3>7
  <2>2. CASE ~Held(row[sub[a]])
    BY <1>12, <2>2, CountersFrame DEF BookFailure
  <2>. QED
    BY <2>1, <2>2
<1>13. ASSUME NEW a \in Attempts, MirrorFailure(a)
      PROVE  CountersExact'
  BY <1>13, CountersFrame DEF MirrorFailure, attemptVars
<1>14. ASSUME NEW a \in Attempts, Retry(a)
      PROVE  CountersExact'
  BY <1>14, CountersFrame DEF Retry, attemptVars
<1>15. ASSUME NEW a \in Attempts, NEW b \in BOOLEAN, Resend(a, b)
      PROVE  CountersExact'
  BY <1>15, CountersFrame DEF Resend, attemptVars
<1>16. ASSUME NEW a \in Attempts, Settle(a)
      PROVE  CountersExact'
  <2>1. CASE Held(row[sub[a]])
    <3>. DEFINE d == Retried(row[sub[a]], a)
    <3>1. row[sub[a]] \in Docs /\ d \in Docs /\ sub[a] \in Subs
      BY RetriedType DEF TypeOK
    <3>2. /\ d.epoch = row[sub[a]].epoch /\ d.sent = row[sub[a]].sent
          /\ d.failed = row[sub[a]].failed /\ d.gen = row[sub[a]].gen
      BY <3>1 DEF Retried, Docs
    <3>3. row' = [row EXCEPT ![sub[a]] = d] /\ UNCHANGED <<sub, booked, failed>>
      BY <1>16, <2>1 DEF Settle
    <3>. HIDE DEF d
    <3>. QED
      BY <3>1, <3>2, <3>3, CountersKept
  <2>2. CASE ~Held(row[sub[a]])
    BY <1>16, <2>2, CountersFrame DEF Settle
  <2>. QED
    BY <2>1, <2>2
<1>17. ASSUME NEW a \in Attempts, MirrorSettled(a)
      PROVE  CountersExact'
  BY <1>17, CountersFrame DEF MirrorSettled, attemptVars
<1>18. ASSUME NEW a \in Attempts, NEW b \in BOOLEAN, GiveUp(a, b)
      PROVE  CountersExact'
  BY <1>18, CountersFrame DEF GiveUp, attemptVars
<1>19. ASSUME NEW r \in Replayers, NEW a \in Attempts, ReplayGet(r, a)
      PROVE  CountersExact'
  BY <1>19, CountersFrame DEF ReplayGet, attemptVars
<1>20. ASSUME NEW r \in Replayers, NEW b \in BOOLEAN, ReplaySend(r, b)
      PROVE  CountersExact'
  BY <1>20, CountersFrame DEF ReplaySend, attemptVars
<1>21. ASSUME NEW r \in Replayers, ReplayDelete(r)
      PROVE  CountersExact'
  BY <1>21, CountersFrame DEF ReplayDelete, attemptVars
<1>22. ASSUME NEW a \in Attempts, NEW b \in BOOLEAN, BookFailureLost(a, b)
      PROVE  CountersExact'
  BY <1>22, CountersFrame DEF BookFailureLost, attemptVars
<1>23. ASSUME NEW a \in Attempts, RetryBlind(a)
      PROVE  CountersExact'
  BY <1>23, CountersFrame DEF RetryBlind, attemptVars
<1>24. ASSUME NEW a \in Attempts, NEW b \in BOOLEAN, SettleLost(a, b)
      PROVE  CountersExact'
  BY <1>24, CountersFrame DEF SettleLost, attemptVars
<1>25. ASSUME NEW h \in Handlers, UpdateGetLost(h)
      PROVE  CountersExact'
  BY <1>25, CountersFrame DEF UpdateGetLost, attemptVars
<1>26. ASSUME NEW r \in Replayers, ReplayDeleteLost(r)
      PROVE  CountersExact'
  BY <1>26, CountersFrame DEF ReplayDeleteLost, attemptVars
<1>27. ASSUME NEW a \in Attempts, DropLetter(a)
      PROVE  CountersExact'
  BY <1>27, CountersFrame DEF DropLetter, attemptVars
<1>28. CASE UNCHANGED vars
  BY <1>28, CountersFrame DEF vars, attemptVars
<1>. QED
  BY <1>1, <1>2, <1>3, <1>4, <1>5, <1>6, <1>7, <1>8, <1>9, <1>10, <1>11, <1>12,
     <1>13, <1>14, <1>15, <1>16, <1>17, <1>18, <1>19, <1>20, <1>21, <1>22, <1>23, <1>24, <1>25, <1>26, <1>27, <1>28 DEF Next, Client, Deliver, Admin

-----------------------------------------------------------------------------
(* The copies of a document.                                               *)

\* What one step may do to the stored document of s: a client write numbers it
\* past every write before, anything else keeps its version and its epoch, and
\* within an epoch the counter only grows.
Advances(s) ==
    /\ writes[s] <= writes'[s] /\ row'[s].ver <= writes'[s]
    /\ Held(row'[s]) =>
          \/ row'[s].ver > writes[s] /\ row'[s].epoch > writes[s]
          \/ /\ Held(row[s]) /\ row[s].ver <= row'[s].ver
             /\ row'[s].epoch = row[s].epoch /\ row[s].sent <= row'[s].sent

\* A writeback of a delivery leaves version and epoch, and takes nothing off
\* timesSent.
LEMMA WritebackAdvances ==
    ASSUME TypeOK, CopyInv, NEW s \in Subs, NEW d \in Docs,
           Held(row[s]), row' = [row EXCEPT ![s] = d], UNCHANGED writes,
           d.ver = row[s].ver, d.epoch = row[s].epoch, row[s].sent <= d.sent
    PROVE  \A t \in Subs : Advances(t)
<1>. SUFFICES ASSUME NEW t \in Subs PROVE Advances(t)
  OBVIOUS
<1>1. writes[t] \in Nat /\ row[t] \in Docs /\ row[t].ver <= writes[t]
  BY DEF TypeOK, CopyInv
<1>2. row[t].ver \in Nat /\ row[t].sent \in Nat /\ d.ver \in Nat
  BY <1>1 DEF Docs
<1>3. row'[t] = IF t = s THEN d ELSE row[t]
  BY DEF TypeOK
<1>4. CASE t = s
  BY <1>1, <1>2, <1>3, <1>4 DEF Advances
<1>5. CASE t # s
  BY <1>1, <1>2, <1>3, <1>5 DEF Advances
<1>. QED
  BY <1>4, <1>5

\* A client write puts its own number on the version.
LEMMA ClientWriteAdvances ==
    ASSUME TypeOK, CopyInv, NEW s \in Subs, NEW d \in Docs,
           row' = [row EXCEPT ![s] = d], writes' = [writes EXCEPT ![s] = writes[s] + 1],
           d.ver = writes[s] + 1,
           \/ d.epoch = writes[s] + 1
           \/ Held(row[s]) /\ d.epoch = row[s].epoch /\ d.sent = row[s].sent
    PROVE  \A t \in Subs : Advances(t)
<1>. SUFFICES ASSUME NEW t \in Subs PROVE Advances(t)
  OBVIOUS
<1>1. writes[t] \in Nat /\ row[t] \in Docs /\ row[t].ver <= writes[t]
  BY DEF TypeOK, CopyInv
<1>2. row[t].ver \in Nat /\ row[t].sent \in Nat /\ d.ver \in Nat
  BY <1>1 DEF Docs
<1>3. row'[t] = IF t = s THEN d ELSE row[t]
  BY DEF TypeOK
<1>4. writes'[t] = IF t = s THEN writes[t] + 1 ELSE writes[t]
  BY DEF TypeOK
<1>5. CASE t = s
  BY <1>1, <1>2, <1>3, <1>4, <1>5 DEF Advances
<1>6. CASE t # s
  BY <1>1, <1>2, <1>3, <1>4, <1>6 DEF Advances
<1>. QED
  BY <1>5, <1>6

\* No step lets the stored document fall behind a copy that fitted it.
LEMMA EveryStepAdvances ==
    ASSUME TypeOK, CopyInv, [Next]_vars
    PROVE  \A t \in Subs : Advances(t)
<1>1. ASSUME UNCHANGED <<row, writes>>
      PROVE  \A t \in Subs : Advances(t)
  <2>. SUFFICES ASSUME NEW t \in Subs PROVE Advances(t)
    OBVIOUS
  <2>1. writes[t] \in Nat /\ row[t] \in Docs /\ row[t].ver <= writes[t]
    BY DEF TypeOK, CopyInv
  <2>2. row[t].ver \in Nat /\ row[t].sent \in Nat
    BY <2>1 DEF Docs
  <2>. QED
    BY <1>1, <2>1, <2>2 DEF Advances
<1>2. ASSUME NEW h \in Handlers, NEW s \in Subs, Create(h, s)
      PROVE  \A t \in Subs : Advances(t)
  <2>. DEFINE d == NewDoc(writes[s] + 1)
  <2>1. d \in Docs /\ d.ver = writes[s] + 1 /\ d.epoch = writes[s] + 1
    <3>1. writes[s] + 1 \in Nat
      BY DEF TypeOK
    <3>2. d \in Docs
      BY <3>1, NewDocType
    <3>3. d.ver = writes[s] + 1 /\ d.epoch = writes[s] + 1
      BY DEF NewDoc, NoDoc
    <3>. QED
      BY <3>2, <3>3
  <2>2. row' = [row EXCEPT ![s] = d] /\ writes' = [writes EXCEPT ![s] = writes[s] + 1]
    BY <1>2 DEF Create
  <2>. HIDE DEF d
  <2>. QED
    BY <2>1, <2>2, ClientWriteAdvances
<1>3. ASSUME NEW h \in Handlers, NEW s \in Subs, NEW b \in BOOLEAN, Update(h, s, b)
      PROVE  \A t \in Subs : Advances(t)
  <2>. DEFINE d == Patched(row[s], writes[s] + 1, b)
  <2>0. writes[s] + 1 \in Nat /\ row[s] \in Docs
    BY DEF TypeOK
  <2>1. d \in Docs
    BY <2>0, PatchedType
  <2>2. row' = [row EXCEPT ![s] = d] /\ writes' = [writes EXCEPT ![s] = writes[s] + 1]
        /\ Held(row[s])
    BY <1>3 DEF Update, TypeOK
  <2>3. /\ d.ver = writes[s] + 1
        /\ d.epoch = writes[s] + 1 \/ (d.epoch = row[s].epoch /\ d.sent = row[s].sent)
    BY <2>0 DEF Patched, Docs
  <2>. HIDE DEF d
  <2>. QED
    BY <2>1, <2>2, <2>3, ClientWriteAdvances
<1>4. ASSUME NEW h \in Handlers, NEW s \in Subs, Delete(h, s)
      PROVE  \A t \in Subs : Advances(t)
  <2>. SUFFICES ASSUME NEW t \in Subs PROVE Advances(t)
    OBVIOUS
  <2>1. writes[t] \in Nat /\ row[t] \in Docs /\ row[t].ver <= writes[t]
    BY DEF TypeOK, CopyInv
  <2>2. row[t].ver \in Nat /\ row[t].sent \in Nat
    BY <2>1 DEF Docs
  <2>3. row'[t] = (IF t = s THEN NoDoc ELSE row[t]) /\ writes' = writes
    BY <1>4 DEF Delete, TypeOK
  <2>4. ~Held(NoDoc) /\ NoDoc.ver = 0
    BY DEF NoDoc, Held
  <2>. QED
    BY <2>1, <2>2, <2>3, <2>4 DEF Advances
<1>5. ASSUME NEW a \in Attempts, Book(a)
      PROVE  \A t \in Subs : Advances(t)
  <2>0. sub[a] \in Subs /\ row[sub[a]] \in Docs
    BY DEF TypeOK
  <2>1. CASE ~Held(row[sub[a]])
    BY <1>1, <1>5, <2>1 DEF Book
  <2>2. CASE Held(row[sub[a]])
    <3>. DEFINE d == Stamped(row[sub[a]], a)
    <3>1. d \in Docs
      BY <2>0, StampedType
    <3>2. row' = [row EXCEPT ![sub[a]] = d] /\ UNCHANGED writes
      BY <1>5, <2>2 DEF Book
    <3>3. d.ver = row[sub[a]].ver /\ d.epoch = row[sub[a]].epoch /\ row[sub[a]].sent <= d.sent
      BY <2>0 DEF Stamped, Docs
    <3>. HIDE DEF d
    <3>. QED
      BY <2>0, <2>2, <3>1, <3>2, <3>3, WritebackAdvances
  <2>. QED
    BY <2>1, <2>2
<1>6. ASSUME NEW a \in Attempts, BookFailure(a)
      PROVE  \A t \in Subs : Advances(t)
  <2>0. sub[a] \in Subs /\ row[sub[a]] \in Docs /\ prev[a] \in Stamps
    BY DEF TypeOK
  <2>1. CASE ~Held(row[sub[a]])
    BY <1>1, <1>6, <2>1 DEF BookFailure
  <2>2. CASE Held(row[sub[a]])
    <3>. DEFINE d == RolledBack(row[sub[a]], prev[a])
    <3>1. d \in Docs
      BY <2>0, RolledBackType
    <3>2. row' = [row EXCEPT ![sub[a]] = d] /\ UNCHANGED writes
      BY <1>6, <2>2 DEF BookFailure
    <3>3. d.ver = row[sub[a]].ver /\ d.epoch = row[sub[a]].epoch /\ row[sub[a]].sent <= d.sent
      BY <2>0 DEF RolledBack, Docs
    <3>. HIDE DEF d
    <3>. QED
      BY <2>0, <2>2, <3>1, <3>2, <3>3, WritebackAdvances
  <2>. QED
    BY <2>1, <2>2
<1>7. ASSUME NEW a \in Attempts, Settle(a)
      PROVE  \A t \in Subs : Advances(t)
  <2>0. sub[a] \in Subs /\ row[sub[a]] \in Docs
    BY DEF TypeOK
  <2>1. CASE ~Held(row[sub[a]])
    BY <1>1, <1>7, <2>1 DEF Settle
  <2>2. CASE Held(row[sub[a]])
    <3>. DEFINE d == Retried(row[sub[a]], a)
    <3>1. d \in Docs
      BY <2>0, RetriedType
    <3>2. row' = [row EXCEPT ![sub[a]] = d] /\ UNCHANGED writes
      BY <1>7, <2>2 DEF Settle
    <3>3. d.ver = row[sub[a]].ver /\ d.epoch = row[sub[a]].epoch /\ row[sub[a]].sent <= d.sent
      BY <2>0 DEF Retried, Docs
    <3>. HIDE DEF d
    <3>. QED
      BY <2>0, <2>2, <3>1, <3>2, <3>3, WritebackAdvances
  <2>. QED
    BY <2>1, <2>2
<1>8. ASSUME NEW h \in Handlers, UpdateGet(h) \/ UpdateGetLost(h) \/ SyncMirror(h)
      PROVE  \A t \in Subs : Advances(t)
  BY <1>1, <1>8 DEF UpdateGet, UpdateGetLost, SyncMirror
<1>9. ASSUME NEW a \in Attempts, NEW s \in Subs, Match(a, s)
      PROVE  \A t \in Subs : Advances(t)
  BY <1>1, <1>9 DEF Match
<1>10. ASSUME NEW a \in Attempts, Deliver(a)
       PROVE  \A t \in Subs : Advances(t)
  BY <1>1, <1>5, <1>6, <1>7, <1>10
     DEF Deliver, Suppress, MirrorBooked, Refuse, Send, MirrorFailure, Retry, MirrorSettled,
         Resend, GiveUp, BookFailureLost, SettleLost, RetryBlind
<1>11. ASSUME Admin
       PROVE  \A t \in Subs : Advances(t)
  BY <1>1, <1>11 DEF Admin, ReplayGet, ReplaySend, ReplayDelete, ReplayDeleteLost, DropLetter
<1>12. ASSUME UNCHANGED vars
       PROVE  \A t \in Subs : Advances(t)
  BY <1>1, <1>12 DEF vars
<1>. QED
  BY <1>2, <1>3, <1>4, <1>8, <1>9, <1>10, <1>11, <1>12 DEF Next, Client

\* Fits, after a step.
FitsNext(s, d) ==
    /\ d.ver <= writes'[s] /\ d.epoch <= writes'[s]
    /\ Held(row'[s]) => /\ d.ver <= row'[s].ver
                        /\ d.epoch = row'[s].epoch => d.sent <= row'[s].sent

\* A copy that fitted still does.
LEMMA FitsKept ==
    ASSUME TypeOK, TypeOK', NEW s \in Subs, NEW d \in Docs, Advances(s), Fits(s, d)
    PROVE  FitsNext(s, d)
<1>1. /\ writes[s] \in Nat /\ writes'[s] \in Nat
      /\ row[s] \in Docs /\ row'[s] \in Docs
  BY DEF TypeOK
<1>2. /\ d.ver \in Nat /\ d.epoch \in Nat /\ d.sent \in Nat
      /\ row[s].ver \in Nat /\ row[s].epoch \in Nat /\ row[s].sent \in Nat
      /\ row'[s].ver \in Nat /\ row'[s].epoch \in Nat /\ row'[s].sent \in Nat
  BY <1>1 DEF Docs
<1>. QED
  BY <1>1, <1>2 DEF Advances, Fits, FitsNext

\* What is stored fits itself, and so does no document at all.
LEMMA FitsFresh ==
    ASSUME TypeOK', EpochInv', NEW s \in Subs, row'[s].ver <= writes'[s]
    PROVE  FitsNext(s, row'[s]) /\ FitsNext(s, NoDoc)
<1>1. writes'[s] \in Nat /\ row'[s] \in Docs /\ row'[s].epoch <= writes'[s]
  BY DEF TypeOK, EpochInv
<1>2. row'[s].ver \in Nat /\ row'[s].epoch \in Nat /\ row'[s].sent \in Nat
  BY <1>1 DEF Docs
<1>3. NoDoc.ver = 0 /\ NoDoc.epoch = 0 /\ NoDoc.sent = 0
  BY DEF NoDoc
<1>. QED
  BY <1>1, <1>2, <1>3 DEF FitsNext

\* Every step keeps every copy an earlier or the present document.
LEMMA CopyStep ==
    ASSUME TypeOK, TypeOK', EpochInv', CopyInv, [Next]_vars
    PROVE  CopyInv'
<1>1. \A s \in Subs : row'[s].ver <= writes'[s]
  BY EveryStepAdvances DEF Advances
<1>2. \A s \in Subs : \A d \in Docs : Fits(s, d) => FitsNext(s, d)
  BY EveryStepAdvances, FitsKept
<1>3. \A s \in Subs : FitsNext(s, row'[s]) /\ FitsNext(s, NoDoc)
  BY <1>1, FitsFresh
<1>4. SUFFICES /\ \A s \in Subs : FitsNext(s, mirror'[s])
               /\ \A a \in Attempts : /\ FitsNext(sub'[a], carry'[a])
                                      /\ pc'[a] = "new" => carry'[a] = NoDoc
               /\ \A h \in Handlers : handler'[h].pc = "sync"
                                         => FitsNext(handler'[h].id, handler'[h].doc)
  BY <1>1 DEF CopyInv, Fits, FitsNext
<1>. DEFINE Mirrors == \A s \in Subs : FitsNext(s, mirror'[s])
            Carries == \A a \in Attempts : /\ FitsNext(sub'[a], carry'[a])
                                           /\ pc'[a] = "new" => carry'[a] = NoDoc
            Syncs == \A h \in Handlers : handler'[h].pc = "sync"
                                            => FitsNext(handler'[h].id, handler'[h].doc)
<1>5. \A s \in Subs : FitsNext(s, mirror[s])
  BY <1>2 DEF CopyInv, TypeOK
<1>6. \A a \in Attempts : FitsNext(sub[a], carry[a])
  BY <1>2 DEF CopyInv, TypeOK
<1>7. \A h \in Handlers : handler[h].pc = "sync" => FitsNext(handler[h].id, handler[h].doc)
  BY <1>2 DEF CopyInv, TypeOK
<1>8. ASSUME UNCHANGED mirror PROVE Mirrors
  BY <1>5, <1>8
<1>9. ASSUME UNCHANGED <<sub, carry>>, \A a \in Attempts : pc'[a] = "new" => pc[a] = "new"
      PROVE  Carries
  BY <1>6, <1>9 DEF CopyInv
<1>10. ASSUME UNCHANGED handler PROVE Syncs
  BY <1>7, <1>10
\* A writeback hands on a document that fits.
<1>11. ASSUME NEW a \in Attempts, NEW d, FitsNext(sub[a], d), carry' = [carry EXCEPT ![a] = d],
              UNCHANGED sub, pc[a] # "new", pc'[a] # "new",
              \A b \in Attempts : b # a => pc'[b] = pc[b]
       PROVE  Carries
  <2>. SUFFICES ASSUME NEW b \in Attempts
                PROVE  FitsNext(sub'[b], carry'[b]) /\ (pc'[b] = "new" => carry'[b] = NoDoc)
    OBVIOUS
  <2>1. CASE b = a
    BY <1>11, <2>1 DEF TypeOK
  <2>2. CASE b # a
    BY <1>6, <1>11, <2>2 DEF TypeOK, CopyInv
  <2>. QED
    BY <2>1, <2>2
\* The mirror takes over a copy that fits.
<1>12. ASSUME NEW s \in Subs, NEW d, FitsNext(s, d), mirror' = [mirror EXCEPT ![s] = d]
       PROVE  Mirrors
  BY <1>5, <1>12 DEF TypeOK
\* A handler goes on with a document that fits.
<1>13. ASSUME NEW h \in Handlers, NEW s \in Subs, NEW d, FitsNext(s, d),
              handler' = [handler EXCEPT ![h] = [pc |-> "sync", id |-> s, doc |-> d]]
       PROVE  Syncs
  BY <1>7, <1>13 DEF TypeOK
<1>14. ASSUME NEW h \in Handlers, NEW step, step.pc # "sync",
              handler' = [handler EXCEPT ![h] = step]
       PROVE  Syncs
  BY <1>7, <1>14 DEF TypeOK
<1>15. ASSUME NEW a \in Attempts, Mirrored(a)
       PROVE  Mirrors
  <2>1. CASE Held(carry[a])
    BY <1>6, <1>12, <1>15, <2>1 DEF Mirrored, TypeOK
  <2>2. CASE ~Held(carry[a])
    BY <1>8, <1>15, <2>2 DEF Mirrored
  <2>. QED
    BY <2>1, <2>2
<1>. HIDE DEF Mirrors, Carries, Syncs
<1>16. ASSUME NEW h \in Handlers, NEW s \in Subs, Create(h, s)
       PROVE  Mirrors /\ Carries /\ Syncs
  <2>1. row'[s] = NewDoc(writes[s] + 1)
    BY <1>16 DEF Create, TypeOK
  <2>2. handler' = [handler EXCEPT ![h] = [pc |-> "sync", id |-> s, doc |-> row'[s]]]
    BY <1>16, <2>1 DEF Create
  <2>. QED
    BY <1>3, <1>8, <1>9, <1>13, <1>16, <2>2 DEF Create, attemptVars
<1>17. ASSUME NEW h \in Handlers, NEW s \in Subs, NEW b \in BOOLEAN, Update(h, s, b)
       PROVE  Mirrors /\ Carries /\ Syncs
  <2>. DEFINE step == [pc |-> "get", id |-> s, doc |-> NoDoc]
  <2>1. step.pc # "sync" /\ handler' = [handler EXCEPT ![h] = step]
    BY <1>17 DEF Update
  <2>. HIDE DEF step
  <2>. QED
    BY <1>8, <1>9, <1>14, <1>17, <2>1 DEF Update, attemptVars
<1>18. ASSUME NEW h \in Handlers, NEW s \in Subs, Delete(h, s)
       PROVE  Mirrors /\ Carries /\ Syncs
  BY <1>3, <1>8, <1>9, <1>13, <1>18 DEF Delete, attemptVars
<1>19. ASSUME NEW h \in Handlers, UpdateGet(h)
       PROVE  Mirrors /\ Carries /\ Syncs
  <2>1. handler[h].id \in Subs /\ row' = row
    BY <1>19 DEF UpdateGet, TypeOK
  <2>. QED
    BY <1>3, <1>8, <1>9, <1>13, <1>19, <2>1 DEF UpdateGet, attemptVars
<1>20. ASSUME NEW h \in Handlers, UpdateGetLost(h)
       PROVE  Mirrors /\ Carries /\ Syncs
  <2>. DEFINE step == [pc |-> "free", id |-> handler[h].id, doc |-> NoDoc]
  <2>1. step.pc # "sync" /\ handler' = [handler EXCEPT ![h] = step]
    BY <1>20 DEF UpdateGetLost
  <2>. HIDE DEF step
  <2>. QED
    BY <1>8, <1>9, <1>14, <1>20, <2>1 DEF UpdateGetLost, attemptVars
<1>21. ASSUME NEW h \in Handlers, SyncMirror(h)
       PROVE  Mirrors /\ Carries /\ Syncs
  <2>. DEFINE step == [pc |-> "free", id |-> handler[h].id, doc |-> NoDoc]
  <2>1. step.pc # "sync" /\ handler' = [handler EXCEPT ![h] = step]
    BY <1>21 DEF SyncMirror
  <2>2. handler[h].id \in Subs /\ FitsNext(handler[h].id, handler[h].doc)
    BY <1>7, <1>21 DEF SyncMirror, TypeOK
  <2>3. Mirrors
    BY <1>12, <1>21, <2>2 DEF SyncMirror
  <2>. HIDE DEF step
  <2>. QED
    BY <1>9, <1>14, <1>21, <2>1, <2>3 DEF SyncMirror, attemptVars
<1>22. ASSUME NEW a \in Attempts, NEW s \in Subs, Match(a, s)
       PROVE  Mirrors /\ Carries /\ Syncs
  <2>1. carry[a] = NoDoc /\ carry' = carry
    BY <1>22 DEF Match, CopyInv
  <2>2. Carries
    <3>. SUFFICES ASSUME NEW b \in Attempts
                  PROVE  FitsNext(sub'[b], carry'[b]) /\ (pc'[b] = "new" => carry'[b] = NoDoc)
      BY DEF Carries
    <3>1. CASE b = a
      BY <1>3, <1>22, <2>1, <3>1 DEF Match, TypeOK
    <3>2. CASE b # a
      BY <1>6, <1>22, <2>1, <3>2 DEF Match, TypeOK, CopyInv
    <3>. QED
      BY <3>1, <3>2
  <2>. QED
    BY <1>8, <1>10, <1>22, <2>2 DEF Match
<1>23. ASSUME NEW a \in Attempts, Book(a)
       PROVE  Mirrors /\ Carries /\ Syncs
  <2>0. sub[a] \in Subs
    BY DEF TypeOK
  <2>1. Carries
    <3>1. CASE Held(row[sub[a]])
      <4>1. carry' = [carry EXCEPT ![a] = row'[sub[a]]]
        BY <1>23, <2>0, <3>1 DEF Book, TypeOK
      <4>2. FitsNext(sub[a], row'[sub[a]])
        BY <1>3, <2>0
      <4>3. pc[a] # "new" /\ pc'[a] # "new" /\ \A b \in Attempts : b # a => pc'[b] = pc[b]
        BY <1>23, <3>1 DEF Book, TypeOK
      <4>4. UNCHANGED sub
        BY <1>23 DEF Book
      <4>. QED
        BY <1>11, <4>1, <4>2, <4>3, <4>4
    <3>2. CASE ~Held(row[sub[a]])
      BY <1>9, <1>23, <3>2 DEF Book, TypeOK
    <3>. QED
      BY <3>1, <3>2
  <2>. QED
    BY <1>8, <1>10, <1>23, <2>1 DEF Book
<1>24. ASSUME NEW a \in Attempts, BookFailure(a)
       PROVE  Mirrors /\ Carries /\ Syncs
  <2>0. sub[a] \in Subs
    BY DEF TypeOK
  <2>1. PICK d : carry' = [carry EXCEPT ![a] = d] /\ (d = row'[sub[a]] \/ d = NoDoc)
    BY <1>24, <2>0 DEF BookFailure, TypeOK
  <2>2. FitsNext(sub[a], d)
    BY <1>3, <2>0, <2>1
  <2>3. pc[a] # "new" /\ pc'[a] # "new" /\ \A b \in Attempts : b # a => pc'[b] = pc[b]
    BY <1>24 DEF BookFailure, TypeOK
  <2>4. UNCHANGED <<sub, mirror, handler>>
    BY <1>24 DEF BookFailure
  <2>. QED
    BY <1>8, <1>10, <1>11, <2>1, <2>2, <2>3, <2>4
<1>25. ASSUME NEW a \in Attempts, Settle(a)
       PROVE  Mirrors /\ Carries /\ Syncs
  <2>0. sub[a] \in Subs
    BY DEF TypeOK
  <2>1. PICK d : carry' = [carry EXCEPT ![a] = d] /\ (d = row'[sub[a]] \/ d = NoDoc)
    BY <1>25, <2>0 DEF Settle, TypeOK
  <2>2. FitsNext(sub[a], d)
    BY <1>3, <2>0, <2>1
  <2>3. pc[a] # "new" /\ pc'[a] # "new" /\ \A b \in Attempts : b # a => pc'[b] = pc[b]
    BY <1>25 DEF Settle, TypeOK
  <2>4. UNCHANGED <<sub, mirror, handler>>
    BY <1>25 DEF Settle
  <2>. QED
    BY <1>8, <1>10, <1>11, <2>1, <2>2, <2>3, <2>4
\* A writeback that failed hands on what it would have written.
<1>26. ASSUME NEW a \in Attempts, NEW c \in BOOLEAN, BookFailureLost(a, c)
       PROVE  Mirrors /\ Carries /\ Syncs
  <2>. DEFINE lost == RolledBack(row[sub[a]], prev[a])
  <2>0. sub[a] \in Subs /\ row' = row /\ row[sub[a]] \in Docs
    BY <1>26 DEF BookFailureLost, TypeOK
  <2>1. FitsNext(sub[a], lost)
    <3>1. /\ lost.ver = row[sub[a]].ver /\ lost.epoch = row[sub[a]].epoch
          /\ lost.sent = row[sub[a]].sent
      BY <2>0 DEF RolledBack, Docs
    <3>. HIDE DEF lost
    <3>. QED
      BY <1>3, <2>0, <3>1 DEF FitsNext
  <2>2. PICK d : carry' = [carry EXCEPT ![a] = d] /\ (d = lost \/ d = NoDoc)
    BY <1>26, <2>0 DEF BookFailureLost
  <2>3. FitsNext(sub[a], d)
    BY <1>3, <2>0, <2>1, <2>2
  <2>4. pc[a] # "new" /\ pc'[a] # "new" /\ \A b \in Attempts : b # a => pc'[b] = pc[b]
    BY <1>26 DEF BookFailureLost, TypeOK
  <2>5. UNCHANGED <<sub, mirror, handler>>
    BY <1>26 DEF BookFailureLost
  <2>. QED
    BY <1>8, <1>10, <1>11, <2>2, <2>3, <2>4, <2>5
<1>27. ASSUME NEW a \in Attempts, NEW c \in BOOLEAN, SettleLost(a, c)
       PROVE  Mirrors /\ Carries /\ Syncs
  <2>. DEFINE lost == Retried(row[sub[a]], a)
  <2>0. sub[a] \in Subs /\ row' = row /\ row[sub[a]] \in Docs
    BY <1>27 DEF SettleLost, TypeOK
  <2>1. FitsNext(sub[a], lost)
    <3>1. /\ lost.ver = row[sub[a]].ver /\ lost.epoch = row[sub[a]].epoch
          /\ lost.sent = row[sub[a]].sent
      BY <2>0 DEF Retried, Docs
    <3>. HIDE DEF lost
    <3>. QED
      BY <1>3, <2>0, <3>1 DEF FitsNext
  <2>2. PICK d : carry' = [carry EXCEPT ![a] = d] /\ (d = lost \/ d = NoDoc)
    BY <1>27, <2>0 DEF SettleLost
  <2>3. FitsNext(sub[a], d)
    BY <1>3, <2>0, <2>1, <2>2
  <2>4. pc[a] # "new" /\ pc'[a] # "new" /\ \A b \in Attempts : b # a => pc'[b] = pc[b]
    BY <1>27 DEF SettleLost, TypeOK
  <2>5. UNCHANGED <<sub, mirror, handler>>
    BY <1>27 DEF SettleLost
  <2>. QED
    BY <1>8, <1>10, <1>11, <2>2, <2>3, <2>4, <2>5
<1>28. ASSUME NEW a \in Attempts, MirrorBooked(a) \/ MirrorFailure(a) \/ MirrorSettled(a)
       PROVE  Mirrors /\ Carries /\ Syncs
  <2>1. \A b \in Attempts : pc'[b] = "new" => pc[b] = "new"
    BY <1>28 DEF MirrorBooked, MirrorFailure, MirrorSettled, TypeOK
  <2>2. Mirrored(a) /\ UNCHANGED <<sub, carry, handler>>
    BY <1>28 DEF MirrorBooked, MirrorFailure, MirrorSettled
  <2>. QED
    BY <1>9, <1>10, <1>15, <2>1, <2>2
<1>29. ASSUME NEW a \in Attempts,
              \/ Suppress(a) \/ Refuse(a) \/ Retry(a) \/ RetryBlind(a)
              \/ \E b \in BOOLEAN : Send(a, b) \/ Resend(a, b) \/ GiveUp(a, b)
       PROVE  Mirrors /\ Carries /\ Syncs
  <2>1. \A b \in Attempts : pc'[b] = "new" => pc[b] = "new"
    BY <1>29 DEF Suppress, Refuse, Retry, RetryBlind, Send, Resend, GiveUp, TypeOK
  <2>2. UNCHANGED <<sub, carry, handler, mirror>>
    BY <1>29 DEF Suppress, Refuse, Retry, RetryBlind, Send, Resend, GiveUp
  <2>. QED
    BY <1>8, <1>9, <1>10, <2>1, <2>2
<1>30. ASSUME Admin \/ UNCHANGED vars
       PROVE  Mirrors /\ Carries /\ Syncs
  <2>1. UNCHANGED <<sub, carry, handler, mirror, pc>>
    BY <1>30 DEF Admin, ReplayGet, ReplaySend, ReplayDelete, ReplayDeleteLost, DropLetter,
                 vars, attemptVars
  <2>. QED
    BY <1>8, <1>9, <1>10, <2>1
<1>31. Mirrors /\ Carries /\ Syncs
  <2>1. CASE Client
    BY <1>16, <1>17, <1>18, <1>19, <1>20, <1>21, <2>1 DEF Client
  <2>2. ASSUME NEW a \in Attempts, Deliver(a)
        PROVE  Mirrors /\ Carries /\ Syncs
    BY <1>23, <1>24, <1>25, <1>26, <1>27, <1>28, <1>29, <2>2 DEF Deliver
  <2>. QED
    BY <1>22, <1>30, <2>1, <2>2 DEF Next
<1>. QED
  BY <1>31 DEF Mirrors, Carries, Syncs

-----------------------------------------------------------------------------
(* Theorems.                                                               *)

\* An idle broker satisfies the invariant.
LEMMA InitInv == Init => DeliveryInv
<1>. SUFFICES ASSUME Init PROVE DeliveryInv
  OBVIOUS
<1>1. (CHOOSE s \in Subs : TRUE) \in Subs
  BY DeliveryAssumption
<1>2. NoDoc \in Docs /\ NoDoc.epoch = 0 /\ ~Held(NoDoc)
  BY NoDocType DEF NoDoc, Held
<1>3. MaxAttempts \in Nat /\ MaxAttempts # 0
  BY DeliveryAssumption
<1>4. TypeOK
  BY <1>1, <1>2, <1>3 DEF Init, TypeOK, Stamps, AttemptSteps
<1>5. PhaseInv /\ OutcomeInv
  BY <1>3 DEF Init, PhaseInv, OutcomeInv
<1>6. ReplayInv /\ LetterMeansUndelivered
  BY DEF Init, ReplayInv, LetterMeansUndelivered
<1>7. EpochInv
  BY <1>1, <1>2 DEF Init, EpochInv
<1>8. CountersExact
  BY <1>2 DEF Init, CountersExact
<1>. QED
  BY <1>4, <1>5, <1>6, <1>7, <1>8 DEF DeliveryInv

\* Every step preserves the invariant.
LEMMA NextInv == DeliveryInv /\ [Next]_vars => DeliveryInv'
BY TypeStep, PhaseStep, OutcomeStep, ReplayStep, EpochStep, CountersStep, LetterStep
   DEF DeliveryInv

\* DeliveryInv is inductive: it holds in every reachable state.
THEOREM Invariance == Spec => []DeliveryInv
BY InitInv, NextInv, PTL DEF Spec

\* The variables keep their types; in particular no retry is ever made past
\* ANTARES_NOTIFY_ATTEMPTS.
THEOREM TypeCorrect == Spec => []TypeOK
<1>1. DeliveryInv => TypeOK
  BY DEF DeliveryInv
<1>. QED
  BY <1>1, Invariance, PTL

\* timesSent and timesFailed are exact, however many notifications, retries,
\* replays and client writes interleave (deliver_as, retry_and_settle).
THEOREM CountersAreExact == Spec => []CountersExact
<1>1. DeliveryInv => CountersExact
  BY DEF DeliveryInv
<1>. QED
  BY <1>1, Invariance, PTL

\* No notification leaves, is acknowledged or is dead-lettered unless it was
\* booked on a stored subscription first (deliver_as).
THEOREM BookedBeforeSent == Spec => []SentWasBooked
<1>1. DeliveryInv => SentWasBooked
  <2>. SUFFICES ASSUME DeliveryInv, NEW a \in Attempts, booked[a] = 0
                PROVE  ~(made[a] > 0) /\ a \notin acked /\ letter[a] = "none"
    BY DEF SentWasBooked
  <2>1. made[a] = 0
    BY DEF DeliveryInv, PhaseInv
  <2>2. a \notin acked /\ letter[a] = "none"
    BY DEF DeliveryInv, OutcomeInv
  <2>. QED
    BY <2>1, <2>2
<1>. QED
  BY <1>1, Invariance, PTL

\* A stored dead letter is an undelivered notification, up to the replay that is
\* about to delete it, and a replayed one was delivered (retry_and_settle,
\* dead_letter_replay).
THEOREM LettersAreUndelivered == Spec => []LetterMeansUndelivered
<1>1. DeliveryInv => LetterMeansUndelivered
  BY DEF DeliveryInv
<1>. QED
  BY <1>1, Invariance, PTL

\* The matcher's copy of a subscription is never newer than the stored document,
\* however long a writeback's or a handler's copy is on its way to the mirror
\* (mirror_bookkeeping, sub_changed).
THEOREM MirrorBehind == Spec => []MirrorNeverAhead
<1>. DEFINE I == DeliveryInv /\ CopyInv
<1>1. Init => I
  <2>. SUFFICES ASSUME Init PROVE CopyInv
    BY InitInv
  <2>1. NoDoc.ver = 0 /\ NoDoc.epoch = 0 /\ ~Held(NoDoc)
    BY DEF NoDoc, Held
  <2>2. (CHOOSE s \in Subs : TRUE) \in Subs
    BY DeliveryAssumption
  <2>. QED
    BY <2>1, <2>2 DEF Init, CopyInv, Fits
<1>2. I /\ [Next]_vars => I'
  BY NextInv, CopyStep DEF DeliveryInv
<1>3. I => MirrorNeverAhead
  BY DEF CopyInv, Fits, MirrorNeverAhead
<1>. HIDE DEF I
<1>. QED
  BY <1>1, <1>2, <1>3, PTL DEF Spec

-----------------------------------------------------------------------------
(* lastSuccess under the default policy: one send, one drain, and a store  *)
(* that answers.                                                           *)

OneSend == MaxAttempts = 1 /\ Serial /\ ~StoreFails

\* The drain works on one notification of a subscription at a time, nothing is
\* retried and no letter is written.
OneSendInv ==
    /\ \A a \in Attempts : pc[a] \notin RetrySteps /\ letter[a] = "none"
    /\ \A a, b \in Attempts :
          sub[a] = sub[b] /\ pc[a] \notin {"new", "done"} /\ pc[b] \notin {"new", "done"} => a = b
    /\ \A r \in Replayers : replay[r].pc = "free"

\* Attempt a of s is booked in the epoch s is in, and may still be rolled back.
InFlight(a, s) ==
    /\ sub[a] = s /\ booked[a] = row[s].epoch
    /\ pc[a] \in {"mirror_booked", "send", "book_failure"}

\* x is what lastSuccess should say of s.
Truth(s, x) ==
    IF Succeeded(s, row[s].epoch) = {} THEN x = NoAttempt
    ELSE x \in Succeeded(s, row[s].epoch)

\* The row tells the truth, or what the attempt in flight would roll back does.
StampOK(s) ==
    Held(row[s]) /\ ~Straddled(s) =>
        /\ \A a \in Attempts : InFlight(a, s) => row[s].last = a /\ Truth(s, prev[a])
        /\ (\A a \in Attempts : ~InFlight(a, s)) => Truth(s, row[s].last)

\* A write of the document that keeps epoch and stamp, and a step of an attempt
\* that is not booked in this epoch, leave the truth where it was.
LEMMA StampFrame ==
    ASSUME EpochInv, NEW s \in Subs, StampOK(s),
           Held(row'[s]) => /\ Held(row[s]) /\ row'[s].epoch = row[s].epoch
                            /\ row'[s].last = row[s].last,
           letter' = letter,
           \A a \in Attempts : sub[a] = s \/ sub'[a] = s =>
               \/ booked[a] = 0 /\ booked'[a] = 0 /\ failed[a] = 0 /\ failed'[a] = 0
               \/ /\ sub'[a] = sub[a] /\ booked'[a] = booked[a] /\ failed'[a] = failed[a]
                  /\ prev'[a] = prev[a] /\ (a \in acked' <=> a \in acked)
                  /\ pc[a] \in {"mirror_booked", "send", "book_failure"}
                       <=> pc'[a] \in {"mirror_booked", "send", "book_failure"}
    PROVE  StampOK(s)'
<1>. SUFFICES ASSUME Held(row'[s]), ~Straddled(s)'
              PROVE  /\ \A a \in Attempts : InFlight(a, s)' => row'[s].last = a /\ Truth(s, prev[a])'
                     /\ (\A a \in Attempts : ~InFlight(a, s)') => Truth(s, row[s].last)'
  BY DEF StampOK
<1>. DEFINE e == row[s].epoch
<1>1. Held(row[s]) /\ row'[s].epoch = e /\ row'[s].last = row[s].last /\ e # 0
  BY DEF EpochInv
<1>2. \A a \in Attempts :
        /\ a \in BookedIn(s, e)' <=> a \in BookedIn(s, e)
        /\ a \in FailedIn(s, e)' <=> a \in FailedIn(s, e)
        /\ a \in BookedIn(s, e) => (a \in acked' <=> a \in acked)
        /\ a \in FailedIn(s, e) => booked'[a] = booked[a]
  BY <1>1 DEF BookedIn, FailedIn
<1>3. Succeeded(s, row[s].epoch)' = Succeeded(s, e)
  BY <1>1, <1>2 DEF Succeeded, BookedIn
<1>4. ~Straddled(s)
  BY <1>1, <1>2 DEF Straddled, FailedIn
<1>5. \A a \in Attempts : (InFlight(a, s)' <=> InFlight(a, s)) /\ (InFlight(a, s) => prev'[a] = prev[a])
  BY <1>1 DEF InFlight
<1>. QED
  BY <1>1, <1>3, <1>4, <1>5 DEF StampOK, Truth

\* A new epoch starts with nothing sent and says so.
LEMMA StampFresh ==
    ASSUME TypeOK, EpochInv, NEW s \in Subs, row'[s].epoch = writes[s] + 1, row'[s].last = NoAttempt,
           UNCHANGED <<sub, booked, failed, letter, acked>>
    PROVE  StampOK(s)'
<1>1. \A a \in Attempts : sub[a] = s => booked[a] # writes[s] + 1
  BY DEF EpochInv, TypeOK
<1>2. Succeeded(s, row[s].epoch)' = {}
  BY <1>1 DEF Succeeded, BookedIn
<1>3. \A a \in Attempts : ~InFlight(a, s)'
  BY <1>1 DEF InFlight
<1>. QED
  BY <1>2, <1>3 DEF StampOK, Truth

\* The drain and the retry task under the default policy.
LEMMA OneSendStep ==
    ASSUME TypeOK, PhaseInv, OneSendInv, OneSend, [Next]_vars
    PROVE  OneSendInv'
<1>. USE DEF OneSendInv, TypeOK
<1>1. ASSUME NEW a \in Attempts, NEW s \in Subs, Match(a, s)
      PROVE  OneSendInv'
  <2>1. /\ pc' = [pc EXCEPT ![a] = "matched"] /\ sub' = [sub EXCEPT ![a] = s]
        /\ UNCHANGED <<letter, replay>>
    BY <1>1 DEF Match
  <2>2. \A b \in Attempts : sub[b] = s => pc[b] \in {"new", "done"}
    BY <1>1 DEF Match, OneSend
  <2>. QED
    BY <2>1, <2>2 DEF RetrySteps
<1>2. ASSUME NEW a \in Attempts, NEW to \in AttemptSteps, pc' = [pc EXCEPT ![a] = to],
             pc[a] \notin {"new", "done"}, to \notin RetrySteps, UNCHANGED <<sub, letter, replay>>
      PROVE  OneSendInv'
  BY <1>2
<1>3. ASSUME NEW a \in Attempts, Deliver(a)
      PROVE  OneSendInv'
  <2>1. pc[a] \notin RetrySteps /\ ~StoreFails
    BY DEF OneSend
  <2>2. made[a] > 0 => ~(MaxAttempts > 1)
    BY DEF OneSend
  <2>3. CASE Suppress(a)
    BY <1>2, <2>3 DEF Suppress, AttemptSteps, RetrySteps
  <2>4. CASE Book(a)
    BY <1>2, <2>4 DEF Book, AttemptSteps, RetrySteps
  <2>5. CASE MirrorBooked(a) \/ Refuse(a)
    BY <1>2, <2>5 DEF MirrorBooked, Refuse, AttemptSteps, RetrySteps
  <2>6. ASSUME NEW ok \in BOOLEAN, Send(a, ok)
        PROVE  OneSendInv'
    BY <1>2, <2>6 DEF Send, AttemptSteps, RetrySteps
  <2>7. CASE BookFailure(a)
    BY <1>2, <2>7 DEF BookFailure, AttemptSteps, RetrySteps
  <2>8. CASE MirrorFailure(a)
    <3>1. pc' = [pc EXCEPT ![a] = "done"]
      BY <2>8, <2>2 DEF MirrorFailure, OneSend
    <3>. QED
      BY <1>2, <2>8, <3>1 DEF MirrorFailure, AttemptSteps, RetrySteps
  <2>. QED
    BY <1>3, <2>1, <2>3, <2>4, <2>5, <2>6, <2>7, <2>8
       DEF Deliver, Retry, Settle, MirrorSettled, Resend, GiveUp, BookFailureLost, SettleLost,
           RetryBlind, RetrySteps
<1>4. CASE Client
  BY <1>4 DEF Client, Create, Update, Delete, UpdateGet, UpdateGetLost, SyncMirror, attemptVars
<1>5. CASE Admin
  BY <1>5 DEF Admin, ReplayGet, ReplaySend, ReplayDelete, ReplayDeleteLost, DropLetter
<1>6. CASE UNCHANGED vars
  BY <1>6 DEF vars, attemptVars
<1>. QED
  BY <1>1, <1>3, <1>4, <1>5, <1>6 DEF Next

\* Steps of the clients: a write that keeps the epoch keeps the stamp.
LEMMA StampClient ==
    ASSUME TypeOK, EpochInv, \A t \in Subs : StampOK(t), NEW s \in Subs, Client
    PROVE  StampOK(s)'
<1>1. UNCHANGED attemptVars /\ (row'[s] = row[s] => StampOK(s)')
  <2>1. UNCHANGED attemptVars
    BY DEF Client, Create, Update, Delete, UpdateGet, UpdateGetLost, SyncMirror
  <2>. QED
    BY <2>1, StampFrame DEF attemptVars
<1>2. ASSUME NEW h \in Handlers, NEW t \in Subs, Create(h, t)
      PROVE  StampOK(s)'
  <2>1. CASE s = t
    <3>1. row'[s] = NewDoc(writes[s] + 1)
      BY <1>2, <2>1 DEF Create, TypeOK
    <3>. QED
      BY <1>1, <3>1, StampFresh DEF NewDoc, NoDoc, attemptVars
  <2>2. CASE s # t
    BY <1>1, <1>2, <2>2 DEF Create, TypeOK
  <2>. QED
    BY <2>1, <2>2
<1>3. ASSUME NEW h \in Handlers, NEW t \in Subs, NEW replaces \in BOOLEAN, Update(h, t, replaces)
      PROVE  StampOK(s)'
  <2>1. CASE s = t
    <3>1. row'[s] = Patched(row[s], writes[s] + 1, replaces) /\ Held(row[s]) /\ row[s] \in Docs
      BY <1>3, <2>1 DEF Update, TypeOK
    <3>2. CASE replaces
      BY <1>1, <3>1, <3>2, StampFresh DEF Patched, Docs, attemptVars
    <3>3. CASE ~replaces
      <4>1. row'[s].epoch = row[s].epoch /\ row'[s].last = row[s].last
        BY <3>1, <3>3 DEF Patched, Docs
      <4>. QED
        BY <1>1, <3>1, <4>1, StampFrame DEF attemptVars
    <3>. QED
      BY <3>2, <3>3
  <2>2. CASE s # t
    BY <1>1, <1>3, <2>2 DEF Update, TypeOK
  <2>. QED
    BY <2>1, <2>2
<1>4. ASSUME NEW h \in Handlers, NEW t \in Subs, Delete(h, t)
      PROVE  StampOK(s)'
  <2>1. row'[s] = row[s] \/ row'[s] = NoDoc
    BY <1>4 DEF Delete, TypeOK
  <2>. QED
    BY <1>1, <2>1 DEF StampOK, Held, NoDoc
<1>5. ASSUME NEW h \in Handlers, UpdateGet(h) \/ UpdateGetLost(h) \/ SyncMirror(h)
      PROVE  StampOK(s)'
  BY <1>1, <1>5 DEF UpdateGet, UpdateGetLost, SyncMirror
<1>. QED
  BY <1>2, <1>3, <1>4, <1>5 DEF Client

\* Booking: the row names the attempt, which remembers the truth.
LEMMA StampBook ==
    ASSUME TypeOK, PhaseInv, OutcomeInv, EpochInv, OneSendInv, \A t \in Subs : StampOK(t),
           NEW a \in Attempts, Book(a), NEW s \in Subs
    PROVE  StampOK(s)'
<1>1. /\ pc[a] = "matched" /\ booked[a] = 0 /\ failed[a] = 0 /\ a \notin acked
      /\ UNCHANGED <<sub, failed, acked, letter>>
  BY DEF Book, PhaseInv, OutcomeInv
<1>2. CASE ~Held(row[sub[a]])
  <2>1. row' = row /\ booked' = booked /\ prev' = prev /\ pc' = [pc EXCEPT ![a] = "done"]
    BY <1>2 DEF Book
  <2>2. \A b \in Attempts : pc'[b] = pc[b] \/ (b = a /\ pc'[b] = "done")
    BY <2>1 DEF TypeOK
  <2>. QED
    BY <1>1, <2>1, <2>2, StampFrame
<1>3. CASE Held(row[sub[a]]) /\ s # sub[a]
  <2>1. row'[s] = row[s] /\ \A b \in Attempts : b # a =>
            booked'[b] = booked[b] /\ prev'[b] = prev[b] /\ pc'[b] = pc[b]
    BY <1>3 DEF Book, TypeOK
  <2>. QED
    BY <1>1, <1>3, <2>1, StampFrame
<1>4. CASE Held(row[sub[a]]) /\ s = sub[a]
  <2>. DEFINE e == row[s].epoch
  <2>1. /\ row'[s] = Stamped(row[s], a) /\ row[s] \in Docs
        /\ prev'[a] = row[s].last /\ booked'[a] = e /\ pc'[a] = "mirror_booked"
        /\ \A b \in Attempts : b # a =>
              booked'[b] = booked[b] /\ prev'[b] = prev[b] /\ pc'[b] = pc[b]
    BY <1>4 DEF Book, TypeOK
  <2>2. row'[s].epoch = e /\ row'[s].last = a /\ e # 0
    BY <1>4, <2>1 DEF Stamped, Docs, EpochInv
  <2>3. \A b \in Attempts : ~InFlight(b, s)
    BY <1>1, <1>4 DEF OneSendInv, InFlight
  <2>4. \A b \in Attempts : InFlight(b, s)' => b = a
    BY <1>1, <2>1, <2>2, <2>3 DEF InFlight
  <2>5. Succeeded(s, row[s].epoch)' = Succeeded(s, e)
    BY <1>1, <2>1, <2>2 DEF Succeeded, BookedIn
  <2>6. Straddled(s) => Straddled(s)'
    <3>1. \A b \in Attempts : failed[b] = e => b # a
      BY <1>1, <2>2
    <3>. QED
      BY <1>1, <2>1, <2>2, <3>1 DEF Straddled, FailedIn
  <2>7. ~Straddled(s) => Truth(s, row[s].last)
    BY <1>4, <2>3 DEF StampOK
  <2>8. InFlight(a, s)'
    BY <1>1, <1>4, <2>1, <2>2 DEF InFlight
  <2>9. ~Straddled(s) => Truth(s, prev[a])'
    BY <2>1, <2>5, <2>7 DEF Truth
  <2>. QED
    BY <2>2, <2>4, <2>6, <2>8, <2>9 DEF StampOK
<1>. QED
  BY <1>2, <1>3, <1>4

\* Sending: what is acknowledged is what the row names.
LEMMA StampSend ==
    ASSUME TypeOK, EpochInv, OneSendInv, \A t \in Subs : StampOK(t),
           NEW a \in Attempts, NEW ok \in BOOLEAN, Send(a, ok), NEW s \in Subs
    PROVE  StampOK(s)'
<1>1. /\ pc[a] = "send" /\ UNCHANGED <<row, sub, prev, booked, failed, letter>>
      /\ \A b \in Attempts : b # a => pc'[b] = pc[b] /\ (b \in acked' <=> b \in acked)
      /\ letter[a] = "none"
  BY DEF Send, TypeOK, OneSendInv
<1>2. CASE ~ok \/ s # sub[a] \/ booked[a] # row[s].epoch
  <2>1. ~ok => pc'[a] = "book_failure" /\ acked' = acked
    BY DEF Send, TypeOK
  <2>2. CASE ~ok \/ s # sub[a]
    BY <1>1, <2>1, <2>2, StampFrame
  <2>3. CASE ok /\ s = sub[a] /\ booked[a] # row[s].epoch
    <3>1. \A b \in Attempts : InFlight(b, s)' <=> InFlight(b, s)
      BY <1>1, <2>3 DEF InFlight
    <3>2. Succeeded(s, row[s].epoch)' = Succeeded(s, row[s].epoch)
      BY <1>1, <2>3 DEF Succeeded, BookedIn
    <3>3. Straddled(s)' <=> Straddled(s)
      BY <1>1 DEF Straddled, FailedIn
    <3>. QED
      BY <1>1, <3>1, <3>2, <3>3 DEF StampOK, Truth
  <2>. QED
    BY <1>2, <2>2, <2>3
<1>3. CASE ok /\ s = sub[a] /\ booked[a] = row[s].epoch
  <2>1. InFlight(a, s) /\ pc'[a] = "done" /\ a \in acked'
    BY <1>1, <1>3 DEF InFlight, Send, TypeOK
  <2>2. a \in Succeeded(s, row[s].epoch)'
    BY <1>1, <1>3, <2>1 DEF Succeeded, BookedIn
  <2>3. \A b \in Attempts : ~InFlight(b, s)'
    BY <1>1, <1>3, <2>1 DEF InFlight, OneSendInv
  <2>4. Straddled(s)' <=> Straddled(s)
    BY <1>1 DEF Straddled, FailedIn
  <2>5. Held(row[s]) /\ ~Straddled(s) => row'[s].last = a
    BY <1>1, <2>1 DEF StampOK
  <2>. QED
    BY <1>1, <2>2, <2>3, <2>4, <2>5 DEF StampOK, Truth
<1>. QED
  BY <1>2, <1>3

\* The rollback brings the truth back, or is booked in another epoch.
LEMMA StampFailure ==
    ASSUME TypeOK, PhaseInv, EpochInv, OneSendInv, \A t \in Subs : StampOK(t),
           NEW a \in Attempts, BookFailure(a), NEW s \in Subs
    PROVE  StampOK(s)'
<1>1. /\ pc[a] = "book_failure" /\ failed[a] = 0 /\ UNCHANGED <<sub, prev, booked, acked, letter>>
      /\ pc'[a] = "mirror_failure" /\ \A b \in Attempts : b # a => pc'[b] = pc[b]
  BY DEF BookFailure, PhaseInv, TypeOK
<1>2. CASE s # sub[a]
  <2>1. row'[s] = row[s] /\ \A b \in Attempts : b # a => failed'[b] = failed[b]
    BY <1>2 DEF BookFailure, TypeOK
  <2>. QED
    BY <1>1, <1>2, <2>1, StampFrame
<1>3. CASE s = sub[a] /\ ~Held(row[s])
  BY <1>3 DEF BookFailure, StampOK
<1>4. CASE s = sub[a] /\ Held(row[s])
  <2>. DEFINE e == row[s].epoch
  <2>1. /\ row'[s] = RolledBack(row[s], prev[a]) /\ row[s] \in Docs /\ failed'[a] = e
        /\ \A b \in Attempts : b # a => failed'[b] = failed[b]
    BY <1>4 DEF BookFailure, TypeOK
  <2>2. row'[s].epoch = e /\ row'[s].last = prev[a]
    BY <2>1 DEF RolledBack, Docs
  <2>3. CASE booked[a] # e
    BY <1>1, <1>4, <2>1, <2>2, <2>3 DEF StampOK, Straddled, FailedIn
  <2>4. CASE booked[a] = e
    <3>1. InFlight(a, s)
      BY <1>1, <1>4, <2>4 DEF InFlight
    <3>2. \A b \in Attempts : ~InFlight(b, s)'
      BY <1>1, <1>4 DEF InFlight, OneSendInv
    <3>3. Succeeded(s, row[s].epoch)' = Succeeded(s, e)
      BY <1>1, <2>2 DEF Succeeded, BookedIn
    <3>4. Straddled(s) => Straddled(s)'
      <4>1. \A b \in Attempts : failed[b] = e => failed'[b] = e
        BY <2>1
      <4>. QED
        BY <1>1, <2>2, <4>1 DEF Straddled, FailedIn
    <3>5. ~Straddled(s) => Truth(s, prev[a])
      BY <1>4, <3>1 DEF StampOK
    <3>. QED
      BY <2>2, <3>2, <3>3, <3>4, <3>5 DEF StampOK, Truth
  <2>. QED
    BY <2>3, <2>4
<1>. QED
  BY <1>2, <1>3, <1>4

\* Every step keeps the stamps.
LEMMA StampStep ==
    ASSUME DeliveryInv, OneSendInv, OneSend, \A t \in Subs : StampOK(t), NEW s \in Subs, [Next]_vars
    PROVE  StampOK(s)'
<1>. USE DEF DeliveryInv
<1>1. ASSUME NEW a \in Attempts, NEW t \in Subs, Match(a, t)
      PROVE  StampOK(s)'
  <2>1. /\ UNCHANGED <<row, booked, failed, prev, acked, letter>>
        /\ \A b \in Attempts : b # a => sub'[b] = sub[b] /\ pc'[b] = pc[b]
        /\ booked[a] = 0 /\ failed[a] = 0
    BY <1>1 DEF Match, TypeOK, PhaseInv
  <2>. QED
    BY <2>1, StampFrame
<1>2. ASSUME NEW a \in Attempts, Deliver(a)
      PROVE  StampOK(s)'
  <2>1. pc[a] \notin RetrySteps /\ ~StoreFails
    BY DEF OneSend, OneSendInv
  <2>2. CASE Suppress(a) \/ MirrorBooked(a) \/ Refuse(a) \/ MirrorFailure(a)
    <3>1. UNCHANGED <<row, sub, booked, failed, prev, acked, letter>>
      BY <2>2 DEF Suppress, MirrorBooked, Refuse, MirrorFailure
    <3>2. \A b \in Attempts : pc[b] \in {"mirror_booked", "send", "book_failure"}
                                <=> pc'[b] \in {"mirror_booked", "send", "book_failure"}
      BY <2>2 DEF Suppress, MirrorBooked, Refuse, MirrorFailure, TypeOK
    <3>. QED
      BY <3>1, <3>2, StampFrame
  <2>. QED
    BY <1>2, <2>1, <2>2, StampBook, StampSend, StampFailure
       DEF Deliver, Retry, Settle, MirrorSettled, Resend, GiveUp, BookFailureLost, SettleLost,
           RetryBlind, RetrySteps
<1>3. CASE Client
  BY <1>3, StampClient
<1>4. CASE Admin
  BY <1>4 DEF Admin, ReplayGet, ReplaySend, ReplayDelete, ReplayDeleteLost, DropLetter, OneSendInv
<1>5. CASE UNCHANGED vars
  BY <1>5, StampFrame DEF vars, attemptVars
<1>. QED
  BY <1>1, <1>2, <1>3, <1>4, <1>5 DEF Next

\* Under the default policy, one send and one drain, the rollback of a failed
\* attempt leaves lastSuccess at the last delivery that succeeded, for any number
\* of subscriptions, notifications and client writes (deliver_as,
\* record_delivery).  With retries it does not: see delivery_rewind.
THEOREM LastSuccessIsTruthful ==
    ASSUME OneSend
    PROVE  Spec => []LastSuccessTruthful
<1>. DEFINE I == DeliveryInv /\ OneSendInv /\ \A s \in Subs : StampOK(s)
<1>1. Init => I
  <2>. SUFFICES ASSUME Init PROVE OneSendInv /\ \A s \in Subs : StampOK(s)
    BY InitInv
  <2>. QED
    BY DEF Init, OneSendInv, RetrySteps, StampOK, Held, NoDoc
<1>2. I /\ [Next]_vars => I'
  BY NextInv, OneSendStep, StampStep DEF DeliveryInv
<1>3. I => LastSuccessTruthful
  BY DEF LastSuccessTruthful, AtRest, StampOK, InFlight, Truth
<1>. HIDE DEF I
<1>. QED
  BY <1>1, <1>2, <1>3, PTL DEF Spec
=============================================================================
