-------------------------- MODULE SweepClockProofs --------------------------
(***************************************************************************)
(* SweepClock for every number of subscriptions, tenants and concurrent    *)
(* requests and for every interval and backstop: its types, the backstop   *)
(* of the Context Source half, and one firing in a period of the           *)
(* Subscription half.  Beside it, as instances, the claims the sweep of    *)
(* another pod takes (IntervalClaim) and the entity maps it reaps          *)
(* (EntityMaps).                                                           *)
(***************************************************************************)
EXTENDS SweepClock, Sequences, TLAPS

\* What SweepAssumption says of the numbers.
LEMMA Numbers ==
    /\ Interval \in Nat /\ Interval > 0 /\ Backstop \in Nat /\ Backstop > 0
    /\ MaxTime \in Nat /\ MaxTime > 0 /\ MaxOps \in Nat
    /\ Never \in Nat /\ Never = MaxTime + Interval + Backstop + 1
    /\ Times = 0..MaxTime
BY SweepAssumption DEF Never, Times

\* A stored document is no tombstone.
LEMMA DocsAreHeld ==
    /\ \A d \in Docs : Held(d)
    /\ \A r \in Rows : Held(r) => r \in Docs
    /\ Fresh \in Rows /\ Gone \in Rows /\ Fresh # Gone /\ ~Held(Fresh) /\ ~Held(Gone)
<1>1. \A d \in Docs : DOMAIN d = {"anchor", "modified", "active", "sent"}
  BY DEF Docs
<1>2. DOMAIN Fresh = {"absent"} /\ DOMAIN Gone = {"absent"}
  BY DEF Fresh, Gone
<1>3. \A d \in Docs : d # Fresh /\ d # Gone
  BY <1>1, <1>2
<1>4. Fresh.absent # Gone.absent
  BY DEF Fresh, Gone
<1>. QED
  BY <1>3, <1>4 DEF Held, Rows

\* The lesser of two, and the greater.
LEMMA MinOfTwo ==
    ASSUME NEW a \in Int, NEW b \in Int
    PROVE  /\ Min({a, b}) \in {a, b} /\ Min({a, b}) <= a /\ Min({a, b}) <= b
           /\ Max({a, b}) \in {a, b} /\ Max({a, b}) >= a /\ Max({a, b}) >= b
<1>1. CASE a <= b
  <2>1. \A x \in {a, b} : a <= x /\ x <= b
    BY <1>1
  <2>. QED
    BY <1>1, <2>1 DEF Min, Max
<1>2. CASE b <= a
  <2>1. \A x \in {a, b} : b <= x /\ x <= a
    BY <1>2
  <2>. QED
    BY <1>2, <2>1 DEF Min, Max
<1>. QED
  BY <1>1, <1>2

LEMMA MinInRange ==
    ASSUME NEW a \in 0..Never, NEW b \in Nat
    PROVE  Min({a, b}) \in 0..Never /\ Min({a, b}) <= a /\ Min({a, b}) <= b
<1>1. a \in Int /\ b \in Int
  BY Numbers
<1>2. Min({a, b}) \in {a, b} /\ Min({a, b}) <= a /\ Min({a, b}) <= b
  BY <1>1, MinOfTwo
<1>3. Min({a, b}) = a \/ Min({a, b}) = b
  BY <1>2
<1>. QED
  BY <1>1, <1>2, <1>3, Numbers

\* Booking a document makes one of it.
LEMMA StampType ==
    ASSUME TypeOK, NEW d \in Docs
    PROVE  /\ Stamp(d) \in Docs /\ Stamp(d).anchor = now
           /\ Stamp(d).modified = d.modified /\ Stamp(d).active = d.active
           /\ Stamp(d).sent = d.sent + 1
BY DEF Stamp, Docs, TypeOK

\* A running tick.
LEMMA RunningParts ==
    ASSUME TypeOK, sweep # Idle
    PROVE  /\ sweep \in Running
           /\ sweep.ms \in Times /\ sweep.loaded \in 0..Never /\ sweep.next \in 0..Never
           /\ sweep.todo \subseteq Tenants /\ sweep.batch \subseteq [id: Subs, doc: Docs]
           /\ sweep.pc \in {"list", "scan"}
BY DEF TypeOK, Running

LEMMA IdleHasNoStep == Idle.pc = "idle" /\ \A r \in Running : r # Idle
BY DEF Idle, Running

\* A signal moves the clock to 0 or leaves it.
LEMMA SyncType ==
    ASSUME TypeOK, NEW s \in Subs, NEW d \in Rows, Sync(s, d)
    PROVE  mirror' \in [Subs -> Rows] /\ clock' \in 0..Never /\ clock' \in {clock, 0}
BY Numbers DEF TypeOK, Sync

\* A request that is under way is not over.
LEMMA FreeIsFree ==
    /\ Free.pc = "free"
    /\ \A r \in [pc: {"get", "sync"}, id: Subs, doc: Rows] : r # Free
BY DEF Free

\* What a tick does with one document of its batch.
LEMMA CheckStep ==
    ASSUME TypeOK, sweep # Idle, NEW e \in sweep.batch, NEW m \in BOOLEAN, SweepCheck(e, m)
    PROVE  /\ sweep' \in Running
           /\ sweep'.pc = "scan" /\ sweep.pc = "scan" /\ sweep'.ms = sweep.ms
           /\ sweep'.todo = sweep.todo /\ sweep'.batch = sweep.batch \ {e}
           /\ sweep'.next <= sweep.next
           /\ e.doc.active /\ sweep.ms < due_at_ms(e.doc)
                 => sweep'.next <= due_at_ms(e.doc) /\ UNCHANGED sending
           /\ e.doc.active /\ sweep.ms >= due_at_ms(e.doc) /\ m
                 => /\ sweep'.next <= sweep.ms + Interval
                    /\ sending' = sending \cup {[id |-> e.id, pc |-> "book", doc |-> Gone]}
           /\ \/ UNCHANGED sending
              \/ /\ e.doc.active /\ sweep.ms >= due_at_ms(e.doc) /\ m
                 /\ sending' = sending \cup {[id |-> e.id, pc |-> "book", doc |-> Gone]}
<1>1. /\ sweep.pc = "scan" /\ sweep.ms \in Times /\ sweep.loaded \in 0..Never
      /\ sweep.next \in 0..Never /\ sweep.todo \subseteq Tenants
      /\ sweep.batch \subseteq [id: Subs, doc: Docs]
  BY RunningParts DEF SweepCheck
<1>2. e.doc.anchor \in Times /\ e.doc.active \in BOOLEAN
  BY <1>1 DEF Docs
<1>3. due_at_ms(e.doc) \in 0..Never /\ sweep.ms + Interval \in 0..Never
  BY <1>1, <1>2, Numbers DEF due_at_ms
<1>. DEFINE after(next) == [pc |-> "scan", ms |-> sweep.ms, loaded |-> sweep.loaded,
                            next |-> next, todo |-> sweep.todo, batch |-> sweep.batch \ {e}]
<1>4. \A n \in 0..Never : after(n) \in Running
  BY <1>1 DEF Running
<1>5. CASE ~e.doc.active /\ sweep' = after(sweep.next) /\ UNCHANGED sending
  BY <1>1, <1>4, <1>5, Numbers
<1>6. CASE /\ e.doc.active /\ sweep.ms < due_at_ms(e.doc)
           /\ sweep' = after(Min({sweep.next, due_at_ms(e.doc)})) /\ UNCHANGED sending
  <2>1. /\ Min({sweep.next, due_at_ms(e.doc)}) \in 0..Never
        /\ Min({sweep.next, due_at_ms(e.doc)}) <= sweep.next
        /\ Min({sweep.next, due_at_ms(e.doc)}) <= due_at_ms(e.doc)
    <3>1. due_at_ms(e.doc) \in Nat
      BY <1>3, Numbers
    <3>. QED
      BY <1>1, <3>1, MinInRange
  <2>. QED
    BY <1>1, <1>3, <1>4, <1>6, <2>1, Numbers
<1>7. ASSUME e.doc.active, sweep.ms >= due_at_ms(e.doc), NEW at \in 0..Never,
             at = IF m THEN sweep.ms + Interval ELSE due_at_ms(e.doc),
             sweep' = after(Min({sweep.next, at})),
             sending' = IF m THEN sending \cup {[id |-> e.id, pc |-> "book", doc |-> Gone]}
                        ELSE sending
      PROVE  /\ sweep' \in Running
             /\ sweep'.pc = "scan" /\ sweep'.ms = sweep.ms
             /\ sweep'.todo = sweep.todo /\ sweep'.batch = sweep.batch \ {e}
             /\ sweep'.next <= sweep.next
             /\ m => /\ sweep'.next <= sweep.ms + Interval
                     /\ sending' = sending \cup {[id |-> e.id, pc |-> "book", doc |-> Gone]}
             /\ ~m => UNCHANGED sending
  <2>1. /\ Min({sweep.next, at}) \in 0..Never
        /\ Min({sweep.next, at}) <= sweep.next /\ Min({sweep.next, at}) <= at
    <3>1. at \in Nat
      BY Numbers
    <3>. QED
      BY <1>1, <3>1, MinInRange
  <2>. QED
    BY <1>1, <1>4, <1>7, <2>1
<1>8. \/ ~e.doc.active /\ sweep' = after(sweep.next) /\ UNCHANGED sending
      \/ /\ e.doc.active /\ sweep.ms < due_at_ms(e.doc)
         /\ sweep' = after(Min({sweep.next, due_at_ms(e.doc)})) /\ UNCHANGED sending
      \/ /\ e.doc.active /\ sweep.ms >= due_at_ms(e.doc)
         /\ sweep' = after(Min({sweep.next, IF m THEN sweep.ms + Interval
                                            ELSE due_at_ms(e.doc)}))
         /\ sending' = IF m THEN sending \cup {[id |-> e.id, pc |-> "book", doc |-> Gone]}
                       ELSE sending
  BY DEF SweepCheck
<1>9. CASE /\ e.doc.active /\ sweep.ms >= due_at_ms(e.doc)
           /\ sweep' = after(Min({sweep.next, IF m THEN sweep.ms + Interval
                                              ELSE due_at_ms(e.doc)}))
           /\ sending' = IF m THEN sending \cup {[id |-> e.id, pc |-> "book", doc |-> Gone]}
                         ELSE sending
  <2>. HIDE DEF after
  <2>1. sweep.ms \in Int /\ due_at_ms(e.doc) \in Int
    BY <1>1, <1>3, Numbers
  <2>2. ~(sweep.ms < due_at_ms(e.doc))
    BY <1>9, <2>1
  <2>. QED
    BY <1>1, <1>3, <1>7, <1>9, <2>2
<1>. HIDE DEF after
<1>. QED
  BY <1>5, <1>6, <1>8, <1>9

\* Every step preserves the types.
LEMMA TypeStep ==
    ASSUME TypeOK, [Next]_vars
    PROVE  TypeOK'
<1>. USE DocsAreHeld
<1>1. CASE Tick
  BY <1>1, Numbers DEF Tick, TypeOK
<1>2. ASSUME NEW h \in Handlers, NEW s \in Subs, Create(h, s)
      PROVE  TypeOK'
  <2>1. [anchor |-> now, modified |-> now, active |-> TRUE, sent |-> 0] \in Docs
    BY DEF TypeOK, Docs
  <2>2. row' \in [Subs -> Rows]
    BY <1>2, <2>1 DEF Create, TypeOK, Rows
  <2>3. handler' \in [Handlers -> {Free} \cup [pc: {"get", "sync"}, id: Subs, doc: Rows]]
    BY <1>2, <2>1 DEF Create, TypeOK, Rows
  <2>4. initial' \subseteq Subs /\ ops' \in 0..MaxOps
    BY <1>2, Numbers DEF Create, Begin, TypeOK
  <2>. QED
    BY <1>2, <2>2, <2>3, <2>4 DEF Create, TypeOK
<1>3. ASSUME NEW h \in Handlers, NEW s \in Subs, NEW a \in BOOLEAN, Update(h, s, a)
      PROVE  TypeOK'
  <2>1. [anchor |-> row[s].anchor, modified |-> now, active |-> a, sent |-> row[s].sent] \in Docs
    <3>1. row[s] \in Docs
      BY <1>3 DEF Update, TypeOK
    <3>. QED
      BY <3>1 DEF TypeOK, Docs
  <2>2. row' \in [Subs -> Rows]
    BY <1>3, <2>1 DEF Update, TypeOK, Rows
  <2>3. handler' \in [Handlers -> {Free} \cup [pc: {"get", "sync"}, id: Subs, doc: Rows]]
    BY <1>3 DEF Update, TypeOK
  <2>4. initial' \subseteq Subs /\ ops' \in 0..MaxOps
    BY <1>3, Numbers DEF Update, Begin, TypeOK
  <2>. QED
    BY <1>3, <2>2, <2>3, <2>4 DEF Update, TypeOK
<1>4. ASSUME NEW h \in Handlers, NEW s \in Subs, Delete(h, s)
      PROVE  TypeOK'
  <2>1. row' \in [Subs -> Rows]
    BY <1>4 DEF Delete, TypeOK
  <2>2. handler' \in [Handlers -> {Free} \cup [pc: {"get", "sync"}, id: Subs, doc: Rows]]
    BY <1>4 DEF Delete, TypeOK
  <2>3. ops' \in 0..MaxOps
    BY <1>4, Numbers DEF Delete, Begin, TypeOK
  <2>. QED
    BY <1>4, <2>1, <2>2, <2>3 DEF Delete, TypeOK
<1>5. ASSUME NEW h \in Handlers, UpdateGet(h)
      PROVE  TypeOK'
  <2>1. handler[h] \in [pc: {"get", "sync"}, id: Subs, doc: Rows]
    BY <1>5, FreeIsFree DEF UpdateGet, TypeOK
  <2>2. handler' \in [Handlers -> {Free} \cup [pc: {"get", "sync"}, id: Subs, doc: Rows]]
    BY <1>5, <2>1 DEF UpdateGet, TypeOK
  <2>. QED
    BY <1>5, <2>2 DEF UpdateGet, TypeOK
<1>6. ASSUME NEW h \in Handlers, SyncMirror(h)
      PROVE  TypeOK'
  <2>1. handler[h].id \in Subs /\ handler[h].doc \in Rows
    BY <1>6, FreeIsFree DEF SyncMirror, TypeOK
  <2>2. mirror' \in [Subs -> Rows] /\ clock' \in 0..Never
    BY <1>6, <2>1, SyncType DEF SyncMirror
  <2>3. handler' \in [Handlers -> {Free} \cup [pc: {"get", "sync"}, id: Subs, doc: Rows]]
    BY <1>6 DEF SyncMirror, TypeOK
  <2>. QED
    BY <1>6, <2>2, <2>3 DEF SyncMirror, TypeOK
<1>7. ASSUME NEW s \in Subs, CsourceInitial(s)
      PROVE  TypeOK'
  <2>1. row' \in [Subs -> Rows]
    <3>1. Held(row[s]) => Stamp(row[s]) \in Docs
      BY StampType DEF TypeOK
    <3>. QED
      BY <1>7, <3>1 DEF CsourceInitial, TypeOK, Rows
  <2>. QED
    BY <1>7, <2>1 DEF CsourceInitial, TypeOK
<1>8. CASE SweepBegin
  <2>1. sweep' \in Running
    BY <1>8, Numbers DEF SweepBegin, TypeOK, Running
  <2>. QED
    BY <1>8, <2>1 DEF SweepBegin, TypeOK
<1>9. CASE SweepListTenants
  <2>1. sweep # Idle
    BY <1>9, IdleHasNoStep DEF SweepListTenants
  <2>2. {TenantOf[s] : s \in {x \in Subs : Held(row[x])}} \subseteq Tenants
    BY SweepAssumption
  <2>3. sweep' \in Running
    BY <1>9, <2>1, <2>2, RunningParts DEF SweepListTenants, Running
  <2>. QED
    BY <1>9, <2>3 DEF SweepListTenants, TypeOK
<1>10. ASSUME NEW t \in Tenants, SweepVisit(t)
       PROVE  TypeOK'
  <2>1. sweep # Idle
    BY <1>10, IdleHasNoStep DEF SweepVisit
  <2>. DEFINE docs == IF Mirrored THEN mirror ELSE row
              mine == {s \in Subs : TenantOf[s] = t /\ Held(docs[s])}
  <2>2. {[id |-> s, doc |-> docs[s]] : s \in mine} \subseteq [id: Subs, doc: Docs]
    BY DEF TypeOK
  <2>3. sweep' \in Running
    BY <1>10, <2>1, <2>2, RunningParts DEF SweepVisit, Running
  <2>. QED
    BY <1>10, <2>3 DEF SweepVisit, TypeOK
<1>11. ASSUME sweep # Idle, NEW e \in sweep.batch, NEW m \in BOOLEAN, SweepCheck(e, m)
       PROVE  TypeOK'
  <2>1. e.id \in Subs /\ e.doc \in Docs /\ e.doc.anchor \in Times
    BY <1>11, RunningParts DEF Docs
  <2>2. sweep' \in Running
    BY <1>11, CheckStep
  <2>3. sending' \subseteq [id: Subs, pc: {"book", "mirror"}, doc: Rows]
    BY <1>11, <2>1 DEF SweepCheck, TypeOK
  <2>. QED
    BY <1>11, <2>2, <2>3 DEF SweepCheck, TypeOK
<1>12. ASSUME NEW x \in sending, Book(x)
       PROVE  TypeOK'
  <2>1. x.id \in Subs
    BY DEF TypeOK
  <2>2. Held(row[x.id]) => Stamp(row[x.id]) \in Docs
    BY <2>1, StampType DEF TypeOK
  <2>3. row' \in [Subs -> Rows]
    BY <1>12, <2>1, <2>2 DEF Book, TypeOK, Rows
  <2>4. sending' \subseteq [id: Subs, pc: {"book", "mirror"}, doc: Rows]
    BY <1>12, <2>1, <2>2 DEF Book, TypeOK, Rows
  <2>. QED
    BY <1>12, <2>3, <2>4 DEF Book, TypeOK
<1>13. ASSUME NEW x \in sending, MirrorBookkeeping(x)
       PROVE  TypeOK'
  <2>1. x.id \in Subs /\ x.doc \in Rows
    BY DEF TypeOK
  <2>2. mirror' \in [Subs -> Rows] /\ clock' \in 0..Never
    BY <1>13, <2>1, SyncType DEF MirrorBookkeeping
  <2>. QED
    BY <1>13, <2>2 DEF MirrorBookkeeping, TypeOK
<1>14. CASE SweepFinish
  <2>1. sweep # Idle
    BY <1>14, IdleHasNoStep DEF SweepFinish
  <2>2. sweep.next \in 0..Never /\ sweep.ms \in Times
    BY <2>1, RunningParts
  <2>3. Min({sweep.next, sweep.ms + Backstop}) \in 0..Never
    <3>1. sweep.ms + Backstop \in Nat
      BY <2>2, Numbers
    <3>. QED
      BY <2>2, <3>1, MinInRange
  <2>4. clock' \in 0..Never
    BY <1>14, <2>2, <2>3 DEF SweepFinish, Exchange, TypeOK
  <2>. QED
    BY <1>14, <2>4 DEF SweepFinish, TypeOK
<1>15. CASE UNCHANGED vars
  BY <1>15 DEF vars, TypeOK
<1>. QED
  BY <1>1, <1>2, <1>3, <1>4, <1>5, <1>6, <1>7, <1>8, <1>9, <1>10, <1>11, <1>12, <1>13,
     <1>14, <1>15 DEF Next

-----------------------------------------------------------------------------
(* The Context Source half.                                                 *)

\* Deliveries are a tick's, and no instant is ahead of time.
LEMMA TickStep ==
    ASSUME TypeOK, TickInv, [Next]_vars
    PROVE  TickInv'
<1>. USE DocsAreHeld
<1>1. ASSUME UNCHANGED <<row, sweep, sending>>, now' >= now
      PROVE  TickInv'
  <2>1. sweep # Idle => sweep.ms \in Int
    BY RunningParts, Numbers
  <2>2. \A s \in Subs : Held(row[s]) => row[s].anchor \in Int
    BY Numbers DEF TypeOK, Docs
  <2>3. now \in Int /\ now' \in Int
    BY TypeStep, Numbers DEF TypeOK
  <2>. QED
    BY <1>1, <2>1, <2>2, <2>3 DEF TickInv
<1>2. now \in Int /\ now <= now
  BY Numbers DEF TypeOK
<1>3. CASE Tick
  BY <1>1, <1>2, <1>3 DEF Tick
<1>4. ASSUME NEW s \in Subs, UNCHANGED <<now, sweep, sending>>,
             \A r \in Subs \ {s} : row'[r] = row[r],
             Held(row'[s]) => row'[s].anchor = now \/ (Held(row[s]) /\ row'[s].anchor = row[s].anchor)
      PROVE  TickInv'
  BY <1>2, <1>4 DEF TickInv
<1>5. ASSUME NEW h \in Handlers, NEW s \in Subs, Create(h, s)
      PROVE  TickInv'
  <2>1. row'[s].anchor = now /\ \A r \in Subs \ {s} : row'[r] = row[r]
    BY <1>5 DEF Create, TypeOK
  <2>. QED
    BY <1>4, <1>5, <2>1 DEF Create
<1>6. ASSUME NEW h \in Handlers, NEW s \in Subs, NEW a \in BOOLEAN, Update(h, s, a)
      PROVE  TickInv'
  <2>1. /\ Held(row[s]) /\ row'[s].anchor = row[s].anchor
        /\ \A r \in Subs \ {s} : row'[r] = row[r]
    BY <1>6 DEF Update, TypeOK
  <2>. QED
    BY <1>4, <1>6, <2>1 DEF Update
<1>7. ASSUME NEW h \in Handlers, NEW s \in Subs, Delete(h, s)
      PROVE  TickInv'
  <2>1. ~Held(row'[s]) /\ \A r \in Subs \ {s} : row'[r] = row[r]
    BY <1>7 DEF Delete, TypeOK
  <2>. QED
    BY <1>4, <1>7, <2>1 DEF Delete
<1>8. ASSUME NEW h \in Handlers, UpdateGet(h) \/ SyncMirror(h)
      PROVE  TickInv'
  BY <1>1, <1>2, <1>8 DEF UpdateGet, SyncMirror
<1>9. ASSUME NEW s \in Subs, CsourceInitial(s)
      PROVE  TickInv'
  <2>1. /\ Held(row'[s]) => row'[s].anchor = now \/ (Held(row[s]) /\ row'[s].anchor = row[s].anchor)
        /\ \A r \in Subs \ {s} : row'[r] = row[r]
    BY <1>9, StampType DEF CsourceInitial, TypeOK
  <2>. QED
    BY <1>4, <1>9, <2>1 DEF CsourceInitial
<1>10. CASE SweepBegin
  <2>1. sweep' # Idle /\ sweep'.ms = now
    BY <1>10 DEF SweepBegin, Idle
  <2>. QED
    BY <1>2, <1>10, <2>1 DEF SweepBegin, TickInv
<1>11. CASE SweepListTenants \/ \E t \in Tenants : SweepVisit(t)
  <2>1. sweep # Idle
    BY <1>11, IdleHasNoStep DEF SweepListTenants, SweepVisit
  <2>2. /\ sweep'.ms = sweep.ms /\ sweep'.pc = "scan" /\ sweep' # Idle
        /\ UNCHANGED <<now, row, sending>>
    BY <1>11 DEF SweepListTenants, SweepVisit, Idle
  <2>. QED
    BY <2>1, <2>2 DEF TickInv
<1>12. ASSUME sweep # Idle, NEW e \in sweep.batch, NEW m \in BOOLEAN, SweepCheck(e, m)
       PROVE  TickInv'
  <2>1. /\ sweep' # Idle /\ sweep'.ms = sweep.ms /\ sweep'.pc = "scan"
        /\ UNCHANGED <<now, row>>
    <3>1. sweep' \in Running /\ sweep'.pc = "scan" /\ sweep'.ms = sweep.ms
      BY <1>12, CheckStep
    <3>. QED
      BY <1>12, <3>1, IdleHasNoStep DEF SweepCheck
  <2>. QED
    BY <1>12, <2>1 DEF TickInv
<1>13. ASSUME NEW x \in sending, Book(x)
       PROVE  TickInv'
  <2>1. x.id \in Subs
    BY DEF TypeOK
  <2>2. \A s \in Subs : Held(row'[s]) =>
           row'[s].anchor = now \/ (Held(row[s]) /\ row'[s].anchor = row[s].anchor)
    BY <1>13, <2>1, StampType DEF Book, TypeOK
  <2>3. UNCHANGED <<now, sweep>> /\ sweep # Idle /\ sweep.pc = "scan"
    BY <1>13 DEF Book, TickInv
  <2>. QED
    BY <1>2, <2>2, <2>3 DEF TickInv
<1>14. ASSUME NEW x \in sending, MirrorBookkeeping(x)
       PROVE  TickInv'
  BY <1>14 DEF MirrorBookkeeping, TickInv
<1>15. CASE SweepFinish
  BY <1>15 DEF SweepFinish, TickInv
<1>16. CASE UNCHANGED vars
  BY <1>1, <1>2, <1>16 DEF vars
<1>. QED
  BY <1>3, <1>5, <1>6, <1>7, <1>8, <1>9, <1>10, <1>11, <1>12, <1>13, <1>14, <1>15, <1>16 DEF Next

\* A document a request wrote is of now and the request is under way; any other
\* is at most booked anew.
LEMMA RowStep ==
    ASSUME TypeOK, TickInv, [Next]_vars, NEW s \in Subs, Active(s)'
    PROVE  \/ /\ Active(s)
              /\ row'[s].modified = row[s].modified /\ row'[s].anchor >= row[s].anchor
           \/ /\ row'[s].modified = now
              /\ \E h \in Handlers : handler'[h] # Free /\ handler'[h].id = s
<1>. USE DocsAreHeld
<1>1. Held(row[s]) => row[s].anchor \in Int /\ row[s].anchor <= now /\ now \in Int
  BY Numbers DEF TypeOK, Docs, TickInv
<1>2. CASE row'[s] = row[s]
  BY <1>1, <1>2 DEF Active
<1>3. ASSUME NEW r \in Subs, Held(row[r]), row' = [row EXCEPT ![r] = Stamp(row[r])]
      PROVE  row'[s] = row[s] \/ (/\ Active(s) /\ row'[s].modified = row[s].modified
                                 /\ row'[s].anchor >= row[s].anchor)
  <2>1. CASE s = r
    <3>1. row'[s] = Stamp(row[s]) /\ row[s] \in Docs
      BY <1>3, <2>1 DEF TypeOK
    <3>. QED
      BY <1>1, <1>3, <2>1, <3>1, StampType DEF Active
  <2>2. CASE s # r
    BY <1>3, <2>2 DEF TypeOK
  <2>. QED
    BY <2>1, <2>2
<1>4. ASSUME NEW h \in Handlers, NEW r \in Subs,
             \/ Create(h, r) \/ Delete(h, r) \/ \E a \in BOOLEAN : Update(h, r, a)
      PROVE  \/ row'[s] = row[s]
             \/ /\ row'[s].modified = now
                /\ \E g \in Handlers : handler'[g] # Free /\ handler'[g].id = s
  <2>1. CASE s # r
    BY <1>4, <2>1 DEF Create, Delete, Update, TypeOK
  <2>2. CASE s = r /\ Create(h, r)
    BY <2>2 DEF Create, TypeOK, Free
  <2>3. CASE s = r /\ Delete(h, r)
    BY <2>3 DEF Delete, TypeOK, Active
  <2>4. ASSUME s = r, NEW a \in BOOLEAN, Update(h, r, a)
        PROVE  /\ row'[s].modified = now
               /\ \E g \in Handlers : handler'[g] # Free /\ handler'[g].id = s
    BY <2>4 DEF Update, TypeOK, Free
  <2>. QED
    BY <1>4, <2>1, <2>2, <2>3, <2>4
<1>5. CASE \E r \in Subs : CsourceInitial(r)
  <2>1. PICK r \in Subs : CsourceInitial(r)
    BY <1>5
  <2>2. row' = row \/ (Held(row[r]) /\ row' = [row EXCEPT ![r] = Stamp(row[r])])
    BY <2>1 DEF CsourceInitial
  <2>. QED
    BY <1>2, <1>3, <2>2
<1>6. CASE \E x \in sending : Book(x)
  <2>1. PICK x \in sending : Book(x)
    BY <1>6
  <2>2. x.id \in Subs
    BY DEF TypeOK
  <2>3. row' = row \/ (Held(row[x.id]) /\ row' = [row EXCEPT ![x.id] = Stamp(row[x.id])])
    BY <2>1 DEF Book
  <2>. QED
    BY <1>2, <1>3, <2>2, <2>3
<1>7. CASE row' = row
  BY <1>2, <1>7
<1>. QED
  BY <1>2, <1>4, <1>5, <1>6, <1>7
     DEF Next, vars, Tick, UpdateGet, SyncMirror, SweepBegin, SweepListTenants, SweepVisit,
         SweepCheck, MirrorBookkeeping, SweepFinish

\* A request that is under way stays, or ends with its signal.
LEMMA HandlerStep ==
    ASSUME TypeOK, ~Mirrored, [Next]_vars, NEW h \in Handlers, handler[h] # Free
    PROVE  \/ handler'[h] # Free /\ handler'[h].id = handler[h].id
           \/ clock' = 0
<1>1. CASE handler'[h] = handler[h]
  BY <1>1
<1>2. ASSUME NEW g \in Handlers, UpdateGet(g)
      PROVE  handler'[h] # Free /\ handler'[h].id = handler[h].id
  <2>1. handler'[h] = IF h = g THEN [pc |-> "sync", id |-> handler[g].id, doc |-> row[handler[g].id]]
                      ELSE handler[h]
    BY <1>2 DEF UpdateGet, TypeOK
  <2>. QED
    BY <2>1 DEF Free
<1>3. ASSUME NEW g \in Handlers, SyncMirror(g)
      PROVE  clock' = 0
  BY <1>3 DEF SyncMirror, Sync
<1>4. ASSUME NEW g \in Handlers, NEW s \in Subs,
             \/ Create(g, s) \/ Delete(g, s) \/ \E a \in BOOLEAN : Update(g, s, a)
      PROVE  handler'[h] = handler[h]
  <2>1. handler[g] = Free /\ \A i \in Handlers \ {g} : handler'[i] = handler[i]
    BY <1>4 DEF Create, Delete, Update, Begin, TypeOK
  <2>. QED
    BY <2>1
<1>5. CASE handler' = handler
  BY <1>1, <1>5
<1>. QED
  BY <1>1, <1>2, <1>3, <1>4, <1>5
     DEF Next, vars, Tick, CsourceInitial, SweepBegin, SweepListTenants, SweepVisit,
         SweepCheck, Book, MirrorBookkeeping, SweepFinish

\* Who a new clock does not bound has signalled or will.
LEMMA SignalStep ==
    ASSUME TypeOK, ~Mirrored, TickInv, RepairInv, [Next]_vars, NEW s \in Subs, Active(s)'
    PROVE  Signalled(s)'
<1>. USE DocsAreHeld
<1>1. /\ clock \in Int /\ clock' \in Int
      /\ row'[s].anchor \in Int /\ row'[s].modified \in Int
      /\ row'[s].anchor >= 0
  BY TypeStep, Numbers DEF TypeOK, Docs, Active
<1>2. Active(s) => row[s].anchor \in Int /\ row[s].modified \in Int
  BY Numbers DEF TypeOK, Docs, Active
<1>3. CASE clock' = 0
  BY <1>1, <1>3, Numbers DEF Signalled, due_at_ms
<1>4. CASE \E h \in Handlers : handler'[h] # Free /\ handler'[h].id = s
  BY <1>4 DEF Signalled
<1>5. CASE /\ Active(s) /\ row'[s].modified = row[s].modified /\ row'[s].anchor >= row[s].anchor
           /\ clock' = clock
  <2>1. Signalled(s)
    BY <1>5 DEF RepairInv
  <2>2. CASE clock <= due_at_ms(row[s])
    BY SMTT(30), <1>1, <1>2, <1>5, <2>2, Numbers DEF Signalled, due_at_ms
  <2>3. CASE clock <= row[s].modified + Backstop
    BY <1>5, <2>3 DEF Signalled
  <2>4. CASE \E h \in Handlers : handler[h] # Free /\ handler[h].id = s
    BY <1>3, <1>4, <2>4, HandlerStep
  <2>. QED
    BY <2>1, <2>2, <2>3, <2>4 DEF Signalled
<1>6. CASE SweepFinish
  <2>1. UNCHANGED <<row, handler>> /\ Active(s)
    BY <1>6 DEF SweepFinish, Active
  <2>2. sweep # Idle /\ sweep.pc = "scan" /\ sweep.ms \in Int /\ sweep.next \in 0..Never
    BY <1>6, IdleHasNoStep, RunningParts, Numbers DEF SweepFinish
  <2>3. \/ clock' = clock
        \/ clock' = Min({sweep.next, sweep.ms + Backstop})
    BY <1>6 DEF SweepFinish, Exchange
  <2>4. ASSUME clock' = Min({sweep.next, sweep.ms + Backstop})
        PROVE  clock' <= due_at_ms(row[s]) \/ clock' <= row[s].modified + Backstop
    <3>1. sweep.ms + Backstop \in Nat
      BY <2>2, RunningParts, Numbers
    <3>2. clock' <= sweep.next /\ clock' <= sweep.ms + Backstop
      BY <2>2, <2>4, <3>1, MinInRange
    <3>3. CASE row[s].modified < sweep.ms
      <4>1. Tracked(s)
        BY <2>1, <2>2, <3>3 DEF RepairInv
      <4>2. sweep.next <= due_at_ms(row[s])
        BY <1>6, <4>1 DEF SweepFinish, Tracked
      <4>3. due_at_ms(row[s]) \in Int /\ sweep.next \in Int
        BY <1>2, <2>1, <2>2, Numbers DEF due_at_ms
      <4>. QED
        BY <1>1, <3>2, <4>2, <4>3
    <3>4. CASE ~(row[s].modified < sweep.ms)
      BY <1>1, <1>2, <2>1, <2>2, <3>2, <3>4, Numbers
    <3>. QED
      BY <3>3, <3>4
  <2>5. CASE clock' = clock
    BY <1>5, <2>1, <2>5, <1>1
  <2>. QED
    BY <2>1, <2>3, <2>4, <2>5 DEF Signalled
<1>7. SweepFinish \/ clock' = clock \/ clock' = 0
  BY DEF Next, vars, Tick, Create, Update, Delete, UpdateGet, SyncMirror, Sync, CsourceInitial,
     SweepBegin, SweepListTenants, SweepVisit, SweepCheck, Book, MirrorBookkeeping
<1>. QED
  BY <1>3, <1>4, <1>5, <1>6, <1>7, RowStep

\* A sweep goes on tracking what is older than itself.
LEMMA TrackStep ==
    ASSUME TypeOK, ~Mirrored, TickInv, RepairInv, [Next]_vars,
           sweep' # Idle, sweep'.pc = "scan",
           NEW s \in Subs, Active(s)', row'[s].modified < sweep'.ms
    PROVE  Tracked(s)'
<1>. USE DocsAreHeld
<1>1. ASSUME UNCHANGED <<sweep, sending>>
      PROVE  Tracked(s)'
  <2>1. sweep.ms \in Int /\ now \in Int /\ sweep.ms <= now /\ sweep.next \in Int
    BY <1>1, RunningParts, Numbers DEF TypeOK, TickInv
  <2>2. /\ Active(s) /\ row'[s].modified = row[s].modified
        /\ row'[s].anchor >= row[s].anchor
    BY <1>1, <2>1, RowStep
  <2>3. Tracked(s)
    BY <1>1, <2>2 DEF RepairInv
  <2>4. row[s].anchor \in Int /\ row'[s].anchor \in Int
    BY <2>2, TypeStep, Numbers DEF TypeOK, Docs, Active
  <2>5. CASE sweep.next <= due_at_ms(row[s])
    BY <1>1, <2>1, <2>2, <2>4, <2>5, Numbers DEF Tracked, due_at_ms
  <2>6. CASE \E e \in sweep.batch : e.id = s /\ e.doc.active /\ e.doc.anchor <= row[s].anchor
    <3>1. PICK e \in sweep.batch : e.id = s /\ e.doc.active /\ e.doc.anchor <= row[s].anchor
      BY <2>6
    <3>2. e.doc.anchor \in Int
      BY <1>1, RunningParts, Numbers DEF Docs
    <3>3. e.doc.anchor <= row'[s].anchor
      BY <2>2, <2>4, <3>1, <3>2
    <3>. QED
      BY <1>1, <3>1, <3>3 DEF Tracked
  <2>. QED
    BY <1>1, <2>3, <2>5, <2>6 DEF Tracked
<1>2. CASE SweepBegin
  BY <1>2 DEF SweepBegin
<1>3. CASE SweepListTenants
  <2>1. Held(row[s])
    BY <1>3 DEF SweepListTenants, Active
  <2>2. sweep'.todo = {TenantOf[r] : r \in {x \in Subs : Held(row[x])}}
    BY <1>3 DEF SweepListTenants
  <2>. QED
    BY <2>1, <2>2 DEF Tracked
<1>4. ASSUME NEW t \in Tenants, SweepVisit(t)
      PROVE  Tracked(s)'
  <2>1. /\ sweep # Idle /\ sweep.pc = "scan" /\ sweep.batch = {} /\ UNCHANGED <<row, sending>>
        /\ sweep'.ms = sweep.ms /\ sweep'.next = sweep.next /\ sweep'.todo = sweep.todo \ {t}
        /\ sweep'.batch = {[id |-> r, doc |-> row[r]] : r \in {x \in Subs : TenantOf[x] = t /\ Held(row[x])}}
    BY <1>4, IdleHasNoStep DEF SweepVisit
  <2>2. Active(s) /\ Tracked(s)
    BY <2>1 DEF RepairInv, Active
  <2>3. CASE TenantOf[s] = t
    <3>1. [id |-> s, doc |-> row[s]] \in sweep'.batch
      BY <2>1, <2>2, <2>3 DEF Active
    <3>2. row'[s].anchor <= row'[s].anchor
      BY <2>1, <2>2, Numbers DEF TypeOK, Docs, Active
    <3>. QED
      BY <2>1, <2>2, <3>1, <3>2 DEF Tracked, Active
  <2>4. CASE TenantOf[s] # t
    BY <2>1, <2>2, <2>4 DEF Tracked
  <2>. QED
    BY <2>3, <2>4
<1>5. ASSUME sweep # Idle, NEW e \in sweep.batch, NEW m \in BOOLEAN, SweepCheck(e, m)
      PROVE  Tracked(s)'
  <2>1. /\ sweep.pc = "scan" /\ sweep'.ms = sweep.ms /\ UNCHANGED row /\ m
    BY <1>5, CheckStep DEF SweepCheck
  <2>2. /\ sweep'.todo = sweep.todo /\ sweep'.batch = sweep.batch \ {e}
        /\ sweep'.next <= sweep.next /\ sending \subseteq sending'
    <3>1. /\ sweep'.todo = sweep.todo /\ sweep'.batch = sweep.batch \ {e}
          /\ sweep'.next <= sweep.next
          /\ \/ UNCHANGED sending
             \/ sending' = sending \cup {[id |-> e.id, pc |-> "book", doc |-> Gone]}
      BY <1>5, CheckStep
    <3>. QED
      BY <3>1
  <2>3. Active(s) /\ Tracked(s)
    BY <1>5, <2>1 DEF RepairInv, Active
  <2>4. /\ sweep.next \in Int /\ sweep'.next \in Int /\ sweep.ms \in Int
        /\ row[s].anchor \in Int /\ e.doc.anchor \in Int
    <3>1. sweep' \in Running
      BY <1>5, CheckStep
    <3>2. sweep'.next \in Int
      BY <3>1, Numbers DEF Running
    <3>. QED
      BY <1>5, <2>3, <3>2, RunningParts, Numbers DEF TypeOK, Docs, Active
  <2>5. CASE e.id = s /\ e.doc.active /\ e.doc.anchor <= row[s].anchor
    <3>1. CASE sweep.ms < due_at_ms(e.doc)
      <4>1. sweep'.next <= due_at_ms(e.doc)
        BY <1>5, <2>5, <3>1, CheckStep
      <4>2. sweep'.next <= due_at_ms(row[s])
        BY <2>4, <2>5, <4>1, Numbers DEF due_at_ms
      <4>. QED
        BY <2>1, <4>2 DEF Tracked
    <3>2. CASE ~(sweep.ms < due_at_ms(e.doc))
      <4>1. sweep.ms >= due_at_ms(e.doc)
        BY SMTT(30), <2>4, <3>2, Numbers DEF due_at_ms
      <4>2. sending' = sending \cup {[id |-> e.id, pc |-> "book", doc |-> Gone]}
        BY <1>5, <2>1, <2>5, <4>1, CheckStep
      <4>. DEFINE x == [id |-> e.id, pc |-> "book", doc |-> Gone]
      <4>3. x \in sending' /\ x.id = s
        BY <2>5, <4>2
      <4>. QED
        BY <4>3 DEF Tracked
    <3>. QED
      BY <3>1, <3>2
  <2>6. CASE sweep.next <= due_at_ms(row[s])
    BY SMTT(30), <2>1, <2>2, <2>4, <2>6, Numbers DEF Tracked, due_at_ms
  <2>7. CASE \E f \in sweep.batch \ {e} : f.id = s /\ f.doc.active /\ f.doc.anchor <= row[s].anchor
    BY <2>1, <2>2, <2>7 DEF Tracked
  <2>8. CASE TenantOf[s] \in sweep.todo \/ \E x \in sending : x.id = s
    BY <2>2, <2>8 DEF Tracked
  <2>. QED
    BY <2>3, <2>5, <2>6, <2>7, <2>8 DEF Tracked
<1>6. ASSUME NEW x \in sending, Book(x)
      PROVE  Tracked(s)'
  <2>1. /\ sweep # Idle /\ sweep.pc = "scan" /\ UNCHANGED sweep
        /\ sweep.next <= sweep.ms + Interval /\ sweep.ms <= now /\ x.id \in Subs
        /\ sending' = sending \ {x}
    BY <1>6 DEF Book, RepairInv, TickInv, TypeOK
  <2>2. sweep.ms \in Int /\ now \in Int /\ sweep.next \in Int
    BY <2>1, RunningParts, Numbers DEF TypeOK
  <2>3. CASE x.id = s
    <3>1. Held(row[s]) /\ row'[s] = Stamp(row[s])
      BY <1>6, <2>3 DEF Book, TypeOK, Active
    <3>2. row[s] \in Docs
      BY <3>1 DEF TypeOK
    <3>3. row'[s].anchor = now
      BY <3>1, <3>2, StampType
    <3>4. sweep'.next <= due_at_ms(row'[s])
      BY <2>1, <2>2, <3>3, Numbers DEF due_at_ms
    <3>. QED
      BY <3>4 DEF Tracked
  <2>4. CASE x.id # s
    <3>1. row'[s] = row[s]
      BY <1>6, <2>1, <2>4 DEF Book, TypeOK
    <3>2. Tracked(s)
      BY <2>1, <3>1 DEF RepairInv, Active
    <3>. QED
      BY <2>1, <2>4, <3>1, <3>2 DEF Tracked
  <2>. QED
    BY <2>3, <2>4
<1>7. ASSUME NEW x \in sending, MirrorBookkeeping(x)
      PROVE  FALSE
  BY <1>7 DEF MirrorBookkeeping, RepairInv
<1>8. CASE SweepFinish
  BY <1>8 DEF SweepFinish
<1>. QED
  BY <1>1, <1>2, <1>3, <1>4, <1>5, <1>6, <1>7, <1>8
     DEF Next, vars, Tick, Create, Update, Delete, UpdateGet, SyncMirror, CsourceInitial

LEMMA RepairStep ==
    ASSUME TypeOK, ~Mirrored, TickInv, RepairInv, [Next]_vars
    PROVE  RepairInv'
<1>1. \A s \in Subs : Active(s)' => Signalled(s)'
  BY SignalStep
<1>2. sweep' # Idle /\ sweep'.pc = "scan"
         => \A s \in Subs : Active(s)' /\ row'[s].modified < sweep'.ms => Tracked(s)'
  BY TrackStep
<1>3. /\ sending' # {} => sweep'.next <= sweep'.ms + Interval
      /\ \A x \in sending' : x.pc = "book"
  <2>1. ASSUME UNCHANGED sweep, sending' \subseteq sending
        PROVE  /\ sending' # {} => sweep'.next <= sweep'.ms + Interval
               /\ \A x \in sending' : x.pc = "book"
    BY <2>1 DEF RepairInv
  <2>2. CASE SweepBegin \/ SweepFinish
    BY <2>2 DEF SweepBegin, SweepFinish, TickInv
  <2>3. CASE SweepListTenants \/ \E t \in Tenants : SweepVisit(t)
    <3>1. sweep'.ms = sweep.ms /\ sweep'.next = sweep.next /\ UNCHANGED sending
      BY <2>3 DEF SweepListTenants, SweepVisit
    <3>. QED
      BY <3>1 DEF RepairInv
  <2>4. ASSUME sweep # Idle, NEW e \in sweep.batch, NEW m \in BOOLEAN, SweepCheck(e, m)
        PROVE  /\ sending' # {} => sweep'.next <= sweep'.ms + Interval
               /\ \A x \in sending' : x.pc = "book"
    <3>1. /\ sweep'.next <= sweep.next /\ sweep'.ms = sweep.ms
          /\ sweep' \in Running
      BY <2>4, CheckStep
    <3>2. sweep.next \in Int /\ sweep'.next \in Int /\ sweep.ms \in Int
      BY <2>4, <3>1, RunningParts, Numbers DEF Running
    <3>3. CASE UNCHANGED sending
      BY <3>1, <3>2, <3>3, Numbers DEF RepairInv
    <3>4. CASE /\ e.doc.active /\ sweep.ms >= due_at_ms(e.doc) /\ m
               /\ sending' = sending \cup {[id |-> e.id, pc |-> "book", doc |-> Gone]}
      <4>1. sweep'.next <= sweep.ms + Interval
        BY <2>4, <3>4, CheckStep
      <4>. QED
        BY <3>1, <3>4, <4>1 DEF RepairInv
    <3>. QED
      BY <2>4, <3>3, <3>4, CheckStep
  <2>5. ASSUME NEW x \in sending, Book(x)
        PROVE  UNCHANGED sweep /\ sending' \subseteq sending
    BY <2>5 DEF Book
  <2>6. ASSUME NEW x \in sending, MirrorBookkeeping(x)
        PROVE  UNCHANGED sweep /\ sending' \subseteq sending
    BY <2>6 DEF MirrorBookkeeping
  <2>. QED
    BY <2>1, <2>2, <2>3, <2>4, <2>5, <2>6
       DEF Next, vars, Tick, Create, Update, Delete, UpdateGet, SyncMirror, CsourceInitial
<1>. QED
  BY <1>1, <1>2, <1>3 DEF RepairInv

\* "A lost signal is repaired within CSUB_SWEEP_BACKSTOP_MS" (notify.rs,
\* interval_tick): at rest, the next sweep of the Context Source half comes no
\* later than a subscription's due instant or one backstop after its last
\* write, whatever the requests, the sweeps and the initial notifications did
\* to the clock before.
THEOREM Repaired ==
    ASSUME ~Mirrored
    PROVE  Spec => []BackstopRepairs
<1>. DEFINE I == TypeOK /\ TickInv /\ RepairInv
<1>1. Init => I
  <2>. SUFFICES ASSUME Init PROVE I
    OBVIOUS
  <2>1. TypeOK
    BY Numbers, DocsAreHeld DEF Init, TypeOK
  <2>2. TickInv /\ RepairInv
    BY DocsAreHeld DEF Init, TickInv, RepairInv, Active
  <2>. QED
    BY <2>1, <2>2
<1>2. I /\ [Next]_vars => I'
  BY TypeStep, TickStep, RepairStep
<1>3. I => BackstopRepairs
  <2>. SUFFICES ASSUME I, Quiet, NEW s \in Subs, Held(row[s]), row[s].active
                PROVE  clock <= Max({due_at_ms(row[s]), row[s].modified + Backstop})
    BY DEF BackstopRepairs
  <2>1. clock <= due_at_ms(row[s]) \/ clock <= row[s].modified + Backstop
    BY DEF RepairInv, Active, Signalled, Quiet
  <2>2. /\ clock \in Int /\ due_at_ms(row[s]) \in Int /\ row[s].modified + Backstop \in Int
    <3>1. row[s] \in Docs
      BY DocsAreHeld DEF TypeOK
    <3>2. row[s].anchor \in Int /\ row[s].modified \in Int
      BY <3>1, Numbers DEF Docs
    <3>. QED
      BY <3>2, Numbers DEF TypeOK, due_at_ms
  <2>. DEFINE a == due_at_ms(row[s])
              b == row[s].modified + Backstop
  <2>3. clock \in Int /\ a \in Int /\ b \in Int /\ (clock <= a \/ clock <= b)
    BY <2>1, <2>2
  <2>. HIDE DEF a, b
  <2>4. Max({a, b}) >= a /\ Max({a, b}) >= b /\ Max({a, b}) \in Int
    <3>1. Max({a, b}) \in {a, b} /\ Max({a, b}) >= a /\ Max({a, b}) >= b
      BY <2>3, MinOfTwo
    <3>. QED
      BY <2>3, <3>1
  <2>5. clock <= Max({a, b})
    BY <2>3, <2>4
  <2>. QED
    BY <2>5 DEF a, b
<1>. QED
  BY <1>1, <1>2, <1>3, PTL DEF Spec

-----------------------------------------------------------------------------
(* The Subscription half.                                                   *)

\* A sweep visits nobody twice.
LEMMA OnceStep ==
    ASSUME TypeOK, TickInv, OnceInv, [Next]_vars
    PROVE  OnceInv'
<1>1. ASSUME UNCHANGED sweep, sending' \subseteq sending
      PROVE  OnceInv'
  <2>1. Todo' = Todo /\ Batch' = Batch
    BY <1>1 DEF Todo, Batch
  <2>. QED
    BY <1>1, <2>1 DEF OnceInv
<1>2. CASE SweepBegin \/ SweepFinish
  <2>1. Todo' = {} /\ Batch' = {} /\ sending' = {}
    BY <1>2 DEF SweepBegin, SweepFinish, Todo, Batch, TickInv, Idle
  <2>2. sweep' # Idle => sweep'.batch = {}
    BY <1>2 DEF SweepBegin, SweepFinish
  <2>. QED
    BY <2>1, <2>2 DEF OnceInv
<1>3. CASE SweepListTenants
  <2>1. sweep # Idle /\ sweep.pc = "list" /\ sweep.batch = {} /\ sending = {}
    BY <1>3, IdleHasNoStep DEF SweepListTenants, TickInv, OnceInv
  <2>2. sweep'.pc = "scan" /\ sweep'.batch = {} /\ sending' = {}
    BY <1>3, <2>1 DEF SweepListTenants
  <2>3. Batch' = {}
    BY <2>2 DEF Batch
  <2>. QED
    BY <2>2, <2>3 DEF OnceInv
<1>4. ASSUME NEW t \in Tenants, SweepVisit(t)
      PROVE  OnceInv'
  <2>. DEFINE docs == IF Mirrored THEN mirror ELSE row
              mine == {s \in Subs : TenantOf[s] = t /\ Held(docs[s])}
  <2>1. /\ sweep # Idle /\ sweep' # Idle /\ sweep'.pc = "scan" /\ UNCHANGED sending
        /\ sweep'.todo = sweep.todo \ {t} /\ t \in sweep.todo
        /\ sweep'.batch = {[id |-> s, doc |-> docs[s]] : s \in mine}
    BY <1>4, IdleHasNoStep DEF SweepVisit, Idle
  <2>2. Todo' = Todo \ {t} /\ t \in Todo
    BY <2>1 DEF Todo
  <2>3. \A e \in Batch' : TenantOf[e.id] = t /\ e = [id |-> e.id, doc |-> docs[e.id]]
    BY <2>1 DEF Batch
  <2>. HIDE DEF docs
  <2>4. \A x \in sending : TenantOf[x.id] # t /\ TenantOf[x.id] \notin Todo
    BY <2>2 DEF OnceInv
  <2>5. \A x \in sending' : TenantOf[x.id] \notin Todo' /\ \A e \in Batch' : e.id # x.id
    BY <2>1, <2>2, <2>3, <2>4
  <2>6. \A e, f \in Batch' : e.id = f.id => e = f
    BY <2>3
  <2>7. \A e \in Batch' : TenantOf[e.id] \notin Todo'
    BY <2>2, <2>3
  <2>8. \A x, y \in sending' : x.id = y.id => x = y
    BY <2>1 DEF OnceInv
  <2>. QED
    BY <2>1, <2>5, <2>6, <2>7, <2>8 DEF OnceInv
<1>5. ASSUME sweep # Idle, NEW e \in sweep.batch, NEW m \in BOOLEAN, SweepCheck(e, m)
      PROVE  OnceInv'
  <2>. DEFINE b == [id |-> e.id, pc |-> "book", doc |-> Gone]
  <2>1. /\ sweep' # Idle /\ sweep'.pc = "scan" /\ sweep'.todo = sweep.todo
        /\ sweep'.batch = sweep.batch \ {e}
        /\ sending' = sending \/ sending' = sending \cup {b}
    BY <1>5, CheckStep, IdleHasNoStep
  <2>2. Todo' = Todo /\ Batch' = Batch \ {e} /\ e \in Batch
    BY <1>5, <2>1 DEF Todo, Batch
  <2>3. b.id = e.id
    OBVIOUS
  <2>. HIDE DEF b
  <2>4. TenantOf[b.id] \notin Todo' /\ \A f \in Batch' : f.id # b.id
    BY <2>2, <2>3 DEF OnceInv
  <2>5. \A x \in sending : x.id # b.id
    BY <2>2, <2>3 DEF OnceInv
  <2>6. \A x, y \in sending' : x.id = y.id => x = y
    BY <2>1, <2>5 DEF OnceInv
  <2>. QED
    BY <2>1, <2>2, <2>4, <2>6 DEF OnceInv
<1>6. ASSUME NEW x \in sending, Book(x)
      PROVE  OnceInv'
  <2>. DEFINE b == [id |-> x.id, pc |-> "mirror", doc |-> Stamp(row[x.id])]
  <2>1. UNCHANGED sweep /\ (sending' = sending \ {x} \/ sending' = (sending \ {x}) \cup {b})
    BY <1>6 DEF Book
  <2>2. b.id = x.id
    OBVIOUS
  <2>. HIDE DEF b
  <2>3. Todo' = Todo /\ Batch' = Batch
    BY <2>1 DEF Todo, Batch
  <2>4. \A y \in sending \ {x} : y.id # b.id
    BY <2>2 DEF OnceInv
  <2>5. \A y \in sending' : TenantOf[y.id] \notin Todo' /\ \A e \in Batch' : e.id # y.id
    BY <2>1, <2>2, <2>3 DEF OnceInv
  <2>6. \A y, z \in sending' : y.id = z.id => y = z
    BY <2>1, <2>4 DEF OnceInv
  <2>. QED
    BY <2>1, <2>3, <2>5, <2>6 DEF OnceInv
<1>7. ASSUME NEW x \in sending, MirrorBookkeeping(x)
      PROVE  OnceInv'
  BY <1>1, <1>7 DEF MirrorBookkeeping
<1>. QED
  BY <1>1, <1>2, <1>3, <1>4, <1>5, <1>6, <1>7
     DEF Next, vars, Tick, Create, Update, Delete, UpdateGet, SyncMirror, CsourceInitial

\* A step that leaves s alone.
LEMMA CopyKept ==
    ASSUME NEW s \in Subs, row'[s] = row[s], mirror'[s] = mirror[s],
           \A h \in Handlers : Pending(h, s)' => Pending(h, s) /\ handler'[h] = handler[h],
           \A e \in Batch' : e.id = s => e \in Batch,
           \A x \in sending' : x.id = s => x \in sending /\ sweep'.ms = sweep.ms,
           \A x \in sending : x.id = s => x \in sending'
    PROVE  (Unborn(s) => Unborn(s)') /\ (Faithful(s) => Faithful(s)')
<1>1. Unseen(s) => Unseen(s)'
  BY DEF Unseen
<1>2. Unborn(s) => Unborn(s)'
  BY <1>1 DEF Unborn
<1>3. ASSUME Faithful(s)
      PROVE  Faithful(s)'
  <2>1. \A h \in Handlers : Pending(h, s)'
           => /\ handler'[h].doc = row'[s] /\ mirror'[s] = Fresh
              /\ \A g \in Handlers : Pending(g, s)' => g = h
    BY <1>3 DEF Faithful
  <2>2. \A e \in Batch' : e.id = s => e.doc = row'[s]
    BY <1>3 DEF Faithful
  <2>3. \A x \in sending' : x.id = s => IF x.pc = "book" THEN due_at_ms(row'[s]) <= sweep'.ms
                                       ELSE x.doc = row'[s]
    BY <1>3 DEF Faithful
  <2>4. \/ mirror'[s] = Fresh /\ Unseen(s)'
        \/ mirror'[s] = row'[s]
        \/ mirror'[s] # Fresh /\ \E x \in sending' : x.id = s /\ x.pc = "mirror"
    BY <1>1, <1>3 DEF Faithful
  <2>. QED
    BY <2>1, <2>2, <2>3, <2>4 DEF Faithful
<1>. QED
  BY <1>2, <1>3

\* The same of a step that touches nothing but the clock.
LEMMA CopyIdle ==
    ASSUME NEW s \in Subs, UNCHANGED <<row, mirror, handler, sending>>,
           Batch' \subseteq Batch, sending # {} => sweep'.ms = sweep.ms
    PROVE  (Unborn(s) => Unborn(s)') /\ (Faithful(s) => Faithful(s)')
<1>1. \A h \in Handlers : Pending(h, s)' => Pending(h, s) /\ handler'[h] = handler[h]
  BY DEF Pending
<1>. QED
  BY <1>1, CopyKept

\* A client's create or delete.
LEMMA CopyRequest ==
    ASSUME TypeOK, CopyInv, NEW s \in Subs, NEW h \in Handlers, NEW r \in Subs,
           Create(h, r) \/ Delete(h, r)
    PROVE  Copied(s)'
<1>. USE DocsAreHeld
<1>1. /\ handler[h] = Free /\ UNCHANGED <<mirror, sweep, sending>>
      /\ \A g \in Handlers \ {h} : handler'[g] = handler[g]
      /\ handler'[h].id = r
  BY DEF Create, Delete, Begin, TypeOK
<1>2. Batch' = Batch
  BY <1>1 DEF Batch
<1>3. CASE s # r
  <2>1. row'[s] = row[s]
    BY <1>3 DEF Create, Delete, TypeOK
  <2>2. \A g \in Handlers : Pending(g, s)' => Pending(g, s) /\ handler'[g] = handler[g]
    BY <1>1, <1>3 DEF Pending
  <2>3. (Unborn(s) => Unborn(s)') /\ (Faithful(s) => Faithful(s)')
    BY <1>1, <1>2, <2>1, <2>2, CopyKept
  <2>. QED
    BY <2>1, <2>3 DEF Copied, CopyInv
<1>4. CASE s = r /\ Create(h, r)
  <2>1. row[s] = Fresh /\ Unborn(s)
    BY <1>4 DEF Create, CopyInv, Copied
  <2>2. handler'[h].doc = row'[s] /\ Held(row'[s])
    <3>. DEFINE d == [anchor |-> now, modified |-> now, active |-> TRUE, sent |-> 0]
    <3>1. row'[s] = d /\ handler'[h].doc = d
      BY <1>4 DEF Create, TypeOK
    <3>2. d \in Docs
      BY DEF TypeOK, Docs
    <3>. QED
      BY <3>1, <3>2
  <2>3. \A g \in Handlers : Pending(g, s)' => g = h
    BY <1>1, <2>1 DEF Unborn, Pending
  <2>4. mirror'[s] = Fresh /\ Unseen(s)'
    BY <1>1, <1>2, <2>1 DEF Unborn, Unseen
  <2>5. Faithful(s)'
    BY <2>2, <2>3, <2>4 DEF Faithful, Unseen
  <2>. QED
    BY <2>2, <2>5 DEF Copied
<1>5. CASE s = r /\ Delete(h, r)
  <2>1. row'[s] = Gone
    BY <1>5 DEF Delete, TypeOK
  <2>. QED
    BY <2>1 DEF Copied
<1>. QED
  BY <1>3, <1>4, <1>5

\* A request's signal.
LEMMA CopySync ==
    ASSUME TypeOK, CopyInv, Mirrored, NEW s \in Subs, NEW h \in Handlers, SyncMirror(h)
    PROVE  Copied(s)'
<1>. USE DocsAreHeld
<1>. DEFINE r == handler[h].id
<1>1. /\ handler[h] # Free /\ r \in Subs
      /\ mirror' = [mirror EXCEPT ![r] = handler[h].doc]
      /\ UNCHANGED <<row, sweep, sending>>
      /\ handler'[h] = Free /\ \A g \in Handlers \ {h} : handler'[g] = handler[g]
  BY FreeIsFree DEF SyncMirror, Sync, TypeOK
<1>2. Batch' = Batch
  BY <1>1 DEF Batch
<1>3. CASE s # r
  <2>1. mirror'[s] = mirror[s]
    BY <1>1, <1>3 DEF TypeOK
  <2>2. \A g \in Handlers : Pending(g, s)' => Pending(g, s) /\ handler'[g] = handler[g]
    BY <1>1 DEF Pending
  <2>3. (Unborn(s) => Unborn(s)') /\ (Faithful(s) => Faithful(s)')
    BY <1>1, <1>2, <2>1, <2>2, CopyKept
  <2>. QED
    BY <1>1, <2>3 DEF Copied, CopyInv
<1>4. CASE s = r
  <2>1. Pending(h, s) /\ row[s] # Fresh
    BY <1>1, <1>4 DEF Pending, CopyInv, Copied, Unborn
  <2>2. ASSUME Held(row[s])
        PROVE  Faithful(s)'
    <3>1. Faithful(s)
      BY <2>2 DEF CopyInv, Copied
    <3>2. /\ handler[h].doc = row[s] /\ \A g \in Handlers : Pending(g, s) => g = h
      BY <2>1, <3>1 DEF Faithful
    <3>3. mirror'[s] = row'[s]
      BY <1>1, <1>4, <3>2 DEF TypeOK
    <3>4. \A g \in Handlers : ~Pending(g, s)'
      BY <1>1, <3>2 DEF Pending
    <3>5. /\ \A e \in Batch' : e.id = s => e.doc = row'[s]
          /\ \A x \in sending' : x.id = s => IF x.pc = "book"
                                            THEN due_at_ms(row'[s]) <= sweep'.ms
                                            ELSE x.doc = row'[s]
      BY <1>1, <1>2, <3>1 DEF Faithful
    <3>. QED
      BY <3>3, <3>4, <3>5 DEF Faithful
  <2>. QED
    BY <1>1, <2>1, <2>2 DEF Copied
<1>. QED
  BY <1>3, <1>4

\* A tick takes a tenant's documents from the mirror.
LEMMA CopyVisit ==
    ASSUME TypeOK, OnceInv, CopyInv, Mirrored, NEW s \in Subs, NEW t \in Tenants, SweepVisit(t)
    PROVE  Copied(s)'
<1>. USE DocsAreHeld
<1>1. /\ sweep # Idle /\ sweep' # Idle /\ t \in Todo
      /\ UNCHANGED <<row, mirror, sending, handler>>
      /\ sweep'.ms = sweep.ms /\ Batch = {}
      /\ Batch' = {[id |-> x, doc |-> mirror[x]] :
                      x \in {y \in Subs : TenantOf[y] = t /\ Held(mirror[y])}}
  BY IdleHasNoStep DEF SweepVisit, Idle, Todo, Batch
<1>2. \A e \in Batch' : TenantOf[e.id] = t /\ Held(mirror[e.id]) /\ e.doc = mirror[e.id]
  BY <1>1
<1>3. \A h \in Handlers : Pending(h, s)' <=> Pending(h, s)
  BY <1>1 DEF Pending
<1>4. CASE TenantOf[s] # t \/ ~Held(mirror[s])
  <2>1. \A e \in Batch' : e.id # s
    BY <1>2, <1>4
  <2>2. (Unborn(s) => Unborn(s)') /\ (Faithful(s) => Faithful(s)')
    BY <1>1, <1>3, <2>1, CopyKept
  <2>. QED
    BY <1>1, <2>2 DEF Copied, CopyInv
<1>5. CASE TenantOf[s] = t /\ Held(mirror[s])
  <2>1. row[s] # Fresh
    BY <1>5 DEF CopyInv, Copied, Unborn
  <2>2. \A x \in sending : x.id # s
    BY <1>1, <1>5 DEF OnceInv
  <2>3. ASSUME Held(row[s])
        PROVE  Faithful(s)'
    <3>1. Faithful(s) /\ mirror[s] # Fresh
      BY <1>5, <2>3 DEF CopyInv, Copied
    <3>2. mirror'[s] = row'[s]
      BY <1>1, <2>2, <3>1 DEF Faithful
    <3>3. \A e \in Batch' : e.id = s => e.doc = row'[s]
      BY <1>1, <1>2, <3>2
    <3>4. \A h \in Handlers : ~Pending(h, s)'
      BY <1>3, <3>1 DEF Faithful
    <3>5. \A x \in sending' : x.id # s
      BY <1>1, <2>2
    <3>. QED
      BY <3>2, <3>3, <3>4, <3>5 DEF Faithful
  <2>. QED
    BY <1>1, <2>1, <2>3 DEF Copied
<1>. QED
  BY <1>4, <1>5

\* A tick decides on one document.
LEMMA CopyCheck ==
    ASSUME TypeOK, OnceInv, CopyInv, NEW s \in Subs,
           sweep # Idle, NEW e \in sweep.batch, NEW m \in BOOLEAN, SweepCheck(e, m)
    PROVE  Copied(s)'
<1>. DEFINE b == [id |-> e.id, pc |-> "book", doc |-> Gone]
<1>1. /\ sweep'.ms = sweep.ms /\ sweep' # Idle
      /\ sweep'.batch = sweep.batch \ {e}
      /\ \/ UNCHANGED sending
         \/ sweep.ms >= due_at_ms(e.doc) /\ sending' = sending \cup {b}
  BY CheckStep, IdleHasNoStep
<1>2. Batch' = Batch \ {e} /\ e \in Batch
  BY <1>1 DEF Batch
<1>3. UNCHANGED <<row, mirror, handler>>
  BY DEF SweepCheck
<1>4. b.id = e.id /\ b.pc = "book"
  OBVIOUS
<1>. HIDE DEF b
<1>5. CASE s # e.id \/ UNCHANGED sending
  <2>1. \A x \in sending' : x.id = s => x \in sending
    BY <1>1, <1>4, <1>5
  <2>2. \A h \in Handlers : Pending(h, s)' => Pending(h, s) /\ handler'[h] = handler[h]
    BY <1>3 DEF Pending
  <2>3. (Unborn(s) => Unborn(s)') /\ (Faithful(s) => Faithful(s)')
    BY <1>1, <1>2, <1>3, <2>1, <2>2, CopyKept
  <2>. QED
    BY <1>3, <2>3 DEF Copied, CopyInv
<1>6. CASE s = e.id /\ sweep.ms >= due_at_ms(e.doc) /\ sending' = sending \cup {b}
  <2>1. row[s] # Fresh
    BY <1>2, <1>6 DEF CopyInv, Copied, Unborn, Unseen
  <2>2. ASSUME Held(row[s])
        PROVE  Faithful(s)'
    <3>1. Faithful(s) /\ e.doc = row[s]
      BY <1>2, <1>6, <2>2 DEF CopyInv, Copied, Faithful
    <3>2. due_at_ms(row'[s]) <= sweep'.ms
      <4>1. due_at_ms(e.doc) \in Int /\ sweep.ms \in Int
        <5>1. e.doc \in Docs /\ sweep.ms \in Times
          BY RunningParts
        <5>. QED
          BY <5>1, Numbers DEF Docs, due_at_ms
      <4>2. due_at_ms(e.doc) <= sweep.ms
        BY <1>6, <4>1
      <4>. QED
        BY <1>1, <1>3, <3>1, <4>2
    <3>3. \A x \in sending' : x.id = s => IF x.pc = "book" THEN due_at_ms(row'[s]) <= sweep'.ms
                                         ELSE x.doc = row'[s]
      BY <1>3, <1>4, <1>6, <3>1, <3>2 DEF Faithful
    <3>4. \A h \in Handlers : Pending(h, s)' <=> Pending(h, s)
      BY <1>3 DEF Pending
    <3>5. \/ mirror'[s] = row'[s]
          \/ mirror'[s] # Fresh /\ \E x \in sending' : x.id = s /\ x.pc = "mirror"
      BY <1>2, <1>3, <1>6, <3>1 DEF Faithful, Unseen
    <3>6. \A h \in Handlers : Pending(h, s)'
             => /\ handler'[h].doc = row'[s] /\ mirror'[s] = Fresh
                /\ \A g \in Handlers : Pending(g, s)' => g = h
      BY <1>3, <3>1, <3>4 DEF Faithful
    <3>7. \A f \in Batch' : f.id = s => f.doc = row'[s]
      BY <1>2, <1>3, <3>1 DEF Faithful
    <3>. QED
      BY <3>3, <3>5, <3>6, <3>7 DEF Faithful
  <2>. QED
    BY <1>3, <2>1, <2>2 DEF Copied
<1>. QED
  BY <1>1, <1>5, <1>6

\* A delivery that is under way for a stored document is alone with it.
LEMMA Delivered ==
    ASSUME TypeOK, OnceInv, CopyInv, NEW x \in sending
    PROVE  /\ row[x.id] # Fresh
           /\ \A e \in Batch : e.id # x.id
           /\ \A y \in sending : y.id = x.id => y = x
           /\ Held(row[x.id]) => /\ Faithful(x.id) /\ mirror[x.id] # Fresh
                                 /\ \A h \in Handlers : ~Pending(h, x.id)
<1>1. x.id \in Subs
  BY DEF TypeOK
<1>2. ~Unseen(x.id)
  BY DEF Unseen
<1>3. row[x.id] # Fresh
  BY <1>1, <1>2 DEF CopyInv, Copied, Unborn
<1>4. /\ \A e \in Batch : e.id # x.id
      /\ \A y \in sending : y.id = x.id => y = x
  BY DEF OnceInv
<1>5. Held(row[x.id]) => /\ Faithful(x.id) /\ mirror[x.id] # Fresh
                         /\ \A h \in Handlers : ~Pending(h, x.id)
  BY <1>1, <1>2 DEF CopyInv, Copied, Faithful, Held
<1>. QED
  BY <1>3, <1>4, <1>5

\* The booking of a delivery.
LEMMA CopyBook ==
    ASSUME TypeOK, OnceInv, CopyInv, Mirrored, NEW s \in Subs, NEW x \in sending, Book(x)
    PROVE  Copied(s)'
<1>. DEFINE b == [id |-> x.id, pc |-> "mirror", doc |-> Stamp(row[x.id])]
<1>1. /\ x.id \in Subs /\ UNCHANGED <<mirror, sweep, handler>>
      /\ \/ /\ Held(row[x.id]) /\ row' = [row EXCEPT ![x.id] = Stamp(row[x.id])]
            /\ sending' = (sending \ {x}) \cup {b}
         \/ /\ ~Held(row[x.id]) /\ UNCHANGED row /\ sending' = sending \ {x}
  BY DEF Book, TypeOK
<1>2. b.id = x.id /\ b.pc = "mirror" /\ b.doc = Stamp(row[x.id])
  OBVIOUS
<1>. HIDE DEF b
<1>3. Batch' = Batch /\ \A h \in Handlers : Pending(h, s)' <=> Pending(h, s)
  BY <1>1 DEF Batch, Pending
<1>4. CASE s # x.id
  <2>1. row'[s] = row[s]
    BY <1>1, <1>4 DEF TypeOK
  <2>2. /\ \A y \in sending' : y.id = s => y \in sending
        /\ \A y \in sending : y.id = s => y \in sending'
    BY <1>1, <1>2, <1>4
  <2>3. (Unborn(s) => Unborn(s)') /\ (Faithful(s) => Faithful(s)')
    BY <1>1, <1>3, <2>1, <2>2, CopyKept
  <2>. QED
    BY <2>1, <2>3 DEF Copied, CopyInv
<1>5. CASE s = x.id /\ ~Held(row[s])
  BY <1>1, <1>5, Delivered DEF Copied
<1>6. CASE s = x.id /\ Held(row[s])
  <2>1. /\ row'[s] = Stamp(row[s]) /\ sending' = (sending \ {x}) \cup {b}
    BY <1>1, <1>6 DEF TypeOK
  <2>2. Held(row'[s])
    <3>1. row[s] \in Docs
      BY <1>6, DocsAreHeld DEF TypeOK
    <3>. QED
      BY <2>1, <3>1, StampType, DocsAreHeld
  <2>3. /\ \A e \in Batch' : e.id # s
        /\ \A h \in Handlers : ~Pending(h, s)'
        /\ mirror'[s] # Fresh
    BY <1>1, <1>3, <1>6, Delivered
  <2>4. \A y \in sending' : y.id = s => y = b
    BY <1>6, <2>1, Delivered
  <2>5. b \in sending' /\ b.id = s /\ b.pc = "mirror" /\ b.doc = row'[s]
    BY <1>2, <1>6, <2>1
  <2>6. Faithful(s)'
    BY <2>3, <2>4, <2>5 DEF Faithful
  <2>. QED
    BY <2>2, <2>6, DocsAreHeld DEF Copied
<1>. QED
  BY <1>4, <1>5, <1>6

\* Its signal to the mirror.
LEMMA CopyBookkeeping ==
    ASSUME TypeOK, OnceInv, CopyInv, Mirrored, NEW s \in Subs,
           NEW x \in sending, MirrorBookkeeping(x)
    PROVE  Copied(s)'
<1>1. /\ x.id \in Subs /\ x.pc = "mirror" /\ UNCHANGED <<row, sweep, handler>>
      /\ mirror' = [mirror EXCEPT ![x.id] = x.doc] /\ sending' = sending \ {x}
  BY DEF MirrorBookkeeping, Sync, TypeOK
<1>2. Batch' = Batch /\ \A h \in Handlers : Pending(h, s)' <=> Pending(h, s)
  BY <1>1 DEF Batch, Pending
<1>3. CASE s # x.id
  <2>1. mirror'[s] = mirror[s]
    BY <1>1, <1>3 DEF TypeOK
  <2>2. (Unborn(s) => Unborn(s)') /\ (Faithful(s) => Faithful(s)')
    BY <1>1, <1>2, <1>3, <2>1, CopyKept
  <2>. QED
    BY <1>1, <2>2 DEF Copied, CopyInv
<1>4. CASE s = x.id
  <2>1. row[s] # Fresh
    BY <1>4, Delivered
  <2>2. ASSUME Held(row[s])
        PROVE  Faithful(s)'
    <3>1. /\ x.doc = row[s] /\ \A e \in Batch : e.id # s
          /\ \A h \in Handlers : ~Pending(h, s)
      BY <1>1, <1>4, <2>2, Delivered DEF Faithful
    <3>2. \A y \in sending' : y.id # s
      BY <1>1, <1>4, Delivered
    <3>3. mirror'[s] = row'[s]
      BY <1>1, <1>4, <3>1 DEF TypeOK
    <3>. QED
      BY <1>2, <3>1, <3>2, <3>3 DEF Faithful
  <2>. QED
    BY <1>1, <2>1, <2>2 DEF Copied
<1>. QED
  BY <1>3, <1>4

\* What a copy says of its document survives every step.
LEMMA CopyStep ==
    ASSUME TypeOK, TickInv, OnceInv, CopyInv, Mirrored, "update" \notin Ops, [Next]_vars
    PROVE  CopyInv'
<1>1. \A h \in Handlers, s \in Subs, a \in BOOLEAN : ~Update(h, s, a)
  BY DEF Update, Begin
<1>2. /\ \A h \in Handlers : ~UpdateGet(h)
      /\ \A s \in Subs : ~CsourceInitial(s)
  BY DEF UpdateGet, CsourceInitial, CopyInv
<1>3. initial' = {} /\ \A h \in Handlers : handler'[h].pc # "get"
  <2>1. CASE UNCHANGED <<initial, handler>>
    BY <2>1 DEF CopyInv
  <2>2. ASSUME NEW h \in Handlers, NEW s \in Subs, Create(h, s) \/ Delete(h, s)
        PROVE  initial' = {} /\ \A g \in Handlers : handler'[g].pc # "get"
    BY <2>2 DEF Create, Delete, CopyInv, TypeOK
  <2>3. ASSUME NEW h \in Handlers, SyncMirror(h)
        PROVE  initial' = {} /\ \A g \in Handlers : handler'[g].pc # "get"
    BY <2>3, FreeIsFree DEF SyncMirror, CopyInv, TypeOK
  <2>. QED
    BY <1>1, <1>2, <2>1, <2>2, <2>3
       DEF Next, vars, Tick, SweepBegin, SweepListTenants, SweepVisit, SweepCheck, Book,
           MirrorBookkeeping, SweepFinish
<1>4. ASSUME NEW s \in Subs
      PROVE  Copied(s)'
  <2>1. ASSUME UNCHANGED <<row, mirror, handler, sending>>,
               Batch' \subseteq Batch, sending # {} => sweep'.ms = sweep.ms
        PROVE  Copied(s)'
    BY <2>1, CopyIdle DEF Copied, CopyInv
  <2>2. CASE Tick \/ UNCHANGED vars
    BY <2>1, <2>2 DEF Tick, vars, Batch
  <2>3. CASE SweepBegin \/ SweepFinish
    <3>1. sending = {} /\ Batch' = {} /\ UNCHANGED <<row, mirror, handler, sending>>
      BY <2>3 DEF SweepBegin, SweepFinish, TickInv, Batch, Idle
    <3>. QED
      BY <2>1, <3>1
  <2>4. CASE SweepListTenants
    <3>1. sweep # Idle /\ UNCHANGED <<row, mirror, handler, sending>>
          /\ sweep'.batch = sweep.batch /\ sweep'.ms = sweep.ms
      BY <2>4, IdleHasNoStep DEF SweepListTenants
    <3>2. Batch' \subseteq Batch
      BY <3>1 DEF Batch
    <3>. QED
      BY <2>1, <3>1, <3>2
  <2>5. CASE \E t \in Tenants : SweepVisit(t)
    BY <2>5, CopyVisit
  <2>6. ASSUME sweep # Idle, NEW e \in sweep.batch, NEW m \in BOOLEAN, SweepCheck(e, m)
        PROVE  Copied(s)'
    BY <2>6, CopyCheck
  <2>7. ASSUME NEW h \in Handlers, NEW r \in Subs, Create(h, r) \/ Delete(h, r)
        PROVE  Copied(s)'
    BY <2>7, CopyRequest
  <2>8. ASSUME NEW h \in Handlers, SyncMirror(h)
        PROVE  Copied(s)'
    BY <2>8, CopySync
  <2>9. ASSUME NEW x \in sending, Book(x) \/ MirrorBookkeeping(x)
        PROVE  Copied(s)'
    BY <2>9, CopyBook, CopyBookkeeping
  <2>. QED
    BY <1>1, <1>2, <2>2, <2>3, <2>4, <2>5, <2>6, <2>7, <2>8, <2>9 DEF Next
<1>. QED
  BY <1>3, <1>4 DEF CopyInv

\* A booking finds its document due.
LEMMA BookedWhenDue ==
    ASSUME TypeOK, TickInv, FireInv, "update" \notin Ops, [Next]_vars, NEW s \in Subs,
           Held(row[s]), Held(row'[s]), row'[s].sent > row[s].sent
    PROVE  now >= due_at_ms(row[s])
<1>1. row[s] \in Docs
  BY DocsAreHeld DEF TypeOK
<1>2. row[s].sent \in Int /\ due_at_ms(row[s]) \in Int /\ now \in Int
  BY <1>1, Numbers DEF Docs, due_at_ms, TypeOK
<1>3. row'[s] # row[s]
  BY <1>2
<1>4. \A h \in Handlers, r \in Subs : ~Create(h, r) \/ r # s
  BY DEF Create, Held
<1>5. \A h \in Handlers, r \in Subs : ~Delete(h, r) \/ r # s
  BY DEF Delete, Held, TypeOK
<1>6. /\ \A h \in Handlers, r \in Subs, a \in BOOLEAN : ~Update(h, r, a)
      /\ \A r \in Subs : ~CsourceInitial(r)
  BY DEF Update, Begin, CsourceInitial, FireInv, CopyInv
<1>7. \E x \in sending : Book(x)
  BY <1>3, <1>4, <1>5, <1>6
     DEF Next, vars, Tick, Create, Delete, UpdateGet, SyncMirror, SweepBegin, SweepListTenants,
         SweepVisit, SweepCheck, MirrorBookkeeping, SweepFinish, TypeOK
<1>8. PICK x \in sending : Book(x)
  BY <1>7
<1>9. x.id = s /\ x.pc = "book"
  BY <1>3, <1>8 DEF Book, TypeOK
<1>10. due_at_ms(row[s]) <= sweep.ms
  BY <1>9, Delivered DEF FireInv, Faithful
<1>11. sweep.ms <= now /\ sweep.ms \in Int
  <2>1. sweep # Idle
    BY DEF TickInv
  <2>2. sweep.ms \in Times
    BY <2>1, RunningParts
  <2>. QED
    BY <2>1, <2>2, Numbers DEF TickInv
<1>. QED
  BY <1>2, <1>10, <1>11

\* A periodic subscription fires at most once in its interval, in the
\* Subscription half of interval_tick, while clients create and delete.  An
\* update of the subscription may put a document older than the last booking
\* back into the mirror, and the next tick then fires early.
THEOREM FiresOncePerPeriod ==
    ASSUME Mirrored, "update" \notin Ops
    PROVE  Spec => OncePerPeriod
<1>. DEFINE I == TypeOK /\ TickInv /\ FireInv
<1>1. Init => I
  <2>. SUFFICES ASSUME Init PROVE I
    OBVIOUS
  <2>1. TypeOK
    BY Numbers, DocsAreHeld DEF Init, TypeOK
  <2>2. TickInv /\ OnceInv
    BY DocsAreHeld DEF Init, TickInv, OnceInv, Todo, Batch
  <2>3. initial = {} /\ \A h \in Handlers : handler[h].pc # "get" /\ handler[h] = Free
    BY FreeIsFree DEF Init
  <2>4. \A s \in Subs : Unborn(s) /\ ~Held(row[s])
    BY <2>3, DocsAreHeld DEF Init, Unborn, Unseen, Pending, Batch
  <2>. QED
    BY <2>1, <2>2, <2>3, <2>4 DEF FireInv, CopyInv, Copied
<1>2. I /\ [Next]_vars => I'
  BY TypeStep, TickStep, OnceStep, CopyStep DEF FireInv
<1>3. I /\ [Next]_vars
      => [\A s \in Subs :
            Held(row[s]) /\ Held(row'[s]) /\ row'[s].sent > row[s].sent
               => now >= due_at_ms(row[s])]_vars
  BY BookedWhenDue
<1>. QED
  BY <1>1, <1>2, <1>3, PTL DEF Spec, OncePerPeriod

-----------------------------------------------------------------------------
\* Every reachable state has its types, in both halves.
THEOREM TypeCorrect == Spec => []TypeOK
<1>1. Init => TypeOK
  BY Numbers, DocsAreHeld DEF Init, TypeOK
<1>2. TypeOK /\ [Next]_vars => TypeOK'
  BY TypeStep
<1>. QED
  BY <1>1, <1>2, PTL DEF Spec

-----------------------------------------------------------------------------
(* The claims of several matcher pods on one firing (IntervalClaim), for   *)
(* every set of pods, over variables of their own.                         *)

CONSTANTS Pods, MaxFails
VARIABLES time, anchor, mirrored, firing, last, unspent, fails

Claims == INSTANCE IntervalClaim

\* The firings of a pod.
Firings ==
    {Claims!Idle} \cup [pc : {"claim"}]
      \cup [pc : {"query", "release", "send", "mirror"}, prev : Nat, at : Nat]

HasClaimed(p) == firing[p].pc \in Claims!Claimed

\* A pod that has claimed and not sent stands for the row's anchor, and still
\* knows what it overwrote: the last notification, unless a claim was left
\* behind before.
ClaimStands(p) ==
    firing[p].pc \in {"query", "release", "send"} =>
        /\ anchor = firing[p].at
        /\ last <= firing[p].prev /\ firing[p].prev + Interval <= firing[p].at
        /\ unspent \/ firing[p].prev = last

ClaimInv ==
    /\ {time, anchor, last} \subseteq Nat /\ unspent \in BOOLEAN
    /\ firing \in [Pods -> Firings]
    /\ last <= anchor /\ anchor <= time
    /\ \A p \in Pods : HasClaimed(p) =>
          firing[p].at <= anchor /\ time < Claims!due_at(firing[p].at)
    /\ \A p \in Pods : ClaimStands(p)
    /\ \A p \in Pods : firing[p].pc = "mirror" => anchor = last
    /\ \A p, q \in Pods : HasClaimed(p) /\ HasClaimed(q) => p = q
    /\ Claims!Truthful

\* A claimed firing carries what it overwrote and when.
LEMMA ClaimedFiring ==
    ASSUME ClaimInv, NEW p \in Pods, HasClaimed(p)
    PROVE  firing[p] \in [pc : {"query", "release", "send", "mirror"}, prev : Nat, at : Nat]
BY DEF ClaimInv, HasClaimed, Firings, Claims!Idle, Claims!Claimed

\* While a pod has claimed, the row is due for nobody.
LEMMA NobodyElse ==
    ASSUME ClaimInv, NEW p \in Pods, HasClaimed(p)
    PROVE  ~Claims!StillDue
BY ClaimedFiring, Numbers DEF ClaimInv, Claims!StillDue, Claims!due_at

\* A step of one pod leaves the others' firings alone.
LEMMA OnePodMoves ==
    ASSUME ClaimInv, NEW p \in Pods, NEW s \in Firings, Claims!Step(p, s)
    PROVE  /\ firing' \in [Pods -> Firings] /\ firing'[p] = s
           /\ \A q \in Pods \ {p} : firing'[q] = firing[q]
BY DEF ClaimInv, Claims!Step

\* Who takes no claim has taken none away from the others.
LEMMA ClaimsLeftAlone ==
    ASSUME ClaimInv, NEW p \in Pods, NEW s \in Firings, Claims!Step(p, s),
           s.pc \notin Claims!Claimed, UNCHANGED <<time, anchor, last>>, unspent' \in BOOLEAN,
           unspent => unspent', HasClaimed(p) => unspent' \/ anchor = last
    PROVE  ClaimInv'
<1>1. /\ firing' \in [Pods -> Firings] /\ firing'[p] = s
      /\ \A q \in Pods \ {p} : firing'[q] = firing[q]
  BY OnePodMoves
<1>2. \A q \in Pods : HasClaimed(q)' => q # p /\ HasClaimed(q) /\ firing'[q] = firing[q]
  BY <1>1 DEF HasClaimed
<1>3. \A q \in Pods : ClaimStands(q)'
  BY <1>1, <1>2 DEF ClaimInv, ClaimStands, HasClaimed, Claims!Claimed
<1>4. Claims!Truthful'
  BY <1>1, <1>2 DEF ClaimInv, Claims!Truthful, HasClaimed
<1>5. \A q \in Pods : firing'[q].pc = "mirror" => anchor' = last'
  BY <1>1 DEF ClaimInv, Claims!Claimed
<1>. QED
  BY <1>1, <1>2, <1>3, <1>4, <1>5 DEF ClaimInv, HasClaimed, Claims!due_at

\* Every step of a pod keeps the invariant, and sends a whole interval after
\* the last notification.
LEMMA PodStep ==
    ASSUME ClaimInv, NEW p \in Pods,
           \/ Claims!Look(p) \/ Claims!claim_interval(p) \/ Claims!Query(p)
           \/ Claims!release_interval(p) \/ Claims!Deliver(p) \/ Claims!MirrorBookkeeping(p)
           \/ Claims!Replicated(p) \/ Claims!Crash(p)
    PROVE  ClaimInv' /\ Claims!OnePodPerPeriod
<1>. DEFINE f == firing[p]
<1>1. Claims!Idle \in Firings /\ Claims!Idle.pc = "idle" /\ f \in Firings
  BY DEF ClaimInv, Firings, Claims!Idle
<1>2. CASE Claims!Look(p)
  <2>1. [pc |-> "claim"] \in Firings
    BY DEF Firings
  <2>2. ~HasClaimed(p)
    BY <1>1, <1>2 DEF Claims!Look, HasClaimed, Claims!Claimed
  <2>. QED
    BY <1>2, <2>1, <2>2, ClaimsLeftAlone
       DEF Claims!Look, Claims!Claimed, Claims!OnePodPerPeriod, ClaimInv
<1>3. CASE Claims!claim_interval(p) /\ ~Claims!StillDue
  <2>1. ~HasClaimed(p)
    BY <1>3 DEF Claims!claim_interval, HasClaimed, Claims!Claimed
  <2>. QED
    BY <1>1, <1>3, <2>1, ClaimsLeftAlone
       DEF Claims!claim_interval, Claims!Claimed, Claims!OnePodPerPeriod, ClaimInv
<1>4. CASE Claims!claim_interval(p) /\ Claims!StillDue
  <2>. DEFINE s == [pc |-> "query", prev |-> anchor, at |-> time]
  <2>1. s \in Firings /\ Claims!Step(p, s) /\ UNCHANGED <<time, last, unspent>> /\ anchor' = time
    BY <1>4 DEF ClaimInv, Firings, Claims!claim_interval
  <2>2. /\ firing' \in [Pods -> Firings] /\ firing'[p] = s
        /\ \A q \in Pods \ {p} : firing'[q] = firing[q]
    BY <2>1, OnePodMoves
  <2>3. \A q \in Pods : ~HasClaimed(q)
    BY <1>4, NobodyElse
  <2>4. unspent \/ anchor = last
    BY <2>3 DEF ClaimInv, Claims!Truthful, HasClaimed
  <2>5. \A q \in Pods : HasClaimed(q)' => q = p
    BY <2>2, <2>3 DEF HasClaimed
  <2>6. HasClaimed(p)'
    BY <2>2 DEF HasClaimed, Claims!Claimed
  <2>7. time \in Nat /\ anchor \in Nat /\ last \in Nat /\ anchor + Interval <= time
    BY <1>4 DEF ClaimInv, Claims!StillDue, Claims!due_at
  <2>8. \A q \in Pods : ClaimStands(q)'
    BY <2>1, <2>2, <2>3, <2>4, <2>7 DEF ClaimStands, HasClaimed, Claims!Claimed, ClaimInv
  <2>9. Claims!Truthful'
    BY <2>6 DEF Claims!Truthful, HasClaimed
  <2>10. \A q \in Pods : firing'[q].pc # "mirror"
    BY <2>2, <2>3 DEF HasClaimed, Claims!Claimed
  <2>11. time < time + Interval
    BY <2>7, Numbers
  <2>. QED
    BY <2>1, <2>2, <2>5, <2>7, <2>8, <2>9, <2>10, <2>11, Numbers
       DEF ClaimInv, HasClaimed, Claims!due_at, Claims!OnePodPerPeriod
<1>5. CASE Claims!Query(p)
  <2>1. PICK to \in {"send", "release"} : Claims!Step(p, [f EXCEPT !.pc = to])
    BY <1>5 DEF Claims!Query, Claims!At
  <2>2. HasClaimed(p) /\ UNCHANGED <<time, anchor, last, unspent>> /\ f.pc = "query"
    BY <1>5 DEF Claims!Query, HasClaimed, Claims!Claimed
  <2>3. [f EXCEPT !.pc = to] = [pc |-> to, prev |-> f.prev, at |-> f.at] /\ f.prev \in Nat /\ f.at \in Nat
    BY <2>2, ClaimedFiring
  <2>. DEFINE s == [pc |-> to, prev |-> f.prev, at |-> f.at]
  <2>4. s \in Firings
    BY <2>3 DEF Firings
  <2>5. /\ firing' \in [Pods -> Firings] /\ firing'[p] = s
        /\ \A q \in Pods \ {p} : firing'[q] = firing[q]
    BY <2>1, <2>3, <2>4, OnePodMoves
  <2>6. \A q \in Pods : HasClaimed(q)' <=> HasClaimed(q)
    BY <2>2, <2>5 DEF HasClaimed, Claims!Claimed
  <2>7. ClaimStands(p)' /\ \A q \in Pods \ {p} : ClaimStands(q)'
    BY <2>2, <2>5 DEF ClaimInv, ClaimStands
  <2>8. Claims!Truthful'
    BY <2>2, <2>6 DEF Claims!Truthful, HasClaimed
  <2>9. \A q \in Pods : firing'[q].pc = "mirror" => anchor = last
    BY <2>5 DEF ClaimInv
  <2>10. \A q \in Pods : firing'[q].pc \in Claims!Claimed => firing'[q].at = firing[q].at
    BY <2>5
  <2>. QED
    BY <2>2, <2>5, <2>6, <2>7, <2>8, <2>9, <2>10 DEF ClaimInv, HasClaimed, Claims!due_at, Claims!OnePodPerPeriod
<1>6. CASE Claims!release_interval(p)
  <2>1. HasClaimed(p) /\ f.pc = "release" /\ UNCHANGED <<time, last>> /\ Claims!Step(p, Claims!Idle)
    BY <1>6 DEF Claims!release_interval, HasClaimed, Claims!Claimed
  <2>2. CASE anchor' = f.prev /\ UNCHANGED unspent
    <3>1. /\ firing' \in [Pods -> Firings] /\ firing'[p] = Claims!Idle
          /\ \A q \in Pods \ {p} : firing'[q] = firing[q]
      BY <1>1, <2>1, OnePodMoves
    <3>2. \A q \in Pods : ~HasClaimed(q)'
      BY <1>1, <2>1, <3>1 DEF ClaimInv, HasClaimed, Claims!Claimed
    <3>3. f.prev \in Nat /\ f.at \in Nat /\ last <= f.prev /\ f.prev + Interval <= f.at /\ f.at = anchor
      BY <2>1, ClaimedFiring DEF ClaimInv, ClaimStands
    <3>4. unspent \/ f.prev = last
      BY <2>1 DEF ClaimInv, ClaimStands
    <3>5. \A q \in Pods : ClaimStands(q)' /\ firing'[q].pc # "mirror"
      BY <3>2 DEF ClaimStands, HasClaimed, Claims!Claimed
    <3>. QED
      BY <2>1, <2>2, <3>1, <3>2, <3>3, <3>4, <3>5, Numbers
         DEF ClaimInv, Claims!Truthful, Claims!OnePodPerPeriod
  <2>3. CASE unspent' = TRUE /\ UNCHANGED anchor
    BY <1>1, <2>1, <2>3, ClaimsLeftAlone DEF Claims!Claimed, Claims!OnePodPerPeriod, ClaimInv
  <2>. QED
    BY <1>6, <2>2, <2>3 DEF Claims!release_interval, Claims!Released
<1>7. CASE Claims!Deliver(p)
  <2>1. HasClaimed(p) /\ f.pc = "send" /\ UNCHANGED time
    BY <1>7 DEF Claims!Deliver, HasClaimed, Claims!Claimed
  <2>2. CASE /\ anchor' = time /\ last' = time /\ unspent' = FALSE
             /\ Claims!Step(p, [f EXCEPT !.pc = "mirror"])
    <3>1. [f EXCEPT !.pc = "mirror"] = [pc |-> "mirror", prev |-> f.prev, at |-> f.at]
          /\ f.prev \in Nat /\ f.at \in Nat
      BY <2>1, ClaimedFiring
    <3>. DEFINE s == [pc |-> "mirror", prev |-> f.prev, at |-> f.at]
    <3>2. s \in Firings
      BY <3>1 DEF Firings
    <3>3. /\ firing' \in [Pods -> Firings] /\ firing'[p] = s
          /\ \A q \in Pods \ {p} : firing'[q] = firing[q]
      BY <2>2, <3>1, <3>2, OnePodMoves
    <3>4. \A q \in Pods : HasClaimed(q)' <=> q = p
      BY <2>1, <3>3 DEF ClaimInv, HasClaimed, Claims!Claimed
    <3>5. /\ last <= f.prev /\ f.prev + Interval <= f.at /\ f.at <= anchor
          /\ time < f.at + Interval
      BY <2>1 DEF ClaimInv, ClaimStands, Claims!due_at
    <3>6. \A q \in Pods : ClaimStands(q)'
      BY <3>3, <3>4 DEF ClaimStands, HasClaimed, Claims!Claimed
    <3>7. time \in Nat /\ anchor \in Nat /\ last \in Nat /\ anchor <= time
      BY DEF ClaimInv
    <3>8. last + Interval <= time /\ f.at <= time
      <4>. DEFINE a == f.at
                  b == f.prev
      <4>1. a \in Nat /\ b \in Nat /\ last <= b /\ b + Interval <= a /\ a <= anchor
        BY <3>1, <3>5
      <4>2. Interval \in Nat
        BY Numbers
      <4>. HIDE DEF a, b
      <4>3. last + Interval <= time /\ a <= time
        BY <4>1, <4>2, <3>7
      <4>. QED
        BY <4>3 DEF a
    <3>9. Claims!Truthful'
      BY <2>2 DEF Claims!Truthful
    <3>10. \A q \in Pods : HasClaimed(q)' =>
              firing'[q].at <= anchor' /\ time' < Claims!due_at(firing'[q].at)
      <4>1. firing'[p].at = f.at /\ anchor' = time /\ time' = time
        BY <2>1, <2>2, <3>3
      <4>2. firing'[p].at <= anchor' /\ time' < Claims!due_at(firing'[p].at)
        BY <3>5, <3>8, <4>1 DEF Claims!due_at
      <4>. QED
        BY <3>4, <4>2
    <3>11. last' <= anchor' /\ anchor' <= time' /\ {time', anchor', last'} \subseteq Nat
      BY <2>1, <2>2, <3>7
    <3>12. \A q, r \in Pods : HasClaimed(q)' /\ HasClaimed(r)' => q = r
      BY <3>4
    <3>13. ClaimInv'
      BY <2>2, <3>3, <3>6, <3>9, <3>10, <3>11, <3>12 DEF ClaimInv, Claims!due_at
    <3>. QED
      BY <3>8, <3>13 DEF Claims!OnePodPerPeriod, Claims!due_at
  <2>3. CASE unspent' = TRUE /\ Claims!Step(p, Claims!Idle) /\ UNCHANGED <<anchor, last>>
    BY <1>1, <2>1, <2>3, ClaimsLeftAlone DEF Claims!Claimed, Claims!OnePodPerPeriod, ClaimInv
  <2>. QED
    BY <1>7, <2>2, <2>3 DEF Claims!Deliver, Claims!At
<1>8. CASE Claims!MirrorBookkeeping(p)
  <2>1. anchor = last
    BY <1>8 DEF Claims!MirrorBookkeeping, ClaimInv
  <2>. QED
    BY <1>1, <1>8, <2>1, ClaimsLeftAlone
       DEF Claims!MirrorBookkeeping, Claims!Claimed, Claims!OnePodPerPeriod, ClaimInv
<1>9. CASE Claims!Replicated(p)
  BY <1>9 DEF Claims!Replicated, ClaimInv, ClaimStands, HasClaimed, Claims!Truthful,
              Claims!due_at, Claims!OnePodPerPeriod
<1>10. CASE Claims!Crash(p)
  <2>1. f.pc = "mirror" => anchor = last
    BY DEF ClaimInv
  <2>2. HasClaimed(p) => unspent' \/ anchor = last
    BY <1>10, <2>1 DEF Claims!Crash, HasClaimed, Claims!Claimed
  <2>3. unspent' \in BOOLEAN /\ (unspent => unspent')
    BY <1>10 DEF Claims!Crash, ClaimInv
  <2>. QED
    BY <1>1, <1>10, <2>2, <2>3, ClaimsLeftAlone DEF Claims!Crash, Claims!Claimed, Claims!OnePodPerPeriod
<1>. QED
  BY <1>2, <1>3, <1>4, <1>5, <1>6, <1>7, <1>8, <1>9, <1>10

\* The clock keeps it, too: a firing settles within an interval of its claim.
LEMMA ClaimsInTime ==
    ASSUME ClaimInv, Claims!Tick
    PROVE  ClaimInv' /\ Claims!OnePodPerPeriod
<1>1. /\ time' = time + 1 /\ UNCHANGED <<anchor, firing, last, unspent>>
      /\ \A p \in Pods : HasClaimed(p) => time' < Claims!due_at(firing[p].at)
  BY DEF Claims!Tick, HasClaimed
<1>2. /\ \A p \in Pods : ClaimStands(p)' /\ (HasClaimed(p)' <=> HasClaimed(p))
      /\ Claims!Truthful'
  BY <1>1 DEF ClaimInv, ClaimStands, HasClaimed, Claims!Truthful
<1>. QED
  BY <1>1, <1>2 DEF ClaimInv, HasClaimed, Claims!due_at, Claims!OnePodPerPeriod

\* "N matcher pods race, exactly one wins" (notify.rs, claim_interval): two
\* notifications of a periodic subscription are a whole interval apart, and
\* lastNotification tells when one was sent (release_interval), for any number
\* of pods, whatever their mirrors say and wherever they stop.
THEOREM ClaimsAreKept == Claims!Spec => Claims!ClaimsKept
<1>1. Claims!Init => ClaimInv
  <2>. SUFFICES ASSUME Claims!Init PROVE ClaimInv
    OBVIOUS
  <2>1. \A p \in Pods : firing[p] = Claims!Idle /\ firing[p].pc = "idle"
    BY DEF Claims!Init, Claims!Idle
  <2>2. firing \in [Pods -> Firings]
    BY DEF Claims!Init, Firings
  <2>3. \A p \in Pods : ~HasClaimed(p) /\ ClaimStands(p) /\ firing[p].pc # "mirror"
    BY <2>1 DEF HasClaimed, ClaimStands, Claims!Claimed
  <2>4. {time, anchor, last} \subseteq Nat /\ last <= anchor /\ anchor <= time
    BY DEF Claims!Init
  <2>5. unspent \in BOOLEAN /\ Claims!Truthful
    BY Zenon DEF Claims!Init, Claims!Truthful
  <2>. QED
    BY <2>2, <2>3, <2>4, <2>5 DEF ClaimInv
<1>2. ClaimInv /\ [Claims!Next]_Claims!vars
        => ClaimInv' /\ [Claims!OnePodPerPeriod /\ Claims!Truthful']_Claims!vars
  <2>. SUFFICES ASSUME ClaimInv, [Claims!Next]_Claims!vars
                PROVE  ClaimInv' /\ [Claims!OnePodPerPeriod /\ Claims!Truthful']_Claims!vars
    OBVIOUS
  <2>1. CASE UNCHANGED Claims!vars
    BY <2>1 DEF Claims!vars, ClaimInv, ClaimStands, HasClaimed, Claims!Truthful, Claims!due_at
  <2>2. CASE Claims!Next
    <3>1. ClaimInv' /\ Claims!OnePodPerPeriod
      BY <2>2, PodStep, ClaimsInTime DEF Claims!Next
    <3>. QED
      BY <3>1 DEF ClaimInv
  <2>. QED
    BY <2>1, <2>2
<1>. QED
  BY <1>1, <1>2, PTL DEF Claims!Spec, Claims!ClaimsKept

-----------------------------------------------------------------------------
(* The maps that the sweep reaps and pages are read through (EntityMaps),  *)
(* for every set of entities, maps, requests and limits, over variables of *)
(* their own.                                                              *)

CONSTANTS Order, Remote, MapIds, NoMap, NoAsk, Stored, Readers, Forms, MapCap, MaxLife, MaxLimit,
          ChunkMin, MaxNow, MaxEdits, MaxAsks
VARIABLES fits, maps, asks, reaped, when, born, missed, asked

Maps == INSTANCE EntityMaps WITH
    Ids <- MapIds, Gone <- NoMap, Idle <- NoAsk, Handlers <- Readers, Cap <- MapCap,
    hs <- asks, swept <- reaped, clock <- when, spent <- asked

MapDocs == [ids : SUBSET Maps!Ents, backed : SUBSET Maps!Ents, exp : Int]

\* The requests there are.
Builds == [kind : {"create", "retrieve"}, only : SUBSET Maps!Ents, life : Int]
Pages == [kind : {"page"}, id : MapIds, offset : Nat, limit : Nat, count : BOOLEAN,
          only : SUBSET Maps!Ents, named : SUBSET Maps!Ents, life : Int]
Changes == [kind : {"update"}, id : MapIds, exp : Int] \cup [kind : {"delete"}, id : MapIds]

\* The maps a broker finds in its store name what a source listed and live no
\* longer than a new one would; a map that is gone is told from one that is not.
MapsGiven ==
    /\ MaxLife \in Nat /\ MaxNow \in Nat /\ NoMap \notin MapDocs
    /\ \A h \in Readers : Forms[h] \subseteq Builds \cup Pages \cup Changes
    /\ Stored \subseteq [MapIds -> MapDocs \cup {NoMap}]
    /\ \A m \in Stored : \A id \in MapIds : m[id] # NoMap =>
          m[id].exp <= MaxLife /\ m[id].ids \cap Remote \subseteq m[id].backed

\* What is still left of the map with this id, by what it was built with, b, and
\* by who may have failed a query since, f.
Remains(id, d, b, f) ==
    /\ d \in MapDocs /\ b[id] # NoMap /\ d.backed = b[id].backed
    /\ d.ids \subseteq b[id].ids /\ d.ids \cap Remote \subseteq d.backed
    /\ (b[id].ids \ d.ids) \cap b[id].backed = {}
    /\ b[id].ids \ d.ids \subseteq f[id]
InTime(d, t) == d.exp <= t + MaxLife

\* A request holds a map's remains from its build or its opening until it has
\* written them; a page has let everything out of its filter fail.
Bounded == {"list", "evict", "mutate", "create"}
Holding == Bounded \cup {"get", "chunk"}
Naming == {"open", "again", "drop"}
Honest(a, b, f, t) ==
    /\ {"pc", "form"} \subseteq DOMAIN a
    /\ a.pc \in Holding \cup Naming \cup {"build", "fetch"}
    /\ a.form \in Builds \cup Pages \cup Changes
    /\ "id" \in DOMAIN a => a.id \in MapIds
    /\ a.pc = "build" => a.form \in Builds \cup Pages
    /\ a.pc \in Naming => a.form \in Pages \cup Changes
    /\ a.pc \in Holding => {"id", "doc", "victim"} \subseteq DOMAIN a /\ Remains(a.id, a.doc, b, f)
    /\ a.pc \in Bounded => InTime(a.doc, t)
    /\ a.pc = "chunk" => a.form \in Pages /\ Maps!Ents \ a.form.only \subseteq f[a.id]

MapTyped ==
    /\ fits \subseteq Maps!Ents /\ when \in 0..MaxNow /\ reaped \subseteq MapIds
    /\ maps \in [MapIds -> MapDocs \cup {NoMap}] /\ born \in [MapIds -> MapDocs \cup {NoMap}]
    /\ missed \in [MapIds -> SUBSET Maps!Ents] /\ DOMAIN asks = Readers
MapInv ==
    /\ MapTyped
    /\ \A id \in MapIds : maps[id] # NoMap =>
          Remains(id, maps[id], born, missed) /\ InTime(maps[id], when)
    /\ \A id \in MapIds : born[id] # NoMap => Maps!Ents \ fits \subseteq missed[id]
    /\ \A h \in Readers : asks[h] # NoAsk => Honest(asks[h], born, missed, when)

\* What was built stays built, and a failure stays one.
Grown(b, f, c, g) == \A id \in MapIds : b[id] # NoMap => c[id] = b[id] /\ f[id] \subseteq g[id]

LEMMA RemainsGrown ==
    ASSUME NEW b, NEW f, NEW c, NEW g, Grown(b, f, c, g), NEW id \in MapIds, NEW d,
           Remains(id, d, b, f)
    PROVE  Remains(id, d, c, g)
BY DEF Remains, Grown

LEMMA HonestGrown ==
    ASSUME MapsGiven, NEW b, NEW f, NEW c, NEW g, Grown(b, f, c, g), NEW t \in Int, NEW u \in Int,
           t <= u, NEW a, Honest(a, b, f, t)
    PROVE  Honest(a, c, g, u)
<1>1. a.pc \in Holding => a.id \in MapIds /\ Remains(a.id, a.doc, b, f)
  BY DEF Honest
<1>2. a.pc \in Holding => Remains(a.id, a.doc, c, g)
  BY <1>1, RemainsGrown
<1>3. a.pc \in Bounded => InTime(a.doc, u)
  <2>. SUFFICES ASSUME a.pc \in Bounded PROVE InTime(a.doc, u)
    OBVIOUS
  <2>1. a.doc \in MapDocs /\ InTime(a.doc, t)
    BY <1>1 DEF Honest, Holding, Remains
  <2>. QED
    BY <2>1 DEF InTime, MapDocs, MapsGiven
<1>4. a.pc = "chunk" => Maps!Ents \ a.form.only \subseteq g[a.id]
  BY <1>1 DEF Honest, Grown, Remains, Holding
<1>. QED
  BY <1>2, <1>3, <1>4 DEF Honest

\* A step keeps the invariant when it leaves a map or a request alone, ends it
\* or leaves it what it may be.
LEMMA MapStepKeeps ==
    ASSUME MapsGiven, MapInv, MapTyped', Grown(born, missed, born', missed'), when <= when',
           \A id \in MapIds : born'[id] # NoMap => Maps!Ents \ fits' \subseteq missed'[id],
           \A id \in MapIds : maps'[id] \in {maps[id], NoMap}
              \/ (Remains(id, maps'[id], born', missed') /\ InTime(maps'[id], when')),
           \A h \in Readers : asks'[h] \in {asks[h], NoAsk} \/ Honest(asks'[h], born', missed', when')
    PROVE  MapInv'
<1>1. when \in Int /\ when' \in Int
  BY DEF MapInv, MapTyped, MapsGiven
<1>2. ASSUME NEW id \in MapIds, maps'[id] # NoMap
      PROVE  Remains(id, maps'[id], born', missed') /\ InTime(maps'[id], when')
  <2>1. CASE maps'[id] = maps[id]
    <3>1. Remains(id, maps[id], born, missed) /\ InTime(maps[id], when)
      BY <1>2, <2>1 DEF MapInv
    <3>2. InTime(maps[id], when')
      BY <1>1, <3>1 DEF InTime, Remains, MapDocs, MapsGiven
    <3>. QED
      BY <2>1, <3>1, <3>2, RemainsGrown
  <2>. QED
    BY <1>2, <2>1
<1>3. ASSUME NEW h \in Readers, asks'[h] # NoAsk
      PROVE  Honest(asks'[h], born', missed', when')
  <2>1. CASE asks'[h] = asks[h]
    <3>1. Honest(asks[h], born, missed, when)
      BY <1>3, <2>1 DEF MapInv
    <3>. QED
      BY <1>1, <2>1, <3>1, HonestGrown
  <2>. QED
    BY <1>3, <2>1
<1>. QED
  BY <1>2, <1>3 DEF MapInv

\* The same, of a step of one request that changes no entity and no history.
LEMMA AskMoves ==
    ASSUME MapsGiven, MapInv, NEW h \in Readers, UNCHANGED <<fits, reaped, when, born, missed>>,
           DOMAIN asks' = Readers, \A g \in Readers \ {h} : asks'[g] = asks[g],
           asks'[h] = NoAsk \/ Honest(asks'[h], born, missed, when),
           maps' \in [MapIds -> MapDocs \cup {NoMap}],
           \A id \in MapIds : maps'[id] \in {maps[id], NoMap}
              \/ (Remains(id, maps'[id], born, missed) /\ InTime(maps'[id], when))
    PROVE  MapInv'
<1>1. MapTyped'
  BY DEF MapInv, MapTyped
<1>2. Grown(born, missed, born', missed')
  BY DEF Grown
<1>3. when <= when'
  BY DEF MapInv, MapTyped, MapsGiven
<1>4. \A id \in MapIds : born'[id] # NoMap => Maps!Ents \ fits' \subseteq missed'[id]
  BY DEF MapInv
<1>5. \A id \in MapIds : maps'[id] \in {maps[id], NoMap}
         \/ (Remains(id, maps'[id], born', missed') /\ InTime(maps'[id], when'))
  OBVIOUS
<1>6. \A g \in Readers : asks'[g] \in {asks[g], NoAsk} \/ Honest(asks'[g], born', missed', when')
  OBVIOUS
<1>. QED
  BY <1>1, <1>2, <1>3, <1>4, <1>5, <1>6, MapStepKeeps

\* A request that goes on with what it holds.
LEMMA GoesOn ==
    ASSUME MapsGiven, NEW b, NEW f, NEW t, NEW a, Honest(a, b, f, t),
           NEW p \in (Bounded \cup Naming \cup {"build", "fetch"}),
           p \in Bounded => a.pc \in Bounded,
           p = "build" => a.form \in Builds \cup Pages,
           p \in Naming => a.form \in Pages \cup Changes
    PROVE  Honest([a EXCEPT !.pc = p], b, f, t)
<1>. DEFINE r == [a EXCEPT !.pc = p]
<1>1. DOMAIN r = DOMAIN a /\ r.pc = p /\ \A x \in DOMAIN a \ {"pc"} : r[x] = a[x]
  BY DEF Honest
<1>2. "form" \in DOMAIN a /\ r.form = a.form
  BY <1>1 DEF Honest
<1>3. "id" \in DOMAIN r => r.id = a.id /\ r.id \in MapIds
  BY <1>1 DEF Honest
<1>4. p \in Bounded => /\ {"id", "doc", "victim"} \subseteq DOMAIN r
                       /\ Remains(r.id, r.doc, b, f) /\ InTime(r.doc, t)
  <2>. SUFFICES ASSUME p \in Bounded
                PROVE  /\ {"id", "doc", "victim"} \subseteq DOMAIN r
                       /\ Remains(r.id, r.doc, b, f) /\ InTime(r.doc, t)
    OBVIOUS
  <2>1. {"id", "doc", "victim"} \subseteq DOMAIN a /\ Remains(a.id, a.doc, b, f) /\ InTime(a.doc, t)
    BY DEF Honest, Holding
  <2>2. r.id = a.id /\ r.doc = a.doc
    BY <1>1, <2>1
  <2>. QED
    BY <1>1, <2>1, <2>2
<1>5. p \notin {"get", "chunk"}
  BY DEF Bounded, Naming
<1>6. {"pc", "form"} \subseteq DOMAIN r
  BY <1>1 DEF Honest
<1>. HIDE DEF r
<1>7. Honest(r, b, f, t)
  BY <1>1, <1>2, <1>3, <1>4, <1>5, <1>6 DEF Honest, Holding
<1>. QED
  BY <1>7 DEF r

\* A step that sends a request on, or ends it, and may take a map away.
LEMMA GoingKeeps ==
    ASSUME MapsGiven, MapInv, NEW h \in Readers, asks[h] # NoAsk,
           UNCHANGED <<fits, reaped, when, born, missed>>,
           \/ Maps!End(h)
           \/ \E p \in Bounded \cup Naming \cup {"build", "fetch"} :
                 /\ Maps!Go(h, p)
                 /\ p \in Bounded => asks[h].pc \in Bounded
                 /\ p = "build" => asks[h].form \in Builds \cup Pages
                 /\ p \in Naming => asks[h].form \in Pages \cup Changes,
           maps' \in [MapIds -> MapDocs \cup {NoMap}],
           \A id \in MapIds : maps'[id] \in {maps[id], NoMap}
              \/ (Remains(id, maps'[id], born, missed) /\ InTime(maps'[id], when))
    PROVE  MapInv'
<1>1. DOMAIN asks = Readers /\ Honest(asks[h], born, missed, when)
  BY DEF MapInv, MapTyped
<1>2. DOMAIN asks' = Readers /\ \A g \in Readers \ {h} : asks'[g] = asks[g]
  BY <1>1 DEF Maps!End, Maps!Go
<1>3. asks'[h] = NoAsk \/ Honest(asks'[h], born, missed, when)
  <2>1. CASE Maps!End(h)
    BY <1>1, <2>1 DEF Maps!End
  <2>2. CASE ~Maps!End(h)
    <3>1. PICK p \in Bounded \cup Naming \cup {"build", "fetch"} :
             /\ Maps!Go(h, p)
             /\ p \in Bounded => asks[h].pc \in Bounded
             /\ p = "build" => asks[h].form \in Builds \cup Pages
             /\ p \in Naming => asks[h].form \in Pages \cup Changes
      BY <2>2
    <3>2. asks'[h] = [asks[h] EXCEPT !.pc = p]
      BY <1>1, <3>1 DEF Maps!Go
    <3>3. Honest([asks[h] EXCEPT !.pc = p], born, missed, when)
      BY <1>1, <3>1, GoesOn
    <3>. QED
      BY <3>2, <3>3
  <2>. QED
    BY <2>1, <2>2
<1>. QED
  BY <1>2, <1>3, AskMoves

\* What a request holds may be written.
LEMMA Writable ==
    ASSUME MapsGiven, MapInv, NEW h \in Readers, asks[h] # NoAsk, asks[h].pc \in Bounded
    PROVE  /\ asks[h].id \in MapIds /\ asks[h].doc \in MapDocs
           /\ Remains(asks[h].id, asks[h].doc, born, missed) /\ InTime(asks[h].doc, when)
BY DEF MapInv, Honest, Holding, Remains

\* The steps of a put between its ceiling and its write.
LEMMA PutStages ==
    /\ {"mutate", "create"} \subseteq Bounded
    /\ {"mutate", "create"} \cap (Naming \cup {"build"}) = {}
BY DEF Bounded, Naming

LEMMA MapAskStep ==
    ASSUME MapsGiven, MapInv, NEW h \in Readers, NEW f \in Forms[h], Maps!Ask(h, f)
    PROVE  MapInv'
<1>1. f \in Builds \cup Pages \cup Changes
  BY DEF MapsGiven
<1>2. DOMAIN asks = Readers /\ maps \in [MapIds -> MapDocs \cup {NoMap}]
  BY DEF MapInv, MapTyped
<1>3. asks'[h] = [pc |-> IF f.kind \in {"create", "retrieve"} THEN "build" ELSE "open", form |-> f]
  BY <1>2 DEF Maps!Ask
<1>4. f.kind \in {"create", "retrieve"} => f \in Builds
  BY <1>1 DEF Builds, Pages, Changes
<1>5. f.kind \notin {"create", "retrieve"} => f \in Pages \cup Changes
  BY <1>1 DEF Builds, Pages, Changes
<1>6. Honest(asks'[h], born, missed, when)
  BY <1>1, <1>3, <1>4, <1>5 DEF Honest, Holding, Bounded, Naming
<1>7. DOMAIN asks' = Readers /\ \A g \in Readers \ {h} : asks'[g] = asks[g]
  BY <1>2 DEF Maps!Ask
<1>8. UNCHANGED <<fits, maps, reaped, when, born, missed>>
  BY DEF Maps!Ask
<1>. QED
  BY <1>2, <1>6, <1>7, <1>8, AskMoves

LEMMA PutGetStep ==
    ASSUME MapsGiven, MapInv, NEW h \in Readers, Maps!PutGet(h)
    PROVE  MapInv'
<1>. DEFINE a == asks[h]
            e == Maps!Capped(a.doc.exp)
            p == IF maps[a.id] # NoMap THEN "mutate" ELSE "list"
<1>1. /\ DOMAIN asks = Readers /\ maps \in [MapIds -> MapDocs \cup {NoMap}]
      /\ when \in Int /\ MaxLife \in Int
  BY DEF MapInv, MapTyped, MapsGiven
<1>2. Honest(a, born, missed, when) /\ a.pc = "get"
  BY DEF MapInv, Maps!PutGet
<1>3. /\ {"pc", "form", "id", "doc", "victim"} \subseteq DOMAIN a /\ a.id \in MapIds
      /\ a.form \in Builds \cup Pages \cup Changes
      /\ Remains(a.id, a.doc, born, missed) /\ a.doc \in MapDocs
  BY <1>2 DEF Honest, Holding, Remains
<1>4. asks'[h] = [a EXCEPT !.doc.exp = e, !.pc = p]
  BY <1>1 DEF Maps!PutGet
<1>5. asks'[h].doc = [a.doc EXCEPT !.exp = e] /\ asks'[h].pc = p /\ asks'[h].id = a.id
      /\ asks'[h].form = a.form /\ DOMAIN asks'[h] = DOMAIN a
  BY <1>3, <1>4
<1>6. e \in Int /\ e <= when + MaxLife
  BY <1>1, <1>3 DEF Maps!Capped, Maps!Least, MapDocs
<1>7. [a.doc EXCEPT !.exp = e] \in MapDocs /\ [a.doc EXCEPT !.exp = e].exp = e
      /\ [a.doc EXCEPT !.exp = e].ids = a.doc.ids /\ [a.doc EXCEPT !.exp = e].backed = a.doc.backed
  BY <1>3, <1>6 DEF MapDocs
<1>8. Remains(a.id, asks'[h].doc, born, missed) /\ InTime(asks'[h].doc, when)
  BY <1>3, <1>5, <1>6, <1>7 DEF Remains, InTime
<1>9. Honest(asks'[h], born, missed, when)
  BY <1>3, <1>5, <1>8 DEF Honest, Holding, Bounded, Naming
<1>10. DOMAIN asks' = Readers /\ \A g \in Readers \ {h} : asks'[g] = asks[g]
  BY <1>1 DEF Maps!PutGet
<1>11. UNCHANGED <<fits, maps, reaped, when, born, missed>>
  BY DEF Maps!PutGet
<1>. QED
  BY <1>1, <1>9, <1>10, <1>11, AskMoves

LEMMA PutListStep ==
    ASSUME MapsGiven, MapInv, NEW h \in Readers, Maps!PutList(h)
    PROVE  MapInv'
<1>. DEFINE a == asks[h]
<1>1. DOMAIN asks = Readers /\ maps \in [MapIds -> MapDocs \cup {NoMap}]
  BY DEF MapInv, MapTyped
<1>2. a # NoAsk /\ Honest(a, born, missed, when) /\ a.pc = "list" /\ a.pc \in Bounded
  BY DEF MapInv, Maps!PutList, Bounded
<1>3. UNCHANGED <<fits, maps, reaped, when, born, missed>>
  BY DEF Maps!PutList
<1>4. CASE Maps!Go(h, "mutate")
  BY <1>1, <1>2, <1>3, <1>4, PutStages, GoingKeeps
<1>5. CASE ~Maps!Go(h, "mutate")
  <2>1. PICK v \in MapIds : asks' = [asks EXCEPT ![h].pc = "evict", ![h].victim = v]
    BY <1>5 DEF Maps!PutList
  <2>2. /\ {"pc", "form", "id", "doc", "victim"} \subseteq DOMAIN a /\ a.id \in MapIds
        /\ a.form \in Builds \cup Pages \cup Changes
        /\ Remains(a.id, a.doc, born, missed) /\ InTime(a.doc, when)
    BY <1>2 DEF Honest, Holding
  <2>3. asks'[h] = [a EXCEPT !.pc = "evict", !.victim = v]
    BY <1>1, <2>1
  <2>4. asks'[h].pc = "evict" /\ asks'[h].id = a.id /\ asks'[h].doc = a.doc
        /\ asks'[h].form = a.form /\ DOMAIN asks'[h] = DOMAIN a
    BY <2>2, <2>3
  <2>5. Honest(asks'[h], born, missed, when)
    BY <2>2, <2>4 DEF Honest, Holding, Bounded, Naming
  <2>6. DOMAIN asks' = Readers /\ \A g \in Readers \ {h} : asks'[g] = asks[g]
    BY <1>1, <2>1
  <2>. QED
    BY <1>1, <1>3, <2>5, <2>6, AskMoves
<1>. QED
  BY <1>4, <1>5

LEMMA PutEvictStep ==
    ASSUME MapsGiven, MapInv, NEW h \in Readers, Maps!PutEvict(h)
    PROVE  MapInv'
<1>1. asks[h] # NoAsk /\ asks[h].pc \in Bounded /\ Maps!Go(h, "mutate")
  BY DEF Maps!PutEvict, Bounded
<1>2. UNCHANGED <<fits, reaped, when, born, missed>>
  BY DEF Maps!PutEvict
<1>3. maps \in [MapIds -> MapDocs \cup {NoMap}]
  BY DEF MapInv, MapTyped
<1>4. maps' = [maps EXCEPT ![asks[h].victim] = NoMap]
  BY DEF Maps!PutEvict
<1>5. maps' \in [MapIds -> MapDocs \cup {NoMap}] /\ \A id \in MapIds : maps'[id] \in {maps[id], NoMap}
  BY <1>3, <1>4
<1>. QED
  BY <1>1, <1>2, <1>5, PutStages, GoingKeeps

\* After a put the request fetches its page or is over.
LEMMA AfterPutGoes ==
    ASSUME NEW h \in Readers, Maps!AfterPut(h)
    PROVE  Maps!End(h) \/ Maps!Go(h, "fetch")
BY DEF Maps!AfterPut

LEMMA PutMutateStep ==
    ASSUME MapsGiven, MapInv, NEW h \in Readers, Maps!PutMutate(h)
    PROVE  MapInv'
<1>. DEFINE a == asks[h]
<1>1. a # NoAsk /\ a.pc \in Bounded
  BY DEF Maps!PutMutate, Bounded
<1>2. UNCHANGED <<fits, reaped, when, born, missed>>
  BY DEF Maps!PutMutate
<1>3. maps \in [MapIds -> MapDocs \cup {NoMap}]
  BY DEF MapInv, MapTyped
<1>4. CASE maps[a.id] # NoMap
  <2>1. maps' = [maps EXCEPT ![a.id] = a.doc] /\ (Maps!End(h) \/ Maps!Go(h, "fetch"))
    BY <1>4, AfterPutGoes DEF Maps!PutMutate
  <2>2. a.id \in MapIds /\ a.doc \in MapDocs
        /\ Remains(a.id, a.doc, born, missed) /\ InTime(a.doc, when)
    BY <1>1, Writable
  <2>3. maps' \in [MapIds -> MapDocs \cup {NoMap}]
    BY <1>3, <2>1, <2>2
  <2>4. \A id \in MapIds : maps'[id] = maps[id]
           \/ (Remains(id, maps'[id], born, missed) /\ InTime(maps'[id], when))
    BY <1>3, <2>1, <2>2
  <2>5. "fetch" \notin Bounded \cup Naming \cup {"build"}
    BY DEF Bounded, Naming
  <2>. QED
    BY <1>1, <1>2, <2>1, <2>3, <2>4, <2>5, GoingKeeps
<1>5. CASE maps[a.id] = NoMap
  <2>1. UNCHANGED maps /\ Maps!Go(h, "create")
    BY <1>5 DEF Maps!PutMutate
  <2>. QED
    BY <1>1, <1>2, <1>3, <2>1, PutStages, GoingKeeps
<1>. QED
  BY <1>4, <1>5

LEMMA PutCreateStep ==
    ASSUME MapsGiven, MapInv, NEW h \in Readers, Maps!PutCreate(h)
    PROVE  MapInv'
<1>. DEFINE a == asks[h]
<1>1. a # NoAsk /\ a.pc \in Bounded /\ (Maps!End(h) \/ Maps!Go(h, "fetch"))
  BY AfterPutGoes DEF Maps!PutCreate, Bounded
<1>2. UNCHANGED <<fits, reaped, when, born, missed>>
  BY DEF Maps!PutCreate
<1>3. maps \in [MapIds -> MapDocs \cup {NoMap}]
  BY DEF MapInv, MapTyped
<1>4. maps' = [maps EXCEPT ![a.id] = IF maps[a.id] = NoMap THEN a.doc ELSE maps[a.id]]
  BY DEF Maps!PutCreate
<1>5. a.id \in MapIds /\ a.doc \in MapDocs
      /\ Remains(a.id, a.doc, born, missed) /\ InTime(a.doc, when)
  BY <1>1, Writable
<1>6. maps' \in [MapIds -> MapDocs \cup {NoMap}]
  BY <1>3, <1>4, <1>5
<1>7. \A id \in MapIds : maps'[id] = maps[id]
         \/ (Remains(id, maps'[id], born, missed) /\ InTime(maps'[id], when))
  BY <1>3, <1>4, <1>5
<1>8. "fetch" \notin Bounded \cup Naming \cup {"build"}
  BY DEF Bounded, Naming
<1>. QED
  BY <1>1, <1>2, <1>6, <1>7, <1>8, GoingKeeps

\* What a build may list: entities, and of a source's only those it listed.
LEMMA CandidatesListed ==
    ASSUME MapsGiven, fits \subseteq Maps!Ents, NEW f \in Builds \cup Pages, NEW answered \in BOOLEAN
    PROVE  LET c == Maps!Candidates(f, answered)
           IN /\ c.ids \subseteq Maps!Ents /\ c.backed \subseteq Maps!Ents
              /\ c.ids \cap Remote \subseteq c.backed
<1>1. f.only \subseteq Maps!Ents
  BY DEF Builds, Pages
<1>2. Maps!Matching(f) \subseteq Maps!Ents
  BY <1>1 DEF Maps!Matching
<1>3. Maps!First(MaxLimit, Maps!Matching(f) \ Remote) \subseteq Maps!Matching(f) \ Remote
  BY DEF Maps!First
<1>. QED
  BY <1>1, <1>2, <1>3 DEF Maps!Candidates

LEMMA BuildStep ==
    ASSUME MapsGiven, MapInv, NEW h \in Readers, Maps!Build(h)
    PROVE  MapInv'
<1>. DEFINE a == asks[h]
            f == a.form
<1>1. /\ DOMAIN asks = Readers /\ maps \in [MapIds -> MapDocs \cup {NoMap}]
      /\ born \in [MapIds -> MapDocs \cup {NoMap}] /\ missed \in [MapIds -> SUBSET Maps!Ents]
      /\ fits \subseteq Maps!Ents /\ when \in Int
  BY DEF MapInv, MapTyped, MapsGiven
<1>2. f \in Builds \cup Pages /\ f.life \in Int
  <2>1. Honest(a, born, missed, when) /\ a.pc = "build"
    BY DEF MapInv, Maps!Build
  <2>. QED
    BY <2>1 DEF Honest, Builds, Pages
<1>3. PICK id \in MapIds, answered \in BOOLEAN :
         LET c == Maps!Candidates(f, answered)
             doc == [ids |-> c.ids, backed |-> c.backed, exp |-> Maps!expires_at(f.life)]
         IN /\ born[id] = NoMap
            /\ born' = [born EXCEPT ![id] = doc]
            /\ missed' = [missed EXCEPT ![id] = Maps!Ents \ fits]
            /\ asks' = [asks EXCEPT ![h] = Maps!Putting(f, id, doc)]
  BY DEF Maps!Build
<1>. DEFINE c == Maps!Candidates(f, answered)
            doc == [ids |-> c.ids, backed |-> c.backed, exp |-> Maps!expires_at(f.life)]
<1>4. c.ids \subseteq Maps!Ents /\ c.backed \subseteq Maps!Ents /\ c.ids \cap Remote \subseteq c.backed
  BY <1>1, <1>2, CandidatesListed
<1>5. Maps!expires_at(f.life) \in Int
  BY <1>1, <1>2 DEF Maps!expires_at, Maps!Least, MapsGiven
<1>. HIDE DEF c
<1>6. doc \in MapDocs /\ doc # NoMap
  BY <1>4, <1>5 DEF MapDocs, MapsGiven
<1>7. UNCHANGED <<fits, maps, reaped, when>>
  BY DEF Maps!Build
<1>8. born[id] = NoMap /\ born' = [born EXCEPT ![id] = doc]
      /\ missed' = [missed EXCEPT ![id] = Maps!Ents \ fits]
      /\ asks' = [asks EXCEPT ![h] = Maps!Putting(f, id, doc)]
  BY <1>3 DEF c
<1>9. Remains(id, doc, born', missed')
  BY <1>1, <1>4, <1>6, <1>8 DEF Remains
<1>10. asks'[h] = [pc |-> "get", form |-> f, id |-> id, doc |-> doc, victim |-> id]
  BY <1>1, <1>8 DEF Maps!Putting
<1>. HIDE DEF doc
<1>11. Honest(asks'[h], born', missed', when')
  BY <1>2, <1>9, <1>10 DEF Honest, Holding, Bounded, Naming
<1>12. MapTyped'
  <2>1. born' \in [MapIds -> MapDocs \cup {NoMap}] /\ missed' \in [MapIds -> SUBSET Maps!Ents]
    BY <1>1, <1>6, <1>8
  <2>2. DOMAIN asks' = Readers
    BY <1>1, <1>8
  <2>. QED
    BY <1>7, <2>1, <2>2 DEF MapInv, MapTyped
<1>13. Grown(born, missed, born', missed')
  BY <1>1, <1>8 DEF Grown
<1>14. \A i \in MapIds : born'[i] # NoMap => Maps!Ents \ fits' \subseteq missed'[i]
  BY <1>1, <1>7, <1>8 DEF MapInv
<1>15. \A g \in Readers : g # h => asks'[g] = asks[g]
  BY <1>1, <1>8
<1>16. when <= when' /\ \A i \in MapIds : maps'[i] = maps[i]
  BY <1>1, <1>7
<1>17. \A g \in Readers : asks'[g] \in {asks[g], NoAsk} \/ Honest(asks'[g], born', missed', when')
  BY <1>11, <1>15
<1>18. \A i \in MapIds : maps'[i] \in {maps[i], NoMap}
          \/ (Remains(i, maps'[i], born', missed') /\ InTime(maps'[i], when'))
  BY <1>16
<1>. QED
  BY <1>12, <1>13, <1>14, <1>16, <1>17, <1>18, MapStepKeeps

\* A request that names a live map has its id, and what remains of it.
LEMMA LiveMap ==
    ASSUME MapsGiven, MapInv, NEW id \in MapIds, Maps!live(id)
    PROVE  /\ maps[id] \in MapDocs /\ Remains(id, maps[id], born, missed) /\ born[id] # NoMap
BY DEF MapInv, Maps!live, Remains

LEMMA OpenStep ==
    ASSUME MapsGiven, MapInv, NEW h \in Readers, Maps!Open(h)
    PROVE  MapInv'
<1>. DEFINE a == asks[h]
            f == a.form
            m == maps[f.id]
<1>1. /\ DOMAIN asks = Readers /\ maps \in [MapIds -> MapDocs \cup {NoMap}]
      /\ missed \in [MapIds -> SUBSET Maps!Ents] /\ when \in Int
  BY DEF MapInv, MapTyped, MapsGiven
<1>2. a # NoAsk /\ Honest(a, born, missed, when) /\ a.pc = "open"
  BY DEF MapInv, Maps!Open
<1>3. f \in Pages \cup Changes /\ f.id \in MapIds
  BY <1>2 DEF Honest, Naming, Pages, Changes
<1>4. UNCHANGED <<fits, maps, reaped, when, born>>
  BY DEF Maps!Open
<1>5. CASE ~Maps!live(f.id)
  <2>1. UNCHANGED missed /\ (Maps!End(h) \/ (f.kind = "page" /\ Maps!Go(h, "build")))
    BY <1>5 DEF Maps!Open
  <2>2. f.kind = "page" => f \in Pages
    BY <1>3 DEF Pages, Changes
  <2>3. "build" \notin Bounded \cup Naming
    BY DEF Bounded, Naming
  <2>. QED
    BY <1>1, <1>2, <1>4, <2>1, <2>2, <2>3, GoingKeeps
<1>6. CASE Maps!live(f.id) /\ f.kind = "page"
  <2>1. m \in MapDocs /\ Remains(f.id, m, born, missed) /\ born[f.id] # NoMap
    BY <1>3, <1>6, LiveMap
  <2>2. missed' = [missed EXCEPT ![f.id] = @ \cup (Maps!Ents \ f.only)]
    BY <1>6 DEF Maps!Open
  <2>3. asks' = [asks EXCEPT ![h] =
           [pc |-> "chunk", form |-> f, id |-> f.id, doc |-> m, victim |-> f.id,
            cands |-> Maps!Listed(m.ids \cap f.named), visited |-> 0, page |-> <<>>,
            skipped |-> 0, total |-> 0, more |-> FALSE, calm |-> TRUE]]
    BY <1>6 DEF Maps!Open
  <2>4. /\ {"pc", "form", "id", "doc", "victim"} \subseteq DOMAIN asks'[h]
        /\ asks'[h].pc = "chunk" /\ asks'[h].form = f /\ asks'[h].id = f.id /\ asks'[h].doc = m
    BY <1>1, <2>3
  <2>5. Grown(born, missed, born', missed')
    BY <1>1, <1>4, <2>2 DEF Grown
  <2>6. Remains(f.id, m, born', missed')
    BY <1>3, <2>1, <2>5, RemainsGrown
  <2>7. f \in Pages
    BY <1>3, <1>6 DEF Pages, Changes
  <2>8. Maps!Ents \ f.only \subseteq missed'[f.id]
    BY <1>1, <1>3, <2>2
  <2>9. Honest(asks'[h], born', missed', when')
    BY <1>3, <2>4, <2>6, <2>7, <2>8 DEF Honest, Holding, Bounded, Naming
  <2>10. MapTyped'
    <3>1. missed' \in [MapIds -> SUBSET Maps!Ents] /\ DOMAIN asks' = Readers
      BY <1>1, <2>2, <2>3
    <3>. QED
      BY <1>4, <3>1 DEF MapInv, MapTyped
  <2>11. \A i \in MapIds : born'[i] # NoMap => Maps!Ents \ fits' \subseteq missed'[i]
    BY <1>1, <1>4, <2>2 DEF MapInv
  <2>12. \A g \in Readers : g # h => asks'[g] = asks[g]
    BY <1>1, <2>3
  <2>13. \A g \in Readers : asks'[g] \in {asks[g], NoAsk} \/ Honest(asks'[g], born', missed', when')
    BY <2>9, <2>12
  <2>14. when <= when' /\ \A i \in MapIds : maps'[i] \in {maps[i], NoMap}
            \/ (Remains(i, maps'[i], born', missed') /\ InTime(maps'[i], when'))
    BY <1>1, <1>4
  <2>. QED
    BY <2>5, <2>10, <2>11, <2>13, <2>14, MapStepKeeps
<1>7. CASE Maps!live(f.id) /\ f.kind = "update"
  <2>. DEFINE d == [m EXCEPT !.exp = f.exp]
  <2>1. m \in MapDocs /\ Remains(f.id, m, born, missed)
    BY <1>3, <1>7, LiveMap
  <2>2. asks' = [asks EXCEPT ![h] = Maps!Putting(f, f.id, d)] /\ UNCHANGED missed
    BY <1>7 DEF Maps!Open
  <2>3. f.exp \in Int
    BY <1>3, <1>7 DEF Pages, Changes
  <2>4. d \in MapDocs /\ d.ids = m.ids /\ d.backed = m.backed
    BY <2>1, <2>3 DEF MapDocs
  <2>5. Remains(f.id, d, born, missed)
    BY <2>1, <2>4 DEF Remains
  <2>6. asks'[h] = [pc |-> "get", form |-> f, id |-> f.id, doc |-> d, victim |-> f.id]
    BY <1>1, <2>2 DEF Maps!Putting
  <2>. HIDE DEF d
  <2>7. Honest(asks'[h], born, missed, when)
    BY <1>3, <2>5, <2>6 DEF Honest, Holding, Bounded, Naming
  <2>8. DOMAIN asks' = Readers /\ \A g \in Readers \ {h} : asks'[g] = asks[g]
    BY <1>1, <2>2
  <2>. QED
    BY <1>1, <1>4, <2>2, <2>7, <2>8, AskMoves
<1>8. CASE Maps!live(f.id) /\ f.kind = "delete"
  <2>1. Maps!Go(h, "again") /\ UNCHANGED missed
    BY <1>8 DEF Maps!Open
  <2>2. "again" \notin Bounded \cup {"build"} /\ "again" \in Naming
    BY DEF Bounded, Naming
  <2>. QED
    BY <1>1, <1>2, <1>3, <1>4, <2>1, <2>2, GoingKeeps
<1>9. f.kind \in {"page", "update", "delete"}
  BY <1>3 DEF Pages, Changes
<1>. QED
  BY <1>5, <1>6, <1>7, <1>8, <1>9

LEMMA DeleteSteps ==
    ASSUME MapsGiven, MapInv, NEW h \in Readers,
           Maps!DeleteAgain(h) \/ Maps!DeleteDrop(h) \/ Maps!Fetch(h)
    PROVE  MapInv'
<1>1. maps \in [MapIds -> MapDocs \cup {NoMap}] /\ asks[h] # NoAsk
  BY DEF MapInv, MapTyped, Maps!DeleteAgain, Maps!DeleteDrop, Maps!Fetch
<1>2. UNCHANGED <<fits, reaped, when, born, missed>>
  BY DEF Maps!DeleteAgain, Maps!DeleteDrop, Maps!Fetch
<1>3. CASE Maps!DeleteAgain(h)
  <2>1. Honest(asks[h], born, missed, when) /\ asks[h].pc = "again"
    BY <1>1, <1>3 DEF MapInv, Maps!DeleteAgain
  <2>2. asks[h].form \in Pages \cup Changes
    BY <2>1 DEF Honest, Naming
  <2>3. UNCHANGED maps /\ (Maps!End(h) \/ Maps!Go(h, "drop"))
    BY <1>3 DEF Maps!DeleteAgain
  <2>4. "drop" \in Naming /\ "drop" \notin Bounded \cup {"build"}
    BY DEF Bounded, Naming
  <2>. QED
    BY <1>1, <1>2, <2>2, <2>3, <2>4, GoingKeeps
<1>4. CASE Maps!DeleteDrop(h)
  <2>1. maps' = [maps EXCEPT ![asks[h].form.id] = NoMap] /\ Maps!End(h)
    BY <1>4 DEF Maps!DeleteDrop
  <2>2. maps' \in [MapIds -> MapDocs \cup {NoMap}] /\ \A id \in MapIds : maps'[id] \in {maps[id], NoMap}
    BY <1>1, <2>1
  <2>. QED
    BY <1>1, <1>2, <2>1, <2>2, GoingKeeps
<1>5. CASE Maps!Fetch(h)
  <2>1. UNCHANGED maps /\ Maps!End(h)
    BY <1>5 DEF Maps!Fetch
  <2>. QED
    BY <1>1, <1>2, <2>1, GoingKeeps
<1>. QED
  BY <1>3, <1>4, <1>5

\* A chunk prunes what is held here alone and did not fit: that has failed the
\* query, or was out of the page's filter.
LEMMA ChunkStep ==
    ASSUME MapsGiven, MapInv, NEW h \in Readers, Maps!Chunk(h)
    PROVE  MapInv'
<1>. DEFINE a == asks[h]
            f == a.form
<1>1. /\ DOMAIN asks = Readers /\ maps \in [MapIds -> MapDocs \cup {NoMap}]
      /\ born \in [MapIds -> MapDocs \cup {NoMap}] /\ missed \in [MapIds -> SUBSET Maps!Ents]
  BY DEF MapInv, MapTyped
<1>2. Honest(a, born, missed, when) /\ a.pc = "chunk"
  BY DEF MapInv, Maps!Chunk
<1>3. /\ {"pc", "form", "id", "doc", "victim"} \subseteq DOMAIN a /\ a.id \in MapIds
      /\ f \in Pages /\ Maps!Ents \ f.only \subseteq missed[a.id]
      /\ Remains(a.id, a.doc, born, missed) /\ a.doc \in MapDocs
  BY <1>2 DEF Honest, Holding, Remains
<1>. DEFINE size == IF f.limit < ChunkMin THEN ChunkMin ELSE f.limit
            upto == Maps!Least(a.visited + size, Len(a.cands))
            chunk == SubSeq(a.cands, a.visited + 1, upto)
            over(n) == upto = Len(a.cands) \/ (~f.count /\ Len(n.page) = f.limit)
            Matched(answered) ==
               {e \in Maps!ToSet(chunk) \cap Maps!Matching(f) : answered \/ e \notin Remote}
            Calm(answered) == answered \/ Maps!ToSet(chunk) \cap Remote = {}
            Seen(told, matched, calm) ==
               [a EXCEPT !.doc = Maps!Pruned(@, chunk, matched), !.visited = upto,
                         !.total = told.total, !.skipped = told.skipped,
                         !.page = told.page, !.more = told.more, !.calm = @ /\ calm]
            Last(n) == [n EXCEPT !.pc = "get", !.more = Maps!MoreOf(n, f)]
            Then(n) == IF over(n) THEN Last(n) ELSE n
<1>4. PICK answered \in BOOLEAN :
         asks' = [asks EXCEPT ![h] =
            Then(Seen(Maps!Counted(a, chunk, Matched(answered)), Matched(answered), Calm(answered)))]
  BY DEF Maps!Chunk
<1>. DEFINE matched == Matched(answered)
            n == Seen(Maps!Counted(a, chunk, matched), matched, Calm(answered))
            d == Maps!Pruned(a.doc, chunk, matched)
<1>5. d.ids = a.doc.ids \ ((Maps!ToSet(chunk) \ matched) \ a.doc.backed) /\ d.backed = a.doc.backed
      /\ d \in MapDocs
  BY <1>3 DEF Maps!Pruned, MapDocs
<1>6. ASSUME NEW e \in a.doc.ids, e \notin d.ids
      PROVE  e \in missed[a.id]
  <2>1. e \in Maps!ToSet(chunk) /\ e \notin matched /\ e \notin a.doc.backed
    BY <1>5, <1>6
  <2>2. e \in Maps!Ents /\ e \notin Remote
    BY <1>3, <2>1 DEF Remains, MapDocs
  <2>3. e \notin fits \/ e \notin f.only
    BY <2>1, <2>2 DEF Maps!Matching
  <2>4. born[a.id] # NoMap
    BY <1>3 DEF Remains
  <2>5. Maps!Ents \ fits \subseteq missed[a.id]
    BY <1>3, <2>4 DEF MapInv
  <2>. QED
    BY <1>3, <2>2, <2>3, <2>5
<1>. HIDE DEF matched, Calm, chunk, upto, d
<1>7. Remains(a.id, d, born, missed)
  BY <1>1, <1>3, <1>5, <1>6 DEF Remains
<1>8. /\ DOMAIN asks'[h] = DOMAIN a /\ asks'[h].pc \in {"chunk", "get"}
      /\ asks'[h].form = f /\ asks'[h].id = a.id /\ asks'[h].doc = d
  <2>1. asks'[h] = Then(n)
    BY <1>1, <1>4 DEF matched
  <2>2. DOMAIN n = DOMAIN a /\ n.pc = a.pc /\ n.form = f /\ n.id = a.id
    BY <1>3
  <2>3. n.doc = d
    BY <1>3 DEF d
  <2>. HIDE DEF n, over
  <2>4. /\ DOMAIN Last(n) = DOMAIN n /\ Last(n).pc = "get" /\ Last(n).form = n.form
        /\ Last(n).id = n.id /\ Last(n).doc = n.doc
    BY <1>3, <2>2
  <2>. QED
    BY <1>2, <2>1, <2>2, <2>3, <2>4
<1>9. Honest(asks'[h], born, missed, when)
  BY <1>3, <1>7, <1>8 DEF Honest, Holding, Bounded, Naming
<1>10. DOMAIN asks' = Readers /\ \A g \in Readers \ {h} : asks'[g] = asks[g]
  BY <1>1, <1>4
<1>11. UNCHANGED <<fits, maps, reaped, when, born, missed>>
  BY DEF Maps!Chunk
<1>. QED
  BY <1>1, <1>9, <1>10, <1>11, AskMoves

LEMMA ReapingSteps ==
    ASSUME MapsGiven, MapInv,
           Maps!SweepWalk \/ (\E id \in MapIds : Maps!SweepDelete(id)) \/ Maps!Tick
    PROVE  MapInv'
<1>1. /\ maps \in [MapIds -> MapDocs \cup {NoMap}] /\ reaped \subseteq MapIds
      /\ when \in 0..MaxNow /\ MaxNow \in Nat
  BY DEF MapInv, MapTyped, MapsGiven
<1>2. UNCHANGED <<fits, asks, born, missed>>
  BY DEF Maps!SweepWalk, Maps!SweepDelete, Maps!Tick
<1>3. maps' \in [MapIds -> MapDocs \cup {NoMap}] /\ \A id \in MapIds : maps'[id] \in {maps[id], NoMap}
  BY <1>1 DEF Maps!SweepWalk, Maps!SweepDelete, Maps!Tick
<1>4. reaped' \subseteq MapIds
  BY <1>1 DEF Maps!SweepWalk, Maps!SweepDelete, Maps!Tick
<1>5. when' \in 0..MaxNow /\ when <= when'
  BY <1>1 DEF Maps!SweepWalk, Maps!SweepDelete, Maps!Tick
<1>6. MapTyped'
  BY <1>2, <1>3, <1>4, <1>5 DEF MapInv, MapTyped
<1>7. Grown(born, missed, born', missed')
  BY <1>2 DEF Grown
<1>8. \A id \in MapIds : born'[id] # NoMap => Maps!Ents \ fits' \subseteq missed'[id]
  BY <1>2 DEF MapInv
<1>. QED
  BY <1>2, <1>3, <1>5, <1>6, <1>7, <1>8, MapStepKeeps

LEMMA EditStep ==
    ASSUME MapsGiven, MapInv, NEW e \in Maps!Ents, Maps!Edit(e)
    PROVE  MapInv'
<1>1. /\ DOMAIN asks = Readers /\ missed \in [MapIds -> SUBSET Maps!Ents]
      /\ fits \subseteq Maps!Ents /\ when \in Int
  BY DEF MapInv, MapTyped, MapsGiven
<1>2. UNCHANGED <<maps, reaped, when, born>>
  BY DEF Maps!Edit
<1>3. missed' = [id \in MapIds |-> IF born[id] # NoMap /\ e \in fits
                                   THEN missed[id] \cup {e} ELSE missed[id]]
  BY DEF Maps!Edit
<1>4. fits' = IF e \in fits THEN fits \ {e} ELSE fits \cup {e}
  BY DEF Maps!Edit
<1>5. Grown(born, missed, born', missed')
  BY <1>2, <1>3 DEF Grown
<1>6. \A id \in MapIds : born'[id] # NoMap => Maps!Ents \ fits' \subseteq missed'[id]
  BY <1>2, <1>3, <1>4 DEF MapInv
<1>7. DOMAIN asks' = Readers
  BY DEF Maps!Edit, Maps!Disturbed
<1>8. MapTyped'
  <2>1. missed' \in [MapIds -> SUBSET Maps!Ents] /\ fits' \subseteq Maps!Ents
    BY <1>1, <1>3, <1>4
  <2>. QED
    BY <1>2, <1>7, <2>1 DEF MapInv, MapTyped
<1>9. ASSUME NEW h \in Readers
      PROVE  asks'[h] \in {asks[h], NoAsk} \/ Honest(asks'[h], born', missed', when')
  <2>. DEFINE r == [asks[h] EXCEPT !.calm = FALSE]
  <2>1. asks'[h] = asks[h] \/ (asks[h] # NoAsk /\ asks'[h] = r)
    BY DEF Maps!Edit, Maps!Disturbed
  <2>2. CASE asks[h] # NoAsk /\ asks'[h] = r
    <3>1. Honest(asks[h], born', missed', when')
      <4>1. Honest(asks[h], born, missed, when)
        BY <2>2 DEF MapInv
      <4>. QED
        BY <1>1, <1>2, <1>5, <4>1, HonestGrown
    <3>2. DOMAIN r = DOMAIN asks[h] /\ \A x \in DOMAIN asks[h] \ {"calm"} : r[x] = asks[h][x]
      OBVIOUS
    <3>3. /\ {"pc", "form"} \subseteq DOMAIN asks[h] /\ r.pc = asks[h].pc /\ r.form = asks[h].form
          /\ "id" \in DOMAIN asks[h] => r.id = asks[h].id
          /\ "doc" \in DOMAIN asks[h] => r.doc = asks[h].doc
      BY <3>1, <3>2 DEF Honest
    <3>. HIDE DEF r
    <3>4. Honest(r, born', missed', when')
      BY <3>1, <3>2, <3>3 DEF Honest, Holding, Bounded
    <3>. QED
      BY <2>2, <3>4
  <2>. QED
    BY <2>1, <2>2
<1>. QED
  BY <1>1, <1>2, <1>5, <1>6, <1>8, <1>9, MapStepKeeps

LEMMA MapInitial ==
    ASSUME MapsGiven, Maps!Init
    PROVE  MapInv
<1>1. maps \in Stored /\ maps \in [MapIds -> MapDocs \cup {NoMap}] /\ born = maps
  BY DEF Maps!Init, MapsGiven
<1>2. fits \subseteq Maps!Ents /\ when = 0 /\ reaped = {} /\ asks = [h \in Readers |-> NoAsk]
  BY DEF Maps!Init
<1>3. missed = [id \in MapIds |-> IF maps[id] = NoMap THEN {} ELSE Maps!Ents \ fits]
  BY DEF Maps!Init
<1>4. MapTyped
  BY <1>1, <1>2, <1>3 DEF MapTyped, MapsGiven
<1>5. ASSUME NEW id \in MapIds, maps[id] # NoMap
      PROVE  Remains(id, maps[id], born, missed) /\ InTime(maps[id], when)
  <2>1. maps[id] \in MapDocs /\ maps[id].exp <= MaxLife /\ maps[id].ids \cap Remote \subseteq maps[id].backed
    BY <1>1, <1>5 DEF MapsGiven
  <2>. QED
    BY <1>1, <1>2, <1>5, <2>1 DEF Remains, InTime, MapDocs, MapsGiven
<1>6. \A id \in MapIds : born[id] # NoMap => Maps!Ents \ fits \subseteq missed[id]
  BY <1>1, <1>3
<1>7. \A h \in Readers : asks[h] = NoAsk
  BY <1>2
<1>. QED
  BY <1>4, <1>5, <1>6, <1>7 DEF MapInv

LEMMA MapSteps ==
    ASSUME MapsGiven, MapInv, [Maps!Next]_Maps!vars
    PROVE  MapInv'
<1>1. CASE UNCHANGED Maps!vars
  BY <1>1 DEF Maps!vars, MapInv, MapTyped
<1>2. ASSUME NEW h \in Readers, NEW f \in Forms[h], Maps!Ask(h, f)
      PROVE  MapInv'
  BY <1>2, MapAskStep
<1>3. ASSUME NEW h \in Readers, Maps!Build(h) \/ Maps!Open(h) \/ Maps!Chunk(h)
      PROVE  MapInv'
  BY <1>3, BuildStep, OpenStep, ChunkStep
<1>4. ASSUME NEW h \in Readers,
             Maps!PutGet(h) \/ Maps!PutList(h) \/ Maps!PutEvict(h) \/ Maps!PutMutate(h)
               \/ Maps!PutCreate(h)
      PROVE  MapInv'
  BY <1>4, PutGetStep, PutListStep, PutEvictStep, PutMutateStep, PutCreateStep
<1>5. ASSUME NEW h \in Readers, Maps!DeleteAgain(h) \/ Maps!DeleteDrop(h) \/ Maps!Fetch(h)
      PROVE  MapInv'
  BY <1>5, DeleteSteps
<1>6. CASE Maps!SweepWalk \/ (\E id \in MapIds : Maps!SweepDelete(id)) \/ Maps!Tick
  BY <1>6, ReapingSteps
<1>7. ASSUME NEW e \in Maps!Ents, Maps!Edit(e)
      PROVE  MapInv'
  BY <1>7, EditStep
<1>. QED
  BY <1>1, <1>2, <1>3, <1>4, <1>5, <1>6, <1>7 DEF Maps!Next

\* 5.5.9.3, "the set of Entities considered for the result is fixed with the
\* initial query": whatever requests read, prune, update, evict and delete maps
\* (map_put, query_entities_outer, map_delete), whenever the sweep reaps them
\* and whatever entities and sources do, no map gains a candidate, one is
\* missing only if it was held here alone and failed a query since, and no map
\* outlives the broker's ceiling.
THEOREM MapsKeepCandidates == MapsGiven /\ Maps!Spec => []Maps!MapsKept
<1>. SUFFICES ASSUME MapsGiven PROVE Maps!Spec => []Maps!MapsKept
  OBVIOUS
<1>1. Maps!Init => MapInv
  BY MapInitial
<1>2. MapInv /\ [Maps!Next]_Maps!vars => MapInv'
  BY MapSteps
<1>3. MapInv => Maps!MapsKept
  BY DEF MapInv, Remains, InTime, Maps!MapsKept
<1>. QED
  BY <1>1, <1>2, <1>3, PTL DEF Maps!Spec

\* Maps, requests and the sweep stay well formed, and a stored map has always
\* been built (map_put, map_get).
THEOREM MapsTyped == MapsGiven /\ Maps!Spec => []Maps!TypeOK
<1>. SUFFICES ASSUME MapsGiven PROVE Maps!Spec => []Maps!TypeOK
  OBVIOUS
<1>1. Maps!Init => MapInv
  BY MapInitial
<1>2. MapInv /\ [Maps!Next]_Maps!vars => MapInv'
  BY MapSteps
<1>3. MapInv => Maps!TypeOK
  <2>. SUFFICES ASSUME MapInv PROVE Maps!TypeOK
    OBVIOUS
  <2>1. \A id \in MapIds : maps[id] # NoMap =>
           born[id] # NoMap /\ maps[id].backed = born[id].backed /\ maps[id].ids \subseteq Maps!Ents
    BY DEF MapInv, Remains, MapDocs
  <2>2. \A h \in Readers : asks[h] # NoAsk /\ "id" \in DOMAIN asks[h] => asks[h].id \in MapIds
    BY DEF MapInv, Honest
  <2>. QED
    BY <2>1, <2>2 DEF MapInv, MapTyped, Maps!TypeOK
<1>. QED
  BY <1>1, <1>2, <1>3, PTL DEF Maps!Spec
=============================================================================
