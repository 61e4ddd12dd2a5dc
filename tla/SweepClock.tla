----------------------------- MODULE SweepClock -----------------------------
(***************************************************************************)
(* The interval sweep of one broker process on bus=local: interval_tick,   *)
(* the sweep clock it keeps in the SubMirror, the deliveries it spawns and *)
(* the Subscription handlers that write behind its back                    *)
(* (antares-api: notify.rs, mirror.rs, subscriptions.rs).                  *)
(*                                                                         *)
(* One module serves both halves of the sweep.  Mirrored = TRUE is the     *)
(* Subscription half (documents from the mirror, no backstop); Mirrored =  *)
(* FALSE is the Context Source Registration Subscription half (documents   *)
(* from the store, the clock capped by CSUB_SWEEP_BACKSTOP_MS).            *)
(*                                                                         *)
(* Every endpoint is healthy here: the early returns of deliver_as         *)
(* (cooldown, breaker, policy) are the business of Delivery and Breaker.   *)
(***************************************************************************)
EXTENDS Integers, FiniteSets, FiniteSetsExt

CONSTANTS
    Subs,        \* periodic subscriptions; ids are broker-generated, never reused
    Tenants,
    TenantOf,    \* TenantOf[s]: the tenant that owns s
    Handlers,    \* concurrently running client requests
    Ops,         \* the requests clients issue: "create", "update", "delete"
    Mirrored,    \* which half of the sweep
    Interval,    \* timeInterval
    Backstop,    \* CSUB_SWEEP_BACKSTOP_MS
    MaxTime,     \* bound on the clock
    MaxOps       \* bound on client requests

ASSUME SweepAssumption ==
    /\ IsFiniteSet(Subs) /\ TenantOf \in [Subs -> Tenants]
    /\ Ops \subseteq {"create", "update", "delete"}
    /\ Mirrored \in BOOLEAN
    /\ {Interval, Backstop, MaxTime, MaxOps} \subseteq Nat \ {0}

VARIABLES
    now,       \* epoch millis
    row,       \* row[s]: the stored document
    mirror,    \* mirror[s]: the SubMirror's copy
    clock,     \* next_sub_sweep_ms / next_csub_sweep_ms
    sweep,     \* the running interval_tick: pc and locals
    sending,   \* deliveries the tick has spawned and not joined
    handler,   \* handler[h]: a client request between its store write and its sync
    initial,   \* csource_initial tasks still to run
    ops

vars == <<now, row, mirror, clock, sweep, sending, handler, initial, ops>>

\* i64::MAX: later than every instant of a behaviour.
Never == MaxTime + Interval + Backstop + 1

Fresh == [absent |-> "never created"]
Gone  == [absent |-> "deleted"]
Times == 0..MaxTime

\* anchor is lastNotification, or createdAt while nothing was sent.
Docs == [anchor: Times, modified: Times, active: BOOLEAN, sent: Nat]
Rows == Docs \cup {Fresh, Gone}

Held(r) == r \notin {Fresh, Gone}

\* Mutant: the sum wraps instead of saturating.
due_at_ms_wraps(d) == d.anchor + Interval - Never
due_at_ms(d) == d.anchor + Interval

Idle == [pc |-> "idle"]
\* interval_tick's locals: now_ms, the clock it loaded, the minimum it
\* accumulates, the tenants it has yet to visit and the documents in hand.
Running == [pc: {"list", "scan"}, ms: Times, loaded: 0..Never, next: 0..Never,
            todo: SUBSET Tenants, batch: SUBSET [id: Subs, doc: Docs]]
Free == [pc |-> "free"]

TypeOK ==
    /\ now \in Times
    /\ row \in [Subs -> Rows]
    /\ mirror \in [Subs -> Rows]
    /\ clock \in 0..Never
    /\ sweep \in {Idle} \cup Running
    /\ sending \subseteq [id: Subs, pc: {"book", "mirror"}, doc: Rows]
    /\ handler \in [Handlers -> {Free} \cup [pc: {"get", "sync"}, id: Subs, doc: Rows]]
    /\ initial \subseteq Subs
    /\ ops \in 0..MaxOps

Init ==
    /\ now = 0
    /\ row = [s \in Subs |-> Fresh]
    /\ mirror = [s \in Subs |-> Fresh]
    /\ clock = 0
    /\ sweep = Idle
    /\ sending = {}
    /\ handler = [h \in Handlers |-> Free]
    /\ initial = {}
    /\ ops = 0

Tick ==
    /\ now < MaxTime
    /\ now' = now + 1
    /\ UNCHANGED <<row, mirror, clock, sweep, sending, handler, initial, ops>>

-----------------------------------------------------------------------------
(* SubMirror::apply on the subscription half; csub_written on the other,   *)
(* which mirrors by clock alone and signals deletes too.                   *)
Sync(s, d) ==
    IF Mirrored
    THEN /\ mirror' = [mirror EXCEPT ![s] = d]
         /\ clock' = IF Held(d) THEN 0 ELSE clock
    ELSE /\ clock' = 0
         /\ UNCHANGED mirror

-----------------------------------------------------------------------------
(* The Subscription handlers.  Each commits its store write, and syncs the *)
(* mirror afterwards: update re-reads the row in between.                  *)

Begin(h, op) ==
    /\ handler[h] = Free
    /\ op \in Ops
    /\ ops < MaxOps
    /\ ops' = ops + 1

Create(h, s) ==
    /\ Begin(h, "create")
    /\ row[s] = Fresh
    /\ LET d == [anchor |-> now, modified |-> now, active |-> TRUE, sent |-> 0]
       IN /\ row' = [row EXCEPT ![s] = d]
          /\ handler' = [handler EXCEPT ![h] = [pc |-> "sync", id |-> s, doc |-> d]]
    /\ initial' = IF Mirrored THEN initial ELSE initial \cup {s}
    /\ UNCHANGED <<now, mirror, clock, sweep, sending>>

\* The fragment that matters to the sweep is isActive.
Update(h, s, active) ==
    /\ Begin(h, "update")
    /\ Held(row[s])
    /\ row' = [row EXCEPT ![s] = [anchor |-> row[s].anchor, modified |-> now,
                                  active |-> active, sent |-> row[s].sent]]
    /\ handler' = [handler EXCEPT ![h] = [pc |-> "get", id |-> s, doc |-> Gone]]
    /\ initial' = IF Mirrored THEN initial ELSE initial \cup {s}
    /\ UNCHANGED <<now, mirror, clock, sweep, sending>>

UpdateGet(h) ==
    /\ handler[h].pc = "get"
    /\ LET s == handler[h].id
       IN handler' = [handler EXCEPT ![h] = [pc |-> "sync", id |-> s, doc |-> row[s]]]
    /\ UNCHANGED <<now, row, mirror, clock, sweep, sending, initial, ops>>

Delete(h, s) ==
    /\ Begin(h, "delete")
    /\ Held(row[s])
    /\ row' = [row EXCEPT ![s] = Gone]
    /\ handler' = [handler EXCEPT ![h] = [pc |-> "sync", id |-> s, doc |-> Gone]]
    /\ UNCHANGED <<now, mirror, clock, sweep, sending, initial>>

SyncMirror(h) ==
    /\ handler[h].pc = "sync"
    /\ Sync(handler[h].id, handler[h].doc)
    /\ handler' = [handler EXCEPT ![h] = Free]
    /\ UNCHANGED <<now, row, sweep, sending, initial, ops>>

\* record_delivery: stamps the row, or finds none and sends nothing.
Stamp(d) == [anchor |-> now, modified |-> d.modified, active |-> d.active, sent |-> d.sent + 1]

\* csource_initial, spawned by create and update of a CSourceSubscription.
CsourceInitial(s) ==
    /\ s \in initial
    /\ initial' = initial \ {s}
    /\ row' = IF Held(row[s]) /\ row[s].active
              THEN [row EXCEPT ![s] = Stamp(@)] ELSE row
    /\ UNCHANGED <<now, mirror, clock, sweep, sending, handler, ops>>

-----------------------------------------------------------------------------
(* interval_tick.                                                          *)

\* A tick that cannot fire anything returns at once; this is one that can.
SweepBegin ==
    /\ sweep = Idle
    /\ now >= clock
    /\ sweep' = [pc |-> "list", ms |-> now, loaded |-> clock, next |-> Never,
                 todo |-> {}, batch |-> {}]
    /\ UNCHANGED <<now, row, mirror, clock, sending, handler, initial, ops>>

\* subscription_tenants() is a store read.
SweepListTenants ==
    /\ sweep.pc = "list"
    /\ sweep' = [pc |-> "scan", ms |-> sweep.ms, loaded |-> sweep.loaded, next |-> sweep.next,
                 todo |-> {TenantOf[s] : s \in {x \in Subs : Held(row[x])}},
                 batch |-> sweep.batch]
    /\ UNCHANGED <<now, row, mirror, clock, sending, handler, initial, ops>>

SweepVisit(t) ==
    LET docs == IF Mirrored THEN mirror ELSE row
        mine == {s \in Subs : TenantOf[s] = t /\ Held(docs[s])}
    IN /\ sweep.pc = "scan"
       /\ t \in sweep.todo
       /\ sweep.batch = {}
       /\ sweep' = [pc |-> "scan", ms |-> sweep.ms, loaded |-> sweep.loaded,
                    next |-> sweep.next, todo |-> sweep.todo \ {t},
                    batch |-> {[id |-> s, doc |-> docs[s]] : s \in mine}]
       /\ UNCHANGED <<now, row, mirror, clock, sending, handler, initial, ops>>

\* One document of the batch; matched: whether any entity satisfies it.  The
\* csource half sends whatever the matching set is.
SweepCheck(e, matched) ==
    LET due == due_at_ms(e.doc)
        rest(next) == [pc |-> "scan", ms |-> sweep.ms, loaded |-> sweep.loaded, next |-> next,
                       todo |-> sweep.todo, batch |-> sweep.batch \ {e}]
        parked(at) == rest(Min({sweep.next, at}))
    IN /\ sweep.pc = "scan"
       /\ e \in sweep.batch
       /\ ~Mirrored => matched
       /\ \/ /\ ~e.doc.active
             /\ sweep' = rest(sweep.next)
             /\ UNCHANGED sending
          \/ /\ e.doc.active /\ sweep.ms < due
             /\ sweep' = parked(due)
             /\ UNCHANGED sending
          \/ /\ e.doc.active /\ sweep.ms >= due
             /\ sweep' = parked(IF matched THEN sweep.ms + Interval ELSE due)
             /\ sending' = IF matched
                           THEN sending \cup {[id |-> e.id, pc |-> "book", doc |-> Gone]}
                           ELSE sending
       /\ UNCHANGED <<now, row, mirror, clock, handler, initial, ops>>

\* deliver_as, first half: booking before the send.
Book(x) ==
    /\ x \in sending
    /\ x.pc = "book"
    /\ IF Held(row[x.id])
       THEN /\ row' = [row EXCEPT ![x.id] = Stamp(@)]
            /\ sending' = (sending \ {x})
                             \cup (IF Mirrored
                                   THEN {[id |-> x.id, pc |-> "mirror", doc |-> Stamp(row[x.id])]}
                                   ELSE {})
       ELSE /\ sending' = sending \ {x}
            /\ UNCHANGED row
    /\ UNCHANGED <<now, mirror, clock, sweep, handler, initial, ops>>

\* deliver_as, second half: mirror_bookkeeping with the booked document.
MirrorBookkeeping(x) ==
    /\ x \in sending
    /\ x.pc = "mirror"
    /\ Sync(x.id, x.doc)
    /\ sending' = sending \ {x}
    /\ UNCHANGED <<now, row, sweep, handler, initial, ops>>

\* The compare_exchange that closes a sweep.
Exchange(cur, loaded, next) == IF cur = loaded THEN next ELSE cur

\* Mutant: the tick returns before its deliveries have settled.
SweepFinishNoJoin ==
    /\ sweep.pc = "scan"
    /\ sweep.todo = {} /\ sweep.batch = {}
    /\ clock' = Exchange(clock, sweep.loaded, sweep.next)
    /\ sweep' = Idle
    /\ UNCHANGED <<now, row, mirror, sending, handler, initial, ops>>

\* Mutant: the Context Source half parks without its backstop.
SweepFinishNoBackstop ==
    /\ sweep.pc = "scan"
    /\ sweep.todo = {} /\ sweep.batch = {} /\ sending = {}
    /\ clock' = Exchange(clock, sweep.loaded, sweep.next)
    /\ sweep' = Idle
    /\ UNCHANGED <<now, row, mirror, sending, handler, initial, ops>>

SweepFinish ==
    /\ sweep.pc = "scan"
    /\ sweep.todo = {} /\ sweep.batch = {} /\ sending = {}
    /\ clock' = Exchange(clock, sweep.loaded,
                         IF Mirrored THEN sweep.next
                         ELSE Min({sweep.next, sweep.ms + Backstop}))
    /\ sweep' = Idle
    /\ UNCHANGED <<now, row, mirror, sending, handler, initial, ops>>

Next ==
    \/ Tick
    \/ \E h \in Handlers, s \in Subs :
          \/ Create(h, s)
          \/ \E a \in BOOLEAN : Update(h, s, a)
          \/ Delete(h, s)
    \/ \E h \in Handlers : UpdateGet(h) \/ SyncMirror(h)
    \/ \E s \in Subs : CsourceInitial(s)
    \/ SweepBegin
    \/ SweepListTenants
    \/ \E t \in Tenants : SweepVisit(t)
    \/ sweep # Idle /\ \E e \in sweep.batch, m \in BOOLEAN : SweepCheck(e, m)
    \/ \E x \in sending : Book(x) \/ MirrorBookkeeping(x)
    \/ SweepFinish

Spec == Init /\ [][Next]_vars

\* Time passes, and neither the tick loop nor a running task is starved by
\* the multi-threaded runtime.
FairSpec ==
    /\ Spec
    /\ WF_vars(Tick)
    /\ WF_vars(SweepBegin) /\ WF_vars(SweepListTenants) /\ WF_vars(SweepFinish)
    /\ \A t \in Tenants : WF_vars(SweepVisit(t))
    /\ \A h \in Handlers : WF_vars(UpdateGet(h) \/ SyncMirror(h))

-----------------------------------------------------------------------------
(* Properties.                                                             *)

\* Nothing is on its way to the mirror or the clock.
Quiet == sweep = Idle /\ \A h \in Handlers : handler[h] = Free

\* "ticks never overlap, so a subscription cannot be fired twice for one
\* period" (notify.rs, interval_tick): a booked firing is one whole interval
\* after the previous one, or after the creation.
OncePerPeriod ==
    [][\A s \in Subs :
          Held(row[s]) /\ Held(row'[s]) /\ row'[s].sent > row[s].sent
             => now >= due_at_ms(row[s])]_vars

\* "A lost signal is repaired within CSUB_SWEEP_BACKSTOP_MS" (notify.rs,
\* interval_tick): once requests and sweeps are at rest, the next sweep of the
\* Context Source half comes no later than a subscription's due instant or one
\* backstop after its last write, whichever is later.
BackstopRepairs ==
    Quiet => \A s \in Subs :
                Held(row[s]) /\ row[s].active
                   => clock <= Max({due_at_ms(row[s]), row[s].modified + Backstop})

\* "A periodic subscription written DURING the sweep has already zeroed the
\* clock: the exchange then fails, the zero stands and the next tick sweeps"
\* (notify.rs, interval_tick): at rest, the sweep clock never lies beyond the
\* due instant of an active periodic subscription in the mirror.
NeverOvertaken ==
    Quiet => \A s \in Subs :
                Held(mirror[s]) /\ mirror[s].active => clock <= due_at_ms(mirror[s])

-----------------------------------------------------------------------------
(* The inductive invariants behind BackstopRepairs and OncePerPeriod.      *)

Todo  == IF sweep = Idle THEN {} ELSE sweep.todo
Batch == IF sweep = Idle THEN {} ELSE sweep.batch

\* Deliveries belong to a tick, and a tick and the documents bear instants that
\* have come.
TickInv ==
    /\ sweep # Idle => sweep.ms <= now
    /\ sending # {} => sweep # Idle /\ sweep.pc = "scan"
    /\ \A s \in Subs : Held(row[s]) => row[s].anchor <= now

Active(s) == Held(row[s]) /\ row[s].active

\* The clock bounds s, or a request that wrote it has yet to signal.
Signalled(s) ==
    \/ clock <= due_at_ms(row[s])
    \/ clock <= row[s].modified + Backstop
    \/ \E h \in Handlers : handler[h] # Free /\ handler[h].id = s

\* The sweep has s ahead of it, in hand, in a delivery or in its minimum.
Tracked(s) ==
    \/ TenantOf[s] \in sweep.todo
    \/ \E e \in sweep.batch : e.id = s /\ e.doc.active /\ e.doc.anchor <= row[s].anchor
    \/ \E x \in sending : x.id = s
    \/ sweep.next <= due_at_ms(row[s])

\* The Context Source half: what was written before a sweep began is tracked by
\* it, and what was not signals for itself.
RepairInv ==
    /\ \A s \in Subs : Active(s) => Signalled(s)
    /\ sweep # Idle /\ sweep.pc = "scan"
          => \A s \in Subs : Active(s) /\ row[s].modified < sweep.ms => Tracked(s)
    /\ sending # {} => sweep.next <= sweep.ms + Interval
    /\ \A x \in sending : x.pc = "book"

\* A sweep has a subscription ahead of it, in hand or in a delivery, once.
OnceInv ==
    /\ sweep # Idle /\ sweep.pc = "list" => sweep.batch = {}
    /\ \A e \in Batch : TenantOf[e.id] \notin Todo
    /\ \A e, f \in Batch : e.id = f.id => e = f
    /\ \A x \in sending : TenantOf[x.id] \notin Todo /\ \A e \in Batch : e.id # x.id
    /\ \A x, y \in sending : x.id = y.id => x = y

Unseen(s) == (\A e \in Batch : e.id # s) /\ (\A x \in sending : x.id # s)

Pending(h, s) == handler[h] # Free /\ handler[h].id = s

\* Nobody has heard of s.
Unborn(s) == mirror[s] = Fresh /\ Unseen(s) /\ \A h \in Handlers : ~Pending(h, s)

\* Whoever may act on a copy of s has the document that is stored, and a
\* delivery to be booked was due.
Faithful(s) ==
    /\ \A h \in Handlers : Pending(h, s)
          => /\ handler[h].doc = row[s] /\ mirror[s] = Fresh
             /\ \A g \in Handlers : Pending(g, s) => g = h
    /\ \A e \in Batch : e.id = s => e.doc = row[s]
    /\ \A x \in sending : x.id = s => IF x.pc = "book" THEN due_at_ms(row[s]) <= sweep.ms
                                     ELSE x.doc = row[s]
    /\ \/ mirror[s] = Fresh /\ Unseen(s)
       \/ mirror[s] = row[s]
       \/ mirror[s] # Fresh /\ \E x \in sending : x.id = s /\ x.pc = "mirror"

Copied(s) == (row[s] = Fresh => Unborn(s)) /\ (Held(row[s]) => Faithful(s))

\* The Subscription half while clients only create and delete.
CopyInv ==
    /\ initial = {} /\ \A h \in Handlers : handler[h].pc # "get"
    /\ \A s \in Subs : Copied(s)

FireInv == OnceInv /\ CopyInv
=============================================================================
