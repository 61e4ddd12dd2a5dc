------------------------------ MODULE Registry ------------------------------
(***************************************************************************)
(* The registrations of one tenant (csource.rs), and the copies of them    *)
(* that the broker pods match requests with (wiring.rs, mirror.rs): create *)
(* and update check and write under one lock per pod, delete and the       *)
(* collector of expired registrations take no lock, and every committed    *)
(* write is published to the pods by a task of its own.                    *)
(***************************************************************************)
EXTENDS RegIndex

CONSTANTS Ids,          \* registration ids: 1..N, in the order of a walk
          Bodies,       \* what a create may register: [mode, infos]
          Patches,      \* what an update may carry; Keep leaves a member alone
          Keep,
          Entities,     \* the entities of the tenant: [id, types, attrs]
          Handlers,     \* requests, one after another in each
          Pods,         \* broker pods
          Mirrors,      \* the pods whose mirrors are watched
          PodOf,        \* PodOf[h]: the pod that serves h
          PageSize,     \* SCAN_PAGE, SEED_PAGE
          Attempts,     \* MIRROR_SYNC_ATTEMPTS
          Patient,      \* a client writes an id again only when its last
                        \* write has been answered and published
          Free,         \* the lock is free
          NoReg,        \* no such registration
          MaxAsks, MaxExpiries, MaxSweeps, MaxFails, MaxGaps    \* bounds

VARIABLES store,        \* store[id]: [mode, infos, ver], or NoReg
          past,         \* the versions whose expiresAt has passed
          lock,         \* lock[p]: REGISTRATION_WRITE of pod p
          hs,           \* the handlers
          sweep,        \* sweep_expired_registrations
          tasks,        \* publications under way
          pods,         \* the pods' mirrors and consumers
          spent         \* how much of each bound is used up

vars == <<store, past, lock, hs, sweep, tasks, pods, spent>>

Reg(b, v) == [mode |-> b.mode, infos |-> b.infos, ver |-> v]
expired(row) == row.ver \in past
Present(st) == {i \in Ids : st[i] # NoReg}

\* A page of a keyset walk, and whether it ends the walk.
AfterId(st, after) == {i \in Present(st) : i > after}
Page(st, after) ==
    {i \in AfterId(st, after) : Cardinality({j \in AfterId(st, after) : j < i}) < PageSize}
Short(st, after) == Cardinality(Page(st, after)) < PageSize
Furthest(page) == CHOOSE i \in page : \A j \in page : j <= i

Resting == [pc |-> "idle", op |-> "none", id |-> 0, body |-> NoReg, before |-> NoReg,
            after |-> 0, row |-> NoReg, answer |-> "none"]

Pod == [pc |-> "down", listening |-> FALSE, installed |-> FALSE, after |-> 0,
        feed |-> <<>>, mirror |-> Empty]

Init == /\ store = [i \in Ids |-> NoReg]
        /\ past = {}
        /\ lock = [p \in Pods |-> Free]
        /\ hs = [h \in Handlers |-> Resting]
        /\ sweep = [pc |-> "idle", after |-> 0, dead |-> {}]
        /\ tasks = {}
        /\ pods = [p \in Mirrors |-> Pod]
        /\ spent = [asks |-> 0, vers |-> 0, sweeps |-> 0, fails |-> 0, gaps |-> 0]

-----------------------------------------------------------------------------
(* The conflict rules of 5.9.2.4.                                          *)

Proxying == {"exclusive", "redirect"}

\* 4.3.6.3: an exclusive registration names entity ids and attributes.
validate_exclusive(b) ==
    b.mode = "exclusive" =>
        \A i \in b.infos :
            /\ i.attrs # Every
            /\ i.ents # Every /\ \A n \in i.ents : n.ids # Every /\ ~is_pattern(n)

check_entity_conflict(b) ==
    /\ b.mode \in Proxying
    /\ \E i \in {j \in b.infos : j.ents # Every}, e \in Entities : \E n \in i.ents :
         /\ n.ids = Every \/ e.id \in n.ids
         /\ n.types = Every \/ n.types \cap e.types # {}
         /\ b.mode = "exclusive" => i.attrs # Every /\ i.attrs \cap e.attrs # {}

\* The question a RegistrationInfo asks of the other registrations: the ids and
\* types of all its EntityInfos together, and the pattern of one (find_map
\* stops at the first).
Hits(i, m) ==
    LET ents == IF i.ents = Every THEN {} ELSE i.ents
        ids == UNION {n.ids : n \in {k \in ents : k.ids # Every /\ ~is_pattern(k)}}
        patterns == {n \in ents : is_pattern(n)}
        first == IF patterns = {} THEN {} ELSE {CHOOSE n \in patterns : TRUE}
        types == UNION {n.types : n \in {k \in ents : k.types # Every}}
        idHit == \/ m.ids = Every
                 \/ ids \cap m.ids # {}
                 \/ \E n \in first : is_pattern(m) \/ n.ids \cap m.ids # {}
                 \/ ids = {} /\ patterns = {}
        typeHit == types = {} \/ m.types = Every \/ types \cap m.types # {}
    IN idHit /\ typeHit

Matches(i, o) ==
    \E k \in o.infos :
        /\ k.ents = Every \/ \E m \in k.ents : Hits(i, m)
        /\ k.attrs = Every \/ i.attrs = Every \/ i.attrs \cap k.attrs # {}

guarded(mode, omode) == IF mode = "exclusive" THEN omode \in Proxying ELSE omode = "exclusive"

\* Does registration o stand in the way of b?
Overlaps(b, o) ==
    /\ b.mode \in Proxying
    /\ guarded(b.mode, o.mode)
    /\ \E i \in b.infos : Matches(i, o)

Merged(prev, f) == [mode |-> IF f.mode = Keep THEN prev.mode ELSE f.mode,
                    infos |-> IF f.infos = Keep THEN prev.infos ELSE f.infos]
-----------------------------------------------------------------------------
(* The handlers.                                                           *)

Set(h, r) == hs' = [hs EXCEPT ![h] = r]
Goes(h, pc) == Set(h, [hs[h] EXCEPT !.pc = pc])
Unlocked(h) == [lock EXCEPT ![PodOf[h]] = Free]
\* Mutant: an early return that leaks the guard.
RefusedLocked(h, answer) ==
    /\ UNCHANGED lock
    /\ Set(h, [hs[h] EXCEPT !.pc = "done", !.answer = answer])

Refused(h, answer) == /\ lock' = Unlocked(h)
                      /\ Set(h, [hs[h] EXCEPT !.pc = "done", !.answer = answer])

Busy(id) == \/ \E h \in Handlers : hs[h].pc \notin {"idle", "done"} /\ hs[h].id = id
            \/ \E t \in tasks : t.id = id

\* A request arrives; a delete takes no lock.
Ask(h, op, id, body) ==
    /\ hs[h].pc \in {"idle", "done"}
    /\ spent.asks < MaxAsks
    /\ Patient => ~Busy(id)
    /\ Set(h, [Resting EXCEPT !.pc = IF op = "delete" THEN "take" ELSE "lock",
                              !.op = op, !.id = id, !.body = body])
    /\ spent' = [spent EXCEPT !.asks = @ + 1]
    /\ UNCHANGED <<store, past, lock, sweep, tasks, pods>>

\* Mutant: the lock excludes nobody.
registration_write_unlocked(h) ==
    /\ hs[h].pc = "lock"
    /\ lock' = [lock EXCEPT ![PodOf[h]] = h]
    /\ Goes(h, "take")
    /\ UNCHANGED <<store, past, sweep, tasks, pods, spent>>

registration_write_lock(h) ==
    /\ hs[h].pc = "lock"
    /\ lock[PodOf[h]] = Free
    /\ lock' = [lock EXCEPT ![PodOf[h]] = h]
    /\ Goes(h, "take")
    /\ UNCHANGED <<store, past, sweep, tasks, pods, spent>>

\* What follows the read of the stored registration.
Taken(h, row) ==
    LET r == hs[h]
        b == IF r.op = "update" /\ row # NoReg THEN Merged(row, r.body) ELSE r.body
    IN IF r.op = "update" /\ row # NoReg /\ ~validate_exclusive(b)
       THEN Refused(h, "bad")
       ELSE /\ Set(h, [r EXCEPT !.before = row, !.body = IF r.op = "update" THEN @ ELSE b,
                                !.pc = IF r.op = "delete" \/ (r.op = "update" /\ row = NoReg)
                                       THEN "write" ELSE "entities"])
            /\ UNCHANGED lock

\* take_live_registration reads; an expired row is removed by a second
\* statement, whatever the row is by then.
take_live_registration(h) ==
    /\ hs[h].pc = "take"
    /\ LET row == store[hs[h].id]
       IN IF row # NoReg /\ expired(row)
          THEN Goes(h, "reap") /\ UNCHANGED lock
          ELSE Taken(h, row)
    /\ UNCHANGED <<store, past, sweep, tasks, pods, spent>>

Reap(h) ==
    /\ hs[h].pc = "reap"
    /\ store' = [store EXCEPT ![hs[h].id] = NoReg]
    /\ Taken(h, NoReg)
    /\ UNCHANGED <<past, sweep, tasks, pods, spent>>

\* The body whose conflicts are checked: of an update, the merged document.
Candidate(h) == IF hs[h].op = "update" THEN Merged(hs[h].before, hs[h].body) ELSE hs[h].body

CheckEntities(h) ==
    /\ hs[h].pc = "entities"
    /\ IF check_entity_conflict(Candidate(h)) THEN Refused(h, "conflict")
       ELSE Goes(h, "overlap") /\ UNCHANGED lock
    /\ UNCHANGED <<store, past, sweep, tasks, pods, spent>>

\* One page of the walk over the tenant's registrations.
check_proxied_overlap(h) ==
    /\ hs[h].pc = "overlap"
    /\ LET page == Page(store, hs[h].after)
           others == {i \in page : ~(hs[h].op = "update" /\ i = hs[h].id) /\ ~expired(store[i])}
       IN IF \E i \in others : Overlaps(Candidate(h), store[i]) THEN Refused(h, "conflict")
          ELSE /\ Set(h, IF Short(store, hs[h].after) THEN [hs[h] EXCEPT !.pc = "write"]
                         ELSE [hs[h] EXCEPT !.after = Furthest(page)])
               /\ UNCHANGED lock
    /\ UNCHANGED <<store, past, sweep, tasks, pods, spent>>

\* The write under the lock; a create or update publishes after it has let go
\* of the lock.
Stored(h, row) ==
    /\ store' = [store EXCEPT ![hs[h].id] = row]
    /\ spent' = [spent EXCEPT !.vers = @ + 1]

CreateRow(h) ==
    /\ hs[h].pc = "write" /\ hs[h].op = "create"
    /\ LET row == Reg(hs[h].body, spent.vers + 1)
       IN IF store[hs[h].id] # NoReg
          THEN Refused(h, "exists") /\ UNCHANGED <<store, spent>>
          ELSE /\ Stored(h, row)
               /\ lock' = Unlocked(h)
               /\ Set(h, [hs[h] EXCEPT !.pc = "publish", !.row = row])
    /\ UNCHANGED <<past, sweep, tasks, pods>>

\* The fragment is applied to the row as it is now.
UpdateRow(h) ==
    /\ hs[h].pc = "write" /\ hs[h].op = "update"
    /\ LET row == store[hs[h].id]
       IN IF row = NoReg
          THEN Refused(h, "missing") /\ UNCHANGED <<store, spent>>
          ELSE /\ Stored(h, Reg(Merged(row, hs[h].body), spent.vers + 1))
               /\ lock' = Unlocked(h)
               /\ Goes(h, "after")
    /\ UNCHANGED <<past, sweep, tasks, pods>>

\* What is published is read again, without the lock.
ReadAfter(h) ==
    /\ hs[h].pc = "after"
    /\ Set(h, [hs[h] EXCEPT !.pc = "publish", !.row = store[hs[h].id]])
    /\ UNCHANGED <<store, past, lock, sweep, tasks, pods, spent>>

delete_registration(h) ==
    /\ hs[h].pc = "write" /\ hs[h].op = "delete"
    /\ store' = [store EXCEPT ![hs[h].id] = NoReg]
    /\ Set(h, IF store[hs[h].id] = NoReg
              THEN [hs[h] EXCEPT !.pc = "done", !.answer = "missing"]
              ELSE [hs[h] EXCEPT !.pc = "publish", !.row = NoReg])
    /\ UNCHANGED <<past, lock, sweep, tasks, pods, spent>>

\* reg_changed spawns the publication; nobody waits for it.
reg_changed(h) ==
    /\ hs[h].pc = "publish"
    /\ tasks' = tasks \cup {[id |-> hs[h].id, row |-> hs[h].row, of |-> h, left |-> Attempts]}
    /\ Set(h, [hs[h] EXCEPT !.pc = "done", !.answer = "ok"])
    /\ UNCHANGED <<store, past, lock, sweep, pods, spent>>

-----------------------------------------------------------------------------
(* Time, and the collector.                                                *)

Expire(id) ==
    /\ store[id] # NoReg /\ ~expired(store[id])
    /\ Cardinality(past) < MaxExpiries
    /\ past' = past \cup {store[id].ver}
    /\ UNCHANGED <<store, lock, hs, sweep, tasks, pods, spent>>

\* sweep_expired_registrations: a walk notes the expired ids, then each is
\* deleted.  Nothing is published.
SweepPage ==
    /\ sweep.pc = "idle" => spent.sweeps < MaxSweeps
    /\ sweep.pc \in {"idle", "walk"}
    /\ LET after == IF sweep.pc = "idle" THEN 0 ELSE sweep.after
           page == Page(store, after)
           dead == (IF sweep.pc = "idle" THEN {} ELSE sweep.dead) \cup {i \in page : expired(store[i])}
       IN sweep' = IF Short(store, after)
                   THEN [pc |-> IF dead = {} THEN "idle" ELSE "reap", after |-> 0, dead |-> dead]
                   ELSE [pc |-> "walk", after |-> Furthest(page), dead |-> dead]
    /\ spent' = IF sweep.pc = "idle" THEN [spent EXCEPT !.sweeps = @ + 1] ELSE spent
    /\ UNCHANGED <<store, past, lock, hs, tasks, pods>>

SweepReap(id) ==
    /\ sweep.pc = "reap" /\ id \in sweep.dead
    /\ store' = [store EXCEPT ![id] = NoReg]
    /\ sweep' = [sweep EXCEPT !.dead = @ \ {id}, !.pc = IF sweep.dead = {id} THEN "idle" ELSE "reap"]
    /\ UNCHANGED <<past, lock, hs, tasks, pods, spent>>

-----------------------------------------------------------------------------
(* The publications, and the mirror of each pod.                           *)

\* Mutant: a pod listens once its hydrate is over.
PublishToSeeded(t) ==
    /\ t \in tasks
    /\ tasks' = tasks \ {t}
    /\ pods' = [p \in Mirrors |-> IF pods[p].listening /\ pods[p].pc = "up"
                               THEN [pods[p] EXCEPT !.feed = Append(@, [id |-> t.id, row |-> t.row])]
                               ELSE pods[p]]
    /\ UNCHANGED <<store, past, lock, hs, sweep, spent>>

\* Every consumer there is gets the delta.
Publish(t) ==
    /\ t \in tasks
    /\ tasks' = tasks \ {t}
    /\ pods' = [p \in Mirrors |-> IF pods[p].listening
                               THEN [pods[p] EXCEPT !.feed = Append(@, [id |-> t.id, row |-> t.row])]
                               ELSE pods[p]]
    /\ UNCHANGED <<store, past, lock, hs, sweep, spent>>

\* After the last attempt the delta is given up.
PublishFails(t) ==
    /\ t \in tasks
    /\ spent.fails < MaxFails
    /\ tasks' = (tasks \ {t}) \cup (IF t.left = 1 THEN {} ELSE {[t EXCEPT !.left = @ - 1]})
    /\ spent' = [spent EXCEPT !.fails = @ + 1]
    /\ UNCHANGED <<store, past, lock, hs, sweep, pods>>

SetPod(p, r) == /\ pods' = [pods EXCEPT ![p] = r]
                /\ UNCHANGED <<store, past, lock, hs, sweep, tasks>>

\* Mutant: a tombstone is no document.
apply_upsert(x, id, row) == IF row = NoReg THEN x ELSE insert(x, [i \in {id} |-> row])

apply(x, id, row) ==
    IF row = NoReg THEN remove(x, {id}) ELSE insert(x, [i \in {id} |-> row])

\* The consumer exists before the hydrate begins.
Start(p) ==
    /\ pods[p].pc = "down"
    /\ SetPod(p, [pods[p] EXCEPT !.pc = "seed", !.listening = TRUE])
    /\ UNCHANGED spent

\* A page of the hydrate, or of the re-hydrate after a gap: it puts in what
\* the store holds and takes nothing out.
seed_mirror(p) ==
    /\ pods[p].pc = "seed"
    /\ LET page == Page(store, pods[p].after)
           seeded == insert(pods[p].mirror, [i \in page |-> store[i]])
       IN SetPod(p, IF Short(store, pods[p].after)
                    THEN [pods[p] EXCEPT !.mirror = seeded, !.pc = "up", !.installed = TRUE, !.after = 0]
                    ELSE [pods[p] EXCEPT !.mirror = seeded, !.after = Furthest(page)])
    /\ UNCHANGED spent

\* A hydrate that fails leaves the mirror as it is: at the start it is not
\* installed, and requests are matched against the store.
SeedFails(p) ==
    /\ pods[p].pc = "seed"
    /\ spent.fails < MaxFails
    /\ SetPod(p, [pods[p] EXCEPT !.pc = "up", !.after = 0])
    /\ spent' = [spent EXCEPT !.fails = @ + 1]

Consume(p) ==
    /\ pods[p].pc = "up" /\ pods[p].feed # <<>>
    /\ LET d == Head(pods[p].feed)
       IN SetPod(p, [pods[p] EXCEPT !.feed = Tail(@), !.mirror = apply(@, d.id, d.row)])
    /\ UNCHANGED spent

\* The consumer's stream ends.  The consumer is ephemeral: it may be gone,
\* with what it held and for good, and then the stream ends again each time it is
\* opened.
Gap(p) ==
    /\ pods[p].pc = "up"
    /\ \/ /\ pods[p].listening
          /\ spent.gaps < MaxGaps
          /\ spent' = [spent EXCEPT !.gaps = @ + 1]
          /\ \/ SetPod(p, [pods[p] EXCEPT !.pc = "seed"])
             \/ SetPod(p, [pods[p] EXCEPT !.pc = "seed", !.listening = FALSE, !.feed = <<>>])
       \/ /\ ~pods[p].listening
          /\ SetPod(p, [pods[p] EXCEPT !.pc = "seed"])
          /\ UNCHANGED spent

Serve(h) == \/ take_live_registration(h) \/ Reap(h) \/ CheckEntities(h)
            \/ check_proxied_overlap(h) \/ CreateRow(h) \/ UpdateRow(h)
            \/ ReadAfter(h) \/ delete_registration(h) \/ reg_changed(h)

Next ==
    \/ \E h \in Handlers, id \in Ids :
         \/ \E b \in Bodies : Ask(h, "create", id, b)
         \/ \E f \in Patches : Ask(h, "update", id, f)
         \/ Ask(h, "delete", id, NoReg)
    \/ \E h \in Handlers : registration_write_lock(h) \/ Serve(h)
    \/ \E id \in Ids : Expire(id) \/ SweepReap(id)
    \/ SweepPage
    \/ \E t \in tasks : Publish(t) \/ PublishFails(t)
    \/ \E p \in Mirrors : Start(p) \/ seed_mirror(p) \/ SeedFails(p) \/ Consume(p) \/ Gap(p)

Spec == Init /\ [][Next]_vars

-----------------------------------------------------------------------------
(* Properties.                                                             *)

Bodyset == Bodies \cup Patches \cup {NoReg}

\* Type correctness.
TypeOK ==
    /\ \A i \in Present(store) : store[i].ver \in 1..spent.vers
    /\ past \subseteq 1..spent.vers
    /\ lock \in [Pods -> Handlers \cup {Free}]
    /\ \A h \in Handlers : hs[h].body \in Bodyset \/ hs[h].op = "update"
    /\ \A h \in Handlers : hs[h].answer \in {"none", "ok", "bad", "conflict", "exists", "missing"}
    /\ \A t \in tasks : t.left \in 1..Attempts
    /\ \A p \in Mirrors : DOMAIN pods[p].mirror.docs \subseteq Ids

\* 4.3.6.3 and the comment on REGISTRATION_WRITE: however creates and updates
\* of one pod interleave with deletes, expiries and the collector, no two live
\* registrations stand in each other's way.
ExclusiveAlone ==
    \A i, j \in Present(store) :
        (i # j /\ ~expired(store[i]) /\ ~expired(store[j])) => ~Overlaps(store[i], store[j])

\* mirror.rs, RegIndex: after any sequence of deltas and seeds, narrowing by type
\* and id drops no registration that 5.12 matches.
PrefilterSound == \A p \in Mirrors : NarrowsSoundly(pods[p].mirror)

\* Something on its way will tell pod p of the stored version of id.
Coming(p, id) ==
    \/ \E h \in Handlers : hs[h].pc \in {"after", "publish"} /\ hs[h].id = id
    \/ \E t \in tasks : t.id = id
    \/ \E k \in DOMAIN pods[p].feed : pods[p].feed[k].id = id
    \/ ~pods[p].listening

\* wiring.rs:272, "no delta can fall between them": a live registration that
\* was stored is in every installed mirror, or on its way there, whatever
\* the order of hydrate, writes, publications, gaps and collections.
NoneMissed ==
    \A p \in Mirrors, id \in Ids :
        (pods[p].installed /\ pods[p].pc = "up" /\ store[id] # NoReg /\ ~Coming(p, id)) =>
            id \in DOMAIN pods[p].mirror.docs /\ pods[p].mirror.docs[id].ver = store[id].ver

\* REGISTRATION_WRITE is let go on every early return: a request that waits for
\* it waits for a request that can go on, so no refusal and no failed store call
\* leaves the tenant without registration writes.
NobodyStuck ==
    \A h \in Handlers :
        hs[h].pc = "lock" =>
            LET g == lock[PodOf[h]] IN g = Free \/ (g # h /\ ENABLED Serve(g))

\* wiring.rs:273 ("last-writer-wins per key converges"): once nothing about id
\* is on its way to a pod whose consumer was not lost, and as long as nothing
\* was collected, its mirror holds no live version of id that the store does not.
MirrorsConverge ==
    \A p \in Mirrors, id \in Ids :
        (/\ ~Coming(p, id) /\ spent.sweeps = 0
         /\ id \in DOMAIN pods[p].mirror.docs) =>
            \/ expired(pods[p].mirror.docs[id])
            \/ store[id] # NoReg /\ store[id].ver = pods[p].mirror.docs[id].ver
=============================================================================
