----------------------------- MODULE Snapshots -----------------------------
(***************************************************************************)
(* Snapshots of one tenant (antares-api snapshots.rs): the document, the   *)
(* reverse-index entry that names its synthetic tenant, the copy under     *)
(* that tenant, and the tasks that outlive the request: the fill, the      *)
(* clone's copy and the teardown.  Requests, tasks and the expiry sweep    *)
(* interleave between any two store calls, and the process may stop.       *)
(*                                                                         *)
(* A copy is here or not here: which documents it holds, the paging and    *)
(* the budget of a fill (MatchWalk walks the pages) are left out, and so   *)
(* is the SnapshotNotification, which is sent once and keeps no state.     *)
(***************************************************************************)
EXTENDS Integers, FiniteSets, FiniteSetsExt

CONSTANTS
    Ids,         \* snapshot ids clients choose, in the order the store lists them
    Priorities,  \* snapshotPriority
    Handlers,    \* concurrently running requests
    Ops,         \* what they ask: "create", "clone", "update", "delete", "purge", "scoped"
    Reuse,       \* may an id be taken again after its snapshot is gone?
    Queries,     \* how many queries a snapshot has
    Cap,         \* snapshot_cap
    MaxSnapshots, MaxAsks, MaxExpiries, MaxSweeps, MaxCrashes

VARIABLES
    docs,    \* docs[i]: the Snapshot document; its domain is what is stored
    index,   \* synthetic tenants the reverse index names
    data,    \* synthetic tenants that hold documents
    hs,      \* hs[h]: a request between two store calls
    tasks,   \* background tasks, one record each
    sweep,   \* documents the sweep found expired and has yet to remove
    past,    \* what a check needs to remember: the synthetic tenant of every id
             \* taken, how many were given out, those whose fill a crash cut off,
             \* those an update wrote
    dead,    \* lifetimes that have passed: <<synth, life>>
    spent    \* how much of each bound is used

vars == <<docs, index, data, hs, tasks, sweep, past, dead, spent>>

Synths == 1..MaxSnapshots
Statuses == {"preparing", "success", "partial", "empty", "failure"}
Metas == [synth: Synths, status: Statuses, prio: Priorities, life: 0..MaxAsks]
Free == [pc |-> "free"]

Kinds == {"asks", "expiries", "sweeps", "crashes"}

TypeOK ==
    /\ DOMAIN docs \subseteq Ids /\ \A i \in DOMAIN docs : docs[i] \in Metas
    /\ index \subseteq Synths /\ data \subseteq Synths
    /\ \A h \in Handlers :
          hs[h] \in {Free} \cup [pc: {"index", "list", "put", "write"}, op: Ops, id: Ids,
                                 meta: Metas, src: Ids]
                           \cup [pc: {"evict"}, op: Ops, id: Ids, meta: Metas, src: Ids,
                                 victims: SUBSET [id: Ids, synth: Synths]]
                           \cup [pc: {"remove"}, victims: SUBSET [id: Ids, synth: Synths]]
    /\ tasks \subseteq [kind: {"teardown"}, synth: Synths, pc: {"purge", "unindex"}]
                \cup [kind: {"fill"}, id: Ids, synth: 0..MaxSnapshots, src: {0},
                      pc: {"start", "check", "copy", "cancel", "finish"}, left: 0..Queries,
                      seen: SUBSET {"success", "empty", "failure"}]
                \cup [kind: {"clone"}, id: Ids, synth: 0..MaxSnapshots, src: Ids,
                      pc: {"start", "check", "copy", "cancel", "finish"}, left: 0..MaxSnapshots,
                      seen: SUBSET {"success", "empty", "failure"}]
                \cup [kind: {"put"}, id: Ids, meta: Metas]
    /\ sweep \subseteq [id: Ids, synth: Synths]
    /\ dead \subseteq Synths \X (0..MaxAsks)
    /\ spent \in [Kinds -> Nat]

Init ==
    /\ docs = [i \in {} |-> 0]
    /\ index = {} /\ data = {}
    /\ hs = [h \in Handlers |-> Free]
    /\ tasks = {} /\ sweep = {}
    /\ past = [born |-> [i \in {} |-> 0], given |-> 0, cut |-> {}, updated |-> {}]
    /\ dead = {}
    /\ spent = [k \in Kinds |-> 0]

-----------------------------------------------------------------------------
(* The store.                                                              *)

\* snap_get: an expired snapshot is gone to every caller.
expired(meta) == <<meta.synth, meta.life>> \in dead
Live(i) == i \in DOMAIN docs /\ ~expired(docs[i])

Drop(i) == [j \in DOMAIN docs \ {i} |-> docs[j]]

\* Mutant: the write-back does not ask whether the snapshot is still there.
snap_put_always(i, meta) == docs' = [j \in DOMAIN docs \cup {i} |-> IF j = i THEN meta ELSE docs[j]]

\* The whole document is written back, where one is still stored.
snap_put(i, meta) == docs' = [j \in DOMAIN docs |-> IF j = i THEN meta ELSE docs[j]]

Teardown(s) == [kind |-> "teardown", synth |-> s, pc |-> "purge"]

\* snap_remove: by id, whatever is stored under it by now; the copy that is
\* torn down is the one of the document the caller read.
snap_remove(v) ==
    /\ docs' = Drop(v.id)
    /\ tasks' = tasks \cup {Teardown(v.synth)}

Victim(i) == [id |-> i, synth |-> docs[i].synth]

Spend(k, max) == spent[k] < max /\ spent' = [spent EXCEPT ![k] = @ + 1]

-----------------------------------------------------------------------------
(* Requests.                                                               *)

\* Handlers are alike: a request takes the first that is free.
Ask(h, op) ==
    /\ hs[h] = Free /\ \A g \in Handlers : g < h => hs[g] # Free
    /\ op \in Ops /\ Spend("asks", MaxAsks)

\* snap_insert of a create, or of a clone whose source is live: the store's
\* create refuses an id that is taken, and says nothing of an expired one.
Insert(h, op, i, src, p) ==
    LET s == past.given + 1
        meta == [synth |-> s, status |-> "preparing", prio |-> p, life |-> 0]
    IN /\ Ask(h, op) /\ op \in {"create", "clone"}
       /\ op = "clone" => Live(src)
       /\ i \notin DOMAIN docs /\ s <= MaxSnapshots /\ (Reuse \/ i \notin DOMAIN past.born)
       /\ docs' = [j \in DOMAIN docs \cup {i} |-> IF j = i THEN meta ELSE docs[j]]
       /\ past' = [past EXCEPT !.born = [j \in DOMAIN @ \cup {i} |-> IF j = i THEN s ELSE @[j]],
                               !.given = s]
       /\ hs' = [hs EXCEPT ![h] = [pc |-> "index", op |-> op, id |-> i, meta |-> meta, src |-> src]]
       /\ UNCHANGED <<index, data, tasks, sweep, dead>>

Index(h) ==
    /\ hs[h].pc = "index"
    /\ index' = index \cup {hs[h].meta.synth}
    /\ hs' = [hs EXCEPT ![h].pc = "list"]
    /\ UNCHANGED <<docs, data, tasks, sweep, past, dead, spent>>

\* evict_over_cap: the lowest priority first, the first listed breaking ties,
\* and never the snapshot the request has made.
Ranked(i, j) == \/ docs[i].prio < docs[j].prio
                \/ docs[i].prio = docs[j].prio /\ i < j
Over == Max({Cardinality(DOMAIN docs) - Cap, 0})

\* Mutant: the one to keep is taken out after the victims were counted.
Victims_short(keep) ==
    {i \in DOMAIN docs : Cardinality({j \in DOMAIN docs : Ranked(j, i)}) < Over} \ {keep}
Victims(keep) ==
    LET others == DOMAIN docs \ {keep}
    IN {i \in others : Cardinality({j \in others : Ranked(j, i)}) < Over}

EvictList(h) ==
    /\ hs[h].pc = "list"
    /\ hs' = [hs EXCEPT ![h] = [pc |-> "evict", op |-> @.op, id |-> @.id, meta |-> @.meta,
                                src |-> @.src, victims |-> {Victim(i) : i \in Victims(@.id)}]]
    /\ UNCHANGED <<docs, index, data, tasks, sweep, past, dead, spent>>

Evict(h, v) ==
    /\ hs[h].pc = "evict" /\ v \in hs[h].victims
    /\ snap_remove(v)
    /\ hs' = [hs EXCEPT ![h].victims = @ \ {v}]
    /\ UNCHANGED <<index, data, sweep, past, dead, spent>>

Fill(kind, i, src, n) == [kind |-> kind, id |-> i, synth |-> 0, src |-> src, pc |-> "start",
                          left |-> n, seen |-> {}]

\* The answer: 201, and the copy goes on without the request.
Created(h) ==
    /\ hs[h].pc = "evict" /\ hs[h].victims = {}
    /\ tasks' = tasks \cup {IF hs[h].op = "create" THEN Fill("fill", hs[h].id, 0, Queries)
                            ELSE Fill("clone", hs[h].id, hs[h].src, 0)}
    /\ hs' = [hs EXCEPT ![h] = Free]
    /\ UNCHANGED <<docs, index, data, sweep, past, dead, spent>>

\* update_snapshot: the document is read, and written back a step later.
UpdateGet(h, i, p, renew) ==
    /\ Ask(h, "update") /\ Live(i)
    /\ hs' = [hs EXCEPT ![h] = [pc |-> "put", op |-> "update", id |-> i,
                                src |-> i,
                                meta |-> [docs[i] EXCEPT !.prio = p,
                                                         !.life = @ + (IF renew THEN 1 ELSE 0)]]]
    /\ UNCHANGED <<docs, index, data, tasks, sweep, past, dead>>

UpdatePut(h) ==
    /\ hs[h].pc = "put"
    /\ snap_put(hs[h].id, hs[h].meta)
    /\ hs' = [hs EXCEPT ![h] = Free]
    /\ past' = [past EXCEPT !.updated = @ \cup {hs[h].meta.synth}]
    /\ UNCHANGED <<index, data, tasks, sweep, dead, spent>>

\* delete_snapshot, and purge_snapshots, whose q is over the members.
DeleteGet(h, i) ==
    /\ Ask(h, "delete") /\ Live(i)
    /\ hs' = [hs EXCEPT ![h] = [pc |-> "remove", victims |-> {Victim(i)}]]
    /\ UNCHANGED <<docs, index, data, tasks, sweep, past, dead>>

PurgeList(h, p) ==
    LET hit == {i \in DOMAIN docs : docs[i].prio = p}
    IN /\ Ask(h, "purge")
       /\ hs' = [hs EXCEPT ![h] = IF hit = {} THEN Free
                                  ELSE [pc |-> "remove", victims |-> {Victim(i) : i \in hit}]]
       /\ UNCHANGED <<docs, index, data, tasks, sweep, past, dead>>

Remove(h, v) ==
    /\ hs[h].pc = "remove" /\ v \in hs[h].victims
    /\ snap_remove(v)
    /\ hs' = [hs EXCEPT ![h] = IF @.victims = {v} THEN Free
                               ELSE [pc |-> "remove", victims |-> @.victims \ {v}]]
    /\ UNCHANGED <<index, data, sweep, past, dead, spent>>

\* A request with an NGSILD-Snapshot header runs under the synthetic tenant it
\* was resolved to.
Scoped(h, i) ==
    /\ Ask(h, "scoped") /\ Live(i)
    /\ hs' = [hs EXCEPT ![h] = [pc |-> "write", op |-> "scoped", id |-> i,
                                meta |-> docs[i], src |-> i]]
    /\ UNCHANGED <<docs, index, data, tasks, sweep, past, dead>>

ScopedWrite(h) ==
    /\ hs[h].pc = "write"
    /\ data' = data \cup {hs[h].meta.synth}
    /\ hs' = [hs EXCEPT ![h] = Free]
    /\ UNCHANGED <<docs, index, tasks, sweep, past, dead, spent>>

-----------------------------------------------------------------------------
(* Tasks.                                                                  *)

Become(t, u) == tasks' = (tasks \ {t}) \cup u

\* fill_snapshot finds its document, or ends; clone_fill finds both, or fails
\* the new one.
FillStart(t) ==
    /\ t.kind \in {"fill", "clone"} /\ t.pc = "start"
    /\ Become(t, IF t.kind = "fill"
                 THEN IF Live(t.id) THEN {[t EXCEPT !.synth = docs[t.id].synth, !.pc = "check"]} ELSE {}
                 ELSE IF Live(t.id) /\ Live(t.src)
                      THEN {[t EXCEPT !.synth = docs[t.id].synth, !.left = docs[t.src].synth, !.pc = "copy"]}
                      ELSE {[t EXCEPT !.seen = {"failure"}, !.pc = "finish"]})
    /\ UNCHANGED <<docs, index, data, hs, sweep, past, dead, spent>>

\* fill_cancelled, before every query and before the end.
FillCheck(t) ==
    /\ t.kind \in {"fill", "clone"} /\ t.pc = "check"
    /\ Become(t, {[t EXCEPT !.pc = IF ~Live(t.id) THEN "cancel"
                                   ELSE IF t.kind = "fill" /\ t.left > 0 THEN "copy" ELSE "finish"]})
    /\ UNCHANGED <<docs, index, data, hs, sweep, past, dead, spent>>

\* Mutant: a cancelled fill leaves what it has copied.
FillCancelLeaves(t) ==
    /\ t.kind \in {"fill", "clone"} /\ t.pc = "cancel"
    /\ Become(t, {})
    /\ UNCHANGED <<docs, index, data, hs, sweep, past, dead, spent>>

FillCancel(t) ==
    /\ t.kind \in {"fill", "clone"} /\ t.pc = "cancel"
    /\ data' = data \ {t.synth}
    /\ Become(t, {})
    /\ UNCHANGED <<docs, index, hs, sweep, past, dead, spent>>

\* run_query and run_temporal_query; one that fails may have copied a page.
FillQuery(t, result) ==
    /\ t.kind = "fill" /\ t.pc = "copy"
    /\ data' \in {data \cup {t.synth}, IF result = "success" THEN data \cup {t.synth} ELSE data}
    /\ result = "empty" => data' = data
    /\ Become(t, {[t EXCEPT !.pc = "check", !.left = @ - 1, !.seen = @ \cup {result}]})
    /\ UNCHANGED <<docs, index, hs, sweep, past, dead, spent>>

\* The copy of a clone: what the source's tenant holds by now.
CloneCopy(t, failed) ==
    /\ t.kind = "clone" /\ t.pc = "copy"
    /\ data' = IF t.left \in data THEN data \cup {t.synth} ELSE data
    /\ Become(t, {[t EXCEPT !.pc = "check", !.seen = {IF failed THEN "failure" ELSE "success"}]})
    /\ UNCHANGED <<docs, index, hs, sweep, past, dead, spent>>

\* Mutant: a fill whose queries all failed has no status to write.
status_of_some(t) ==
    CASE t.seen = {"success"} -> "success"
      [] t.seen # {"success"} /\ "success" \in t.seen -> "partial"
      [] "success" \notin t.seen /\ "empty" \in t.seen -> "empty"
      [] OTHER -> "preparing"

status(t) ==
    CASE t.seen = {"success"} -> "success"
      [] t.seen # {"success"} /\ "success" \in t.seen -> "partial"
      [] "success" \notin t.seen /\ "empty" \in t.seen -> "empty"
      [] OTHER -> "failure"

\* finish: the document is read again, and written back a step later.
Finish(t) ==
    /\ t.kind \in {"fill", "clone"} /\ t.pc = "finish"
    /\ Become(t, IF Live(t.id)
                 THEN {[kind |-> "put", id |-> t.id, meta |-> [docs[t.id] EXCEPT !.status = status(t)]]}
                 ELSE {})
    /\ UNCHANGED <<docs, index, data, hs, sweep, past, dead, spent>>

FinishPut(t) ==
    /\ t.kind = "put"
    /\ snap_put(t.id, t.meta)
    /\ Become(t, {})
    /\ UNCHANGED <<index, data, hs, sweep, past, dead, spent>>

\* Mutant: the entry goes first.
PurgeSynthUnindexed(t) ==
    /\ t.kind = "teardown" /\ t.pc = "purge"
    /\ index' = index \ {t.synth}
    /\ Become(t, {[t EXCEPT !.pc = "unindex"]})
    /\ UNCHANGED <<docs, data, hs, sweep, past, dead, spent>>

\* The teardown: the copy is dropped, and only then the entry that names it.
PurgeSynth(t) ==
    /\ t.kind = "teardown" /\ t.pc = "purge"
    /\ data' = data \ {t.synth}
    /\ Become(t, {[t EXCEPT !.pc = "unindex"]})
    /\ UNCHANGED <<docs, index, hs, sweep, past, dead, spent>>

Unindex(t) ==
    /\ t.kind = "teardown" /\ t.pc = "unindex"
    /\ index' = index \ {t.synth}
    /\ Become(t, {})
    /\ UNCHANGED <<docs, data, hs, sweep, past, dead, spent>>

TaskStep(t) ==
    \/ FillStart(t) \/ FillCheck(t) \/ FillCancel(t)
    \/ \E r \in {"success", "empty", "failure"} : FillQuery(t, r)
    \/ \E f \in BOOLEAN : CloneCopy(t, f)
    \/ Finish(t) \/ FinishPut(t)
    \/ PurgeSynth(t) \/ Unindex(t)

-----------------------------------------------------------------------------
(* Time, the expiry sweep and a stop of the process.                       *)

Expire(i) ==
    /\ Live(i) /\ Spend("expiries", MaxExpiries)
    /\ dead' = dead \cup {<<docs[i].synth, docs[i].life>>}
    /\ UNCHANGED <<docs, index, data, hs, tasks, sweep, past>>

SweepWalk ==
    /\ sweep = {} /\ Spend("sweeps", MaxSweeps)
    /\ sweep' = {Victim(i) : i \in {j \in DOMAIN docs : expired(docs[j])}}
    /\ UNCHANGED <<docs, index, data, hs, tasks, past, dead>>

SweepRemove(v) ==
    /\ v \in sweep
    /\ snap_remove(v)
    /\ sweep' = sweep \ {v}
    /\ UNCHANGED <<index, data, hs, past, dead, spent>>

\* What ran in memory is gone; the store is not.
Crash ==
    /\ Spend("crashes", MaxCrashes)
    /\ hs' = [h \in Handlers |-> Free] /\ tasks' = {} /\ sweep' = {}
    /\ past' = [past EXCEPT !.cut = @ \cup {t.synth : t \in {u \in tasks : u.kind \in {"fill", "clone"}}}]
    /\ UNCHANGED <<docs, index, data, dead>>

RequestStep(h) ==
    \/ Index(h) \/ EvictList(h) \/ Created(h) \/ UpdatePut(h) \/ ScopedWrite(h)
    \/ hs[h].pc = "evict" /\ \E v \in hs[h].victims : Evict(h, v)
    \/ hs[h].pc = "remove" /\ \E v \in hs[h].victims : Remove(h, v)

Next ==
    \/ \E h \in Handlers, i \in Ids :
          \/ \E op \in {"create", "clone"}, src \in Ids, p \in Priorities : Insert(h, op, i, src, p)
          \/ \E p \in Priorities, renew \in BOOLEAN : UpdateGet(h, i, p, renew)
          \/ DeleteGet(h, i)
          \/ Scoped(h, i)
    \/ \E h \in Handlers, p \in Priorities : PurgeList(h, p)
    \/ \E h \in Handlers : RequestStep(h)
    \/ \E t \in tasks : TaskStep(t)
    \/ \E i \in Ids : Expire(i)
    \/ SweepWalk
    \/ \E v \in sweep : SweepRemove(v)
    \/ Crash

Spec == Init /\ [][Next]_vars

-----------------------------------------------------------------------------
(* Properties.                                                             *)

Named(s) == \E i \in DOMAIN docs : docs[i].synth = s
Copying(s) == \E t \in tasks : t.kind \in {"fill", "clone"} /\ t.synth = s

\* "a broker that stops mid-teardown leaves it pointing at data still there
\* rather than data nothing names" (snapshots.rs, purge_data_bg): a copy is
\* named by its document, by the reverse index, or by the task that is still
\* writing it; only what a crash cut off mid-fill escapes all three.
CopyNamed == \A s \in data : Named(s) \/ s \in index \/ Copying(s) \/ s \in past.cut

\* Nothing is on its way, and nothing was cut off.
AtRest == tasks = {} /\ sweep = {} /\ spent.crashes = 0 /\ \A h \in Handlers : hs[h] = Free

\* "once the snapshot is gone none of them is reachable, so every kind is
\* dropped" (purge_synth) and "a fill whose snapshot was deleted must stop and
\* free what it already copied" (fill_cancelled): whichever of the teardown and
\* the fill writes last, a copy no document names is freed.  (Its index entry need
\* not be: a teardown that overtakes the insert finds no entry to remove.)
CopyFreed == AtRest => data \subseteq {docs[i].synth : i \in DOMAIN docs}

\* "a snapshot deleted meanwhile is not resurrected" (snap_put): no write puts
\* back a snapshot that had left the store; the only new one is the one an
\* insert made.
NotResurrected ==
    [][\A i \in DOMAIN docs' :
          i \notin DOMAIN docs \/ docs[i].synth # docs'[i].synth => docs'[i].synth > past.given]_vars

\* "cloning cannot grow the registry past the cap" (clone_snapshot): once every
\* request is answered the registry is within snapshot_cap, however many creates
\* and clones listed and evicted at the same time.
CapKept == AtRest => Cardinality(DOMAIN docs) <= Cap

\* Both halves of what becomes of the copies.
CopiesAccounted == CopyNamed /\ CopyFreed

\* 5.16.1.4: the background fill derives the status: a live snapshot does not
\* stay in preparation, unless an update wrote its own earlier copy of the
\* document back.
Settles ==
    AtRest => \A i \in DOMAIN docs :
                 docs[i].status # "preparing" \/ expired(docs[i]) \/ docs[i].synth \in past.updated
=============================================================================
