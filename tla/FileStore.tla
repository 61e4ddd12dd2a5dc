------------------------------ MODULE FileStore ------------------------------
(***************************************************************************)
(* The memory and file drivers (antares-sql store/mem/mod.rs, redb.rs):    *)
(* documents in maps behind one write section, each change of a document   *)
(* committed to the file before the section is left, and the change hook   *)
(* of an Entity run after the section but before emit_order is given up.   *)
(*                                                                         *)
(* A call on one document is one step, for the section is held throughout  *)
(* and a crash between the map and the file loses the map anyway.  What    *)
(* holds the section over many documents, a sweep or a purge, commits them *)
(* one by one: nobody reads in between, but the process may die there.     *)
(***************************************************************************)
EXTENDS Integers, FiniteSets

CONSTANTS
    Keys,       \* documents: kind, tenant and id
    Clients,    \* handlers and background tasks
    Asks,       \* the calls they make
    MaxTime,
    MaxCalls, MaxFaults,    \* calls made, callers lost and crashes: bounds
    Limit,      \* the page of a walk (SEED_PAGE, SCAN_PAGE)
    Absent, Nobody

\* What the store sees of a document: its body, and two stamps of 4.22 (0 for
\* none), the Entity's own and that of an Attribute instance in it.
Docs == [val : Nat, till : Nat, inst : Nat]

ASSUME FileStoreAssumption ==
    /\ MaxTime \in Nat \ {0} /\ MaxCalls \in Nat /\ MaxFaults \in Nat /\ Limit \in Nat \ {0}
    /\ Nobody \notin Clients /\ Absent \notin Docs
    /\ \A k \in Keys : k.id \in Nat \ {0}
    /\ \A a \in Asks :
          \/ a.op = "purge" /\ a.tenant \in {k.tenant : k \in Keys}
          \/ /\ a.key \in Keys
             /\ \/ a.op \in {"create", "upsert"} /\ a.doc \in Docs
                \/ a.op = "mutate" /\ a.val \in Nat
                \/ a.op \in {"delete", "delete_if", "get"}

VARIABLES
    time,
    mem,        \* the maps (Inner)
    file,       \* the tables (Shadow)
    known,      \* the tenants that have a map of some kind
    section,    \* what holds the write section between two commits
    order,      \* who holds emit_order
    calls,      \* calls[c]: the call of client c
    told,       \* told[k]: the after-image the hook last saw
    gap,        \* the keys whose last change no hook saw
    walk,       \* a walk over the Entities of one tenant, page by page
    stayed,     \* what was there all through that walk
    asked, faults

coreVars == <<time, mem, file, known, section, order, calls, told, gap>>
vars == <<coreVars, walk, stayed, asked, faults>>

Idle == [pc |-> "idle"]
Free == [what |-> "free"]
Still == [pc |-> "still"]

Tenants == {k.tenant : k \in Keys}
IsEntity(k) == k.kind = "entity"
\* 5.13.1: @contexts lie in a map of their own, with their owner in the row.
IsContext(k) == k.kind = "context"
DocsOf(t) == {k \in Keys : k.tenant = t /\ ~ IsContext(k)}
ContextsOf(t) == {k \in Keys : k.tenant = t /\ IsContext(k)}

-----------------------------------------------------------------------------
(* 4.22.                                                                   *)

expired_at(stamp, now) == stamp # 0 /\ stamp < now

\* An expired document is absent, an expired instance is not in it.
strip_expired(d, now) ==
    IF d = Absent \/ expired_at(d.till, now) THEN Absent
    ELSE [val |-> d.val, till |-> d.till, inst |-> IF expired_at(d.inst, now) THEN 0 ELSE d.inst]

\* What a read makes of a document.  Only Entities carry the stamp of 4.22:
\* Subscriptions and registrations have expiry rules of their own.
Read(k, d, now) == IF IsEntity(k) THEN strip_expired(d, now) ELSE d

\* Mutant: whatever has a stamp goes by it.
is_expired_any(k) == mem[k] # Absent /\ expired_at(mem[k].till, time)

is_expired(k) == IsEntity(k) /\ mem[k] # Absent /\ expired_at(mem[k].till, time)

-----------------------------------------------------------------------------
(* A call.  An Entity's writer first waits for emit_order.                 *)

Writes == {"create", "upsert", "delete", "delete_if", "mutate"}
NeedsOrder(a) == a.op \in Writes /\ IsEntity(a.key)
At(c, s) == calls' = [calls EXCEPT ![c] = s]

Ask(c) ==
    /\ calls[c].pc = "idle" /\ asked < MaxCalls
    /\ \E a \in Asks : At(c, [pc |-> "asked", ask |-> a])
    /\ asked' = asked + 1
    /\ UNCHANGED <<time, mem, file, known, section, order, told, gap, walk, faults>>

emit_ordered(c) ==
    /\ calls[c].pc = "asked" /\ NeedsOrder(calls[c].ask) /\ order = Nobody
    /\ order' = c
    /\ At(c, [pc |-> "ordered", ask |-> calls[c].ask])
    /\ UNCHANGED <<time, mem, file, known, section, told, gap, walk, asked, faults>>

\* Mutant: emit_order is not taken before the commit.
Ready_unordered(c, op) ==
    /\ section.what = "free" /\ calls[c].pc \in {"asked", "ordered"} /\ calls[c].ask.op = op

\* In the section, alone.
Ready(c, op) ==
    /\ section.what = "free" /\ calls[c].pc \in {"asked", "ordered"} /\ calls[c].ask.op = op
    /\ calls[c].pc = IF NeedsOrder(calls[c].ask) THEN "ordered" ELSE "asked"

\* The document goes to the map and the file; an event, if any, to the hook.
Leaves(c, doc, answer, found, event) ==
    LET k == calls[c].ask.key
    IN  /\ mem' = [mem EXCEPT ![k] = doc]
        /\ file' = [file EXCEPT ![k] = doc]
        /\ At(c, [pc |-> "done", ask |-> calls[c].ask, answer |-> answer, found |-> found,
                  event |-> IsEntity(k) /\ event, image |-> doc])
        /\ gap' = IF IsEntity(k) /\ event THEN gap \ {k} ELSE gap
        /\ UNCHANGED <<time, section, order, told, walk, asked, faults>>

\* A call that finds nothing to do.
Refuses(c, answer) ==
    Leaves(c, mem[calls[c].ask.key], answer, Absent, FALSE)

\* entry(tenant).or_default(): the tenant gets its map whatever follows.
Enters(k) ==
    known' = IF IsContext(k) THEN known ELSE known \cup {k.tenant}
NobodyEnters == UNCHANGED known

Create(c) ==
    /\ Ready(c, "create")
    /\ LET a == calls[c].ask
       IN  /\ IF mem[a.key] # Absent /\ ~ is_expired(a.key)
              THEN Refuses(c, "refused")
              ELSE Leaves(c, a.doc, "created", Absent, TRUE)
           /\ Enters(a.key)

Upsert(c) ==
    /\ Ready(c, "upsert")
    /\ LET a == calls[c].ask
       IN  /\ Leaves(c, a.doc, IF mem[a.key] # Absent /\ ~ is_expired(a.key) THEN "done" ELSE "created",
                     Absent, TRUE)
           /\ Enters(a.key)

\* An expired document is left for the sweep.
Delete(c) ==
    /\ Ready(c, "delete")
    /\ LET k == calls[c].ask.key
       IN  IF mem[k] = Absent \/ is_expired(k) THEN Refuses(c, "absent")
           ELSE Leaves(c, Absent, "done", Absent, TRUE)
    /\ NobodyEnters

\* The closure judges what a reader would see (delete_entity_if).
delete_if(c) ==
    /\ Ready(c, "delete_if")
    /\ LET a == calls[c].ask
           seen == Read(a.key, mem[a.key], time)
       IN  IF seen = Absent \/ seen.val \notin a.keep THEN Refuses(c, "absent")
           ELSE Leaves(c, Absent, "done", Absent, TRUE)
    /\ NobodyEnters

\* The closure works on a copy, which takes the document's place.
Mutate(c) ==
    /\ Ready(c, "mutate")
    /\ LET a == calls[c].ask
           d == mem[a.key]
       IN  IF d = Absent \/ is_expired(a.key) THEN Refuses(c, "absent")
           ELSE IF d.val \in a.refuses THEN Refuses(c, "refused")
           ELSE Leaves(c, [val |-> a.val, till |-> d.till, inst |-> d.inst], "done", Absent,
                       d.val # a.val)
    /\ NobodyEnters

Get(c) ==
    /\ Ready(c, "get")
    /\ LET k == calls[c].ask.key
           seen == Read(k, mem[k], time)
       IN  Leaves(c, mem[k], IF seen = Absent THEN "absent" ELSE "done", seen, FALSE)
    /\ NobodyEnters

\* The hook runs, then emit_order is given up and the caller has its answer.
emit(c) ==
    /\ calls[c].pc = "done"
    /\ told' = IF calls[c].event
               THEN [told EXCEPT ![calls[c].ask.key] = calls[c].image] ELSE told
    /\ order' = IF order = c THEN Nobody ELSE order
    /\ At(c, Idle)
    /\ UNCHANGED <<time, mem, file, known, section, gap, walk, asked, faults>>

-----------------------------------------------------------------------------
(* What holds the section over several commits.                            *)

Held(k) == mem[k] # Absent

\* purge_kinds: the maps go first, then each of their rows.  No emit_order,
\* no event.
purge_kinds(c) ==
    /\ Ready(c, "purge")
    /\ LET t == calls[c].ask.tenant
       IN  /\ section' = [who |-> c, what |-> "purge", todo |-> {k \in DocsOf(t) : Held(k)}]
           /\ mem' = [k \in Keys |-> IF k \in DocsOf(t) THEN Absent ELSE mem[k]]
           /\ gap' = gap \cup {k \in DocsOf(t) : IsEntity(k)}
           /\ At(c, [pc |-> "purging", ask |-> calls[c].ask, 
                     answer |-> IF t \in known THEN "done" ELSE "absent"])
           /\ known' = known \ {t}
    /\ UNCHANGED <<time, file, order, told, walk, asked, faults>>

\* The tenant's @contexts, in a section of their own.
purge_contexts(c) ==
    /\ section.what = "free" /\ calls[c].pc = "purged"
    /\ LET t == calls[c].ask.tenant
       IN  section' = [who |-> c, what |-> "contexts", todo |-> {k \in ContextsOf(t) : Held(k)}]
    /\ At(c, [pc |-> "purging", ask |-> calls[c].ask, answer |-> calls[c].answer])
    /\ UNCHANGED <<time, mem, file, known, order, told, gap, walk, asked, faults>>

PersistPurge(k) ==
    /\ section.what \in {"purge", "contexts"} /\ k \in section.todo
    /\ file' = [file EXCEPT ![k] = Absent]
    /\ mem' = [mem EXCEPT ![k] = Absent]
    /\ section' = [section EXCEPT !.todo = @ \ {k}]
    /\ UNCHANGED <<time, known, order, calls, told, gap, walk, asked, faults>>

LeavePurge(c) ==
    /\ section.what \in {"purge", "contexts"} /\ section.who = c /\ section.todo = {}
    /\ section' = Free
    /\ IF section.what = "purge"
       THEN At(c, [pc |-> "purged", ask |-> calls[c].ask, answer |-> calls[c].answer])
       ELSE At(c, [pc |-> "done", ask |-> calls[c].ask, answer |-> calls[c].answer,
                   found |-> Absent, event |-> FALSE, image |-> Absent])
    /\ UNCHANGED <<time, mem, file, known, order, told, gap, walk, asked, faults>>

\* sweep_expired: what expired by the instant it was called at, before it
\* waited for the section, row by row.
Sweep ==
    /\ section.what = "free"
    /\ \E n \in 1..time : section' = [what |-> "sweep", now |-> n]
    /\ UNCHANGED <<time, mem, file, known, order, calls, told, gap, walk, asked, faults>>

\* An expired Entity is removed, the expired instances of another pruned.
Reap(k) ==
    /\ section.what = "sweep"
    /\ IsEntity(k) /\ mem[k] # Absent /\ strip_expired(mem[k], section.now) # mem[k]
    /\ file' = [file EXCEPT ![k] = strip_expired(mem[k], section.now)]
    /\ mem' = [mem EXCEPT ![k] = strip_expired(mem[k], section.now)]
    /\ UNCHANGED <<time, known, section, order, calls, told, gap, walk, asked, faults>>

LeaveSweep ==
    /\ section.what = "sweep"
    /\ \A k \in Keys : IsEntity(k) => strip_expired(mem[k], section.now) = mem[k]
    /\ section' = Free
    /\ UNCHANGED <<time, mem, file, known, order, calls, told, gap, walk, asked, faults>>

-----------------------------------------------------------------------------
(* A walk over the Entities of a tenant (list_page), as the readers that   *)
(* may not be refused make it: pages of Limit by id, until one is short.   *)

EntitiesOf(t) == {k \in Keys : k.tenant = t /\ IsEntity(k)}
There(k) == Read(k, mem[k], time) # Absent

BeginWalk(t) ==
    /\ walk.pc = "still"
    /\ walk' = [pc |-> "walking", tenant |-> t, after |-> 0, got |-> {}]
    /\ UNCHANGED <<coreVars, asked, faults>>

\* Keyset, not offset: the rows above the last id seen, of what is there.
Rows(t, after) == {k \in EntitiesOf(t) : k.id > after /\ There(k)}
UpTo(rows, last) == {k \in rows : k.id <= last.id}

\* Mutant: the page is cut before what expired is dropped from it.
list_page_cut ==
    /\ walk.pc = "walking" /\ section.what = "free"
    /\ LET rows == {k \in EntitiesOf(walk.tenant) : k.id > walk.after /\ mem[k] # Absent}
       IN  \/ /\ Cardinality(rows) < Limit
             /\ walk' = [walk EXCEPT !.got = @ \cup {k \in rows : There(k)}, !.pc = "walked"]
          \/ \E last \in rows :
                LET page == {k \in UpTo(rows, last) : There(k)}
                IN  /\ Cardinality(UpTo(rows, last)) = Limit
                    /\ walk' = [walk EXCEPT !.got = @ \cup page, !.after = last.id,
                                  !.pc = IF Cardinality(page) < Limit THEN "walked" ELSE @]
    /\ UNCHANGED <<coreVars, asked, faults>>

list_page ==
    /\ walk.pc = "walking" /\ section.what = "free"
    /\ LET rows == Rows(walk.tenant, walk.after)
       IN  \/ /\ Cardinality(rows) < Limit
             /\ walk' = [walk EXCEPT !.got = @ \cup rows, !.pc = "walked"]
          \/ \E last \in rows :
                /\ Cardinality(UpTo(rows, last)) = Limit
                /\ walk' = [walk EXCEPT !.got = @ \cup UpTo(rows, last), !.after = last.id]
    /\ UNCHANGED <<coreVars, asked, faults>>

-----------------------------------------------------------------------------
(* Faults and time.                                                        *)

Fault == faults < MaxFaults /\ faults' = faults + 1

\* Mutant: emit_order stays with a caller that is gone.
HangUp_keeping(c) ==
    /\ Fault
    /\ calls[c].pc \in {"asked", "done"}
    /\ At(c, Idle)
    /\ gap' = IF calls[c].pc = "done" /\ calls[c].event THEN gap \cup {calls[c].ask.key} ELSE gap
    /\ UNCHANGED <<time, mem, file, known, section, order, told, walk, asked>>

\* A client hangs up while its handler waits for emit_order or for the hook.
HangUp(c) ==
    /\ Fault
    /\ calls[c].pc \in {"asked", "done"}
    /\ At(c, Idle)
    /\ order' = IF order = c THEN Nobody ELSE order
    /\ gap' = IF calls[c].pc = "done" /\ calls[c].event THEN gap \cup {calls[c].ask.key} ELSE gap
    /\ UNCHANGED <<time, mem, file, known, section, told, walk, asked>>

\* from_database: the maps are what the file holds; a new process has told
\* nobody anything else.
Crash ==
    /\ Fault
    /\ mem' = file
    /\ known' = {k.tenant : k \in {j \in Keys : file[j] # Absent /\ ~ IsContext(j)}}
    /\ section' = Free /\ order' = Nobody
    /\ calls' = [c \in Clients |-> Idle]
    /\ told' = file /\ gap' = {}
    /\ walk' = Still
    /\ UNCHANGED <<time, file, asked>>

Tick ==
    /\ time < MaxTime
    /\ time' = time + 1
    /\ UNCHANGED <<mem, file, known, section, order, calls, told, gap, walk, asked, faults>>

-----------------------------------------------------------------------------
Init ==
    /\ time = 1
    /\ mem = [k \in Keys |-> Absent] /\ file = mem /\ told = mem
    /\ known = {} /\ section = Free /\ order = Nobody
    /\ calls = [c \in Clients |-> Idle]
    /\ gap = {} /\ walk = Still /\ stayed = {} /\ asked = 0 /\ faults = 0

Call(c) ==
    \/ Ask(c) \/ emit_ordered(c) \/ Create(c) \/ Upsert(c) \/ Delete(c) \/ delete_if(c)
    \/ Mutate(c) \/ Get(c) \/ emit(c) \/ purge_kinds(c) \/ purge_contexts(c) \/ LeavePurge(c)

Step ==
    \/ \E c \in Clients : Call(c) \/ HangUp(c)
    \/ \E k \in Keys : PersistPurge(k) \/ Reap(k)
    \/ Sweep \/ LeaveSweep
    \/ \E t \in Tenants : BeginWalk(t)
    \/ list_page \/ Crash \/ Tick

Next ==
    /\ Step
    /\ stayed' = {k \in IF walk.pc = "still" /\ walk'.pc # "still"
                          THEN EntitiesOf(walk'.tenant) ELSE stayed : There(k)'}

Spec == Init /\ [][Next]_vars

-----------------------------------------------------------------------------
(* The contract (StoreContract): what is held is what the file has.        *)

Met(c) ==
    LET t == calls[c].ask.tenant
    IN  IF calls[c].pc = "purged" THEN DocsOf(t)
        ELSE (IF section.what = "purge" THEN DocsOf(t) ELSE DocsOf(t) \cup ContextsOf(t))
             \ section.todo
View(c) ==
    CASE calls[c].pc = "idle" -> Idle
      [] calls[c].pc \in {"asked", "ordered"} ->
             [pc |-> "asked", ask |-> calls[c].ask, met |-> {}]
      [] calls[c].pc \in {"purging", "purged"} ->
             [pc |-> "asked", ask |-> calls[c].ask, met |-> Met(c)]
      [] OTHER -> [pc |-> "taken", ask |-> calls[c].ask,
                     answer |-> calls[c].answer, found |-> calls[c].found]

Holds == [k \in Keys |-> Read(k, file[k], time)]
Views == [c \in Clients |-> View(c)]

Contract == INSTANCE StoreContract WITH held <- Holds, calls <- Views

-----------------------------------------------------------------------------
(* Properties.                                                             *)

Answers == {"created", "done", "refused", "absent"}
Calls ==
    [pc : {"idle"}] \cup [pc : {"asked", "ordered"}, ask : Asks]
      \cup [pc : {"purging", "purged"}, ask : Asks, answer : {"done", "absent"}]
      \cup [pc : {"done"}, ask : Asks, answer : Answers, found : Docs \cup {Absent},
            event : BOOLEAN, image : Docs \cup {Absent}]
Sections ==
    [what : {"free"}] \cup [what : {"sweep"}, now : 1..MaxTime]
      \cup [what : {"purge", "contexts"}, who : Clients, todo : SUBSET Keys]

\* Every variable is well formed, and a lock is held by a call at work.
TypeOK ==
    /\ time \in 1..MaxTime
    /\ mem \in [Keys -> Docs \cup {Absent}] /\ file \in [Keys -> Docs \cup {Absent}]
    /\ told \in [Keys -> Docs \cup {Absent}]
    /\ known \subseteq Tenants
    /\ gap \subseteq Keys /\ stayed \subseteq Keys
    /\ section \in Sections /\ calls \in [Clients -> Calls]
    /\ order \in Clients \cup {Nobody}
    /\ order # Nobody => calls[order].pc \in {"ordered", "done"}
    /\ section.what \in {"purge", "contexts"} => calls[section.who].pc = "purging"
    /\ walk \in [pc : {"still"}]
          \cup [pc : {"walking", "walked"}, tenant : Tenants, after : Nat, got : SUBSET Keys]
    /\ asked \in 0..MaxCalls /\ faults \in 0..MaxFaults

\* The driver keeps the contract: each call takes effect at one instant, on
\* what its callers can see, and nothing that was answered is lost in a crash
\* (write_inner, persist, Shadow::write, sweep_expired, purge_tenant).
ImplementsStore == Contract!Spec

\* Wherever nobody is between its commit and its hook, the hook was last told
\* what is stored (emit_order), except where a caller hung up or a purge took
\* the document, which tell nobody.
FeedTrue ==
    \A k \in Keys :
        \/ ~ IsEntity(k) \/ k \in gap
        \/ \E c \in Clients : calls[c].pc = "done" /\ calls[c].event
                              /\ calls[c].ask.key = k
        \/ Read(k, told[k], time) = Read(k, mem[k], time)

\* A walk in pages meets everything that was there all through it, whatever
\* is written, removed or expires meanwhile (list_page).
WalkComplete == walk.pc = "walked" => stayed \subseteq walk.got
=============================================================================
