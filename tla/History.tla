------------------------------- MODULE History -------------------------------
(***************************************************************************)
(* The Temporal Evolution recorded for one Entity (antares-api history.rs, *)
(* temporal.rs; pg/temporal.rs).  A write of the Entity commits, leaves    *)
(* its instance in the request's buffer and appends it to the history when *)
(* the handler is done; a delete of the Entity, or of an Attribute, is     *)
(* mirrored in a second transaction; and clients edit the history itself.  *)
(* Requests interleave between any two of these, and any of them can fail. *)
(*                                                                         *)
(* An instance is its Attribute, its observedAt, its value and its         *)
(* instanceId: time stamps other than observedAt, datasetId, the Entity    *)
(* Types and the Scope are left out, and expiry is.                        *)
(***************************************************************************)
EXTENDS Integers, FiniteSets

CONSTANTS
    Attrs,
    Times,        \* the instants an instance is observed at
    NoTime,       \* of an instance that carries no observedAt
    Values,
    Null,         \* the value "urn:ngsi-ld:null" of a deletion
    Handlers,     \* concurrently running requests
    Ops,          \* what they ask for
    Locking,      \* does an append hold the Entity it found? (Postgres)
    Record,       \* ANTARES_TEMPORAL_RECORD: "all" or "observed"
    MaxAttempts,  \* turns of the upsert's loop
    MaxAsks, MaxFails


VARIABLES
    entity,  \* the Entity: is it there, and with which instances
    evo,     \* its evolution: is it there, who created it, which instances it has
    hs,      \* hs[h]: a request between two store calls
    spent    \* requests, failures, random instanceIds and deleted Entities so far

vars == <<entity, evo, hs, spent>>

Instants == Times \cup {NoTime}
Counts == {"asks", "fails", "ids", "deletes"}
Ids == [made : {"observed"}, n : Times] \cup [made : {"random"}, n : Nat \ {0}]
Instances == [attr : Attrs, at : Instants, val : Values \cup {Null}, id : Ids]
Inputs == [attr : Attrs, at : Instants, val : Values]

NoEntity == [live |-> FALSE, insts |-> {}]
NoEvolution == [stored |-> FALSE, by |-> "core", insts |-> {}]
Free == [pc |-> "free"]

TypeOK ==
    /\ entity \in [live : BOOLEAN, insts : SUBSET Inputs]
    /\ evo \in [stored : BOOLEAN, by : {"core", "api", "lost"}, insts : SUBSET Instances]
    /\ \A h \in Handlers :
          hs[h] \in {Free} \cup [pc : {"drain", "append", "extend"}, ev : Instances, seen : Nat]
                           \cup [pc : {"mirror"}] \cup [pc : {"tombstone"}, attr : Attrs]
                           \cup [pc : {"get", "create", "merge"}, in : Inputs, n : Nat]
    /\ spent \in [Counts -> Nat]

Init ==
    /\ entity = NoEntity /\ evo = NoEvolution
    /\ hs = [h \in Handlers |-> Free]
    /\ spent = [c \in Counts |-> 0]

-----------------------------------------------------------------------------
(* What a request does to an instance.                                     *)

Like(i, in) == i.attr = in.attr /\ i.at = in.at /\ i.val = in.val

\* The id of an observed instance is made of what it observes and when; any
\* other is random.
instance_id(in) ==
    IF in.at = NoTime THEN [made |-> "random", n |-> spent.ids + 1]
                      ELSE [made |-> "observed", n |-> in.at]
Fresh == [made |-> "random", n |-> spent.ids + 1]
Stamped(in, id) == [attr |-> in.attr, at |-> in.at, val |-> in.val, id |-> id]

observed_gate(i) == Record = "all" \/ i.at # NoTime

\* insert_rows: an instance takes the place of the one with its id.
insert_rows(insts, i) == {j \in insts : j.attr # i.attr \/ j.id # i.id} \cup {i}

\* Handlers are alike: a request takes the first that is free.
Ask(h, op) ==
    /\ hs[h] = Free /\ \A g \in Handlers : g < h => hs[g] # Free
    /\ op \in Ops /\ spent.asks < MaxAsks
Go(h, s) == hs' = [hs EXCEPT ![h] = s]
Answer(h) == Go(h, Free)
Count(c) == spent' = [spent EXCEPT ![c] = @ + 1]
Count2(c, d) == spent' = [spent EXCEPT ![c] = @ + 1, ![d] = @ + 1]

-----------------------------------------------------------------------------
(* Writes of the Entity, and their recording.                              *)

\* What differs from the stored Attribute in more than volatile members.
changed_instances(in) == {in} \ entity.insts

\* The write commits and its hook buffers one event, unless nothing changed or
\* the gate keeps it out.
Write(h, in) ==
    LET old == {i \in entity.insts : i.attr = in.attr}
        ev == Stamped(in, instance_id(in))
    IN /\ Ask(h, "write")
       /\ entity' = [live |-> TRUE, insts |-> (entity.insts \ old) \cup {in}]
       /\ IF changed_instances(in) = {} \/ ~observed_gate(in)
          THEN Answer(h) /\ Count("asks")
          ELSE Go(h, [pc |-> "drain", ev |-> ev, seen |-> spent.deletes]) /\ Count2("asks", "ids")
       /\ UNCHANGED evo

\* The append looks for the Entity first: the Postgres driver locks the row it
\* finds (FOR KEY SHARE), the memory driver lets it go.
Drain(h) ==
    /\ hs[h].pc = "drain"
    /\ IF entity.live THEN Go(h, [hs[h] EXCEPT !.pc = "append"]) ELSE Answer(h)
    /\ UNCHANGED <<entity, evo, spent>>

\* Postgres: the shell and the instance in the transaction that holds the lock.
\* Memory: the shell, and the instance in a second call.
temporal_append(h) ==
    /\ hs[h].pc = "append"
    /\ IF Locking
       THEN /\ evo' = [evo EXCEPT !.stored = TRUE, !.insts = insert_rows(@, hs[h].ev)]
            /\ Answer(h)
       ELSE /\ evo' = [evo EXCEPT !.stored = TRUE]
            /\ Go(h, [hs[h] EXCEPT !.pc = "extend"])
    /\ UNCHANGED <<entity, spent>>

Extend(h) ==
    /\ hs[h].pc = "extend"
    /\ evo' = IF evo.stored THEN [evo EXCEPT !.insts = insert_rows(@, hs[h].ev)] ELSE evo
    /\ Answer(h)
    /\ UNCHANGED <<entity, spent>>

\* A drain that fails loses its events and leaves the answer alone.
DrainFails(h) ==
    /\ hs[h].pc \in {"drain", "append"} /\ spent.fails < MaxFails
    /\ Count("fails") /\ Answer(h)
    /\ UNCHANGED <<entity, evo>>

\* Mutant: the append does not hold the Entity it found.
MayDelete_unlocked == entity.live

\* A delete of the Entity waits for the appends that hold it.
MayDelete == entity.live /\ (Locking => \A h \in Handlers : hs[h].pc # "append")

delete_entity(h) ==
    /\ Ask(h, "delete") /\ MayDelete
    /\ entity' = NoEntity
    /\ Go(h, [pc |-> "mirror"]) /\ Count2("asks", "deletes")
    /\ UNCHANGED evo

mirror_delete_entity(h) ==
    /\ hs[h].pc = "mirror"
    /\ evo' = NoEvolution /\ Answer(h)
    /\ UNCHANGED <<entity, spent>>

\* The driver fails, or the process stops between the two transactions.
MirrorFails(h) ==
    /\ hs[h].pc \in {"mirror", "tombstone"} /\ spent.fails < MaxFails
    /\ evo' = IF hs[h].pc = "mirror" /\ evo.stored THEN [evo EXCEPT !.by = "lost"] ELSE evo
    /\ Count("fails") /\ Answer(h)
    /\ UNCHANGED entity

\* delete_attr is mirrored whether or not the Entity is there.
delete_attr(h, a) ==
    /\ Ask(h, "delete_attr") /\ (entity.live \/ evo.stored)
    /\ entity' = [entity EXCEPT !.insts = {i \in @ : i.attr # a}]
    /\ Go(h, [pc |-> "tombstone", attr |-> a]) /\ Count("asks")
    /\ UNCHANGED evo

mirror_delete_attr(h) ==
    LET gone == [attr |-> hs[h].attr, at |-> NoTime, val |-> Null]
        had == \E i \in evo.insts : i.attr = hs[h].attr
    IN /\ hs[h].pc = "tombstone"
       /\ IF had THEN /\ evo' = [evo EXCEPT !.insts = @ \cup {Stamped(gone, Fresh)}]
                      /\ Count("ids")
                 ELSE UNCHANGED <<evo, spent>>
       /\ Answer(h)
       /\ UNCHANGED entity

-----------------------------------------------------------------------------
(* Requests for the history itself.                                        *)

\* upsert_temporal_local: look, then create or merge, and look again when the
\* other of the two turned out to be right.
upsert_temporal(h, in) ==
    /\ Ask(h, "upsert")
    /\ Go(h, [pc |-> "get", in |-> in, n |-> 0]) /\ Count("asks")
    /\ UNCHANGED <<entity, evo>>

UpsertGet(h) ==
    /\ hs[h].pc = "get"
    /\ IF hs[h].n = MaxAttempts THEN Answer(h)
       ELSE Go(h, [hs[h] EXCEPT !.pc = IF evo.stored THEN "merge" ELSE "create", !.n = @ + 1])
    /\ UNCHANGED <<entity, evo, spent>>

\* Mutant: who loses the race to create has created, too.
UpsertCreate_lost(h) ==
    /\ hs[h].pc = "create"
    /\ IF evo.stored THEN UNCHANGED evo
       ELSE evo' = [stored |-> TRUE, by |-> "api", insts |-> {Stamped(hs[h].in, Fresh)}]
    /\ Answer(h) /\ Count("ids")
    /\ UNCHANGED entity

UpsertCreate(h) ==
    /\ hs[h].pc = "create"
    /\ IF evo.stored
       THEN Go(h, [hs[h] EXCEPT !.pc = "get"]) /\ UNCHANGED <<evo, spent>>
       ELSE /\ evo' = [stored |-> TRUE, by |-> "api", insts |-> {Stamped(hs[h].in, Fresh)}]
            /\ Answer(h) /\ Count("ids")
    /\ UNCHANGED entity

\* An observed instance corrects one of the same instant.
Corrected(in) == {i \in evo.insts : in.at # NoTime /\ i.attr = in.attr /\ i.at = in.at}

\* Mutant: a correction comes with an id of its own.
Merged_anew(in) ==
    {[evo EXCEPT !.insts = (@ \ {i}) \cup {Stamped(in, Fresh)}] : i \in Corrected(in)}

\* ... and keeps the instanceId its client was handed.
Merged(in) ==
    {[evo EXCEPT !.insts = (@ \ {i}) \cup {Stamped(in, i.id)}] : i \in Corrected(in)}

UpsertMerge(h) ==
    LET in == hs[h].in
    IN /\ hs[h].pc = "merge"
       /\ IF ~evo.stored THEN Go(h, [hs[h] EXCEPT !.pc = "get"]) /\ UNCHANGED <<evo, spent>>
          ELSE /\ evo' \in IF Corrected(in) # {} THEN Merged(in)
                           ELSE {[evo EXCEPT !.insts = @ \cup {Stamped(in, Fresh)}]}
               /\ Answer(h) /\ Count("ids")
       /\ UNCHANGED entity

\* The other edits are one call each.
Edit(h, op) == Ask(h, op) /\ evo.stored /\ UNCHANGED <<entity, hs>>

add_temporal_instances(h, in) ==
    /\ Edit(h, "add") /\ Count2("asks", "ids")
    /\ evo' = [evo EXCEPT !.insts = @ \cup {Stamped(in, Fresh)}]

delete_temporal(h) ==
    /\ Edit(h, "delete_temporal") /\ Count("asks")
    /\ evo' = NoEvolution

delete_temporal_attr(h, a) ==
    /\ Edit(h, "delete_temporal_attr") /\ Count("asks")
    /\ evo' = [evo EXCEPT !.insts = {i \in @ : i.attr # a}]

\* The fragment keeps the instant (a bound: it may change it).
modify_temporal_instance(h, i, v) ==
    /\ Edit(h, "modify") /\ Count("asks")
    /\ evo' = [evo EXCEPT !.insts = (@ \ {i}) \cup {[i EXCEPT !.val = v]}]

delete_temporal_instance(h, i) ==
    /\ Edit(h, "delete_instance") /\ Count("asks")
    /\ evo' = [evo EXCEPT !.insts = @ \ {i}]

-----------------------------------------------------------------------------
Next ==
    \E h \in Handlers :
       \/ \E in \in Inputs : Write(h, in) \/ upsert_temporal(h, in) \/ add_temporal_instances(h, in)
       \/ Drain(h) \/ temporal_append(h) \/ Extend(h) \/ DrainFails(h)
       \/ delete_entity(h) \/ mirror_delete_entity(h) \/ MirrorFails(h)
       \/ mirror_delete_attr(h) \/ delete_temporal(h)
       \/ \E a \in Attrs : delete_attr(h, a) \/ delete_temporal_attr(h, a)
       \/ UpsertGet(h) \/ UpsertCreate(h) \/ UpsertMerge(h)
       \/ \E i \in evo.insts : delete_temporal_instance(h, i)
                               \/ \E v \in Values : modify_temporal_instance(h, i, v)

Spec == Init /\ [][Next]_vars

-----------------------------------------------------------------------------
(* Properties.                                                             *)

\* History recorded for an Entity does not outlive it, except while the delete
\* is between its two transactions or when the second one failed: nothing
\* would ever clean it (temporal_append's guard, mirror_delete_entity).
NoOrphanHistory ==
    evo.stored /\ evo.by = "core" /\ ~entity.live => \E h \in Handlers : hs[h].pc = "mirror"

\* A client reads its own history right after its write: an answered upsert is
\* stored, whoever it raced, and so is a recorded write, unless the drain
\* failed or the Entity was deleted since it committed (upsert_temporal_local,
\* history::layer).
Recorded(h) ==
    /\ hs[h].pc \in {"create", "merge"} /\ hs'[h] = Free => \E i \in evo'.insts : Like(i, hs[h].in)
    /\ hs[h].pc \in {"drain", "append"} /\ hs'[h] = Free =>
          hs[h].ev \in evo'.insts \/ spent'.fails > spent.fails \/ spent.deletes > hs[h].seen
ReadYourHistory == [][\A h \in Handlers : Recorded(h)]_vars

\* A step that takes nothing away leaves every instanceId its clients were
\* handed (5.6.14 and 5.6.15 address an instance by it).
InstanceIds(insts) == {<<i.attr, i.id>> : i \in insts}
Kept == Cardinality(evo'.insts) >= Cardinality(evo.insts)
           => InstanceIds(evo.insts) \subseteq InstanceIds(evo'.insts)
InstanceIdsKept == [][Kept]_vars
=============================================================================
