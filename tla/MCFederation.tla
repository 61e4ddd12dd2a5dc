---------------------------- MODULE MCFederation ----------------------------
(***************************************************************************)
(* Distributed writes and the registrations they follow, one part to a     *)
(* behaviour: single writes, batches, concurrent registration writes, one  *)
(* pod's mirror of the registrations, and a subscription's copies at the   *)
(* registered sources, whose module this one extends.  The parts share no  *)
(* state; the ones a behaviour is not about stay where they started.       *)
(***************************************************************************)
EXTENDS DistSub, Sequences, TLC

CONSTANTS e1, e2, t1, t2, x1, x2, s1, s2, q1, q2, h1, h2, p1,
          Every, Own, Other, Absent, Keep, Free, NoReg, MaxHops

VARIABLES
    part,
    docs, held,                                              \* writes and batches
    row, req,                                                \* writes
    rows, bt, races,                                         \* batches
    store, past, lock, asked, sweep, jobs, pods, used        \* registrations

writeVars == <<row, req>>
batchVars == <<rows, bt, races>>
regVars   == <<store, past, lock, asked, sweep, jobs, pods, used>>

-----------------------------------------------------------------------------
(* Single writes: one arbitrary request, and a local create or delete that *)
(* races it.                                                               *)

AllOps == {"createEntity", "deleteEntity", "mergeEntity", "replaceEntity", "updateEntity",
           "appendAttrs", "updateAttrs", "replaceAttrs", "deleteAttrs"}
SomeOps == AllOps \ {"deleteEntity", "mergeEntity", "replaceEntity", "updateEntity"}

Info(ids, types, attrs) ==
    [ents |-> IF ids = Every /\ types = Every THEN Every ELSE {[ids |-> ids, types |-> types]},
     attrs |-> attrs]
Reg(id, s, mode, ops, infos) ==
    [id |-> id, src |-> s, mode |-> mode, ops |-> ops, expired |-> FALSE, infos |-> infos]

Exclusive(s, A) == Reg("x", s, "exclusive", AllOps, {Info({e1}, {t1}, A)})
Redirect(id, s, A) == Reg(id, s, "redirect", AllOps, {Info(Every, {t1}, A)})
Inclusive(s, ops, A) == Reg("i", s, "inclusive", ops, {Info({e1, e2}, Every, A)})

WriteCatalogue ==
    { <<Exclusive(s1, {x1}), Inclusive(s2, AllOps, Every)>>,
      <<Redirect("r", s1, {x1}), Redirect("s", s2, {x1, x2})>>,
      \* one source registered twice folds into one registration
      <<Redirect("r", s1, {x1}), Inclusive(s2, AllOps, {x2}), Redirect("s", s1, {x2})>>,
      \* two RegistrationInfos, one of them about another entity
      <<Reg("m", s1, "redirect", SomeOps,
            {Info({e1}, Every, {x1}), Info({e2}, Every, Every)}), Inclusive(s2, SomeOps, {x1})>>,
      \* two RegistrationInfos, one of them about another type
      <<Reg("t", s1, "redirect", SomeOps,
            {Info({e1}, Every, {x1}), Info(Every, {t2}, {x2})})>>,
      \* a type the entity does not have, one that has expired, an auxiliary one
      <<Reg("n", s1, "redirect", AllOps, {Info(Every, {t2}, {x1})}),
        [Inclusive(s1, AllOps, Every) EXCEPT !.expired = TRUE],
        Reg("u", s2, "auxiliary", AllOps, {Info(Every, Every, Every)})>> }

Form(op, T, A, via, local, over) ==
    [op |-> op, types |-> T, attrs |-> A, via |-> via, local |-> local, over |-> over]

\* A create and a replace state the type; a delete carries no attributes; only
\* an append can ask for noOverwrite.  The plan is made alike for all, so a
\* chain of earlier brokers comes with one operation of each kind.
Chains(op) ==
    IF op \in {"createEntity", "deleteAttrs"} THEN {<<>>, <<Own>>, <<s1>>, <<Other, Other, Other>>}
    ELSE {<<>>}

Writes ==
    UNION {{Form(op, T, A, via, FALSE, TRUE) :
              T \in IF op = "mergeEntity" THEN {{t1}, Every}
                    ELSE IF op = "deleteEntity" THEN {Every} ELSE {{t1}},
              A \in IF op = "deleteEntity" THEN {{}} ELSE SUBSET {x1, x2}, via \in Chains(op)} :
           op \in {"createEntity", "deleteEntity", "mergeEntity", "replaceEntity"}}
    \cup {Form("updateEntity", Every, A, <<>>, FALSE, TRUE) : A \in {{x1}, {x1, x2}}}
    \cup {Form("appendAttrs", Every, A, <<>>, FALSE, over) : A \in {{x2}, {x1, x2}}, over \in BOOLEAN}
    \cup UNION {{Form(op, Every, {x}, via, FALSE, TRUE) : x \in {x1, x2}, via \in Chains(op)} :
                op \in {"updateAttrs", "replaceAttrs", "deleteAttrs"}}

WriteForms == (q1 :> Writes)
              @@ (q2 :> {Form("deleteEntity", Every, {}, <<>>, TRUE, TRUE),
                         Form("createEntity", {t1}, {x2}, <<>>, TRUE, TRUE)})

Write == INSTANCE DistWrite WITH
    Reqs <- {q1, q2}, Forms <- WriteForms, Catalogue <- WriteCatalogue, Entity <- e1,
    Attrs <- {x1, x2}, Sources <- {s1, s2}, Rows <- {Absent, {x1}},
    PeerFaults <- {"timeout", "partial", "loop"}

-----------------------------------------------------------------------------
(* Batches of up to three items.                                           *)

Whole == {"createBatch", "upsertBatch", "updateBatch", "mergeBatch", "deleteBatch"}
OneByOne == {"createEntity", "replaceEntity", "updateEntity", "appendAttrs", "mergeEntity",
             "deleteEntity"}

BatchReg(id, s, mode, ops, ids, A) == Reg(id, s, mode, ops, {Info(ids, Every, A)})

BatchCatalogue ==
    { <<>>,
      <<BatchReg("x", s1, "exclusive", Whole, {e1}, {x1})>>,
      <<BatchReg("r", s1, "redirect", OneByOne, Every, {x1})>>,
      <<BatchReg("r", s1, "redirect", {"createEntity"}, {e1}, {x1, x2}),
        BatchReg("i", s2, "inclusive", Whole, Every, Every)>>,
      <<BatchReg("n", s1, "redirect", {}, {e1}, {x1}),
        BatchReg("i", s2, "inclusive", OneByOne, {e2}, {x2})>> }

Item(id, A, kind) == [id |-> id, types |-> {t1}, attrs |-> A, kind |-> kind]
Items == {Item(e1, {x1}, "ok"), Item(e1, {x1, x2}, "ok"), Item(e2, {x2}, "ok"),
          Item(e2, {}, "ok"), Item(e2, {x1}, "invalid"), Item(e1, {x1}, "noctx")}
Arrays == {<<x>> : x \in Items} \cup {<<x, y>> : x, y \in Items}
          \cup {<<Item(e1, {x1, x2}, "ok"), Item(e2, {x2}, "ok"), Item(e1, {x2}, "ok")>>,
                <<Item(e1, {x2}, "ok"), Item(e1, {x1, x2}, "ok"), Item(e1, {x2}, "ok")>>}

\* Only an upsert asks for update, only an update for noOverwrite, and a delete
\* lists ids.
BatchForms ==
    LET all == [mode : {"create", "upsert", "update", "merge", "delete"}, items : Arrays,
                upd : BOOLEAN, over : BOOLEAN]
    IN {f \in all : /\ f.upd => f.mode = "upsert"
                    /\ ~f.over => f.mode = "update"
                    /\ f.mode = "delete" => \A k \in DOMAIN f.items :
                          f.items[k] \in {Item(e1, {x1}, "ok"), Item(e2, {x2}, "ok")}}

Batch == INSTANCE DistBatch WITH
    Batches <- BatchForms, Catalogue <- BatchCatalogue, Ents <- {e1, e2}, Sources <- {s1, s2},
    Stored <- {[e \in {e1, e2} |-> Absent],
               [e \in {e1, e2} |-> IF e = e1 THEN (x1 :> 0) ELSE Absent]},
    Remote <- {{}, {e1}}, PeerFaults <- {"down", "timeout", "foreign"}, MaxRaces <- 1

-----------------------------------------------------------------------------
(* Registrations: two concurrent requests and no mirror watched, or one    *)
(* request and the mirror of one pod.                                      *)

Bodies == {[mode |-> "exclusive", infos |-> {Info({e1}, Every, {x1})}],
           [mode |-> "redirect", infos |-> {Info({e1, e2}, {t1}, {x1, x2})}]}
Patches == {[mode |-> "exclusive", infos |-> Keep],
            [mode |-> Keep, infos |-> {Info({e2}, {t2}, {x1})}]}

Locks == INSTANCE Registry WITH
    EntityIds <- {e1, e2}, Types <- {t1, t2}, Ids <- {1, 2}, Bodies <- Bodies,
    Patches <- Patches, Entities <- {[id |-> e2, types |-> {t2}, attrs |-> {x2}]},
    Handlers <- {h1, h2}, Pods <- {p1}, Mirrors <- {}, PodOf <- [h \in {h1, h2} |-> p1],
    PageSize <- 1, Attempts <- 2, Patient <- TRUE,
    MaxAsks <- 3, MaxExpiries <- 1, MaxSweeps <- 1, MaxFails <- 0, MaxGaps <- 0,
    hs <- asked, tasks <- jobs, spent <- used

Mirror == INSTANCE Registry WITH
    EntityIds <- {e1, e2}, Types <- {t1, t2}, Ids <- {1, 2},
    Bodies <- {[mode |-> "redirect", infos |-> {Info({e1, e2}, {t1}, {x1, x2})}]},
    Patches <- {[mode |-> "inclusive", infos |-> {Info({e2}, {t2}, {x1})}]},
    Entities <- {}, Handlers <- {h1}, Pods <- {p1}, Mirrors <- {p1}, PodOf <- [h \in {h1} |-> p1],
    PageSize <- 1, Attempts <- 2, Patient <- TRUE,
    MaxAsks <- 3, MaxExpiries <- 1, MaxSweeps <- 0, MaxFails <- 1, MaxGaps <- 1,
    hs <- asked, tasks <- jobs, spent <- used

-----------------------------------------------------------------------------
(* One subscription and one registration; the subscription's requests come *)
(* one at a time, and a source without deleteSubscription is registered    *)
(* from the start (see MCNext).                                            *)

Full == [match |-> TRUE, ops |-> {"create", "delete"}]
Partial == [match |-> TRUE, ops |-> {"create"}]
SubForms == {Full, Partial}

-----------------------------------------------------------------------------
Parts == {"write", "batch", "locks", "mirror", "subs"}

MCInit ==
    /\ part \in Parts
    /\ IF part = "write" THEN Write!Init ELSE row = Absent /\ req = <<>>
    /\ IF part = "batch" THEN Batch!Init ELSE rows = <<>> /\ bt = <<>> /\ races = 0
    /\ part \notin {"write", "batch"} => docs = <<>> /\ held = <<>>
    /\ IF part = "mirror" THEN Mirror!Init ELSE Locks!Init
    /\ Init /\ (part # "subs" => reg[s1] = Nobody)

MCNext ==
    /\ UNCHANGED part
    /\ \/ part = "write" /\ Write!Next /\ UNCHANGED <<batchVars, regVars, vars>>
       \/ part = "batch" /\ Batch!Next /\ UNCHANGED <<writeVars, regVars, vars>>
       \/ part = "locks" /\ Locks!Next /\ UNCHANGED <<docs, held, writeVars, batchVars, vars>>
       \/ part = "mirror" /\ Mirror!Next /\ UNCHANGED <<docs, held, writeVars, batchVars, vars>>
       \/ /\ part = "subs" /\ Next /\ reg'[s1] \in {reg[s1], Full, Nobody}
          /\ UNCHANGED <<docs, held, writeVars, batchVars, regVars>>

MCSpec == MCInit /\ [][MCNext]_<<part, docs, held, writeVars, batchVars, regVars, vars>>

-----------------------------------------------------------------------------
(* The parts' properties, by the names they have there; CopiesMapped is    *)
(* DistSub's.                                                              *)

\* The state of the part that moves is well formed.
EveryTypeOK ==
    CASE part = "write"  -> Write!TypeOK
      [] part = "batch"  -> Batch!TypeOK
      [] part = "locks"  -> Locks!TypeOK
      [] part = "mirror" -> Mirror!TypeOK
      [] part = "subs"   -> TypeOK

\* A proxied attribute is not stored here (strip_proxied, proxies_cover_all).
ProxiedStaysOut == part = "write" => Write!ProxiedStaysOut

\* An error answer means that no part of the write was carried out (combine),
\* and a success names every attribute that was, and was not, written
\* (combine_attr_parts).
WriteAnswered ==
    part = "write" => Write!ErrorMeansNothingWritten /\ Write!AttributesAccounted

\* Only a create brings a deleted entity back (replace_entity,
\* merge_entity_inner).
OnlyCreateRevives == [][part = "write" => Write!Revived]_<<part, docs, row, held, req>>

\* A batch's answer names only what somebody carried out, everything a source
\* did not take and every id of a delete (merge_remote_batch, the fallback of
\* batch_write, batch_delete), and what it leaves is what its items one by one
\* would (batch_write's rounds).
BatchFaithful == part = "batch" => Batch!AnswerTruthful /\ Batch!AsOneByOne

\* Two live exclusive registrations never claim the same, and whoever waits
\* for the lock that sees to it waits for a request that can go on
\* (REGISTRATION_WRITE, registration_write_lock).
\* The mirror's buckets lose no registration that matches (bucketed), one
\* written while a mirror fills is in it, and at rest mirror and store agree
\* (seed_mirror, consume).
RegistryFaithful ==
    /\ part = "locks" => Locks!ExclusiveAlone /\ Locks!NobodyStuck
    /\ part = "mirror" => Mirror!PrefilterSound /\ Mirror!NoneMissed /\ Mirror!MirrorsConverge
=============================================================================
