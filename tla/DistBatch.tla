----------------------------- MODULE DistBatch -----------------------------
(***************************************************************************)
(* One batch operation on entities (batch.rs): the array is matched against *)
(* the registrations as a whole, its items are written in rounds, each in   *)
(* one transaction, and what the registered sources hold is forwarded, by   *)
(* the batch operation a source supports or entity by entity.  S and E are  *)
(* the ids of the answer's success and error lists.                         *)
(***************************************************************************)
EXTENDS FedScope

CONSTANTS Batches,      \* the batches a client may send
          Catalogue,    \* the registration sequences a broker may hold
          Ents,         \* entities
          Sources,      \* Context Sources
          Stored,       \* what the broker may hold at first
          Remote,       \* what a source may hold at first
          PeerFaults,   \* which faults a source may show
          MaxRaces,     \* deletes by others meanwhile
          Absent        \* no such entity

VARIABLES docs,         \* the stored registrations
          rows,         \* rows[e]: attribute -> the item that wrote it, or Absent
          held,         \* held[s]: the entities source s holds
          bt,           \* the batch, with its handler's locals
          races         \* deletes so far

vars == <<docs, rows, held, bt, races>>

Modes == {"create", "upsert", "update", "merge", "delete"}

\* What an item wrote of attributes A, over the row u.
Over(u, A, k) == [x \in DOMAIN u \cup A |-> IF x \in A THEN k ELSE u[x]]
Fresh(A, k) == [x \in A |-> k]

Idle == [pc |-> "idle", mode |-> "none", items |-> <<>>, upd |-> FALSE, over |-> TRUE,
         regs |-> <<>>, rounds |-> <<>>, replaces |-> {}, next |-> 1, ent |-> 1,
         second |-> FALSE, S |-> {}, E |-> {}, missed |-> {}, created |-> {}, rok |-> {},
         rerr |-> {}, wrote |-> {}, acked |-> {}, failed |-> {}, answer |-> "none", was |-> <<>>]

Init == /\ docs \in Catalogue
        /\ rows \in Stored
        /\ held \in [Sources -> Remote]
        /\ bt = Idle
        /\ races = 0

Proxied(regs) == \E k \in DOMAIN regs : is_proxy(regs[k])
Indices(b) == {k \in DOMAIN b.items : b.items[k].kind # "noctx"}

-----------------------------------------------------------------------------
(* The plan.                                                               *)

\* The whole array is one entity specification.
batch_spec(b) ==
    LET good == {b.items[k] : k \in Indices(b)}
        types == UNION {i.types : i \in {j \in good : j.types # Every}}
    IN [ids |-> {i.id : i \in good},
        types |-> IF b.mode = "delete" \/ types = {} THEN Every ELSE types,
        attrs |-> IF b.mode = "delete" THEN {} ELSE UNION {i.attrs : i \in good}]

\* What is left of item k for the local store; nothing is left of an item the
\* proxies hold altogether.
Rest(b, k) == LET i == b.items[k] IN strip_proxied(b.regs, i.id, i.types, i.attrs)
WhollyProxied(b, k) == Proxied(b.regs) /\ Rest(b, k) = {}

\* Mutant: one round for all.
rounds_one(b, ks) == IF ks = {} THEN <<>> ELSE <<ks>>

\* 4.6.6: of the items ks, the nth instance of an entity is written in the nth
\* round.
Instance(b, ks, k) == Cardinality({j \in ks : j <= k /\ b.items[j].id = b.items[k].id})
rounds(b, ks) ==
    LET last == IF ks = {} THEN 0
                ELSE CHOOSE n \in {Instance(b, ks, k) : k \in ks} :
                        \A k \in ks : Instance(b, ks, k) <= n
    IN [n \in 1..last |-> {k \in ks : Instance(b, ks, k) = n}]

batch_write(f) ==
    /\ bt.pc = "idle"
    /\ LET b == [Idle EXCEPT !.mode = f.mode, !.items = f.items, !.upd = f.upd, !.over = f.over,
                            !.was = rows]
           spec == batch_spec(b)
           c == [b EXCEPT !.regs = write_regs(docs, spec.ids, spec.types, spec.attrs, <<>>, FALSE)]
           ks == {k \in DOMAIN c.items : c.items[k].kind = "ok" /\ ~WhollyProxied(c, k)}
           bad == {c.items[k].id : k \in {j \in DOMAIN c.items :
                     \/ c.items[j].kind = "noctx"
                     \/ c.items[j].kind = "invalid" /\ ~WhollyProxied(c, j)}}
       IN bt' = IF f.mode = "delete" THEN [c EXCEPT !.pc = "delete"]
                ELSE [c EXCEPT !.pc = "local", !.E = bad,
                               !.rounds = IF f.mode = "create" THEN <<ks>> ELSE rounds(c, ks)]
    /\ UNCHANGED <<docs, rows, held, races>>

-----------------------------------------------------------------------------
(* The local rounds.  Each is one transaction over distinct ids.           *)

Id(k) == bt.items[k].id

WriteRows(f) == rows' = [e \in Ents |-> IF e \in DOMAIN f THEN f[e] ELSE rows[e]]

\* An upsert with options=update merges what is there; what turns out absent
\* is left to a second statement.
MergeRound ==
    /\ bt.pc = "local" /\ bt.rounds # <<>>
    /\ bt.mode \in {"update", "merge"} \/ (bt.mode = "upsert" /\ bt.upd)
    /\ LET round == Head(bt.rounds)
           there == {k \in round : rows[Id(k)] # Absent}
           keeps == bt.mode = "update" /\ ~bt.over
           kept(k) == IF keeps THEN Rest(bt, k) \cap DOMAIN rows[Id(k)] ELSE {}
           partial == {k \in there : kept(k) # {}}
           gone == round \ there
       IN /\ WriteRows([e \in {Id(k) : k \in there} |->
                LET k == CHOOSE j \in there : Id(j) = e
                IN Over(rows[e], Rest(bt, k) \ kept(k), k)])
          /\ bt' = [bt EXCEPT !.wrote = @ \cup {Id(k) : k \in there},
                              !.S = @ \cup {Id(k) : k \in there \ partial},
                              !.E = @ \cup {Id(k) : k \in partial}
                                      \cup IF bt.mode = "upsert" THEN {} ELSE {Id(k) : k \in gone},
                              !.replaces = IF bt.mode = "upsert" THEN gone ELSE {},
                              !.pc = IF bt.mode = "upsert" /\ gone # {} THEN "replace" ELSE "local",
                              !.rounds = IF bt.mode = "upsert" /\ gone # {} THEN @ ELSE Tail(@)]
    /\ UNCHANGED <<docs, held, races>>

Replaced(ks) ==
    /\ WriteRows([e \in {Id(k) : k \in ks} |->
                    LET k == CHOOSE j \in ks : Id(j) = e IN Fresh(Rest(bt, k), k)])
    /\ bt' = [bt EXCEPT !.wrote = @ \cup {Id(k) : k \in ks},
                        !.S = @ \cup {Id(k) : k \in ks},
                        !.created = @ \cup {Id(k) : k \in {j \in ks : rows[Id(j)] = Absent}},
                        !.replaces = {}, !.pc = "local", !.rounds = Tail(@)]
    /\ UNCHANGED <<docs, held, races>>

ReplaceRound ==
    \/ /\ bt.pc = "local" /\ bt.rounds # <<>> /\ bt.mode = "upsert" /\ ~bt.upd
       /\ Replaced(Head(bt.rounds))
    \/ bt.pc = "replace" /\ Replaced(bt.replaces)

\* One statement for all creates: the first instance of an absent id wins.
batch_create ==
    /\ bt.pc = "local" /\ bt.mode = "create" /\ bt.rounds # <<>>
    /\ LET round == Head(bt.rounds)
           won == {k \in round : rows[Id(k)] = Absent /\ \A j \in round : j < k => Id(j) # Id(k)}
       IN /\ WriteRows([e \in {Id(k) : k \in won} |->
                LET k == CHOOSE j \in won : Id(j) = e IN Fresh(Rest(bt, k), k)])
          /\ bt' = [bt EXCEPT !.wrote = @ \cup {Id(k) : k \in won},
                              !.S = @ \cup {Id(k) : k \in won},
                              !.created = @ \cup {Id(k) : k \in won},
                              !.E = @ \cup {Id(k) : k \in round \ won},
                              !.rounds = Tail(@)]
    /\ UNCHANGED <<docs, held, races>>

LocalDone ==
    /\ bt.pc = "local" /\ bt.rounds = <<>>
    /\ bt' = [bt EXCEPT !.pc = "forward"]
    /\ UNCHANGED <<docs, rows, held, races>>

\* One multi-row delete; a second instance of an id misses.
batch_delete ==
    /\ bt.pc = "delete"
    /\ LET hit == {k \in DOMAIN bt.items : rows[Id(k)] # Absent /\ \A j \in 1..k-1 : Id(j) # Id(k)}
       IN /\ WriteRows([e \in {Id(k) : k \in hit} |-> Absent])
          /\ bt' = [bt EXCEPT !.pc = "forward", !.wrote = {Id(k) : k \in hit},
                              !.S = {Id(k) : k \in hit},
                              !.missed = {Id(k) : k \in DOMAIN bt.items \ hit}]
    /\ UNCHANGED <<docs, held, races>>

\* Somebody else deletes an entity.
Race(e) ==
    /\ races < MaxRaces /\ bt.pc \notin {"idle", "done"} /\ rows[e] # Absent
    /\ rows' = [rows EXCEPT ![e] = Absent]
    /\ races' = races + 1
    /\ UNCHANGED <<docs, held, bt>>
-----------------------------------------------------------------------------
(* The sources.                                                            *)

BatchOp == [create |-> "createBatch", upsert |-> "upsertBatch", update |-> "updateBatch",
            merge |-> "mergeBatch", delete |-> "deleteBatch"]

\* The items of a batch a registration gets; of a delete, the ids.
Share(b, r) ==
    {k \in DOMAIN b.items :
        IF b.mode = "delete" THEN r.ids # {} /\ ~r.free => b.items[k].id \in r.ids
        ELSE b.items[k].kind # "noctx"
             /\ in_scope(r, b.items[k].id, b.items[k].types, b.items[k].attrs)}

\* The nth of the items ks, in the order of the array.
Nth(ks, n) == CHOOSE k \in ks : Cardinality({j \in ks : j <= k}) = n

\* Which items of a share a source that holds h can take.
Takes(b, ks, h) ==
    {k \in ks : /\ b.items[k].kind = "ok"
                /\ LET e == b.items[k].id
                       first == \A j \in ks : j < k => b.items[j].id # e
                   IN CASE b.mode = "create"              -> e \notin h /\ first
                        [] b.mode = "upsert"              -> TRUE
                        [] b.mode \in {"update", "merge"} -> e \in h
                        [] OTHER                          -> e \in h /\ first}

Holds(mode, h, ids) == IF mode = "delete" THEN h \ ids ELSE h \cup ids

\* A batch answer: "array" lists what was done, "done" has no body, "multi" is a
\* 207, "fail" any error.  `new` says that what is listed was created.
Reply(status, ok, err, new, took, h) ==
    [status |-> status, ok |-> ok, err |-> err, new |-> new, took |-> took, held |-> h]

Replies(b, ks, h) ==
    LET ids(K) == {b.items[k].id : k \in K}
        took == Takes(b, ks, h)
        to == Holds(b.mode, h, ids(took))
        new == ids(took) \ h
        honest == CASE took # ks -> Reply("multi", ids(took), ids(ks \ took), b.mode = "create", ids(took), to)
                    [] took = ks /\ b.mode = "create" -> Reply("array", ids(took), {}, TRUE, ids(took), to)
                    [] took = ks /\ b.mode = "upsert" /\ new # {} -> Reply("array", new, {}, TRUE, ids(took), to)
                    [] OTHER -> Reply("done", {}, {}, FALSE, ids(took), to)
    IN {honest}
       \cup {Reply("fail", {}, {}, FALSE, {}, h) : f \in PeerFaults \cap {"down"}}
       \cup {Reply("fail", {}, {}, FALSE, ids(took), to) : f \in PeerFaults \cap {"timeout"}}
       \* a source that names entities it was never sent
       \cup {[honest EXCEPT !.status = "multi", !.ok = ids(took) \cup (Ents \ ids(ks)), !.err = ids(ks \ took)] :
               f \in PeerFaults \cap {"foreign"}}

\* Mutant: what the source names is taken over.
merge_remote_all(b, a, sent) ==
    LET ok == CASE a.status = "done" -> sent [] a.status = "fail" -> {} [] OTHER -> a.ok
        err == CASE a.status = "fail" -> sent [] a.status = "multi" -> a.err [] OTHER -> {}
    IN [b EXCEPT !.rok = @ \cup ok, !.rerr = @ \cup err,
                 !.created = IF a.new THEN @ \cup ok ELSE @,
                 !.acked = @ \cup a.took, !.failed = @ \cup (sent \ a.took)]

\* Only what was sent may appear in S and E.
merge_remote_batch(b, a, sent) ==
    LET ok == CASE a.status = "done" -> sent [] a.status = "fail" -> {} [] OTHER -> a.ok \cap sent
        err == CASE a.status = "fail" -> sent [] a.status = "multi" -> a.err \cap sent [] OTHER -> {}
    IN [b EXCEPT !.rok = @ \cup ok, !.rerr = @ \cup err,
                 !.created = IF a.new THEN @ \cup ok ELSE @,
                 !.acked = @ \cup a.took, !.failed = @ \cup (sent \ a.took)]

Onward(b) == [b EXCEPT !.next = @ + 1, !.ent = 1, !.second = FALSE]

Turn == bt.pc = "forward" /\ bt.next \in DOMAIN bt.regs
Reg == bt.regs[bt.next]
ShareIds(ks) == {Id(k) : k \in ks}

\* The single-entity operation that stands in for the batch one.
fallback(b, r) ==
    CASE b.mode = "create" /\ supports(r, "createEntity")                -> "createEntity"
      [] b.mode = "upsert" /\ supports(r, "createEntity")                -> "createEntity"
      [] b.mode = "upsert" /\ ~supports(r, "createEntity") /\ ~b.upd /\ supports(r, "replaceEntity") -> "replaceEntity"
      [] b.mode = "upsert" /\ ~supports(r, "createEntity") /\ b.upd /\ supports(r, "updateEntity")   -> "updateEntity"
      [] b.mode = "update" /\ b.over /\ supports(r, "updateEntity")      -> "updateEntity"
      [] b.mode = "update" /\ ~b.over /\ supports(r, "appendAttrs")      -> "appendAttrs"
      [] b.mode = "merge" /\ supports(r, "mergeEntity")                  -> "mergeEntity"
      [] b.mode = "delete" /\ supports(r, "deleteEntity")                -> "deleteEntity"
      [] OTHER                                                           -> "none"

ForwardBatch ==
    /\ Turn
    /\ LET ks == Share(bt, Reg)
       IN /\ ks # {} /\ supports(Reg, BatchOp[bt.mode])
          /\ \E a \in Replies(bt, ks, held[Reg.src]) :
               /\ held' = [held EXCEPT ![Reg.src] = a.held]
               /\ bt' = Onward(merge_remote_batch(bt, a, ShareIds(ks)))
    /\ UNCHANGED <<docs, rows, races>>

\* Mutant: the last rung of the ladder is missing.
PassOverSilently ==
    /\ Turn
    /\ LET ks == Share(bt, Reg)
           refused == ks # {} /\ ~supports(Reg, BatchOp[bt.mode]) /\ fallback(bt, Reg) = "none"
       IN /\ ks = {} \/ refused
          /\ bt' = Onward([bt EXCEPT !.failed = @ \cup IF refused /\ is_proxy(Reg) THEN ShareIds(ks) ELSE {}])
    /\ UNCHANGED <<docs, rows, held, races>>

\* Nothing for this registration, or no way to tell it: a proxy that takes no
\* form of the operation is an error of each of its entities.
PassOver ==
    /\ Turn
    /\ LET ks == Share(bt, Reg)
           refused == ks # {} /\ ~supports(Reg, BatchOp[bt.mode]) /\ fallback(bt, Reg) = "none"
       IN /\ ks = {} \/ refused
          /\ bt' = Onward([bt EXCEPT !.rerr = @ \cup IF refused /\ is_proxy(Reg) THEN ShareIds(ks) ELSE {},
                                     !.failed = @ \cup IF refused /\ is_proxy(Reg) THEN ShareIds(ks) ELSE {}])
    /\ UNCHANGED <<docs, rows, held, races>>

\* What the source of r answers to one entity operation.
OneReplies(op, k, h) ==
    LET e == Id(k)
        fits == bt.items[k].kind = "ok" /\ (op = "createEntity" <=> e \notin h)
        to == IF op = "deleteEntity" THEN h \ {e} ELSE h \cup {e}
        honest == IF fits THEN [status |-> "ok", took |-> {e}, held |-> to]
                  ELSE [status |-> IF op = "createEntity" /\ e \in h /\ bt.items[k].kind = "ok"
                                   THEN "exists" ELSE "refused", took |-> {}, held |-> h]
    IN {honest} \cup {[status |-> "fail", took |-> {}, held |-> h] : f \in PeerFaults \cap {"down"}}
       \cup {[honest EXCEPT !.status = "fail"] : f \in PeerFaults \cap {"timeout"}}

\* 5.6.8.4: after a 409 an upsert goes on with the operation that updates.
upsert_second(b, r) ==
    CASE ~b.upd /\ supports(r, "replaceEntity") -> "replaceEntity"
      [] b.upd /\ supports(r, "updateEntity")   -> "updateEntity"
      [] OTHER                                  -> "none"

ForwardOne ==
    /\ Turn
    /\ LET ks == Share(bt, Reg)
           k == Nth(ks, bt.ent)
           op == IF bt.second THEN upsert_second(bt, Reg) ELSE fallback(bt, Reg)
           step(b) == IF bt.ent = Cardinality(ks) THEN Onward(b) ELSE [b EXCEPT !.ent = @ + 1, !.second = FALSE]
       IN /\ ks # {} /\ ~supports(Reg, BatchOp[bt.mode]) /\ fallback(bt, Reg) # "none"
          /\ \E a \in OneReplies(op, k, held[Reg.src]) :
               LET b == [bt EXCEPT !.acked = @ \cup a.took, !.failed = @ \cup ({Id(k)} \ a.took)]
                   retried == a.status = "exists" /\ bt.mode = "upsert" /\ ~bt.second
                              /\ upsert_second(bt, Reg) # "none"
               IN /\ held' = [held EXCEPT ![Reg.src] = a.held]
                  /\ bt' = CASE retried -> [bt EXCEPT !.second = TRUE]
                             [] ~retried /\ a.status = "ok" ->
                                  step([b EXCEPT !.rok = @ \cup {Id(k)},
                                                 !.created = IF op = "createEntity" THEN @ \cup {Id(k)} ELSE @])
                             [] OTHER -> step([b EXCEPT !.rerr = @ \cup {Id(k)}])
    /\ UNCHANGED <<docs, rows, races>>

\* Mutant: what missed is not reported.
missing_deletes_none(b) == {}

\* An id that missed locally is an error unless a source resolved it.
missing_deletes(b) == IF b.mode = "delete" THEN b.missed \ (b.rok \cup b.rerr) ELSE {}

Answer ==
    /\ bt.pc = "forward" /\ bt.next \notin DOMAIN bt.regs
    /\ LET S == bt.S \cup bt.rok
           E == bt.E \cup bt.rerr \cup missing_deletes(bt)
       IN bt' = [bt EXCEPT !.pc = "done", !.E = E,
                           !.S = IF bt.mode = "upsert" /\ bt.created # {} /\ E = {} THEN bt.created ELSE S,
                           !.answer = CASE E # {} -> "multi"
                                        [] E = {} /\ bt.mode = "create" -> "created"
                                        [] E = {} /\ bt.mode = "upsert" /\ bt.created # {} -> "created"
                                        [] OTHER -> "done"]
    /\ UNCHANGED <<docs, rows, held, races>>

Next == \/ \E f \in Batches : batch_write(f)
        \/ MergeRound \/ ReplaceRound \/ batch_create \/ LocalDone \/ batch_delete
        \/ \E e \in Ents : Race(e)
        \/ ForwardBatch \/ PassOver \/ ForwardOne \/ Answer

Spec == Init /\ [][Next]_vars

-----------------------------------------------------------------------------
(* Properties.                                                             *)

Done == bt.pc = "done"

\* Type correctness.
TypeOK ==
    /\ \A e \in Ents : rows[e] # Absent => \A x \in DOMAIN rows[e] : rows[e][x] \in 0..Len(bt.items)
    /\ held \in [Sources -> SUBSET Ents]
    /\ bt.S \subseteq Ents /\ bt.E \subseteq Ents
    /\ bt.pc \in {"idle", "local", "replace", "delete", "forward", "done"}
    /\ bt.answer \in {"none", "created", "done", "multi"}
    /\ races \in 0..MaxRaces

\* merge_remote_batch: the success list names only entities that this broker
\* wrote or that a source it asked has taken, whatever a source claims.
SuccessHasWriter == Done => bt.S \subseteq bt.wrote \cup bt.acked

\* BatchOutcome::respond: an answer without errors means that every entity of
\* the array that carries an attribute was written here or taken by a source, and
\* that no source refused one.
FailureListed ==
    (Done /\ bt.answer # "multi") =>
        /\ bt.failed \subseteq bt.acked
        /\ \A k \in DOMAIN bt.items :
             (bt.mode = "delete" \/ bt.items[k].attrs # {}) => Id(k) \in bt.wrote \cup bt.acked

\* 5.6.10.4: a batch delete answers for every id of the array, whatever the
\* sources leave out of their answers.
EveryDeleteAnswered ==
    (Done /\ bt.mode = "delete" /\ bt.answer = "multi") =>
        \A k \in DOMAIN bt.items : Id(k) \in bt.S \cup bt.E

\* The answer to a batch tells what became of every entity of the array.
AnswerTruthful == SuccessHasWriter /\ FailureListed /\ EveryDeleteAnswered

\* What item k alone makes of the row u.
Single(u, k) ==
    LET A == Rest(bt, k)
    IN CASE bt.mode = "delete"                                   -> Absent
         [] bt.mode = "create"                                   -> IF u = Absent THEN Fresh(A, k) ELSE u
         [] bt.mode = "upsert" /\ (~bt.upd \/ u = Absent)        -> Fresh(A, k)
         [] bt.mode \in {"update", "merge"} /\ u = Absent        -> Absent
         [] bt.mode = "update" /\ ~bt.over /\ u # Absent         -> Over(u, A \ DOMAIN u, k)
         [] OTHER                                                -> Over(u, A, k)

Stores(k) == bt.mode = "delete" \/ (bt.items[k].kind = "ok" /\ ~WhollyProxied(bt, k))

\* 4.6.6, 5.5.11: rounds, a merge statement before a replace statement and one
\* multi-row create leave the store as the items would one by one, in the order
\* of the array.
AsOneByOne ==
    (Done /\ races = 0) =>
        \A e \in Ents :
            rows[e] = FoldLeft(LAMBDA u, k : IF Id(k) = e /\ Stores(k) THEN Single(u, k) ELSE u,
                               bt.was[e], [k \in DOMAIN bt.items |-> k])
=============================================================================
