----------------------------- MODULE EntityMaps -----------------------------
(***************************************************************************)
(* EntityMaps (entity_map.rs, entity_maps.rs, entities.rs): the candidates *)
(* of a query, kept under an id so that its pages are cut from one set     *)
(* (5.14, 5.5.14).  A map is built by a query or a retrieve, pruned by the *)
(* pages read through it, given another expiry or deleted by a client, and *)
(* reaped by the sweep; all of them read and write the store in steps of   *)
(* their own.                                                              *)
(*                                                                         *)
(* A map is [ids, backed, exp]: its candidates, those of them a source     *)
(* listed, and the instant it expires.  Gone is a map the store lacks.     *)
(* Every request is one subject's.                                         *)
(***************************************************************************)
EXTENDS Integers, Sequences, FiniteSets, FiniteSetsExt, SequencesExt

CONSTANTS
    Order,       \* the entities, in the order a map lists them
    Remote,      \* the ones a registered source holds
    Ids,         \* the map ids, ordered: a set of numbers
    Gone, Idle,
    Stored,      \* what the store may hold at the start: functions from Ids
    Handlers,
    Forms,       \* the requests each handler is given
    Cap,         \* MAX_MAPS_PER_TENANT
    MaxLife,     \* MAX_LIFETIME_SECS
    MaxLimit,    \* max_limit
    ChunkMin,    \* the least chunk of candidates fetched at once (20)
    MaxNow, MaxEdits, MaxAsks

VARIABLES
    fits,        \* the entities that match the query now
    maps,        \* Kind::EntityMap
    hs,          \* the requests under way
    swept,       \* the maps the sweep has found dead
    clock,
    born,        \* history: the map as it was built
    missed,      \* history: who may have failed a query since it was built
    spent        \* edits and requests made

vars == <<fits, maps, hs, swept, clock, born, missed, spent>>

Ents == ToSet(Order)
Listed(S) == SelectSeq(Order, LAMBDA e : e \in S)
Before(d, e) == \E j \in DOMAIN Order : Order[j] = e /\ \E i \in 1..(j - 1) : Order[i] = d
First(n, S) == {e \in S : Cardinality({d \in S : Before(d, e)}) < n}
Least(m, n) == IF m < n THEN m ELSE n
live(id) == maps[id] # Gone /\ maps[id].exp > clock

Init ==
    /\ fits \in {Ents, Ents \ {Head(Order)}}
    /\ maps \in Stored /\ hs = [h \in Handlers |-> Idle]
    /\ swept = {} /\ clock = 0
    /\ born = maps
    /\ missed = [id \in Ids |-> IF maps[id] = Gone THEN {} ELSE Ents \ fits]
    /\ spent = [edits |-> 0, asks |-> 0]

Go(h, pc) == hs' = [hs EXCEPT ![h].pc = pc]
End(h) == hs' = [hs EXCEPT ![h] = Idle]

Ask(h, f) ==
    /\ hs[h] = Idle /\ spent.asks < MaxAsks
    /\ hs' = [hs EXCEPT ![h] =
                [pc |-> IF f.kind \in {"create", "retrieve"} THEN "build" ELSE "open", form |-> f]]
    /\ spent' = [spent EXCEPT !.asks = @ + 1]
    /\ UNCHANGED <<fits, maps, swept, clock, born, missed>>

-----------------------------------------------------------------------------
(* A new map.                                                              *)

\* The entities a request's own filter admits.
Matching(f) == fits \cap f.only

\* What is held here, up to the broker's limit, and what the source lists if it
\* answers; a retrieve's map has its one entity, if anybody has it.
Candidates(f, answered) ==
    IF f.kind = "retrieve"
    THEN [ids |-> f.only, backed |-> f.only \cap Remote]
    ELSE LET remote == IF answered THEN Matching(f) \cap Remote ELSE {}
         IN [ids |-> First(MaxLimit, Matching(f) \ Remote) \cup remote, backed |-> remote]

\* expires_at: the lifetime asked for, within the broker's floor and ceiling.
expires_at(life) == clock + Least(MaxLife, IF life < 1 THEN 1 ELSE life)

\* A request about to put a map.
Putting(f, id, doc) == [pc |-> "get", form |-> f, id |-> id, doc |-> doc, victim |-> id]

\* build_query_map, merge_and_store_map, build_retrieve_map, up to map_put.
Build(h) ==
    /\ hs[h] # Idle /\ hs[h].pc = "build"
    /\ \E id \in {i \in Ids : born[i] = Gone} : \E answered \in BOOLEAN :
         LET f == hs[h].form
             c == Candidates(f, answered)
             doc == [ids |-> c.ids, backed |-> c.backed, exp |-> expires_at(f.life)]
         IN /\ \A i \in Ids : born[i] = Gone => id <= i
            /\ born' = [born EXCEPT ![id] = doc]
            /\ missed' = [missed EXCEPT ![id] = Ents \ fits]
            /\ hs' = [hs EXCEPT ![h] = Putting(f, id, doc)]
    /\ UNCHANGED <<fits, maps, swept, clock, spent>>

-----------------------------------------------------------------------------
(* map_put: is the map there; if not, does a new one fit; write it.        *)

\* Mutant: a client's instant is taken as it is.
CappedNot(exp) == exp

\* The ceiling binds every writer.
Capped(exp) == Least(exp, clock + MaxLife)

PutGet(h) ==
    /\ hs[h] # Idle /\ hs[h].pc = "get"
    /\ hs' = [hs EXCEPT ![h].doc.exp = Capped(@),
                        ![h].pc = IF maps[hs[h].id] # Gone THEN "mutate" ELSE "list"]
    /\ UNCHANGED <<fits, maps, swept, clock, born, missed, spent>>

\* The map that expires first makes room.
PutList(h) ==
    /\ hs[h] # Idle /\ hs[h].pc = "list"
    /\ LET held == {i \in Ids : maps[i] # Gone}
       IN IF Cardinality(held) < Cap THEN Go(h, "mutate")
          ELSE \E v \in {i \in held : \A j \in held : maps[i].exp <= maps[j].exp} :
                  hs' = [hs EXCEPT ![h].pc = "evict", ![h].victim = v]
    /\ UNCHANGED <<fits, maps, swept, clock, born, missed, spent>>

PutEvict(h) ==
    /\ hs[h] # Idle /\ hs[h].pc = "evict"
    /\ maps' = [maps EXCEPT ![hs[h].victim] = Gone] /\ Go(h, "mutate")
    /\ UNCHANGED <<fits, swept, clock, born, missed, spent>>

\* A page goes on to fetch what it shows, the others have answered.
AfterPut(h) == IF hs[h].form.kind = "page" /\ "page" \in DOMAIN hs[h] THEN Go(h, "fetch") ELSE End(h)

PutMutate(h) ==
    /\ hs[h] # Idle /\ hs[h].pc = "mutate"
    /\ IF maps[hs[h].id] # Gone
       THEN maps' = [maps EXCEPT ![hs[h].id] = hs[h].doc] /\ AfterPut(h)
       ELSE UNCHANGED maps /\ Go(h, "create")
    /\ UNCHANGED <<fits, swept, clock, born, missed, spent>>

\* A create writes nothing over a row that is there.
PutCreate(h) ==
    /\ hs[h] # Idle /\ hs[h].pc = "create"
    /\ maps' = [maps EXCEPT ![hs[h].id] = IF @ = Gone THEN hs[h].doc ELSE @]
    /\ AfterPut(h)
    /\ UNCHANGED <<fits, swept, clock, born, missed, spent>>

-----------------------------------------------------------------------------
(* Requests that name a map.                                               *)

\* map_if_accessible, map_get: an expired map is as good as none.  A page
\* recovers with a new map, an update or a delete with a 404.
Open(h) ==
    /\ hs[h] # Idle /\ hs[h].pc = "open"
    /\ LET f == hs[h].form
       IN IF ~live(f.id)
          THEN (IF f.kind = "page" THEN Go(h, "build") ELSE End(h)) /\ UNCHANGED missed
          ELSE LET m == maps[f.id]
               IN CASE f.kind = "page" ->
                         /\ hs' = [hs EXCEPT ![h] =
                              [pc |-> "chunk", form |-> f, id |-> f.id, doc |-> m, victim |-> f.id,
                               cands |-> Listed(m.ids \cap f.named), visited |-> 0, page |-> <<>>,
                               skipped |-> 0, total |-> 0, more |-> FALSE, calm |-> TRUE]]
                         /\ missed' = [missed EXCEPT ![f.id] = @ \cup (Ents \ f.only)]
                    [] f.kind = "update" ->
                         /\ hs' = [hs EXCEPT ![h] = Putting(f, f.id, [m EXCEPT !.exp = f.exp])]
                         /\ UNCHANGED missed
                    [] f.kind = "delete" -> Go(h, "again") /\ UNCHANGED missed
    /\ UNCHANGED <<fits, maps, swept, clock, born, spent>>

\* map_delete looks once more before it deletes.
DeleteAgain(h) ==
    /\ hs[h] # Idle /\ hs[h].pc = "again"
    /\ IF live(hs[h].form.id) THEN Go(h, "drop") ELSE End(h)
    /\ UNCHANGED <<fits, maps, swept, clock, born, missed, spent>>

DeleteDrop(h) ==
    /\ hs[h] # Idle /\ hs[h].pc = "drop"
    /\ maps' = [maps EXCEPT ![hs[h].form.id] = Gone] /\ End(h)
    /\ UNCHANGED <<fits, swept, clock, born, missed, spent>>

-----------------------------------------------------------------------------
(* A page through a map, chunk by chunk.                                   *)

\* Mutant: a candidate a source listed goes like any other.
PrunedAll(doc, chunk, matched) == [doc EXCEPT !.ids = @ \ (ToSet(chunk) \ matched)]

\* Only a candidate held here alone can be told to fit no longer.
Pruned(doc, chunk, matched) == [doc EXCEPT !.ids = @ \ ((ToSet(chunk) \ matched) \ doc.backed)]

\* Mutant: a full page is the last one.
LastOfAll(s, f) == IF f.count THEN s.total > f.offset + f.limit ELSE s.more

\* Is there a next page, once the loop is over: by the total if it was asked
\* for, else if a further match was seen or candidates are left of a full page.
MoreOf(s, f) ==
    IF f.count THEN s.total > f.offset + f.limit
    ELSE s.more \/ (Len(s.page) = f.limit /\ s.visited < Len(s.cands))

\* One candidate of a chunk.
Tally(s, e, matched, f) ==
    IF e \notin matched THEN s
    ELSE [s EXCEPT !.total = @ + 1,
                   !.skipped = IF @ < f.offset THEN @ + 1 ELSE @,
                   !.page = IF s.skipped >= f.offset /\ Len(@) < f.limit THEN Append(@, e) ELSE @,
                   !.more = @ \/ (s.skipped >= f.offset /\ Len(s.page) >= f.limit)]

Counted(s, chunk, matched) == FoldLeft(LAMBDA t, e : Tally(t, e, matched, s.form), s, chunk)

Chunk(h) ==
    /\ hs[h] # Idle /\ hs[h].pc = "chunk"
    /\ \E answered \in BOOLEAN :
         LET s == hs[h]
             f == s.form
             size == IF f.limit < ChunkMin THEN ChunkMin ELSE f.limit
             upto == Least(s.visited + size, Len(s.cands))
             chunk == SubSeq(s.cands, s.visited + 1, upto)
             matched == {e \in ToSet(chunk) \cap Matching(f) : answered \/ e \notin Remote}
             told == Counted(s, chunk, matched)
             next == [s EXCEPT !.doc = Pruned(@, chunk, matched), !.visited = upto,
                               !.total = told.total, !.skipped = told.skipped,
                               !.page = told.page, !.more = told.more,
                               !.calm = @ /\ (answered \/ ToSet(chunk) \cap Remote = {})]
             over == upto = Len(s.cands) \/ (~f.count /\ Len(next.page) = f.limit)
         IN hs' = [hs EXCEPT ![h] =
                     IF over THEN [next EXCEPT !.pc = "get", !.more = MoreOf(next, f)] ELSE next]
    /\ UNCHANGED <<fits, maps, swept, clock, born, missed, spent>>

\* The page's entities are fetched once more, and may have gone.
Fetch(h) ==
    /\ hs[h] # Idle /\ hs[h].pc = "fetch" /\ End(h)
    /\ UNCHANGED <<fits, maps, swept, clock, born, missed, spent>>

-----------------------------------------------------------------------------
(* The sweep, entities that change, and the clock.                         *)

SweepWalk ==
    /\ swept = {} /\ swept' = {i \in Ids : maps[i] # Gone /\ ~live(i)} /\ swept' # {}
    /\ UNCHANGED <<fits, maps, hs, clock, born, missed, spent>>

SweepDelete(id) ==
    /\ id \in swept /\ swept' = swept \ {id}
    /\ maps' = [maps EXCEPT ![id] = Gone]
    /\ UNCHANGED <<fits, hs, clock, born, missed, spent>>

Disturbed == [h \in Handlers |->
    IF hs[h] # Idle /\ "calm" \in DOMAIN hs[h] THEN [hs[h] EXCEPT !.calm = FALSE] ELSE hs[h]]

Edit(e) ==
    /\ spent.edits < MaxEdits /\ spent' = [spent EXCEPT !.edits = @ + 1]
    /\ fits' = IF e \in fits THEN fits \ {e} ELSE fits \cup {e}
    /\ missed' = [id \in Ids |-> IF born[id] # Gone /\ e \in fits THEN missed[id] \cup {e} ELSE missed[id]]
    /\ hs' = Disturbed
    /\ UNCHANGED <<maps, swept, clock, born>>

Tick ==
    /\ clock < MaxNow /\ clock' = clock + 1
    /\ UNCHANGED <<fits, maps, hs, swept, born, missed, spent>>

Next ==
    \/ \E h \in Handlers :
         \/ \E f \in Forms[h] : Ask(h, f)
         \/ Build(h) \/ PutGet(h) \/ PutList(h) \/ PutEvict(h) \/ PutMutate(h) \/ PutCreate(h)
         \/ Open(h) \/ DeleteAgain(h) \/ DeleteDrop(h) \/ Chunk(h) \/ Fetch(h)
    \/ SweepWalk \/ \E id \in Ids : SweepDelete(id)
    \/ \E e \in Ents : Edit(e)
    \/ Tick

Spec == Init /\ [][Next]_vars

-----------------------------------------------------------------------------
(* Properties.                                                             *)

TypeOK ==
    /\ fits \subseteq Ents /\ clock \in 0..MaxNow /\ swept \subseteq Ids
    /\ \A id \in Ids : maps[id] # Gone =>
          born[id] # Gone /\ maps[id].backed = born[id].backed /\ maps[id].ids \subseteq Ents
    /\ \A h \in Handlers : hs[h] # Idle /\ "id" \in DOMAIN hs[h] => hs[h].id \in Ids

\* 5.5.9.3, "the set of Entities considered for the result is fixed with the
\* initial query": no map gains a candidate; one is missing only if it was held
\* here alone and failed a query since the map was built, whatever pages,
\* updates and sweeps wrote in between; and no map outlives the broker's
\* ceiling (map_put, the pruning of query_entities_outer).
MapsKept ==
    \A id \in Ids : maps[id] # Gone =>
        /\ maps[id].ids \subseteq born[id].ids
        /\ (born[id].ids \ maps[id].ids) \cap born[id].backed = {}
        /\ born[id].ids \ maps[id].ids \subseteq missed[id]
        /\ maps[id].exp <= clock + MaxLife

\* 5.5.14, "pages shall always be filled to the maximum, as long as Entities are
\* available": while no entity changes and the source answers, a page is the
\* stretch of matching candidates it was asked for, whatever their chunks, the
\* count is exact and a further match never goes without a next page
\* (query_entities_outer).
PagesWhole ==
    \A h \in Handlers :
        hs[h] # Idle /\ "page" \in DOMAIN hs[h] /\ hs[h].pc # "chunk" /\ hs[h].calm =>
          LET s == hs[h]
              f == s.form
              good == SelectSeq(s.cands, LAMBDA e : e \in Matching(f))
          IN /\ s.page = SubSeq(good, f.offset + 1, Least(f.offset + f.limit, Len(good)))
             /\ f.count => s.total = Len(good) /\ s.more = (Len(good) > f.offset + f.limit)
             /\ Len(good) > f.offset + f.limit => s.more
=============================================================================
