----------------------------- MODULE MatchWalk -----------------------------
(***************************************************************************)
(* The walk of a query's match set: one request steps through the stored   *)
(* Entities a filter matches, a window at a time, and deletes them, prunes *)
(* them or collects them (antares-api entities.rs: purge_locally,          *)
(* next_scan_offset, build_query_map).  Between two windows other requests *)
(* write, and the offset is all the walk remembers of where it was.        *)
(*                                                                         *)
(* The forwards a distributed purge makes after its walk are those of      *)
(* DistWrite: write_plan before it, forward_part and combine after it.     *)
(***************************************************************************)
EXTENDS Integers, FiniteSets, FiniteSetsExt

CONSTANTS
    Ids,         \* Entity ids, in the order the store returns them
    Attrs,
    Queries,     \* the requests: [mode, need, ids, purged], see Walked
    Chunk,       \* PURGE_CHUNK, and the max_limit of the map's walk
    Paged,       \* did the store push the page down?
    Writes,      \* what other requests do: "create", "add", "remove", "delete"
    MaxWrites    \* bound on their number

VARIABLES
    row,     \* row[i]: the Attributes of Entity i; its domain is what is stored
    walk,    \* the request's locals
    stayed,  \* matched when the walk began and written by nobody else since
    writes

vars == <<row, walk, stayed, writes>>

Modes == {"delete", "prune", "map"}
\* need: Attributes one of which must be there, {} for no condition on them;
\* ids: what the idPattern lets through; purged: what keep/drop removes.
Walked == [mode: Modes, need: SUBSET Attrs, ids: SUBSET Ids, purged: SUBSET Attrs]

None == -1

TypeOK ==
    /\ DOMAIN row \subseteq Ids /\ \A i \in DOMAIN row : row[i] \subseteq Attrs
    /\ walk \in [pc: {"read", "apply", "done", "failed"}, q: Walked, offset: Nat,
                 batch: SUBSET Ids, rows: Nat, out: SUBSET Ids]
    /\ stayed \subseteq Ids
    /\ writes \in 0..MaxWrites

-----------------------------------------------------------------------------
(* The store's answer: the filter it can see, ordered by id; idPattern is  *)
(* applied to the rows afterwards.                                         *)

Selected(q, rows) == {i \in DOMAIN rows : q.need = {} \/ rows[i] \cap q.need # {}}
Matched(q, rows) == Selected(q, rows) \cap q.ids

\* How many of S come before i in the store's order.
Before(i, S) == Cardinality({j \in S : j < i})

Window(q, offset) ==
    LET all == Selected(q, row)
    IN IF Paged THEN {i \in all : Before(i, all) \in offset..(offset + Chunk - 1)} ELSE all

next_scan_offset(offset, rows, left) ==
    IF ~Paged \/ rows < Chunk THEN None ELSE offset + Max({rows - left, 0})

Init ==
    /\ \E live \in SUBSET Ids : row \in [live -> SUBSET Attrs]
    /\ \E q \in Queries :
          /\ walk = [pc |-> "read", q |-> q, offset |-> 0, batch |-> {}, rows |-> 0, out |-> {}]
          /\ stayed = Matched(q, row)
    /\ writes = 0

Advance(w, left) ==
    LET next == next_scan_offset(w.offset, w.rows, left)
    IN IF next = None THEN [w EXCEPT !.pc = "done"]
       ELSE [w EXCEPT !.pc = "read", !.offset = next]

-----------------------------------------------------------------------------
(* One round.                                                              *)

filter_entities_paged ==
    LET win == Window(walk.q, walk.offset)
    IN /\ walk.pc = "read" /\ walk.q.mode # "map"
       /\ walk' = [walk EXCEPT !.pc = "apply", !.rows = Cardinality(win),
                               !.batch = win \cap walk.q.ids]
       /\ UNCHANGED <<row, stayed, writes>>

\* Mutant: deleted rows are stepped over as if they were still in the set.
ApplyDeleteSteps ==
    LET gone == walk.batch \cap DOMAIN row
    IN /\ walk.pc = "apply" /\ walk.q.mode = "delete"
       /\ row' = [i \in DOMAIN row \ gone |-> row[i]]
       /\ walk' = Advance(walk, 0)
       /\ UNCHANGED <<stayed, writes>>

\* One transaction deletes the ids in hand and says which of them were there.
ApplyDelete ==
    LET gone == walk.batch \cap DOMAIN row
    IN /\ walk.pc = "apply" /\ walk.q.mode = "delete"
       /\ row' = [i \in DOMAIN row \ gone |-> row[i]]
       /\ walk' = Advance(walk, Cardinality(gone))
       /\ UNCHANGED <<stayed, writes>>

\* The rows of the batch the pruning changes.
Changed == {i \in walk.batch \cap DOMAIN row : row[i] \cap walk.q.purged # {}}

Prune(left) ==
    /\ walk.pc = "apply" /\ walk.q.mode = "prune"
    /\ row' = [i \in DOMAIN row |->
                  IF i \in walk.batch THEN row[i] \ walk.q.purged ELSE row[i]]
    /\ walk' = Advance(walk, left)
    /\ UNCHANGED <<stayed, writes>>

\* Mutant: every round reads its window again.
ApplyPruneAgain == Prune(walk.rows)

\* A round that pruned something reads its window again; the second time it
\* finds nothing to prune and steps over it.
ApplyPrune == Prune(IF Changed # {} THEN walk.rows ELSE 0)

\* A store error ends the request; the rounds before it stand.
StoreFails ==
    /\ walk.pc \in {"read", "apply"}
    /\ walk' = [walk EXCEPT !.pc = "failed"]
    /\ UNCHANGED <<row, stayed, writes>>

\* A round of the map: no write, and never more than max_limit ids.
build_query_map ==
    LET win == Window(walk.q, walk.offset)
        new == (win \cap walk.q.ids) \ walk.out
        taken == {i \in new : Before(i, new) < Chunk - Cardinality(walk.out)}
    IN /\ walk.pc = "read" /\ walk.q.mode = "map"
       /\ walk' = IF Cardinality(walk.out) >= Chunk THEN [walk EXCEPT !.pc = "done"]
                  ELSE Advance([walk EXCEPT !.rows = Cardinality(win), !.out = @ \cup taken], 0)
       /\ UNCHANGED <<row, stayed, writes>>

-----------------------------------------------------------------------------
(* Another request's write.                                                *)

Write(kind, i) ==
    /\ kind \in Writes /\ writes < MaxWrites /\ walk.pc \in {"read", "apply"}
    /\ IF kind = "create"
       THEN /\ i \notin DOMAIN row
            /\ \E A \in SUBSET Attrs : row' = [j \in DOMAIN row \cup {i} |-> IF j = i THEN A ELSE row[j]]
       ELSE /\ i \in DOMAIN row
            /\ CASE kind = "add"    -> \E a \in Attrs \ row[i] : row' = [row EXCEPT ![i] = @ \cup {a}]
                 [] kind = "remove" -> \E a \in row[i] : row' = [row EXCEPT ![i] = @ \ {a}]
                 [] kind = "delete" -> row' = [j \in DOMAIN row \ {i} |-> row[j]]
    /\ stayed' = stayed \ {i}
    /\ writes' = writes + 1
    /\ UNCHANGED walk

Round == filter_entities_paged \/ ApplyDelete \/ ApplyPrune \/ build_query_map

Next ==
    \/ filter_entities_paged \/ ApplyDelete \/ ApplyPrune \/ build_query_map
    \/ StoreFails
    \/ \E kind \in Writes, i \in Ids : Write(kind, i)

\* The request's own task runs on.
Fairness == WF_vars(Round)

Spec == Init /\ [][Next]_vars /\ Fairness

-----------------------------------------------------------------------------
(* Properties.                                                             *)

\* "5.6.21.4 deletes ALL matched Entities, not the first page of them"
\* (entities.rs, next_scan_offset): an Entity that matched when the request
\* began and that nobody else wrote is gone, or pruned, or in the map (which
\* stops at max_limit), once the walk has ended.
WalksAll ==
    walk.pc = "done" =>
        CASE walk.q.mode = "delete" -> stayed \cap DOMAIN row = {}
          [] walk.q.mode = "prune"  -> \A i \in stayed : row[i] \cap walk.q.purged = {}
          [] walk.q.mode = "map"    -> stayed \subseteq walk.out \/ Cardinality(walk.out) = Chunk

\* "Termination: every round either removes rows from the match set or
\* advances the offset by a full chunk" (entities.rs, next_scan_offset): the
\* walk ends, whatever other requests write while it runs.
WalkEnds == <>(walk.pc \in {"done", "failed"})

=============================================================================
