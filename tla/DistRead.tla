------------------------------ MODULE DistRead ------------------------------
(***************************************************************************)
(* Distributed reads (federation.rs, entities.rs, distsub.rs): a retrieve, *)
(* a query, or the completion of a notified entity asks every matching     *)
(* source and merges what came back with what is held here, the versions   *)
(* of auxiliary registrations last (4.5.5.3, 4.3.6.2).                     *)
(*                                                                         *)
(* A version of an entity is [exp, insts]: its expiresAt (0: none) and its *)
(* attribute instances [attr, ds, at, exp, hit, from] - the Attribute, its *)
(* datasetId, its observedAt or modifiedAt, its expiresAt, whether its     *)
(* value satisfies the query's filter, and who said it.  Absent is an      *)
(* entity somebody does not hold.                                          *)
(***************************************************************************)
EXTENDS FedScope

CONSTANTS Ents, Sources, Absent, Nothing,
          Asks,          \* the requests a client, or a source's notification, makes
          Catalogue,     \* the registration documents a behaviour may start with
          Mine,          \* what may be held here: functions from Ents
          Theirs,        \* what the sources may hold: functions from Sources and Ents
          Now            \* the instant of the read

VARIABLES docs, mine, theirs, read

vars == <<docs, mine, theirs, read>>

-----------------------------------------------------------------------------
(* Merging two versions.                                                   *)

expired(i) == i.exp # 0 /\ i.exp < Now
SameSlot(i, j) == i.attr = j.attr /\ i.ds = j.ds

\* 4.5.5.2: no instance of a received version outlives its entity.
push_down_expires(v) ==
    LET capped(i) == IF i.exp # 0 /\ i.exp <= v.exp THEN i ELSE [i EXCEPT !.exp = v.exp]
    IN IF v.exp = 0 THEN v ELSE [v EXCEPT !.insts = {capped(i) : i \in v.insts}]

\* An Attribute the base lacks is taken as it came; of two instances in one
\* slot the more recent one stays, unless it has expired.  yields: those of the
\* base that give way to anything.
Merged(base, add, aux, yields) ==
    LET a     == push_down_expires(add)
        rival == {i \in a.insts : \E c \in base.insts : c.attr = i.attr}
        won   == {i \in rival : /\ ~aux /\ ~expired(i)
                                /\ \A c \in base.insts : SameSlot(c, i) => c \in yields \/ i.at > c.at}
    IN [exp   |-> CASE aux -> base.exp
                    [] ~aux /\ (base.exp = 0 \/ a.exp = 0) -> 0
                    [] OTHER -> IF a.exp > base.exp THEN a.exp ELSE base.exp,
        insts |-> {c \in base.insts : \A i \in won : ~SameSlot(i, c)}
                  \cup (a.insts \ rival) \cup won]

\* Mutant: the instance held so far wins even when it has expired.
Merged_keeps(base, add, aux) == Merged(base, add, aux, {})

merge_docs(base, add, aux) == Merged(base, add, aux, {c \in base.insts : expired(c)})

\* Mutant: versions are merged as they come.
Unsorted(received) == received

\* received: a sequence of [aux, v].  Auxiliary versions come last; without a
\* base the first other version is it, or the first auxiliary one.
MainFirst(received) ==
    SelectSeq(received, LAMBDA p : ~p.aux) \o SelectSeq(received, LAMBDA p : p.aux)
MergeAll(base, received) ==
    LET seq == MainFirst(received)
        start == IF base # Absent THEN base ELSE seq[1].v
    IN IF base = Absent /\ seq = <<>> THEN Absent
       ELSE FoldLeft(LAMBDA v, p : merge_docs(v, p.v, p.aux), start, seq)

-----------------------------------------------------------------------------
(* What a source may contribute.                                           *)

read_op(r)  == \E op \in {"retrieveEntity", "queryEntity", "queryBatch"} : supports(r, op)
query_op(r) == \E op \in {"queryEntity", "queryBatch"} : supports(r, op)

\* An EntityMap in use is the only source of matching registrations.
map_gate(r, map) == map = Nothing \/ r.id \in map

\* Mutant: the scope is trusted to the source, which was asked for these
\* attributes only.
narrow_trusting(v, r) == v

narrow_to_scope(v, r) == [v EXCEPT !.insts = {i \in v.insts : covers_attr(r, i.attr)}]

\* Mutant: what a source sends is what it was asked for.
admits_all(r, ids, e) == TRUE

can_match_id(r, e) == r.free \/ e \in r.ids
admits_import(r, ids, e) == can_match_id(r, e) \/ (ids # Every /\ e \in ids)

Hit(v) == \E i \in v.insts : i.hit

\* The registrations a request is forwarded to.  A retrieve and a notified
\* entity name the entity and nothing else; a loop, or local scope, forwards
\* nothing.
Chosen(f, ds) ==
    LET regs == matching_regs(ds, f.ids, f.types, {}, f.via)
        takes(r) == IF f.kind = "query" THEN query_op(r)
                    ELSE read_op(r) /\ map_gate(r, f.map) /\ r.id # f.except
    IN IF f.local \/ via_loop(f.via) THEN <<>> ELSE SelectSeq(regs, takes)

\* The filter travels with a query unless its entities may be split.
push_filters(f) == f.kind = "query" /\ f.filter /\ ~f.split

\* The ids a query still asks a source for; Every is no restriction.
AskedIds(f, r) ==
    IF f.ids # Every
    THEN LET keep == {e \in f.ids : can_match_id(r, e)} IN IF keep = {} THEN Every ELSE keep
    ELSE IF r.free \/ r.ids = {} THEN Every ELSE r.ids

\* What a source sends: the entities it was asked for that satisfy the filter it
\* was given, or, whatever it was asked, everything it holds.
Sent(f, r) ==
    LET holds == {e \in Ents : theirs[r.src][e] # Absent}
        asked == IF f.kind = "query" THEN AskedIds(f, r) ELSE f.ids
        fits(e) == /\ asked = Every \/ e \in asked
                   /\ push_filters(f) => Hit(theirs[r.src][e])
    IN {{e \in holds : fits(e)}, holds}

-----------------------------------------------------------------------------
Init ==
    /\ docs \in Catalogue /\ mine \in Mine /\ theirs \in Theirs
    /\ read = [pc |-> "ask"]

\* The request arrives and is forwarded.
Ask(f) ==
    /\ read.pc = "ask"
    /\ LET regs == Chosen(f, docs)
       IN read' = [pc |-> "fan", form |-> f, regs |-> regs,
                   got |-> [k \in DOMAIN regs |-> [st |-> "pending"]]]
    /\ UNCHANGED <<docs, mine, theirs>>

\* A source answers, with entities (none for a 404) or in a way that earns a
\* warning: no answer in time, an error, a payload that does not expand.
Answered(k) ==
    /\ read.pc = "fan" /\ read.got[k].st = "pending"
    /\ \E out \in {[st |-> "ok", ids |-> S] : S \in Sent(read.form, read.regs[k])}
                 \cup {[st |-> "warned"]} :
          read' = [read EXCEPT !.got[k] = out]
    /\ UNCHANGED <<docs, mine, theirs>>

\* The versions of e that were received, in registration order.
Received(e) ==
    LET f == read.form
        says(k) == /\ read.got[k].st = "ok" /\ e \in read.got[k].ids
                   /\ IF f.kind = "query" THEN admits_import(read.regs[k], f.ids, e)
                      ELSE e \in f.ids
        ks == SelectSeq([k \in DOMAIN read.regs |-> k], says)
    IN [n \in DOMAIN ks |->
          [aux |-> read.regs[ks[n]].mode = "auxiliary",
           v   |-> narrow_to_scope(theirs[read.regs[ks[n]].src][e], read.regs[ks[n]])]]

\* The store's half of a query: a driver that evaluates the filter leaves out
\* what does not satisfy it, unless remote parts of it may still come.
LocalHalf(e, pushed) ==
    LET f == read.form
        split_agg == f.split /\ \E d \in Ents : Received(d) # <<>>
    IN IF mine[e] = Absent \/ (f.ids # Every /\ e \notin f.ids) THEN Absent
       ELSE IF pushed /\ f.filter /\ ~split_agg /\ ~Hit(mine[e]) THEN Absent ELSE mine[e]

Outcome(pushed) ==
    LET f == read.form
        whole(e) == CASE f.kind = "retrieve" -> MergeAll(mine[e], Received(e))
                      [] f.kind = "notified" ->
                            MergeAll(f.fragment,
                                     (IF mine[e] = Absent THEN <<>>
                                      ELSE <<[aux |-> FALSE, v |-> mine[e]]>>) \o Received(e))
                      [] f.kind = "query" -> MergeAll(LocalHalf(e, pushed), Received(e))
        of == [e \in (IF f.ids = Every THEN Ents ELSE f.ids) |-> whole(e)]
    IN [e \in {d \in DOMAIN of : of[d] # Absent /\ (f.filter => Hit(of[d]))} |-> of[e]]

\* Everything is in: merge, filter what was merged, answer.
Merge(pushed) ==
    /\ read.pc = "fan" /\ \A k \in DOMAIN read.got : read.got[k].st # "pending"
    /\ read' = [pc |-> "done", form |-> read.form, regs |-> read.regs, got |-> read.got,
                pushed |-> pushed, answer |-> Outcome(pushed)]
    /\ UNCHANGED <<docs, mine, theirs>>

Next ==
    \/ \E f \in Asks : Ask(f)
    \/ \E k \in 1..Len(docs) : read.pc = "fan" /\ k \in DOMAIN read.got /\ Answered(k)
    \/ \E pushed \in BOOLEAN : Merge(pushed)

Spec == Init /\ [][Next]_vars

-----------------------------------------------------------------------------
(* Properties.                                                             *)

TypeOK ==
    /\ docs \in Catalogue /\ mine \in Mine /\ theirs \in Theirs
    /\ read.pc \in {"ask", "fan", "done"}
    /\ read.pc # "ask" => read.form \in Asks /\ Len(read.regs) <= Len(docs)
    /\ read.pc = "done" => DOMAIN read.answer \subseteq Ents

\* The versions of e that have to count, told from who holds what: those of
\* every source that was asked and did not earn a warning.
Counted(e) ==
    LET f == read.form
        counts(k) == /\ read.got[k].st = "ok" /\ theirs[read.regs[k].src][e] # Absent
                     /\ f.kind = "query" =>
                          e \in read.got[k].ids /\ (can_match_id(read.regs[k], e) \/ f.ids # Every)
        ks == SelectSeq([k \in DOMAIN read.regs |-> k], counts)
        seen(r) == {i \in theirs[r.src][e].insts : covers_attr(r, i.attr)}
    IN [n \in DOMAIN ks |->
          [aux |-> read.regs[ks[n]].mode = "auxiliary",
           v   |-> [exp |-> theirs[read.regs[ks[n]].src][e].exp, insts |-> seen(read.regs[ks[n]])]]]

\* What is held here counts unless the filter has already refused it.
Here(e) ==
    LET f == read.form
        refused == /\ f.kind = "query" /\ f.filter /\ ~f.split /\ read.pushed
                   /\ ~Hit(mine[e])
    IN (IF f.kind = "notified" THEN <<f.fragment>> ELSE <<>>)
       \o (IF mine[e] = Absent \/ refused THEN <<>> ELSE <<mine[e]>>)

\* Is v what 4.5.5.3 makes of the versions main and aux?  Every slot holds its
\* most recent instance that has not expired, an Attribute somebody else has
\* never comes from an auxiliary source, and the entity lives as long as the
\* longest-lived version says, if all of them say.
BestOf(v, main, aux) ==
    LET all == UNION {m.insts : m \in main}
        attrs == {i.attr : i \in all}
    IN /\ \A i, j \in v.insts : SameSlot(i, j) => i = j
       /\ \A i \in all : ~expired(i) =>
             \E j \in v.insts : SameSlot(i, j) /\ ~expired(j) /\ j.at >= i.at
       /\ {i \in v.insts : i.attr \in attrs} \subseteq all
       /\ \A x \in {i.attr : i \in UNION {m.insts : m \in aux}} \ attrs :
             \E m \in aux : /\ {i \in v.insts : i.attr = x} = {i \in m.insts : i.attr = x}
                            /\ \E i \in m.insts : i.attr = x
       /\ main # {} => /\ \A m \in main : m.exp # 0 => v.exp = 0 \/ v.exp >= m.exp
                       /\ (v.exp = 0) = \E m \in main : m.exp = 0
                       /\ v.exp # 0 => \E m \in main : v.exp = m.exp

\* Every answer is the best of what is held here and of what every source that
\* answered holds within its scope, whatever the order of registrations and
\* answers and whichever driver filtered; and an entity is missing only if no
\* version is known or the filter refuses the best one.  (merge_docs,
\* merge_candidates, retrieve_entity_inner, split_merge, split_agg.)
BestOfAll ==
    read.pc = "done" =>
      LET f == read.form
          of(e) == LET got(b) == LET S == SelectSeq(Counted(e), LAMBDA p : p.aux = b)
                                IN [n \in DOMAIN S |-> S[n].v]
                       main == Here(e) \o got(FALSE)
                   IN [main |-> {main[1] : n \in DOMAIN main}
                                \cup {push_down_expires(main[n]) : n \in 2..Len(main)},
                       aux  |-> ToSet(got(TRUE)) \cup {push_down_expires(v) : v \in ToSet(got(TRUE))}]
      IN \A e \in Ents \cap (IF f.ids = Every THEN Ents ELSE f.ids) :
           IF e \in DOMAIN read.answer
           THEN BestOf(read.answer[e], of(e).main, of(e).aux)
           ELSE \/ of(e).main = {} /\ of(e).aux = {}
                \/ /\ f.filter
                   /\ \A i \in UNION {m.insts : m \in of(e).main} : i.hit =>
                        \/ expired(i)
                        \/ \E j \in UNION {m.insts : m \in of(e).main} :
                              SameSlot(i, j) /\ j # i /\ j.at >= i.at

\* Nobody speaks for what its registration does not cover: every instance in an
\* answer is held here or comes from a source with a live registration for that
\* Attribute, and for that entity unless the client itself named it (an
\* unnamed query takes the RegistrationInfos of a registration together); a
\* source left out - by a loop, local scope, an EntityMap or because the
\* notification came from it - says nothing (narrow_to_scope, admits_import,
\* map_gate).
ReadsScoped ==
    read.pc = "done" =>
      LET f == read.form
          named(e) == IF f.ids = Every THEN {e} ELSE f.ids
          speaks(n, e) ==
            n.ents = Every \/ \E m \in n.ents : m.ids = Every \/ m.ids \cap named(e) # {}
          covers(d, e, x) ==
            LET ns == IF f.ids = Every THEN d.infos ELSE {n \in d.infos : speaks(n, e)}
            IN (\E n \in ns : speaks(n, e)) /\ \E n \in ns : n.attrs = Every \/ x \in n.attrs
          may(s, e, x) ==
            /\ ~f.local /\ s \notin ToSet(f.via) /\ Own \notin ToSet(f.via)
            /\ \E k \in DOMAIN docs :
                 /\ docs[k].src = s /\ ~docs[k].expired /\ docs[k].id # f.except
                 /\ covers(docs[k], e, x)
                 /\ f.kind = "retrieve" /\ f.map # Nothing =>
                      \E n \in DOMAIN docs : docs[n].src = s /\ docs[n].id \in f.map
      IN \A e \in DOMAIN read.answer : \A i \in read.answer[e].insts :
            i.from \in Sources => may(i.from, e, i.attr)
=============================================================================
