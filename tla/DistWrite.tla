----------------------------- MODULE DistWrite -----------------------------
(***************************************************************************)
(* A write to one entity in a broker with Context Source Registrations     *)
(* (entities.rs, attrs.rs, federation.rs): the request is matched against  *)
(* the registrations, its local part is written to the store, and what the *)
(* registered sources hold is forwarded to them, one after another.  The   *)
(* answer is put together from the parts.  Requests run side by side: each *)
(* step below is one stretch of a handler between two awaits.              *)
(***************************************************************************)
EXTENDS FedScope

CONSTANTS Reqs,         \* the requests
          Forms,          \* Forms[q]: what request q may ask for
          Catalogue,    \* the registration sequences a broker may hold
          Entity,       \* the entity every request names
          Attrs,        \* attributes of entities
          Sources,      \* Context Sources
          Rows,         \* what a broker or source may hold of it at first
          PeerFaults,   \* which faults a source may show
          Absent        \* no such entity

VARIABLES docs,         \* the stored registrations
          row,          \* the local entity: its attributes, or Absent
          held,         \* held[s]: the entity at source s
          req           \* the requests, with their handlers' locals

vars == <<docs, row, held, req>>

FragmentOps == {"updateEntity", "appendAttrs"}       \* 5.6.2, 5.6.3
SingleOps == {"updateAttrs", "replaceAttrs", "deleteAttrs"}
AttrLevel == FragmentOps \cup SingleOps
EntityLevel == {"createEntity", "deleteEntity", "mergeEntity", "replaceEntity"}

\* The statuses of a part.  Everything but "ok" is a failure, 207 included;
\* "skipped" (0) is a registration that was not asked.
Failures == {"exists", "missing", "conflict", "partial", "timeout", "loop",
             "gateway", "unavailable"}
Statuses == Failures \cup {"ok", "skipped"}

Rowset == {Absent} \cup SUBSET Attrs

\* A part: of which registration (0: the local one), what was sent to it,
\* what it applied, its status.
Part(k, sent, applied, status) ==
    [reg |-> k, sent |-> sent, applied |-> applied, status |-> status]

NoReq == [pc |-> "idle", op |-> "none", types |-> Every, attrs |-> {}, via |-> <<>>,
          local |-> FALSE, over |-> TRUE, known |-> FALSE, regs |-> <<>>, next |-> 1,
          parts |-> <<>>, outcome |-> "skipped", wrote |-> {}, updated |-> {},
          refused |-> {}, answer |-> "none"]

Init == /\ docs \in Catalogue
        /\ row \in Rows
        /\ held \in [Sources -> Rows]
        /\ req = [q \in Reqs |-> NoReq]

Proxied(regs) == \E k \in DOMAIN regs : is_proxy(regs[k])

\* The entity specification each operation matches registrations with.
SpecTypes(r) == IF r.op \in {"createEntity", "deleteEntity"} THEN r.types ELSE Every
SpecAttrs(r) == IF r.op = "createEntity" \/ r.op \in AttrLevel THEN r.attrs ELSE {}

-----------------------------------------------------------------------------
(* The prologue: parse, read where the handler reads, plan.                *)

\* PUT reads the target before it plans.
Receive(q) ==
    /\ req[q].pc = "idle"
    /\ \E f \in Forms[q] :
         req' = [req EXCEPT ![q] =
                   [NoReq EXCEPT !.pc = "plan", !.op = f.op, !.types = f.types,
                                 !.attrs = f.attrs, !.via = f.via, !.local = f.local,
                                 !.over = f.over,
                                 !.known = f.op = "replaceEntity" /\ row # Absent]]
    /\ UNCHANGED <<docs, row, held>>

write_plan(q) ==
    /\ req[q].pc = "plan"
    /\ LET r == req[q]
           regs == write_regs(docs, {Entity}, SpecTypes(r), SpecAttrs(r), r.via, r.local)
           verdict == handle_via_loop(r.via, regs)
       IN req' = [req EXCEPT ![q] =
                    IF verdict = "refuse"
                    THEN [r EXCEPT !.pc = "done", !.answer = "loop"]
                    ELSE [r EXCEPT !.pc = IF r.op = "mergeEntity" /\ verdict = "forward" /\ regs # <<>>
                                         THEN "look" ELSE "write",
                                   !.regs = IF verdict = "forward" THEN regs ELSE <<>>]]
    /\ UNCHANGED <<docs, row, held>>

\* PATCH of an entity asks whether the target is known, once it has
\* registrations to weigh that against.
Look(q) ==
    /\ req[q].pc = "look"
    /\ req' = [req EXCEPT ![q].pc = "write", ![q].known = row # Absent]
    /\ UNCHANGED <<docs, row, held>>

-----------------------------------------------------------------------------
(* The local part.  `part` is the local Part, or None when the handler has  *)
(* no local part; `to` is the row afterwards.                              *)

None == Part(0, {}, {}, "skipped")
Local(applied, status) == Part(0, applied, applied, status)

Wrote(q, part, to) ==
    /\ row' = to
    /\ req' = [req EXCEPT ![q].pc = "forward",
                          ![q].wrote = part.applied,
                          ![q].parts = IF part = None THEN <<>> ELSE <<part>>]
    /\ UNCHANGED <<docs, held>>

At(q, op) == req[q].pc = "write" /\ req[q].op = op

\* Only what no proxy holds is stored, and the entity only if some of it is
\* left or no proxy has a say.
create_entity_inner(q) ==
    /\ At(q, "createEntity")
    /\ LET r == req[q]
           rest == strip_proxied(r.regs, Entity, r.types, r.attrs)
       IN CASE rest = {} /\ Proxied(r.regs) -> Wrote(q, None, row)
            [] (rest # {} \/ ~Proxied(r.regs)) /\ row = Absent -> Wrote(q, Local(rest, "ok"), rest)
            [] OTHER -> Wrote(q, Local({}, "exists"), row)

\* The local delete comes first; a miss is a 404 part unless a proxy owns it.
delete_entity(q) ==
    /\ At(q, "deleteEntity")
    /\ IF row # Absent
       THEN Wrote(q, Local(row, "ok"), Absent)
       ELSE Wrote(q, IF Proxied(req[q].regs) THEN None ELSE Local({}, "missing"), row)

merge_entity_inner(q) ==
    /\ At(q, "mergeEntity")
    /\ LET r == req[q]
           rest == strip_proxied(r.regs, Entity, r.types, r.attrs)
           writes == \/ r.regs = <<>>
                     \/ (r.known \/ ~Proxied(r.regs)) /\ rest # {}
       IN CASE ~writes                  -> Wrote(q, None, row)
            [] writes /\ row = Absent   -> Wrote(q, Local({}, "missing"), row)
            [] OTHER                    -> Wrote(q, Local(rest, "ok"), row \cup rest)

\* Mutant: the write trusts the read.
replace_on_read(q) ==
    /\ At(q, "replaceEntity")
    /\ LET r == req[q]
           rest == strip_proxied(r.regs, Entity, r.types, r.attrs)
       IN CASE ~r.known /\ Proxied(r.regs)   -> Wrote(q, None, row)
            [] ~r.known /\ ~Proxied(r.regs)  -> Wrote(q, Local({}, "missing"), row)
            [] OTHER                         -> Wrote(q, Local(rest, "ok"), rest)

\* The read that found the target is not the write that replaces it: the
\* write decides again, under the row lock.
replace_entity(q) ==
    /\ At(q, "replaceEntity")
    /\ LET r == req[q]
           rest == strip_proxied(r.regs, Entity, r.types, r.attrs)
       IN CASE ~r.known /\ Proxied(r.regs)   -> Wrote(q, None, row)
            [] ~r.known /\ ~Proxied(r.regs)  -> Wrote(q, Local({}, "missing"), row)
            [] r.known /\ row = Absent       -> Wrote(q, Local({}, "missing"), row)
            [] OTHER                         -> Wrote(q, Local(rest, "ok"), rest)

\* Mutant: one proxied attribute is enough.
proxies_cover_one(regs, A) ==
    /\ regs # <<>> /\ A # {}
    /\ \E a \in A : \E k \in DOMAIN regs : is_proxy(regs[k]) /\ covers_attr(regs[k], a)

\* The local half of an attribute operation is left out when proxies hold
\* every attribute it touches.
proxies_cover_all(regs, A) ==
    /\ regs # <<>> /\ A # {}
    /\ \A a \in A : \E k \in DOMAIN regs : is_proxy(regs[k]) /\ covers_attr(regs[k], a)

AttrsWrote(q, outcome, applied, refused, to) ==
    /\ row' = to
    /\ req' = [req EXCEPT ![q].pc = "forward",
                          ![q].outcome = outcome,
                          ![q].wrote = applied,
                          ![q].updated = applied,
                          ![q].refused = refused]
    /\ UNCHANGED <<docs, held>>

\* Append and Update: an appended attribute the target has is left alone
\* under noOverwrite (over = FALSE).
write_attrs(q) ==
    /\ req[q].pc = "write" /\ req[q].op \in FragmentOps
    /\ LET r == req[q]
           frag == strip_covered_expanded(r.regs, r.attrs)
       IN CASE proxies_cover_all(r.regs, r.attrs) -> AttrsWrote(q, "skipped", {}, {}, row)
            [] ~proxies_cover_all(r.regs, r.attrs) /\ row = Absent
                 -> AttrsWrote(q, "missing", {}, frag, row)
            [] OTHER -> LET kept == IF r.over THEN {} ELSE frag \cap row
                        IN AttrsWrote(q, "ok", frag \ kept, kept, row \cup frag)

\* Partial update, replace and delete of one attribute.  A delete also finds
\* the attribute when the temporal representation still had it (`past`).
single_attr_local(q) ==
    /\ req[q].pc = "write" /\ req[q].op \in SingleOps
    /\ \E past \in IF req[q].op = "deleteAttrs" THEN BOOLEAN ELSE {FALSE} :
         LET r == req[q]
             found == row # Absent /\ r.attrs \subseteq row
         IN CASE proxies_cover_all(r.regs, r.attrs) -> AttrsWrote(q, "skipped", {}, {}, row)
              [] ~proxies_cover_all(r.regs, r.attrs) /\ ~found /\ ~past
                   -> AttrsWrote(q, "missing", {}, r.attrs, row)
              [] OTHER -> AttrsWrote(q, "ok", r.attrs, {},
                            IF r.op = "deleteAttrs" /\ found THEN row \ r.attrs ELSE row)

-----------------------------------------------------------------------------
(* Forwarding.                                                             *)

\* What a source answers to op with the attributes S while it holds h: the
\* status, what it applied, what it holds then.
Reply(status, applied, h) == [status |-> status, applied |-> applied, held |-> h]

Divisible == {"createEntity", "mergeEntity"} \cup FragmentOps

Applied(op, S, h) ==
    CASE op \in {"createEntity", "replaceEntity"} -> S
      [] op = "deleteEntity"                      -> Absent
      [] op = "deleteAttrs"                       -> h \ S
      [] OTHER                                    -> h \cup S

\* Does a source that holds h take the operation at all, and how much of S?
Fits(op, S, h) ==
    IF op = "createEntity" THEN h = Absent
    ELSE h # Absent /\ (op \in SingleOps => S \subseteq h)
Taken(op, S, over, h) == IF op = "appendAttrs" /\ ~over THEN S \ h ELSE S

Answers(op, S, over, h) ==
    {Reply(f, {}, h) : f \in PeerFaults \ {"partial"}} \cup
    IF ~Fits(op, S, h)
    THEN {Reply(IF op = "createEntity" THEN "exists" ELSE "missing", {}, h)}
    ELSE LET B == Taken(op, S, over, h)
         IN {Reply(IF B = S THEN "ok" ELSE "partial", B, Applied(op, B, h))} \cup
            \* the answer is lost, or comes after the timeout
            {Reply("timeout", B, Applied(op, B, h)) : f \in PeerFaults \cap {"timeout"}} \cup
            \* a source that distributes in its turn reached only some of it
            {Reply("partial", C, Applied(op, C, h)) :
               C \in IF "partial" \in PeerFaults /\ op \in Divisible
                     THEN (SUBSET B) \ {{}, B} ELSE {}}

\* The error vocabulary of a proxied source is fixed: anything else is 502.
proxied_status(r, status) ==
    IF is_proxy(r) /\ status = "unavailable" THEN "gateway" ELSE status

forward_part(q, S) ==
    LET r == req[q]
        g == r.regs[r.next]
    IN \E a \in Answers(r.op, S, r.over, held[g.src]) :
         /\ held' = [held EXCEPT ![g.src] = a.held]
         /\ req' = [req EXCEPT ![q].next = @ + 1,
                               ![q].parts = Append(@, Part(r.next, S, a.applied,
                                                           proxied_status(g, a.status)))]

conflict_part(q) ==
    /\ held' = held
    /\ req' = [req EXCEPT ![q].next = @ + 1,
                          ![q].parts = Append(@, Part(req[q].next, {}, {}, "conflict"))]

\* Mutant: entity operations keep a part for a registration they skip.
SkipWithPart(q, parts) ==
    /\ held' = held
    /\ req' = [req EXCEPT ![q].next = @ + 1,
                          ![q].parts = Append(@, Part(req[q].next, {}, {}, "skipped"))]

Skip(q, parts) ==
    /\ held' = held
    /\ req' = [req EXCEPT ![q].next = @ + 1, ![q].parts = @ \o parts]

Turn(q, ops) == /\ req[q].pc = "forward" /\ req[q].op \in ops
                /\ req[q].next \in DOMAIN req[q].regs
                /\ UNCHANGED <<docs, row>>

\* Entity operations: each registration gets its share of the payload; a
\* delete carries none.
ForwardEntity(q) ==
    /\ Turn(q, EntityLevel)
    /\ LET r == req[q]
           g == r.regs[r.next]
           whole == r.op = "deleteEntity"
       IN \/ ~supports(g, r.op) /\ is_proxy(g) /\ conflict_part(q)
          \/ ~supports(g, r.op) /\ ~is_proxy(g) /\ Skip(q, <<>>)
          \/ /\ supports(g, r.op) /\ ~whole /\ ~in_scope(g, Entity, r.types, r.attrs)
             /\ Skip(q, <<>>)
          \/ /\ supports(g, r.op) /\ (whole \/ in_scope(g, Entity, r.types, r.attrs))
             /\ forward_part(q, IF whole THEN {} ELSE reduce_to_scope(g, r.attrs))

\* Attribute operations: the parts stay one to one with the registrations,
\* and the body travels as the client sent it.
fed_attr_parts(q) ==
    /\ Turn(q, AttrLevel)
    /\ LET r == req[q]
           g == r.regs[r.next]
       IN \/ ~supports(g, r.op) /\ is_proxy(g) /\ conflict_part(q)
          \/ ~supports(g, r.op) /\ ~is_proxy(g) /\ Skip(q, <<Part(r.next, {}, {}, "skipped")>>)
          \/ supports(g, r.op) /\ forward_part(q, r.attrs)

-----------------------------------------------------------------------------
(* The answer.                                                             *)

ok(p) == p.status = "ok"

\* Mutant: the first failure is the answer.
combine_first_failure(parts) ==
    IF \A k \in DOMAIN parts : ok(parts[k]) THEN "ok"
    ELSE parts[CHOOSE k \in DOMAIN parts : ~ok(parts[k]) /\ \A j \in 1..k-1 : ok(parts[j])].status

\* Entity operations: one failing part answers for all of them only when it is
\* the only one.
combine(parts) ==
    CASE \A k \in DOMAIN parts : ok(parts[k]) -> "ok"
      [] Len(parts) = 1 /\ ~ok(parts[1])      -> parts[1].status
      [] OTHER                                -> "partial"

\* Attribute operations: the 207 body names every attribute updated or not.
AnyFedOk(r) == \E k \in DOMAIN r.parts : ok(r.parts[k])

Covered(r, k) == {a \in r.attrs : covers_attr(r.regs[k], a)}

combined_updated(r) ==
    r.updated \cup UNION {Covered(r, k) : k \in {j \in DOMAIN r.parts : ok(r.parts[j])}}

combined_refused(r) ==
    r.refused \cup UNION {Covered(r, k) : k \in {j \in DOMAIN r.parts : r.parts[j].status \in Failures}}

\* Nothing is known to be written anywhere.
Nothing(r) == combined_updated(r) = {} /\ ~AnyFedOk(r) /\ r.outcome # "ok"

ProxyLooped(r) ==
    \E k \in DOMAIN r.parts : is_proxy(r.regs[k]) /\ r.parts[k].status = "loop"
Conflicted(r) == \E k \in DOMAIN r.parts : r.parts[k].status = "conflict"
LoneProxyFailed(r) ==
    Len(r.regs) = 1 /\ is_proxy(r.regs[1]) /\ ~ok(r.parts[1]) /\ r.outcome = "skipped"

combine_attr_parts(r) ==
    IF Nothing(r) /\ ProxyLooped(r) THEN "loop"
    ELSE IF Nothing(r) /\ r.outcome = "missing" THEN "missing"
    ELSE IF Nothing(r) /\ Conflicted(r) THEN "conflict"
    ELSE IF LoneProxyFailed(r) THEN r.parts[1].status
    ELSE IF combined_refused(r) = {} THEN "ok" ELSE "partial"

\* With no registrations the local result is the answer.
Answer(q) ==
    /\ req[q].pc = "forward"
    /\ req[q].next \notin DOMAIN req[q].regs
    /\ LET r == req[q]
           verdict == CASE r.op \in EntityLevel -> combine(r.parts)
                        [] r.op \in AttrLevel /\ r.regs # <<>> -> combine_attr_parts(r)
                        [] r.op \in AttrLevel /\ r.regs = <<>> /\ r.outcome = "missing" -> "missing"
                        [] OTHER -> IF r.refused = {} THEN "ok" ELSE "partial"
       IN req' = [req EXCEPT ![q].pc = "done", ![q].answer = verdict,
                             ![q].updated = IF r.op \in AttrLevel THEN combined_updated(r) ELSE @,
                             ![q].refused = IF r.op \in AttrLevel THEN combined_refused(r) ELSE @]
    /\ UNCHANGED <<docs, row, held>>

Next == \E q \in Reqs :
            \/ Receive(q) \/ write_plan(q) \/ Look(q)
            \/ create_entity_inner(q) \/ delete_entity(q) \/ merge_entity_inner(q)
            \/ replace_entity(q) \/ write_attrs(q) \/ single_attr_local(q)
            \/ ForwardEntity(q) \/ fed_attr_parts(q) \/ Answer(q)

Spec == Init /\ [][Next]_vars

-----------------------------------------------------------------------------
(* Properties.                                                             *)

Done(q) == req[q].pc = "done"
Acked(q) == UNION {req[q].parts[k].applied : k \in DOMAIN req[q].parts}

\* Does some registration of the source of docs[k] name only types other than
\* T?  The compilation reads the types of all of them as one list.
Narrowed(k, T) ==
    /\ T # Every
    /\ \E j \in DOMAIN docs :
         /\ SameSource(docs[j], docs[k])
         /\ \E i \in docs[j].infos : i.ents # Every /\
              \E n \in i.ents : n.types # Every /\ n.types \cap T = {}

\* docs[k] proxies attribute a of the entity, as its document says it: of an
\* EntityInfo and an attribute of one RegistrationInfo.  An EntityInfo without
\* types stands for every type only where none is named beside it.
ProxyFor(k, T, a) ==
    /\ is_proxy(docs[k])
    /\ ~docs[k].expired
    /\ \E i \in docs[k].infos :
         /\ i.attrs = Every \/ a \in i.attrs
         /\ IF i.ents = Every THEN ~Narrowed(k, T)
            ELSE \E n \in i.ents : /\ entity_info_matches(n, {Entity}, T)
                                   /\ n.types = Every => ~Narrowed(k, T)

\* Type correctness.
TypeOK ==
    /\ docs \in Catalogue
    /\ row \in Rowset
    /\ held \in [Sources -> Rowset]
    /\ \A q \in Reqs :
         /\ req[q].pc \in {"idle", "plan", "look", "write", "forward", "done"}
         /\ req[q].op \in EntityLevel \cup AttrLevel \cup {"none"}
         /\ req[q].attrs \subseteq Attrs
         /\ req[q].updated \subseteq Attrs /\ req[q].refused \subseteq Attrs
         /\ req[q].answer \in Failures \cup {"ok", "none"}
         /\ \A k \in DOMAIN req[q].parts :
              req[q].parts[k].status \in Statuses /\ req[q].parts[k].applied \subseteq Attrs

\* 4.3.6.3, strip_proxied and strip_covered_expanded: what an exclusive or
\* redirect registration holds is not stored here by a request that considers
\* registrations (no local scope, no loop), whatever unions the compilation
\* of registrations took and however requests interleave.
ProxiedStaysOut ==
    \A q \in Reqs :
        LET r == req[q]
        IN (r.wrote # {} /\ r.op # "deleteEntity" /\ ~r.local /\ r.via = <<>>) =>
              \A a \in r.wrote : \A k \in DOMAIN docs : ~ProxyFor(k, r.types, a)

\* combine: an error answer to an entity operation means that nothing is known
\* to have been written: no local write and no source that acknowledged one,
\* not even in part.  What succeeded beside a failure is answered with 207.
ErrorMeansNothingWritten ==
    \A q \in Reqs :
        (Done(q) /\ req[q].op \in EntityLevel /\ req[q].answer \notin {"ok", "partial"}) =>
            \A k \in DOMAIN req[q].parts : req[q].parts[k].status \notin {"ok", "partial"}

\* combine_attr_parts: a 204 or 207 to an attribute operation accounts for every
\* attribute of the request, and lists as updated only what the local store or
\* a source has applied.
AttributesAccounted ==
    \A q \in Reqs :
        LET r == req[q]
        IN (Done(q) /\ r.op \in AttrLevel /\ r.answer \in {"ok", "partial"}) =>
              /\ r.attrs \subseteq r.updated \cup r.refused
              /\ r.updated \subseteq r.wrote \cup Acked(q)

\* replace_entity, merge_entity_inner: only a create makes an entity exist; a
\* write that found its target and lost it to a delete does not put it back.
Revived ==
    row = Absent /\ row' # Absent =>
        \E q \in Reqs : At(q, "createEntity") /\ req'[q].pc = "forward"
OnlyCreateRevives == [][Revived]_vars
=============================================================================
