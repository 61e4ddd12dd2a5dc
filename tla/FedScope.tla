------------------------------ MODULE FedScope ------------------------------
(***************************************************************************)
(* What a Context Source Registration covers (federation.rs, registry.rs): *)
(* matching a request against stored registrations, compiling a match for  *)
(* forwarding, cutting a payload down to a registration's share, and the   *)
(* loop rule of the Via chain.  Distributed writes, batches and reads are  *)
(* built from these operators.                                             *)
(*                                                                         *)
(* A registration document d has                                           *)
(*   d.id, d.src (endpoint, tenant, alias and headers taken together),     *)
(*   d.mode, d.ops (the operations it names, groups expanded), d.expired,  *)
(*   d.infos: a set of RegistrationInfos [ents, attrs], where ents is a    *)
(*   set of EntityInfos [ids, types] and each member may be Every.  An id    *)
(*   pattern is the set of the ids it matches.                             *)
(***************************************************************************)
EXTENDS Naturals, FiniteSets, SequencesExt

CONSTANTS Every,          \* "no restriction" in a RegistrationInfo
          Own,          \* the alias of this broker for the tenant
          MaxHops       \* MAX_VIA_HOPS

\* 5.12: does an EntityInfo match a request for the entities I of the types T?
\* I = Every is a request that names no entity, T = Every one that states no
\* type.
entity_info_matches(n, I, T) ==
    /\ n.types = Every \/ T = Every \/ n.types \cap T # {}
    /\ n.ids = Every \/ I = Every \/ n.ids \cap I # {}

\* The RegistrationInfos of d that a request selects; A = {} names no attribute.
matching_infos(d, I, T, A) ==
    {i \in d.infos : /\ i.ents = Every \/ \E n \in i.ents : entity_info_matches(n, I, T)
                     /\ A = {} \/ i.attrs = Every \/ i.attrs \cap A # {}}

\* Registrations compiled from the infos that matched: their unions, over every
\* EntityInfo of each.  The id and the source are those of d.
Compile(d, infos) ==
    LET ents == UNION {i.ents : i \in {j \in infos : j.ents # Every}}
    IN [id    |-> d.id,
        src   |-> d.src,
        mode  |-> d.mode,
        ops   |-> d.ops,
        attrs |-> IF \E i \in infos : i.attrs = Every THEN Every
                  ELSE UNION {i.attrs : i \in infos},
        ids   |-> UNION {n.ids : n \in {m \in ents : m.ids # Every}},
        types |-> UNION {n.types : n \in {m \in ents : m.types # Every}},
        free  |-> \/ \E i \in infos : i.ents = Every
                  \/ \E n \in ents : n.ids = Every]

\* Two registrations of one source, mode and operation set fold into one.
SameSource(r, s) == r.src = s.src /\ r.mode = s.mode /\ r.ops = s.ops

Alike(docs, K, k) == {j \in K : SameSource(docs[j], docs[k])}

\* Of the registrations K, the first of each source, in registration order.
Leads(docs, K) == {k \in K : \A j \in Alike(docs, K, k) : k <= j}
Lead(docs, K, m) ==
    CHOOSE k \in Leads(docs, K) : Cardinality({j \in Leads(docs, K) : j <= k}) = m

\* Every other one is folded into the first of its source: the unions of their
\* compilations, an unscoped one covering everything, are the compilation of
\* all their infos.
Pooled(docs, K, k, I, T, A) ==
    UNION {matching_infos(docs[j], I, T, A) : j \in Alike(docs, K, k)}

merge_same_source(docs, K, I, T, A) ==
    [m \in 1..Cardinality(Leads(docs, K)) |->
       LET k == Lead(docs, K, m) IN Compile(docs[k], Pooled(docs, K, k, I, T, A))]

\* The registrations that may take part in a request: a source already named
\* in the chain is not matched again.
reg_candidates(docs, I, T, A, via) ==
    {k \in DOMAIN docs : /\ ~docs[k].expired
                         /\ docs[k].src \notin ToSet(via)
                         /\ matching_infos(docs[k], I, T, A) # {}}

\* Compiled, in registration order.  A chain past the cap matches none.
matching_regs(docs, I, T, A, via) ==
    IF Len(via) > MaxHops THEN <<>>
    ELSE merge_same_source(docs, reg_candidates(docs, I, T, A, via), I, T, A)

supports(r, op) == op \in r.ops
is_proxy(r) == r.mode \in {"exclusive", "redirect"}
covers_attr(r, a) == r.attrs = Every \/ a \in r.attrs
covers_item(r, e, T) ==
    /\ r.ids # {} /\ ~r.free => e \in r.ids
    /\ r.types # {} /\ T # Every => r.types \cap T # {}

\* 4.3.6.2: a write never considers an auxiliary registration, and a request
\* with local scope considers none.  (Registrations of one source that fold
\* have one mode.)
write_regs(docs, I, T, A, via, local) ==
    IF local \/ Len(via) > MaxHops THEN <<>>
    ELSE merge_same_source(docs, {k \in reg_candidates(docs, I, T, A, via) :
                                    docs[k].mode # "auxiliary"}, I, T, A)

via_loop(via) == Len(via) > MaxHops \/ Own \in ToSet(via)

\* "refuse" is 508 Loop Detected, "local" serves the request without its
\* registrations, "forward" goes on with them.
handle_via_loop(via, regs) ==
    CASE Len(via) > MaxHops                   -> "refuse"
      [] Len(via) <= MaxHops /\ (regs = <<>> \/ ~via_loop(via)) -> "forward"
      [] OTHER -> IF Len(regs) = 1 /\ is_proxy(regs[1]) THEN "refuse" ELSE "local"

\* The part of a payload (entity e, stating the types T, attributes A) that a
\* registration may see, and whether it may see any of it.
in_scope(r, e, T, A) == covers_item(r, e, T) /\ (r.attrs # Every => A \cap r.attrs # {})
reduce_to_scope(r, A) == IF r.attrs = Every THEN A ELSE A \cap r.attrs

\* Mutant: a redirect is not taken for a proxy here.
strip_exclusive(regs, e, T, A) ==
    {a \in A : \A k \in DOMAIN regs :
        ~(regs[k].mode = "exclusive" /\ covers_item(regs[k], e, T) /\ covers_attr(regs[k], a))}

\* What is left of the payload once the proxies have taken theirs: of a whole
\* entity, and of an attribute fragment.
strip_proxied(regs, e, T, A) ==
    {a \in A : \A k \in DOMAIN regs :
        ~(is_proxy(regs[k]) /\ covers_item(regs[k], e, T) /\ covers_attr(regs[k], a))}
strip_covered_expanded(regs, A) ==
    {a \in A : \A k \in DOMAIN regs : ~(is_proxy(regs[k]) /\ covers_attr(regs[k], a))}
=============================================================================
