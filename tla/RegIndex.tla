------------------------------ MODULE RegIndex ------------------------------
(***************************************************************************)
(* One tenant's part of the registration mirror (mirror.rs, RegIndex): the *)
(* documents, and the two dimensions a distributed request narrows on      *)
(* before 5.12 matching is evaluated.  A registration no key of a          *)
(* dimension can exclude is filed in that dimension's any-set.             *)
(*                                                                         *)
(* A document is one of FedScope; an EntityInfo whose ids are not exactly  *)
(* one carries an idPattern.                                               *)
(***************************************************************************)
EXTENDS FedScope

CONSTANTS EntityIds,    \* the keys of by_id
          Types         \* the keys of by_type

Empty == [docs     |-> <<>>,                       \* registration id -> document
          by_type  |-> [t \in Types |-> {}],
          by_id    |-> [e \in EntityIds |-> {}],
          any_type |-> {},
          any_id   |-> {}]

is_pattern(n) == n.ids # Every /\ Cardinality(n.ids) # 1

Selectors(d) == UNION {i.ents : i \in {j \in d.infos : j.ents # Every}}
Unselective(d) == d.infos = {} \/ \E i \in d.infos : i.ents = Every

\* Every stands for "no key can exclude it".
type_keys(d) ==
    IF Unselective(d) \/ \E n \in Selectors(d) : n.types = Every THEN Every
    ELSE UNION {n.types : n \in Selectors(d)}

\* Mutant: an idPattern is filed under the ids it lists today.
id_keys_narrow(d) ==
    IF Unselective(d) \/ \E n \in Selectors(d) : n.ids = Every THEN Every
    ELSE UNION {IF is_pattern(n) THEN {} ELSE n.ids : n \in Selectors(d)}

id_keys(d) ==
    IF Unselective(d) \/ \E n \in Selectors(d) : n.ids = Every \/ is_pattern(n) THEN Every
    ELSE UNION {n.ids : n \in Selectors(d)}

\* Of registrations with these keys, the ones filed under k, and the ones no
\* key excludes; what filing and unfiling them makes of a dimension.
Under(keys, k) == {id \in DOMAIN keys : keys[id] # Every /\ k \in keys[id]}
Anywhere(keys) == {id \in DOMAIN keys : keys[id] = Every}
Unfiled(by, keys) == [k \in DOMAIN by |-> by[k] \ Under(keys, k)]
Filed(by, keys) == [k \in DOMAIN by |-> by[k] \cup Under(keys, k)]

TypeKeys(docs) == [id \in DOMAIN docs |-> type_keys(docs[id])]
IdKeys(docs) == [id \in DOMAIN docs |-> id_keys(docs[id])]

\* The documents of ids leave the index, under the keys they have in it.
remove(x, ids) ==
    LET old == [id \in DOMAIN x.docs \cap ids |-> x.docs[id]]
    IN [docs     |-> [id \in DOMAIN x.docs \ ids |-> x.docs[id]],
        by_type  |-> Unfiled(x.by_type, TypeKeys(old)),
        by_id    |-> Unfiled(x.by_id, IdKeys(old)),
        any_type |-> x.any_type \ Anywhere(TypeKeys(old)),
        any_id   |-> x.any_id \ Anywhere(IdKeys(old))]

\* new: the documents that come in, by id.
file(x, new) ==
    [docs     |-> [id \in DOMAIN new \cup DOMAIN x.docs |->
                     IF id \in DOMAIN new THEN new[id] ELSE x.docs[id]],
     by_type  |-> Filed(x.by_type, TypeKeys(new)),
     by_id    |-> Filed(x.by_id, IdKeys(new)),
     any_type |-> x.any_type \cup Anywhere(TypeKeys(new)),
     any_id   |-> x.any_id \cup Anywhere(IdKeys(new))]

\* Mutant: a new version is filed without unfiling the old one.
insert_over(x, new) == file(x, new)

\* The page of a hydrate comes in one document after another, all of other
\* ids: together they do what each does.
insert(x, new) == file(remove(x, DOMAIN new), new)

\* The ids one dimension leaves: those filed under a key, and the any-set.
bucketed(keys, by, any) == any \cup UNION {by[k] : k \in keys \cap DOMAIN by}

\* The registrations the mirror hands to 5.12 matching.
matching(x, I, T) ==
    {k \in DOMAIN x.docs :
        /\ I # Every => k \in bucketed(I, x.by_id, x.any_id)
        /\ T # Every => k \in bucketed(T, x.by_type, x.any_type)}

\* The contract of the prefilter: it drops nothing 5.12 would match, and the
\* buckets hold no registration under a key its document does not have.
NarrowsSoundly(x) ==
    /\ \A I \in ((SUBSET EntityIds) \ {{}}) \cup {Every}, T \in ((SUBSET Types) \ {{}}) \cup {Every} :
         \A k \in DOMAIN x.docs :
            matching_infos(x.docs[k], I, T, {}) # {} => k \in matching(x, I, T)
    /\ \A t \in Types : \A k \in x.by_type[t] :
         k \in DOMAIN x.docs /\ type_keys(x.docs[k]) # Every /\ t \in type_keys(x.docs[k])
    /\ \A e \in EntityIds : \A k \in x.by_id[e] :
         k \in DOMAIN x.docs /\ id_keys(x.docs[k]) # Every /\ e \in id_keys(x.docs[k])
=============================================================================
