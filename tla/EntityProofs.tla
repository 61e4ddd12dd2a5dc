---------------------------- MODULE EntityProofs ----------------------------
(***************************************************************************)
(* For every set of Attributes, values, requests and bounds: what a client *)
(* was answered is in the history, and the instanceIds it was handed stay; *)
(* with a driver that locks what it looks up, the history recorded for an  *)
(* Entity never outlives it.  Then the other operations on Entities, as    *)
(* instances: distributed writes, for every catalogue, request and fault,  *)
(* and batches, for every array of items.                                  *)
(***************************************************************************)
EXTENDS History, Sequences, FiniteSetTheorems, TLAPS

\* What a request between two calls holds.
Between ==
    {Free} \cup [pc : {"drain", "append", "extend"}, ev : Instances, seen : Nat]
           \cup [pc : {"mirror"}] \cup [pc : {"tombstone"}, attr : Attrs]
           \cup [pc : {"get", "create", "merge"}, in : Inputs, n : Nat]

\* NoOrphanHistory is not inductive: an append that found the Entity has to be
\* known to hold it until it commits, and no append of a locking driver ever
\* comes to the memory driver's second call.
Typed ==
    /\ entity \in [live : BOOLEAN, insts : SUBSET Inputs]
    /\ evo \in [stored : BOOLEAN, by : {"core", "api", "lost"}, insts : SUBSET Instances]
    /\ hs \in [Handlers -> Between]
    /\ spent \in [Counts -> Nat]
AppendHolds == \A h \in Handlers : hs[h].pc = "append" => entity.live
NoExtend == \A h \in Handlers : hs[h].pc # "extend"
Held == Locking => AppendHolds /\ NoExtend /\ NoOrphanHistory
IInv == Typed /\ Held

-----------------------------------------------------------------------------
(* The parts of a step.                                                    *)

\* Counting keeps the counters counters.
LEMMA CountTyped ==
    ASSUME Typed, NEW c \in Counts, Count(c) PROVE spent' \in [Counts -> Nat]
BY DEF Typed, Count, Counts

LEMMA Count2Typed ==
    ASSUME Typed, NEW c \in Counts, NEW d \in Counts, Count2(c, d) PROVE spent' \in [Counts -> Nat]
BY DEF Typed, Count2, Counts

\* A request that goes on holds what its next call needs.
LEMMA GoTyped ==
    ASSUME Typed, NEW h \in Handlers, NEW s \in Between, Go(h, s)
    PROVE  /\ hs' \in [Handlers -> Between]
           /\ hs'[h] = s
           /\ \A g \in Handlers : g # h => hs'[g] = hs[g]
BY DEF Typed, Go

LEMMA AnswerTyped ==
    ASSUME Typed, NEW h \in Handlers, Answer(h)
    PROVE  /\ hs' \in [Handlers -> Between]
           /\ hs'[h] = Free
           /\ \A g \in Handlers : g # h => hs'[g] = hs[g]
BY DEF Typed, Answer, Go, Between

\* The ids given out are instanceIds.
LEMMA IdsTyped ==
    ASSUME Typed PROVE Fresh \in Ids /\ \A in \in Inputs : instance_id(in) \in Ids
BY DEF Typed, Fresh, instance_id, Ids, Inputs, Instants, Counts

LEMMA StampedTyped ==
    ASSUME NEW in \in [attr : Attrs, at : Instants, val : Values \cup {Null}], NEW id \in Ids
    PROVE  Stamped(in, id) \in Instances
BY DEF Stamped, Instances

LEMMA InputsAreStampable ==
    Inputs \subseteq [attr : Attrs, at : Instants, val : Values \cup {Null}]
BY DEF Inputs

\* A delete of the Entity aside, nothing that goes on breaks the rest of the
\* invariant: a request other than the one that moves stays where it was.
LEMMA Rest ==
    ASSUME IInv, NEW h \in Handlers, \A g \in Handlers : g # h => hs'[g] = hs[g],
           hs[h].pc # "mirror", hs'[h].pc # "extend",
           hs'[h].pc = "append" => entity'.live,
           entity.live => entity'.live,
           evo'.stored => \/ evo.stored /\ evo'.by = evo.by
                          \/ evo'.by # "core" \/ entity'.live
    PROVE  Held'
<1> SUFFICES ASSUME Locking PROVE AppendHolds' /\ NoExtend' /\ NoOrphanHistory'
  BY DEF Held
<1>1. AppendHolds' /\ NoExtend'
  BY DEF IInv, Held, AppendHolds, NoExtend
<1>2. ASSUME evo'.stored, evo'.by = "core", ~entity'.live
      PROVE  \E g \in Handlers : hs'[g].pc = "mirror"
  <2>1. PICK g \in Handlers : hs[g].pc = "mirror"
    BY <1>2 DEF IInv, Held, NoOrphanHistory
  <2>2. hs'[g] = hs[g]
    BY <2>1
  <2> QED BY <2>1, <2>2
<1> QED BY <1>1, <1>2 DEF NoOrphanHistory

-----------------------------------------------------------------------------
(* Writes of the Entity.                                                   *)

LEMMA WriteKeeps ==
    ASSUME IInv, NEW h \in Handlers, NEW in \in Inputs, Write(h, in) PROVE IInv'
<1> DEFINE ev == Stamped(in, instance_id(in))
           s == [pc |-> "drain", ev |-> ev, seen |-> spent.deletes]
<1>1. Typed /\ ev \in Instances
  BY IdsTyped, StampedTyped, InputsAreStampable DEF IInv
<1>2. s \in Between
  BY <1>1 DEF Between, Typed, Counts
<1>3. entity' \in [live : BOOLEAN, insts : SUBSET Inputs] /\ entity'.live
  BY <1>1 DEF Write, Typed
<1>4. hs[h] = Free /\ evo' = evo
  BY DEF Write, Ask
<1>5. CASE Answer(h) /\ Count("asks")
  <2>1. Typed'
    BY <1>1, <1>3, <1>4, <1>5, AnswerTyped, CountTyped DEF Typed, Counts
  <2>2. Held'
    BY <1>1, <1>3, <1>4, <1>5, AnswerTyped, Rest DEF Free
  <2> QED BY <2>1, <2>2 DEF IInv
<1>6. CASE Go(h, s) /\ Count2("asks", "ids")
  <2>1. Typed'
    BY <1>1, <1>2, <1>3, <1>4, <1>6, GoTyped, Count2Typed DEF Typed, Counts
  <2>2. Held'
    BY <1>1, <1>2, <1>3, <1>4, <1>6, GoTyped, Rest DEF Free
  <2> QED BY <2>1, <2>2 DEF IInv
<1> QED BY <1>5, <1>6 DEF Write

LEMMA DrainKeeps ==
    ASSUME IInv, NEW h \in Handlers, Drain(h) PROVE IInv'
<1> DEFINE s == [hs[h] EXCEPT !.pc = "append"]
<1>1. Typed /\ hs[h].pc = "drain" /\ UNCHANGED <<entity, evo, spent>>
  BY DEF IInv, Drain
<1>2. s \in Between /\ s.pc = "append"
  BY <1>1 DEF Typed, Between, Free
<1>3. CASE entity.live /\ Go(h, s)
  <2>1. Typed'
    BY <1>1, <1>2, <1>3, GoTyped DEF Typed
  <2>2. Held'
    BY <1>1, <1>2, <1>3, GoTyped, Rest
  <2> QED BY <2>1, <2>2 DEF IInv
<1>4. CASE Answer(h)
  <2>1. Typed'
    BY <1>1, <1>4, AnswerTyped DEF Typed
  <2>2. Held'
    BY <1>1, <1>4, AnswerTyped, Rest DEF Free
  <2> QED BY <2>1, <2>2 DEF IInv
<1> QED BY <1>3, <1>4 DEF Drain

LEMMA AppendKeeps ==
    ASSUME IInv, NEW h \in Handlers, temporal_append(h) PROVE IInv'
<1>1. Typed /\ hs[h].pc = "append" /\ UNCHANGED <<entity, spent>>
  BY DEF IInv, temporal_append
<1>2. hs[h] \in [pc : {"drain", "append", "extend"}, ev : Instances, seen : Nat]
  BY <1>1 DEF Typed, Between, Free
<1>3. CASE Locking
  <2>1. Answer(h) /\ evo' = [evo EXCEPT !.stored = TRUE, !.insts = insert_rows(@, hs[h].ev)]
    BY <1>3 DEF temporal_append
  <2>2. entity.live
    BY <1>1, <1>3 DEF IInv, Held, AppendHolds
  <2>3. hs[h].ev \in Instances
    BY <1>2
  <2>4. evo' \in [stored : BOOLEAN, by : {"core", "api", "lost"}, insts : SUBSET Instances]
    <3>1. insert_rows(evo.insts, hs[h].ev) \in SUBSET Instances
      BY <1>1, <2>3 DEF Typed, insert_rows
    <3>2. evo' = [[evo EXCEPT !.stored = TRUE] EXCEPT !.insts = insert_rows(evo.insts, hs[h].ev)]
      BY <1>1, <2>1 DEF Typed
    <3> QED BY <1>1, <3>1, <3>2 DEF Typed
  <2>5. Typed'
    BY <1>1, <2>1, <2>4, AnswerTyped DEF Typed
  <2>6. Held'
    BY <1>1, <2>1, <2>2, AnswerTyped, Rest DEF Free
  <2> QED BY <2>5, <2>6 DEF IInv
<1>4. CASE ~Locking
  <2> DEFINE s == [hs[h] EXCEPT !.pc = "extend"]
  <2>1. Go(h, s) /\ evo' = [evo EXCEPT !.stored = TRUE]
    BY <1>4 DEF temporal_append
  <2>2. s \in Between
    BY <1>2 DEF Between
  <2>3. evo' \in [stored : BOOLEAN, by : {"core", "api", "lost"}, insts : SUBSET Instances]
    BY <1>1, <2>1 DEF Typed
  <2>4. Typed'
    BY <1>1, <2>1, <2>2, <2>3, GoTyped DEF Typed
  <2> QED BY <1>4, <2>4 DEF IInv, Held
<1> QED BY <1>3, <1>4

\* Only the memory driver comes to the second call.
LEMMA ExtendKeeps ==
    ASSUME IInv, NEW h \in Handlers, Extend(h) PROVE IInv'
<1>1. /\ Typed /\ Answer(h) /\ hs[h].pc = "extend" /\ UNCHANGED <<entity, spent>>
      /\ evo' = IF evo.stored THEN [evo EXCEPT !.insts = insert_rows(@, hs[h].ev)] ELSE evo
  BY DEF IInv, Extend
<1>2. ~Locking
  BY <1>1 DEF IInv, Held, NoExtend
<1>3. hs[h].ev \in Instances
  BY <1>1 DEF Typed, Between, Free
<1>4. evo' \in [stored : BOOLEAN, by : {"core", "api", "lost"}, insts : SUBSET Instances]
  BY <1>1, <1>3 DEF Typed, insert_rows
<1>5. Typed'
  BY <1>1, <1>4, AnswerTyped DEF Typed
<1> QED BY <1>2, <1>5 DEF IInv, Held

LEMMA DrainFailsKeeps ==
    ASSUME IInv, NEW h \in Handlers, DrainFails(h) PROVE IInv'
<1>1. /\ Typed /\ hs[h].pc \in {"drain", "append"} /\ UNCHANGED <<entity, evo>>
      /\ Answer(h) /\ Count("fails")
  BY DEF IInv, DrainFails
<1>2. Typed'
  BY <1>1, AnswerTyped, CountTyped DEF Typed, Counts
<1>3. Held'
  BY <1>1, AnswerTyped, Rest DEF Free
<1> QED BY <1>2, <1>3 DEF IInv

-----------------------------------------------------------------------------
(* Deletes and their mirrors.                                              *)

\* The delete waits for every append, and is itself the request that will
\* remove the history.
LEMMA DeleteEntityKeeps ==
    ASSUME IInv, NEW h \in Handlers, delete_entity(h) PROVE IInv'
<1> DEFINE s == [pc |-> "mirror"]
<1>1. /\ Typed /\ Go(h, s) /\ Count2("asks", "deletes") /\ entity' = NoEntity /\ evo' = evo
      /\ Locking => \A g \in Handlers : hs[g].pc # "append"
  BY DEF IInv, delete_entity, MayDelete
<1>2. s \in Between
  BY DEF Between
<1>3. Typed'
  BY <1>1, <1>2, GoTyped, Count2Typed DEF Typed, Counts, NoEntity
<1>4. Held'
  BY <1>1, <1>2, GoTyped DEF IInv, Held, AppendHolds, NoExtend, NoOrphanHistory
<1> QED BY <1>3, <1>4 DEF IInv

LEMMA MirrorDeleteEntityKeeps ==
    ASSUME IInv, NEW h \in Handlers, mirror_delete_entity(h) PROVE IInv'
<1>1. Typed /\ Answer(h) /\ evo' = NoEvolution /\ UNCHANGED <<entity, spent>>
  BY DEF IInv, mirror_delete_entity
<1>2. Typed'
  BY <1>1, AnswerTyped DEF Typed, NoEvolution
<1>3. Held'
  BY <1>1, AnswerTyped DEF IInv, Held, AppendHolds, NoExtend, NoOrphanHistory, NoEvolution, Free
<1> QED BY <1>2, <1>3 DEF IInv

LEMMA MirrorFailsKeeps ==
    ASSUME IInv, NEW h \in Handlers, MirrorFails(h) PROVE IInv'
<1>1. /\ Typed /\ Answer(h) /\ Count("fails") /\ entity' = entity
      /\ hs[h].pc \in {"mirror", "tombstone"}
      /\ evo' = IF hs[h].pc = "mirror" /\ evo.stored THEN [evo EXCEPT !.by = "lost"] ELSE evo
  BY DEF IInv, MirrorFails
<1>2. Typed'
  <2>1. evo' \in [stored : BOOLEAN, by : {"core", "api", "lost"}, insts : SUBSET Instances]
    BY <1>1 DEF Typed
  <2> QED BY <1>1, <2>1, AnswerTyped, CountTyped DEF Typed, Counts
<1>3. Locking => AppendHolds' /\ NoExtend'
  BY <1>1, AnswerTyped DEF IInv, Held, AppendHolds, NoExtend, Free
<1>4. CASE hs[h].pc = "mirror"
  <2>1. ~evo'.stored \/ evo'.by = "lost"
    BY <1>1, <1>4 DEF Typed
  <2>2. NoOrphanHistory'
    BY <2>1 DEF NoOrphanHistory
  <2> QED BY <1>2, <1>3, <2>2 DEF IInv, Held
<1>5. CASE hs[h].pc = "tombstone"
  <2>1. Held'
    BY <1>1, <1>5, AnswerTyped, Rest DEF Free
  <2> QED BY <1>2, <2>1 DEF IInv
<1> QED BY <1>1, <1>4, <1>5

LEMMA DeleteAttrKeeps ==
    ASSUME IInv, NEW h \in Handlers, NEW a \in Attrs, delete_attr(h, a) PROVE IInv'
<1> DEFINE s == [pc |-> "tombstone", attr |-> a]
<1>1. /\ Typed /\ Go(h, s) /\ Count("asks") /\ evo' = evo /\ hs[h] = Free
      /\ entity' = [entity EXCEPT !.insts = {i \in @ : i.attr # a}]
  BY DEF IInv, delete_attr, Ask
<1>2. s \in Between
  BY DEF Between
<1>3. entity' \in [live : BOOLEAN, insts : SUBSET Inputs] /\ entity'.live = entity.live
  BY <1>1 DEF Typed
<1>4. Typed'
  BY <1>1, <1>2, <1>3, GoTyped, CountTyped DEF Typed, Counts
<1>5. Held'
  BY <1>1, <1>2, <1>3, GoTyped, Rest DEF Free
<1> QED BY <1>4, <1>5 DEF IInv

LEMMA MirrorDeleteAttrKeeps ==
    ASSUME IInv, NEW h \in Handlers, mirror_delete_attr(h) PROVE IInv'
<1> DEFINE gone == [attr |-> hs[h].attr, at |-> NoTime, val |-> Null]
<1>1. Typed /\ Answer(h) /\ entity' = entity /\ hs[h].pc = "tombstone"
  BY DEF IInv, mirror_delete_attr
<1>2. \/ evo' = [evo EXCEPT !.insts = @ \cup {Stamped(gone, Fresh)}] /\ Count("ids")
      \/ UNCHANGED <<evo, spent>>
  BY DEF mirror_delete_attr
<1>3. Stamped(gone, Fresh) \in Instances
  <2>1. hs[h].attr \in Attrs
    BY <1>1 DEF Typed, Between, Free
  <2>2. gone \in [attr : Attrs, at : Instants, val : Values \cup {Null}]
    BY <2>1 DEF Instants
  <2> QED BY <1>1, <2>2, IdsTyped, StampedTyped
<1>4. /\ evo' \in [stored : BOOLEAN, by : {"core", "api", "lost"}, insts : SUBSET Instances]
      /\ evo'.stored = evo.stored /\ evo'.by = evo.by
  BY <1>1, <1>2, <1>3 DEF Typed
<1>5. spent' \in [Counts -> Nat]
  BY <1>1, <1>2, CountTyped DEF Typed, Counts
<1>6. Typed'
  BY <1>1, <1>4, <1>5, AnswerTyped DEF Typed
<1>7. Held'
  BY <1>1, <1>4, AnswerTyped, Rest DEF Free
<1> QED BY <1>6, <1>7 DEF IInv

-----------------------------------------------------------------------------
(* Requests for the history itself: what they create is theirs ("api"), and *)
(* what they edit stays whose it was.                                      *)

LEMMA UpsertKeeps ==
    ASSUME IInv, NEW h \in Handlers, NEW in \in Inputs, upsert_temporal(h, in) PROVE IInv'
<1> DEFINE s == [pc |-> "get", in |-> in, n |-> 0]
<1>1. Typed /\ Go(h, s) /\ Count("asks") /\ UNCHANGED <<entity, evo>> /\ hs[h] = Free
  BY DEF IInv, upsert_temporal, Ask
<1>2. s \in Between
  BY DEF Between
<1>3. Typed'
  BY <1>1, <1>2, GoTyped, CountTyped DEF Typed, Counts
<1>4. Held'
  BY <1>1, <1>2, GoTyped, Rest DEF Free
<1> QED BY <1>3, <1>4 DEF IInv

\* The loop's next turn leaves the request between two calls.
LEMMA NextTurn ==
    ASSUME Typed, NEW h \in Handlers, UpsertGet(h)
    PROVE  \/ Answer(h)
           \/ \E s \in Between : s.pc \in {"create", "merge"} /\ Go(h, s)
<1> DEFINE p == IF evo.stored THEN "merge" ELSE "create"
<1>1. hs[h].pc = "get"
  BY DEF UpsertGet
<1>2. hs[h] \in [pc : {"get", "create", "merge"}, in : Inputs, n : Nat]
  BY <1>1 DEF Typed, Between, Free
<1>3. CASE Go(h, [hs[h] EXCEPT !.pc = p, !.n = @ + 1])
  <2>1. p \in {"create", "merge"}
    OBVIOUS
  <2> DEFINE t == [pc |-> p, in |-> hs[h].in, n |-> hs[h].n + 1]
  <2> HIDE DEF p
  <2>2. [hs[h] EXCEPT !.pc = p, !.n = @ + 1] = t
    <3> DEFINE q == [pc |-> p, in |-> hs[h].in, n |-> hs[h].n]
    <3>1. [hs[h] EXCEPT !.pc = p] = q
      BY <1>2
    <3>2. [q EXCEPT !.n = hs[h].n + 1] = t
      OBVIOUS
    <3> HIDE DEF q
    <3>3. [hs[h] EXCEPT !.pc = p, !.n = @ + 1] = [[hs[h] EXCEPT !.pc = p] EXCEPT !.n = hs[h].n + 1]
      OBVIOUS
    <3> QED BY <3>1, <3>2, <3>3
  <2>3. t \in Between /\ t.pc = p
    BY <1>2, <2>1 DEF Between
  <2>4. Go(h, t)
    BY <1>3, <2>2
  <2> HIDE DEF t
  <2> QED BY <2>1, <2>3, <2>4
<1> QED BY <1>3 DEF UpsertGet

LEMMA UpsertGetKeeps ==
    ASSUME IInv, NEW h \in Handlers, UpsertGet(h) PROVE IInv'
<1>1. Typed /\ hs[h].pc = "get" /\ UNCHANGED <<entity, evo, spent>>
  BY DEF IInv, UpsertGet
<1>2. CASE Answer(h)
  <2>1. Typed'
    BY <1>1, <1>2, AnswerTyped DEF Typed
  <2>2. Held'
    BY <1>1, <1>2, AnswerTyped, Rest DEF Free
  <2> QED BY <2>1, <2>2 DEF IInv
<1>3. ASSUME NEW s \in Between, s.pc \in {"create", "merge"}, Go(h, s) PROVE IInv'
  <2>1. Typed'
    BY <1>1, <1>3, GoTyped DEF Typed
  <2>2. Held'
    BY <1>1, <1>3, GoTyped, Rest
  <2> QED BY <2>1, <2>2 DEF IInv
<1> QED BY <1>1, <1>2, <1>3, NextTurn

\* A request whose turn was lost looks again.
LEMMA LookAgainKeeps ==
    ASSUME IInv, NEW h \in Handlers, hs[h].pc \in {"create", "merge"},
           Go(h, [hs[h] EXCEPT !.pc = "get"]), UNCHANGED <<entity, evo, spent>>
    PROVE  IInv'
<1> DEFINE s == [hs[h] EXCEPT !.pc = "get"]
<1>1. Typed /\ s \in Between /\ s.pc = "get"
  BY DEF IInv, Typed, Between, Free
<1>2. Typed'
  BY <1>1, GoTyped DEF Typed
<1>3. Held'
  BY <1>1, GoTyped, Rest
<1> QED BY <1>2, <1>3 DEF IInv

LEMMA UpsertCreateKeeps ==
    ASSUME IInv, NEW h \in Handlers, UpsertCreate(h) PROVE IInv'
<1> DEFINE new == [stored |-> TRUE, by |-> "api", insts |-> {Stamped(hs[h].in, Fresh)}]
<1>1. Typed /\ hs[h].pc = "create" /\ entity' = entity
  BY DEF IInv, UpsertCreate
<1>2. CASE evo.stored
  BY <1>1, <1>2, LookAgainKeeps DEF UpsertCreate
<1>3. CASE ~evo.stored
  <2>1. evo' = new /\ Answer(h) /\ Count("ids")
    BY <1>3 DEF UpsertCreate
  <2>2. Stamped(hs[h].in, Fresh) \in Instances
    <3>1. hs[h].in \in Inputs
      BY <1>1 DEF Typed, Between, Free
    <3> QED BY <1>1, <3>1, IdsTyped, StampedTyped, InputsAreStampable
  <2>3. Typed'
    BY <1>1, <2>1, <2>2, AnswerTyped, CountTyped DEF Typed, Counts
  <2>4. Held'
    BY <1>1, <2>1, AnswerTyped, Rest DEF Free
  <2> QED BY <2>3, <2>4 DEF IInv
<1> QED BY <1>2, <1>3

LEMMA UpsertMergeKeeps ==
    ASSUME IInv, NEW h \in Handlers, UpsertMerge(h) PROVE IInv'
<1>1. Typed /\ hs[h].pc = "merge" /\ entity' = entity
  BY DEF IInv, UpsertMerge
<1>2. CASE ~evo.stored
  BY <1>1, <1>2, LookAgainKeeps DEF UpsertMerge
<1>3. CASE evo.stored
  <2> DEFINE in == hs[h].in
  <2>1. in \in Inputs
    BY <1>1 DEF Typed, Between, Free
  <2>2. /\ Answer(h) /\ Count("ids")
        /\ \/ evo' \in Merged(in)
           \/ evo' = [evo EXCEPT !.insts = @ \cup {Stamped(in, Fresh)}]
    BY <1>3 DEF UpsertMerge
  <2>3. /\ evo' \in [stored : BOOLEAN, by : {"core", "api", "lost"}, insts : SUBSET Instances]
        /\ evo'.stored = evo.stored /\ evo'.by = evo.by
    <3>1. CASE evo' = [evo EXCEPT !.insts = @ \cup {Stamped(in, Fresh)}]
      <4>1. Stamped(in, Fresh) \in Instances
        BY <1>1, <2>1, IdsTyped, StampedTyped, InputsAreStampable
      <4> QED BY <1>1, <3>1, <4>1 DEF Typed
    <3>2. CASE evo' \in Merged(in)
      <4>1. PICK i \in evo.insts : evo' = [evo EXCEPT !.insts = (@ \ {i}) \cup {Stamped(in, i.id)}]
        BY <3>2 DEF Merged, Corrected
      <4>2. i.id \in Ids
        BY <1>1 DEF Typed, Instances
      <4>3. Stamped(in, i.id) \in Instances
        BY <2>1, <4>2, StampedTyped, InputsAreStampable
      <4> QED BY <1>1, <4>1, <4>3 DEF Typed
    <3> QED BY <2>2, <3>1, <3>2
  <2>4. Typed'
    BY <1>1, <2>2, <2>3, AnswerTyped, CountTyped DEF Typed, Counts
  <2>5. Held'
    BY <1>1, <2>2, <2>3, AnswerTyped, Rest DEF Free
  <2> QED BY <2>4, <2>5 DEF IInv
<1> QED BY <1>2, <1>3

\* An edit in one call: the request is answered at once.
LEMMA EditKeeps ==
    ASSUME IInv, NEW h \in Handlers, hs[h] = Free, UNCHANGED <<entity, hs>>,
           evo' \in [stored : BOOLEAN, by : {"core", "api", "lost"}, insts : SUBSET Instances],
           spent' \in [Counts -> Nat],
           evo'.stored => evo.stored /\ evo'.by = evo.by
    PROVE  IInv'
<1>1. Typed'
  BY DEF IInv, Typed
<1>2. Held'
  BY Rest DEF Free
<1> QED BY <1>1, <1>2 DEF IInv

LEMMA EditsKeep ==
    ASSUME IInv, NEW h \in Handlers,
           \/ \E in \in Inputs : add_temporal_instances(h, in)
           \/ delete_temporal(h)
           \/ \E a \in Attrs : delete_temporal_attr(h, a)
           \/ \E i \in evo.insts : \/ delete_temporal_instance(h, i)
                                  \/ \E v \in Values : modify_temporal_instance(h, i, v)
    PROVE  IInv'
<1> USE DEF Edit, Ask
<1>1. Typed
  BY DEF IInv
<1>2. CASE \E in \in Inputs : add_temporal_instances(h, in)
  <2>1. PICK in \in Inputs : add_temporal_instances(h, in)
    BY <1>2
  <2>2. Stamped(in, Fresh) \in Instances
    BY <1>1, IdsTyped, StampedTyped, InputsAreStampable
  <2>3. spent' \in [Counts -> Nat]
    BY <1>1, <2>1, Count2Typed DEF add_temporal_instances, Counts
  <2> QED BY <1>1, <2>1, <2>2, <2>3, EditKeeps DEF add_temporal_instances, Typed
<1>3. CASE delete_temporal(h)
  <2>1. spent' \in [Counts -> Nat]
    BY <1>1, <1>3, CountTyped DEF delete_temporal, Counts
  <2> QED BY <1>3, <2>1, EditKeeps DEF delete_temporal, NoEvolution
<1>4. CASE \E a \in Attrs : delete_temporal_attr(h, a)
  <2>1. PICK a \in Attrs : delete_temporal_attr(h, a)
    BY <1>4
  <2>2. spent' \in [Counts -> Nat]
    BY <1>1, <2>1, CountTyped DEF delete_temporal_attr, Counts
  <2> QED BY <1>1, <2>1, <2>2, EditKeeps DEF delete_temporal_attr, Typed
<1>5. CASE \E i \in evo.insts : delete_temporal_instance(h, i)
  <2>1. PICK i \in evo.insts : delete_temporal_instance(h, i)
    BY <1>5
  <2>2. spent' \in [Counts -> Nat]
    BY <1>1, <2>1, CountTyped DEF delete_temporal_instance, Counts
  <2> QED BY <1>1, <2>1, <2>2, EditKeeps DEF delete_temporal_instance, Typed
<1>6. CASE \E i \in evo.insts, v \in Values : modify_temporal_instance(h, i, v)
  <2>1. PICK i \in evo.insts, v \in Values : modify_temporal_instance(h, i, v)
    BY <1>6
  <2>2. spent' \in [Counts -> Nat]
    BY <1>1, <2>1, CountTyped DEF modify_temporal_instance, Counts
  <2>3. [i EXCEPT !.val = v] \in Instances
    BY <1>1 DEF Typed, Instances
  <2> QED BY <1>1, <2>1, <2>2, <2>3, EditKeeps DEF modify_temporal_instance, Typed
<1> QED BY <1>2, <1>3, <1>4, <1>5, <1>6

-----------------------------------------------------------------------------
(* The theorems.                                                           *)

LEMMA Inductive ==
    ASSUME IInv, [Next]_vars PROVE IInv'
<1>1. CASE UNCHANGED vars
  BY <1>1 DEF IInv, Typed, Held, AppendHolds, NoExtend, NoOrphanHistory, vars
<1>2. CASE Next
  <2>1. PICK h \in Handlers :
          \/ \E in \in Inputs : Write(h, in) \/ upsert_temporal(h, in) \/ add_temporal_instances(h, in)
          \/ Drain(h) \/ temporal_append(h) \/ Extend(h) \/ DrainFails(h)
          \/ delete_entity(h) \/ mirror_delete_entity(h) \/ MirrorFails(h)
          \/ mirror_delete_attr(h) \/ delete_temporal(h)
          \/ \E a \in Attrs : delete_attr(h, a) \/ delete_temporal_attr(h, a)
          \/ UpsertGet(h) \/ UpsertCreate(h) \/ UpsertMerge(h)
          \/ \E i \in evo.insts : delete_temporal_instance(h, i)
                                  \/ \E v \in Values : modify_temporal_instance(h, i, v)
    BY <1>2 DEF Next
  <2> QED BY <2>1, ExtendKeeps, WriteKeeps, UpsertKeeps, EditsKeep, DrainKeeps, AppendKeeps,
             DrainFailsKeeps, DeleteEntityKeeps, MirrorDeleteEntityKeeps, MirrorFailsKeeps,
             MirrorDeleteAttrKeeps, DeleteAttrKeeps, UpsertGetKeeps, UpsertCreateKeeps,
             UpsertMergeKeeps
<1> QED BY <1>1, <1>2

LEMMA InitHolds == Init => IInv
<1> SUFFICES ASSUME Init PROVE IInv
  OBVIOUS
<1>1. Typed
  BY DEF Init, Typed, NoEntity, NoEvolution, Between, Counts
<1>2. Held
  BY DEF Init, Held, AppendHolds, NoExtend, NoOrphanHistory, NoEvolution, Free
<1> QED BY <1>1, <1>2 DEF IInv

\* The state of the recording is well formed (history.rs, temporal.rs).
THEOREM HistoryTyped == Spec => []TypeOK
<1>1. IInv /\ [Next]_vars => IInv'
  BY Inductive
<1>2. IInv => TypeOK
  BY DEF IInv, Typed, TypeOK, Between
<1> QED BY <1>1, <1>2, InitHolds, PTL DEF Spec

\* No history outlives its Entity where the append holds what it looked up
\* (temporal_append, mirror_delete_entity).
THEOREM NoOrphans == Locking => (Spec => []NoOrphanHistory)
<1> SUFFICES ASSUME Locking PROVE Spec => []NoOrphanHistory
  OBVIOUS
<1>1. IInv /\ [Next]_vars => IInv'
  BY Inductive
<1>2. IInv => NoOrphanHistory
  BY DEF IInv, Held
<1> QED BY <1>1, <1>2, InitHolds, PTL DEF Spec

-----------------------------------------------------------------------------
(* What was answered is in the history.  A delete is counted in the step   *)
(* that takes the Entity away, so a drain that does not find the Entity    *)
(* knows of one since the write it is draining.                            *)

SeenLive ==
    \A h \in Handlers : hs[h].pc = "drain" =>
       hs[h].seen <= spent.deletes /\ (entity.live \/ hs[h].seen < spent.deletes)

\* The deletes counted and the Entity's being there change together.
LEMMA DeletesCounted ==
    ASSUME Typed, [Next]_vars
    PROVE  /\ spent'.deletes \in Nat /\ spent'.deletes >= spent.deletes
           /\ entity.live => entity'.live \/ spent'.deletes > spent.deletes
           /\ ~entity.live => entity'.live \/ spent'.deletes = spent.deletes
<1> USE DEF Typed, Counts
<1>1. spent.deletes \in Nat
  OBVIOUS
<1>2. ASSUME NEW c \in {"asks", "fails", "ids"}, Count(c) PROVE spent'.deletes = spent.deletes
  BY <1>2 DEF Count
<1>3. ASSUME Count2("asks", "ids") PROVE spent'.deletes = spent.deletes
  BY <1>3 DEF Count2
<1>4. ASSUME UNCHANGED spent PROVE spent'.deletes = spent.deletes
  BY <1>4
<1>5. CASE entity' = entity /\ spent'.deletes = spent.deletes
  BY <1>1, <1>5
<1>6. ASSUME NEW h \in Handlers, delete_entity(h)
      PROVE  entity.live /\ spent'.deletes = spent.deletes + 1
  BY <1>6 DEF delete_entity, MayDelete, Count2
<1>7. ASSUME NEW h \in Handlers, NEW in \in Inputs, Write(h, in)
      PROVE  entity'.live /\ spent'.deletes = spent.deletes
  BY <1>2, <1>3, <1>7 DEF Write
<1>8. ASSUME NEW h \in Handlers, NEW a \in Attrs, delete_attr(h, a)
      PROVE  entity'.live = entity.live /\ spent'.deletes = spent.deletes
  BY <1>2, <1>8 DEF delete_attr
<1>9. ASSUME NEW h \in Handlers,
             \/ \E in \in Inputs : upsert_temporal(h, in) \/ add_temporal_instances(h, in)
             \/ Drain(h) \/ temporal_append(h) \/ Extend(h) \/ DrainFails(h)
             \/ mirror_delete_entity(h) \/ MirrorFails(h)
             \/ mirror_delete_attr(h) \/ delete_temporal(h)
             \/ \E a \in Attrs : delete_temporal_attr(h, a)
             \/ UpsertGet(h) \/ UpsertCreate(h) \/ UpsertMerge(h)
             \/ \E i \in evo.insts : \/ delete_temporal_instance(h, i)
                                    \/ \E v \in Values : modify_temporal_instance(h, i, v)
      PROVE  entity' = entity /\ spent'.deletes = spent.deletes
  <2> USE <1>2, <1>3, <1>4 DEF Edit
  <2>1. CASE \E in \in Inputs : upsert_temporal(h, in) \/ add_temporal_instances(h, in)
    BY <2>1 DEF upsert_temporal, add_temporal_instances
  <2>2. CASE Drain(h) \/ temporal_append(h) \/ Extend(h) \/ mirror_delete_entity(h)
    BY <2>2 DEF Drain, temporal_append, Extend, mirror_delete_entity
  <2>3. CASE DrainFails(h) \/ MirrorFails(h)
    BY <2>3 DEF DrainFails, MirrorFails
  <2>4. CASE mirror_delete_attr(h) \/ delete_temporal(h)
    BY <2>4 DEF mirror_delete_attr, delete_temporal
  <2>5. CASE \E a \in Attrs : delete_temporal_attr(h, a)
    BY <2>5 DEF delete_temporal_attr
  <2>6. CASE UpsertGet(h) \/ UpsertCreate(h) \/ UpsertMerge(h)
    BY <2>6 DEF UpsertGet, UpsertCreate, UpsertMerge
  <2>7. CASE \E i \in evo.insts : \/ delete_temporal_instance(h, i)
                                 \/ \E v \in Values : modify_temporal_instance(h, i, v)
    BY <2>7 DEF delete_temporal_instance, modify_temporal_instance
  <2> QED BY <1>9, <2>1, <2>2, <2>3, <2>4, <2>5, <2>6, <2>7
<1>10. CASE UNCHANGED vars
  BY <1>1, <1>10 DEF vars
<1>11. CASE Next
  <2>1. PICK h \in Handlers :
          \/ \E in \in Inputs : Write(h, in) \/ upsert_temporal(h, in) \/ add_temporal_instances(h, in)
          \/ Drain(h) \/ temporal_append(h) \/ Extend(h) \/ DrainFails(h)
          \/ delete_entity(h) \/ mirror_delete_entity(h) \/ MirrorFails(h)
          \/ mirror_delete_attr(h) \/ delete_temporal(h)
          \/ \E a \in Attrs : delete_attr(h, a) \/ delete_temporal_attr(h, a)
          \/ UpsertGet(h) \/ UpsertCreate(h) \/ UpsertMerge(h)
          \/ \E i \in evo.insts : delete_temporal_instance(h, i)
                                  \/ \E v \in Values : modify_temporal_instance(h, i, v)
    BY <1>11 DEF Next
  <2>2. CASE \E in \in Inputs : Write(h, in)
    BY <1>1, <1>7, <2>2
  <2>3. CASE delete_entity(h)
    BY <1>1, <1>6, <2>3
  <2>4. CASE \E a \in Attrs : delete_attr(h, a)
    BY <1>1, <1>8, <2>4
  <2>5. CASE entity' = entity /\ spent'.deletes = spent.deletes
    BY <1>5, <2>5
  <2> QED BY <1>9, <2>1, <2>2, <2>3, <2>4, <2>5
<1> QED BY <1>10, <1>11

\* What a request's own step does to it: only a write leaves it with something
\* to drain, and it is answered when its instance is in the history.
Told(h) ==
    /\ \A g \in Handlers : g # h => hs'[g] = hs[g]
    /\ hs'[h].pc = "drain" =>
          hs'[h].seen = spent.deletes /\ entity'.live /\ spent'.deletes = spent.deletes
    /\ Recorded(h)

\* A request that was not draining or upserting, or goes on, owes nothing yet.
LEMMA AnsweredFree ==
    ASSUME Typed, NEW h \in Handlers, Answer(h),
           hs[h].pc \notin {"create", "merge", "drain", "append"}
    PROVE  Told(h)
BY AnswerTyped DEF Told, Recorded, Free

LEMMA GoesOn ==
    ASSUME Typed, NEW h \in Handlers, NEW s \in Between, Go(h, s), s.pc \notin {"free", "drain"}
    PROVE  Told(h)
BY GoTyped DEF Told, Recorded, Free

LEMMA WriteTold ==
    ASSUME Typed, NEW h \in Handlers, NEW in \in Inputs, Write(h, in) PROVE Told(h)
<1> DEFINE ev == Stamped(in, instance_id(in))
           s == [pc |-> "drain", ev |-> ev, seen |-> spent.deletes]
<1>1. s \in Between
  <2>1. ev \in Instances
    BY IdsTyped, StampedTyped, InputsAreStampable
  <2> QED BY <2>1 DEF Between, Typed, Counts
<1>2. hs[h] = Free /\ entity'.live
  BY DEF Write, Ask, Typed
<1>3. CASE Answer(h) /\ Count("asks")
  BY <1>2, <1>3, AnsweredFree DEF Free
<1>4. CASE Go(h, s) /\ Count2("asks", "ids")
  <2>1. spent'.deletes = spent.deletes
    BY <1>4 DEF Count2, Typed, Counts
  <2> QED BY <1>1, <1>2, <1>4, <2>1, GoTyped DEF Told, Recorded, Free
<1> QED BY <1>3, <1>4 DEF Write

LEMMA DrainTold ==
    ASSUME Typed, SeenLive, NEW h \in Handlers, Drain(h) PROVE Told(h)
<1> DEFINE s == [hs[h] EXCEPT !.pc = "append"]
<1>1. hs[h].pc = "drain" /\ UNCHANGED <<entity, evo, spent>>
  BY DEF Drain
<1>2. s \in Between /\ s.pc = "append"
  BY <1>1 DEF Typed, Between, Free
<1>3. CASE entity.live
  <2>1. Go(h, s)
    BY <1>3 DEF Drain
  <2> QED BY <1>2, <2>1, GoesOn
<1>4. CASE ~entity.live
  <2>1. Answer(h) /\ spent.deletes > hs[h].seen
    <3>1. hs[h].seen < spent.deletes
      BY <1>1, <1>4 DEF SeenLive
    <3>2. hs[h].seen \in Nat /\ spent.deletes \in Nat
      BY <1>1 DEF Typed, Between, Free, Counts
    <3> QED BY <1>4, <3>1, <3>2 DEF Drain
  <2> QED BY <1>1, <2>1, AnswerTyped DEF Told, Recorded, Free
<1> QED BY <1>3, <1>4

LEMMA AppendTold ==
    ASSUME Typed, NEW h \in Handlers, temporal_append(h) PROVE Told(h)
<1>1. hs[h].pc = "append"
  BY DEF temporal_append
<1>2. hs[h] \in [pc : {"drain", "append", "extend"}, ev : Instances, seen : Nat]
  BY <1>1 DEF Typed, Between, Free
<1>3. CASE Locking
  <2>1. Answer(h) /\ evo' = [evo EXCEPT !.stored = TRUE, !.insts = insert_rows(@, hs[h].ev)]
    BY <1>3 DEF temporal_append
  <2>2. hs[h].ev \in evo'.insts
    BY <2>1 DEF Typed, insert_rows
  <2> QED BY <1>1, <2>1, <2>2, AnswerTyped DEF Told, Recorded, Free
<1>4. CASE ~Locking
  <2> DEFINE s == [hs[h] EXCEPT !.pc = "extend"]
  <2>1. Go(h, s) /\ s \in Between /\ s.pc = "extend"
    BY <1>2, <1>4 DEF temporal_append, Between
  <2> QED BY <2>1, GoesOn
<1> QED BY <1>3, <1>4

LEMMA DrainFailsTold ==
    ASSUME Typed, NEW h \in Handlers, DrainFails(h) PROVE Told(h)
<1>1. hs[h].pc \in {"drain", "append"} /\ Answer(h) /\ Count("fails")
  BY DEF DrainFails
<1>2. spent'.fails > spent.fails
  BY <1>1 DEF Count, Typed, Counts
<1> QED BY <1>1, <1>2, AnswerTyped DEF Told, Recorded, Free

\* An upsert that lost its turn looks again; one that is answered is stored.
LEMMA UpsertTold ==
    ASSUME Typed, NEW h \in Handlers, UpsertGet(h) \/ UpsertCreate(h) \/ UpsertMerge(h)
    PROVE  Told(h)
<1>1. CASE UpsertGet(h)
  <2>1. hs[h].pc = "get"
    BY <1>1 DEF UpsertGet
  <2>2. CASE Answer(h)
    BY <2>1, <2>2, AnsweredFree
  <2>3. ASSUME NEW s \in Between, s.pc \in {"create", "merge"}, Go(h, s) PROVE Told(h)
    BY <2>3, GoesOn
  <2> QED BY <1>1, <2>2, <2>3, NextTurn
<1>2. ASSUME hs[h].pc \in {"create", "merge"}, Go(h, [hs[h] EXCEPT !.pc = "get"])
      PROVE  Told(h)
  <2> DEFINE s == [hs[h] EXCEPT !.pc = "get"]
  <2>1. s \in Between /\ s.pc = "get"
    BY <1>2 DEF Typed, Between, Free
  <2> QED BY <1>2, <2>1, GoesOn
<1>3. ASSUME hs[h].pc \in {"create", "merge"}, Answer(h), \E i \in evo'.insts : Like(i, hs[h].in)
      PROVE  Told(h)
  BY <1>3, AnswerTyped DEF Told, Recorded, Free
<1>4. CASE UpsertCreate(h)
  <2>1. CASE evo.stored
    BY <1>2, <1>4, <2>1 DEF UpsertCreate
  <2>2. CASE ~evo.stored
    <3>1. evo'.insts = {Stamped(hs[h].in, Fresh)}
      BY <1>4, <2>2 DEF UpsertCreate
    <3> QED BY <1>3, <1>4, <2>2, <3>1 DEF UpsertCreate, Like, Stamped
  <2> QED BY <2>1, <2>2
<1>5. CASE UpsertMerge(h)
  <2>1. CASE ~evo.stored
    BY <1>2, <1>5, <2>1 DEF UpsertMerge
  <2>2. CASE evo.stored
    <3> DEFINE in == hs[h].in
    <3>1. /\ hs[h].pc = "merge" /\ Answer(h)
          /\ \/ evo' \in Merged(in)
             \/ evo' = [evo EXCEPT !.insts = @ \cup {Stamped(in, Fresh)}]
      BY <1>5, <2>2 DEF UpsertMerge
    <3>2. \E id : Stamped(in, id) \in evo'.insts
      BY <3>1 DEF Typed, Merged
    <3> QED BY <1>3, <3>1, <3>2 DEF Like, Stamped
  <2> QED BY <2>1, <2>2
<1> QED BY <1>1, <1>4, <1>5

LEMMA OthersTold ==
    ASSUME Typed, NEW h \in Handlers,
           \/ \E in \in Inputs : upsert_temporal(h, in) \/ add_temporal_instances(h, in)
           \/ Extend(h) \/ delete_entity(h) \/ mirror_delete_entity(h) \/ MirrorFails(h)
           \/ mirror_delete_attr(h) \/ delete_temporal(h)
           \/ \E a \in Attrs : delete_attr(h, a) \/ delete_temporal_attr(h, a)
           \/ \E i \in evo.insts : \/ delete_temporal_instance(h, i)
                                  \/ \E v \in Values : modify_temporal_instance(h, i, v)
    PROVE  Told(h)
<1>1. CASE hs[h] = Free /\ UNCHANGED hs
  BY <1>1 DEF Told, Recorded, Free
<1>2. CASE Extend(h) \/ mirror_delete_entity(h) \/ MirrorFails(h) \/ mirror_delete_attr(h)
  <2>1. Answer(h) /\ hs[h].pc \in {"extend", "mirror", "tombstone"}
    BY <1>2 DEF Extend, mirror_delete_entity, MirrorFails, mirror_delete_attr
  <2> QED BY <2>1, AnsweredFree
<1>3. ASSUME NEW s \in Between, Go(h, s), s.pc \in {"mirror", "tombstone", "get"} PROVE Told(h)
  BY <1>3, GoesOn
<1>4. CASE delete_entity(h)
  <2>1. [pc |-> "mirror"] \in Between
    BY DEF Between
  <2> QED BY <1>3, <1>4, <2>1 DEF delete_entity
<1>5. CASE \E in \in Inputs : upsert_temporal(h, in)
  <2>1. PICK in \in Inputs : upsert_temporal(h, in)
    BY <1>5
  <2>2. [pc |-> "get", in |-> in, n |-> 0] \in Between
    BY DEF Between
  <2> QED BY <1>3, <2>1, <2>2 DEF upsert_temporal
<1>6. CASE \E a \in Attrs : delete_attr(h, a)
  <2>1. PICK a \in Attrs : delete_attr(h, a)
    BY <1>6
  <2>2. [pc |-> "tombstone", attr |-> a] \in Between
    BY DEF Between
  <2> QED BY <1>3, <2>1, <2>2 DEF delete_attr
<1>7. CASE \/ \E in \in Inputs : add_temporal_instances(h, in)
           \/ delete_temporal(h)
           \/ \E a \in Attrs : delete_temporal_attr(h, a)
           \/ \E i \in evo.insts : \/ delete_temporal_instance(h, i)
                                  \/ \E v \in Values : modify_temporal_instance(h, i, v)
  BY <1>1, <1>7 DEF Edit, Ask, add_temporal_instances, delete_temporal, delete_temporal_attr,
                    delete_temporal_instance, modify_temporal_instance
<1> QED BY <1>2, <1>4, <1>5, <1>6, <1>7

LEMMA SomeoneMoves ==
    ASSUME Typed, SeenLive, Next PROVE \E h \in Handlers : Told(h)
BY WriteTold, DrainTold, AppendTold, DrainFailsTold, UpsertTold, OthersTold DEF Next

LEMMA SeenStep ==
    ASSUME Typed, SeenLive, [Next]_vars PROVE SeenLive'
<1>1. CASE UNCHANGED vars
  BY <1>1 DEF SeenLive, vars
<1>2. CASE Next
  <2>1. PICK h \in Handlers : Told(h)
    BY <1>2, SomeoneMoves
  <2>2. SUFFICES ASSUME NEW g \in Handlers, hs'[g].pc = "drain"
                 PROVE  /\ hs'[g].seen <= spent'.deletes
                        /\ entity'.live \/ hs'[g].seen < spent'.deletes
    BY DEF SeenLive
  <2>3. spent.deletes \in Nat
    BY DEF Typed, Counts
  <2>4. CASE g = h
    BY <2>1, <2>2, <2>3, <2>4 DEF Told
  <2>5. CASE g # h
    <3>1. hs'[g] = hs[g] /\ hs[g].pc = "drain"
      BY <2>1, <2>2, <2>5 DEF Told
    <3>2. hs[g].seen \in Nat
      BY <3>1 DEF Typed, Between, Free
    <3>3. hs[g].seen <= spent.deletes /\ (entity.live \/ hs[g].seen < spent.deletes)
      BY <3>1 DEF SeenLive
    <3>4. /\ spent'.deletes >= spent.deletes
          /\ entity.live => entity'.live \/ spent'.deletes > spent.deletes
      BY <1>2, DeletesCounted
    <3>5. spent'.deletes \in Nat
      BY <1>2, DeletesCounted
    <3> QED BY <2>3, <3>1, <3>2, <3>3, <3>4, <3>5
  <2> QED BY <2>4, <2>5
<1> QED BY <1>1, <1>2

LEMMA RecordedStep ==
    ASSUME Typed, SeenLive, Next PROVE \A h \in Handlers : Recorded(h)
<1>1. PICK h \in Handlers : Told(h)
  BY SomeoneMoves
<1>2. ASSUME NEW g \in Handlers, g # h PROVE Recorded(g)
  BY <1>1, <1>2 DEF Told, Recorded, Free
<1> QED BY <1>1, <1>2 DEF Told

\* What was answered is in the history: an upsert whoever it raced, a recorded
\* write unless its drain failed or the Entity was deleted meanwhile
\* (upsert_temporal_local, history::layer); with every driver.
THEOREM ReadsItsHistory == Spec => ReadYourHistory
<1> DEFINE RInv == IInv /\ SeenLive
<1>1. Init => RInv
  BY InitHolds DEF Init, SeenLive, Free
<1>2. RInv /\ [Next]_vars => RInv'
  BY Inductive, SeenStep DEF IInv
<1>3. RInv /\ [Next]_vars => [\A h \in Handlers : Recorded(h)]_vars
  BY RecordedStep DEF IInv
<1> QED BY <1>1, <1>2, <1>3, PTL DEF Spec, ReadYourHistory

-----------------------------------------------------------------------------
(* What a client was handed stays.  An evolution is finite, and one that   *)
(* is not stored has no instances.                                         *)

Recordable == IsFiniteSet(evo.insts) /\ (~evo.stored => evo.insts = {})

\* The instances a step may leave: those it found with some more, with one
\* replaced under its id, or only some of them.
LEMMA PutKeeps ==
    ASSUME NEW S \in SUBSET Instances, IsFiniteSet(S), NEW i \in Instances
    PROVE  /\ IsFiniteSet(insert_rows(S, i)) /\ IsFiniteSet(S \cup {i})
           /\ InstanceIds(S) \subseteq InstanceIds(insert_rows(S, i))
           /\ InstanceIds(S) \subseteq InstanceIds(S \cup {i})
<1>1. \A T \in SUBSET S : IsFiniteSet(T \cup {i})
  BY FS_Subset, FS_AddElement
<1>2. IsFiniteSet(insert_rows(S, i))
  BY <1>1 DEF insert_rows
<1>3. ASSUME NEW j \in S PROVE <<j.attr, j.id>> \in InstanceIds(insert_rows(S, i))
  BY DEF insert_rows, InstanceIds
<1>4. InstanceIds(S) \subseteq InstanceIds(insert_rows(S, i))
  BY <1>3 DEF InstanceIds
<1> QED BY <1>1, <1>2, <1>4 DEF InstanceIds

LEMMA SwapKeeps ==
    ASSUME NEW S \in SUBSET Instances, IsFiniteSet(S), NEW i \in S, NEW j \in Instances,
           j.attr = i.attr, j.id = i.id
    PROVE  /\ IsFiniteSet((S \ {i}) \cup {j})
           /\ InstanceIds(S) \subseteq InstanceIds((S \ {i}) \cup {j})
<1>1. IsFiniteSet((S \ {i}) \cup {j})
  BY FS_RemoveElement, FS_AddElement
<1>2. ASSUME NEW k \in S PROVE <<k.attr, k.id>> \in InstanceIds((S \ {i}) \cup {j})
  BY DEF InstanceIds
<1> QED BY <1>1, <1>2 DEF InstanceIds

LEMMA FewerKeep ==
    ASSUME NEW S, IsFiniteSet(S), NEW T \in SUBSET S
    PROVE  /\ IsFiniteSet(T)
           /\ Cardinality(T) >= Cardinality(S) => T = S
<1>1. IsFiniteSet(T) /\ Cardinality(T) <= Cardinality(S)
      /\ (Cardinality(S) = Cardinality(T) => S = T)
  BY FS_Subset
<1>2. Cardinality(S) \in Nat /\ Cardinality(T) \in Nat
  BY <1>1, FS_CardinalityType
<1> QED BY <1>1, <1>2

\* What a step does to the evolution.
Evolves ==
    \/ UNCHANGED evo
    \/ /\ evo'.stored = evo.stored
       /\ evo'.insts \subseteq evo.insts
    \/ evo' = NoEvolution
    \/ /\ evo'.stored
       /\ \/ evo'.insts = evo.insts
          \/ \E i \in Instances : \/ evo'.insts = insert_rows(evo.insts, i)
                                  \/ evo'.insts = evo.insts \cup {i}
                                  \/ evo.insts = {} /\ evo'.insts = {i}
          \/ \E i \in evo.insts, j \in Instances :
                j.attr = i.attr /\ j.id = i.id /\ evo'.insts = (evo.insts \ {i}) \cup {j}

LEMMA EvolvesKeeps ==
    ASSUME Typed, Recordable, Evolves PROVE Recordable' /\ Kept
<1>1. evo.insts \in SUBSET Instances /\ IsFiniteSet(evo.insts)
  BY DEF Typed, Recordable
<1>2. CASE UNCHANGED evo
  BY <1>2 DEF Recordable, Kept
<1>3. CASE evo'.stored = evo.stored /\ evo'.insts \subseteq evo.insts
  <2>1. IsFiniteSet(evo'.insts)
        /\ (Cardinality(evo'.insts) >= Cardinality(evo.insts) => evo'.insts = evo.insts)
    BY <1>1, <1>3, FewerKeep
  <2> QED BY <1>3, <2>1 DEF Recordable, Kept
<1>4. CASE evo' = NoEvolution
  <2>1. evo'.insts = {} /\ evo'.insts \subseteq evo.insts
    BY <1>4 DEF NoEvolution
  <2>2. IsFiniteSet(evo'.insts)
        /\ (Cardinality(evo'.insts) >= Cardinality(evo.insts) => evo'.insts = evo.insts)
    BY <1>1, <2>1, FewerKeep
  <2> QED BY <2>1, <2>2 DEF Recordable, Kept
<1>5. CASE evo'.stored /\ evo'.insts = evo.insts
  BY <1>5 DEF Recordable, Kept
<1>6. ASSUME evo'.stored, NEW i \in Instances,
             \/ evo'.insts = insert_rows(evo.insts, i)
             \/ evo'.insts = evo.insts \cup {i}
             \/ evo.insts = {} /\ evo'.insts = {i}
      PROVE  Recordable' /\ Kept
  <2>1. \/ evo'.insts = insert_rows(evo.insts, i)
        \/ evo'.insts = evo.insts \cup {i}
    BY <1>6
  <2>2. IsFiniteSet(evo'.insts) /\ InstanceIds(evo.insts) \subseteq InstanceIds(evo'.insts)
    BY <1>1, <2>1, PutKeeps
  <2> QED BY <1>6, <2>2 DEF Recordable, Kept
<1>7. ASSUME evo'.stored, NEW i \in evo.insts, NEW j \in Instances,
             j.attr = i.attr, j.id = i.id, evo'.insts = (evo.insts \ {i}) \cup {j}
      PROVE  Recordable' /\ Kept
  <2>1. IsFiniteSet(evo'.insts) /\ InstanceIds(evo.insts) \subseteq InstanceIds(evo'.insts)
    BY <1>1, <1>7, SwapKeeps
  <2> QED BY <1>7, <2>1 DEF Recordable, Kept
<1> QED BY <1>2, <1>3, <1>4, <1>5, <1>6, <1>7 DEF Evolves

LEMMA DrainEvolves ==
    ASSUME Typed, Recordable, NEW h \in Handlers, temporal_append(h) \/ Extend(h) PROVE Evolves
<1>1. hs[h].pc \in {"append", "extend"}
  BY DEF temporal_append, Extend
<1>2. hs[h].ev \in Instances
  BY <1>1 DEF Typed, Between, Free
<1>3. CASE evo' = evo \/ evo' = [evo EXCEPT !.stored = TRUE]
  BY <1>3 DEF Evolves, Typed
<1>4. CASE evo' = [evo EXCEPT !.stored = TRUE, !.insts = insert_rows(@, hs[h].ev)]
  <2>1. evo'.stored /\ evo'.insts = insert_rows(evo.insts, hs[h].ev)
    BY <1>4 DEF Typed
  <2> QED BY <1>2, <2>1 DEF Evolves
<1>5. CASE evo.stored /\ evo' = [evo EXCEPT !.insts = insert_rows(@, hs[h].ev)]
  <2>1. evo'.stored /\ evo'.insts = insert_rows(evo.insts, hs[h].ev)
    BY <1>5 DEF Typed
  <2> QED BY <1>2, <2>1 DEF Evolves
<1> QED BY <1>3, <1>4, <1>5 DEF temporal_append, Extend

LEMMA MirrorsEvolve ==
    ASSUME Typed, Recordable, NEW h \in Handlers,
           mirror_delete_entity(h) \/ MirrorFails(h) \/ mirror_delete_attr(h)
    PROVE  Evolves
<1>1. CASE mirror_delete_entity(h)
  BY <1>1 DEF Evolves, mirror_delete_entity
<1>2. CASE MirrorFails(h)
  <2>1. evo' = evo \/ evo' = [evo EXCEPT !.by = "lost"]
    BY <1>2 DEF MirrorFails
  <2> QED BY <2>1 DEF Evolves, Typed
<1>3. CASE mirror_delete_attr(h)
  <2> DEFINE gone == [attr |-> hs[h].attr, at |-> NoTime, val |-> Null]
  <2>1. CASE UNCHANGED evo
    BY <2>1 DEF Evolves
  <2>2. CASE evo.insts # {} /\ evo' = [evo EXCEPT !.insts = @ \cup {Stamped(gone, Fresh)}]
    <3>1. hs[h].attr \in Attrs
      BY <1>3 DEF Typed, Between, Free, mirror_delete_attr
    <3>2. gone \in [attr : Attrs, at : Instants, val : Values \cup {Null}]
      BY <3>1 DEF Instants
    <3>3. Stamped(gone, Fresh) \in Instances
      BY <3>2, IdsTyped, StampedTyped
    <3>4. evo'.stored /\ evo'.insts = evo.insts \cup {Stamped(gone, Fresh)}
      BY <2>2 DEF Typed, Recordable
    <3> QED BY <3>3, <3>4 DEF Evolves
  <2> QED BY <1>3, <2>1, <2>2 DEF mirror_delete_attr
<1> QED BY <1>1, <1>2, <1>3

LEMMA UpsertEvolves ==
    ASSUME Typed, Recordable, NEW h \in Handlers, UpsertCreate(h) \/ UpsertMerge(h)
    PROVE  Evolves
<1> DEFINE in == hs[h].in
<1>1. in \in Inputs
  BY DEF Typed, Between, Free, UpsertCreate, UpsertMerge
<1>2. Stamped(in, Fresh) \in Instances
  BY <1>1, IdsTyped, StampedTyped, InputsAreStampable
<1>3. CASE UNCHANGED evo
  BY <1>3 DEF Evolves
<1>4. CASE ~evo.stored /\ evo' = [stored |-> TRUE, by |-> "api", insts |-> {Stamped(in, Fresh)}]
  BY <1>2, <1>4 DEF Evolves, Recordable
<1>5. CASE evo.stored /\ evo' = [evo EXCEPT !.insts = @ \cup {Stamped(in, Fresh)}]
  <2>1. evo'.stored /\ evo'.insts = evo.insts \cup {Stamped(in, Fresh)}
    BY <1>5 DEF Typed
  <2> QED BY <1>2, <2>1 DEF Evolves
<1>6. CASE evo.stored /\ evo' \in Merged(in)
  <2>1. PICK i \in evo.insts : /\ i.attr = in.attr
                               /\ evo' = [evo EXCEPT !.insts = (@ \ {i}) \cup {Stamped(in, i.id)}]
    BY <1>6 DEF Merged, Corrected
  <2>2. Stamped(in, i.id) \in Instances
    <3>1. i.id \in Ids
      BY DEF Typed, Instances
    <3> QED BY <1>1, <3>1, StampedTyped, InputsAreStampable
  <2>3. Stamped(in, i.id).attr = i.attr /\ Stamped(in, i.id).id = i.id
    BY <2>1 DEF Stamped
  <2>4. evo'.stored /\ evo'.insts = (evo.insts \ {i}) \cup {Stamped(in, i.id)}
    BY <1>6, <2>1 DEF Typed
  <2> QED BY <2>2, <2>3, <2>4 DEF Evolves
<1> QED BY <1>3, <1>4, <1>5, <1>6 DEF UpsertCreate, UpsertMerge

LEMMA EditsEvolve ==
    ASSUME Typed, Recordable, NEW h \in Handlers,
           \/ \E in \in Inputs : add_temporal_instances(h, in)
           \/ delete_temporal(h)
           \/ \E a \in Attrs : delete_temporal_attr(h, a)
           \/ \E i \in evo.insts : \/ delete_temporal_instance(h, i)
                                  \/ \E v \in Values : modify_temporal_instance(h, i, v)
    PROVE  Evolves
<1>1. CASE \E in \in Inputs : add_temporal_instances(h, in)
  <2>1. PICK in \in Inputs : add_temporal_instances(h, in)
    BY <1>1
  <2>2. Stamped(in, Fresh) \in Instances
    BY IdsTyped, StampedTyped, InputsAreStampable
  <2>3. evo'.stored /\ evo'.insts = evo.insts \cup {Stamped(in, Fresh)}
    BY <2>1 DEF Typed, add_temporal_instances, Edit
  <2> QED BY <2>2, <2>3 DEF Evolves
<1>2. CASE delete_temporal(h)
  BY <1>2 DEF Evolves, delete_temporal
<1>3. CASE \E a \in Attrs : delete_temporal_attr(h, a)
  <2>1. PICK a \in Attrs : delete_temporal_attr(h, a)
    BY <1>3
  <2>2. evo'.stored = evo.stored /\ evo'.insts \subseteq evo.insts
    BY <2>1 DEF Typed, delete_temporal_attr
  <2> QED BY <2>2 DEF Evolves
<1>4. ASSUME NEW i \in evo.insts, delete_temporal_instance(h, i) PROVE Evolves
  <2>1. evo'.stored = evo.stored /\ evo'.insts \subseteq evo.insts
    BY <1>4 DEF Typed, delete_temporal_instance
  <2> QED BY <2>1 DEF Evolves
<1>5. ASSUME NEW i \in evo.insts, NEW v \in Values, modify_temporal_instance(h, i, v)
      PROVE  Evolves
  <2> DEFINE j == [i EXCEPT !.val = v]
  <2>1. j \in Instances /\ j.attr = i.attr /\ j.id = i.id
    BY DEF Typed, Instances
  <2>2. evo'.stored /\ evo'.insts = (evo.insts \ {i}) \cup {j}
    BY <1>5 DEF Typed, modify_temporal_instance, Edit
  <2> QED BY <2>1, <2>2 DEF Evolves
<1> QED BY <1>1, <1>2, <1>3, <1>4, <1>5

LEMMA StepEvolves ==
    ASSUME Typed, Recordable, [Next]_vars PROVE Evolves
<1>1. CASE UNCHANGED evo
  BY <1>1 DEF Evolves
<1>2. CASE Next
  <2>1. PICK h \in Handlers :
          \/ \E in \in Inputs : Write(h, in) \/ upsert_temporal(h, in) \/ add_temporal_instances(h, in)
          \/ Drain(h) \/ temporal_append(h) \/ Extend(h) \/ DrainFails(h)
          \/ delete_entity(h) \/ mirror_delete_entity(h) \/ MirrorFails(h)
          \/ mirror_delete_attr(h) \/ delete_temporal(h)
          \/ \E a \in Attrs : delete_attr(h, a) \/ delete_temporal_attr(h, a)
          \/ UpsertGet(h) \/ UpsertCreate(h) \/ UpsertMerge(h)
          \/ \E i \in evo.insts : delete_temporal_instance(h, i)
                                  \/ \E v \in Values : modify_temporal_instance(h, i, v)
    BY <1>2 DEF Next
  <2>2. CASE \/ \E in \in Inputs : Write(h, in) \/ upsert_temporal(h, in)
             \/ Drain(h) \/ DrainFails(h) \/ delete_entity(h) \/ UpsertGet(h)
             \/ \E a \in Attrs : delete_attr(h, a)
    BY <1>1, <2>2 DEF Write, upsert_temporal, Drain, DrainFails, delete_entity, UpsertGet, delete_attr
  <2> QED BY <2>1, <2>2, DrainEvolves, MirrorsEvolve, UpsertEvolves, EditsEvolve
<1> QED BY <1>1, <1>2 DEF vars

\* A step that takes no instance away leaves every instanceId its clients were
\* handed (insert_rows, upsert_temporal_local, modify_temporal_instance); with
\* every driver.
THEOREM KeepsInstanceIds == Spec => InstanceIdsKept
<1> DEFINE KInv == IInv /\ Recordable
<1>1. Init => KInv
  BY InitHolds, FS_EmptySet DEF Init, Recordable, NoEvolution
<1>2. KInv /\ [Next]_vars => KInv'
  BY Inductive, StepEvolves, EvolvesKeeps DEF IInv
<1>3. KInv /\ [Next]_vars => [Kept]_vars
  BY StepEvolves, EvolvesKeeps DEF IInv
<1> QED BY <1>1, <1>2, <1>3, PTL DEF Spec, InstanceIdsKept

-----------------------------------------------------------------------------
(* Distributed writes: DistWrite for every set of requests, registrations, *)
(* sources and faults.                                                     *)

CONSTANTS Reqs, WriteForms, Catalogue, Entity, Sources, Rows, PeerFaults,
          Absent, Every, Own, MaxHops
VARIABLES docs, row, held, req

Writes == INSTANCE DistWrite WITH Forms <- WriteForms

\* DistWrite counts with the same Cardinality.
LEMMA SameCount ==
    ASSUME NEW S
    PROVE  Writes!Cardinality(S) = Cardinality(S)
BY DEF Writes!Cardinality, Cardinality

\* A set of positions has a first one.
LEMMA LeastOf ==
    ASSUME NEW N \in Nat, NEW T \in SUBSET (1..N), T # {}
    PROVE  \E n \in T : \A m \in T : n <= m
<1>. DEFINE S == 1..N
            U == {1..n : n \in T}
<1>1. IsWellFoundedOn(StrictSubsetOrdering(S), FiniteSubsetsOf(S))
  BY FS_StrictSubsetOrderingWellFounded
<1>2. U \subseteq FiniteSubsetsOf(S) /\ U # {}
  <2>1. ASSUME NEW n \in T
        PROVE  1..n \in FiniteSubsetsOf(S)
    <3>1. n \in Int /\ 1..n \subseteq S
      OBVIOUS
    <3>. QED
      BY <3>1, FS_Interval DEF FiniteSubsetsOf
  <2>. QED
    BY <2>1
<1>3. PICK x \in U : \A y \in U : ~ (<<y, x>> \in StrictSubsetOrdering(S))
  <2>. HIDE DEF S, U
  <2>. QED
    BY <1>1, <1>2, WFMin
<1>4. PICK n \in T : x = 1..n
  BY <1>3
<1>5. ASSUME NEW m \in T, ~(n <= m)
      PROVE  FALSE
  <2>1. 1..m \subseteq 1..n /\ n \in 1..n /\ n \notin 1..m /\ 1..n \subseteq S
    BY <1>5
  <2>2. <<1..m, 1..n>> \in StrictSubsetOrdering(S)
    BY <2>1 DEF StrictSubsetOrdering
  <2>. QED
    BY <1>3, <1>4, <2>2
<1>. QED
  BY <1>5

\* Numbering a set of positions in their order: every number is one position's.
LEMMA Ranks ==
    ASSUME NEW N \in Nat, NEW S \in SUBSET (1..N)
    PROVE  /\ Cardinality(S) \in Nat
           /\ \A k \in S : Writes!Cardinality({j \in S : j <= k}) \in 1..Cardinality(S)
           /\ \A k, l \in S :
                Writes!Cardinality({j \in S : j <= k}) = Writes!Cardinality({j \in S : j <= l})
                => k = l
           /\ \A m \in 1..Cardinality(S) : \E k \in S : Writes!Cardinality({j \in S : j <= k}) = m
<1>. DEFINE Upto(k) == {j \in S : j <= k}
<1>1. IsFiniteSet(S) /\ Cardinality(S) \in Nat
  <2>1. IsFiniteSet(1..N)
    BY FS_Interval, 1 \in Int, N \in Int
  <2>. QED
    BY <2>1, FS_Subset, FS_CardinalityType
<1>2. ASSUME NEW k \in S
      PROVE  IsFiniteSet(Upto(k)) /\ Cardinality(Upto(k)) \in 1..Cardinality(S)
  <2>1. Upto(k) \in SUBSET S /\ k \in Upto(k)
    OBVIOUS
  <2>2. /\ IsFiniteSet(Upto(k)) /\ Cardinality(Upto(k)) <= Cardinality(S)
        /\ Cardinality(Upto(k)) \in Nat
    BY <1>1, <2>1, FS_Subset, FS_CardinalityType
  <2>3. Cardinality(Upto(k)) # 0
    BY <2>1, <2>2, FS_EmptySet
  <2>. QED
    BY <1>1, <2>2, <2>3
<1>3. ASSUME NEW k \in S, NEW l \in S, k < l
      PROVE  Cardinality(Upto(k)) # Cardinality(Upto(l))
  <2>1. Upto(k) \in SUBSET Upto(l) /\ l \in Upto(l) /\ l \notin Upto(k)
    <3>. k \in Int /\ l \in Int /\ \A j \in S : j \in Int
      OBVIOUS
    <3>1. ASSUME NEW j \in S, j <= k
          PROVE  j <= l
      BY <1>3, <3>1
    <3>2. l <= l /\ ~(l <= k)
      BY <1>3
    <3>. QED
      BY <3>1, <3>2
  <2>. QED
    BY <1>2, <2>1, FS_Subset
<1>4. ASSUME NEW k \in S, NEW l \in S, Cardinality(Upto(k)) = Cardinality(Upto(l))
      PROVE  k = l
  <2>1. k \in Int /\ l \in Int
    OBVIOUS
  <2>. QED
    BY <1>3, <1>4, <2>1
<1>5. ASSUME NEW m \in 1..Cardinality(S)
      PROVE  \E k \in S : Cardinality(Upto(k)) = m
  <2>. DEFINE n == Cardinality(S)
              f == [k \in S |-> Cardinality(Upto(k))]
  <2>1. IsFiniteSet(1..n) /\ Cardinality(1..n) = n
    BY <1>1, FS_Interval
  <2>2. f \in Injection(S, 1..n)
    BY <1>2, <1>4 DEF Injection, IsInjective
  <2>3. f \in Surjection(S, 1..n)
    <3>. HIDE DEF f, n
    <3>. QED
      BY <2>1, <2>2, FS_Injection DEF n
  <2>. QED
    BY <2>3 DEF Surjection
<1>6. \A k : Writes!Cardinality(Upto(k)) = Cardinality(Upto(k))
  BY SameCount
<1>. QED
  BY <1>1, <1>2, <1>4, <1>5, <1>6

\* What a compilation takes from the infos it is made of, and what it has its
\* types from.
CompiledFrom(c, d, S) ==
    /\ c.src = d.src /\ c.mode = d.mode /\ c.ops = d.ops
    /\ \A s \in S : s.attrs = Every => c.attrs = Every
    /\ \A s \in S : \A a \in s.attrs : c.attrs = Every \/ a \in c.attrs
    /\ \A s \in S : s.ents = Every => c.free
    /\ \A s \in S : s.ents # Every =>
         \A n \in s.ents : /\ n.ids = Every => c.free
                           /\ n.ids # Every => n.ids \subseteq c.ids
                           /\ n.types # Every => n.types \subseteq c.types
    /\ c.types # {} => \E s \in S : s.ents # Every /\ \E n \in s.ents : n.types # Every

LEMMA CompileShape ==
    ASSUME NEW d, NEW S
    PROVE  CompiledFrom(Writes!Compile(d, S), d, S)
<1>. DEFINE c == Writes!Compile(d, S)
            E == UNION {j.ents : j \in {s \in S : s.ents # Every}}
<1>1. /\ c.src = d.src /\ c.mode = d.mode /\ c.ops = d.ops
      /\ c.attrs = IF \E s \in S : s.attrs = Every THEN Every ELSE UNION {s.attrs : s \in S}
      /\ c.ids = UNION {n.ids : n \in {e \in E : e.ids # Every}}
      /\ c.types = UNION {n.types : n \in {e \in E : e.types # Every}}
      /\ c.free = ((\E s \in S : s.ents = Every) \/ \E n \in E : n.ids = Every)
  BY DEF Writes!Compile
<1>2. \A s \in S : s.ents # Every => \A n \in s.ents : n \in E
  OBVIOUS
<1>3. \A n \in E : \E s \in S : s.ents # Every /\ n \in s.ents
  OBVIOUS
<1>. HIDE DEF c, E
<1>4. \A s \in S : \A a \in s.attrs : c.attrs = Every \/ a \in c.attrs
  BY <1>1
<1>5. c.types # {} => \E s \in S : s.ents # Every /\ \E n \in s.ents : n.types # Every
  BY <1>1, <1>3
<1>6. \A s \in S : s.ents # Every =>
        \A n \in s.ents : /\ n.ids = Every => c.free
                          /\ n.ids # Every => n.ids \subseteq c.ids
                          /\ n.types # Every => n.types \subseteq c.types
  BY <1>1, <1>2
<1>7. \A s \in S : s.ents = Every => c.free
  BY <1>1
<1>8. CompiledFrom(c, d, S)
  BY <1>1, <1>4, <1>5, <1>7, <1>6 DEF CompiledFrom
<1>. QED
  BY <1>8 DEF c

\* What merge_same_source returns: a sequence, of registrations of K that are
\* each compiled with the infos of all of K of their source; and every one of K
\* is in one of them.
MergedFrom(R, ds, K, I, T, A) ==
    /\ \E n \in Nat : DOMAIN R = 1..n /\ R = [m \in 1..n |-> R[m]]
    /\ \A m \in DOMAIN R : \E k \in K :
         R[m] = Writes!Compile(ds[k], Writes!Pooled(ds, K, k, I, T, A))
    /\ \A k \in K : \E m \in DOMAIN R : \E l \in K :
         /\ k \in Writes!Alike(ds, K, l)
         /\ R[m] = Writes!Compile(ds[l], Writes!Pooled(ds, K, l, I, T, A))

LEMMA MergeShape ==
    ASSUME NEW ds, NEW N \in Nat, DOMAIN ds = 1..N, NEW K \in SUBSET (1..N),
           NEW I, NEW T, NEW A
    PROVE  MergedFrom(Writes!merge_same_source(ds, K, I, T, A), ds, K, I, T, A)
<1>. DEFINE L == Writes!Leads(ds, K)
            Folded(k) == Writes!Compile(ds[k], Writes!Pooled(ds, K, k, I, T, A))
            R == Writes!merge_same_source(ds, K, I, T, A)
            Rank(k) == Writes!Cardinality({j \in L : j <= k})
<1>1. L \in SUBSET (1..N) /\ L \subseteq K
  BY DEF Writes!Leads
<1>2. /\ Cardinality(L) \in Nat
      /\ \A k \in L : Rank(k) \in 1..Cardinality(L)
      /\ \A k, l \in L : Rank(k) = Rank(l) => k = l
      /\ \A m \in 1..Cardinality(L) : \E k \in L : Rank(k) = m
  <2>. HIDE DEF L
  <2>. QED
    BY <1>1, Ranks
<1>3. R = [m \in 1..Cardinality(L) |-> Folded(Writes!Lead(ds, K, m))]
  <2>1. R = [m \in 1..Writes!Cardinality(L) |-> Folded(Writes!Lead(ds, K, m))]
    BY DEF Writes!merge_same_source
  <2>2. Writes!Cardinality(L) = Cardinality(L)
    BY SameCount
  <2>. QED
    BY <2>1, <2>2, Zenon
<1>4. ASSUME NEW m \in 1..Cardinality(L)
      PROVE  Writes!Lead(ds, K, m) \in L /\ Rank(Writes!Lead(ds, K, m)) = m
  <2>1. \E k \in L : Rank(k) = m
    BY <1>2
  <2>2. Writes!Lead(ds, K, m) = CHOOSE k \in L : Rank(k) = m
    BY DEF Writes!Lead
  <2>. HIDE DEF L, Rank
  <2>. QED
    BY <2>1, <2>2
<1>. HIDE DEF R
<1>5. ASSUME NEW k \in K
      PROVE  \E l \in L : k \in Writes!Alike(ds, K, l)
  <2>1. PICK l \in Writes!Alike(ds, K, k) : \A j \in Writes!Alike(ds, K, k) : l <= j
    <3>1. Writes!Alike(ds, K, k) \in SUBSET (1..N) /\ k \in Writes!Alike(ds, K, k)
      BY DEF Writes!Alike, Writes!SameSource
    <3>. QED
      BY <3>1, LeastOf
  <2>2. l \in K /\ Writes!SameSource(ds[l], ds[k])
    BY <2>1 DEF Writes!Alike
  <2>3. Writes!Alike(ds, K, l) = Writes!Alike(ds, K, k) /\ k \in Writes!Alike(ds, K, l)
    BY <2>2 DEF Writes!Alike, Writes!SameSource
  <2>. QED
    BY <2>1, <2>2, <2>3 DEF Writes!Leads
<1>6. ASSUME NEW k \in L
      PROVE  Rank(k) \in DOMAIN R /\ R[Rank(k)] = Folded(k)
  <2>1. Rank(k) \in 1..Cardinality(L)
    BY <1>2
  <2>2. Writes!Lead(ds, K, Rank(k)) = k
    BY <1>2, <1>4, <2>1
  <2>. QED
    BY <1>3, <2>1, <2>2
<1>7. DOMAIN R = 1..Cardinality(L) /\ R = [m \in 1..Cardinality(L) |-> R[m]]
  BY <1>3
<1>8. ASSUME NEW m \in DOMAIN R
      PROVE  \E k \in K : R[m] = Folded(k)
  BY <1>1, <1>3, <1>4, <1>7, <1>8
<1>9. ASSUME NEW k \in K
      PROVE  \E m \in DOMAIN R : \E l \in K : k \in Writes!Alike(ds, K, l) /\ R[m] = Folded(l)
  BY <1>1, <1>5, <1>6
<1>10. MergedFrom(R, ds, K, I, T, A)
  BY <1>2, <1>7, <1>8, <1>9 DEF MergedFrom
<1>. QED
  BY <1>10 DEF R

\* What the requests, the registrations and the sources are.
WellAsked ==
    /\ MaxHops \in Nat /\ Every # {Entity}
    /\ \A ds \in Catalogue : /\ \E n \in Nat : DOMAIN ds = 1..n
                            /\ \A k \in DOMAIN ds : ds[k].src \in Sources
    /\ Rows \subseteq Writes!Rowset
    /\ PeerFaults \subseteq Writes!Failures
    /\ \A q \in Reqs : \A f \in WriteForms[q] :
         /\ f.op \in Writes!EntityLevel \cup Writes!AttrLevel
         /\ f.attrs \in SUBSET Attrs
         /\ f.op \in Writes!SingleOps => \E x : f.attrs = {x}
         /\ f.local \in BOOLEAN /\ f.over \in BOOLEAN

AllDocs == UNION {{ds[k] : k \in DOMAIN ds} : ds \in Catalogue}
AllInfos == UNION {d.infos : d \in AllDocs}
Compiled == {Writes!Compile(d, S) : d \in AllDocs, S \in SUBSET AllInfos}
AllForms == UNION {WriteForms[q] : q \in Reqs}

Shares == [reg : Nat, sent : SUBSET Attrs, applied : SUBSET Attrs, status : Writes!Statuses]

\* A request and its handler's locals.
Asked ==
    [pc : {"idle", "plan", "look", "write", "forward", "done"},
     op : Writes!EntityLevel \cup Writes!AttrLevel \cup {"none"},
     types : {f.types : f \in AllForms} \cup {Every}, attrs : SUBSET Attrs,
     via : {f.via : f \in AllForms} \cup {<<>>}, local : BOOLEAN, over : BOOLEAN,
     known : BOOLEAN, regs : Seq(Compiled), next : Nat, parts : Seq(Shares),
     outcome : {"skipped", "missing", "ok"}, wrote : SUBSET Attrs, updated : SUBSET Attrs,
     refused : SUBSET Attrs, answer : Writes!Failures \cup {"ok", "none"}]

WriteTyped ==
    /\ docs \in Catalogue
    /\ row \in Writes!Rowset
    /\ held \in [Sources -> Writes!Rowset]
    /\ req \in [Reqs -> Asked]

\* Registrations that match are compiled ones.
LEMMA PlanShape ==
    ASSUME NEW ds \in Catalogue, NEW N \in Nat, DOMAIN ds = 1..N,
           NEW I, NEW T, NEW A, NEW via, NEW l
    PROVE  Writes!write_regs(ds, I, T, A, via, l) \in Seq(Compiled)
<1>. DEFINE K == {k \in Writes!reg_candidates(ds, I, T, A, via) : ds[k].mode # "auxiliary"}
            R == Writes!merge_same_source(ds, K, I, T, A)
<1>2. K \in SUBSET (1..N)
  BY DEF Writes!reg_candidates
<1>. HIDE DEF K
<1>3. MergedFrom(R, ds, K, I, T, A)
  BY <1>2, MergeShape
<1>. HIDE DEF R
<1>4. ASSUME NEW m \in DOMAIN R
      PROVE  R[m] \in Compiled
  <2>1. PICK k \in K : R[m] = Writes!Compile(ds[k], Writes!Pooled(ds, K, k, I, T, A))
    BY <1>3 DEF MergedFrom
  <2>2. \A j \in K : ds[j] \in AllDocs
    BY <1>2 DEF AllDocs
  <2>3. Writes!Pooled(ds, K, k, I, T, A) \in SUBSET AllInfos
    BY <2>2 DEF AllInfos, Writes!Pooled, Writes!Alike, Writes!matching_infos
  <2>. QED
    BY <2>1, <2>2, <2>3 DEF Compiled
<1>5. R \in Seq(Compiled)
  <2>1. PICK n \in Nat : DOMAIN R = 1..n /\ R = [m \in 1..n |-> R[m]]
    BY <1>3 DEF MergedFrom
  <2>2. R \in [1..n -> Compiled]
    BY <1>4, <2>1
  <2>. QED
    BY <2>2
<1>6. <<>> \in Seq(Compiled)
  OBVIOUS
<1>. QED
  BY <1>5, <1>6 DEF R, K, Writes!write_regs

\* A registration that proxies an attribute of the request's entity covers it
\* in what the handler plans with.
LEMMA ProxyTakes ==
    ASSUME WellAsked, docs \in Catalogue, NEW r \in Asked, NEW a \in r.attrs,
           r.op \in {"createEntity", "mergeEntity", "replaceEntity"} \cup Writes!AttrLevel,
           NEW k \in DOMAIN docs, Writes!ProxyFor(k, r.types, a),
           NEW R, R = Writes!write_regs(docs, {Entity}, Writes!SpecTypes(r),
                                        Writes!SpecAttrs(r), <<>>, FALSE)
    PROVE  \E m \in DOMAIN R : /\ Writes!is_proxy(R[m])
                              /\ Writes!covers_item(R[m], Entity, r.types)
                              /\ Writes!covers_attr(R[m], a)
<1>. DEFINE I == {Entity}
            T == Writes!SpecTypes(r)
            A == Writes!SpecAttrs(r)
            K == {j \in Writes!reg_candidates(docs, I, T, A, <<>>) : docs[j].mode # "auxiliary"}
<1>1. PICK N \in Nat : DOMAIN docs = 1..N
  BY DEF WellAsked
<1>2. K \in SUBSET (1..N)
  BY <1>1 DEF Writes!reg_candidates
<1>3. PICK i \in docs[k].infos :
        /\ i.attrs = Every \/ a \in i.attrs
        /\ IF i.ents = Every THEN ~Writes!Narrowed(k, r.types)
           ELSE \E n \in i.ents : /\ Writes!entity_info_matches(n, I, r.types)
                                  /\ n.types = Every => ~Writes!Narrowed(k, r.types)
  BY DEF Writes!ProxyFor
<1>4. T \in {r.types, Every} /\ (A = {} \/ a \in A)
  BY DEF Writes!SpecTypes, Writes!SpecAttrs
<1>5. i \in Writes!matching_infos(docs[k], I, T, A)
  <2>1. i.ents = Every \/ \E n \in i.ents : Writes!entity_info_matches(n, I, T)
    BY <1>3, <1>4 DEF Writes!entity_info_matches
  <2>2. A = {} \/ i.attrs = Every \/ i.attrs \cap A # {}
    BY <1>3, <1>4
  <2>. QED
    BY <2>1, <2>2 DEF Writes!matching_infos
<1>6. k \in K
  <2>1. docs[k].src \notin Writes!ToSet(<<>>)
    BY DEF Writes!ToSet
  <2>2. ~docs[k].expired /\ docs[k].mode # "auxiliary"
    BY DEF Writes!ProxyFor, Writes!is_proxy
  <2>. QED
    BY <1>5, <2>1, <2>2 DEF Writes!reg_candidates
<1>7. R = Writes!merge_same_source(docs, K, I, T, A)
  <2>1. ~(Len(<<>>) > MaxHops)
    BY DEF WellAsked
  <2>. QED
    BY <2>1 DEF Writes!write_regs
<1>. HIDE DEF K
<1>8. PICK m \in DOMAIN R, l \in K :
        /\ k \in Writes!Alike(docs, K, l)
        /\ R[m] = Writes!Compile(docs[l], Writes!Pooled(docs, K, l, I, T, A))
  <2>1. MergedFrom(R, docs, K, I, T, A)
    BY <1>1, <1>2, <1>7, MergeShape
  <2>. QED
    BY <1>6, <2>1 DEF MergedFrom
<1>. DEFINE S == Writes!Pooled(docs, K, l, I, T, A)
<1>9. i \in S
  BY <1>5, <1>8 DEF Writes!Pooled
<1>. HIDE DEF S
<1>10. CompiledFrom(R[m], docs[l], S)
  BY <1>8, CompileShape DEF S
<1>11. Writes!is_proxy(R[m])
  BY <1>8, <1>10 DEF CompiledFrom, Writes!ProxyFor, Writes!is_proxy, Writes!Alike, Writes!SameSource
<1>12. Writes!covers_attr(R[m], a)
  BY <1>3, <1>9, <1>10 DEF CompiledFrom, Writes!covers_attr
<1>13. R[m].free \/ Entity \in R[m].ids
  <2>1. CASE i.ents = Every
    BY <1>9, <1>10, <2>1 DEF CompiledFrom
  <2>2. CASE i.ents # Every
    <3>1. PICK n \in i.ents : Writes!entity_info_matches(n, I, r.types)
      BY <1>3, <2>2
    <3>2. n.ids = Every \/ Entity \in n.ids
      BY <3>1 DEF Writes!entity_info_matches, WellAsked
    <3>. QED
      BY <1>9, <1>10, <2>2, <3>2 DEF CompiledFrom
  <2>. QED
    BY <2>1, <2>2
<1>14. ASSUME R[m].types # {}, r.types # Every
       PROVE  R[m].types \cap r.types # {}
  <2>1. CASE Writes!Narrowed(k, r.types)
    <3>1. PICK n \in i.ents : /\ Writes!entity_info_matches(n, I, r.types)
                               /\ n.types # Every
                               /\ i.ents # Every
      BY <1>3, <2>1
    <3>2. n.types \cap r.types # {}
      BY <1>14, <3>1 DEF Writes!entity_info_matches
    <3>3. n.types \subseteq R[m].types
      BY <1>9, <1>10, <3>1 DEF CompiledFrom
    <3>. QED
      BY <3>2, <3>3
  <2>2. CASE ~Writes!Narrowed(k, r.types)
    <3>1. PICK s \in S : s.ents # Every /\ \E n \in s.ents : n.types # Every
      BY <1>10, <1>14 DEF CompiledFrom
    <3>2. PICK n \in s.ents : n.types # Every
      BY <3>1
    <3>3. PICK j \in Writes!Alike(docs, K, l) : s \in docs[j].infos
      BY DEF S, Writes!Pooled, Writes!matching_infos
    <3>4. j \in DOMAIN docs /\ Writes!SameSource(docs[j], docs[k])
      BY <1>1, <1>2, <1>8 DEF Writes!Alike, Writes!SameSource
    <3>5. n.types \cap r.types # {}
      BY <1>14, <2>2, <3>1, <3>2, <3>3, <3>4 DEF Writes!Narrowed
    <3>6. n.types \subseteq R[m].types
      BY <1>10, <3>1, <3>2 DEF CompiledFrom
    <3>. QED
      BY <3>5, <3>6
  <2>. QED
    BY <2>1, <2>2
<1>. QED
  BY <1>11, <1>12, <1>13, <1>14 DEF Writes!covers_item

\* What holds of a request r and its handler's locals, step by step.  Nothing is
\* written or answered before the local part.
Unwritten(r) ==
    r.pc \in {"idle", "plan", "look", "write"} =>
        /\ r.wrote = {} /\ r.parts = <<>> /\ r.updated = {} /\ r.refused = {}
        /\ r.outcome = "skipped" /\ r.next = 1

\* A plan is what the registrations say.
Planned(r) ==
    /\ r.pc # "idle" => r.op # "none"
    /\ r.pc = "look" => r.op = "mergeEntity"
    /\ r.op \in Writes!SingleOps => \E x : r.attrs = {x}
    /\ r.pc \in {"look", "write"} /\ ~r.local /\ r.via = <<>> =>
         r.regs = Writes!write_regs(docs, {Entity}, Writes!SpecTypes(r), Writes!SpecAttrs(r),
                                    <<>>, FALSE)

\* ProxiedStaysOut, of one request.
StaysOut(r) ==
    (r.wrote # {} /\ r.op # "deleteEntity" /\ ~r.local /\ r.via = <<>>) =>
        \A a \in r.wrote : \A k \in DOMAIN docs : ~Writes!ProxyFor(k, r.types, a)

\* On its way to AttributesAccounted: the parts stay one to one with the
\* registrations, a proxy is never skipped, and an attribute the local part
\* left out is a proxy's.  Entity operations have no part for whom they skip.
Accounting(r) ==
    /\ r.pc = "forward" /\ r.op \in Writes!EntityLevel =>
         \A k \in 1..Len(r.parts) : r.parts[k].status # "skipped"
    /\ r.pc = "forward" /\ r.op \in Writes!AttrLevel =>
         /\ r.next = Len(r.parts) + 1 /\ Len(r.parts) <= Len(r.regs)
         /\ \A k \in 1..Len(r.parts) :
              /\ Writes!ok(r.parts[k]) => r.attrs \subseteq r.parts[k].applied
              /\ Writes!is_proxy(r.regs[k]) => r.parts[k].status # "skipped"
         /\ r.updated \subseteq r.wrote
         /\ \A a \in r.attrs :
              \/ a \in r.updated \cup r.refused
              \/ \E k \in 1..Len(r.regs) :
                   Writes!is_proxy(r.regs[k]) /\ Writes!covers_attr(r.regs[k], a)

\* ErrorMeansNothingWritten and AttributesAccounted, of one request.
Answered(r) ==
    /\ r.pc = "done" /\ r.op \in Writes!EntityLevel /\ r.answer \notin {"ok", "partial"} =>
         \A k \in DOMAIN r.parts : r.parts[k].status \notin {"ok", "partial"}
    /\ r.pc = "done" /\ r.op \in Writes!AttrLevel /\ r.answer \in {"ok", "partial"} =>
         /\ r.attrs \subseteq r.updated \cup r.refused
         /\ r.updated \subseteq r.wrote \cup UNION {r.parts[k].applied : k \in DOMAIN r.parts}

InOrder(r) == Unwritten(r) /\ Planned(r) /\ StaysOut(r) /\ Accounting(r) /\ Answered(r)

WriteInv == WriteTyped /\ \A q \in Reqs : InOrder(req[q])

\* The step of request q: the others stand still.
Turned(q) == \E r \in Asked : InOrder(r) /\ req' = [req EXCEPT ![q] = r]

LEMMA TurnKeeps ==
    ASSUME WriteInv, NEW q \in Reqs, Turned(q), docs' = docs,
           row' \in Writes!Rowset, held' \in [Sources -> Writes!Rowset]
    PROVE  WriteInv'
<1>1. PICK r \in Asked : InOrder(r) /\ req' = [req EXCEPT ![q] = r]
  BY DEF Turned
<1>2. req' \in [Reqs -> Asked]
  BY <1>1 DEF WriteInv, WriteTyped
<1>3. WriteTyped'
  BY <1>2 DEF WriteInv, WriteTyped, Writes!Rowset
<1>4. ASSUME NEW x \in Asked, InOrder(x)
      PROVE  InOrder(x)'
  <2>1. Unwritten(x)' /\ Accounting(x)' /\ Answered(x)'
    BY <1>4 DEF InOrder, Unwritten, Accounting, Answered
  <2>2. Planned(x)'
    BY <1>4 DEF InOrder, Planned
  <2>3. ASSUME NEW k \in DOMAIN docs, NEW a
        PROVE  Writes!ProxyFor(k, x.types, a)' <=> Writes!ProxyFor(k, x.types, a)
    <3>1. Writes!Narrowed(k, x.types)' <=> Writes!Narrowed(k, x.types)
      BY DEF Writes!Narrowed
    <3>. QED
      BY <3>1 DEF Writes!ProxyFor
  <2>4. StaysOut(x)'
    BY <1>4, <2>3 DEF InOrder, StaysOut
  <2>. QED
    BY <2>1, <2>2, <2>4 DEF InOrder
<1>5. ASSUME NEW p \in Reqs
      PROVE  InOrder(req[p])'
  <2>1. req'[p] = IF p = q THEN r ELSE req[p]
    BY <1>1 DEF WriteInv, WriteTyped
  <2>2. req'[p] \in Asked /\ InOrder(req'[p])
    BY <1>1, <2>1 DEF WriteInv, WriteTyped
  <2>. QED
    BY <1>4, <2>2
<1>. QED
  BY <1>3, <1>5 DEF WriteInv

-----------------------------------------------------------------------------
(* Each step of a request keeps the invariant.                             *)

LEMMA ReceiveTurns ==
    ASSUME WellAsked, WriteInv, NEW q \in Reqs, Writes!Receive(q)
    PROVE  Turned(q)
<1>1. PICK f \in WriteForms[q] :
        req' = [req EXCEPT ![q] =
                  [Writes!NoReq EXCEPT !.pc = "plan", !.op = f.op, !.types = f.types,
                                       !.attrs = f.attrs, !.via = f.via, !.local = f.local,
                                       !.over = f.over,
                                       !.known = f.op = "replaceEntity" /\ row # Absent]]
  BY DEF Writes!Receive
<1>. DEFINE known == f.op = "replaceEntity" /\ row # Absent
            r == [Writes!NoReq EXCEPT !.pc = "plan", !.op = f.op, !.types = f.types,
                                      !.attrs = f.attrs, !.via = f.via, !.local = f.local,
                                      !.over = f.over, !.known = known]
<1>2. req' = [req EXCEPT ![q] = r]
  BY <1>1
<1>3. f \in AllForms /\ known \in BOOLEAN
  BY DEF AllForms
<1>4. /\ f.op \in Writes!EntityLevel \cup Writes!AttrLevel /\ f.op # "none"
      /\ f.attrs \in SUBSET Attrs /\ f.local \in BOOLEAN /\ f.over \in BOOLEAN
      /\ f.op \in Writes!SingleOps => \E x : f.attrs = {x}
  BY DEF WellAsked, Writes!EntityLevel, Writes!AttrLevel, Writes!FragmentOps, Writes!SingleOps
<1>5. /\ Writes!NoReq \in Asked /\ Writes!NoReq.wrote = {} /\ Writes!NoReq.parts = <<>>
      /\ Writes!NoReq.updated = {} /\ Writes!NoReq.refused = {}
      /\ Writes!NoReq.outcome = "skipped" /\ Writes!NoReq.next = 1
  BY DEF Writes!NoReq, Asked
<1>. HIDE DEF known
<1>6. r \in Asked
  BY <1>3, <1>4, <1>5 DEF Asked
<1>7. /\ r.pc = "plan" /\ r.op = f.op /\ r.attrs = f.attrs /\ r.wrote = {} /\ r.parts = <<>>
      /\ r.updated = {} /\ r.refused = {} /\ r.outcome = "skipped" /\ r.next = 1
  BY <1>5 DEF Asked
<1>8. InOrder(r)
  BY <1>4, <1>7 DEF InOrder, Unwritten, Planned, StaysOut, Accounting, Answered
<1>. QED
  BY <1>2, <1>6, <1>8 DEF Turned

LEMMA PlanTurns ==
    ASSUME WellAsked, WriteInv, NEW q \in Reqs, Writes!write_plan(q)
    PROVE  Turned(q)
<1>. DEFINE r == req[q]
            regs == Writes!write_regs(docs, {Entity}, Writes!SpecTypes(r), Writes!SpecAttrs(r),
                                      r.via, r.local)
            verdict == Writes!handle_via_loop(r.via, regs)
            looped == [r EXCEPT !.pc = "done", !.answer = "loop"]
            pc == IF r.op = "mergeEntity" /\ verdict = "forward" /\ regs # <<>>
                  THEN "look" ELSE "write"
            plan == IF verdict = "forward" THEN regs ELSE <<>>
            planned == [r EXCEPT !.pc = pc, !.regs = plan]
<1>1. req' = [req EXCEPT ![q] = IF verdict = "refuse" THEN looped ELSE planned]
  BY DEF Writes!write_plan
<1>2. r \in Asked /\ InOrder(r) /\ r.pc = "plan" /\ docs \in Catalogue
  BY DEF Writes!write_plan, WriteInv, WriteTyped
<1>3. regs \in Seq(Compiled) /\ plan \in Seq(Compiled)
  <2>1. PICK N \in Nat : DOMAIN docs = 1..N
    BY <1>2 DEF WellAsked
  <2>2. regs \in Seq(Compiled)
    BY <1>2, <2>1, PlanShape
  <2>. QED
    BY <2>2
<1>4. looped \in Asked /\ planned \in Asked
  <2>1. looped \in Asked
    BY <1>2 DEF Asked, Writes!Failures
  <2>2. pc \in {"look", "write"}
    OBVIOUS
  <2>. HIDE DEF regs, verdict, plan, pc
  <2>3. planned \in Asked
    BY <1>2, <1>3, <2>2 DEF Asked
  <2>. QED
    BY <2>1, <2>3
<1>5. InOrder(looped)
  <2>1. /\ looped.pc = "done" /\ looped.answer = "loop" /\ looped.op = r.op
        /\ looped.attrs = r.attrs /\ looped.wrote = r.wrote /\ looped.parts = r.parts
    BY <1>2 DEF Asked
  <2>2. looped.wrote = {} /\ looped.parts = <<>>
    BY <1>2, <2>1 DEF InOrder, Unwritten
  <2>3. Planned(looped)
    BY <1>2, <2>1 DEF InOrder, Planned
  <2>. QED
    BY <2>1, <2>2, <2>3 DEF InOrder, Unwritten, StaysOut, Accounting, Answered
<1>6. ASSUME r.via = <<>>, ~r.local
      PROVE  plan = Writes!write_regs(docs, {Entity}, Writes!SpecTypes(r), Writes!SpecAttrs(r),
                                      <<>>, FALSE)
  <2>1. ~(Len(r.via) > MaxHops) /\ ~Writes!via_loop(r.via)
    BY <1>6 DEF WellAsked, Writes!via_loop, Writes!ToSet
  <2>2. verdict = "forward"
    <3>1. Len(r.via) <= MaxHops
      BY <1>6 DEF WellAsked
    <3>. HIDE DEF regs
    <3>. QED
      BY <2>1, <3>1 DEF Writes!handle_via_loop
  <2>3. r.local = FALSE
    BY <1>2, <1>6 DEF Asked
  <2>. QED
    BY <1>6, <2>2, <2>3
<1>7. InOrder(planned)
  <2>. HIDE DEF regs, verdict, plan
  <2>1. /\ planned.pc \in {"look", "write"} /\ planned.op = r.op /\ planned.attrs = r.attrs
        /\ planned.via = r.via /\ planned.local = r.local /\ planned.types = r.types
        /\ planned.regs = plan /\ planned.wrote = r.wrote /\ planned.parts = r.parts
        /\ planned.updated = r.updated /\ planned.refused = r.refused
        /\ planned.outcome = r.outcome /\ planned.next = r.next
        /\ planned.pc = "look" => r.op = "mergeEntity"
    BY <1>2 DEF Asked
  <2>2. Unwritten(planned)
    BY <1>2, <2>1 DEF InOrder, Unwritten
  <2>3. Writes!SpecTypes(planned) = Writes!SpecTypes(r)
        /\ Writes!SpecAttrs(planned) = Writes!SpecAttrs(r)
    BY <2>1 DEF Writes!SpecTypes, Writes!SpecAttrs
  <2>4. Planned(planned)
    BY <1>2, <1>6, <2>1, <2>3 DEF InOrder, Planned
  <2>. QED
    BY <2>1, <2>2, <2>4 DEF InOrder, Unwritten, StaysOut, Accounting, Answered
<1>. QED
  BY <1>1, <1>4, <1>5, <1>7 DEF Turned

LEMMA LookTurns ==
    ASSUME WriteInv, NEW q \in Reqs, Writes!Look(q)
    PROVE  Turned(q)
<1>. DEFINE r == req[q]
            known == row # Absent
            s == [r EXCEPT !.pc = "write", !.known = known]
<1>1. r \in Asked /\ InOrder(r) /\ r.pc = "look" /\ req \in [Reqs -> Asked]
  BY DEF Writes!Look, WriteInv, WriteTyped
<1>2. req' = [req EXCEPT ![q] = s]
  BY <1>1 DEF Writes!Look, Asked
<1>3. s \in Asked
  <2>1. known \in BOOLEAN
    OBVIOUS
  <2>. HIDE DEF known
  <2>. QED
    BY <1>1, <2>1 DEF Asked
<1>4. InOrder(s)
  <2>1. /\ s.pc = "write" /\ s.op = r.op /\ s.attrs = r.attrs
        /\ s.via = r.via /\ s.local = r.local /\ s.types = r.types
        /\ s.regs = r.regs /\ s.wrote = r.wrote /\ s.parts = r.parts
        /\ s.updated = r.updated /\ s.refused = r.refused
        /\ s.outcome = r.outcome /\ s.next = r.next
    BY <1>1 DEF Asked
  <2>2. Unwritten(s)
    BY <1>1, <2>1 DEF InOrder, Unwritten
  <2>3. Writes!SpecTypes(s) = Writes!SpecTypes(r) /\ Writes!SpecAttrs(s) = Writes!SpecAttrs(r)
    BY <2>1 DEF Writes!SpecTypes, Writes!SpecAttrs
  <2>4. Planned(s)
    BY <1>1, <2>1, <2>3 DEF InOrder, Planned
  <2>. QED
    BY <2>1, <2>2, <2>4 DEF InOrder, Unwritten, StaysOut, Accounting, Answered
<1>. QED
  BY <1>2, <1>3, <1>4 DEF Turned

\* What is left for the local write is nobody else's: of an entity, of a
\* fragment, and of one attribute.
LEMMA OursToWrite ==
    ASSUME WellAsked, docs \in Catalogue, NEW r \in Asked, InOrder(r), r.pc = "write",
           ~r.local, r.via = <<>>, NEW a \in r.attrs,
           r.op \in {"createEntity", "mergeEntity", "replaceEntity"} \cup Writes!AttrLevel,
           \/ /\ r.op \in {"createEntity", "mergeEntity", "replaceEntity"}
              /\ a \in Writes!strip_proxied(r.regs, Entity, r.types, r.attrs)
           \/ a \in Writes!strip_covered_expanded(r.regs, r.attrs)
           \/ r.op \in Writes!SingleOps /\ ~Writes!proxies_cover_all(r.regs, r.attrs)
    PROVE  \A k \in DOMAIN docs : ~Writes!ProxyFor(k, r.types, a)
<1>1. r.regs = Writes!write_regs(docs, {Entity}, Writes!SpecTypes(r), Writes!SpecAttrs(r),
                                 <<>>, FALSE)
  BY DEF InOrder, Planned
<1>2. r.regs \in Seq(Compiled)
  BY DEF Asked
<1>. SUFFICES ASSUME NEW k \in DOMAIN docs, Writes!ProxyFor(k, r.types, a)
              PROVE  FALSE
  OBVIOUS
<1>3. PICK m \in DOMAIN r.regs : /\ Writes!is_proxy(r.regs[m])
                                 /\ Writes!covers_item(r.regs[m], Entity, r.types)
                                 /\ Writes!covers_attr(r.regs[m], a)
  BY <1>1, ProxyTakes
<1>4. a \notin Writes!strip_proxied(r.regs, Entity, r.types, r.attrs)
  BY <1>3 DEF Writes!strip_proxied
<1>5. a \notin Writes!strip_covered_expanded(r.regs, r.attrs)
  BY <1>3 DEF Writes!strip_covered_expanded
<1>6. ASSUME r.op \in Writes!SingleOps
      PROVE  Writes!proxies_cover_all(r.regs, r.attrs)
  <2>1. r.attrs = {a}
    BY <1>6 DEF InOrder, Planned
  <2>2. r.regs # <<>>
    BY <1>2, <1>3
  <2>. QED
    BY <1>3, <2>1, <2>2 DEF Writes!proxies_cover_all
<1>. QED
  BY <1>4, <1>5, <1>6

LEMMA WroteTurns ==
    ASSUME WriteInv, NEW q \in Reqs, NEW part \in Shares, NEW to, Writes!Wrote(q, part, to),
           req[q].pc = "write", req[q].op \in Writes!EntityLevel,
           part = Writes!None \/ part.status # "skipped",
           req[q].op # "deleteEntity" /\ ~req[q].local /\ req[q].via = <<>> =>
             \A a \in part.applied : \A k \in DOMAIN docs : ~Writes!ProxyFor(k, req[q].types, a)
    PROVE  Turned(q)
<1>. DEFINE r == req[q]
            parts == IF part = Writes!None THEN <<>> ELSE <<part>>
            s == [r EXCEPT !.pc = "forward", !.wrote = part.applied, !.parts = parts]
<1>1. r \in Asked /\ InOrder(r) /\ req \in [Reqs -> Asked]
  BY DEF WriteInv, WriteTyped
<1>2. parts \in Seq(Shares) /\ part.applied \in SUBSET Attrs
  <2>1. <<part>> \in Seq(Shares) /\ <<>> \in Seq(Shares)
    OBVIOUS
  <2>2. part.applied \in SUBSET Attrs
    BY DEF Shares
  <2>. QED
    BY <2>1, <2>2
<1>3. req' = [req EXCEPT ![q] = s]
  <2>. HIDE DEF parts
  <2>. QED
    BY <1>1 DEF Writes!Wrote, Asked, parts
<1>. HIDE DEF parts
<1>4. s \in Asked
  BY <1>1, <1>2 DEF Asked
<1>5. /\ s.pc = "forward" /\ s.op = r.op /\ s.attrs = r.attrs /\ s.via = r.via
      /\ s.local = r.local /\ s.types = r.types /\ s.wrote = part.applied /\ s.parts = parts
  BY <1>1 DEF Asked
<1>6. Planned(s)
  BY <1>1, <1>5 DEF InOrder, Planned
<1>7. StaysOut(s)
  BY <1>5 DEF StaysOut
<1>8. s.op \notin Writes!AttrLevel
  BY <1>5 DEF Writes!EntityLevel, Writes!AttrLevel, Writes!FragmentOps, Writes!SingleOps
<1>9. \A k \in 1..Len(parts) : parts[k].status # "skipped"
  BY DEF parts
<1>10. Accounting(s)
  BY <1>5, <1>8, <1>9 DEF Accounting
<1>. QED
  BY <1>3, <1>4, <1>5, <1>6, <1>7, <1>10 DEF Turned, InOrder, Unwritten, Answered

LEMMA AttrsWroteTurns ==
    ASSUME WriteInv, NEW q \in Reqs, NEW outcome \in {"skipped", "missing", "ok"},
           NEW applied \in SUBSET Attrs, NEW refused \in SUBSET Attrs, NEW to,
           Writes!AttrsWrote(q, outcome, applied, refused, to),
           req[q].pc = "write", req[q].op \in Writes!AttrLevel,
           ~req[q].local /\ req[q].via = <<>> =>
             \A a \in applied : \A k \in DOMAIN docs : ~Writes!ProxyFor(k, req[q].types, a),
           \A a \in req[q].attrs :
             \/ a \in applied \cup refused
             \/ \E k \in DOMAIN req[q].regs : /\ Writes!is_proxy(req[q].regs[k])
                                             /\ Writes!covers_attr(req[q].regs[k], a)
    PROVE  Turned(q)
<1>. DEFINE r == req[q]
            s == [r EXCEPT !.pc = "forward", !.outcome = outcome, !.wrote = applied,
                           !.updated = applied, !.refused = refused]
<1>1. r \in Asked /\ InOrder(r) /\ req \in [Reqs -> Asked]
  BY DEF WriteInv, WriteTyped
<1>2. req' = [req EXCEPT ![q] = s]
  BY <1>1 DEF Writes!AttrsWrote, Asked
<1>3. s \in Asked
  BY <1>1 DEF Asked
<1>4. /\ s.pc = "forward" /\ s.op = r.op /\ s.attrs = r.attrs /\ s.via = r.via
      /\ s.local = r.local /\ s.types = r.types /\ s.wrote = applied /\ s.updated = applied
      /\ s.refused = refused /\ s.regs = r.regs /\ s.parts = r.parts /\ s.next = r.next
  BY <1>1 DEF Asked
<1>5. Planned(s)
  BY <1>1, <1>4 DEF InOrder, Planned
<1>6. StaysOut(s)
  BY <1>4 DEF StaysOut
<1>7. Accounting(s)
  <2>. s.op \notin Writes!EntityLevel
    BY <1>4 DEF Writes!EntityLevel, Writes!AttrLevel, Writes!FragmentOps, Writes!SingleOps
  <2>1. r.parts = <<>> /\ r.next = 1
    BY <1>1 DEF InOrder, Unwritten
  <2>2. DOMAIN r.regs = 1..Len(r.regs) /\ Len(r.regs) \in Nat
    BY <1>1 DEF Asked
  <2>. QED
    BY <1>4, <2>1, <2>2 DEF Accounting
<1>. QED
  BY <1>2, <1>3, <1>4, <1>5, <1>6, <1>7 DEF Turned, InOrder, Unwritten, Answered

\* A step that keeps the rest of the state what it is.
Moves(q) == Turned(q) /\ docs' = docs /\ row' \in Writes!Rowset
            /\ held' \in [Sources -> Writes!Rowset]

LEMMA LocalShape ==
    /\ Writes!None \in Shares /\ Writes!None.applied = {}
    /\ \A A \in SUBSET Attrs : \A s \in Writes!Statuses :
         /\ Writes!Local(A, s) \in Shares /\ Writes!Local(A, s).applied = A
         /\ Writes!Local(A, s).status = s
    /\ "ok" \in Writes!Statuses /\ "missing" \in Writes!Statuses /\ "exists" \in Writes!Statuses
    /\ Absent \in Writes!Rowset /\ SUBSET Attrs \subseteq Writes!Rowset
BY DEF Writes!None, Writes!Local, Writes!Part, Shares, Writes!Statuses, Writes!Failures,
       Writes!Rowset

LEMMA CreateMoves ==
    ASSUME WellAsked, WriteInv, NEW q \in Reqs, Writes!create_entity_inner(q)
    PROVE  Moves(q)
<1>. DEFINE r == req[q]
            rest == Writes!strip_proxied(r.regs, Entity, r.types, r.attrs)
<1>1. /\ r \in Asked /\ InOrder(r) /\ r.pc = "write" /\ r.op = "createEntity"
      /\ r.op \in Writes!EntityLevel /\ docs \in Catalogue /\ row \in Writes!Rowset
  BY DEF WriteInv, WriteTyped, Writes!create_entity_inner, Writes!At, Writes!EntityLevel
<1>2. \/ Writes!Wrote(q, Writes!None, row)
      \/ Writes!Wrote(q, Writes!Local(rest, "ok"), rest)
      \/ Writes!Wrote(q, Writes!Local({}, "exists"), row)
  BY DEF Writes!create_entity_inner
<1>3. rest \in SUBSET Attrs /\ rest \subseteq r.attrs
  BY <1>1 DEF Writes!strip_proxied, Asked
<1>4. ~r.local /\ r.via = <<>> =>
        \A a \in rest : \A k \in DOMAIN docs : ~Writes!ProxyFor(k, r.types, a)
  BY <1>1, <1>3, OursToWrite
<1>. HIDE DEF rest
<1>5. PICK part \in Shares, to \in Writes!Rowset :
        /\ Writes!Wrote(q, part, to) /\ part.applied \in {{}, rest}
        /\ part = Writes!None \/ part.status # "skipped"
  BY <1>1, <1>2, <1>3, LocalShape
<1>6. Turned(q)
  BY <1>1, <1>4, <1>5, WroteTurns
<1>. QED
  BY <1>5, <1>6 DEF Moves, Writes!Wrote, WriteInv, WriteTyped

LEMMA DeleteMoves ==
    ASSUME WellAsked, WriteInv, NEW q \in Reqs, Writes!delete_entity(q)
    PROVE  Moves(q)
<1>1. /\ req[q].pc = "write" /\ req[q].op = "deleteEntity" /\ row \in Writes!Rowset
      /\ req[q].op \in Writes!EntityLevel
  BY DEF WriteInv, WriteTyped, Writes!delete_entity, Writes!At, Writes!EntityLevel
<1>2. \/ row # Absent /\ Writes!Wrote(q, Writes!Local(row, "ok"), Absent)
      \/ Writes!Wrote(q, Writes!None, row)
      \/ Writes!Wrote(q, Writes!Local({}, "missing"), row)
  BY DEF Writes!delete_entity
<1>3. PICK part \in Shares, to \in Writes!Rowset :
        Writes!Wrote(q, part, to) /\ (part = Writes!None \/ part.status # "skipped")
  <2>1. row # Absent => row \in SUBSET Attrs
    BY <1>1 DEF Writes!Rowset
  <2>. QED
    BY <1>1, <1>2, <2>1, LocalShape
<1>4. Turned(q)
  BY <1>1, <1>3, WroteTurns
<1>. QED
  BY <1>3, <1>4 DEF Moves, Writes!Wrote, WriteInv, WriteTyped

LEMMA MergeMoves ==
    ASSUME WellAsked, WriteInv, NEW q \in Reqs, Writes!merge_entity_inner(q)
    PROVE  Moves(q)
<1>. DEFINE r == req[q]
            rest == Writes!strip_proxied(r.regs, Entity, r.types, r.attrs)
<1>1. /\ r \in Asked /\ InOrder(r) /\ r.pc = "write" /\ r.op = "mergeEntity"
      /\ r.op \in Writes!EntityLevel /\ docs \in Catalogue /\ row \in Writes!Rowset
  BY DEF WriteInv, WriteTyped, Writes!merge_entity_inner, Writes!At, Writes!EntityLevel
<1>2. \/ Writes!Wrote(q, Writes!None, row)
      \/ Writes!Wrote(q, Writes!Local({}, "missing"), row)
      \/ row # Absent /\ Writes!Wrote(q, Writes!Local(rest, "ok"), row \cup rest)
  <2>. DEFINE writes == \/ r.regs = <<>>
                        \/ (r.known \/ ~Writes!Proxied(r.regs)) /\ rest # {}
  <2>1. /\ ~writes => Writes!Wrote(q, Writes!None, row)
        /\ writes /\ row = Absent => Writes!Wrote(q, Writes!Local({}, "missing"), row)
        /\ writes /\ row # Absent => Writes!Wrote(q, Writes!Local(rest, "ok"), row \cup rest)
    BY DEF Writes!merge_entity_inner
  <2>. HIDE DEF writes, rest
  <2>. QED
    BY <2>1
<1>3. rest \in SUBSET Attrs /\ rest \subseteq r.attrs
  BY <1>1 DEF Writes!strip_proxied, Asked
<1>4. ~r.local /\ r.via = <<>> =>
        \A a \in rest : \A k \in DOMAIN docs : ~Writes!ProxyFor(k, r.types, a)
  BY <1>1, <1>3, OursToWrite
<1>. HIDE DEF rest
<1>5. PICK part \in Shares, to \in Writes!Rowset :
        /\ Writes!Wrote(q, part, to) /\ part.applied \in {{}, rest}
        /\ part = Writes!None \/ part.status # "skipped"
  <2>1. row # Absent => row \cup rest \in SUBSET Attrs
    BY <1>1, <1>3 DEF Writes!Rowset
  <2>. QED
    BY <1>1, <1>2, <1>3, <2>1, LocalShape
<1>6. Turned(q)
  BY <1>1, <1>4, <1>5, WroteTurns
<1>. QED
  BY <1>5, <1>6 DEF Moves, Writes!Wrote, WriteInv, WriteTyped

LEMMA ReplaceMoves ==
    ASSUME WellAsked, WriteInv, NEW q \in Reqs, Writes!replace_entity(q)
    PROVE  Moves(q)
<1>. DEFINE r == req[q]
            rest == Writes!strip_proxied(r.regs, Entity, r.types, r.attrs)
<1>1. /\ r \in Asked /\ InOrder(r) /\ r.pc = "write" /\ r.op = "replaceEntity"
      /\ r.op \in Writes!EntityLevel /\ docs \in Catalogue /\ row \in Writes!Rowset
  BY DEF WriteInv, WriteTyped, Writes!replace_entity, Writes!At, Writes!EntityLevel
<1>2. \/ Writes!Wrote(q, Writes!None, row)
      \/ Writes!Wrote(q, Writes!Local({}, "missing"), row)
      \/ Writes!Wrote(q, Writes!Local(rest, "ok"), rest)
  BY DEF Writes!replace_entity
<1>3. rest \in SUBSET Attrs /\ rest \subseteq r.attrs
  BY <1>1 DEF Writes!strip_proxied, Asked
<1>4. ~r.local /\ r.via = <<>> =>
        \A a \in rest : \A k \in DOMAIN docs : ~Writes!ProxyFor(k, r.types, a)
  BY <1>1, <1>3, OursToWrite
<1>. HIDE DEF rest
<1>5. PICK part \in Shares, to \in Writes!Rowset :
        /\ Writes!Wrote(q, part, to) /\ part.applied \in {{}, rest}
        /\ part = Writes!None \/ part.status # "skipped"
  BY <1>1, <1>2, <1>3, LocalShape
<1>6. Turned(q)
  BY <1>1, <1>4, <1>5, WroteTurns
<1>. QED
  BY <1>5, <1>6 DEF Moves, Writes!Wrote, WriteInv, WriteTyped

LEMMA WriteAttrsMoves ==
    ASSUME WellAsked, WriteInv, NEW q \in Reqs, Writes!write_attrs(q)
    PROVE  Moves(q)
<1>. DEFINE r == req[q]
            frag == Writes!strip_covered_expanded(r.regs, r.attrs)
            all == Writes!proxies_cover_all(r.regs, r.attrs)
            kept == IF r.over THEN {} ELSE frag \cap row
<1>1. /\ r \in Asked /\ InOrder(r) /\ r.pc = "write" /\ r.op \in Writes!AttrLevel
      /\ docs \in Catalogue /\ row \in Writes!Rowset
  BY DEF WriteInv, WriteTyped, Writes!write_attrs, Writes!AttrLevel
<1>2. \/ all /\ Writes!AttrsWrote(q, "skipped", {}, {}, row)
      \/ Writes!AttrsWrote(q, "missing", {}, frag, row)
      \/ row # Absent /\ Writes!AttrsWrote(q, "ok", frag \ kept, kept, row \cup frag)
  <2>1. /\ all => Writes!AttrsWrote(q, "skipped", {}, {}, row)
        /\ ~all /\ row = Absent => Writes!AttrsWrote(q, "missing", {}, frag, row)
        /\ ~all /\ row # Absent => Writes!AttrsWrote(q, "ok", frag \ kept, kept, row \cup frag)
    BY DEF Writes!write_attrs
  <2>. HIDE DEF all, frag, kept
  <2>. QED
    BY <2>1
<1>3. frag \in SUBSET Attrs /\ frag \subseteq r.attrs /\ kept \subseteq frag
  BY <1>1 DEF Writes!strip_covered_expanded, Asked
<1>4. ~r.local /\ r.via = <<>> =>
        \A a \in frag : \A k \in DOMAIN docs : ~Writes!ProxyFor(k, r.types, a)
  BY <1>1, <1>3, OursToWrite
<1>5. \A a \in r.attrs :
        all \/ a \notin frag =>
          \E k \in DOMAIN r.regs : Writes!is_proxy(r.regs[k]) /\ Writes!covers_attr(r.regs[k], a)
  BY DEF Writes!strip_covered_expanded, Writes!proxies_cover_all
<1>. HIDE DEF frag, all, kept
<1>6. PICK outcome \in {"skipped", "missing", "ok"}, applied \in SUBSET Attrs,
           refused \in SUBSET Attrs, to \in Writes!Rowset :
        /\ Writes!AttrsWrote(q, outcome, applied, refused, to)
        /\ applied \subseteq frag /\ (all \/ applied \cup refused = frag)
  <2>1. row # Absent => row \cup frag \in SUBSET Attrs
    BY <1>1, <1>3 DEF Writes!Rowset
  <2>. QED
    BY <1>1, <1>2, <1>3, <2>1, LocalShape
<1>7. Turned(q)
  <2>1. ~r.local /\ r.via = <<>> =>
          \A a \in applied : \A k \in DOMAIN docs : ~Writes!ProxyFor(k, r.types, a)
    BY <1>4, <1>6
  <2>2. \A a \in r.attrs :
          \/ a \in applied \cup refused
          \/ \E k \in DOMAIN r.regs : Writes!is_proxy(r.regs[k]) /\ Writes!covers_attr(r.regs[k], a)
    BY <1>5, <1>6
  <2>. QED
    BY <1>1, <1>6, <2>1, <2>2, AttrsWroteTurns
<1>. QED
  BY <1>6, <1>7 DEF Moves, Writes!AttrsWrote, WriteInv, WriteTyped

LEMMA SingleAttrMoves ==
    ASSUME WellAsked, WriteInv, NEW q \in Reqs, Writes!single_attr_local(q)
    PROVE  Moves(q)
<1>. DEFINE r == req[q]
            all == Writes!proxies_cover_all(r.regs, r.attrs)
            found == row # Absent /\ r.attrs \subseteq row
            rest == IF r.op = "deleteAttrs" /\ found THEN row \ r.attrs ELSE row
<1>1. /\ r \in Asked /\ InOrder(r) /\ r.pc = "write" /\ r.op \in Writes!AttrLevel
      /\ r.op \in Writes!SingleOps /\ docs \in Catalogue /\ row \in Writes!Rowset
  BY DEF WriteInv, WriteTyped, Writes!single_attr_local, Writes!AttrLevel
<1>2. \/ all /\ Writes!AttrsWrote(q, "skipped", {}, {}, row)
      \/ ~all /\ Writes!AttrsWrote(q, "missing", {}, r.attrs, row)
      \/ ~all /\ Writes!AttrsWrote(q, "ok", r.attrs, {}, rest)
  <2>1. PICK past \in IF r.op = "deleteAttrs" THEN BOOLEAN ELSE {FALSE} :
          /\ all => Writes!AttrsWrote(q, "skipped", {}, {}, row)
          /\ ~all /\ ~found /\ ~past => Writes!AttrsWrote(q, "missing", {}, r.attrs, row)
          /\ ~all /\ ~(~found /\ ~past) => Writes!AttrsWrote(q, "ok", r.attrs, {}, rest)
    BY DEF Writes!single_attr_local
  <2>. HIDE DEF all, found, rest
  <2>. QED
    BY <2>1
<1>3. r.attrs \in SUBSET Attrs /\ rest \in Writes!Rowset
  BY <1>1 DEF Asked, Writes!Rowset
<1>4. ~all /\ ~r.local /\ r.via = <<>> =>
        \A a \in r.attrs : \A k \in DOMAIN docs : ~Writes!ProxyFor(k, r.types, a)
  BY <1>1, OursToWrite
<1>5. all => \A a \in r.attrs : \E k \in DOMAIN r.regs :
                Writes!is_proxy(r.regs[k]) /\ Writes!covers_attr(r.regs[k], a)
  BY DEF Writes!proxies_cover_all
<1>. HIDE DEF all, found, rest
<1>6. PICK outcome \in {"skipped", "missing", "ok"}, applied \in SUBSET Attrs,
           refused \in SUBSET Attrs, to \in Writes!Rowset :
        /\ Writes!AttrsWrote(q, outcome, applied, refused, to)
        /\ \/ all /\ applied = {}
           \/ ~all /\ applied \subseteq r.attrs /\ applied \cup refused = r.attrs
  BY <1>1, <1>2, <1>3
<1>7. Turned(q)
  <2>1. ~r.local /\ r.via = <<>> =>
          \A a \in applied : \A k \in DOMAIN docs : ~Writes!ProxyFor(k, r.types, a)
    BY <1>4, <1>6
  <2>2. \A a \in r.attrs :
          \/ a \in applied \cup refused
          \/ \E k \in DOMAIN r.regs : Writes!is_proxy(r.regs[k]) /\ Writes!covers_attr(r.regs[k], a)
    BY <1>5, <1>6
  <2>. QED
    BY <1>1, <1>6, <2>1, <2>2, AttrsWroteTurns
<1>. QED
  BY <1>6, <1>7 DEF Moves, Writes!AttrsWrote, WriteInv, WriteTyped

\* What a source answers.
Replied(a, S) ==
    /\ a.held \in Writes!Rowset /\ a.applied \in SUBSET Attrs
    /\ a.status \in Writes!Statuses /\ a.status # "skipped"
    /\ a.status = "ok" => S \subseteq a.applied

LEMMA AnswerShape ==
    ASSUME WellAsked, NEW op, NEW S \in SUBSET Attrs, NEW over, NEW h \in Writes!Rowset,
           NEW a \in Writes!Answers(op, S, over, h)
    PROVE  Replied(a, S)
<1>. DEFINE B == Writes!Taken(op, S, over, h)
            status == IF B = S THEN "ok" ELSE "partial"
            miss == IF op = "createEntity" THEN "exists" ELSE "missing"
<1>1. \/ \E f \in PeerFaults \ {"partial"} : a = Writes!Reply(f, {}, h)
      \/ a = Writes!Reply(miss, {}, h)
      \/ /\ Writes!Fits(op, S, h)
         /\ \/ a = Writes!Reply(status, B, Writes!Applied(op, B, h))
            \/ a = Writes!Reply("timeout", B, Writes!Applied(op, B, h))
            \/ \E C \in SUBSET B : a = Writes!Reply("partial", C, Writes!Applied(op, C, h))
  <2>. DEFINE V == IF "partial" \in PeerFaults /\ op \in Writes!Divisible
                   THEN (SUBSET B) \ {{}, B} ELSE {}
  <2>1. CASE ~Writes!Fits(op, S, h)
    <3>. HIDE DEF B
    <3>. QED
      BY <2>1 DEF Writes!Answers
  <2>2. CASE Writes!Fits(op, S, h)
    <3>1. a \in {Writes!Reply(f, {}, h) : f \in PeerFaults \ {"partial"}} \cup
               ({Writes!Reply(status, B, Writes!Applied(op, B, h))} \cup
               {Writes!Reply("timeout", B, Writes!Applied(op, B, h)) :
                  f \in PeerFaults \cap {"timeout"}} \cup
               {Writes!Reply("partial", C, Writes!Applied(op, C, h)) : C \in V})
      BY <2>2 DEF Writes!Answers
    <3>2. V \subseteq SUBSET B
      OBVIOUS
    <3>. HIDE DEF B, V, status, miss
    <3>. QED
      BY <2>2, <3>1, <3>2
  <2>. QED
    BY <2>1, <2>2
<1>2. B \subseteq S /\ (B # S => status = "partial") /\ (status = "ok" => B = S)
      /\ status \in {"ok", "partial"} /\ miss \in {"exists", "missing"}
  BY DEF Writes!Taken
<1>3. ASSUME NEW C \in SUBSET Attrs, Writes!Fits(op, S, h)
      PROVE  Writes!Applied(op, C, h) \in Writes!Rowset
  <2>1. op # "createEntity" => h \in SUBSET Attrs
    BY <1>3 DEF Writes!Fits, Writes!Rowset
  <2>2. op # "createEntity" => h \ C \in SUBSET Attrs /\ h \cup C \in SUBSET Attrs
    BY <2>1
  <2>3. Writes!Applied(op, C, h) \in {C, Absent, h \ C, h \cup C}
        /\ (op = "createEntity" => Writes!Applied(op, C, h) = C)
    BY DEF Writes!Applied
  <2>. QED
    BY <2>2, <2>3 DEF Writes!Rowset
<1>. HIDE DEF B, status, miss
<1>4. /\ {"ok", "partial", "timeout", "exists", "missing"} \subseteq Writes!Statuses
      /\ \A f \in PeerFaults : f \in Writes!Statuses /\ f # "skipped" /\ f # "ok"
  BY DEF WellAsked, Writes!Statuses, Writes!Failures
<1>5. CASE \E f \in PeerFaults \ {"partial"} : a = Writes!Reply(f, {}, h)
  BY <1>4, <1>5 DEF Replied, Writes!Reply
<1>6. CASE a = Writes!Reply(miss, {}, h)
  BY <1>2, <1>4, <1>6 DEF Replied, Writes!Reply
<1>7. ASSUME NEW s \in {status, "timeout", "partial"}, NEW C \in SUBSET B, C = B \/ s = "partial",
             Writes!Fits(op, S, h), a = Writes!Reply(s, C, Writes!Applied(op, C, h))
      PROVE  Replied(a, S)
  <2>1. C \in SUBSET Attrs /\ Writes!Applied(op, C, h) \in Writes!Rowset
    BY <1>2, <1>3, <1>7
  <2>2. s \in {"ok", "timeout", "partial"} /\ (s = "ok" => C = S)
    BY <1>2, <1>7
  <2>. QED
    BY <1>4, <1>7, <2>1, <2>2 DEF Replied, Writes!Reply
<1>. QED
  BY <1>1, <1>5, <1>6, <1>7

\* Request q appends a part, of a source or a registration it does not ask.
LEMMA PartTurns ==
    ASSUME WriteInv, NEW q \in Reqs, req[q].pc = "forward",
           req[q].next \in DOMAIN req[q].regs, NEW p \in Shares,
           req' = [req EXCEPT ![q].next = @ + 1, ![q].parts = Append(@, p)],
           req[q].op \in Writes!EntityLevel => p.status # "skipped",
           p.status = "ok" => req[q].attrs \subseteq p.applied \/ req[q].op \in Writes!EntityLevel,
           Writes!is_proxy(req[q].regs[req[q].next]) => p.status # "skipped"
    PROVE  Turned(q)
<1>. DEFINE r == req[q]
            parts == Append(r.parts, p)
            next == r.next + 1
            s == [r EXCEPT !.next = next, !.parts = parts]
<1>1. r \in Asked /\ InOrder(r) /\ req \in [Reqs -> Asked]
  BY DEF WriteInv, WriteTyped
<1>2. req' = [req EXCEPT ![q] = s]
  BY <1>1 DEF Asked
<1>3. /\ r.parts \in Seq(Shares) /\ parts \in Seq(Shares) /\ next \in Nat
      /\ r.regs \in Seq(Compiled) /\ Len(r.parts) \in Nat /\ Len(parts) = Len(r.parts) + 1
      /\ \A k \in 1..Len(r.parts) : parts[k] = r.parts[k]
      /\ parts[Len(r.parts) + 1] = p
  BY <1>1 DEF Asked
<1>. HIDE DEF parts
<1>4. s \in Asked
  BY <1>1, <1>3 DEF Asked
<1>5. /\ s.pc = "forward" /\ s.op = r.op /\ s.attrs = r.attrs /\ s.via = r.via
      /\ s.local = r.local /\ s.types = r.types /\ s.wrote = r.wrote /\ s.updated = r.updated
      /\ s.refused = r.refused /\ s.regs = r.regs /\ s.parts = parts /\ s.next = next
  BY <1>1 DEF Asked
<1>. HIDE DEF s
<1>6. Planned(s)
  BY <1>1, <1>5 DEF InOrder, Planned
<1>7. StaysOut(s)
  BY <1>1, <1>5 DEF InOrder, StaysOut
<1>8. ASSUME s.op \in Writes!EntityLevel
      PROVE  \A k \in 1..Len(s.parts) : s.parts[k].status # "skipped"
  <2>1. \A k \in 1..Len(r.parts) : r.parts[k].status # "skipped"
    BY <1>1, <1>5, <1>8 DEF InOrder, Accounting
  <2>2. p.status # "skipped"
    BY <1>5, <1>8
  <2>3. \A k \in 1..Len(parts) : parts[k].status # "skipped"
    <3>1. \A k \in 1..Len(parts) : k \in 1..Len(r.parts) \/ k = Len(r.parts) + 1
      BY <1>3
    <3>. QED
      BY <1>3, <2>1, <2>2, <3>1
  <2>. QED
    BY <1>5, <2>3
<1>9. ASSUME s.op \in Writes!AttrLevel
      PROVE  /\ s.next = Len(s.parts) + 1 /\ Len(s.parts) <= Len(s.regs)
             /\ \A k \in 1..Len(s.parts) :
                  /\ Writes!ok(s.parts[k]) => s.attrs \subseteq s.parts[k].applied
                  /\ Writes!is_proxy(s.regs[k]) => s.parts[k].status # "skipped"
             /\ s.updated \subseteq s.wrote
             /\ \A a \in s.attrs :
                  \/ a \in s.updated \cup s.refused
                  \/ \E k \in 1..Len(s.regs) :
                       Writes!is_proxy(s.regs[k]) /\ Writes!covers_attr(s.regs[k], a)
  <2>1. /\ r.next = Len(r.parts) + 1 /\ Len(r.parts) <= Len(r.regs)
        /\ \A k \in 1..Len(r.parts) :
             /\ Writes!ok(r.parts[k]) => r.attrs \subseteq r.parts[k].applied
             /\ Writes!is_proxy(r.regs[k]) => r.parts[k].status # "skipped"
        /\ r.updated \subseteq r.wrote
        /\ \A a \in r.attrs :
             \/ a \in r.updated \cup r.refused
             \/ \E k \in 1..Len(r.regs) :
                  Writes!is_proxy(r.regs[k]) /\ Writes!covers_attr(r.regs[k], a)
    BY <1>1, <1>5, <1>9 DEF InOrder, Accounting
  <2>2. Len(r.parts) + 1 <= Len(r.regs) /\ Len(r.regs) \in Nat
    BY <1>3, <2>1
  <2>3. ASSUME NEW k \in 1..Len(parts)
        PROVE  /\ Writes!ok(parts[k]) => r.attrs \subseteq parts[k].applied
               /\ Writes!is_proxy(r.regs[k]) => parts[k].status # "skipped"
    <3>1. CASE k \in 1..Len(r.parts)
      BY <1>3, <2>1, <3>1
    <3>2. CASE k = r.next
      <4>1. r.op \notin Writes!EntityLevel
        BY <1>5, <1>9 DEF Writes!EntityLevel, Writes!AttrLevel, Writes!FragmentOps, Writes!SingleOps
      <4>2. parts[k] = p
        BY <1>3, <2>1, <3>2
      <4>3. Writes!is_proxy(r.regs[k]) => p.status # "skipped"
        BY <3>2, Zenon
      <4>4. p.status = "ok" => r.attrs \subseteq p.applied
        BY <4>1
      <4>. QED
        BY <4>2, <4>3, <4>4 DEF Writes!ok
    <3>3. k \in 1..Len(r.parts) \/ k = r.next
      BY <1>3, <2>1
    <3>. QED
      BY <3>1, <3>2, <3>3, Zenon
  <2>. QED
    BY <1>3, <1>5, <2>1, <2>2, <2>3
<1>10. Accounting(s)
  BY <1>8, <1>9 DEF Accounting
<1>11. InOrder(s)
  BY <1>5, <1>6, <1>7, <1>10 DEF InOrder, Unwritten, Answered
<1>. QED
  BY <1>2, <1>4, <1>11 DEF Turned, s

\* A registration left out of an entity operation leaves no part.
LEMMA LeftOutTurns ==
    ASSUME WriteInv, NEW q \in Reqs, req[q].pc = "forward",
           req[q].op \in Writes!EntityLevel, Writes!Skip(q, <<>>)
    PROVE  Turned(q)
<1>. DEFINE r == req[q]
            next == r.next + 1
            s == [r EXCEPT !.next = next]
<1>1. r \in Asked /\ InOrder(r) /\ req \in [Reqs -> Asked]
  BY DEF WriteInv, WriteTyped
<1>2. req' = [req EXCEPT ![q] = s]
  <2>1. r.parts \o <<>> = r.parts
    BY <1>1 DEF Asked
  <2>2. req' = [req EXCEPT ![q] = [r EXCEPT !.next = next, !.parts = r.parts \o <<>>]]
    BY <1>1 DEF Writes!Skip
  <2>3. [r EXCEPT !.next = next, !.parts = r.parts] = s
    BY <1>1 DEF Asked
  <2>. QED
    BY <2>1, <2>2, <2>3
<1>3. s \in Asked
  <2>1. next \in Nat
    BY <1>1 DEF Asked
  <2>. HIDE DEF next
  <2>. QED
    BY <1>1, <2>1 DEF Asked
<1>4. /\ s.pc = "forward" /\ s.op = r.op /\ s.attrs = r.attrs /\ s.via = r.via
      /\ s.local = r.local /\ s.types = r.types /\ s.wrote = r.wrote /\ s.parts = r.parts
  BY <1>1 DEF Asked
<1>. HIDE DEF s
<1>5. Planned(s)
  BY <1>1, <1>4 DEF InOrder, Planned
<1>6. StaysOut(s)
  BY <1>1, <1>4 DEF InOrder, StaysOut
<1>7. s.op \notin Writes!AttrLevel
  BY <1>4 DEF Writes!EntityLevel, Writes!AttrLevel, Writes!FragmentOps, Writes!SingleOps
<1>8. Accounting(s)
  BY <1>1, <1>4, <1>7 DEF InOrder, Accounting
<1>9. InOrder(s)
  BY <1>4, <1>5, <1>6, <1>8 DEF InOrder, Unwritten, Answered
<1>. QED
  BY <1>2, <1>3, <1>9 DEF Turned, s

\* A source is asked with the attributes S, and answers.
LEMMA ForwardMoves ==
    ASSUME WellAsked, WriteInv, NEW q \in Reqs, NEW S \in SUBSET Attrs, NEW ops,
           Writes!Turn(q, ops), Writes!forward_part(q, S),
           req[q].attrs \subseteq S \/ req[q].op \in Writes!EntityLevel
    PROVE  Moves(q)
<1>. DEFINE r == req[q]
            g == r.regs[r.next]
<1>1. /\ r \in Asked /\ r.pc = "forward" /\ r.next \in DOMAIN r.regs
      /\ held \in [Sources -> Writes!Rowset] /\ row \in Writes!Rowset
      /\ docs' = docs /\ row' = row
  BY DEF Writes!Turn, WriteInv, WriteTyped
<1>2. PICK a \in Writes!Answers(r.op, S, r.over, held[g.src]) :
        /\ held' = [held EXCEPT ![g.src] = a.held]
        /\ req' = [req EXCEPT ![q].next = @ + 1,
                              ![q].parts = Append(@, Writes!Part(r.next, S, a.applied,
                                                       Writes!proxied_status(g, a.status)))]
  BY DEF Writes!forward_part
<1>3. g \in Compiled /\ g.src \in Sources /\ r.next \in Nat
  <2>1. g \in Compiled /\ r.next \in Nat
    BY <1>1 DEF Asked
  <2>2. PICK d \in AllDocs, D \in SUBSET AllInfos : g = Writes!Compile(d, D)
    BY <2>1 DEF Compiled
  <2>3. g.src = d.src
    BY <2>2 DEF Writes!Compile
  <2>4. d.src \in Sources
    BY DEF AllDocs, WellAsked
  <2>. QED
    BY <2>1, <2>3, <2>4
<1>. HIDE DEF g
<1>4. Replied(a, S)
  <2>1. held[g.src] \in Writes!Rowset
    BY <1>1, <1>3
  <2>. QED
    BY <1>2, <2>1, AnswerShape
<1>. DEFINE status == Writes!proxied_status(g, a.status)
            p == Writes!Part(r.next, S, a.applied, status)
<1>5. /\ status \in Writes!Statuses /\ status # "skipped"
      /\ status = "ok" => S \subseteq a.applied
  BY <1>4 DEF Replied, Writes!proxied_status, Writes!Statuses, Writes!Failures
<1>. HIDE DEF status
<1>6. p \in Shares /\ p.status = status /\ p.applied = a.applied
  BY <1>3, <1>4, <1>5 DEF Replied, Shares, Writes!Part
<1>7. req' = [req EXCEPT ![q].next = @ + 1, ![q].parts = Append(@, p)]
  BY <1>2 DEF status
<1>. HIDE DEF p
<1>8. Turned(q)
  BY <1>1, <1>5, <1>6, <1>7, PartTurns
<1>9. held' \in [Sources -> Writes!Rowset]
  BY <1>1, <1>2, <1>3, <1>4 DEF Replied
<1>. QED
  BY <1>1, <1>8, <1>9 DEF Moves

\* A registration that holds on to the operation without supporting it, or is
\* passed over.
LEMMA PassedOverMoves ==
    ASSUME WriteInv, NEW q \in Reqs, NEW ops, Writes!Turn(q, ops),
           \/ Writes!conflict_part(q)
           \/ /\ Writes!Skip(q, <<>>) /\ req[q].op \in Writes!EntityLevel
           \/ /\ Writes!Skip(q, <<Writes!Part(req[q].next, {}, {}, "skipped")>>)
              /\ ~Writes!is_proxy(req[q].regs[req[q].next])
              /\ req[q].op \notin Writes!EntityLevel
    PROVE  Moves(q)
<1>. DEFINE r == req[q]
<1>1. /\ r \in Asked /\ r.pc = "forward" /\ r.next \in DOMAIN r.regs /\ r.next \in Nat
      /\ held \in [Sources -> Writes!Rowset] /\ row \in Writes!Rowset
      /\ docs' = docs /\ row' = row /\ held' = held
  BY DEF Writes!Turn, WriteInv, WriteTyped, Asked, Writes!conflict_part, Writes!Skip
<1>2. ASSUME NEW s \in {"conflict", "skipped"},
             req' = [req EXCEPT ![q].next = @ + 1,
                                ![q].parts = Append(@, Writes!Part(r.next, {}, {}, s))],
             s = "skipped" => ~Writes!is_proxy(r.regs[r.next]) /\ r.op \notin Writes!EntityLevel
      PROVE  Turned(q)
  <2>. DEFINE p == Writes!Part(r.next, {}, {}, s)
  <2>1. p \in Shares /\ p.status = s
    BY <1>1 DEF Shares, Writes!Part, Writes!Statuses, Writes!Failures
  <2>2. req' = [req EXCEPT ![q].next = @ + 1, ![q].parts = Append(@, p)]
    BY <1>2
  <2>. HIDE DEF p
  <2>3. /\ r.op \in Writes!EntityLevel => p.status # "skipped"
        /\ p.status # "ok"
        /\ Writes!is_proxy(r.regs[r.next]) => p.status # "skipped"
    BY <1>2, <2>1
  <2>. QED
    BY <1>1, <2>1, <2>2, <2>3, PartTurns
<1>3. ASSUME Writes!conflict_part(q)
      PROVE  Turned(q)
  BY <1>2, <1>3 DEF Writes!conflict_part
<1>4. ASSUME Writes!Skip(q, <<Writes!Part(r.next, {}, {}, "skipped")>>),
             ~Writes!is_proxy(r.regs[r.next]), r.op \notin Writes!EntityLevel
      PROVE  Turned(q)
  <2>. DEFINE p == Writes!Part(r.next, {}, {}, "skipped")
  <2>1. r.parts \o <<p>> = Append(r.parts, p)
    BY <1>1 DEF Asked
  <2>2. req' = [req EXCEPT ![q].next = @ + 1, ![q].parts = Append(@, p)]
    <3>. HIDE DEF p
    <3>. QED
      BY <1>4, <2>1 DEF Writes!Skip, p
  <2>. QED
    BY <1>2, <1>4, <2>2
<1>5. Turned(q)
  BY <1>1, <1>3, <1>4, LeftOutTurns
<1>. QED
  BY <1>1, <1>5 DEF Moves

LEMMA ForwardEntityMoves ==
    ASSUME WellAsked, WriteInv, NEW q \in Reqs, Writes!ForwardEntity(q)
    PROVE  Moves(q)
<1>. DEFINE r == req[q]
            g == r.regs[r.next]
            whole == r.op = "deleteEntity"
            share == IF whole THEN {} ELSE Writes!reduce_to_scope(g, r.attrs)
<1>1. r.op \in Writes!EntityLevel /\ Writes!Turn(q, Writes!EntityLevel)
      /\ r.attrs \in SUBSET Attrs
  BY DEF Writes!ForwardEntity, Writes!Turn, WriteInv, WriteTyped, Asked
<1>2. share \in SUBSET Attrs
  BY <1>1 DEF Writes!reduce_to_scope
<1>3. \/ Writes!conflict_part(q) \/ Writes!Skip(q, <<>>) \/ Writes!forward_part(q, share)
  BY DEF Writes!ForwardEntity
<1>. HIDE DEF share
<1>. QED
  BY <1>1, <1>2, <1>3, ForwardMoves, PassedOverMoves

LEMMA FedAttrPartsMoves ==
    ASSUME WellAsked, WriteInv, NEW q \in Reqs, Writes!fed_attr_parts(q)
    PROVE  Moves(q)
<1>. DEFINE r == req[q]
            g == r.regs[r.next]
<1>1. r.op \in Writes!AttrLevel /\ Writes!Turn(q, Writes!AttrLevel)
      /\ r.attrs \in SUBSET Attrs
  BY DEF Writes!fed_attr_parts, Writes!Turn, WriteInv, WriteTyped, Asked
<1>2. r.op \notin Writes!EntityLevel
  BY <1>1 DEF Writes!EntityLevel, Writes!AttrLevel, Writes!FragmentOps, Writes!SingleOps
<1>3. \/ Writes!conflict_part(q)
      \/ ~Writes!is_proxy(g) /\ Writes!Skip(q, <<Writes!Part(r.next, {}, {}, "skipped")>>)
      \/ Writes!forward_part(q, r.attrs)
  BY DEF Writes!fed_attr_parts
<1>. QED
  BY <1>1, <1>2, <1>3, ForwardMoves, PassedOverMoves

LEMMA SharesShape ==
    ASSUME NEW parts \in Seq(Shares)
    PROVE  /\ DOMAIN parts = 1..Len(parts)
           /\ \A k \in DOMAIN parts : parts[k].status \in Writes!Failures \cup {"ok", "skipped"}
<1>1. DOMAIN parts = 1..Len(parts) /\ \A k \in DOMAIN parts : parts[k] \in Shares
  OBVIOUS
<1>2. \A p \in Shares : p.status \in Writes!Failures \cup {"ok", "skipped"}
  BY DEF Shares, Writes!Statuses
<1>. QED
  BY <1>1, <1>2

\* The verdict over the parts is a status; a failure of an entity operation is
\* that of its only part.
LEMMA CombineShape ==
    ASSUME NEW parts \in Seq(Shares), \A k \in 1..Len(parts) : parts[k].status # "skipped"
    PROVE  /\ Writes!combine(parts) \in Writes!Failures \cup {"ok"}
           /\ Writes!combine(parts) \notin {"ok", "partial"} =>
                \A k \in DOMAIN parts : parts[k].status \notin {"ok", "partial"}
<1>1. /\ DOMAIN parts = 1..Len(parts)
      /\ \A k \in DOMAIN parts : parts[k].status \in Writes!Failures \cup {"ok"}
  BY SharesShape
<1>. DEFINE allOk == \A k \in DOMAIN parts : Writes!ok(parts[k])
            one == Len(parts) = 1 /\ ~Writes!ok(parts[1])
<1>2. /\ allOk /\ ~one => Writes!combine(parts) = "ok"
      /\ one /\ ~allOk => Writes!combine(parts) = parts[1].status
      /\ ~allOk /\ ~one => Writes!combine(parts) = "partial"
  BY DEF Writes!combine
<1>3. one => DOMAIN parts = {1}
  BY <1>1
<1>4. one => ~allOk /\ parts[1].status \in Writes!Failures \cup {"ok"}
  BY <1>1, <1>3
<1>5. "partial" \in Writes!Failures
  BY DEF Writes!Failures
<1>. HIDE DEF allOk
<1>. QED
  BY <1>2, <1>3, <1>4, <1>5

LEMMA CombineAttrShape ==
    ASSUME NEW r, r.parts \in Seq(Shares), Len(r.regs) = 1 => Len(r.parts) = 1,
           \A k \in 1..Len(r.parts) : Writes!is_proxy(r.regs[k]) => r.parts[k].status # "skipped"
    PROVE  Writes!combine_attr_parts(r) \in Writes!Failures \cup {"ok"}
<1>1. Writes!LoneProxyFailed(r) => r.parts[1].status \in Writes!Failures \cup {"ok"}
  <2>1. ASSUME Writes!LoneProxyFailed(r)
        PROVE  1 \in 1..Len(r.parts) /\ Writes!is_proxy(r.regs[1])
    BY <2>1 DEF Writes!LoneProxyFailed
  <2>. QED
    BY <2>1, SharesShape
<1>2. {"loop", "missing", "conflict", "partial"} \subseteq Writes!Failures
  BY DEF Writes!Failures
<1>3. Writes!combine_attr_parts(r) \in {"loop", "missing", "conflict", "ok", "partial"}
      \/ (Writes!LoneProxyFailed(r) /\ Writes!combine_attr_parts(r) = r.parts[1].status)
  BY DEF Writes!combine_attr_parts
<1>. QED
  BY <1>1, <1>2, <1>3

\* What the attributes of a request come to, once every registration had its
\* turn.
LEMMA AttrsAddUp ==
    ASSUME NEW r \in Asked, Accounting(r), r.pc = "forward", r.op \in Writes!AttrLevel,
           Len(r.parts) = Len(r.regs)
    PROVE  /\ Writes!combined_updated(r) \in SUBSET Attrs
           /\ Writes!combined_refused(r) \in SUBSET Attrs
           /\ r.attrs \subseteq Writes!combined_updated(r) \cup Writes!combined_refused(r)
           /\ Writes!combined_updated(r) \subseteq
                r.wrote \cup UNION {r.parts[k].applied : k \in DOMAIN r.parts}
<1>1. /\ r.attrs \in SUBSET Attrs /\ r.updated \in SUBSET Attrs /\ r.refused \in SUBSET Attrs
      /\ r.parts \in Seq(Shares) /\ DOMAIN r.parts = 1..Len(r.parts)
      /\ \A k \in DOMAIN r.parts : r.parts[k].status \in Writes!Failures \cup {"ok", "skipped"}
  <2>1. /\ r.attrs \in SUBSET Attrs /\ r.updated \in SUBSET Attrs /\ r.refused \in SUBSET Attrs
        /\ r.parts \in Seq(Shares)
    BY DEF Asked
  <2>. QED
    BY <2>1, SharesShape
<1>2. /\ \A k \in 1..Len(r.parts) :
           /\ Writes!ok(r.parts[k]) => r.attrs \subseteq r.parts[k].applied
           /\ Writes!is_proxy(r.regs[k]) => r.parts[k].status # "skipped"
      /\ r.updated \subseteq r.wrote
      /\ \A a \in r.attrs :
           \/ a \in r.updated \cup r.refused
           \/ \E k \in 1..Len(r.regs) :
                Writes!is_proxy(r.regs[k]) /\ Writes!covers_attr(r.regs[k], a)
  BY DEF Accounting
<1>3. \A k : Writes!Covered(r, k) \subseteq r.attrs
  BY DEF Writes!Covered
<1>4. Writes!combined_updated(r) \in SUBSET Attrs /\ Writes!combined_refused(r) \in SUBSET Attrs
  BY <1>1, <1>3 DEF Writes!combined_updated, Writes!combined_refused
<1>5. ASSUME NEW a \in r.attrs
      PROVE  a \in Writes!combined_updated(r) \cup Writes!combined_refused(r)
  <2>1. CASE a \in r.updated \cup r.refused
    BY <2>1 DEF Writes!combined_updated, Writes!combined_refused
  <2>2. ASSUME NEW k \in 1..Len(r.regs),
               Writes!is_proxy(r.regs[k]), Writes!covers_attr(r.regs[k], a)
        PROVE  a \in Writes!combined_updated(r) \cup Writes!combined_refused(r)
    <3>1. k \in DOMAIN r.parts /\ a \in Writes!Covered(r, k)
      BY <1>1, <2>2 DEF Writes!Covered
    <3>2. Writes!ok(r.parts[k]) \/ r.parts[k].status \in Writes!Failures
      BY <1>1, <1>2, <2>2, <3>1 DEF Writes!ok
    <3>. QED
      BY <3>1, <3>2 DEF Writes!combined_updated, Writes!combined_refused
  <2>. QED
    BY <1>2, <2>1, <2>2
<1>6. ASSUME NEW a \in Writes!combined_updated(r), a \notin r.updated
      PROVE  \E k \in DOMAIN r.parts : a \in r.parts[k].applied
  <2>1. PICK k \in DOMAIN r.parts : Writes!ok(r.parts[k]) /\ a \in Writes!Covered(r, k)
    BY <1>6 DEF Writes!combined_updated
  <2>. QED
    BY <1>1, <1>2, <1>3, <2>1
<1>. QED
  BY <1>2, <1>4, <1>5, <1>6

LEMMA AnswerMoves ==
    ASSUME WellAsked, WriteInv, NEW q \in Reqs, Writes!Answer(q)
    PROVE  Moves(q)
<1>. DEFINE r == req[q]
            verdict == CASE r.op \in Writes!EntityLevel -> Writes!combine(r.parts)
                         [] r.op \in Writes!AttrLevel /\ r.regs # <<>> -> Writes!combine_attr_parts(r)
                         [] r.op \in Writes!AttrLevel /\ r.regs = <<>> /\ r.outcome = "missing"
                              -> "missing"
                         [] OTHER -> IF r.refused = {} THEN "ok" ELSE "partial"
            updated == IF r.op \in Writes!AttrLevel THEN Writes!combined_updated(r) ELSE r.updated
            refused == IF r.op \in Writes!AttrLevel THEN Writes!combined_refused(r) ELSE r.refused
            s == [r EXCEPT !.pc = "done", !.answer = verdict, !.updated = updated,
                           !.refused = refused]
<1>1. /\ r \in Asked /\ InOrder(r) /\ r.pc = "forward" /\ r.next \notin DOMAIN r.regs
      /\ r.parts \in Seq(Shares) /\ r.regs \in Seq(Compiled) /\ req \in [Reqs -> Asked]
      /\ docs' = docs /\ row' \in Writes!Rowset /\ held' \in [Sources -> Writes!Rowset]
  BY DEF Writes!Answer, WriteInv, WriteTyped, Asked
<1>2. req' = [req EXCEPT ![q] = s]
  <2>1. req' = [req EXCEPT ![q].pc = "done", ![q].answer = verdict,
                           ![q].updated = IF r.op \in Writes!AttrLevel
                                          THEN Writes!combined_updated(r) ELSE @,
                           ![q].refused = IF r.op \in Writes!AttrLevel
                                          THEN Writes!combined_refused(r) ELSE @]
    BY DEF Writes!Answer
  <2>. HIDE DEF verdict
  <2>. QED
    BY <1>1, <2>1 DEF Asked
<1>3. r.op \in Writes!EntityLevel \/ r.op \in Writes!AttrLevel
  BY <1>1 DEF Asked, InOrder, Planned
<1>4. ~(r.op \in Writes!EntityLevel /\ r.op \in Writes!AttrLevel)
  BY DEF Writes!EntityLevel, Writes!AttrLevel, Writes!FragmentOps, Writes!SingleOps
<1>5. ASSUME r.op \in Writes!EntityLevel
      PROVE  /\ verdict \in Writes!Failures \cup {"ok"}
             /\ updated \in SUBSET Attrs /\ refused \in SUBSET Attrs
             /\ verdict \notin {"ok", "partial"} =>
                  \A k \in DOMAIN r.parts : r.parts[k].status \notin {"ok", "partial"}
  <2>1. verdict = Writes!combine(r.parts)
    BY <1>4, <1>5
  <2>2. \A k \in 1..Len(r.parts) : r.parts[k].status # "skipped"
    BY <1>1, <1>5 DEF InOrder, Accounting
  <2>3. updated = r.updated /\ refused = r.refused
    BY <1>4, <1>5
  <2>. HIDE DEF verdict, updated, refused
  <2>. QED
    BY <1>1, <2>1, <2>2, <2>3, CombineShape DEF Asked
<1>6. ASSUME r.op \in Writes!AttrLevel
      PROVE  /\ verdict \in Writes!Failures \cup {"ok"}
             /\ updated \in SUBSET Attrs /\ refused \in SUBSET Attrs
             /\ r.attrs \subseteq updated \cup refused
             /\ updated \subseteq r.wrote \cup UNION {r.parts[k].applied : k \in DOMAIN r.parts}
  <2>1. Accounting(r)
    BY <1>1 DEF InOrder
  <2>2. Len(r.parts) = Len(r.regs)
    BY <1>1, <1>6, <2>1 DEF Accounting
  <2>3. updated = Writes!combined_updated(r) /\ refused = Writes!combined_refused(r)
    BY <1>6
  <2>4. verdict \in Writes!Failures \cup {"ok"}
    <3>1. verdict = Writes!combine_attr_parts(r) \/ verdict \in {"missing", "ok", "partial"}
      BY <1>4, <1>6
    <3>2. Writes!combine_attr_parts(r) \in Writes!Failures \cup {"ok"}
      <4>1. \A k \in 1..Len(r.parts) : Writes!is_proxy(r.regs[k]) => r.parts[k].status # "skipped"
        BY <1>1, <1>6, <2>1 DEF Accounting
      <4>. QED
        BY <1>1, <2>2, <4>1, CombineAttrShape
    <3>3. {"missing", "partial"} \subseteq Writes!Failures
      BY DEF Writes!Failures
    <3>. HIDE DEF verdict
    <3>. QED
      BY <3>1, <3>2, <3>3
  <2>. HIDE DEF verdict, updated, refused
  <2>. QED
    BY <1>1, <1>6, <2>1, <2>2, <2>3, <2>4, AttrsAddUp
<1>. HIDE DEF verdict, updated, refused
<1>7. s \in Asked
  BY <1>1, <1>3, <1>5, <1>6 DEF Asked
<1>8. /\ s.pc = "done" /\ s.op = r.op /\ s.attrs = r.attrs /\ s.via = r.via
      /\ s.local = r.local /\ s.types = r.types /\ s.wrote = r.wrote /\ s.parts = r.parts
      /\ s.updated = updated /\ s.refused = refused /\ s.answer = verdict
  BY <1>1 DEF Asked
<1>. HIDE DEF s
<1>9. Planned(s)
  BY <1>1, <1>8 DEF InOrder, Planned
<1>10. StaysOut(s)
  BY <1>1, <1>8 DEF InOrder, StaysOut
<1>11. Answered(s)
  BY <1>5, <1>6, <1>8 DEF Answered
<1>12. InOrder(s)
  BY <1>8, <1>9, <1>10, <1>11 DEF InOrder, Unwritten, Accounting
<1>13. Turned(q)
  BY <1>2, <1>7, <1>12 DEF Turned, s
<1>. QED
  BY <1>1, <1>13 DEF Moves

LEMMA WriteInitInv ==
    ASSUME WellAsked, Writes!Init
    PROVE  WriteInv
<1>1. Writes!NoReq \in Asked
  BY DEF Writes!NoReq, Asked
<1>2. InOrder(Writes!NoReq)
  <2>1. /\ Writes!NoReq.pc = "idle" /\ Writes!NoReq.wrote = {} /\ Writes!NoReq.parts = <<>>
        /\ Writes!NoReq.updated = {} /\ Writes!NoReq.refused = {}
        /\ Writes!NoReq.outcome = "skipped" /\ Writes!NoReq.next = 1
        /\ Writes!NoReq.op = "none"
    BY DEF Writes!NoReq
  <2>. QED
    BY <2>1 DEF InOrder, Unwritten, Planned, StaysOut, Accounting, Answered, Writes!SingleOps
<1>3. \A q \in Reqs : req[q] = Writes!NoReq
  BY DEF Writes!Init
<1>4. WriteTyped
  BY <1>1 DEF WellAsked, Writes!Init, WriteTyped, Writes!Rowset
<1>. QED
  BY <1>2, <1>3, <1>4 DEF WriteInv

LEMMA WriteStep ==
    ASSUME WellAsked, WriteInv, [Writes!Next]_Writes!vars
    PROVE  WriteInv'
<1>1. row \in Writes!Rowset /\ held \in [Sources -> Writes!Rowset]
  BY DEF WriteInv, WriteTyped
<1>2. ASSUME NEW q \in Reqs, Turned(q), UNCHANGED <<docs, row, held>>
      PROVE  Moves(q)
  BY <1>1, <1>2 DEF Moves
<1>3. ASSUME NEW q \in Reqs,
             \/ Writes!Receive(q) \/ Writes!write_plan(q) \/ Writes!Look(q)
             \/ Writes!create_entity_inner(q) \/ Writes!delete_entity(q)
             \/ Writes!merge_entity_inner(q) \/ Writes!replace_entity(q)
             \/ Writes!write_attrs(q) \/ Writes!single_attr_local(q)
             \/ Writes!ForwardEntity(q) \/ Writes!fed_attr_parts(q) \/ Writes!Answer(q)
      PROVE  WriteInv'
  <2>1. ASSUME Writes!Receive(q)
        PROVE  Moves(q)
    BY <1>2, <2>1, ReceiveTurns DEF Writes!Receive
  <2>2. ASSUME Writes!write_plan(q)
        PROVE  Moves(q)
    BY <1>2, <2>2, PlanTurns DEF Writes!write_plan
  <2>3. ASSUME Writes!Look(q)
        PROVE  Moves(q)
    BY <1>2, <2>3, LookTurns DEF Writes!Look
  <2>4. Moves(q)
    BY <1>3, <2>1, <2>2, <2>3, CreateMoves, DeleteMoves, MergeMoves, ReplaceMoves,
       WriteAttrsMoves, SingleAttrMoves, ForwardEntityMoves, FedAttrPartsMoves, AnswerMoves
  <2>. QED
    BY <2>4, TurnKeeps DEF Moves
<1>4. ASSUME UNCHANGED Writes!vars
      PROVE  WriteInv'
  <2>1. docs' = docs /\ row' = row /\ held' = held /\ req' = req
    BY <1>4 DEF Writes!vars
  <2>2. WriteTyped'
    BY <2>1 DEF WriteInv, WriteTyped, Writes!Rowset
  <2>3. ASSUME NEW q \in Reqs
        PROVE  InOrder(req[q])'
    <3>1. Turned(q)
      <4>1. req = [req EXCEPT ![q] = req[q]]
        BY DEF WriteInv, WriteTyped
      <4>. QED
        BY <2>1, <4>1 DEF Turned, WriteInv, WriteTyped
    <3>2. WriteInv'
      BY <1>1, <2>1, <3>1, TurnKeeps
    <3>. QED
      BY <3>2 DEF WriteInv
  <2>. QED
    BY <2>2, <2>3 DEF WriteInv
<1>. QED
  BY <1>3, <1>4 DEF Writes!Next

\* TypeOK of a distributed write (DistWrite): whatever requests run side by side,
\* whatever the registrations are and however the sources answer.
THEOREM WritesTyped ==
    ASSUME WellAsked
    PROVE  Writes!Spec => []Writes!TypeOK
<1>1. Writes!Init => WriteInv
  BY WriteInitInv
<1>2. WriteInv /\ [Writes!Next]_Writes!vars => WriteInv'
  BY WriteStep
<1>3. WriteInv => Writes!TypeOK
  <2>1. ASSUME NEW p \in Shares
        PROVE  p.status \in Writes!Statuses /\ p.applied \subseteq Attrs
    BY DEF Shares
  <2>2. ASSUME NEW r \in Asked
        PROVE  /\ r.pc \in {"idle", "plan", "look", "write", "forward", "done"}
               /\ r.op \in Writes!EntityLevel \cup Writes!AttrLevel \cup {"none"}
               /\ r.attrs \subseteq Attrs
               /\ r.updated \subseteq Attrs /\ r.refused \subseteq Attrs
               /\ r.answer \in Writes!Failures \cup {"ok", "none"}
               /\ \A k \in DOMAIN r.parts : r.parts[k] \in Shares
    BY DEF Asked
  <2>. QED
    BY <2>1, <2>2 DEF WriteInv, WriteTyped, Writes!TypeOK
<1>. QED
  BY <1>1, <1>2, <1>3, PTL DEF Writes!Spec

\* ProxiedStaysOut: what an exclusive or a redirect registration holds is never
\* stored here by a request that considers registrations, for every set of
\* registrations, requests and sources (strip_proxied, strip_covered_expanded,
\* proxies_cover_all, over what matching_regs and merge_same_source compile).
THEOREM ProxiedAttributesStayOut ==
    ASSUME WellAsked
    PROVE  Writes!Spec => []Writes!ProxiedStaysOut
<1>1. Writes!Init => WriteInv
  BY WriteInitInv
<1>2. WriteInv /\ [Writes!Next]_Writes!vars => WriteInv'
  BY WriteStep
<1>3. WriteInv => Writes!ProxiedStaysOut
  BY DEF WriteInv, InOrder, StaysOut, Writes!ProxiedStaysOut
<1>. QED
  BY <1>1, <1>2, <1>3, PTL DEF Writes!Spec

\* What a distributed write answers: an error to an entity operation means that
\* nothing is known to be written (combine), and a 204 or 207 to an attribute
\* operation accounts for every attribute of the request and lists as updated
\* only what was applied somewhere (combine_attr_parts).
THEOREM WritesAnsweredTruly ==
    ASSUME WellAsked
    PROVE  Writes!Spec => [](Writes!ErrorMeansNothingWritten /\ Writes!AttributesAccounted)
<1>1. Writes!Init => WriteInv
  BY WriteInitInv
<1>2. WriteInv /\ [Writes!Next]_Writes!vars => WriteInv'
  BY WriteStep
<1>3. WriteInv => Writes!ErrorMeansNothingWritten
  BY DEF WriteInv, InOrder, Answered, Writes!ErrorMeansNothingWritten, Writes!Done
<1>4. WriteInv => Writes!AttributesAccounted
  BY DEF WriteInv, InOrder, Answered, Writes!AttributesAccounted, Writes!Done, Writes!Acked
<1>. QED
  BY <1>1, <1>2, <1>3, <1>4, PTL DEF Writes!Spec

\* A write that finds the entity gone leaves it gone, unless it creates it.
LEMMA Revives ==
    ASSUME WellAsked, WriteInv, [Writes!Next]_Writes!vars, row = Absent, row' # Absent
    PROVE  \E q \in Reqs : Writes!At(q, "createEntity") /\ req'[q].pc = "forward"
<1>1. PICK q \in Reqs :
        \/ Writes!Receive(q) \/ Writes!write_plan(q) \/ Writes!Look(q)
        \/ Writes!create_entity_inner(q) \/ Writes!delete_entity(q)
        \/ Writes!merge_entity_inner(q) \/ Writes!replace_entity(q)
        \/ Writes!write_attrs(q) \/ Writes!single_attr_local(q)
        \/ Writes!ForwardEntity(q) \/ Writes!fed_attr_parts(q) \/ Writes!Answer(q)
  BY DEF Writes!Next, Writes!vars
<1>2. ~(Writes!Receive(q) \/ Writes!write_plan(q) \/ Writes!Look(q) \/ Writes!Answer(q))
  BY DEF Writes!Receive, Writes!write_plan, Writes!Look, Writes!Answer
<1>3. ~(Writes!ForwardEntity(q) \/ Writes!fed_attr_parts(q))
  BY DEF Writes!ForwardEntity, Writes!fed_attr_parts, Writes!Turn
<1>4. ~Writes!delete_entity(q)
  BY DEF Writes!delete_entity, Writes!Wrote
<1>5. ~Writes!merge_entity_inner(q)
  <2>. DEFINE r == req[q]
              rest == Writes!strip_proxied(r.regs, Entity, r.types, r.attrs)
              writes == \/ r.regs = <<>>
                        \/ (r.known \/ ~Writes!Proxied(r.regs)) /\ rest # {}
  <2>1. Writes!merge_entity_inner(q) =>
          /\ ~writes => Writes!Wrote(q, Writes!None, row)
          /\ writes => Writes!Wrote(q, Writes!Local({}, "missing"), row)
    BY DEF Writes!merge_entity_inner
  <2>. HIDE DEF writes
  <2>. QED
    BY <2>1 DEF Writes!Wrote
<1>6. ~Writes!replace_entity(q)
  <2>1. Writes!replace_entity(q) =>
          \/ Writes!Wrote(q, Writes!None, row)
          \/ Writes!Wrote(q, Writes!Local({}, "missing"), row)
    BY DEF Writes!replace_entity
  <2>. QED
    BY <2>1 DEF Writes!Wrote
<1>7. ~Writes!write_attrs(q)
  <2>. DEFINE r == req[q]
              all == Writes!proxies_cover_all(r.regs, r.attrs)
              frag == Writes!strip_covered_expanded(r.regs, r.attrs)
  <2>1. Writes!write_attrs(q) =>
          /\ all => Writes!AttrsWrote(q, "skipped", {}, {}, row)
          /\ ~all => Writes!AttrsWrote(q, "missing", {}, frag, row)
    BY DEF Writes!write_attrs
  <2>. HIDE DEF all, frag
  <2>. QED
    BY <2>1 DEF Writes!AttrsWrote
<1>8. ~Writes!single_attr_local(q)
  <2>. DEFINE r == req[q]
              all == Writes!proxies_cover_all(r.regs, r.attrs)
              found == row # Absent /\ r.attrs \subseteq row
              rest == IF r.op = "deleteAttrs" /\ found THEN row \ r.attrs ELSE row
  <2>1. Writes!single_attr_local(q) =>
          \/ Writes!AttrsWrote(q, "skipped", {}, {}, row)
          \/ Writes!AttrsWrote(q, "missing", {}, r.attrs, row)
          \/ Writes!AttrsWrote(q, "ok", r.attrs, {}, rest)
    <3>1. ASSUME NEW past \in IF r.op = "deleteAttrs" THEN BOOLEAN ELSE {FALSE},
                 /\ all => Writes!AttrsWrote(q, "skipped", {}, {}, row)
                 /\ ~all /\ ~found /\ ~past => Writes!AttrsWrote(q, "missing", {}, r.attrs, row)
                 /\ ~all /\ ~(~found /\ ~past) => Writes!AttrsWrote(q, "ok", r.attrs, {}, rest)
          PROVE  \/ Writes!AttrsWrote(q, "skipped", {}, {}, row)
                 \/ Writes!AttrsWrote(q, "missing", {}, r.attrs, row)
                 \/ Writes!AttrsWrote(q, "ok", r.attrs, {}, rest)
      <4>. HIDE DEF all, found, rest
      <4>. QED
        BY <3>1
    <3>2. Writes!single_attr_local(q) =>
            \E past \in IF r.op = "deleteAttrs" THEN BOOLEAN ELSE {FALSE} :
               /\ all => Writes!AttrsWrote(q, "skipped", {}, {}, row)
               /\ ~all /\ ~found /\ ~past => Writes!AttrsWrote(q, "missing", {}, r.attrs, row)
               /\ ~all /\ ~(~found /\ ~past) => Writes!AttrsWrote(q, "ok", r.attrs, {}, rest)
      BY DEF Writes!single_attr_local
    <3>. HIDE DEF all, found, rest
    <3>. QED
      BY <3>1, <3>2
  <2>2. rest = row
    OBVIOUS
  <2>. HIDE DEF rest
  <2>. QED
    BY <2>1, <2>2 DEF Writes!AttrsWrote
<1>9. Writes!create_entity_inner(q)
  BY <1>1, <1>2, <1>3, <1>4, <1>5, <1>6, <1>7, <1>8
<1>10. req'[q].pc = "forward"
  <2>1. PICK part, to : Writes!Wrote(q, part, to)
    BY <1>9 DEF Writes!create_entity_inner
  <2>2. req[q] \in Asked /\ req \in [Reqs -> Asked]
    BY DEF WriteInv, WriteTyped
  <2>. QED
    BY <2>1, <2>2 DEF Writes!Wrote, Asked
<1>. QED
  BY <1>9, <1>10 DEF Writes!create_entity_inner

\* OnlyCreateRevives (replace_entity, merge_entity_inner): only a create makes an
\* entity exist, however a write and a delete of it interleave.
THEOREM CreatesAloneRevive ==
    ASSUME WellAsked
    PROVE  Writes!Spec => Writes!OnlyCreateRevives
<1>1. Writes!Init => WriteInv
  BY WriteInitInv
<1>2. WriteInv /\ [Writes!Next]_Writes!vars => WriteInv'
  BY WriteStep
<1>3. WriteInv /\ [Writes!Next]_Writes!vars => [Writes!Revived]_Writes!vars
  BY Revives DEF Writes!Revived
<1>. QED
  BY <1>1, <1>2, <1>3, PTL DEF Writes!Spec, Writes!OnlyCreateRevives

-----------------------------------------------------------------------------
(* Batches: DistBatch for every array of items, catalogue, store, source   *)
(* and fault.                                                              *)

CONSTANTS Batches, Ents, Stored, Remote, MaxRaces
VARIABLES rows, bt, races

Batch == INSTANCE DistBatch

AllItems == UNION {{f.items[k] : k \in DOMAIN f.items} : f \in Batches}
BatchKinds == {"ok", "noctx", "invalid"}

\* What a broker stores of an entity, when the items are numbered up to n.
BatchRow(n) == UNION {[A -> 0..n] : A \in SUBSET Attrs}
BatchRows(n) == [Ents -> BatchRow(n) \cup {Absent}]

\* What batches, stores and catalogues are.
WellBatched ==
    /\ MaxHops \in Nat /\ MaxRaces \in Nat
    /\ \A n \in Nat : Absent \notin BatchRow(n)
    /\ \A ds \in Catalogue : /\ \E n \in Nat : DOMAIN ds = 1..n
                             /\ \A k \in DOMAIN ds : ds[k].src \in Sources
    /\ Stored \subseteq BatchRows(0) /\ Remote \subseteq SUBSET Ents
    /\ \A f \in Batches : /\ f.mode \in Batch!Modes /\ {f.upd, f.over} \subseteq BOOLEAN
                          /\ f.items \in Seq(AllItems)
    /\ \A x \in AllItems : x.id \in Ents /\ x.kind \in BatchKinds /\ x.attrs \subseteq Attrs

BatchState ==
    [pc : {"idle", "local", "replace", "delete", "forward", "done"},
     mode : Batch!Modes \cup {"none"}, items : Seq(AllItems), upd : BOOLEAN, over : BOOLEAN,
     regs : Seq(Compiled), rounds : Seq(SUBSET Nat), replaces : SUBSET Nat, next : Nat, ent : Nat,
     second : BOOLEAN, S : SUBSET Ents, E : SUBSET Ents, missed : SUBSET Ents,
     created : SUBSET Ents, rok : SUBSET Ents, rerr : SUBSET Ents, wrote : SUBSET Ents,
     acked : SUBSET Ents, failed : SUBSET Ents,
     answer : {"none", "created", "done", "multi"},
     was : {<<>>} \cup UNION {BatchRows(n) : n \in Nat}]

BatchTyped ==
    /\ docs \in Catalogue
    /\ bt \in BatchState
    /\ rows \in BatchRows(Len(bt.items))
    /\ held \in [Sources -> SUBSET Ents]
    /\ races \in 0..MaxRaces
    /\ \A n \in DOMAIN bt.rounds : bt.rounds[n] \subseteq DOMAIN bt.items
    /\ bt.replaces \subseteq DOMAIN bt.items
    /\ bt.pc = "idle" => bt.items = <<>>

\* An item that the answer accounts for as it leaves the local part.
Meant(k) ==
    \/ bt.items[k].kind = "noctx"
    \/ bt.items[k].kind \in {"ok", "invalid"} /\ ~Batch!WhollyProxied(bt, k)

\* What a proxy gets of the array is taken or an error.
Settled(b, k) == b.items[k].id \in b.acked \cup b.rerr
Resolved(b, n) ==
    Batch!is_proxy(b.regs[n]) => \A k \in Batch!Share(b, b.regs[n]) : Settled(b, k)

\* The lists of the answer, as they grow.
ListsOK ==
    /\ bt.created \subseteq bt.wrote \cup bt.acked
    /\ bt.rok \subseteq bt.acked /\ bt.failed \subseteq bt.rerr
    /\ bt.pc # "done" => bt.S \subseteq bt.wrote

\* The local part: what is meant is written, an error or in a round to come.
RoundsOK ==
    /\ bt.mode # "delete" /\ bt.pc \in {"local", "replace", "forward"} =>
         \A k \in DOMAIN bt.items : Meant(k) =>
            \/ Batch!Id(k) \in bt.wrote \cup bt.E
            \/ bt.pc # "forward" /\ \E n \in DOMAIN bt.rounds : k \in bt.rounds[n]
    /\ bt.pc = "replace" =>
         /\ bt.rounds # <<>>
         /\ \A k \in Head(bt.rounds) : Batch!Id(k) \in bt.wrote \/ k \in bt.replaces
    /\ bt.mode = "delete" => bt.pc \in {"delete", "forward", "done"}
    /\ bt.pc = "delete" => bt.mode = "delete" /\ bt.created = {}
    /\ bt.mode = "delete" /\ bt.pc = "forward" =>
         /\ bt.wrote \subseteq bt.S
         /\ \A k \in DOMAIN bt.items : Batch!Id(k) \in bt.wrote \cup bt.missed

\* The sources: those before `next', and of its items those before `ent'.
Forwarded(b) ==
    /\ b.pc \notin {"forward", "done"} => b.next = 1 /\ b.ent = 1
    /\ b.pc = "forward" =>
         /\ b.next >= 1 /\ b.ent >= 1
         /\ \A n \in DOMAIN b.regs : n < b.next => Resolved(b, n)
         /\ b.next \in DOMAIN b.regs =>
              LET ks == Batch!Share(b, b.regs[b.next])
              IN /\ b.ent = 1 \/ b.ent <= Cardinality(ks)
                 /\ \A m \in 1..(b.ent - 1) : Settled(b, Batch!Nth(ks, m))
ForwardOK == Forwarded(bt)

BatchInv == BatchTyped /\ ListsOK /\ RoundsOK /\ ForwardOK /\ Batch!AnswerTruthful

\* DistBatch counts with the same Cardinality.
LEMMA SameTally ==
    ASSUME NEW S
    PROVE  Batch!Cardinality(S) = Cardinality(S)
BY DEF Batch!Cardinality, Cardinality

\* A set of positions has a last one.
LEMMA GreatestOf ==
    ASSUME NEW N \in Nat, NEW T \in SUBSET (1..N), T # {}
    PROVE  \E n \in T : \A m \in T : m <= n
<1>. DEFINE U == {N + 1 - n : n \in T}
<1>1. U \in SUBSET (1..N) /\ U # {}
  <2>1. \A n \in T : n \in Int /\ 1 <= n /\ n <= N
    OBVIOUS
  <2>2. \A n \in T : N + 1 - n \in 1..N
    BY <2>1
  <2>. QED
    BY <2>2
<1>2. PICK u \in U : \A v \in U : u <= v
  <2>. HIDE DEF U
  <2>. QED
    BY <1>1, LeastOf
<1>3. PICK n \in T : u = N + 1 - n
  BY <1>2
<1>4. ASSUME NEW m \in T
      PROVE  m <= n
  <2>1. N + 1 - m \in U
    OBVIOUS
  <2>2. u <= N + 1 - m /\ n \in Int /\ m \in Int
    BY <1>2, <2>1
  <2>. QED
    BY <1>3, <2>2
<1>. QED
  BY <1>4

\* The registrations a batch is matched with are those of a write.
LEMMA SameRegistrations ==
    ASSUME NEW ds, NEW I, NEW T, NEW A
    PROVE  Batch!write_regs(ds, I, T, A, <<>>, FALSE) = Writes!write_regs(ds, I, T, A, <<>>, FALSE)
<1>. DEFINE K == {k \in Batch!reg_candidates(ds, I, T, A, <<>>) : ds[k].mode # "auxiliary"}
<1>1. \A S : Batch!Cardinality(S) = Writes!Cardinality(S)
  BY DEF Batch!Cardinality, Writes!Cardinality
<1>2. \A k : Batch!Alike(ds, K, k) = Writes!Alike(ds, K, k)
  BY DEF Batch!Alike, Writes!Alike, Batch!SameSource, Writes!SameSource
<1>3. Batch!Leads(ds, K) = Writes!Leads(ds, K)
  BY <1>2 DEF Batch!Leads, Writes!Leads
<1>4. \A k : Batch!matching_infos(ds[k], I, T, A) = Writes!matching_infos(ds[k], I, T, A)
  BY DEF Batch!matching_infos, Writes!matching_infos, Batch!entity_info_matches,
         Writes!entity_info_matches
<1>5. K = {k \in Writes!reg_candidates(ds, I, T, A, <<>>) : ds[k].mode # "auxiliary"}
  BY <1>4 DEF Batch!reg_candidates, Writes!reg_candidates, Batch!ToSet, Writes!ToSet
<1>6. ASSUME NEW k
      PROVE  Batch!Pooled(ds, K, k, I, T, A) = Writes!Pooled(ds, K, k, I, T, A)
  <2>. HIDE DEF K
  <2>1. Batch!Pooled(ds, K, k, I, T, A)
        = UNION {Batch!matching_infos(ds[j], I, T, A) : j \in Batch!Alike(ds, K, k)}
    BY DEF Batch!Pooled
  <2>2. Writes!Pooled(ds, K, k, I, T, A)
        = UNION {Batch!matching_infos(ds[j], I, T, A) : j \in Writes!Alike(ds, K, k)}
    BY <1>4 DEF Writes!Pooled
  <2>. QED
    BY <1>2, <2>1, <2>2
<1>7. \A d, S : Batch!Compile(d, S) = Writes!Compile(d, S)
  BY DEF Batch!Compile, Writes!Compile
<1>8. \A m : Batch!Lead(ds, K, m) = Writes!Lead(ds, K, m)
  BY <1>1, <1>3 DEF Batch!Lead, Writes!Lead
<1>. HIDE DEF K
<1>9. Batch!merge_same_source(ds, K, I, T, A) = Writes!merge_same_source(ds, K, I, T, A)
  BY <1>1, <1>3, <1>6, <1>7, <1>8 DEF Batch!merge_same_source, Writes!merge_same_source
<1>. QED
  BY <1>5, <1>9 DEF Batch!write_regs, Writes!write_regs, K

\* Every item is in a round, and rounds are made of items.
LEMMA RoundsShape ==
    ASSUME NEW b, NEW N \in Nat, NEW ks \in SUBSET (1..N)
    PROVE  /\ Batch!rounds(b, ks) \in Seq(SUBSET Nat)
           /\ \A n \in DOMAIN Batch!rounds(b, ks) : Batch!rounds(b, ks)[n] \subseteq ks
           /\ \A k \in ks : \E n \in DOMAIN Batch!rounds(b, ks) : k \in Batch!rounds(b, ks)[n]
<1>. DEFINE In(k) == Batch!Instance(b, ks, k)
            Same(k) == {j \in ks : j <= k /\ b.items[j].id = b.items[k].id}
            T == {In(k) : k \in ks}
            last == IF ks = {} THEN 0
                    ELSE CHOOSE n \in T : \A k \in ks : In(k) <= n
            R == [n \in 1..last |-> {k \in ks : In(k) = n}]
<1>1. Batch!rounds(b, ks) = R
  BY DEF Batch!rounds
<1>2. IsFiniteSet(ks) /\ Cardinality(ks) \in Nat
  <2>1. IsFiniteSet(1..N)
    BY FS_Interval, 1 \in Int, N \in Int
  <2>. QED
    BY <2>1, FS_Subset, FS_CardinalityType
<1>3. ASSUME NEW k \in ks
      PROVE  In(k) \in 1..Cardinality(ks)
  <2>1. Same(k) \in SUBSET ks /\ k \in Same(k)
    OBVIOUS
  <2>2. /\ IsFiniteSet(Same(k)) /\ Cardinality(Same(k)) <= Cardinality(ks)
        /\ Cardinality(Same(k)) \in Nat
    BY <1>2, <2>1, FS_Subset, FS_CardinalityType
  <2>3. Cardinality(Same(k)) # 0
    BY <2>1, <2>2, FS_EmptySet
  <2>4. In(k) = Cardinality(Same(k))
    BY SameTally DEF Batch!Instance
  <2>. QED
    BY <1>2, <2>2, <2>3, <2>4
<1>. HIDE DEF In
<1>4. last \in Nat /\ \A k \in ks : In(k) \in 1..last
  <2>1. CASE ks = {}
    BY <2>1
  <2>2. CASE ks # {}
    <3>1. T \in SUBSET (1..Cardinality(ks)) /\ T # {}
      BY <1>3, <2>2
    <3>2. \E n \in T : \A m \in T : m <= n
      BY <1>2, <3>1, GreatestOf
    <3>3. \E n \in T : \A k \in ks : In(k) <= n
      BY <3>2
    <3>4. last \in T /\ \A k \in ks : In(k) <= last
      <4>1. last = CHOOSE n \in T : \A k \in ks : In(k) <= n
        BY <2>2
      <4>. HIDE DEF T, last
      <4>. QED
        BY <3>3, <4>1
    <3>. HIDE DEF last
    <3>5. last \in Nat
      BY <3>1, <3>4
    <3>. QED
      BY <1>2, <1>3, <3>4, <3>5
  <2>. QED
    BY <2>1, <2>2
<1>. HIDE DEF last
<1>5. \A n \in 1..last : R[n] = {k \in ks : In(k) = n} /\ R[n] \in SUBSET ks
  OBVIOUS
<1>6. ks \subseteq Nat
  OBVIOUS
<1>7. R \in [1..last -> SUBSET Nat] /\ DOMAIN R = 1..last
  BY <1>6
<1>8. \A k \in ks : k \in R[In(k)] /\ In(k) \in DOMAIN R
  BY <1>4, <1>5, <1>7
<1>. HIDE DEF R
<1>9. R \in Seq(SUBSET Nat)
  BY <1>4, <1>7
<1>. QED
  BY <1>1, <1>5, <1>7, <1>8, <1>9

\* The items of a share, counted in the order of the array.
LEMMA NthOf ==
    ASSUME NEW N \in Nat, NEW ks \in SUBSET (1..N)
    PROVE  /\ Cardinality(ks) \in Nat /\ Batch!Cardinality(ks) = Cardinality(ks)
           /\ \A k \in ks : \E m \in 1..Cardinality(ks) : Batch!Nth(ks, m) = k
           /\ \A m \in 1..Cardinality(ks) : Batch!Nth(ks, m) \in ks
           /\ ks # {} => Cardinality(ks) >= 1
<1>. DEFINE Rank(k) == Writes!Cardinality({j \in ks : j <= k})
<1>1. /\ Cardinality(ks) \in Nat
      /\ \A k \in ks : Rank(k) \in 1..Cardinality(ks)
      /\ \A k, l \in ks : Rank(k) = Rank(l) => k = l
      /\ \A m \in 1..Cardinality(ks) : \E k \in ks : Rank(k) = m
  BY Ranks
<1>2. \A m : Batch!Nth(ks, m) = CHOOSE k \in ks : Rank(k) = m
  <2>1. \A S : Batch!Cardinality(S) = Writes!Cardinality(S)
    BY SameTally, SameCount
  <2>. QED
    BY <2>1 DEF Batch!Nth
<1>. HIDE DEF Rank
<1>3. ASSUME NEW m \in 1..Cardinality(ks)
      PROVE  Batch!Nth(ks, m) \in ks /\ Rank(Batch!Nth(ks, m)) = m
  BY <1>1, <1>2
<1>4. ASSUME NEW k \in ks
      PROVE  Rank(k) \in 1..Cardinality(ks) /\ Batch!Nth(ks, Rank(k)) = k
  BY <1>1, <1>3
<1>5. ASSUME NEW k \in ks
      PROVE  Cardinality(ks) >= 1
  <2>1. Rank(k) \in 1..Cardinality(ks)
    BY <1>1
  <2>. QED
    BY <1>1, <2>1
<1>. QED
  BY <1>1, <1>3, <1>4, <1>5, SameTally

\* What a batch answer says was done and what it says was not.
OkOf(a, sent) ==
    CASE a.status = "done" -> sent [] a.status = "fail" -> {} [] OTHER -> a.ok \cap sent
ErrOf(a, sent) ==
    CASE a.status = "fail" -> sent [] a.status = "multi" -> a.err \cap sent [] OTHER -> {}

LEMMA MergeRemote ==
    ASSUME NEW b, NEW a, NEW sent
    PROVE  Batch!merge_remote_batch(b, a, sent)
           = [b EXCEPT !.rok = @ \cup OkOf(a, sent), !.rerr = @ \cup ErrOf(a, sent),
                       !.created = IF a.new THEN @ \cup OkOf(a, sent) ELSE @,
                       !.acked = @ \cup a.took, !.failed = @ \cup (sent \ a.took)]
BY DEF Batch!merge_remote_batch, OkOf, ErrOf

\* The ids of what a source is sent.
SentIds(b, ks) == {b.items[k].id : k \in ks}

\* Whatever a source answers: what is taken from its answer as done it took, and
\* what it did not take is an error.
LEMMA ReplySound ==
    ASSUME NEW b, NEW ks, \A k \in ks : b.items[k].id \in Ents, NEW h \in SUBSET Ents,
           NEW a \in Batch!Replies(b, ks, h), NEW sent, sent = SentIds(b, ks)
    PROVE  /\ a.held \in SUBSET Ents /\ a.took \subseteq sent /\ sent \subseteq Ents
           /\ OkOf(a, sent) \subseteq a.took
           /\ ErrOf(a, sent) \subseteq sent
           /\ sent \ a.took \subseteq ErrOf(a, sent)
<1>. DEFINE ids(K) == {b.items[k].id : k \in K}
            took == Batch!Takes(b, ks, h)
            to == Batch!Holds(b.mode, h, ids(took))
            new == ids(took) \ h
            honest == CASE took # ks -> Batch!Reply("multi", ids(took), ids(ks \ took), b.mode = "create", ids(took), to)
                        [] took = ks /\ b.mode = "create" -> Batch!Reply("array", ids(took), {}, TRUE, ids(took), to)
                        [] took = ks /\ b.mode = "upsert" /\ new # {} -> Batch!Reply("array", new, {}, TRUE, ids(took), to)
                        [] OTHER -> Batch!Reply("done", {}, {}, FALSE, ids(took), to)
            foreign == [honest EXCEPT !.status = "multi", !.ok = ids(took) \cup (Ents \ ids(ks)),
                                      !.err = ids(ks \ took)]
<1>1. took \subseteq ks
  BY DEF Batch!Takes
<1>2. /\ sent \subseteq Ents /\ ids(took) \subseteq sent /\ sent \ ids(took) \subseteq ids(ks \ took)
      /\ sent = ids(ks) /\ (took = ks => sent \subseteq ids(took))
  BY <1>1 DEF SentIds
<1>3. to \in SUBSET Ents
  BY <1>2 DEF Batch!Holds
<1>4. \/ a = honest
      \/ a = Batch!Reply("fail", {}, {}, FALSE, {}, h)
      \/ a = Batch!Reply("fail", {}, {}, FALSE, ids(took), to)
      \/ a = foreign
  BY DEF Batch!Replies
<1>5. \/ honest = Batch!Reply("multi", ids(took), ids(ks \ took), b.mode = "create", ids(took), to)
      \/ took = ks /\ honest = Batch!Reply("array", ids(took), {}, TRUE, ids(took), to)
      \/ took = ks /\ honest = Batch!Reply("array", new, {}, TRUE, ids(took), to)
      \/ took = ks /\ honest = Batch!Reply("done", {}, {}, FALSE, ids(took), to)
  OBVIOUS
<1>6. new \subseteq ids(took)
  OBVIOUS
<1>. HIDE DEF honest, to, took, ids, new
<1>7. CASE a = honest
  <2>1. CASE honest = Batch!Reply("multi", ids(took), ids(ks \ took), b.mode = "create", ids(took), to)
    BY <1>2, <1>3, <1>7, <2>1 DEF Batch!Reply, OkOf, ErrOf
  <2>2. CASE took = ks /\ honest = Batch!Reply("array", ids(took), {}, TRUE, ids(took), to)
    BY <1>2, <1>3, <1>7, <2>2 DEF Batch!Reply, OkOf, ErrOf
  <2>3. CASE took = ks /\ honest = Batch!Reply("array", new, {}, TRUE, ids(took), to)
    BY <1>2, <1>3, <1>6, <1>7, <2>3 DEF Batch!Reply, OkOf, ErrOf
  <2>4. CASE took = ks /\ honest = Batch!Reply("done", {}, {}, FALSE, ids(took), to)
    BY <1>2, <1>3, <1>7, <2>4 DEF Batch!Reply, OkOf, ErrOf
  <2>. QED
    BY <1>5, <2>1, <2>2, <2>3, <2>4
<1>8. CASE a = foreign
  <2>1. /\ foreign.status = "multi" /\ foreign.ok = ids(took) \cup (Ents \ ids(ks))
        /\ foreign.err = ids(ks \ took) /\ foreign.took = ids(took) /\ foreign.held = to
    BY <1>5 DEF Batch!Reply
  <2>. HIDE DEF foreign
  <2>. QED
    BY <1>2, <1>3, <1>8, <2>1 DEF OkOf, ErrOf
<1>9. CASE a = Batch!Reply("fail", {}, {}, FALSE, {}, h)
  BY <1>2, <1>9 DEF Batch!Reply, OkOf, ErrOf
<1>10. CASE a = Batch!Reply("fail", {}, {}, FALSE, ids(took), to)
  BY <1>2, <1>3, <1>10 DEF Batch!Reply, OkOf, ErrOf
<1>. QED
  BY <1>4, <1>7, <1>8, <1>9, <1>10

\* What the plan makes of an item depends on the array and the registrations.
LEMMA PlanOf ==
    ASSUME NEW b, NEW c, b.regs = c.regs, b.items = c.items
    PROVE  /\ \A k : Batch!Rest(b, k) = Batch!Rest(c, k)
           /\ \A k : Batch!WhollyProxied(b, k) = Batch!WhollyProxied(c, k)
           /\ b.mode = c.mode => \A r : Batch!Share(b, r) = Batch!Share(c, r)
<1>1. \A k : Batch!Rest(b, k) = Batch!Rest(c, k)
  BY DEF Batch!Rest
<1>2. \A k : Batch!WhollyProxied(b, k) = Batch!WhollyProxied(c, k)
  BY <1>1 DEF Batch!WhollyProxied
<1>3. ASSUME b.mode = c.mode
      PROVE  \A r : Batch!Share(b, r) = Batch!Share(c, r)
  BY <1>3 DEF Batch!Share
<1>. QED
  BY <1>1, <1>2, <1>3

\* An item the proxies hold altogether is part of what one of them gets.
LEMMA HeldBySome ==
    ASSUME NEW b, NEW k \in DOMAIN b.items, b.mode # "delete", b.items[k].kind # "noctx",
           b.items[k].attrs # {}, Batch!WhollyProxied(b, k)
    PROVE  \E n \in DOMAIN b.regs :
              Batch!is_proxy(b.regs[n]) /\ k \in Batch!Share(b, b.regs[n])
<1>. DEFINE i == b.items[k]
<1>1. PICK a \in i.attrs : TRUE
  OBVIOUS
<1>2. a \notin Batch!strip_proxied(b.regs, i.id, i.types, i.attrs)
  BY DEF Batch!WhollyProxied, Batch!Rest
<1>3. PICK n \in DOMAIN b.regs :
        /\ Batch!is_proxy(b.regs[n]) /\ Batch!covers_item(b.regs[n], i.id, i.types)
        /\ Batch!covers_attr(b.regs[n], a)
  BY <1>2 DEF Batch!strip_proxied
<1>4. Batch!in_scope(b.regs[n], i.id, i.types, i.attrs)
  BY <1>3 DEF Batch!in_scope, Batch!covers_attr
<1>. QED
  BY <1>3, <1>4 DEF Batch!Share

\* Typing a write of rows.
LEMMA RowOver ==
    ASSUME NEW n \in Nat, NEW k \in 0..n, NEW A \in SUBSET Attrs
    PROVE  /\ Batch!Fresh(A, k) \in BatchRow(n)
           /\ \A u \in BatchRow(n) : Batch!Over(u, A, k) \in BatchRow(n)
<1>1. Batch!Fresh(A, k) \in [A -> 0..n]
  BY DEF Batch!Fresh
<1>2. ASSUME NEW u \in BatchRow(n)
      PROVE  Batch!Over(u, A, k) \in BatchRow(n)
  <2>1. PICK B \in SUBSET Attrs : u \in [B -> 0..n]
    BY DEF BatchRow
  <2>2. Batch!Over(u, A, k) \in [B \cup A -> 0..n]
    BY <2>1 DEF Batch!Over
  <2>. QED
    BY <2>2 DEF BatchRow
<1>. QED
  BY <1>1, <1>2 DEF BatchRow

LEMMA RowsWritten ==
    ASSUME NEW n \in Nat, rows \in BatchRows(n), NEW f,
           \A e \in DOMAIN f : f[e] \in BatchRow(n) \cup {Absent}, Batch!WriteRows(f)
    PROVE  rows' \in BatchRows(n)
BY DEF Batch!WriteRows, BatchRows

\* The items of the array, and what is left of one.
LEMMA ItemsAre ==
    ASSUME WellBatched, BatchTyped
    PROVE  /\ \E n \in Nat : DOMAIN bt.items = 1..n /\ Len(bt.items) = n
           /\ \A k \in DOMAIN bt.items :
                 /\ Batch!Id(k) \in Ents /\ bt.items[k].kind \in BatchKinds
                 /\ k \in 0..Len(bt.items) /\ k \in Nat
                 /\ Batch!Rest(bt, k) \in SUBSET Attrs
<1>1. bt.items \in Seq(AllItems)
  BY DEF BatchTyped, BatchState
<1>2. \A k \in DOMAIN bt.items : bt.items[k] \in AllItems /\ k \in 1..Len(bt.items)
  BY <1>1
<1>3. \A k \in DOMAIN bt.items : Batch!Rest(bt, k) \subseteq bt.items[k].attrs
  BY DEF Batch!Rest, Batch!strip_proxied
<1>4. DOMAIN bt.items = 1..Len(bt.items) /\ Len(bt.items) \in Nat
  BY <1>1
<1>5. \A k \in DOMAIN bt.items : /\ bt.items[k].id \in Ents /\ bt.items[k].kind \in BatchKinds
                                 /\ bt.items[k].attrs \subseteq Attrs
  BY <1>2 DEF WellBatched
<1>6. \A k \in DOMAIN bt.items : k \in 0..Len(bt.items) /\ k \in Nat
  BY <1>2, <1>4
<1>. QED
  BY <1>3, <1>4, <1>5, <1>6 DEF Batch!Id

\* A step that leaves the request as it was planned.
Steady == /\ bt'.mode = bt.mode /\ bt'.items = bt.items /\ bt'.regs = bt.regs
          /\ bt'.upd = bt.upd /\ bt'.over = bt.over /\ bt'.was = bt.was

LEMMA SteadyPlan ==
    ASSUME Steady
    PROVE  /\ \A k : Meant(k)' = Meant(k) /\ Batch!Id(k)' = Batch!Id(k)
           /\ \A r : Batch!Share(bt, r)' = Batch!Share(bt, r)
<1>1. /\ \A k : Batch!WhollyProxied(bt', k) = Batch!WhollyProxied(bt, k)
      /\ \A r : Batch!Share(bt', r) = Batch!Share(bt, r)
  BY PlanOf DEF Steady
<1>2. \A r : Batch!Share(bt, r)' = Batch!Share(bt', r)
  BY DEF Batch!Share, Batch!in_scope, Batch!covers_item
<1>3. \A k : Batch!WhollyProxied(bt, k)' = Batch!WhollyProxied(bt', k)
  BY DEF Batch!WhollyProxied, Batch!Rest, Batch!strip_proxied, Batch!Proxied, Batch!is_proxy,
         Batch!covers_item, Batch!covers_attr
<1>4. \A k : Meant(k)' = Meant(k) /\ Batch!Id(k)' = Batch!Id(k)
  BY <1>1, <1>3 DEF Meant, Batch!Id, Steady
<1>. QED
  BY <1>1, <1>2, <1>4

LEMMA ForwardNext == ForwardOK' <=> Forwarded(bt')
<1>1. \A r : Batch!Share(bt, r)' = Batch!Share(bt', r)
  BY DEF Batch!Share, Batch!in_scope, Batch!covers_item
<1>2. \A r : Batch!is_proxy(r)' = Batch!is_proxy(r)
  BY DEF Batch!is_proxy
<1>3. \A s, m : Batch!Nth(s, m)' = Batch!Nth(s, m)
  BY DEF Batch!Nth, Batch!Cardinality
<1>4. \A k : Settled(bt, k)' = Settled(bt', k)
  BY DEF Settled
<1>. QED
  BY DEF ForwardOK, Forwarded, Resolved, Settled, Batch!Share, Batch!in_scope, Batch!covers_item,
         Batch!is_proxy, Batch!Nth, Batch!Cardinality, Cardinality

\* No registration comes before the first.
LEMMA ForwardBegins ==
    ASSUME NEW b, b.regs \in Seq(Compiled), b.next = 1, b.ent = 1
    PROVE  Forwarded(b)
<1>1. \A n \in DOMAIN b.regs : ~(n < 1)
  OBVIOUS
<1>2. 1..(1 - 1) = {}
  OBVIOUS
<1>. QED
  BY <1>1, <1>2 DEF Forwarded

LEMMA TailOf ==
    ASSUME NEW U, NEW s \in Seq(U), s # <<>>
    PROVE  /\ Head(s) = s[1] /\ 1 \in DOMAIN s /\ Tail(s) \in Seq(U)
           /\ \A n \in DOMAIN s : n # 1 => n - 1 \in DOMAIN Tail(s) /\ Tail(s)[n - 1] = s[n]
           /\ \A n \in DOMAIN Tail(s) : n + 1 \in DOMAIN s /\ Tail(s)[n] = s[n + 1]
OBVIOUS

\* A local step: a round is over, or what it replaces is known.
LEMMA LocalKeeps ==
    ASSUME WellBatched, BatchInv, Steady, BatchTyped',
           bt.pc \in {"local", "replace"}, bt'.pc \in {"local", "replace"},
           bt'.wrote \subseteq Ents, bt.wrote \subseteq bt'.wrote, bt.E \subseteq bt'.E,
           bt'.S \subseteq bt'.wrote, bt'.created \subseteq bt'.wrote \cup bt.created,
           bt'.rok = bt.rok, bt'.rerr = bt.rerr, bt'.acked = bt.acked, bt'.failed = bt.failed,
           bt'.next = bt.next, bt'.ent = bt.ent,
           \/ /\ bt'.pc = "local" /\ bt.rounds # <<>> /\ bt'.rounds = Tail(bt.rounds)
              /\ \A k \in Head(bt.rounds) : Batch!Id(k) \in bt'.wrote \cup bt'.E
           \/ /\ bt'.pc = "replace" /\ bt.rounds # <<>> /\ bt'.rounds = bt.rounds
              /\ \A k \in Head(bt.rounds) : Batch!Id(k) \in bt'.wrote \/ k \in bt'.replaces
    PROVE  BatchInv'
<1>1. bt.mode # "delete" /\ bt'.mode # "delete"
  BY DEF BatchInv, RoundsOK, Steady
<1>2. /\ \A k : Meant(k)' = Meant(k) /\ Batch!Id(k)' = Batch!Id(k)
  BY SteadyPlan
<1>3. bt.rounds \in Seq(SUBSET Nat)
  BY DEF BatchInv, BatchTyped, BatchState
<1>4. ASSUME NEW k \in DOMAIN bt'.items, Meant(k)'
      PROVE  \/ Batch!Id(k)' \in bt'.wrote \cup bt'.E
             \/ \E n \in DOMAIN bt'.rounds : k \in bt'.rounds[n]
  <2>1. \/ Batch!Id(k) \in bt.wrote \cup bt.E
        \/ \E n \in DOMAIN bt.rounds : k \in bt.rounds[n]
    BY <1>1, <1>2, <1>4 DEF BatchInv, RoundsOK, Steady
  <2>2. CASE Batch!Id(k) \in bt.wrote \cup bt.E
    BY <1>2, <2>2
  <2>3. CASE /\ bt'.pc = "replace" /\ bt.rounds # <<>> /\ bt'.rounds = bt.rounds
             /\ \A j \in Head(bt.rounds) : Batch!Id(j) \in bt'.wrote \/ j \in bt'.replaces
    BY <1>2, <2>1, <2>3
  <2>4. CASE /\ bt'.pc = "local" /\ bt.rounds # <<>> /\ bt'.rounds = Tail(bt.rounds)
             /\ \A j \in Head(bt.rounds) : Batch!Id(j) \in bt'.wrote \cup bt'.E
    <3>1. ASSUME NEW n \in DOMAIN bt.rounds, k \in bt.rounds[n]
          PROVE  \/ k \in Head(bt.rounds)
                 \/ n - 1 \in DOMAIN bt'.rounds /\ k \in bt'.rounds[n - 1]
      <4>1. CASE n = 1
        BY <1>3, <2>4, <3>1, <4>1, TailOf
      <4>2. CASE n # 1
        BY <1>3, <2>4, <3>1, <4>2, TailOf
      <4>. QED
        BY <4>1, <4>2
    <3>. QED
      BY <1>2, <2>1, <2>2, <2>4, <3>1
  <2>. QED
    BY <2>2, <2>3, <2>4
<1>5. RoundsOK'
  <2>1. bt'.pc = "replace" =>
          /\ bt'.rounds # <<>>
          /\ \A k \in Head(bt'.rounds) : Batch!Id(k)' \in bt'.wrote \/ k \in bt'.replaces
    BY <1>2
  <2>. QED
    BY <1>1, <1>4, <2>1 DEF RoundsOK
<1>6. ListsOK'
  BY DEF BatchInv, ListsOK
<1>7. ForwardOK'
  BY ForwardNext DEF BatchInv, ForwardOK, Forwarded
<1>8. Batch!AnswerTruthful'
  BY DEF Batch!AnswerTruthful, Batch!SuccessHasWriter, Batch!FailureListed,
         Batch!EveryDeleteAnswered, Batch!Done
<1>. QED
  BY <1>5, <1>6, <1>7, <1>8 DEF BatchInv

\* The round a local step writes.
LEMMA HeadRound ==
    ASSUME WellBatched, BatchTyped, bt.rounds # <<>>
    PROVE  /\ Head(bt.rounds) \in SUBSET (DOMAIN bt.items)
           /\ Tail(bt.rounds) \in Seq(SUBSET Nat)
           /\ \A n \in DOMAIN Tail(bt.rounds) : Tail(bt.rounds)[n] \subseteq DOMAIN bt.items
<1>1. bt.rounds \in Seq(SUBSET Nat)
  BY DEF BatchTyped, BatchState
<1>2. \A n \in DOMAIN bt.rounds : bt.rounds[n] \subseteq DOMAIN bt.items
  BY DEF BatchTyped
<1>. QED
  BY <1>1, <1>2, TailOf

LEMMA MergeKeeps ==
    ASSUME WellBatched, BatchInv, Batch!MergeRound
    PROVE  BatchInv'
<1>. DEFINE round == Head(bt.rounds)
            there == {k \in round : rows[Batch!Id(k)] # Absent}
            keeps == bt.mode = "update" /\ ~bt.over
            kept(k) == IF keeps THEN Batch!Rest(bt, k) \cap DOMAIN rows[Batch!Id(k)] ELSE {}
            partial == {k \in there : kept(k) # {}}
            gone == round \ there
            pick(e) == CHOOSE j \in there : Batch!Id(j) = e
            f == [e \in {Batch!Id(k) : k \in there} |->
                    LET k == CHOOSE j \in there : Batch!Id(j) = e
                    IN Batch!Over(rows[e], Batch!Rest(bt, k) \ kept(k), k)]
            w == bt.wrote \cup {Batch!Id(k) : k \in there}
            S == bt.S \cup {Batch!Id(k) : k \in there \ partial}
            E == bt.E \cup {Batch!Id(k) : k \in partial}
                      \cup IF bt.mode = "upsert" THEN {} ELSE {Batch!Id(k) : k \in gone}
            rep == IF bt.mode = "upsert" THEN gone ELSE {}
            pc == IF bt.mode = "upsert" /\ gone # {} THEN "replace" ELSE "local"
            rest == IF bt.mode = "upsert" /\ gone # {} THEN bt.rounds ELSE Tail(bt.rounds)
<1>1. /\ bt.pc = "local" /\ bt.rounds # <<>> /\ Batch!WriteRows(f)
      /\ bt' = [bt EXCEPT !.wrote = w, !.S = S, !.E = E, !.replaces = rep, !.pc = pc,
                          !.rounds = rest]
      /\ UNCHANGED <<docs, held, races>>
  <2>1. bt \in BatchState
    BY DEF BatchInv, BatchTyped
  <2>. QED
    BY <2>1 DEF Batch!MergeRound, BatchState
<1>2. /\ round \in SUBSET (DOMAIN bt.items) /\ Tail(bt.rounds) \in Seq(SUBSET Nat)
      /\ \A n \in DOMAIN Tail(bt.rounds) : Tail(bt.rounds)[n] \subseteq DOMAIN bt.items
  BY <1>1, HeadRound DEF BatchInv
<1>3. /\ \A k \in DOMAIN bt.items : /\ Batch!Id(k) \in Ents /\ k \in 0..Len(bt.items) /\ k \in Nat
                                    /\ Batch!Rest(bt, k) \in SUBSET Attrs
      /\ Len(bt.items) \in Nat
  BY ItemsAre DEF BatchInv
<1>4. there \subseteq DOMAIN bt.items /\ partial \subseteq DOMAIN bt.items /\ gone \subseteq DOMAIN bt.items
  BY <1>2
<1>5. /\ docs \in Catalogue /\ bt \in BatchState /\ rows \in BatchRows(Len(bt.items))
      /\ held \in [Sources -> SUBSET Ents] /\ races \in 0..MaxRaces
      /\ \A n \in DOMAIN bt.rounds : bt.rounds[n] \subseteq DOMAIN bt.items
  BY DEF BatchInv, BatchTyped
<1>6. rows' \in BatchRows(Len(bt.items))
  <2>1. ASSUME NEW e \in DOMAIN f
        PROVE  f[e] \in BatchRow(Len(bt.items))
    <3>1. pick(e) \in there /\ Batch!Id(pick(e)) = e
      <4>. HIDE DEF there
      <4>. QED
        OBVIOUS
    <3>2. f[e] = Batch!Over(rows[e], Batch!Rest(bt, pick(e)) \ kept(pick(e)), pick(e))
      OBVIOUS
    <3>3. rows[e] \in BatchRow(Len(bt.items))
      BY <1>3, <1>4, <1>5, <3>1 DEF BatchRows
    <3>4. pick(e) \in 0..Len(bt.items) /\ Batch!Rest(bt, pick(e)) \in SUBSET Attrs
      BY <1>3, <1>4, <3>1
    <3>. HIDE DEF f, pick, kept, there
    <3>. QED
      BY <1>3, <3>2, <3>3, <3>4, RowOver
  <2>. HIDE DEF f
  <2>. QED
    BY <1>1, <1>3, <1>5, <2>1, RowsWritten
<1>7. w \in SUBSET Ents /\ S \in SUBSET Ents /\ E \in SUBSET Ents
  <2>1. bt.wrote \in SUBSET Ents /\ bt.S \in SUBSET Ents /\ bt.E \in SUBSET Ents
    BY <1>5 DEF BatchState
  <2>. HIDE DEF there, partial, gone
  <2>. QED
    BY <1>3, <1>4, <2>1
<1>8. rep \in SUBSET Nat /\ rep \subseteq DOMAIN bt.items /\ pc \in {"local", "replace"}
  BY <1>3, <1>4
<1>9. rest \in Seq(SUBSET Nat) /\ \A n \in DOMAIN rest : rest[n] \subseteq DOMAIN bt.items
  <2>1. bt.rounds \in Seq(SUBSET Nat)
    BY <1>5 DEF BatchState
  <2>. QED
    BY <1>2, <1>5, <2>1
<1>10. bt.S \subseteq bt.wrote
  BY <1>1 DEF BatchInv, ListsOK
<1>11. S \subseteq w /\ bt.wrote \subseteq w /\ bt.E \subseteq E
  BY <1>10
<1>12. \/ /\ pc = "local" /\ rest = Tail(bt.rounds)
          /\ \A k \in round : Batch!Id(k) \in w \cup E
       \/ /\ pc = "replace" /\ rest = bt.rounds
          /\ \A k \in round : Batch!Id(k) \in w \/ k \in rep
  OBVIOUS
<1>. HIDE DEF w, S, E, rep, pc, rest, f, round
<1>13. /\ bt' \in BatchState /\ Steady
       /\ bt'.wrote = w /\ bt'.S = S /\ bt'.E = E /\ bt'.replaces = rep /\ bt'.pc = pc
       /\ bt'.rounds = rest /\ bt'.created = bt.created /\ bt'.rok = bt.rok
       /\ bt'.rerr = bt.rerr /\ bt'.acked = bt.acked /\ bt'.failed = bt.failed
       /\ bt'.next = bt.next /\ bt'.ent = bt.ent
  BY <1>1, <1>5, <1>7, <1>8, <1>9 DEF BatchState, Steady
<1>14. BatchTyped'
  BY <1>1, <1>5, <1>6, <1>8, <1>9, <1>13 DEF BatchTyped, Steady
<1>. QED
  BY <1>1, <1>7, <1>8, <1>11, <1>12, <1>13, <1>14, LocalKeeps DEF round

\* A statement that replaces the items ks, which end their round.
LEMMA ReplacedKeeps ==
    ASSUME WellBatched, BatchInv, NEW ks \in SUBSET (DOMAIN bt.items), Batch!Replaced(ks),
           bt.pc \in {"local", "replace"}, bt.rounds # <<>>,
           \A k \in Head(bt.rounds) : Batch!Id(k) \in bt.wrote \/ k \in ks
    PROVE  BatchInv'
<1>. DEFINE pick(e) == CHOOSE j \in ks : Batch!Id(j) = e
            f == [e \in {Batch!Id(k) : k \in ks} |->
                    LET k == CHOOSE j \in ks : Batch!Id(j) = e IN Batch!Fresh(Batch!Rest(bt, k), k)]
            w == bt.wrote \cup {Batch!Id(k) : k \in ks}
            S == bt.S \cup {Batch!Id(k) : k \in ks}
            made == bt.created \cup {Batch!Id(k) : k \in {j \in ks : rows[Batch!Id(j)] = Absent}}
<1>1. /\ Batch!WriteRows(f)
      /\ bt' = [bt EXCEPT !.wrote = w, !.S = S, !.created = made, !.replaces = {}, !.pc = "local",
                          !.rounds = Tail(bt.rounds)]
      /\ UNCHANGED <<docs, held, races>>
  <2>1. bt \in BatchState
    BY DEF BatchInv, BatchTyped
  <2>. QED
    BY <2>1 DEF Batch!Replaced, BatchState
<1>2. /\ Tail(bt.rounds) \in Seq(SUBSET Nat)
      /\ \A n \in DOMAIN Tail(bt.rounds) : Tail(bt.rounds)[n] \subseteq DOMAIN bt.items
  BY HeadRound DEF BatchInv
<1>3. /\ \A k \in DOMAIN bt.items : /\ Batch!Id(k) \in Ents /\ k \in 0..Len(bt.items) /\ k \in Nat
                                    /\ Batch!Rest(bt, k) \in SUBSET Attrs
      /\ Len(bt.items) \in Nat
  BY ItemsAre DEF BatchInv
<1>5. /\ docs \in Catalogue /\ bt \in BatchState /\ rows \in BatchRows(Len(bt.items))
      /\ held \in [Sources -> SUBSET Ents] /\ races \in 0..MaxRaces
  BY DEF BatchInv, BatchTyped
<1>6. rows' \in BatchRows(Len(bt.items))
  <2>1. ASSUME NEW e \in DOMAIN f
        PROVE  f[e] \in BatchRow(Len(bt.items))
    <3>1. pick(e) \in ks /\ Batch!Id(pick(e)) = e
      OBVIOUS
    <3>2. f[e] = Batch!Fresh(Batch!Rest(bt, pick(e)), pick(e))
      OBVIOUS
    <3>3. pick(e) \in 0..Len(bt.items) /\ Batch!Rest(bt, pick(e)) \in SUBSET Attrs
      BY <1>3, <3>1
    <3>. HIDE DEF f, pick
    <3>. QED
      BY <1>3, <3>2, <3>3, RowOver
  <2>. HIDE DEF f
  <2>. QED
    BY <1>1, <1>3, <1>5, <2>1, RowsWritten
<1>7. w \in SUBSET Ents /\ S \in SUBSET Ents /\ made \in SUBSET Ents
  <2>1. bt.wrote \in SUBSET Ents /\ bt.S \in SUBSET Ents /\ bt.created \in SUBSET Ents
    BY <1>5 DEF BatchState
  <2>. QED
    BY <1>3, <2>1
<1>10. bt.S \subseteq bt.wrote
  BY DEF BatchInv, ListsOK
<1>11. S \subseteq w /\ bt.wrote \subseteq w /\ made \subseteq w \cup bt.created
  BY <1>10
<1>12. \A k \in Head(bt.rounds) : Batch!Id(k) \in w
  OBVIOUS
<1>. HIDE DEF w, S, made, f
<1>13. /\ bt' \in BatchState /\ Steady
       /\ bt'.wrote = w /\ bt'.S = S /\ bt'.E = bt.E /\ bt'.replaces = {} /\ bt'.pc = "local"
       /\ bt'.rounds = Tail(bt.rounds) /\ bt'.created = made /\ bt'.rok = bt.rok
       /\ bt'.rerr = bt.rerr /\ bt'.acked = bt.acked /\ bt'.failed = bt.failed
       /\ bt'.next = bt.next /\ bt'.ent = bt.ent
  BY <1>1, <1>2, <1>5, <1>7 DEF BatchState, Steady
<1>14. BatchTyped'
  BY <1>1, <1>2, <1>5, <1>6, <1>13 DEF BatchTyped, Steady
<1>. QED
  BY <1>7, <1>11, <1>12, <1>13, <1>14, LocalKeeps

LEMMA ReplaceKeeps ==
    ASSUME WellBatched, BatchInv, Batch!ReplaceRound
    PROVE  BatchInv'
<1>1. CASE bt.pc = "local" /\ bt.rounds # <<>> /\ Batch!Replaced(Head(bt.rounds))
  <2>1. Head(bt.rounds) \in SUBSET (DOMAIN bt.items)
    BY <1>1, HeadRound DEF BatchInv
  <2>. QED
    BY <1>1, <2>1, ReplacedKeeps
<1>2. CASE bt.pc = "replace" /\ Batch!Replaced(bt.replaces)
  <2>1. bt.replaces \in SUBSET (DOMAIN bt.items)
    BY DEF BatchInv, BatchTyped
  <2>2. /\ bt.rounds # <<>>
        /\ \A k \in Head(bt.rounds) : Batch!Id(k) \in bt.wrote \/ k \in bt.replaces
    BY <1>2 DEF BatchInv, RoundsOK
  <2>. QED
    BY <1>2, <2>1, <2>2, ReplacedKeeps
<1>. QED
  BY <1>1, <1>2 DEF Batch!ReplaceRound

LEMMA CreateKeeps ==
    ASSUME WellBatched, BatchInv, Batch!batch_create
    PROVE  BatchInv'
<1>. DEFINE round == Head(bt.rounds)
            won == {k \in round : /\ rows[Batch!Id(k)] = Absent
                                  /\ \A j \in round : j < k => Batch!Id(j) # Batch!Id(k)}
            pick(e) == CHOOSE j \in won : Batch!Id(j) = e
            f == [e \in {Batch!Id(k) : k \in won} |->
                    LET k == CHOOSE j \in won : Batch!Id(j) = e
                    IN Batch!Fresh(Batch!Rest(bt, k), k)]
            w == bt.wrote \cup {Batch!Id(k) : k \in won}
            S == bt.S \cup {Batch!Id(k) : k \in won}
            made == bt.created \cup {Batch!Id(k) : k \in won}
            E == bt.E \cup {Batch!Id(k) : k \in round \ won}
<1>1. /\ bt.pc = "local" /\ bt.rounds # <<>> /\ Batch!WriteRows(f)
      /\ bt' = [bt EXCEPT !.wrote = w, !.S = S, !.created = made, !.E = E,
                          !.rounds = Tail(bt.rounds)]
      /\ UNCHANGED <<docs, held, races>>
  <2>1. bt \in BatchState
    BY DEF BatchInv, BatchTyped
  <2>. QED
    BY <2>1 DEF Batch!batch_create, BatchState
<1>2. /\ round \in SUBSET (DOMAIN bt.items) /\ Tail(bt.rounds) \in Seq(SUBSET Nat)
      /\ \A n \in DOMAIN Tail(bt.rounds) : Tail(bt.rounds)[n] \subseteq DOMAIN bt.items
  BY <1>1, HeadRound DEF BatchInv
<1>3. /\ \A k \in DOMAIN bt.items : /\ Batch!Id(k) \in Ents /\ k \in 0..Len(bt.items) /\ k \in Nat
                                    /\ Batch!Rest(bt, k) \in SUBSET Attrs
      /\ Len(bt.items) \in Nat
  BY ItemsAre DEF BatchInv
<1>4. won \in SUBSET (DOMAIN bt.items) /\ round \ won \in SUBSET (DOMAIN bt.items)
  BY <1>2
<1>5. /\ docs \in Catalogue /\ bt \in BatchState /\ rows \in BatchRows(Len(bt.items))
      /\ held \in [Sources -> SUBSET Ents] /\ races \in 0..MaxRaces
      /\ bt.replaces \subseteq DOMAIN bt.items
  BY DEF BatchInv, BatchTyped
<1>12. \A k \in round : Batch!Id(k) \in w \cup E
  OBVIOUS
<1>10. bt.S \subseteq bt.wrote
  BY <1>1 DEF BatchInv, ListsOK
<1>11. S \subseteq w /\ bt.wrote \subseteq w /\ made \subseteq w \cup bt.created /\ bt.E \subseteq E
  BY <1>10
<1>. HIDE DEF round, won
<1>6. rows' \in BatchRows(Len(bt.items))
  <2>1. ASSUME NEW e \in DOMAIN f
        PROVE  f[e] \in BatchRow(Len(bt.items))
    <3>1. pick(e) \in won /\ Batch!Id(pick(e)) = e
      OBVIOUS
    <3>2. f[e] = Batch!Fresh(Batch!Rest(bt, pick(e)), pick(e))
      OBVIOUS
    <3>3. pick(e) \in 0..Len(bt.items) /\ Batch!Rest(bt, pick(e)) \in SUBSET Attrs
      BY <1>3, <1>4, <3>1
    <3>. HIDE DEF f, pick
    <3>. QED
      BY <1>3, <3>2, <3>3, RowOver
  <2>. HIDE DEF f
  <2>. QED
    BY <1>1, <1>3, <1>5, <2>1, RowsWritten
<1>7. w \in SUBSET Ents /\ S \in SUBSET Ents /\ made \in SUBSET Ents /\ E \in SUBSET Ents
  <2>1. /\ bt.wrote \in SUBSET Ents /\ bt.S \in SUBSET Ents /\ bt.created \in SUBSET Ents
        /\ bt.E \in SUBSET Ents
    BY <1>5 DEF BatchState
  <2>. QED
    BY <1>3, <1>4, <2>1
<1>. HIDE DEF w, S, made, E, f
<1>13. /\ bt' \in BatchState /\ Steady
       /\ bt'.wrote = w /\ bt'.S = S /\ bt'.E = E /\ bt'.replaces = bt.replaces /\ bt'.pc = "local"
       /\ bt'.rounds = Tail(bt.rounds) /\ bt'.created = made /\ bt'.rok = bt.rok
       /\ bt'.rerr = bt.rerr /\ bt'.acked = bt.acked /\ bt'.failed = bt.failed
       /\ bt'.next = bt.next /\ bt'.ent = bt.ent
  BY <1>1, <1>2, <1>5, <1>7 DEF BatchState, Steady
<1>14. BatchTyped'
  BY <1>1, <1>2, <1>5, <1>6, <1>13 DEF BatchTyped, Steady
<1>15. \A k \in Head(bt.rounds) : Batch!Id(k) \in bt'.wrote \cup bt'.E
  BY <1>12, <1>13 DEF round
<1>16. /\ bt'.S \subseteq bt'.wrote /\ bt.wrote \subseteq bt'.wrote /\ bt'.wrote \subseteq Ents
       /\ bt'.created \subseteq bt'.wrote \cup bt.created /\ bt.E \subseteq bt'.E
  BY <1>7, <1>11, <1>13
<1>. QED
  BY <1>1, <1>13, <1>14, <1>15, <1>16, LocalKeeps

-----------------------------------------------------------------------------
(* Each step of a batch keeps the invariant.                               *)

\* The initial states.
LEMMA BatchStarts ==
    ASSUME WellBatched, Batch!Init
    PROVE  BatchInv
<1>1. /\ docs \in Catalogue /\ rows \in Stored /\ held \in [Sources -> Remote]
      /\ bt = Batch!Idle /\ races = 0
  BY DEF Batch!Init
<1>2. /\ bt.pc = "idle" /\ bt.mode = "none" /\ bt.items = <<>> /\ bt.upd = FALSE /\ bt.over = TRUE
      /\ bt.regs = <<>> /\ bt.rounds = <<>> /\ bt.replaces = {} /\ bt.next = 1 /\ bt.ent = 1
      /\ bt.second = FALSE /\ bt.S = {} /\ bt.E = {} /\ bt.missed = {} /\ bt.created = {}
      /\ bt.rok = {} /\ bt.rerr = {} /\ bt.wrote = {} /\ bt.acked = {} /\ bt.failed = {}
      /\ bt.answer = "none" /\ bt.was = <<>>
  BY <1>1 DEF Batch!Idle
<1>3. bt \in BatchState
  BY <1>1 DEF BatchState, Batch!Idle
<1>4. rows \in BatchRows(Len(bt.items)) /\ held \in [Sources -> SUBSET Ents]
      /\ races \in 0..MaxRaces
  BY <1>1, <1>2 DEF WellBatched
<1>5. BatchTyped
  BY <1>1, <1>2, <1>3, <1>4 DEF BatchTyped
<1>. QED
  BY <1>2, <1>5 DEF BatchInv, ListsOK, RoundsOK, ForwardOK, Batch!AnswerTruthful,
     Batch!SuccessHasWriter, Batch!FailureListed, Batch!EveryDeleteAnswered, Batch!Done, Forwarded

\* A step that changes the rows only.
LEMMA RowsOnly ==
    ASSUME BatchInv, UNCHANGED <<docs, held, bt>>, rows' \in BatchRows(Len(bt.items)),
           races' \in 0..MaxRaces
    PROVE  BatchInv'
<1>1. Steady
  BY DEF Steady
<1>2. /\ \A k : Meant(k)' = Meant(k) /\ Batch!Id(k)' = Batch!Id(k)
      /\ \A r : Batch!Share(bt, r)' = Batch!Share(bt, r)
  BY <1>1, SteadyPlan
<1>3. BatchTyped'
  BY DEF BatchInv, BatchTyped
<1>4. ListsOK'
  BY DEF BatchInv, ListsOK
<1>5. RoundsOK'
  BY <1>2 DEF BatchInv, RoundsOK
<1>8. ForwardOK'
  BY ForwardNext DEF BatchInv, ForwardOK
<1>9. Batch!AnswerTruthful'
  BY DEF BatchInv, Batch!AnswerTruthful, Batch!SuccessHasWriter, Batch!FailureListed,
     Batch!EveryDeleteAnswered, Batch!Done, Batch!Id
<1>. QED
  BY <1>3, <1>4, <1>5, <1>8, <1>9 DEF BatchInv

LEMMA RaceKeeps ==
    ASSUME WellBatched, BatchInv, NEW e \in Ents, Batch!Race(e)
    PROVE  BatchInv'
<1>1. /\ races < MaxRaces /\ rows' = [rows EXCEPT ![e] = Absent] /\ races' = races + 1
      /\ UNCHANGED <<docs, held, bt>>
  BY DEF Batch!Race
<1>2. rows \in BatchRows(Len(bt.items)) /\ races \in 0..MaxRaces /\ MaxRaces \in Nat
  BY DEF BatchInv, BatchTyped, WellBatched
<1>3. rows' \in BatchRows(Len(bt.items))
  BY <1>1, <1>2 DEF BatchRows
<1>4. races' \in 0..MaxRaces
  BY <1>1, <1>2
<1>. QED
  BY <1>1, <1>3, <1>4, RowsOnly

\* The planned batch: its items are in rounds, or errors.
LEMMA WriteStarts ==
    ASSUME WellBatched, BatchInv, NEW f \in Batches, Batch!batch_write(f)
    PROVE  BatchInv'
<1>. DEFINE b == [Batch!Idle EXCEPT !.mode = f.mode, !.items = f.items, !.upd = f.upd,
                                    !.over = f.over, !.was = rows]
            spec == Batch!batch_spec(b)
            regs == Batch!write_regs(docs, spec.ids, spec.types, spec.attrs, <<>>, FALSE)
            c == [b EXCEPT !.regs = regs]
            ks == {k \in DOMAIN c.items : c.items[k].kind = "ok" /\ ~Batch!WhollyProxied(c, k)}
            bad == {c.items[k].id : k \in {j \in DOMAIN c.items :
                      \/ c.items[j].kind = "noctx"
                      \/ c.items[j].kind = "invalid" /\ ~Batch!WhollyProxied(c, j)}}
            rs == IF f.mode = "create" THEN <<ks>> ELSE Batch!rounds(c, ks)
            gone == [c EXCEPT !.pc = "delete"]
            local == [c EXCEPT !.pc = "local", !.E = bad, !.rounds = rs]
<1>1. /\ bt.pc = "idle" /\ bt' = IF f.mode = "delete" THEN gone ELSE local
      /\ UNCHANGED <<docs, rows, held, races>>
  BY DEF Batch!batch_write
<1>2. /\ docs \in Catalogue /\ bt \in BatchState /\ rows \in BatchRows(Len(bt.items))
      /\ held \in [Sources -> SUBSET Ents] /\ races \in 0..MaxRaces /\ bt.items = <<>>
  BY <1>1 DEF BatchInv, BatchTyped
<1>3. /\ f.mode \in Batch!Modes /\ f.upd \in BOOLEAN /\ f.over \in BOOLEAN
      /\ f.items \in Seq(AllItems)
      /\ \A k \in DOMAIN f.items : f.items[k].id \in Ents /\ f.items[k].kind \in BatchKinds
  <2>1. \A k \in DOMAIN f.items : f.items[k] \in AllItems
    BY DEF AllItems
  <2>. QED
    BY <2>1 DEF WellBatched
<1>4. regs \in Seq(Compiled)
  <2>1. regs = Writes!write_regs(docs, spec.ids, spec.types, spec.attrs, <<>>, FALSE)
    BY SameRegistrations
  <2>2. PICK N \in Nat : DOMAIN docs = 1..N
    BY <1>2 DEF WellBatched
  <2>. HIDE DEF regs, spec
  <2>. QED
    BY <1>2, <2>1, <2>2, PlanShape
<1>. HIDE DEF regs, spec
<1>5. /\ c.mode = f.mode /\ c.items = f.items /\ c.upd = f.upd /\ c.over = f.over
      /\ c.regs = regs /\ c.was = rows /\ c.pc = "idle" /\ c.rounds = <<>> /\ c.replaces = {}
      /\ c.next = 1 /\ c.ent = 1 /\ c.second = FALSE /\ c.S = {} /\ c.E = {} /\ c.missed = {}
      /\ c.created = {} /\ c.rok = {} /\ c.rerr = {} /\ c.wrote = {} /\ c.acked = {}
      /\ c.failed = {} /\ c.answer = "none"
  BY DEF Batch!Idle
<1>6. c \in BatchState
  <2>1. rows \in {<<>>} \cup UNION {BatchRows(n) : n \in Nat}
    BY <1>2
  <2>2. <<>> \in Seq(SUBSET Nat) /\ {} \in SUBSET Nat
    OBVIOUS
  <2>. QED
    BY <1>3, <1>4, <2>1, <2>2 DEF BatchState, Batch!Idle
<1>7. PICK N \in Nat : N = Len(f.items) /\ DOMAIN f.items = 1..N
  BY <1>3
<1>. HIDE DEF c
<1>8. ks \in SUBSET (1..N) /\ bad \in SUBSET Ents
  BY <1>3, <1>5, <1>7
<1>9. /\ rs \in Seq(SUBSET Nat)
      /\ \A n \in DOMAIN rs : rs[n] \subseteq ks
      /\ \A k \in ks : \E n \in DOMAIN rs : k \in rs[n]
  <2>1. CASE f.mode = "create"
    <3>1. ks \in SUBSET Nat
      BY <1>8
    <3>2. rs = <<ks>>
      BY <2>1
    <3>. HIDE DEF rs, ks
    <3>. QED
      BY <3>1, <3>2
  <2>2. CASE f.mode # "create"
    <3>1. rs = Batch!rounds(c, ks)
      BY <2>2
    <3>. HIDE DEF rs, ks
    <3>. QED
      BY <1>8, <3>1, RoundsShape
  <2>. QED
    BY <2>1, <2>2
<1>10. ASSUME NEW d, d.regs = c.regs, d.items = c.items, NEW k \in DOMAIN f.items,
              \/ d.items[k].kind = "noctx"
              \/ d.items[k].kind \in {"ok", "invalid"} /\ ~Batch!WhollyProxied(d, k)
       PROVE  k \in ks \/ c.items[k].id \in bad
  <2>1. Batch!WhollyProxied(d, k) = Batch!WhollyProxied(c, k)
    BY <1>10, PlanOf
  <2>. QED
    BY <1>5, <1>10, <2>1
<1>. HIDE DEF ks, bad, rs
<1>11. rows \in BatchRows(Len(f.items))
  <2>1. Len(bt.items) = 0
    BY <1>2
  <2>2. BatchRow(0) \subseteq BatchRow(Len(f.items))
    BY <1>7 DEF BatchRow
  <2>. QED
    BY <1>2, <2>1, <2>2 DEF BatchRows
<1>12. CASE f.mode = "delete"
  <2>1. /\ bt' = gone /\ bt' \in BatchState
        /\ bt'.pc = "delete" /\ bt'.mode = "delete" /\ bt'.items = f.items /\ bt'.rounds = <<>>
        /\ bt'.replaces = {} /\ bt'.next = 1 /\ bt'.ent = 1 /\ bt'.S = {} /\ bt'.created = {}
        /\ bt'.rok = {} /\ bt'.failed = {}
    BY <1>1, <1>5, <1>6, <1>12 DEF BatchState
  <2>2. BatchTyped'
    BY <1>1, <1>2, <1>11, <2>1 DEF BatchTyped
  <2>. QED
    BY <2>1, <2>2, ForwardNext DEF BatchInv, ListsOK, RoundsOK, Forwarded, Batch!AnswerTruthful,
       Batch!SuccessHasWriter, Batch!FailureListed, Batch!EveryDeleteAnswered, Batch!Done
<1>13. CASE f.mode # "delete"
  <2>1. /\ bt' = local /\ bt' \in BatchState
        /\ bt'.pc = "local" /\ bt'.mode # "delete" /\ bt'.items = f.items /\ bt'.rounds = rs
        /\ bt'.regs = c.regs /\ bt'.E = bad
        /\ bt'.replaces = {} /\ bt'.next = 1 /\ bt'.ent = 1 /\ bt'.S = {} /\ bt'.created = {}
        /\ bt'.rok = {} /\ bt'.failed = {}
    BY <1>1, <1>5, <1>6, <1>8, <1>9, <1>13 DEF BatchState
  <2>2. \A n \in DOMAIN rs : rs[n] \subseteq DOMAIN f.items
    BY <1>7, <1>8, <1>9
  <2>3. BatchTyped'
    BY <1>1, <1>2, <1>11, <2>1, <2>2 DEF BatchTyped
  <2>4. ASSUME NEW k \in DOMAIN bt'.items, Meant(k)'
        PROVE  Batch!Id(k)' \in bt'.E \/ \E n \in DOMAIN bt'.rounds : k \in bt'.rounds[n]
    <3>1. Batch!WhollyProxied(bt, k)' = Batch!WhollyProxied(bt', k)
      BY DEF Batch!WhollyProxied, Batch!Rest, Batch!strip_proxied, Batch!Proxied, Batch!is_proxy,
             Batch!covers_item, Batch!covers_attr
    <3>2. \/ bt'.items[k].kind = "noctx"
          \/ bt'.items[k].kind \in {"ok", "invalid"} /\ ~Batch!WhollyProxied(bt', k)
      BY <2>4, <3>1 DEF Meant
    <3>3. k \in ks \/ c.items[k].id \in bad
      BY <1>5, <1>10, <2>1, <2>4, <3>2
    <3>4. Batch!Id(k)' = c.items[k].id
      BY <1>5, <2>1 DEF Batch!Id
    <3>. QED
      BY <1>9, <2>1, <3>3, <3>4
  <2>5. RoundsOK'
    BY <2>1, <2>4 DEF RoundsOK
  <2>. QED
    BY <2>1, <2>3, <2>5, ForwardNext DEF BatchInv, ListsOK, Forwarded, Batch!AnswerTruthful,
       Batch!SuccessHasWriter, Batch!FailureListed, Batch!EveryDeleteAnswered, Batch!Done
<1>. QED
  BY <1>12, <1>13

LEMMA LocalDoneKeeps ==
    ASSUME WellBatched, BatchInv, Batch!LocalDone
    PROVE  BatchInv'
<1>1. /\ bt.pc = "local" /\ bt.rounds = <<>> /\ bt' = [bt EXCEPT !.pc = "forward"]
      /\ UNCHANGED <<docs, rows, held, races>>
  BY DEF Batch!LocalDone
<1>2. bt \in BatchState
  BY DEF BatchInv, BatchTyped
<1>3. /\ bt' \in BatchState /\ Steady /\ bt'.pc = "forward"
      /\ bt'.wrote = bt.wrote /\ bt'.S = bt.S /\ bt'.E = bt.E /\ bt'.replaces = bt.replaces
      /\ bt'.rounds = <<>> /\ bt'.created = bt.created /\ bt'.rok = bt.rok
      /\ bt'.rerr = bt.rerr /\ bt'.acked = bt.acked /\ bt'.failed = bt.failed
      /\ bt'.next = bt.next /\ bt'.ent = bt.ent
  BY <1>1, <1>2 DEF BatchState, Steady
<1>4. /\ \A k : Meant(k)' = Meant(k) /\ Batch!Id(k)' = Batch!Id(k)
  BY <1>3, SteadyPlan
<1>5. BatchTyped'
  BY <1>1, <1>3 DEF BatchInv, BatchTyped, Steady
<1>6. ListsOK'
  BY <1>1, <1>3 DEF BatchInv, ListsOK
<1>7. bt.mode # "delete" /\ bt'.mode # "delete"
  BY <1>1, <1>3 DEF BatchInv, RoundsOK, Steady
<1>8. ASSUME NEW k \in DOMAIN bt'.items, Meant(k)'
      PROVE  Batch!Id(k)' \in bt'.wrote \cup bt'.E
  <2>1. DOMAIN bt.rounds = {} /\ k \in DOMAIN bt.items /\ Meant(k)
    BY <1>1, <1>3, <1>4, <1>8 DEF Steady
  <2>2. \/ Batch!Id(k) \in bt.wrote \cup bt.E
        \/ \E n \in DOMAIN bt.rounds : k \in bt.rounds[n]
    BY <1>1, <1>7, <2>1 DEF BatchInv, RoundsOK
  <2>. QED
    BY <1>3, <1>4, <2>1, <2>2
<1>9. RoundsOK'
  BY <1>3, <1>7, <1>8 DEF RoundsOK
<1>10. bt.next = 1 /\ bt.ent = 1
  BY <1>1 DEF BatchInv, ForwardOK, Forwarded
<1>11. ForwardOK'
  <2>1. bt'.regs \in Seq(Compiled)
    BY <1>3 DEF BatchState
  <2>. QED
    BY <1>3, <1>10, <2>1, ForwardBegins, ForwardNext
<1>12. Batch!AnswerTruthful'
  BY <1>3 DEF Batch!AnswerTruthful, Batch!SuccessHasWriter, Batch!FailureListed,
     Batch!EveryDeleteAnswered, Batch!Done
<1>. QED
  BY <1>5, <1>6, <1>9, <1>11, <1>12 DEF BatchInv

LEMMA DeleteKeeps ==
    ASSUME WellBatched, BatchInv, Batch!batch_delete
    PROVE  BatchInv'
<1>. DEFINE hit == {k \in DOMAIN bt.items : /\ rows[Batch!Id(k)] # Absent
                                            /\ \A j \in 1..k-1 : Batch!Id(j) # Batch!Id(k)}
            f == [e \in {Batch!Id(k) : k \in hit} |-> Absent]
            w == {Batch!Id(k) : k \in hit}
            m == {Batch!Id(k) : k \in DOMAIN bt.items \ hit}
<1>1. /\ bt.pc = "delete" /\ Batch!WriteRows(f)
      /\ bt' = [bt EXCEPT !.pc = "forward", !.wrote = w, !.S = w, !.missed = m]
      /\ UNCHANGED <<docs, held, races>>
  BY DEF Batch!batch_delete
<1>2. /\ docs \in Catalogue /\ bt \in BatchState /\ rows \in BatchRows(Len(bt.items))
      /\ held \in [Sources -> SUBSET Ents] /\ races \in 0..MaxRaces
      /\ \A n \in DOMAIN bt.rounds : bt.rounds[n] \subseteq DOMAIN bt.items
      /\ bt.replaces \subseteq DOMAIN bt.items
  BY DEF BatchInv, BatchTyped
<1>3. \A k \in DOMAIN bt.items : Batch!Id(k) \in Ents
  BY ItemsAre DEF BatchInv
<1>4. \A k \in DOMAIN bt.items : Batch!Id(k) \in w \cup m
  OBVIOUS
<1>5. w \in SUBSET Ents /\ m \in SUBSET Ents
  BY <1>3
<1>6. rows' \in BatchRows(Len(bt.items))
  <2>1. \A e \in DOMAIN f : f[e] \in BatchRow(Len(bt.items)) \cup {Absent}
    OBVIOUS
  <2>2. Len(bt.items) \in Nat
    BY ItemsAre DEF BatchInv
  <2>. HIDE DEF f
  <2>. QED
    BY <1>1, <1>2, <2>1, <2>2, RowsWritten
<1>. HIDE DEF hit, w, m, f
<1>7. bt.next = 1 /\ bt.ent = 1 /\ bt.mode = "delete" /\ bt.created = {}
  BY <1>1 DEF BatchInv, ForwardOK, Forwarded, RoundsOK
<1>8. /\ bt' \in BatchState /\ Steady /\ bt'.pc = "forward"
      /\ bt'.wrote = w /\ bt'.S = w /\ bt'.missed = m /\ bt'.E = bt.E /\ bt'.replaces = bt.replaces
      /\ bt'.rounds = bt.rounds /\ bt'.created = bt.created /\ bt'.rok = bt.rok
      /\ bt'.rerr = bt.rerr /\ bt'.acked = bt.acked /\ bt'.failed = bt.failed
      /\ bt'.next = bt.next /\ bt'.ent = bt.ent
  BY <1>1, <1>2, <1>5 DEF BatchState, Steady
<1>9. \A k : Batch!Id(k)' = Batch!Id(k)
  BY <1>8, SteadyPlan
<1>10. BatchTyped'
  BY <1>1, <1>2, <1>6, <1>8 DEF BatchTyped, Steady
<1>11. ListsOK'
  BY <1>1, <1>7, <1>8 DEF BatchInv, ListsOK
<1>12. RoundsOK'
  BY <1>4, <1>7, <1>8, <1>9 DEF RoundsOK, Steady
<1>13. ForwardOK'
  <2>1. bt'.regs \in Seq(Compiled)
    BY <1>8 DEF BatchState
  <2>. QED
    BY <1>7, <1>8, <2>1, ForwardBegins, ForwardNext
<1>14. Batch!AnswerTruthful'
  BY <1>8 DEF Batch!AnswerTruthful, Batch!SuccessHasWriter, Batch!FailureListed,
     Batch!EveryDeleteAnswered, Batch!Done
<1>. QED
  BY <1>10, <1>11, <1>12, <1>13, <1>14 DEF BatchInv

\* A step of the forwarding that accounts for what it handles.
LEMMA OnwardKeeps ==
    ASSUME WellBatched, BatchInv, Batch!Turn, Steady, UNCHANGED <<docs, rows, races>>,
           held' \in [Sources -> SUBSET Ents], bt' \in BatchState, bt'.pc = "forward",
           bt'.rounds = bt.rounds, bt'.replaces = bt.replaces, bt'.S = bt.S, bt'.E = bt.E,
           bt'.wrote = bt.wrote, bt'.missed = bt.missed,
           bt.acked \subseteq bt'.acked, bt.rerr \subseteq bt'.rerr,
           bt'.rok \subseteq bt'.acked, bt'.failed \subseteq bt'.rerr,
           bt'.created \subseteq bt'.wrote \cup bt'.acked,
           NEW ks, ks = Batch!Share(bt, Batch!Reg),
           \/ /\ bt'.next = bt.next + 1 /\ bt'.ent = 1
              /\ Batch!is_proxy(Batch!Reg) => \A k \in ks : Settled(bt', k)
           \/ /\ bt'.next = bt.next /\ bt'.ent = bt.ent + 1 /\ bt'.ent <= Cardinality(ks)
              /\ Settled(bt', Batch!Nth(ks, bt.ent))
           \/ bt'.next = bt.next /\ bt'.ent = bt.ent
    PROVE  BatchInv'
<1>1. /\ bt.pc = "forward" /\ bt.next \in DOMAIN bt.regs /\ Batch!Reg = bt.regs[bt.next]
  BY DEF Batch!Turn, Batch!Reg
<1>2. \A k : Meant(k)' = Meant(k) /\ Batch!Id(k)' = Batch!Id(k)
  BY SteadyPlan
<1>3. \A r : Batch!Share(bt', r) = Batch!Share(bt, r)
  BY PlanOf DEF Steady
<1>4. \A k : Settled(bt, k) => Settled(bt', k)
  BY DEF Settled, Steady
<1>5. /\ bt.next \in Nat /\ bt.ent \in Nat /\ bt.regs \in Seq(Compiled) /\ bt'.regs = bt.regs
  BY DEF BatchInv, BatchTyped, BatchState, Steady
<1>6. BatchTyped'
  BY <1>1 DEF BatchInv, BatchTyped, Steady
<1>7. ListsOK'
  BY <1>1 DEF BatchInv, ListsOK
<1>8. RoundsOK'
  BY <1>1, <1>2 DEF BatchInv, RoundsOK, Steady
<1>9. Batch!AnswerTruthful'
  BY DEF Batch!AnswerTruthful, Batch!SuccessHasWriter, Batch!FailureListed,
     Batch!EveryDeleteAnswered, Batch!Done
<1>10. /\ bt.next >= 1 /\ bt.ent >= 1
       /\ \A n \in DOMAIN bt.regs : n < bt.next => Resolved(bt, n)
       /\ bt.ent = 1 \/ bt.ent <= Cardinality(ks)
       /\ \A m \in 1..(bt.ent - 1) : Settled(bt, Batch!Nth(ks, m))
  BY <1>1 DEF BatchInv, ForwardOK, Forwarded
<1>11. \A n : Resolved(bt, n) => Resolved(bt', n)
  BY <1>3, <1>4, <1>5 DEF Resolved
<1>12. Forwarded(bt')
  <2>1. CASE /\ bt'.next = bt.next + 1 /\ bt'.ent = 1
             /\ Batch!is_proxy(Batch!Reg) => \A k \in ks : Settled(bt', k)
    <3>1. Resolved(bt', bt.next)
      BY <1>1, <1>3, <1>5, <2>1 DEF Resolved
    <3>2. ASSUME NEW n \in DOMAIN bt'.regs, n < bt'.next
          PROVE  Resolved(bt', n)
      <4>1. n \in Nat /\ n \in DOMAIN bt.regs
        BY <1>5
      <4>2. n < bt.next \/ n = bt.next
        BY <1>5, <2>1, <3>2, <4>1
      <4>. QED
        BY <1>10, <1>11, <3>1, <4>1, <4>2
    <3>3. bt'.next >= 1 /\ 1..(1 - 1) = {}
      BY <1>5, <1>10, <2>1
    <3>. QED
      BY <2>1, <3>2, <3>3 DEF Forwarded
  <2>2. CASE /\ bt'.next = bt.next /\ bt'.ent = bt.ent + 1 /\ bt'.ent <= Cardinality(ks)
             /\ Settled(bt', Batch!Nth(ks, bt.ent))
    <3>1. ASSUME NEW m \in 1..(bt'.ent - 1)
          PROVE  Settled(bt', Batch!Nth(ks, m))
      <4>1. m = bt.ent \/ m \in 1..(bt.ent - 1)
        BY <1>5, <2>2
      <4>. QED
        BY <1>4, <1>10, <2>2, <4>1
    <3>2. bt'.ent >= 1
      BY <1>5, <1>10, <2>2
    <3>3. Batch!Share(bt', bt'.regs[bt'.next]) = ks
      BY <1>1, <1>3, <1>5, <2>2
    <3>. QED
      BY <1>5, <1>10, <1>11, <2>2, <3>1, <3>2, <3>3 DEF Forwarded
  <2>3. CASE bt'.next = bt.next /\ bt'.ent = bt.ent
    <3>1. Batch!Share(bt', bt'.regs[bt'.next]) = ks
      BY <1>1, <1>3, <1>5, <2>3
    <3>. QED
      BY <1>4, <1>5, <1>10, <1>11, <2>3, <3>1 DEF Forwarded
  <2>. QED
    BY <2>1, <2>2, <2>3
<1>. QED
  BY <1>6, <1>7, <1>8, <1>9, <1>12, ForwardNext DEF BatchInv

\* c is as b but for the place in the forwarding.
CarriesOver(c, b) ==
    /\ c.pc = b.pc /\ c.mode = b.mode /\ c.items = b.items /\ c.regs = b.regs /\ c.upd = b.upd
    /\ c.over = b.over /\ c.was = b.was /\ c.rounds = b.rounds /\ c.replaces = b.replaces
    /\ c.S = b.S /\ c.E = b.E /\ c.wrote = b.wrote /\ c.missed = b.missed /\ c.acked = b.acked
    /\ c.rerr = b.rerr /\ c.rok = b.rok /\ c.failed = b.failed /\ c.created = b.created

PlacedAt(b, n, m, s) == [b EXCEPT !.next = n, !.ent = m, !.second = s]

LEMMA Moved ==
    ASSUME NEW b \in BatchState, NEW n \in Nat, NEW m \in Nat,
           NEW c, \E s \in BOOLEAN : c = PlacedAt(b, n, m, s)
    PROVE  c \in BatchState /\ CarriesOver(c, b) /\ c.next = n /\ c.ent = m
<1>. PICK s \in BOOLEAN : c = PlacedAt(b, n, m, s)
  OBVIOUS
<1>. DEFINE c1 == [b EXCEPT !.next = n]
            c2 == [c1 EXCEPT !.ent = m]
<1>1. c1 \in BatchState /\ CarriesOver(c1, b) /\ c1.next = n
  BY DEF BatchState, CarriesOver
<1>. HIDE DEF c1
<1>2. c2 \in BatchState /\ CarriesOver(c2, b) /\ c2.next = n /\ c2.ent = m
  BY <1>1 DEF BatchState, CarriesOver
<1>. HIDE DEF c2
<1>3. [c2 EXCEPT !.second = s] \in BatchState
  BY <1>2 DEF BatchState
<1>4. c = [c2 EXCEPT !.second = s]
  BY DEF c1, c2, PlacedAt
<1>5. CarriesOver(c, c2) /\ c.next = c2.next /\ c.ent = c2.ent
  BY <1>2, <1>4 DEF BatchState, CarriesOver
<1>. QED
  BY <1>2, <1>3, <1>4, <1>5 DEF CarriesOver

\* On to the next registration.
LEMMA OnwardOf ==
    ASSUME NEW b \in BatchState, NEW c, c = Batch!Onward(b)
    PROVE  c \in BatchState /\ CarriesOver(c, b) /\ c.next = b.next + 1 /\ c.ent = 1
<1>1. \E s \in BOOLEAN : c = PlacedAt(b, b.next + 1, 1, s)
  <2>1. c = PlacedAt(b, b.next + 1, 1, FALSE)
    BY DEF Batch!Onward, PlacedAt
  <2>. QED
    BY <2>1, Zenon
<1>2. b.next + 1 \in Nat /\ 1 \in Nat
  BY DEF BatchState
<1>. QED
  BY <1>1, <1>2, Moved

\* The registration whose turn it is, its source and its share.
LEMMA TurnOf ==
    ASSUME WellBatched, BatchInv, Batch!Turn
    PROVE  /\ bt.pc = "forward" /\ Batch!Reg.src \in Sources
           /\ Batch!Share(bt, Batch!Reg) \in SUBSET (DOMAIN bt.items)
           /\ held[Batch!Reg.src] \in SUBSET Ents
           /\ bt.created \subseteq bt.wrote \cup bt.acked
           /\ bt.rok \subseteq bt.acked /\ bt.failed \subseteq bt.rerr
           /\ bt \in BatchState /\ held \in [Sources -> SUBSET Ents]
           /\ \A k \in DOMAIN bt.items : Batch!Id(k) = bt.items[k].id /\ bt.items[k].id \in Ents
<1>1. bt.regs \in Seq(Compiled) /\ held \in [Sources -> SUBSET Ents] /\ bt \in BatchState
  BY DEF BatchInv, BatchTyped, BatchState
<1>2. bt.pc = "forward" /\ bt.regs[bt.next] \in Compiled
  BY <1>1 DEF Batch!Turn
<1>3. PICK d \in AllDocs, S \in SUBSET AllInfos : bt.regs[bt.next] = Writes!Compile(d, S)
  BY <1>2 DEF Compiled
<1>4. bt.regs[bt.next].src = d.src
  BY <1>3 DEF Writes!Compile
<1>5. d.src \in Sources
  BY DEF AllDocs, WellBatched
<1>6. Batch!Share(bt, Batch!Reg) \in SUBSET (DOMAIN bt.items)
  BY DEF Batch!Share
<1>7. \A k \in DOMAIN bt.items : Batch!Id(k) = bt.items[k].id /\ bt.items[k].id \in Ents
  BY ItemsAre DEF BatchInv, Batch!Id
<1>. QED
  BY <1>1, <1>2, <1>4, <1>5, <1>6, <1>7 DEF Batch!Reg, BatchInv, ListsOK

LEMMA ForwardBatchKeeps ==
    ASSUME WellBatched, BatchInv, Batch!ForwardBatch
    PROVE  BatchInv'
<1>. DEFINE ks == Batch!Share(bt, Batch!Reg)
            sent == SentIds(bt, ks)
<1>1. /\ Batch!Turn /\ UNCHANGED <<docs, rows, races>>
      /\ \E a \in Batch!Replies(bt, ks, held[Batch!Reg.src]) :
           /\ held' = [held EXCEPT ![Batch!Reg.src] = a.held]
           /\ bt' = Batch!Onward(Batch!merge_remote_batch(bt, a, Batch!ShareIds(ks)))
  BY DEF Batch!ForwardBatch
<1>2. PICK a \in Batch!Replies(bt, ks, held[Batch!Reg.src]) :
           /\ held' = [held EXCEPT ![Batch!Reg.src] = a.held]
           /\ bt' = Batch!Onward(Batch!merge_remote_batch(bt, a, Batch!ShareIds(ks)))
  BY <1>1
<1>3. /\ bt.pc = "forward" /\ Batch!Reg.src \in Sources /\ ks \in SUBSET (DOMAIN bt.items)
      /\ held[Batch!Reg.src] \in SUBSET Ents /\ bt.created \subseteq bt.wrote \cup bt.acked
      /\ bt.rok \subseteq bt.acked /\ bt.failed \subseteq bt.rerr
      /\ bt \in BatchState /\ held \in [Sources -> SUBSET Ents]
      /\ \A k \in DOMAIN bt.items : Batch!Id(k) = bt.items[k].id /\ bt.items[k].id \in Ents
  BY <1>1, TurnOf
<1>4. Batch!ShareIds(ks) = sent
  BY <1>3 DEF Batch!ShareIds, SentIds
<1>5. /\ a.held \in SUBSET Ents /\ a.took \subseteq sent /\ sent \subseteq Ents
      /\ OkOf(a, sent) \subseteq a.took
      /\ ErrOf(a, sent) \subseteq sent
      /\ sent \ a.took \subseteq ErrOf(a, sent)
  <2>1. \A k \in ks : bt.items[k].id \in Ents
    BY <1>3
  <2>. HIDE DEF ks
  <2>. QED
    BY <1>3, <2>1, ReplySound
<1>. DEFINE ok == OkOf(a, sent)
            err == ErrOf(a, sent)
            made == IF a.new THEN bt.created \cup ok ELSE bt.created
            b == [bt EXCEPT !.rok = bt.rok \cup ok, !.rerr = bt.rerr \cup err, !.created = made,
                            !.acked = bt.acked \cup a.took,
                            !.failed = bt.failed \cup (sent \ a.took)]
<1>6. Batch!merge_remote_batch(bt, a, sent) = b
  <2>1. Batch!merge_remote_batch(bt, a, sent)
        = [bt EXCEPT !.rok = @ \cup ok, !.rerr = @ \cup err,
                     !.created = IF a.new THEN @ \cup ok ELSE @,
                     !.acked = @ \cup a.took, !.failed = @ \cup (sent \ a.took)]
    BY MergeRemote
  <2>. QED
    BY <2>1
<1>7. \A k \in ks : bt.items[k].id \in sent
  BY DEF SentIds
<1>. HIDE DEF sent, ks, ok, err
<1>8. bt' = Batch!Onward(b)
  BY <1>2, <1>4, <1>6
<1>9. /\ bt.rok \in SUBSET Ents /\ bt.rerr \in SUBSET Ents /\ bt.created \in SUBSET Ents
      /\ bt.acked \in SUBSET Ents /\ bt.failed \in SUBSET Ents /\ bt.next \in Nat
      /\ bt.rok \cup ok \in SUBSET Ents /\ bt.rerr \cup err \in SUBSET Ents
      /\ made \in SUBSET Ents /\ bt.acked \cup a.took \in SUBSET Ents
      /\ bt.failed \cup (sent \ a.took) \in SUBSET Ents
  BY <1>3, <1>5 DEF BatchState, ok, err
<1>10. /\ made \subseteq bt.wrote \cup (bt.acked \cup a.took)
       /\ bt.rok \cup ok \subseteq bt.acked \cup a.took
       /\ bt.failed \cup (sent \ a.took) \subseteq bt.rerr \cup err
       /\ \A k \in ks : bt.items[k].id \in (bt.acked \cup a.took) \cup (bt.rerr \cup err)
  BY <1>3, <1>5, <1>7 DEF ok, err
<1>. HIDE DEF made
<1>11. /\ b \in BatchState /\ b.next = bt.next /\ b.pc = "forward"
       /\ b.mode = bt.mode /\ b.items = bt.items /\ b.regs = bt.regs
       /\ b.upd = bt.upd /\ b.over = bt.over /\ b.was = bt.was
       /\ b.rounds = bt.rounds /\ b.replaces = bt.replaces /\ b.S = bt.S /\ b.E = bt.E
       /\ b.wrote = bt.wrote /\ b.missed = bt.missed
       /\ b.acked = bt.acked \cup a.took /\ b.rerr = bt.rerr \cup err
       /\ b.rok = bt.rok \cup ok /\ b.failed = bt.failed \cup (sent \ a.took)
       /\ b.created = made
  BY <1>3, <1>9 DEF BatchState
<1>. HIDE DEF b
<1>12. /\ bt' \in BatchState /\ Steady /\ bt'.pc = "forward"
       /\ bt'.rounds = bt.rounds /\ bt'.replaces = bt.replaces /\ bt'.S = bt.S /\ bt'.E = bt.E
       /\ bt'.wrote = bt.wrote /\ bt'.missed = bt.missed
       /\ bt'.acked = bt.acked \cup a.took /\ bt'.rerr = bt.rerr \cup err
       /\ bt'.rok = bt.rok \cup ok /\ bt'.failed = bt.failed \cup (sent \ a.took)
       /\ bt'.created = made /\ bt'.next = bt.next + 1 /\ bt'.ent = 1
  <2>1. bt' \in BatchState /\ CarriesOver(bt', b) /\ bt'.next = b.next + 1 /\ bt'.ent = 1
    BY <1>8, <1>11, OnwardOf
  <2>. QED
    BY <1>11, <2>1 DEF CarriesOver, Steady
<1>13. held' \in [Sources -> SUBSET Ents]
  BY <1>2, <1>3, <1>5
<1>14. \A k \in ks : Settled(bt', k)
  BY <1>10, <1>12 DEF Settled, Steady
<1>. QED
  BY <1>1, <1>10, <1>12, <1>13, <1>14, OnwardKeeps DEF ks

LEMMA PassOverKeeps ==
    ASSUME WellBatched, BatchInv, Batch!PassOver
    PROVE  BatchInv'
<1>. DEFINE ks == Batch!Share(bt, Batch!Reg)
            refused == /\ ks # {} /\ ~Batch!supports(Batch!Reg, Batch!BatchOp[bt.mode])
                       /\ Batch!fallback(bt, Batch!Reg) = "none"
            more == IF refused /\ Batch!is_proxy(Batch!Reg) THEN Batch!ShareIds(ks) ELSE {}
            b == [bt EXCEPT !.rerr = @ \cup more, !.failed = @ \cup more]
<1>1. /\ Batch!Turn /\ UNCHANGED <<docs, rows, races, held>> /\ (ks = {} \/ refused)
      /\ bt' = Batch!Onward(b)
  BY DEF Batch!PassOver
<1>2. /\ bt.pc = "forward" /\ ks \in SUBSET (DOMAIN bt.items)
      /\ bt.created \subseteq bt.wrote \cup bt.acked
      /\ bt.rok \subseteq bt.acked /\ bt.failed \subseteq bt.rerr
      /\ bt \in BatchState /\ held \in [Sources -> SUBSET Ents]
      /\ \A k \in DOMAIN bt.items : Batch!Id(k) = bt.items[k].id /\ bt.items[k].id \in Ents
  BY <1>1, TurnOf
<1>3. more \in SUBSET Ents /\ (refused /\ Batch!is_proxy(Batch!Reg) => \A k \in ks : bt.items[k].id \in more)
  <2>1. Batch!ShareIds(ks) \in SUBSET Ents /\ \A k \in ks : bt.items[k].id \in Batch!ShareIds(ks)
    BY <1>2 DEF Batch!ShareIds
  <2>. HIDE DEF refused, ks
  <2>. QED
    BY <2>1
<1>. HIDE DEF more, refused, ks
<1>4. /\ b \in BatchState /\ b.next = bt.next /\ b.pc = "forward"
      /\ b.mode = bt.mode /\ b.items = bt.items /\ b.regs = bt.regs
      /\ b.upd = bt.upd /\ b.over = bt.over /\ b.was = bt.was
      /\ b.rounds = bt.rounds /\ b.replaces = bt.replaces /\ b.S = bt.S /\ b.E = bt.E
      /\ b.wrote = bt.wrote /\ b.missed = bt.missed
      /\ b.acked = bt.acked /\ b.rerr = bt.rerr \cup more
      /\ b.rok = bt.rok /\ b.failed = bt.failed \cup more /\ b.created = bt.created
  <2>1. bt.rerr \cup more \in SUBSET Ents /\ bt.failed \cup more \in SUBSET Ents
    BY <1>2, <1>3 DEF BatchState
  <2>. QED
    BY <1>2, <2>1 DEF BatchState
<1>. HIDE DEF b
<1>5. /\ bt' \in BatchState /\ Steady /\ bt'.pc = "forward"
      /\ bt'.rounds = bt.rounds /\ bt'.replaces = bt.replaces /\ bt'.S = bt.S /\ bt'.E = bt.E
      /\ bt'.wrote = bt.wrote /\ bt'.missed = bt.missed
      /\ bt'.acked = bt.acked /\ bt'.rerr = bt.rerr \cup more
      /\ bt'.rok = bt.rok /\ bt'.failed = bt.failed \cup more
      /\ bt'.created = bt.created /\ bt'.next = bt.next + 1 /\ bt'.ent = 1
  <2>1. bt' \in BatchState /\ CarriesOver(bt', b) /\ bt'.next = b.next + 1 /\ bt'.ent = 1
    BY <1>1, <1>4, OnwardOf
  <2>. QED
    BY <1>4, <2>1 DEF CarriesOver, Steady
<1>6. Batch!is_proxy(Batch!Reg) => \A k \in ks : Settled(bt', k)
  BY <1>1, <1>3, <1>5 DEF Settled, Steady
<1>7. held' \in [Sources -> SUBSET Ents]
  BY <1>1, <1>2
<1>. QED
  BY <1>1, <1>2, <1>5, <1>6, <1>7, OnwardKeeps DEF ks

\* What a source answers to one entity operation.
LEMMA OneReply ==
    ASSUME NEW op, NEW k, Batch!Id(k) \in Ents, NEW h \in SUBSET Ents,
           NEW a \in Batch!OneReplies(op, k, h)
    PROVE  /\ a.held \in SUBSET Ents /\ a.took \in SUBSET {Batch!Id(k)}
           /\ a.status = "ok" => a.took = {Batch!Id(k)}
<1>. DEFINE e == Batch!Id(k)
            fits == bt.items[k].kind = "ok" /\ (op = "createEntity" <=> e \notin h)
            to == IF op = "deleteEntity" THEN h \ {e} ELSE h \cup {e}
            st == IF op = "createEntity" /\ e \in h /\ bt.items[k].kind = "ok"
                  THEN "exists" ELSE "refused"
            honest == IF fits THEN [status |-> "ok", took |-> {e}, held |-> to]
                      ELSE [status |-> st, took |-> {}, held |-> h]
            down == [status |-> "fail", took |-> {}, held |-> h]
            late == [honest EXCEPT !.status = "fail"]
<1>1. a = honest \/ a = down \/ a = late
  BY DEF Batch!OneReplies
<1>2. to \in SUBSET Ents /\ st # "ok"
  OBVIOUS
<1>. HIDE DEF fits, to, st, e
<1>3. /\ honest.held \in SUBSET Ents /\ honest.took \in SUBSET {e}
      /\ honest.status = "ok" => honest.took = {e}
      /\ late.held = honest.held /\ late.took = honest.took /\ late.status = "fail"
  BY <1>2
<1>4. down.held \in SUBSET Ents /\ down.took = {} /\ down.status = "fail"
  OBVIOUS
<1>. HIDE DEF honest, down, late
<1>. QED
  BY <1>1, <1>3, <1>4 DEF e

\* c is as b but for the accounts of the sources.
Steadied(c, b) ==
    /\ c.pc = b.pc /\ c.mode = b.mode /\ c.items = b.items /\ c.regs = b.regs /\ c.upd = b.upd
    /\ c.over = b.over /\ c.was = b.was /\ c.rounds = b.rounds /\ c.replaces = b.replaces
    /\ c.S = b.S /\ c.E = b.E /\ c.wrote = b.wrote /\ c.missed = b.missed
    /\ c.next = b.next /\ c.ent = b.ent

LEMMA ForwardOneKeeps ==
    ASSUME WellBatched, BatchInv, Batch!ForwardOne
    PROVE  BatchInv'
<1>. DEFINE ks == Batch!Share(bt, Batch!Reg)
            k == Batch!Nth(ks, bt.ent)
            op == IF bt.second THEN Batch!upsert_second(bt, Batch!Reg)
                  ELSE Batch!fallback(bt, Batch!Reg)
            step(d) == IF bt.ent = Batch!Cardinality(ks) THEN Batch!Onward(d)
                       ELSE [d EXCEPT !.ent = @ + 1, !.second = FALSE]
<1>1. /\ Batch!Turn /\ UNCHANGED <<docs, rows, races>> /\ ks # {}
      /\ \E a \in Batch!OneReplies(op, k, held[Batch!Reg.src]) :
           LET b == [bt EXCEPT !.acked = @ \cup a.took, !.failed = @ \cup ({Batch!Id(k)} \ a.took)]
               retried == a.status = "exists" /\ bt.mode = "upsert" /\ ~bt.second
                          /\ Batch!upsert_second(bt, Batch!Reg) # "none"
           IN /\ held' = [held EXCEPT ![Batch!Reg.src] = a.held]
              /\ bt' = CASE retried -> [bt EXCEPT !.second = TRUE]
                         [] ~retried /\ a.status = "ok" ->
                              step([b EXCEPT !.rok = @ \cup {Batch!Id(k)},
                                             !.created = IF op = "createEntity" THEN @ \cup {Batch!Id(k)} ELSE @])
                         [] OTHER -> step([b EXCEPT !.rerr = @ \cup {Batch!Id(k)}])
  BY DEF Batch!ForwardOne
<1>2. /\ bt.pc = "forward" /\ Batch!Reg.src \in Sources /\ ks \in SUBSET (DOMAIN bt.items)
      /\ held[Batch!Reg.src] \in SUBSET Ents /\ bt.created \subseteq bt.wrote \cup bt.acked
      /\ bt.rok \subseteq bt.acked /\ bt.failed \subseteq bt.rerr
      /\ bt \in BatchState /\ held \in [Sources -> SUBSET Ents]
      /\ \A j \in DOMAIN bt.items : Batch!Id(j) = bt.items[j].id /\ bt.items[j].id \in Ents
  BY <1>1, TurnOf
<1>3. /\ bt.ent \in Nat /\ bt.ent >= 1 /\ (bt.ent = 1 \/ bt.ent <= Cardinality(ks))
      /\ \A m \in 1..(bt.ent - 1) : Settled(bt, Batch!Nth(ks, m))
  <2>1. bt.ent \in Nat
    BY <1>2 DEF BatchState
  <2>. QED
    BY <1>1, <2>1 DEF BatchInv, ForwardOK, Forwarded, Batch!Turn, Batch!Reg
<1>4. /\ Cardinality(ks) \in Nat /\ Batch!Cardinality(ks) = Cardinality(ks)
      /\ \A j \in ks : \E m \in 1..Cardinality(ks) : Batch!Nth(ks, m) = j
      /\ \A m \in 1..Cardinality(ks) : Batch!Nth(ks, m) \in ks
      /\ Cardinality(ks) >= 1
  <2>1. PICK N \in Nat : DOMAIN bt.items = 1..N
    BY ItemsAre DEF BatchInv
  <2>2. ks \in SUBSET (1..N)
    BY <1>2, <2>1
  <2>. HIDE DEF ks
  <2>. QED
    BY <1>1, <2>2, NthOf
<1>5. bt.ent \in 1..Cardinality(ks) /\ k \in ks
  BY <1>3, <1>4
<1>6. PICK a \in Batch!OneReplies(op, k, held[Batch!Reg.src]) :
           LET b == [bt EXCEPT !.acked = @ \cup a.took, !.failed = @ \cup ({Batch!Id(k)} \ a.took)]
               retried == a.status = "exists" /\ bt.mode = "upsert" /\ ~bt.second
                          /\ Batch!upsert_second(bt, Batch!Reg) # "none"
           IN /\ held' = [held EXCEPT ![Batch!Reg.src] = a.held]
              /\ bt' = CASE retried -> [bt EXCEPT !.second = TRUE]
                         [] ~retried /\ a.status = "ok" ->
                              step([b EXCEPT !.rok = @ \cup {Batch!Id(k)},
                                             !.created = IF op = "createEntity" THEN @ \cup {Batch!Id(k)} ELSE @])
                         [] OTHER -> step([b EXCEPT !.rerr = @ \cup {Batch!Id(k)}])
  BY <1>1
<1>. DEFINE e == Batch!Id(k)
            acked == bt.acked \cup a.took
            failed == bt.failed \cup ({e} \ a.took)
            made == IF op = "createEntity" THEN bt.created \cup {e} ELSE bt.created
            b == [bt EXCEPT !.acked = acked, !.failed = failed]
            good == [b EXCEPT !.rok = b.rok \cup {e},
                              !.created = IF op = "createEntity" THEN b.created \cup {e} ELSE b.created]
            bad == [b EXCEPT !.rerr = b.rerr \cup {e}]
<1>7. /\ held' = [held EXCEPT ![Batch!Reg.src] = a.held]
      /\ \/ bt' = [bt EXCEPT !.second = TRUE]
         \/ a.status = "ok" /\ bt' = step(good)
         \/ bt' = step(bad)
  BY <1>6
<1>8. e \in Ents /\ e = bt.items[k].id
  BY <1>2, <1>5
<1>9. /\ a.held \in SUBSET Ents /\ a.took \in SUBSET {e}
      /\ a.status = "ok" => a.took = {e}
  <2>. HIDE DEF op, k
  <2>. QED
    BY <1>2, <1>8, OneReply
<1>10. held' \in [Sources -> SUBSET Ents]
  BY <1>2, <1>7, <1>9
<1>. HIDE DEF k, op, ks
<1>11. /\ acked \in SUBSET Ents /\ failed \in SUBSET Ents /\ bt.rok \cup {e} \in SUBSET Ents
       /\ bt.rerr \cup {e} \in SUBSET Ents /\ made \in SUBSET Ents
  BY <1>2, <1>8, <1>9 DEF BatchState
<1>12. CASE bt' = [bt EXCEPT !.second = TRUE]
  <2>1. bt.next \in Nat /\ bt.ent \in Nat
    BY <1>2 DEF BatchState
  <2>2. \E s \in BOOLEAN : bt' = PlacedAt(bt, bt.next, bt.ent, s)
    <3>1. bt' = PlacedAt(bt, bt.next, bt.ent, TRUE)
      BY <1>2, <1>12 DEF BatchState, PlacedAt
    <3>. QED
      BY <3>1, Zenon
  <2>3. bt' \in BatchState /\ CarriesOver(bt', bt) /\ bt'.next = bt.next /\ bt'.ent = bt.ent
    BY <1>2, <2>1, <2>2, Moved
  <2>4. Steady /\ bt'.pc = "forward"
    BY <1>2, <2>3 DEF CarriesOver, Steady
  <2>. QED
    BY <1>1, <1>2, <1>10, <2>3, <2>4, OnwardKeeps DEF CarriesOver, ks
<1>13. ASSUME NEW d \in BatchState, bt' = step(d), Steadied(d, bt), d.acked = acked,
              d.failed = failed, d.rok \subseteq acked, failed \subseteq d.rerr,
              bt.rerr \subseteq d.rerr, d.created \subseteq bt.wrote \cup acked,
              e \in acked \cup d.rerr
       PROVE  BatchInv'
  <2>1. CASE bt.ent = Cardinality(ks)
    <3>1. bt' = Batch!Onward(d)
      BY <1>4, <1>13, <2>1
    <3>2. bt' \in BatchState /\ CarriesOver(bt', d) /\ bt'.next = d.next + 1 /\ bt'.ent = 1
      BY <1>13, <3>1, OnwardOf
    <3>3. Steady /\ bt'.pc = "forward" /\ bt'.next = bt.next + 1
      BY <1>2, <1>13, <3>2 DEF CarriesOver, Steadied, Steady
    <3>4. \A j : Settled(bt, j) => Settled(bt', j)
      BY <1>13, <3>2, <3>3 DEF Settled, CarriesOver, Steady
    <3>5. Settled(bt', k)
      BY <1>8, <1>13, <3>2, <3>3 DEF Settled, CarriesOver, Steady
    <3>6. ASSUME NEW j \in ks
          PROVE  Settled(bt', j)
      <4>1. PICK m \in 1..Cardinality(ks) : Batch!Nth(ks, m) = j
        BY <1>4
      <4>2. m = bt.ent \/ m \in 1..(bt.ent - 1)
        BY <1>3, <1>4, <2>1
      <4>. QED
        BY <1>3, <3>4, <3>5, <4>1, <4>2 DEF k
    <3>7. /\ bt'.rounds = bt.rounds /\ bt'.replaces = bt.replaces /\ bt'.S = bt.S /\ bt'.E = bt.E
          /\ bt'.wrote = bt.wrote /\ bt'.missed = bt.missed
          /\ bt.acked \subseteq bt'.acked /\ bt.rerr \subseteq bt'.rerr
          /\ bt'.rok \subseteq bt'.acked /\ bt'.failed \subseteq bt'.rerr
          /\ bt'.created \subseteq bt'.wrote \cup bt'.acked
      BY <1>13, <3>2 DEF CarriesOver, Steadied
    <3>. QED
      BY <1>1, <1>10, <3>2, <3>3, <3>6, <3>7, OnwardKeeps DEF ks
  <2>2. CASE bt.ent # Cardinality(ks)
    <3>1. bt' = [d EXCEPT !.ent = d.ent + 1, !.second = FALSE]
      BY <1>4, <1>13, <2>2
    <3>2. d.next \in Nat /\ d.ent + 1 \in Nat /\ d.ent = bt.ent
      BY <1>13 DEF BatchState, Steadied
    <3>3. \E s \in BOOLEAN : bt' = PlacedAt(d, d.next, d.ent + 1, s)
      <4>1. bt' = PlacedAt(d, d.next, d.ent + 1, FALSE)
        BY <1>13, <3>1 DEF BatchState, PlacedAt
      <4>. QED
        BY <4>1, Zenon
    <3>4. bt' \in BatchState /\ CarriesOver(bt', d) /\ bt'.next = d.next /\ bt'.ent = d.ent + 1
      BY <1>13, <3>2, <3>3, Moved
    <3>5. Steady /\ bt'.pc = "forward" /\ bt'.next = bt.next
      BY <1>2, <1>13, <3>4 DEF CarriesOver, Steadied, Steady
    <3>6. Settled(bt', k)
      BY <1>8, <1>13, <3>4, <3>5 DEF Settled, CarriesOver, Steady
    <3>7. bt'.ent = bt.ent + 1 /\ bt'.ent <= Cardinality(ks)
      BY <1>4, <1>5, <2>2, <3>2, <3>4
    <3>8. /\ bt'.rounds = bt.rounds /\ bt'.replaces = bt.replaces /\ bt'.S = bt.S /\ bt'.E = bt.E
          /\ bt'.wrote = bt.wrote /\ bt'.missed = bt.missed
          /\ bt.acked \subseteq bt'.acked /\ bt.rerr \subseteq bt'.rerr
          /\ bt'.rok \subseteq bt'.acked /\ bt'.failed \subseteq bt'.rerr
          /\ bt'.created \subseteq bt'.wrote \cup bt'.acked
      BY <1>13, <3>4 DEF CarriesOver, Steadied
    <3>. QED
      BY <1>1, <1>10, <3>4, <3>5, <3>6, <3>7, <3>8, OnwardKeeps DEF ks, k
  <2>. QED
    BY <2>1, <2>2
<1>. HIDE DEF acked, failed, e, step
<1>14. /\ b \in BatchState /\ Steadied(b, bt) /\ b.acked = acked /\ b.failed = failed
       /\ b.rok = bt.rok /\ b.rerr = bt.rerr /\ b.created = bt.created
  BY <1>2, <1>11 DEF BatchState, Steadied
<1>. HIDE DEF b
<1>15. CASE a.status = "ok" /\ bt' = step(good)
  <2>1. /\ good \in BatchState /\ Steadied(good, b) /\ good.acked = b.acked
        /\ good.failed = b.failed /\ good.rok = bt.rok \cup {e} /\ good.rerr = b.rerr
        /\ good.created = made
    <3>1. good = [b EXCEPT !.rok = bt.rok \cup {e}, !.created = made]
      BY <1>14
    <3>. HIDE DEF good, made
    <3>. QED
      BY <1>11, <1>14, <3>1 DEF BatchState, Steadied
  <2>. HIDE DEF good
  <2>2. failed = bt.failed /\ acked = bt.acked \cup {e}
    BY <1>9, <1>15 DEF failed, acked
  <2>3. /\ bt.rok \cup {e} \subseteq acked /\ failed \subseteq bt.rerr
        /\ made \subseteq bt.wrote \cup acked /\ e \in acked
    BY <1>2, <2>2
  <2>. HIDE DEF made
  <2>. QED
    BY <1>13, <1>14, <1>15, <2>1, <2>3 DEF Steadied
<1>16. CASE bt' = step(bad)
  <2>1. /\ bad \in BatchState /\ Steadied(bad, b) /\ bad.acked = b.acked
        /\ bad.failed = b.failed /\ bad.rok = b.rok /\ bad.rerr = bt.rerr \cup {e}
        /\ bad.created = b.created
    <3>1. bad = [b EXCEPT !.rerr = bt.rerr \cup {e}]
      BY <1>14
    <3>. HIDE DEF bad
    <3>. QED
      BY <1>11, <1>14, <3>1 DEF BatchState, Steadied
  <2>. HIDE DEF bad
  <2>2. /\ bt.rok \subseteq acked /\ failed \subseteq bt.rerr \cup {e}
        /\ bt.created \subseteq bt.wrote \cup acked
    BY <1>2 DEF acked, failed
  <2>. QED
    BY <1>13, <1>14, <1>16, <2>1, <2>2 DEF Steadied
<1>. QED
  BY <1>7, <1>12, <1>15, <1>16

\* The answer, once every registration has been asked.
LEMMA AnswerKeeps ==
    ASSUME WellBatched, BatchInv, Batch!Answer
    PROVE  BatchInv'
<1>. DEFINE S == bt.S \cup bt.rok
            missing == Batch!missing_deletes(bt)
            E == bt.E \cup bt.rerr \cup missing
            new == bt.mode = "upsert" /\ bt.created # {} /\ E = {}
            listed == IF new THEN bt.created ELSE S
            ans == CASE E # {} -> "multi"
                     [] E = {} /\ bt.mode = "create" -> "created"
                     [] E = {} /\ bt.mode = "upsert" /\ bt.created # {} -> "created"
                     [] OTHER -> "done"
<1>1. /\ bt.pc = "forward" /\ bt.next \notin DOMAIN bt.regs
      /\ bt' = [bt EXCEPT !.pc = "done", !.E = E, !.S = listed, !.answer = ans]
      /\ UNCHANGED <<docs, rows, held, races>>
  BY DEF Batch!Answer
<1>2. /\ bt \in BatchState /\ bt.S \in SUBSET Ents /\ bt.E \in SUBSET Ents
      /\ bt.rok \in SUBSET Ents /\ bt.rerr \in SUBSET Ents /\ bt.created \in SUBSET Ents
      /\ bt.missed \in SUBSET Ents /\ bt.next \in Nat /\ bt.regs \in Seq(Compiled)
  BY DEF BatchInv, BatchTyped, BatchState
<1>3. /\ bt.created \subseteq bt.wrote \cup bt.acked /\ bt.rok \subseteq bt.acked
      /\ bt.failed \subseteq bt.rerr /\ bt.S \subseteq bt.wrote
  BY <1>1 DEF BatchInv, ListsOK
<1>4. missing \in SUBSET Ents /\ (bt.mode = "delete" => missing = bt.missed \ (bt.rok \cup bt.rerr))
  BY <1>2 DEF Batch!missing_deletes
<1>. HIDE DEF missing
<1>5. E \in SUBSET Ents /\ listed \in SUBSET Ents /\ listed \subseteq bt.wrote \cup bt.acked
  BY <1>2, <1>3, <1>4
<1>6. ans \in {"none", "created", "done", "multi"} /\ (ans = "multi" <=> E # {})
  <2>. HIDE DEF E
  <2>. QED
    OBVIOUS
<1>7. /\ E = {} => bt.E = {} /\ bt.rerr = {} /\ missing = {}
      /\ E # {} => listed = S
      /\ bt.E \cup bt.rerr \cup missing \subseteq E
  OBVIOUS
<1>. HIDE DEF ans, listed, E
<1>8. /\ bt' \in BatchState /\ Steady /\ bt'.pc = "done" /\ bt'.E = E /\ bt'.S = listed
      /\ bt'.answer = ans /\ bt'.wrote = bt.wrote /\ bt'.acked = bt.acked
      /\ bt'.failed = bt.failed /\ bt'.rerr = bt.rerr /\ bt'.rok = bt.rok
      /\ bt'.created = bt.created /\ bt'.rounds = bt.rounds /\ bt'.replaces = bt.replaces
  BY <1>1, <1>2, <1>5, <1>6 DEF BatchState, Steady
<1>9. \A k : Batch!Id(k)' = Batch!Id(k) /\ Batch!Id(k) = bt.items[k].id
  BY <1>8, SteadyPlan DEF Batch!Id
<1>10. \A n \in DOMAIN bt.regs : Resolved(bt, n)
  <2>1. bt.next >= 1 /\ \A n \in DOMAIN bt.regs : n < bt.next => Resolved(bt, n)
    BY <1>1 DEF BatchInv, ForwardOK, Forwarded
  <2>2. \A n \in DOMAIN bt.regs : n < bt.next
    <3>1. DOMAIN bt.regs = 1..Len(bt.regs) /\ Len(bt.regs) \in Nat
      BY <1>2
    <3>. QED
      BY <1>1, <1>2, <2>1, <3>1
  <2>. QED
    BY <2>1, <2>2
<1>11. bt.mode = "delete" =>
         /\ bt.wrote \subseteq bt.S
         /\ \A k \in DOMAIN bt.items : Batch!Id(k) \in bt.wrote \cup bt.missed
  BY <1>1 DEF BatchInv, RoundsOK
<1>12. bt.mode # "delete" =>
         \A k \in DOMAIN bt.items : Meant(k) => Batch!Id(k) \in bt.wrote \cup bt.E
  BY <1>1 DEF BatchInv, RoundsOK
<1>13. ASSUME E = {}, NEW k \in DOMAIN bt.items, bt.mode = "delete" \/ bt.items[k].attrs # {}
       PROVE  Batch!Id(k) \in bt.wrote \cup bt.acked
  <2>1. CASE bt.mode = "delete"
    BY <1>3, <1>4, <1>7, <1>11, <1>13, <2>1
  <2>2. CASE bt.mode # "delete" /\ Meant(k)
    BY <1>7, <1>12, <1>13, <2>2
  <2>3. CASE bt.mode # "delete" /\ ~Meant(k)
    <3>1. bt.items[k].kind \in BatchKinds
      BY ItemsAre DEF BatchInv
    <3>2. bt.items[k].kind # "noctx" /\ Batch!WhollyProxied(bt, k)
      BY <2>3, <3>1 DEF Meant, BatchKinds
    <3>3. PICK n \in DOMAIN bt.regs :
             Batch!is_proxy(bt.regs[n]) /\ k \in Batch!Share(bt, bt.regs[n])
      BY <1>13, <2>3, <3>2, HeldBySome
    <3>4. Settled(bt, k)
      BY <1>10, <3>3 DEF Resolved
    <3>. QED
      BY <1>7, <1>9, <1>13, <3>4 DEF Settled
  <2>. QED
    BY <2>1, <2>2, <2>3
<1>14. Batch!SuccessHasWriter'
  BY <1>5, <1>8 DEF Batch!SuccessHasWriter, Batch!Done
<1>15. Batch!FailureListed'
  <2>1. ASSUME bt'.answer # "multi"
        PROVE  /\ bt'.failed \subseteq bt'.acked
               /\ \A k \in DOMAIN bt'.items :
                    (bt'.mode = "delete" \/ bt'.items[k].attrs # {})
                       => Batch!Id(k)' \in bt'.wrote \cup bt'.acked
    <3>1. E = {} /\ bt.failed = {}
      BY <1>3, <1>6, <1>7, <1>8, <2>1
    <3>. QED
      BY <1>8, <1>9, <1>13, <3>1 DEF Steady
  <2>. QED
    BY <2>1 DEF Batch!FailureListed, Batch!Done
<1>16. Batch!EveryDeleteAnswered'
  <2>1. ASSUME bt'.mode = "delete", bt'.answer = "multi", NEW k \in DOMAIN bt'.items
        PROVE  Batch!Id(k)' \in bt'.S \cup bt'.E
    <3>1. bt.mode = "delete" /\ E # {} /\ k \in DOMAIN bt.items
      BY <1>6, <1>8, <2>1 DEF Steady
    <3>2. Batch!Id(k) \in bt.S \cup bt.missed
      BY <1>11, <3>1
    <3>3. Batch!Id(k) \in S \cup E
      BY <1>4, <1>7, <3>1, <3>2
    <3>. QED
      BY <1>7, <1>8, <1>9, <3>1, <3>3
  <2>. QED
    BY <2>1 DEF Batch!EveryDeleteAnswered, Batch!Done
<1>17. BatchTyped'
  BY <1>1, <1>8 DEF BatchInv, BatchTyped, Steady
<1>18. ListsOK'
  BY <1>3, <1>8 DEF ListsOK
<1>19. RoundsOK'
  BY <1>8 DEF RoundsOK
<1>20. ForwardOK'
  BY <1>8, ForwardNext DEF Forwarded
<1>. QED
  BY <1>14, <1>15, <1>16, <1>17, <1>18, <1>19, <1>20 DEF BatchInv, Batch!AnswerTruthful

LEMMA BatchHolds ==
    ASSUME WellBatched
    PROVE  Batch!Spec => []BatchInv
<1>1. Batch!Init => BatchInv
  BY BatchStarts
<1>2. BatchInv /\ [Batch!Next]_(Batch!vars) => BatchInv'
  <2>. SUFFICES ASSUME BatchInv, [Batch!Next]_(Batch!vars)
                PROVE  BatchInv'
    OBVIOUS
  <2>1. CASE UNCHANGED Batch!vars
    <3>1. UNCHANGED <<docs, held, bt>> /\ rows' = rows /\ races' = races
      BY <2>1 DEF Batch!vars
    <3>. QED
      BY <3>1, RowsOnly DEF BatchInv, BatchTyped
  <2>2. CASE Batch!Next
    BY <2>2, WriteStarts, MergeKeeps, ReplaceKeeps, CreateKeeps, LocalDoneKeeps, DeleteKeeps,
       RaceKeeps, ForwardBatchKeeps, PassOverKeeps, ForwardOneKeeps, AnswerKeeps DEF Batch!Next
  <2>. QED
    BY <2>1, <2>2
<1>. QED
  BY <1>1, <1>2, PTL DEF Batch!Spec

\* Every step of a batch (batch.rs) keeps the rows, what the sources hold and the
\* lists of the answer well-typed.
THEOREM BatchesTyped ==
    ASSUME WellBatched
    PROVE  Batch!Spec => []Batch!TypeOK
<1>1. BatchInv => Batch!TypeOK
  <2>. SUFFICES ASSUME BatchInv
                PROVE  Batch!TypeOK
    OBVIOUS
  <2>1. /\ bt \in BatchState /\ rows \in BatchRows(Len(bt.items))
        /\ held \in [Sources -> SUBSET Ents] /\ races \in 0..MaxRaces
    BY DEF BatchInv, BatchTyped
  <2>2. \A e \in Ents : rows[e] # Absent =>
          \A x \in DOMAIN rows[e] : rows[e][x] \in 0..Len(bt.items)
    <3>1. ASSUME NEW e \in Ents, rows[e] # Absent
          PROVE  \E A \in SUBSET Attrs : rows[e] \in [A -> 0..Len(bt.items)]
      BY <2>1, <3>1 DEF BatchRows, BatchRow
    <3>. QED
      BY <3>1
  <2>. QED
    BY <2>1, <2>2 DEF Batch!TypeOK, BatchState
<1>. QED
  BY <1>1, BatchHolds, PTL

\* merge_remote_batch, BatchOutcome::respond and batch_delete (batch.rs): for
\* every array of items, catalogue, store and source, with deletes by others
\* between any two statements, the success list of a batch answer names only
\* entities that were written here or taken by a source that was asked; an
\* answer without errors means that every entity that carries an attribute was;
\* and a batch delete answers for every id of its array.
THEOREM BatchAnswersTruthful ==
    ASSUME WellBatched
    PROVE  Batch!Spec => []Batch!AnswerTruthful
<1>1. BatchInv => Batch!AnswerTruthful
  BY DEF BatchInv
<1>. QED
  BY <1>1, BatchHolds, PTL

=============================================================================
