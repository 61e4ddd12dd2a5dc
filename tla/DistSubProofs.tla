--------------------------- MODULE DistSubProofs ---------------------------
(***************************************************************************)
(* DistSub for every number of registrations and of requests, failures and *)
(* registration changes: its types, and, while the subscription's requests *)
(* come one at a time, that a mapped copy is indexed and that a source     *)
(* gets one copy to a mapping.  Then, as an instance, the registrations    *)
(* themselves: their store and its mirrors, for every set of bodies,       *)
(* clients and pods.                                                       *)
(***************************************************************************)
EXTENDS DistSub, Sequences, FiniteSetTheorems, TLAPS

-----------------------------------------------------------------------------
(* The shapes of tasks, requests and documents.                            *)

JobPcs == {"send", "notify", "dispatch"}

\* What a task is made of depends on where it stands.
LEMMA TaskShape ==
    ASSUME NEW t \in Tasks
    PROVE  /\ t.n \in Given
           /\ t.pc = "prepare" => t \in [n : Given, pc : {"prepare"}, r : Regs,
                                         old : Forms \cup {Nobody}, new : Forms \cup {Nobody}]
           /\ t.pc \in JobPcs => t \in [n : Given, pc : JobPcs, reason : Reasons,
                                        todo : About, jobs : SUBSET Given, about : About]
           /\ t.pc \in WorkPcs => t \in [n : Given, pc : WorkPcs, r : Regs, id : Given,
                                         reason : Reasons, todo : About, jobs : SUBSET Given,
                                         about : About]
           /\ t.pc \in {"initial", "list"} => t \in [n : Given, pc : {"initial", "list"}, csr : Given]
           /\ t.pc = "delete" => t \in [n : Given, pc : {"delete"}, r : Regs, id : Given]
           /\ Bears(t) => t.id \in Given /\ t.r \in Regs
BY DEF Tasks, WorkPcs, JobPcs, Bears

\* A task of a given shape.
LEMMA TaskMade ==
    /\ [n : Given, pc : {"prepare"}, r : Regs, old : Forms \cup {Nobody},
        new : Forms \cup {Nobody}] \subseteq Tasks
    /\ [n : Given, pc : JobPcs, reason : Reasons, todo : About, jobs : SUBSET Given,
        about : About] \subseteq Tasks
    /\ [n : Given, pc : WorkPcs, r : Regs, id : Given, reason : Reasons, todo : About,
        jobs : SUBSET Given, about : About] \subseteq Tasks
    /\ [n : Given, pc : {"initial", "list"}, csr : Given] \subseteq Tasks
    /\ [n : Given, pc : {"delete"}, r : Regs, id : Given] \subseteq Tasks
BY DEF Tasks, JobPcs

\* Work on a copy that goes on to its next await.
LEMMA WorkGoesOn ==
    ASSUME NEW t \in Tasks, t.pc \in WorkPcs, NEW pc \in WorkPcs
    PROVE  /\ [t EXCEPT !.pc = pc] \in Tasks
           /\ [t EXCEPT !.pc = pc].pc = pc
           /\ [t EXCEPT !.pc = pc].id = t.id /\ [t EXCEPT !.pc = pc].r = t.r
BY TaskShape, TaskMade

\* Work on a copy that is over.
LEMMA WorkEnds ==
    ASSUME NEW t \in Tasks, t.pc \in WorkPcs
    PROVE  Resumed(t) \in Tasks /\ Resumed(t).pc = "dispatch" /\ ~Bears(Resumed(t))
<1>1. Resumed(t) \in [n : Given, pc : JobPcs, reason : Reasons, todo : About,
                      jobs : SUBSET Given, about : About]
  BY TaskShape DEF Resumed, JobPcs
<1>2. Resumed(t).pc = "dispatch"
  BY DEF Resumed
<1>. QED
  BY <1>1, <1>2, TaskMade DEF Bears, WorkPcs

\* More ids leave every shape what it was.
LEMMA Grows ==
    ASSUME Given \subseteq Given'
    PROVE  Tasks \subseteq Tasks' /\ Requests \subseteq Requests' /\ Docs \subseteq Docs'
<1>. USE DEF About, Reasons
<1>1. Docs \subseteq Docs'
  BY DEF Docs
<1>2. Requests \subseteq Requests'
  BY <1>1 DEF Requests
<1>3. Tasks \subseteq Tasks'
  BY DEF Tasks, WorkPcs
<1>. QED
  BY <1>1, <1>2, <1>3

\* The document of no subscription.
LEMMA NoDocShape ==
    /\ NoDoc \in Docs /\ ~NoDoc.stored /\ NoDoc.csr = Nobody
    /\ \A r \in Regs : NoDoc.to[r] = Nobody
BY DEF NoDoc, Docs

LEMMA RequestShape ==
    ASSUME NEW q \in Requests
    PROVE  /\ q.pc \in {"free", "csr", "read", "put", "make", "follow", "get_csr", "ds_get",
                        "inbound_delete", "ds_delete", "csr_delete", "forward"}
           /\ q.pc \in {"read", "put", "make"} => q.csr \in Given
           /\ q.pc \in {"put", "make", "inbound_delete", "ds_delete", "csr_delete", "forward"}
                 => q.doc \in Docs
           /\ q.pc \in {"put", "make"} => q \in [pc : {"put", "make"}, csr : Given, doc : Docs]
           /\ q.pc \in {"inbound_delete", "ds_delete", "csr_delete", "forward"}
                 => q \in [pc : {"inbound_delete", "ds_delete", "csr_delete", "forward"}, doc : Docs]
BY DEF Requests

\* The counters.
Counters == {"asks", "fails", "unindexed", "ids"}
LEMMA Counting ==
    ASSUME TypeOK, NEW c \in Counters, Count(c)
    PROVE  /\ spent' \in [Counters -> Nat]
           /\ \A d \in Counters : spent'[d] = IF d = c THEN spent[d] + 1 ELSE spent[d]
BY DEF TypeOK, Counters, Count

\* Two counters at once.
LEMMA CountingBoth ==
    ASSUME TypeOK, NEW c \in Counters, NEW d \in Counters, c # d,
           spent' = [[spent EXCEPT ![c] = spent[c] + 1] EXCEPT ![d] = spent[d] + 1]
    PROVE  /\ spent' \in [Counters -> Nat]
           /\ \A e \in Counters : spent'[e] = IF e \in {c, d} THEN spent[e] + 1 ELSE spent[e]
<1>. DEFINE a == [spent EXCEPT ![c] = spent[c] + 1]
<1>1. a \in [Counters -> Nat] /\ a[c] = spent[c] + 1 /\ \A e \in Counters \ {c} : a[e] = spent[e]
  BY DEF TypeOK, Counters
<1>. HIDE DEF a
<1>. DEFINE b == [a EXCEPT ![d] = spent[d] + 1]
<1>2. b \in [Counters -> Nat] /\ b[d] = spent[d] + 1 /\ \A e \in Counters \ {d} : b[e] = a[e]
  BY <1>1 DEF TypeOK, Counters
<1>3. spent' = b
  BY DEF a
<1>. QED
  BY <1>1, <1>2, <1>3

\* Ids are given out one at a time, and none is taken back.
LEMMA IdsGrow ==
    ASSUME TypeOK, [Next]_vars
    PROVE  /\ spent' \in [Counters -> Nat]
           /\ spent.ids \in Nat /\ spent'.ids \in {spent.ids, spent.ids + 1}
           /\ spent'.unindexed >= spent.unindexed /\ spent.unindexed \in Nat
<1>. USE DEF Counters
<1>1. spent \in [Counters -> Nat] /\ spent.ids \in Nat /\ spent.unindexed \in Nat
  BY DEF TypeOK
<1>2. CASE UNCHANGED spent
  BY <1>1, <1>2
<1>3. ASSUME NEW c \in Counters, Count(c)
      PROVE  /\ spent' \in [Counters -> Nat]
             /\ spent'.ids \in {spent.ids, spent.ids + 1} /\ spent'.unindexed >= spent.unindexed
  BY <1>1, <1>3, Counting
<1>4. CASE \E r \in Regs, form \in Forms \cup {Nobody} : RegWrite(r, form)
  <2>1. PICK r \in Regs, form \in Forms \cup {Nobody} : RegWrite(r, form)
    BY <1>4
  <2>2. spent' = [[spent EXCEPT !["asks"] = spent.asks + 1] EXCEPT !["ids"] = spent.ids + 1]
    BY <2>1 DEF RegWrite
  <2>4. /\ spent' \in [Counters -> Nat] /\ spent'["ids"] = spent.ids + 1
        /\ spent'["unindexed"] = spent.unindexed
    BY <2>2, CountingBoth
  <2>. QED
    BY <1>1, <2>4
<1>5. ASSUME NEW t \in tasks, InboundPut(t)
      PROVE  /\ spent' \in [Counters -> Nat]
             /\ spent'.ids \in {spent.ids, spent.ids + 1} /\ spent'.unindexed >= spent.unindexed
  <2>1. CASE UNCHANGED spent
    BY <1>1, <2>1
  <2>2. CASE spent' = [[spent EXCEPT !["fails"] = spent.fails + 1]
                          EXCEPT !["unindexed"] = spent.unindexed + 1]
    <3>2. /\ spent' \in [Counters -> Nat] /\ spent'["ids"] = spent.ids
          /\ spent'["unindexed"] = spent.unindexed + 1
      BY <2>2, CountingBoth
    <3>. QED
      BY <1>1, <3>2
  <2>. QED
    BY <1>5, <2>1, <2>2 DEF InboundPut
<1>6. ASSUME NEW t \in tasks, TaskStep(t)
      PROVE  InboundPut(t) \/ UNCHANGED spent \/ \E c \in Counters : Count(c)
  BY <1>6 DEF TaskStep, Prepare, Send, Initial, InitialList, Notified, Dispatch, SetRemote, Post,
              Rollback, Unmap, Drop, Forget, InboundDelete, DeleteForward, Fails
<1>7. ASSUME NEW h \in Handlers, HandlerStep(h)
      PROVE  UNCHANGED spent \/ \E c \in Counters : Count(c)
  BY <1>7 DEF HandlerStep, create, update, delete, CsrCreate, DsRead, DsPut, DsMake, Follow, GetCsr,
              DsGet, IndexGone, DsDelete, CsrDelete, DeletesSpawned, Spawned
<1>. QED
  BY <1>1, <1>2, <1>3, <1>4, <1>5, <1>6, <1>7 DEF Next, vars

-----------------------------------------------------------------------------
(* Types.                                                                   *)

LEMMA TasksTyped ==
    ASSUME TypeOK, [Next]_vars
    PROVE  tasks' \subseteq Tasks'
<1>. USE DEF Counters
<1>1. Given \subseteq Given' /\ Tasks \subseteq Tasks'
  BY IdsGrow, Grows DEF Given
<1>2. CASE tasks' \subseteq tasks
  BY <1>1, <1>2 DEF TypeOK
<1>3. ASSUME NEW s \in Tasks', tasks' \subseteq tasks \cup {s}
      PROVE  tasks' \subseteq Tasks'
  BY <1>1, <1>3 DEF TypeOK
<1>4. ASSUME NEW t \in tasks, NEW s \in Tasks, Turn(t, s)
      PROVE  tasks' \subseteq Tasks'
  BY <1>1, <1>3, <1>4 DEF Turn
<1>5. ASSUME NEW t \in tasks, t.pc \in WorkPcs, NEW pc \in WorkPcs, At(t, pc)
      PROVE  tasks' \subseteq Tasks'
  BY <1>4, <1>5, WorkGoesOn DEF At, TypeOK
<1>6. ASSUME NEW t \in tasks, t.pc \in WorkPcs, Turn(t, Resumed(t))
      PROVE  tasks' \subseteq Tasks'
  BY <1>4, <1>6, WorkEnds DEF TypeOK
<1>7. ASSUME Count("ids")
      PROVE  Fresh \in Given'
  BY <1>7, Counting DEF Given, TypeOK, Fresh
<1>8. ASSUME NEW r \in Regs, NEW form \in Forms \cup {Nobody}, RegWrite(r, form)
      PROVE  tasks' \subseteq Tasks'
  <2>. DEFINE s == [n |-> Fresh, pc |-> "prepare", r |-> r, old |-> reg[r], new |-> form]
  <2>1. spent' = [[spent EXCEPT !["asks"] = spent.asks + 1] EXCEPT !["ids"] = spent.ids + 1]
    BY <1>8 DEF RegWrite
  <2>2. spent'["ids"] = spent.ids + 1 /\ spent.ids \in Nat
    BY <2>1, CountingBoth DEF TypeOK
  <2>3. Fresh \in Given'
    BY <2>2 DEF Fresh, Given
  <2>4. reg[r] \in Forms \cup {Nobody}
    BY DEF TypeOK
  <2>5. s \in Tasks'
    BY <2>3, <2>4 DEF Tasks
  <2>. QED
    BY <1>3, <1>8, <2>5 DEF RegWrite
<1>9. ASSUME NEW t \in tasks, Prepare(t)
      PROVE  tasks' \subseteq Tasks'
  <2>. DEFINE reason == csource_trigger(t.old, t.new)
              form == IF reason = "noLongerMatching" THEN t.old ELSE t.new
              s == [n |-> t.n, pc |-> "send", reason |-> reason, todo |-> {},
                    jobs |-> csrs, about |-> {[r |-> t.r, form |-> form]}]
  <2>1. tasks' = tasks \ {t} \/ (Turn(t, s) /\ (Matching(t.old) \/ Matching(t.new)))
    BY <1>9 DEF Prepare
  <2>2. ASSUME Matching(t.old) \/ Matching(t.new)
        PROVE  s \in Tasks
    <3>1. /\ t \in Tasks /\ t.pc = "prepare" /\ t.n \in Given /\ t.r \in Regs
          /\ t.old \in Forms \cup {Nobody} /\ t.new \in Forms \cup {Nobody}
      BY <1>9, TaskShape DEF Prepare, TypeOK
    <3>2. reason \in Reasons
      BY DEF csource_trigger, Reasons
    <3>3. form \in Forms
      BY <2>2, <3>1 DEF csource_trigger, Matching
    <3>4. csrs \subseteq Given
      BY DEF TypeOK
    <3>. HIDE DEF reason, form
    <3>5. {[r |-> t.r, form |-> form]} \in About /\ {} \in About
      BY <3>1, <3>3 DEF About
    <3>. QED
      BY <3>1, <3>2, <3>4, <3>5 DEF Tasks
  <2>. HIDE DEF s
  <2>. QED
    BY <1>2, <1>4, <2>1, <2>2
<1>10. ASSUME NEW t \in tasks, Send(t)
       PROVE  tasks' \subseteq Tasks'
  <2>1. CASE t.jobs = {}
    BY <1>2, <1>10, <2>1 DEF Send
  <2>2. CASE t.jobs # {}
    <3>1. PICK c \in t.jobs :
            Turn(t, [n |-> t.n, pc |-> IF c \in csrs THEN "notify" ELSE "send",
                     reason |-> t.reason, todo |-> IF c \in csrs THEN t.about ELSE {},
                     jobs |-> t.jobs \ {c}, about |-> t.about])
      BY <1>10, <2>2 DEF Send
    <3>2. /\ t.n \in Given /\ t.reason \in Reasons /\ t.jobs \subseteq Given
          /\ t.about \in About /\ {} \in About
      <4>1. t \in Tasks /\ t.pc \in JobPcs
        BY <1>10 DEF Send, TypeOK, JobPcs
      <4>. QED
        BY <4>1, TaskShape DEF About
    <3>3. [n |-> t.n, pc |-> IF c \in csrs THEN "notify" ELSE "send",
           reason |-> t.reason, todo |-> IF c \in csrs THEN t.about ELSE {},
           jobs |-> t.jobs \ {c}, about |-> t.about] \in Tasks
      BY <3>2 DEF Tasks
    <3>. QED
      BY <1>4, <3>1, <3>3
  <2>. QED
    BY <2>1, <2>2
<1>11. ASSUME NEW t \in tasks, Initial(t) \/ InitialList(t)
       PROVE  tasks' \subseteq Tasks'
  <2>1. CASE Initial(t)
    <3>1. t \in [n : Given, pc : {"initial", "list"}, csr : Given]
      BY <2>1, TaskShape DEF Initial, TypeOK
    <3>2. [t EXCEPT !.pc = "list"] \in [n : Given, pc : {"initial", "list"}, csr : Given]
      BY <3>1
    <3>. QED
      BY <1>2, <1>4, <2>1, <3>2, TaskMade DEF Initial, At
  <2>2. CASE InitialList(t)
    <3>. DEFINE now == {[r |-> r, form |-> reg[r]] : r \in {r \in Regs : Matching(reg[r])}}
                s == [n |-> t.n, pc |-> "notify", reason |-> "newlyMatching", todo |-> now,
                      jobs |-> {}, about |-> {}]
    <3>1. now \in About /\ {} \in About
      BY DEF About, TypeOK, Matching
    <3>2. t.n \in Given /\ "newlyMatching" \in Reasons
      BY TaskShape DEF TypeOK, Reasons
    <3>. HIDE DEF now
    <3>3. s \in Tasks
      BY <3>1, <3>2 DEF Tasks
    <3>4. tasks' = tasks \ {t} \/ Turn(t, s)
      BY <2>2 DEF InitialList, now
    <3>. QED
      BY <1>2, <1>4, <3>3, <3>4
  <2>. QED
    BY <1>11, <2>1, <2>2
<1>12. ASSUME NEW t \in tasks, Notified(t)
       PROVE  tasks' \subseteq Tasks'
  <2>1. t \in [n : Given, pc : JobPcs, reason : Reasons, todo : About, jobs : SUBSET Given,
               about : About]
    BY <1>12, TaskShape DEF Notified, TypeOK, JobPcs
  <2>2. \A pc \in JobPcs : [t EXCEPT !.pc = pc] \in Tasks
    BY <2>1, TaskMade
  <2>3. PICK pc \in JobPcs : At(t, pc)
    BY <1>12 DEF Notified, JobPcs
  <2>. QED
    BY <1>4, <2>2, <2>3 DEF At
<1>13. ASSUME NEW t \in tasks, Dispatch(t)
       PROVE  tasks' \subseteq Tasks'
  <2>1. /\ t \in [n : Given, pc : JobPcs, reason : Reasons, todo : About, jobs : SUBSET Given,
                  about : About]
        /\ t.pc = "dispatch"
    BY <1>13, TaskShape DEF Dispatch, TypeOK, JobPcs
  <2>2. CASE t.todo = {}
    <3>1. [t EXCEPT !.pc = "send"] \in Tasks
      <4>1. [t EXCEPT !.pc = "send"] \in [n : Given, pc : JobPcs, reason : Reasons, todo : About,
                                          jobs : SUBSET Given, about : About]
        BY <2>1 DEF JobPcs
      <4>. QED
        BY <4>1, TaskMade
    <3>. QED
      BY <1>4, <1>13, <2>2, <3>1 DEF Dispatch, At
  <2>3. CASE t.todo # {}
    <3>1. PICK x \in t.todo :
            LET left == [t EXCEPT !.todo = @ \ {x}]
                mapped == doc.to[x.r]
                Work(pc, id) == [n |-> t.n, pc |-> pc, r |-> x.r, id |-> id, reason |-> t.reason,
                                 todo |-> left.todo, jobs |-> t.jobs, about |-> t.about]
            IN \/ Turn(t, Work("index", Fresh)) /\ Count("ids")
               \/ Turn(t, Work("drop", mapped)) /\ mapped # Nobody
               \/ Turn(t, left)
      BY <1>13, <2>3 DEF Dispatch
    <3>2. /\ x.r \in Regs /\ t.todo \ {x} \in About
          /\ [t EXCEPT !.todo = @ \ {x}].todo = t.todo \ {x}
      BY <2>1 DEF About
    <3>3. [t EXCEPT !.todo = @ \ {x}] \in Tasks
      <4>1. [t EXCEPT !.todo = @ \ {x}] \in [n : Given, pc : JobPcs, reason : Reasons, todo : About,
                                             jobs : SUBSET Given, about : About]
        BY <2>1, <3>2
      <4>. QED
        BY <4>1, TaskMade
    <3>. DEFINE Work(pc, id) == [n |-> t.n, pc |-> pc, r |-> x.r, id |-> id, reason |-> t.reason,
                                 todo |-> t.todo \ {x}, jobs |-> t.jobs, about |-> t.about]
    <3>4. \A id \in Given, pc \in WorkPcs : Work(pc, id) \in Tasks
      BY <2>1, <3>2 DEF Tasks
    <3>5. ASSUME Fresh \in Given'
          PROVE  Work("index", Fresh) \in Tasks'
      <4>1. t.n \in Given' /\ t.jobs \subseteq Given'
        BY <1>1, <2>1
      <4>2. t.todo \ {x} \in About' /\ t.about \in About' /\ t.reason \in Reasons'
        BY <2>1, <3>2 DEF About, Reasons
      <4>. QED
        BY <3>2, <3>5, <4>1, <4>2 DEF Tasks, WorkPcs
    <3>6. doc.to[x.r] \in Given \cup {Nobody}
      BY <3>2 DEF TypeOK, Docs
    <3>7. \/ Turn(t, Work("index", Fresh)) /\ Count("ids")
          \/ Turn(t, Work("drop", doc.to[x.r])) /\ doc.to[x.r] # Nobody
          \/ Turn(t, [t EXCEPT !.todo = @ \ {x}])
      BY <3>1, <3>2
    <3>. HIDE DEF Work
    <3>8. CASE Turn(t, Work("index", Fresh)) /\ Count("ids")
      BY <1>3, <1>7, <3>5, <3>8 DEF Turn
    <3>9. CASE Turn(t, Work("drop", doc.to[x.r])) /\ doc.to[x.r] # Nobody
      BY <1>4, <3>4, <3>6, <3>9 DEF WorkPcs
    <3>. QED
      BY <1>4, <3>3, <3>7, <3>8, <3>9
  <2>. QED
    BY <2>2, <2>3
<1>14. ASSUME NEW t \in tasks, \/ InboundPut(t) \/ SetRemote(t) \/ Post(t) \/ Rollback(t)
                               \/ Unmap(t) \/ Drop(t) \/ Forget(t) \/ InboundDelete(t)
       PROVE  tasks' \subseteq Tasks'
  BY <1>5, <1>6, <1>14
     DEF InboundPut, SetRemote, Post, Rollback, Unmap, Drop, Forget, InboundDelete, WorkPcs
<1>15. ASSUME NEW h \in Handlers, DsPut(h) \/ DsMake(h)
       PROVE  tasks' \subseteq Tasks'
  <2>1. CASE UNCHANGED tasks
    BY <1>2, <2>1
  <2>2. CASE Spawned(hs[h].csr)
    <3>1. hs[h].csr \in Given
      BY <1>15, RequestShape DEF DsPut, DsMake, TypeOK
    <3>2. Fresh \in Given'
      BY <1>7, <2>2 DEF Spawned
    <3>3. [n |-> Fresh, pc |-> "initial", csr |-> hs[h].csr] \in Tasks'
      BY <1>1, <3>1, <3>2 DEF Tasks
    <3>. QED
      BY <1>3, <2>2, <3>3 DEF Spawned
  <2>. QED
    BY <1>15, <2>1, <2>2 DEF DsPut, DsMake
<1>16. ASSUME NEW h \in Handlers, DeletesSpawned(h)
       PROVE  tasks' \subseteq Tasks'
  <2>1. hs[h].doc \in Docs
    BY <1>16, RequestShape DEF DeletesSpawned, TypeOK
  <2>2. \A r \in Remotes(h) : r \in Regs /\ hs[h].doc.to[r] \in Given
    BY <2>1 DEF Remotes, Docs
  <2>3. \A r \in Remotes(h) : [n |-> hs[h].doc.to[r], pc |-> "delete", r |-> r,
                               id |-> hs[h].doc.to[r]] \in Tasks
    BY <2>2 DEF Tasks
  <2>. QED
    BY <1>1, <1>16, <2>3 DEF DeletesSpawned, TypeOK
<1>. QED
  BY <1>2, <1>8, <1>9, <1>10, <1>11, <1>12, <1>13, <1>14, <1>15, <1>16
     DEF Next, vars, TaskStep, DeleteForward, HandlerStep, create, update, delete, CsrCreate, DsRead,
         Follow, GetCsr, DsGet, IndexGone, DsDelete, CsrDelete

\* The document with one mapping changed.
LEMMA MappingShape ==
    ASSUME TypeOK, NEW r \in Regs, NEW id \in Given \cup {Nobody}
    PROVE  /\ Mapping(r, id) \in Docs
           /\ Mapping(r, id).stored = doc.stored /\ Mapping(r, id).csr = doc.csr
           /\ \A q \in Regs : Mapping(r, id).to[q] = IF q = r THEN id ELSE doc.to[q]
<1>. DEFINE to == [doc.to EXCEPT ![r] = id]
<1>1. doc \in Docs /\ doc.to \in [Regs -> Given \cup {Nobody}]
  BY DEF TypeOK, Docs
<1>2. to \in [Regs -> Given \cup {Nobody}] /\ \A q \in Regs : to[q] = IF q = r THEN id ELSE doc.to[q]
  BY <1>1
<1>3. Mapping(r, id) = [doc EXCEPT !.to = to]
  BY DEF Mapping
<1>. HIDE DEF to
<1>. QED
  BY <1>1, <1>2, <1>3 DEF Docs

\* A task's move from one await to the next, and its mapping, leave a document.
LEMMA DocTyped ==
    ASSUME TypeOK, [Next]_vars
    PROVE  doc' \in Docs' /\ (~doc'.stored => doc' = NoDoc)
<1>1. Docs \subseteq Docs'
  BY IdsGrow, Grows DEF Given
<1>2. doc \in Docs /\ (~doc.stored => doc = NoDoc)
  BY DEF TypeOK
<1>3. CASE UNCHANGED doc
  BY <1>1, <1>2, <1>3
<1>4. ASSUME NEW t \in tasks, SetRemote(t)
      PROVE  doc' \in Docs /\ (~doc'.stored => doc' = NoDoc)
  <2>1. t.r \in Regs /\ t.id \in Given
    BY <1>4, TaskShape DEF SetRemote, TypeOK, Bears, WorkPcs
  <2>. QED
    BY <1>2, <1>4, <2>1, MappingShape DEF SetRemote, MayMap
<1>5. ASSUME NEW r \in Regs, Unmapped(r)
      PROVE  doc' \in Docs /\ (~doc'.stored => doc' = NoDoc)
  BY <1>2, <1>5, MappingShape, NoDocShape DEF Unmapped
<1>6. ASSUME NEW t \in tasks, Unmap(t) \/ Forget(t)
      PROVE  doc' \in Docs /\ (~doc'.stored => doc' = NoDoc)
  BY <1>5, <1>6, TaskShape DEF Unmap, Forget, TypeOK, Bears, WorkPcs
<1>7. ASSUME NEW h \in Handlers, DsPut(h) \/ DsMake(h)
      PROVE  doc' \in Docs /\ (~doc'.stored => doc' = NoDoc)
  <2>1. hs[h].doc \in Docs /\ hs[h].csr \in Given
    BY <1>7, RequestShape DEF DsPut, DsMake, TypeOK
  <2>2. Written(h) \in Docs /\ Written(h).stored
    BY <2>1 DEF Written, Docs
  <2>. QED
    BY <1>2, <1>7, <2>2 DEF DsPut, DsMake
<1>8. ASSUME NEW h \in Handlers, DsDelete(h)
      PROVE  doc' \in Docs /\ (~doc'.stored => doc' = NoDoc)
  BY <1>8, NoDocShape DEF DsDelete
<1>. QED
  BY <1>1, <1>3, <1>4, <1>6, <1>7, <1>8
     DEF Next, vars, RegWrite, TaskStep, Prepare, Send, Initial, InitialList, Notified, Dispatch,
         InboundPut, Post, Rollback, Drop, InboundDelete, DeleteForward, HandlerStep, create, update,
         delete, CsrCreate, DsRead, Follow, GetCsr, DsGet, IndexGone, CsrDelete, DeletesSpawned

LEMMA RequestsTyped ==
    ASSUME TypeOK, [Next]_vars
    PROVE  hs' \in [Handlers -> Requests']
<1>1. Given \subseteq Given' /\ Requests \subseteq Requests'
  BY IdsGrow, Grows DEF Given
<1>2. hs \in [Handlers -> Requests] /\ hs \in [Handlers -> Requests']
  BY <1>1 DEF TypeOK
<1>3. CASE UNCHANGED hs
  BY <1>2, <1>3
<1>4. ASSUME NEW h \in Handlers, NEW q \in Requests', Go(h, q)
      PROVE  hs' \in [Handlers -> Requests']
  BY <1>2, <1>4 DEF Go
<1>5. \A pc \in {"free", "csr", "follow", "get_csr", "ds_get"} : [pc |-> pc] \in Requests
  BY DEF Requests
<1>6. ASSUME NEW h \in Handlers, \/ \E dist \in BOOLEAN : create(h, dist) \/ update(h, dist)
                                \/ delete(h) \/ Follow(h) \/ GetCsr(h) \/ DeletesSpawned(h) \/ DsMake(h)
      PROVE  hs' \in [Handlers -> Requests']
  <2>1. \E pc \in {"free", "csr", "follow", "get_csr", "ds_get"} : Go(h, [pc |-> pc])
    BY <1>6 DEF create, update, delete, Follow, GetCsr, DeletesSpawned, DsMake, Answer, Idle
  <2>. QED
    BY <1>1, <1>4, <1>5, <2>1
<1>7. ASSUME NEW h \in Handlers, CsrCreate(h)
      PROVE  hs' \in [Handlers -> Requests']
  <2>1. Fresh \in Given'
    BY <1>7, Counting DEF CsrCreate, Counters, Given, TypeOK, Fresh
  <2>2. [pc |-> "read", csr |-> Fresh] \in Requests'
    BY <2>1 DEF Requests
  <2>. QED
    BY <1>4, <1>7, <2>2 DEF CsrCreate
<1>8. ASSUME NEW h \in Handlers, DsRead(h)
      PROVE  hs' \in [Handlers -> Requests']
  <2>1. hs[h].csr \in Given /\ doc \in Docs
    BY <1>8, RequestShape DEF DsRead, TypeOK
  <2>2. [pc |-> "put", csr |-> hs[h].csr, doc |-> doc] \in Requests
    BY <2>1 DEF Requests
  <2>. QED
    BY <1>1, <1>4, <1>8, <2>2 DEF DsRead
<1>9. ASSUME NEW h \in Handlers, DsPut(h)
      PROVE  hs' \in [Handlers -> Requests']
  <2>1. hs[h] \in [pc : {"put", "make"}, csr : Given, doc : Docs]
    BY <1>9, RequestShape DEF DsPut, TypeOK
  <2>2. [hs[h] EXCEPT !.pc = "make"] \in Requests
    BY <2>1 DEF Requests
  <2>. QED
    BY <1>1, <1>4, <1>5, <1>9, <2>2 DEF DsPut, Answer, Idle
<1>10. ASSUME NEW h \in Handlers, DsGet(h)
       PROVE  hs' \in [Handlers -> Requests']
  <2>1. [pc |-> "inbound_delete", doc |-> doc] \in Requests
    BY DEF Requests, TypeOK
  <2>. QED
    BY <1>1, <1>4, <1>10, <2>1 DEF DsGet
<1>11. ASSUME NEW h \in Handlers, IndexGone(h) \/ DsDelete(h) \/ CsrDelete(h)
       PROVE  hs' \in [Handlers -> Requests']
  <2>1. hs[h] \in [pc : {"inbound_delete", "ds_delete", "csr_delete", "forward"}, doc : Docs]
    BY <1>11, RequestShape DEF IndexGone, DsDelete, CsrDelete, TypeOK
  <2>2. \A pc \in {"ds_delete", "csr_delete", "forward"} : [hs[h] EXCEPT !.pc = pc] \in Requests
    BY <2>1 DEF Requests
  <2>3. \E pc \in {"ds_delete", "csr_delete", "forward"} : Go(h, [hs[h] EXCEPT !.pc = pc])
    BY <1>11 DEF IndexGone, DsDelete, CsrDelete
  <2>. QED
    BY <1>1, <1>4, <2>2, <2>3
<1>. QED
  BY <1>3, <1>6, <1>7, <1>8, <1>9, <1>10, <1>11
     DEF Next, vars, RegWrite, TaskStep, Prepare, Send, Initial, InitialList, Notified, Dispatch,
         InboundPut, SetRemote, Post, Rollback, Unmap, Drop, Forget, InboundDelete, DeleteForward,
         HandlerStep

\* Who changes what: a task, and a request.
LEMMA TaskChanges ==
    ASSUME NEW t \in tasks, TaskStep(t)
    PROVE  /\ UNCHANGED <<own, reg, csrs, hs>>
           /\ UNCHANGED doc \/ SetRemote(t) \/ Unmap(t) \/ Forget(t)
           /\ UNCHANGED freed \/ Unmap(t) \/ Forget(t)
           /\ UNCHANGED inbound \/ InboundPut(t) \/ Rollback(t) \/ InboundDelete(t)
           /\ UNCHANGED copies \/ Post(t) \/ Drop(t) \/ DeleteForward(t)
<1>1. CASE \/ Prepare(t) \/ Send(t) \/ Initial(t) \/ InitialList(t) \/ Notified(t) \/ Dispatch(t)
  BY <1>1 DEF Prepare, Send, Initial, InitialList, Notified, Dispatch
<1>2. CASE InboundPut(t) \/ SetRemote(t) \/ Post(t) \/ Rollback(t)
  BY <1>2 DEF InboundPut, SetRemote, Post, Rollback
<1>3. CASE Unmap(t) \/ Forget(t)
  BY <1>3 DEF Unmap, Forget
<1>4. CASE Drop(t) \/ InboundDelete(t) \/ DeleteForward(t)
  BY <1>4 DEF Drop, InboundDelete, DeleteForward
<1>. QED
  BY <1>1, <1>2, <1>3, <1>4 DEF TaskStep

LEMMA RequestChanges ==
    ASSUME NEW h \in Handlers, HandlerStep(h)
    PROVE  /\ UNCHANGED <<reg, copies>>
           /\ UNCHANGED own \/ (\E dist \in BOOLEAN : create(h, dist) \/ update(h, dist)) \/ delete(h)
           /\ UNCHANGED doc \/ DsPut(h) \/ DsMake(h) \/ DsDelete(h)
           /\ UNCHANGED freed \/ DsDelete(h)
           /\ UNCHANGED csrs \/ CsrCreate(h) \/ CsrDelete(h)
           /\ UNCHANGED inbound \/ IndexGone(h)
           /\ UNCHANGED tasks \/ DsPut(h) \/ DsMake(h) \/ DeletesSpawned(h)
<1>1. CASE (\E dist \in BOOLEAN : create(h, dist) \/ update(h, dist)) \/ delete(h)
  BY <1>1 DEF create, update, delete
<1>2. CASE CsrCreate(h) \/ DsRead(h) \/ DsPut(h) \/ DsMake(h)
  BY <1>2 DEF CsrCreate, DsRead, DsPut, DsMake
<1>3. CASE Follow(h) \/ GetCsr(h) \/ DsGet(h) \/ IndexGone(h)
  BY <1>3 DEF Follow, GetCsr, DsGet, IndexGone
<1>4. CASE DsDelete(h) \/ CsrDelete(h) \/ DeletesSpawned(h)
  BY <1>4 DEF DsDelete, CsrDelete, DeletesSpawned
<1>. QED
  BY <1>1, <1>2, <1>3, <1>4 DEF HandlerStep

\* Every step preserves the types.
LEMMA TypeStep ==
    ASSUME TypeOK, [Next]_vars
    PROVE  TypeOK'
<1>1. Given \subseteq Given' /\ spent' \in [Counters -> Nat]
  BY IdsGrow DEF Given
<1>2. /\ own \in [live : BOOLEAN, dist : BOOLEAN] /\ reg \in [Regs -> Forms \cup {Nobody}]
      /\ csrs \subseteq Given' /\ inbound \subseteq Given' /\ freed \in [Regs -> Nat]
      /\ copies \subseteq [r : Regs, id : Given']
  BY <1>1 DEF TypeOK
<1>3. ASSUME NEW r \in Regs, Unmapped(r)
      PROVE  freed' \in [Regs -> Nat]
  BY <1>2, <1>3 DEF Unmapped
<1>4. ASSUME NEW t \in tasks, TaskStep(t)
      PROVE  /\ UNCHANGED <<own, reg, csrs>> /\ inbound' \subseteq Given'
             /\ copies' \subseteq [r : Regs, id : Given'] /\ freed' \in [Regs -> Nat]
  <2>1. t.pc \in WorkPcs => t.id \in Given' /\ t.r \in Regs
    BY <1>1, TaskShape DEF TypeOK, Bears
  <2>2. inbound' \subseteq Given'
    <3>1. CASE InboundPut(t)
      BY <1>2, <2>1, <3>1 DEF InboundPut, WorkPcs
    <3>2. CASE Rollback(t) \/ InboundDelete(t)
      BY <1>2, <3>2 DEF Rollback, InboundDelete
    <3>. QED
      BY <1>2, <1>4, <3>1, <3>2, TaskChanges
  <2>3. copies' \subseteq [r : Regs, id : Given']
    <3>1. CASE Post(t)
      <4>1. [r |-> t.r, id |-> t.id] \in [r : Regs, id : Given']
        BY <2>1, <3>1 DEF Post, WorkPcs
      <4>. QED
        BY <1>2, <3>1, <4>1 DEF Post
    <3>2. CASE Drop(t) \/ DeleteForward(t)
      BY <1>2, <3>2 DEF Drop, DeleteForward
    <3>. QED
      BY <1>2, <1>4, <3>1, <3>2, TaskChanges
  <2>4. freed' \in [Regs -> Nat]
    <3>1. CASE Unmap(t) \/ Forget(t)
      BY <1>3, <2>1, <3>1 DEF Unmap, Forget, WorkPcs
    <3>. QED
      BY <1>2, <1>4, <3>1, TaskChanges
  <2>. QED
    BY <1>4, <2>2, <2>3, <2>4, TaskChanges
<1>5. ASSUME NEW h \in Handlers, HandlerStep(h)
      PROVE  /\ own' \in [live : BOOLEAN, dist : BOOLEAN] /\ UNCHANGED <<reg, copies>>
             /\ csrs' \subseteq Given' /\ inbound' \subseteq Given' /\ freed' \in [Regs -> Nat]
  <2>1. own' \in [live : BOOLEAN, dist : BOOLEAN]
    <3>1. CASE (\E dist \in BOOLEAN : create(h, dist) \/ update(h, dist)) \/ delete(h)
      <4>1. ASSUME NEW dist \in BOOLEAN, create(h, dist)
            PROVE  own' \in [live : BOOLEAN, dist : BOOLEAN]
        BY <4>1 DEF create
      <4>2. ASSUME NEW dist \in BOOLEAN, update(h, dist)
            PROVE  own' \in [live : BOOLEAN, dist : BOOLEAN]
        BY <1>2, <4>2 DEF update
      <4>3. CASE delete(h)
        BY <4>3 DEF delete, NoSub
      <4>. QED
        BY <3>1, <4>1, <4>2, <4>3
    <3>. QED
      BY <1>2, <1>5, <3>1, RequestChanges
  <2>2. csrs' \subseteq Given'
    <3>1. CASE CsrCreate(h)
      <4>1. Fresh \in Given'
        BY <3>1, Counting DEF CsrCreate, Counters, Given, TypeOK, Fresh
      <4>. QED
        BY <1>2, <3>1, <4>1 DEF CsrCreate
    <3>2. CASE CsrDelete(h)
      BY <1>2, <3>2 DEF CsrDelete
    <3>. QED
      BY <1>2, <1>5, <3>1, <3>2, RequestChanges
  <2>3. inbound' \subseteq Given'
    <3>1. CASE IndexGone(h)
      BY <1>2, <3>1 DEF IndexGone
    <3>. QED
      BY <1>2, <1>5, <3>1, RequestChanges
  <2>4. freed' \in [Regs -> Nat]
    <3>1. CASE DsDelete(h)
      BY <1>2, <3>1 DEF DsDelete
    <3>. QED
      BY <1>2, <1>5, <3>1, RequestChanges
  <2>. QED
    BY <1>5, <2>1, <2>2, <2>3, <2>4, RequestChanges
<1>6. CASE \E r \in Regs, form \in Forms \cup {Nobody} : RegWrite(r, form)
  BY <1>1, <1>2, <1>6, TasksTyped, RequestsTyped, DocTyped DEF RegWrite, TypeOK, Counters
<1>7. CASE UNCHANGED vars
  BY <1>1, <1>2, <1>7, TasksTyped, RequestsTyped, DocTyped DEF vars, TypeOK, Counters
<1>8. CASE \/ \E t \in tasks : TaskStep(t)
           \/ \E h \in Handlers : HandlerStep(h)
  BY <1>1, <1>2, <1>4, <1>5, <1>8, TasksTyped, RequestsTyped, DocTyped DEF TypeOK, Counters
<1>. QED
  BY <1>6, <1>7, <1>8 DEF Next

-----------------------------------------------------------------------------
(* The subscription's requests, one at a time.                             *)

OneAtATime == \A h, g \in Handlers : h = g

\* The document a task leaves is stored when it was, and has its Registration
\* Subscription; a document of nobody stays so.
LEMMA TaskKeepsDoc ==
    ASSUME TypeOK, NEW t \in tasks, TaskStep(t)
    PROVE  /\ doc'.stored = doc.stored /\ doc'.csr = doc.csr
           /\ doc = NoDoc => doc' = NoDoc
<1>1. t.pc \in WorkPcs => t.id \in Given /\ t.r \in Regs
  BY TaskShape DEF TypeOK, Bears
<1>2. CASE SetRemote(t)
  <2>1. t.r \in Regs /\ t.id \in Given \cup {Nobody}
    BY <1>1, <1>2 DEF SetRemote, WorkPcs
  <2>. QED
    BY <1>2, <2>1, MappingShape, NoDocShape DEF SetRemote, MayMap
<1>3. CASE Unmap(t) \/ Forget(t)
  <2>1. t.r \in Regs
    BY <1>1, <1>3 DEF Unmap, Forget, WorkPcs
  <2>2. Unmapped(t.r)
    BY <1>3 DEF Unmap, Forget
  <2>. QED
    BY <2>1, <2>2, MappingShape, NoDocShape DEF Unmapped
<1>. QED
  BY <1>2, <1>3, TaskChanges

\* A request takes up where the one before left off.
LEMMA RequestStep ==
    ASSUME OneAtATime, TypeOK, RequestInv, [Next]_vars
    PROVE  RequestInv'
<1>. USE DistSubAssumption
<1>1. CASE UNCHANGED vars \/ \E r \in Regs, form \in Forms \cup {Nobody} : RegWrite(r, form)
  BY <1>1 DEF RequestInv, vars, RegWrite
<1>2. ASSUME NEW t \in tasks, TaskStep(t)
      PROVE  RequestInv'
  <2>1. /\ UNCHANGED <<own, hs>> /\ doc'.stored = doc.stored /\ doc'.csr = doc.csr
        /\ (doc = NoDoc => doc' = NoDoc)
    BY <1>2, TaskChanges, TaskKeepsDoc
  <2>. QED
    BY <2>1 DEF RequestInv
<1>3. ASSUME NEW h \in Handlers, HandlerStep(h)
      PROVE  RequestInv'
  <2>. DEFINE Said(q) == /\ q.pc \in {"csr", "read", "put", "make", "csr_delete", "forward"} => doc' = NoDoc
                         /\ q.pc \in {"put", "make"} => q.doc = NoDoc
                         /\ q.pc = "free" /\ ~own'.live => doc' = NoDoc
                         /\ q.pc \in {"follow", "get_csr", "csr", "read", "put", "make"} => own'.live
  <2>1. ASSUME NEW q, Go(h, q), Said(q), doc'.stored => doc'.csr # Nobody
        PROVE  RequestInv'
    <3>1. \A g \in Handlers : hs'[g] = q
      BY <2>1 DEF Go, OneAtATime, TypeOK
    <3>. QED
      BY <2>1, <3>1 DEF RequestInv
  <2>2. /\ doc.stored => doc.csr # Nobody
        /\ hs[h].pc \in {"csr", "read", "put", "make", "csr_delete", "forward"} => doc = NoDoc
        /\ hs[h].pc \in {"put", "make"} => hs[h].doc = NoDoc
        /\ hs[h].pc = "free" /\ ~own.live => doc = NoDoc
        /\ hs[h].pc \in {"follow", "get_csr", "csr", "read", "put", "make"} => own.live
        /\ own \in [live : BOOLEAN, dist : BOOLEAN]
        /\ doc.stored \in BOOLEAN /\ (~doc.stored => doc = NoDoc)
        /\ ~NoDoc.stored /\ Idle.pc = "free"
    BY NoDocShape DEF RequestInv, TypeOK, Docs, Idle
  <2>3. ASSUME NEW dist \in BOOLEAN, create(h, dist)
        PROVE  RequestInv'
    <3>. DEFINE q == [pc |-> IF dist THEN "csr" ELSE "free"]
    <3>1. Go(h, q) /\ doc' = NoDoc
      BY <2>2, <2>3 DEF create
    <3>2. Said(q)
      BY <2>3, <3>1 DEF create
    <3>. HIDE DEF q, Said
    <3>. QED
      BY <2>1, <2>2, <3>1, <3>2
  <2>4. ASSUME NEW dist \in BOOLEAN, update(h, dist)
        PROVE  RequestInv'
    <3>. DEFINE q == [pc |-> "follow"]
    <3>1. Go(h, q) /\ doc' = doc /\ own'.live
      BY <2>2, <2>4 DEF update
    <3>2. Said(q)
      BY <3>1
    <3>. HIDE DEF q, Said
    <3>. QED
      BY <2>1, <2>2, <3>1, <3>2
  <2>5. ASSUME delete(h) \/ Follow(h) \/ GetCsr(h)
        PROVE  RequestInv'
    <3>1. \E pc \in {"ds_get", "free", "get_csr", "csr"} :
             /\ Go(h, [pc |-> pc]) /\ UNCHANGED doc
             /\ pc = "get_csr" => own'.live
             /\ pc = "free" => own'.live
             /\ pc = "csr" => doc = NoDoc /\ own'.live
      BY <2>2, <2>5 DEF delete, Follow, GetCsr
    <3>2. PICK pc \in {"ds_get", "free", "get_csr", "csr"} :
             /\ Go(h, [pc |-> pc]) /\ UNCHANGED doc
             /\ pc = "get_csr" => own'.live
             /\ pc = "free" => own'.live
             /\ pc = "csr" => doc = NoDoc /\ own'.live
      BY <3>1
    <3>3. Said([pc |-> pc])
      BY <3>2
    <3>. HIDE DEF Said
    <3>. QED
      BY <2>1, <2>2, <3>2, <3>3
  <2>6. ASSUME CsrCreate(h) \/ DsRead(h)
        PROVE  RequestInv'
    <3>1. doc = NoDoc /\ UNCHANGED <<doc, own>> /\ own.live
      BY <2>2, <2>6 DEF CsrCreate, DsRead
    <3>2. CASE CsrCreate(h)
      <4>. DEFINE q == [pc |-> "read", csr |-> Fresh]
      <4>1. Go(h, q) /\ Said(q)
        BY <3>1, <3>2 DEF CsrCreate
      <4>. HIDE DEF q, Said
      <4>. QED
        BY <2>1, <2>2, <3>1, <4>1
    <3>3. CASE DsRead(h)
      <4>. DEFINE q == [pc |-> "put", csr |-> hs[h].csr, doc |-> doc]
      <4>1. Go(h, q) /\ Said(q)
        BY <3>1, <3>3 DEF DsRead
      <4>. HIDE DEF q, Said
      <4>. QED
        BY <2>1, <2>2, <3>1, <4>1
    <3>. QED
      BY <2>6, <3>2, <3>3
  <2>7. ASSUME DsPut(h) \/ DsMake(h)
        PROVE  RequestInv'
    <3>1. doc = NoDoc /\ hs[h].doc = NoDoc /\ ~doc.stored
      BY <2>2, <2>7 DEF DsPut, DsMake
    <3>2. hs[h].csr \in Given /\ own.live \in BOOLEAN
      BY <2>2, <2>7, RequestShape DEF DsPut, DsMake, TypeOK
    <3>3. CASE DsPut(h)
      <4>. DEFINE q == [hs[h] EXCEPT !.pc = "make"]
      <4>1. hs[h] \in [pc : {"put", "make"}, csr : Given, doc : Docs]
        BY <3>3, RequestShape DEF DsPut, TypeOK
      <4>2. q.pc = "make" /\ q.doc = NoDoc
        BY <3>1, <4>1
      <4>3. Go(h, q) /\ UNCHANGED doc
        BY <3>1, <3>3 DEF DsPut
      <4>4. Said(q)
        BY <2>2, <3>3, <4>2, <4>3 DEF DsPut
      <4>. HIDE DEF q, Said
      <4>. QED
        BY <2>1, <2>2, <4>3, <4>4
    <3>4. CASE DsMake(h)
      <4>1. doc' = Written(h) /\ Go(h, Idle) /\ UNCHANGED own
        BY <3>1, <3>4 DEF DsMake, Answer
      <4>2. doc'.csr # Nobody
        BY <3>2, <4>1 DEF Written, Given
      <4>3. own.live
        BY <3>4, <2>2 DEF DsMake
      <4>. QED
        BY <2>1, <2>2, <4>1, <4>2, <4>3
    <3>. QED
      BY <2>7, <3>3, <3>4
  <2>8. ASSUME DsGet(h) \/ IndexGone(h) \/ DsDelete(h) \/ CsrDelete(h)
        PROVE  RequestInv'
    <3>1. PICK q : /\ Go(h, q)
                   /\ q.pc \in {"inbound_delete", "ds_delete", "csr_delete", "forward"}
                   /\ q.pc \in {"csr_delete", "forward"} => doc' = NoDoc
                   /\ UNCHANGED doc \/ doc' = NoDoc
      <4>1. CASE DsGet(h)
        <5>. DEFINE q == [pc |-> "inbound_delete", doc |-> doc]
        <5>1. Go(h, q) /\ q.pc = "inbound_delete" /\ UNCHANGED doc
          BY <4>1 DEF DsGet
        <5>. QED
          BY <5>1
      <4>2. CASE IndexGone(h) \/ DsDelete(h) \/ CsrDelete(h)
        <5>1. hs[h] \in [pc : {"inbound_delete", "ds_delete", "csr_delete", "forward"}, doc : Docs]
          BY <4>2, RequestShape DEF IndexGone, DsDelete, CsrDelete, TypeOK
        <5>2. \A pc \in {"ds_delete", "csr_delete", "forward"} : [hs[h] EXCEPT !.pc = pc].pc = pc
          BY <5>1
        <5>3. PICK pc \in {"ds_delete", "csr_delete", "forward"} :
                 /\ Go(h, [hs[h] EXCEPT !.pc = pc])
                 /\ pc \in {"csr_delete", "forward"} => doc' = NoDoc
                 /\ UNCHANGED doc \/ doc' = NoDoc
          BY <2>2, <4>2 DEF IndexGone, DsDelete, CsrDelete
        <5>. DEFINE q == [hs[h] EXCEPT !.pc = pc]
        <5>4. Go(h, q) /\ q.pc = pc
          BY <5>2, <5>3
        <5>. HIDE DEF q
        <5>. QED
          BY <5>3, <5>4
      <4>. QED
        BY <2>8, <4>1, <4>2
    <3>2. Said(q)
      BY <3>1
    <3>. HIDE DEF Said
    <3>. QED
      BY <2>1, <2>2, <3>1, <3>2
  <2>9. ASSUME DeletesSpawned(h)
        PROVE  RequestInv'
    <3>1. Go(h, Idle) /\ doc' = NoDoc /\ ~doc'.stored
      BY <2>2, <2>9 DEF DeletesSpawned, Answer
    <3>2. Said(Idle)
      BY <2>2, <3>1
    <3>. HIDE DEF Said
    <3>. QED
      BY <2>1, <3>1, <3>2
  <2>. QED
    BY <1>3, <2>3, <2>4, <2>5, <2>6, <2>7, <2>8, <2>9 DEF HandlerStep
<1>. QED
  BY <1>1, <1>2, <1>3 DEF Next

-----------------------------------------------------------------------------
(* The ids of copies.                                                       *)

\* Whatever bears an id bears one that was given out.
LEMMA Bounded ==
    ASSUME TypeOK
    PROVE  /\ \A u \in tasks : Bears(u) => u.id \in Given /\ u.r \in Regs
           /\ \A r \in Regs : doc.to[r] \in Given \cup {Nobody}
           /\ \A h \in Handlers, r \in Regs : Carries(h) => hs[h].doc.to[r] \in Given \cup {Nobody}
           /\ Nobody \notin Given /\ Fresh \notin Given /\ Fresh # Nobody
<1>1. \A u \in tasks : Bears(u) => u.id \in Given /\ u.r \in Regs
  BY TaskShape DEF TypeOK
<1>2. \A r \in Regs : doc.to[r] \in Given \cup {Nobody}
  BY DEF TypeOK, Docs
<1>3. \A h \in Handlers : Carries(h) => hs[h].doc \in Docs
  BY RequestShape DEF Carries, TypeOK
<1>4. \A h \in Handlers, r \in Regs : Carries(h) => hs[h].doc.to[r] \in Given \cup {Nobody}
  BY <1>3 DEF Docs
<1>5. Nobody \notin Given /\ Fresh \notin Given /\ Fresh # Nobody
  BY DistSubAssumption DEF Given, Fresh, TypeOK
<1>. QED
  BY <1>1, <1>2, <1>4, <1>5

Late == {"post", "rollback", "unmap", "drop", "forget"}

\* A step that takes mappings away and sets nobody to work on a new copy.
LEMMA IdQuiet ==
    ASSUME TypeOK, IdInv,
           \A r \in Regs : doc'.to[r] \in {doc.to[r], Nobody},
           \A h \in Handlers : Carries(h)'
              => \/ Carries(h) /\ \A r \in Regs : hs'[h].doc.to[r] = hs[h].doc.to[r]
                 \/ \A r \in Regs : hs'[h].doc.to[r] = doc.to[r],
           \A u \in tasks' : Bears(u)
              => \/ u \in tasks
                 \/ u.pc = "drop" /\ u.r \in Regs /\ u.id = doc.to[u.r] /\ u.id # Nobody
                 \/ u.pc = "delete" /\ \E h \in Handlers, r \in Regs :
                                          Carries(h) /\ u.id = hs[h].doc.to[r]
    PROVE  IdInv'
<1>1. \A r, q \in Regs : doc'.to[r] = doc'.to[q] /\ doc'.to[r] # Nobody => r = q
  BY DEF IdInv
<1>2. ASSUME NEW t \in tasks', t.pc \in {"index", "map"}
      PROVE  Unknown(t)'
  <2>1. t \in tasks /\ Unknown(t)
    BY <1>2 DEF IdInv, Bears, WorkPcs
  <2>2. \A u \in tasks' : Bears(u) /\ u.id = t.id => u = t
    BY <2>1 DEF Unknown
  <2>3. \A r \in Regs : doc'.to[r] # t.id
    <3>1. t.id # Nobody
      BY <1>2, <2>1, Bounded DEF Bears, WorkPcs
    <3>. QED
      BY <2>1, <3>1 DEF Unknown
  <2>4. \A h \in Handlers : Carries(h)' => \A r \in Regs : hs'[h].doc.to[r] # t.id
    BY <2>1 DEF Unknown
  <2>. QED
    BY <2>2, <2>3, <2>4 DEF Unknown, Bears
<1>3. ASSUME NEW t \in tasks', t.pc \in Late \cup {"unindex"}
      PROVE  /\ t.pc \in Late => \A r \in Regs : doc'.to[r] = t.id => r = t.r
             /\ t.pc = "unindex" => \A r \in Regs : doc'.to[r] # t.id
  <2>1. Bears(t)
    BY <1>3 DEF Bears, WorkPcs, Late
  <2>2. CASE t \in tasks
    <3>1. t.id # Nobody
      BY <2>1, <2>2, Bounded
    <3>. QED
      BY <2>2, <3>1 DEF IdInv, Late
  <2>3. CASE t.pc = "drop" /\ t.r \in Regs /\ t.id = doc.to[t.r] /\ t.id # Nobody
    BY <2>3 DEF IdInv
  <2>. QED
    BY <1>3, <2>1, <2>2, <2>3 DEF Late
<1>. QED
  BY <1>1, <1>2, <1>3 DEF IdInv, Late

\* The work on a copy goes on; what is mapped then is this copy, if anything.
LEMMA IdTurn ==
    ASSUME TypeOK, IdInv, UNCHANGED hs, NEW t \in tasks, NEW s, t # s, Turn(t, s),
           Bears(t), Bears(s), s.id = t.id, s.r = t.r,
           s.pc \in {"index", "map"} => t.pc \in {"index", "map"},
           s.pc \in Late => t.pc \in Late \/ (s.pc = "post" /\ t.pc = "map"),
           s.pc = "unindex" => \A r \in Regs : doc'.to[r] # t.id,
           \A r \in Regs : \/ doc'.to[r] \in {doc.to[r], Nobody}
                           \/ r = t.r /\ doc'.to[r] = t.id /\ t.pc = "map" /\ s.pc = "post"
    PROVE  IdInv'
<1>. USE DEF Turn
<1>1. /\ t.id # Nobody
      /\ t.pc \in {"index", "map"} => Unknown(t)
      /\ t.pc \in Late => \A r \in Regs : doc.to[r] = t.id => r = t.r
  BY Bounded DEF IdInv, Late
<1>2. \A r, q \in Regs : doc'.to[r] = doc'.to[q] /\ doc'.to[r] # Nobody => r = q
  BY <1>1 DEF IdInv, Unknown
<1>3. \A h \in Handlers : Carries(h)' <=> Carries(h)
  BY DEF Carries
<1>4. ASSUME NEW v \in tasks, v # t, Bears(v), v.pc \in {"index", "map"}
      PROVE  Unknown(v)'
  <2>1. Unknown(v) /\ v.id # Nobody /\ v.id # t.id
    BY <1>4, Bounded DEF IdInv, Unknown
  <2>. QED
    BY <1>3, <2>1 DEF Unknown, Bears
<1>5. ASSUME s.pc \in {"index", "map"}
      PROVE  Unknown(s)'
  <2>1. Unknown(t) /\ s.pc # "post"
    BY <1>1, <1>5
  <2>2. \A u \in tasks' : Bears(u) /\ u.id = s.id => u = s
    BY <2>1 DEF Unknown
  <2>3. \A r \in Regs : doc'.to[r] # s.id
    BY <1>1, <2>1 DEF Unknown
  <2>4. \A h \in Handlers : Carries(h)' => \A r \in Regs : hs'[h].doc.to[r] # s.id
    BY <1>3, <2>1 DEF Unknown
  <2>. QED
    BY <2>2, <2>3, <2>4 DEF Unknown, Bears
<1>6. ASSUME NEW v \in tasks, v # t, v.pc \in Late \cup {"unindex"}
      PROVE  /\ v.pc \in Late => \A r \in Regs : doc'.to[r] = v.id => r = v.r
             /\ v.pc = "unindex" => \A r \in Regs : doc'.to[r] # v.id
  <2>1. Bears(v) /\ v.id # Nobody
    BY <1>6, Bounded DEF Bears, WorkPcs, Late
  <2>2. t.pc = "map" => v.id # t.id
    BY <1>1, <1>6, <2>1 DEF Unknown
  <2>. QED
    BY <1>6, <2>1, <2>2 DEF IdInv, Late
<1>7. /\ s.pc \in Late => \A r \in Regs : doc'.to[r] = s.id => r = s.r
      /\ s.pc = "unindex" => \A r \in Regs : doc'.to[r] # s.id
  BY <1>1 DEF Unknown, Late
<1>8. \A v \in tasks' :
         /\ v.pc \in {"index", "map"} => Unknown(v)'
         /\ v.pc \in Late => \A r \in Regs : doc'.to[r] = v.id => r = v.r
         /\ v.pc = "unindex" => \A r \in Regs : doc'.to[r] # v.id
  <2>1. \A v \in tasks : v.pc \in {"index", "map"} => Bears(v)
    BY DEF Bears, WorkPcs
  <2>. QED
    BY <1>4, <1>5, <1>6, <1>7, <2>1
<1>. QED
  BY <1>2, <1>8 DEF IdInv, Late

\* A new copy gets an id nobody has.
LEMMA IdFresh ==
    ASSUME TypeOK, IdInv, UNCHANGED <<hs, doc>>, NEW t \in tasks, ~Bears(t), NEW s, Turn(t, s),
           Bears(s), s.id = Fresh, s.pc = "index"
    PROVE  IdInv'
<1>. USE DEF Turn
<1>1. \A h \in Handlers : Carries(h)' <=> Carries(h)
  BY DEF Carries
<1>2. \A v \in tasks : Bears(v) => v.id # s.id
  BY Bounded
<1>3. ASSUME NEW v \in tasks, v.pc \in {"index", "map"}
      PROVE  Unknown(v)'
  <2>1. Unknown(v) /\ Bears(v)
    BY <1>3 DEF IdInv, Bears, WorkPcs
  <2>. QED
    BY <1>1, <1>2, <2>1 DEF Unknown, Bears
<1>4. Unknown(s)'
  <2>1. \A u \in tasks' : Bears(u) /\ u.id = s.id => u = s
    BY <1>2
  <2>2. \A r \in Regs : doc'.to[r] # s.id
    BY Bounded
  <2>3. \A h \in Handlers : Carries(h)' => \A r \in Regs : hs'[h].doc.to[r] # s.id
    BY <1>1, Bounded
  <2>. QED
    BY <2>1, <2>2, <2>3 DEF Unknown, Bears
<1>5. \A r, q \in Regs : doc'.to[r] = doc'.to[q] /\ doc'.to[r] # Nobody => r = q
  BY DEF IdInv
<1>6. \A v \in tasks' :
         /\ v.pc \in {"index", "map"} => Unknown(v)'
         /\ v.pc \in Late => \A r \in Regs : doc'.to[r] = v.id => r = v.r
         /\ v.pc = "unindex" => \A r \in Regs : doc'.to[r] # v.id
  BY <1>3, <1>4 DEF IdInv, Late
<1>. QED
  BY <1>5, <1>6 DEF IdInv, Late

\* A mapping taken away, and one there was not.
LEMMA UnmappedShape ==
    ASSUME TypeOK, NEW r \in Regs, Unmapped(r)
    PROVE  /\ \A q \in Regs : doc'.to[q] = IF q = r THEN Nobody ELSE doc.to[q]
           /\ \A q \in Regs : freed'[q] = IF q = r /\ doc.to[r] # Nobody THEN freed[q] + 1 ELSE freed[q]
<1>1. freed \in [Regs -> Nat]
  BY DEF TypeOK
<1>. QED
  BY <1>1, MappingShape DEF Unmapped

\* What Dispatch makes of a task.
LEMMA DispatchStep ==
    ASSUME TypeOK, NEW t \in tasks, Dispatch(t)
    PROVE  \E s : /\ Turn(t, s) /\ ~Bears(t) /\ UNCHANGED <<doc, hs, inbound, copies, freed>>
                  /\ \/ ~Bears(s)
                     \/ Bears(s) /\ s.pc = "index" /\ s.id = Fresh
                     \/ s.pc = "drop" /\ s.r \in Regs /\ s.id = doc.to[s.r] /\ s.id # Nobody
<1>1. /\ t \in [n : Given, pc : JobPcs, reason : Reasons, todo : About, jobs : SUBSET Given,
                about : About]
      /\ t.pc = "dispatch" /\ ~Bears(t) /\ UNCHANGED <<doc, hs, inbound, copies, freed>>
  BY TaskShape DEF Dispatch, TypeOK, JobPcs, Bears, WorkPcs
<1>2. CASE t.todo = {}
  <2>. DEFINE s == [t EXCEPT !.pc = "send"]
  <2>1. s.pc = "send" /\ Turn(t, s)
    BY <1>1, <1>2 DEF Dispatch, At
  <2>. HIDE DEF s
  <2>. QED
    BY <1>1, <2>1 DEF Bears, WorkPcs
<1>3. CASE t.todo # {}
  <2>1. PICK x \in t.todo :
          LET left == [t EXCEPT !.todo = @ \ {x}]
              mapped == doc.to[x.r]
              Work(pc, id) == [n |-> t.n, pc |-> pc, r |-> x.r, id |-> id, reason |-> t.reason,
                               todo |-> left.todo, jobs |-> t.jobs, about |-> t.about]
          IN \/ Turn(t, Work("index", Fresh)) /\ Count("ids")
             \/ Turn(t, Work("drop", mapped)) /\ mapped # Nobody
             \/ Turn(t, left)
    BY <1>3 DEF Dispatch
  <2>2. x.r \in Regs
    BY <1>1 DEF About
  <2>. DEFINE Work(pc, id) == [n |-> t.n, pc |-> pc, r |-> x.r, id |-> id, reason |-> t.reason,
                               todo |-> [t EXCEPT !.todo = @ \ {x}].todo, jobs |-> t.jobs,
                               about |-> t.about]
              left == [t EXCEPT !.todo = @ \ {x}]
  <2>3. Turn(t, Work("index", Fresh)) \/ (Turn(t, Work("drop", doc.to[x.r])) /\ doc.to[x.r] # Nobody)
        \/ Turn(t, left)
    BY <2>1
  <2>4. \A pc, id : Work(pc, id).pc = pc /\ Work(pc, id).r = x.r /\ Work(pc, id).id = id
    OBVIOUS
  <2>5. left.pc = "dispatch"
    BY <1>1
  <2>. HIDE DEF Work, left
  <2>. QED
    BY <1>1, <2>2, <2>3, <2>4, <2>5 DEF Bears, WorkPcs
<1>. QED
  BY <1>2, <1>3

\* A task's turn that leaves the work on copies as it is.
LEMMA JobsOnly ==
    ASSUME TypeOK, NEW t \in tasks,
           Prepare(t) \/ Send(t) \/ Initial(t) \/ InitialList(t) \/ Notified(t)
    PROVE  /\ \A u \in tasks' : Bears(u) => u \in tasks
           /\ \A u \in tasks : Bears(u) => u \in tasks'
           /\ UNCHANGED <<doc, hs, inbound, copies, freed, spent>>
<1>. USE DEF Bears, WorkPcs
<1>1. ~Bears(t) /\ UNCHANGED <<doc, hs, inbound, copies, freed, spent>>
  BY DEF Prepare, Send, Initial, InitialList, Notified
<1>2. ASSUME NEW s, Turn(t, s), s.pc \in {"send", "notify", "list", "dispatch"}
      PROVE  /\ \A u \in tasks' : Bears(u) => u \in tasks
             /\ \A u \in tasks : Bears(u) => u \in tasks'
  BY <1>1, <1>2 DEF Turn
<1>3. CASE tasks' = tasks \ {t}
  BY <1>1, <1>3
<1>4. ASSUME tasks' # tasks \ {t}
      PROVE  \E s : Turn(t, s) /\ s.pc \in {"send", "notify", "list", "dispatch"}
  <2>1. CASE Prepare(t)
    <3>. DEFINE reason == csource_trigger(t.old, t.new)
                form == IF reason = "noLongerMatching" THEN t.old ELSE t.new
                s == [n |-> t.n, pc |-> "send", reason |-> reason, todo |-> {},
                      jobs |-> csrs, about |-> {[r |-> t.r, form |-> form]}]
    <3>1. Turn(t, s) /\ s.pc = "send"
      BY <1>4, <2>1 DEF Prepare
    <3>. HIDE DEF s
    <3>. QED
      BY <3>1
  <2>2. CASE Send(t)
    <3>1. PICK c \in t.jobs :
            Turn(t, [n |-> t.n, pc |-> IF c \in csrs THEN "notify" ELSE "send",
                     reason |-> t.reason, todo |-> IF c \in csrs THEN t.about ELSE {},
                     jobs |-> t.jobs \ {c}, about |-> t.about])
      BY <1>4, <2>2 DEF Send
    <3>. DEFINE s == [n |-> t.n, pc |-> IF c \in csrs THEN "notify" ELSE "send",
                      reason |-> t.reason, todo |-> IF c \in csrs THEN t.about ELSE {},
                      jobs |-> t.jobs \ {c}, about |-> t.about]
    <3>2. Turn(t, s) /\ s.pc \in {"notify", "send"}
      BY <3>1
    <3>. HIDE DEF s
    <3>. QED
      BY <3>2
  <2>3. CASE Initial(t)
    <3>. DEFINE s == [t EXCEPT !.pc = "list"]
    <3>1. t \in [n : Given, pc : {"initial", "list"}, csr : Given]
      BY <2>3, TaskShape DEF Initial, TypeOK
    <3>2. Turn(t, s) /\ s.pc = "list"
      BY <1>4, <2>3, <3>1 DEF Initial, At
    <3>. HIDE DEF s
    <3>. QED
      BY <3>2
  <2>4. CASE InitialList(t)
    <3>. DEFINE now == {[r |-> r, form |-> reg[r]] : r \in {r \in Regs : Matching(reg[r])}}
                s == [n |-> t.n, pc |-> "notify", reason |-> "newlyMatching", todo |-> now,
                      jobs |-> {}, about |-> {}]
    <3>1. Turn(t, s) /\ s.pc = "notify"
      BY <1>4, <2>4 DEF InitialList
    <3>. HIDE DEF s
    <3>. QED
      BY <3>1
  <2>5. CASE Notified(t)
    <3>. DEFINE s == [t EXCEPT !.pc = IF own.live /\ own.dist THEN "dispatch" ELSE "send"]
    <3>1. t \in [n : Given, pc : JobPcs, reason : Reasons, todo : About, jobs : SUBSET Given,
                 about : About]
      BY <2>5, TaskShape DEF Notified, TypeOK, JobPcs
    <3>2. Turn(t, s) /\ s.pc \in {"dispatch", "send"}
      BY <2>5, <3>1 DEF Notified, At
    <3>. HIDE DEF s
    <3>. QED
      BY <3>2
  <2>. QED
    BY <2>1, <2>2, <2>3, <2>4, <2>5
<1>. QED
  BY <1>1, <1>2, <1>3, <1>4

\* Work on a copy that goes on, or is over.
LEMMA WorkStep ==
    ASSUME TypeOK, NEW t \in tasks, t.pc \in WorkPcs
    PROVE  /\ \A pc \in WorkPcs : At(t, pc)
                 => \E s : /\ Turn(t, s) /\ Bears(s) /\ Bears(t) /\ s.id = t.id /\ s.r = t.r
                           /\ s.pc = pc
           /\ Turn(t, Resumed(t))
                 => /\ \A u \in tasks' : Bears(u) => u \in tasks
                    /\ \A u \in tasks \ {t} : u \in tasks'
<1>1. t \in Tasks /\ Bears(t)
  BY DEF TypeOK, Bears
<1>2. ASSUME NEW pc \in WorkPcs, At(t, pc)
      PROVE  \E s : /\ Turn(t, s) /\ Bears(s) /\ Bears(t) /\ s.id = t.id /\ s.r = t.r /\ s.pc = pc
  <2>. DEFINE s == [t EXCEPT !.pc = pc]
  <2>1. Turn(t, s) /\ s.pc = pc /\ s.id = t.id /\ s.r = t.r
    BY <1>1, <1>2, WorkGoesOn DEF At
  <2>. HIDE DEF s
  <2>. QED
    BY <1>1, <2>1 DEF Bears
<1>3. Turn(t, Resumed(t)) => /\ \A u \in tasks' : Bears(u) => u \in tasks
                             /\ \A u \in tasks \ {t} : u \in tasks'
  BY <1>1, WorkEnds DEF Turn
<1>. QED
  BY <1>2, <1>3

\* Work that leaves one await for another: where from, where to, and what it
\* does to the mappings on the way.
LEMMA IdWork ==
    ASSUME TypeOK, IdInv, NEW t \in tasks,
           \/ InboundPut(t) \/ SetRemote(t) \/ Post(t) \/ Rollback(t) \/ Unmap(t) \/ Drop(t)
           \/ Forget(t) \/ InboundDelete(t)
    PROVE  IdInv'
<1>1. /\ t.pc \in WorkPcs /\ Bears(t) /\ t.id \in Given /\ t.r \in Regs /\ t.id # Nobody /\ UNCHANGED hs
      /\ t.pc \in {"index", "map"} => Unknown(t)
      /\ t.pc \in Late => \A r \in Regs : doc.to[r] = t.id => r = t.r
  BY Bounded DEF InboundPut, SetRemote, Post, Rollback, Unmap, Drop, Forget, InboundDelete, WorkPcs,
                 Bears, IdInv, Late
<1>2. ASSUME \A u \in tasks' : Bears(u) => u \in tasks,
             \A r \in Regs : doc'.to[r] \in {doc.to[r], Nobody}
      PROVE  IdInv'
  <2>1. \A h \in Handlers : Carries(h)' => Carries(h) /\ \A r \in Regs : hs'[h].doc.to[r] = hs[h].doc.to[r]
    BY <1>1 DEF Carries
  <2>. QED
    BY <1>2, <2>1, IdQuiet
<1>3. ASSUME Turn(t, Resumed(t)), \A r \in Regs : doc'.to[r] \in {doc.to[r], Nobody}
      PROVE  IdInv'
  BY <1>1, <1>2, <1>3, WorkStep
<1>4. ASSUME NEW pc \in WorkPcs, At(t, pc), t.pc # pc,
             pc \in {"index", "map"} => t.pc \in {"index", "map"},
             pc \in Late => t.pc \in Late \/ (pc = "post" /\ t.pc = "map"),
             pc = "unindex" => \A r \in Regs : doc'.to[r] # t.id,
             \A r \in Regs : \/ doc'.to[r] \in {doc.to[r], Nobody}
                             \/ r = t.r /\ doc'.to[r] = t.id /\ t.pc = "map" /\ pc = "post"
      PROVE  IdInv'
  <2>1. PICK s : Turn(t, s) /\ Bears(s) /\ s.id = t.id /\ s.r = t.r /\ s.pc = pc
    BY <1>1, <1>4, WorkStep
  <2>2. t # s
    BY <1>4, <2>1
  <2>. QED
    BY <1>1, <1>4, <2>1, <2>2, IdTurn
<1>5. CASE InboundPut(t)
  BY <1>4, <1>5 DEF InboundPut, WorkPcs, Late
<1>6. CASE SetRemote(t)
  <2>1. CASE MayMap(t.r)
    <3>1. t.pc = "map" /\ At(t, "post") /\ doc' = Mapping(t.r, t.id)
      BY <1>6, <2>1 DEF SetRemote
    <3>2. \A r \in Regs : doc'.to[r] = IF r = t.r THEN t.id ELSE doc.to[r]
      BY <1>1, <3>1, MappingShape
    <3>. QED
      BY <1>4, <3>1, <3>2 DEF WorkPcs, Late
  <2>2. CASE ~MayMap(t.r)
    <3>1. t.pc = "map" /\ At(t, "unindex") /\ doc' = doc
      BY <1>6, <2>2 DEF SetRemote
    <3>2. \A r \in Regs : doc'.to[r] # t.id
      BY <1>1, <3>1 DEF Unknown
    <3>. QED
      BY <1>4, <3>1, <3>2 DEF WorkPcs, Late
  <2>. QED
    BY <2>1, <2>2
<1>7. CASE Post(t)
  <2>1. UNCHANGED doc /\ t.pc = "post" /\ (Turn(t, Resumed(t)) \/ At(t, "rollback"))
    BY <1>7 DEF Post
  <2>. QED
    BY <1>3, <1>4, <2>1 DEF WorkPcs, Late
<1>8. CASE Rollback(t)
  BY <1>4, <1>8 DEF Rollback, WorkPcs, Late
<1>9. CASE Unmap(t)
  <2>1. \A r \in Regs : doc'.to[r] \in {doc.to[r], Nobody}
    BY <1>1, <1>9, UnmappedShape DEF Unmap
  <2>. QED
    BY <1>3, <1>9, <2>1 DEF Unmap
<1>10. CASE Drop(t)
  BY <1>4, <1>10 DEF Drop, WorkPcs, Late
<1>11. CASE Forget(t)
  <2>1. t.pc = "forget" /\ At(t, "unindex") /\ Unmapped(t.r)
    BY <1>11 DEF Forget
  <2>2. \A r \in Regs : doc'.to[r] = IF r = t.r THEN Nobody ELSE doc.to[r]
    BY <1>1, <2>1, UnmappedShape
  <2>3. \A r \in Regs : doc'.to[r] # t.id
    BY <1>1, <2>1, <2>2 DEF Late
  <2>. QED
    BY <1>4, <2>1, <2>2, <2>3 DEF WorkPcs, Late
<1>12. CASE InboundDelete(t)
  BY <1>3, <1>12 DEF InboundDelete
<1>. QED
  BY <1>5, <1>6, <1>7, <1>8, <1>9, <1>10, <1>11, <1>12

\* What a request does to the mappings, and what it carries.
LEMMA RequestQuiet ==
    ASSUME OneAtATime, TypeOK, RequestInv, NEW h \in Handlers, HandlerStep(h)
    PROVE  /\ \A r \in Regs : doc'.to[r] \in {doc.to[r], Nobody}
           /\ DsDelete(h) \/ \A r \in Regs : doc'.to[r] = doc.to[r]
           /\ \A g \in Handlers : Carries(g)'
                 => \/ Carries(g) /\ \A r \in Regs : hs'[g].doc.to[r] = hs[g].doc.to[r]
                    \/ \A r \in Regs : hs'[g].doc.to[r] = doc.to[r]
           /\ \A u \in tasks' : Bears(u)
                 => \/ u \in tasks
                    \/ u.pc = "delete" /\ \E g \in Handlers, r \in Regs :
                                             Carries(g) /\ u.id = hs[g].doc.to[r]
           /\ \A u \in tasks : u \in tasks'
<1>1. DsDelete(h) \/ \A r \in Regs : doc'.to[r] = doc.to[r]
  <2>1. CASE DsPut(h) \/ DsMake(h)
    <3>1. doc = NoDoc /\ hs[h].doc = NoDoc
      BY <2>1 DEF DsPut, DsMake, RequestInv
    <3>2. doc' = doc \/ doc' = Written(h)
      BY <2>1 DEF DsPut, DsMake
    <3>. QED
      BY <3>1, <3>2 DEF Written
  <2>. QED
    BY <2>1, RequestChanges
<1>2. \A r \in Regs : doc'.to[r] \in {doc.to[r], Nobody}
  <2>1. CASE DsDelete(h)
    BY <2>1, NoDocShape DEF DsDelete
  <2>. QED
    BY <1>1, <2>1
<1>3. ASSUME NEW g \in Handlers, Carries(g)'
      PROVE  \/ Carries(g) /\ \A r \in Regs : hs'[g].doc.to[r] = hs[g].doc.to[r]
             \/ \A r \in Regs : hs'[g].doc.to[r] = doc.to[r]
  <2>. USE DEF Carries
  <2>1. ASSUME NEW q, Go(h, q),
               q.pc \in {"put", "make", "inbound_delete", "ds_delete", "csr_delete", "forward"}
                  => \/ Carries(h) /\ q.doc = hs[h].doc
                     \/ q.doc = doc
        PROVE  \/ Carries(g) /\ \A r \in Regs : hs'[g].doc.to[r] = hs[g].doc.to[r]
               \/ \A r \in Regs : hs'[g].doc.to[r] = doc.to[r]
    <3>1. g = h /\ hs'[g] = q
      BY <2>1 DEF Go, OneAtATime, TypeOK
    <3>. QED
      BY <1>3, <2>1, <3>1
  <2>2. CASE \/ \E dist \in BOOLEAN : create(h, dist) \/ update(h, dist)
             \/ delete(h) \/ Follow(h) \/ GetCsr(h) \/ DeletesSpawned(h) \/ DsMake(h)
    <3>1. PICK pc \in {"free", "csr", "follow", "get_csr", "ds_get"} : Go(h, [pc |-> pc])
      BY <2>2 DEF create, update, delete, Follow, GetCsr, DeletesSpawned, DsMake, Answer, Idle
    <3>. QED
      BY <2>1, <3>1
  <2>3. CASE CsrCreate(h)
    <3>1. Go(h, [pc |-> "read", csr |-> Fresh])
      BY <2>3 DEF CsrCreate
    <3>. QED
      BY <2>1, <3>1
  <2>4. CASE DsRead(h)
    <3>. DEFINE q == [pc |-> "put", csr |-> hs[h].csr, doc |-> doc]
    <3>1. Go(h, q) /\ q.doc = doc
      BY <2>4 DEF DsRead
    <3>. HIDE DEF q
    <3>. QED
      BY <2>1, <3>1
  <2>5. CASE DsPut(h)
    <3>. DEFINE q == [hs[h] EXCEPT !.pc = "make"]
    <3>1. hs[h] \in [pc : {"put", "make"}, csr : Given, doc : Docs]
      BY <2>5, RequestShape DEF DsPut, TypeOK
    <3>2. q.doc = hs[h].doc /\ Carries(h)
      BY <2>5, <3>1 DEF DsPut
    <3>3. Go(h, Idle) \/ Go(h, q)
      BY <2>5 DEF DsPut, Answer
    <3>4. Idle.pc = "free"
      BY DEF Idle
    <3>. HIDE DEF q
    <3>. QED
      BY <2>1, <3>2, <3>3, <3>4
  <2>6. CASE DsGet(h)
    <3>. DEFINE q == [pc |-> "inbound_delete", doc |-> doc]
    <3>1. Go(h, q) /\ q.doc = doc
      BY <2>6 DEF DsGet
    <3>. HIDE DEF q
    <3>. QED
      BY <2>1, <3>1
  <2>7. CASE IndexGone(h) \/ DsDelete(h) \/ CsrDelete(h)
    <3>1. hs[h] \in [pc : {"inbound_delete", "ds_delete", "csr_delete", "forward"}, doc : Docs]
      BY <2>7, RequestShape DEF IndexGone, DsDelete, CsrDelete, TypeOK
    <3>2. PICK pc \in {"ds_delete", "csr_delete", "forward"} : Go(h, [hs[h] EXCEPT !.pc = pc])
      BY <2>7 DEF IndexGone, DsDelete, CsrDelete
    <3>. DEFINE q == [hs[h] EXCEPT !.pc = pc]
    <3>3. Go(h, q) /\ q.doc = hs[h].doc /\ Carries(h)
      BY <3>1, <3>2
    <3>. HIDE DEF q
    <3>. QED
      BY <2>1, <3>3
  <2>. QED
    BY <2>2, <2>3, <2>4, <2>5, <2>6, <2>7 DEF HandlerStep
<1>4. /\ \A u \in tasks' : Bears(u)
            => \/ u \in tasks
               \/ u.pc = "delete" /\ \E g \in Handlers, r \in Regs :
                                        Carries(g) /\ u.id = hs[g].doc.to[r]
      /\ \A u \in tasks : u \in tasks'
  <2>1. CASE DsPut(h) \/ DsMake(h)
    <3>1. UNCHANGED tasks \/ tasks' = tasks \cup {[n |-> Fresh, pc |-> "initial", csr |-> hs[h].csr]}
      BY <2>1 DEF DsPut, DsMake, Spawned
    <3>. QED
      BY <3>1 DEF Bears, WorkPcs
  <2>2. CASE DeletesSpawned(h)
    <3>1. Carries(h)
      BY <2>2 DEF DeletesSpawned, Carries
    <3>2. \A u \in tasks' \ tasks : u.pc = "delete" /\ \E r \in Regs : u.id = hs[h].doc.to[r]
      BY <2>2 DEF DeletesSpawned, Remotes
    <3>3. tasks \subseteq tasks'
      BY <2>2 DEF DeletesSpawned
    <3>. QED
      BY <3>1, <3>2, <3>3
  <2>. QED
    BY <2>1, <2>2, RequestChanges
<1>. QED
  BY <1>1, <1>2, <1>3, <1>4

LEMMA IdStep ==
    ASSUME OneAtATime, TypeOK, RequestInv, IdInv, [Next]_vars
    PROVE  IdInv'
<1>1. ASSUME UNCHANGED <<doc, hs>>, \A u \in tasks' : Bears(u) => u \in tasks
      PROVE  IdInv'
  <2>1. /\ \A r \in Regs : doc'.to[r] \in {doc.to[r], Nobody}
        /\ \A h \in Handlers : Carries(h)'
              => Carries(h) /\ \A r \in Regs : hs'[h].doc.to[r] = hs[h].doc.to[r]
    BY <1>1 DEF Carries
  <2>. QED
    BY <1>1, <2>1, IdQuiet
<1>2. CASE UNCHANGED vars
  BY <1>1, <1>2 DEF vars
<1>3. ASSUME NEW r \in Regs, NEW form \in Forms \cup {Nobody}, RegWrite(r, form)
      PROVE  IdInv'
  BY <1>1, <1>3 DEF RegWrite, Bears, WorkPcs
<1>4. ASSUME NEW t \in tasks,
             Prepare(t) \/ Send(t) \/ Initial(t) \/ InitialList(t) \/ Notified(t)
      PROVE  IdInv'
  BY <1>1, <1>4, JobsOnly
<1>5. ASSUME NEW t \in tasks, Dispatch(t)
      PROVE  IdInv'
  <2>1. PICK s : /\ Turn(t, s) /\ ~Bears(t) /\ UNCHANGED <<doc, hs, inbound, copies, freed>>
                 /\ \/ ~Bears(s)
                    \/ Bears(s) /\ s.pc = "index" /\ s.id = Fresh
                    \/ s.pc = "drop" /\ s.r \in Regs /\ s.id = doc.to[s.r] /\ s.id # Nobody
    BY <1>5, DispatchStep
  <2>2. CASE ~Bears(s)
    BY <1>1, <2>1, <2>2 DEF Turn
  <2>3. CASE Bears(s) /\ s.pc = "index" /\ s.id = Fresh
    BY <2>1, <2>3, IdFresh
  <2>4. CASE s.pc = "drop" /\ s.r \in Regs /\ s.id = doc.to[s.r] /\ s.id # Nobody
    <3>1. /\ \A r \in Regs : doc'.to[r] \in {doc.to[r], Nobody}
          /\ \A h \in Handlers : Carries(h)'
                => Carries(h) /\ \A r \in Regs : hs'[h].doc.to[r] = hs[h].doc.to[r]
      BY <2>1 DEF Carries
    <3>2. \A u \in tasks' : u \in tasks \/ u = s
      BY <2>1 DEF Turn
    <3>. QED
      BY <2>4, <3>1, <3>2, IdQuiet
  <2>. QED
    BY <2>1, <2>2, <2>3, <2>4
<1>6. ASSUME NEW t \in tasks, DeleteForward(t)
      PROVE  IdInv'
  BY <1>1, <1>6 DEF DeleteForward
<1>7. ASSUME NEW h \in Handlers, HandlerStep(h)
      PROVE  IdInv'
  BY <1>7, RequestQuiet, IdQuiet
<1>. QED
  BY <1>2, <1>3, <1>4, <1>5, <1>6, <1>7, IdWork DEF Next, TaskStep

-----------------------------------------------------------------------------
(* The inbound index.                                                       *)

\* Somebody on the way to take a mapping away stays on it.
LEMMA LeavingStays ==
    ASSUME NEW r \in Regs, Leaving(r), UNCHANGED hs,
           \A u \in tasks : u.pc = "unmap" /\ u.r = r => u \in tasks'
    PROVE  Leaving(r)'
BY DEF Leaving

\* A task's step leaves what is mapped in the index.
LEMMA TaskIndex ==
    ASSUME TypeOK, IdInv, IndexInv, [Next]_vars, NEW t \in tasks, TaskStep(t)
    PROVE  MappedIsIndexed'
<1>1. /\ UNCHANGED hs /\ spent'.unindexed >= spent.unindexed /\ spent.unindexed \in Nat
      /\ spent'.unindexed \in Nat
  BY TaskChanges, IdsGrow DEF Counters
<1>2. SUFFICES ASSUME NEW r \in Regs, doc'.to[r] # Nobody, ~Leaving(r)', ~(spent'.unindexed > 0)
               PROVE  doc'.to[r] \in inbound'
  BY DEF MappedIsIndexed
<1>3. spent.unindexed = 0
  BY <1>1, <1>2
<1>4. ASSUME doc'.to[r] = doc.to[r], \A u \in tasks : u.pc = "unmap" /\ u.r = r => u \in tasks'
      PROVE  doc'.to[r] \in inbound
  <2>1. ~Leaving(r)
    BY <1>1, <1>2, <1>4, LeavingStays
  <2>. QED
    BY <1>2, <1>3, <1>4, <2>1 DEF IndexInv, MappedIsIndexed
<1>5. CASE Prepare(t) \/ Send(t) \/ Initial(t) \/ InitialList(t) \/ Notified(t)
  BY <1>4, <1>5, JobsOnly DEF Bears, WorkPcs
<1>6. CASE Dispatch(t)
  <2>1. UNCHANGED <<doc, inbound>> /\ ~Bears(t) /\ \A u \in tasks \ {t} : u \in tasks'
    BY <1>6, DispatchStep DEF Turn
  <2>. QED
    BY <1>4, <2>1 DEF Bears, WorkPcs
<1>7. CASE InboundPut(t) \/ Post(t) \/ Drop(t) \/ DeleteForward(t)
  <2>1. UNCHANGED doc /\ inbound \subseteq inbound' /\ t.pc # "unmap" /\ \A u \in tasks \ {t} : u \in tasks'
    BY <1>7 DEF InboundPut, Post, Drop, DeleteForward, At, Turn
  <2>. QED
    BY <1>4, <2>1
<1>8. CASE SetRemote(t)
  <2>1. UNCHANGED inbound /\ t.pc = "map" /\ \A u \in tasks \ {t} : u \in tasks'
    BY <1>8 DEF SetRemote, At, Turn
  <2>2. t.r \in Regs /\ t.id \in Given /\ t.id \in inbound
    BY <1>3, <2>1, Bounded DEF IndexInv, Bears, WorkPcs
  <2>3. doc'.to[r] = doc.to[r] \/ doc'.to[r] = t.id
    BY <1>8, <2>2, MappingShape DEF SetRemote
  <2>. QED
    BY <1>4, <2>1, <2>2, <2>3
<1>9. CASE Rollback(t)
  <2>1. /\ UNCHANGED doc /\ inbound' = inbound \ {t.id} /\ t.pc = "rollback" /\ At(t, "unmap")
        /\ \A u \in tasks \ {t} : u \in tasks'
    BY <1>9 DEF Rollback, At, Turn
  <2>2. PICK s : Turn(t, s) /\ s.r = t.r /\ s.pc = "unmap"
    BY <2>1, WorkStep DEF WorkPcs
  <2>3. r # t.r
    BY <1>2, <2>2 DEF Leaving, Turn
  <2>4. doc.to[r] # t.id
    BY <2>1, <2>3 DEF IdInv
  <2>. QED
    BY <1>4, <2>1, <2>4
<1>10. CASE Unmap(t) \/ Forget(t)
  <2>1. /\ Unmapped(t.r) /\ UNCHANGED inbound /\ t.pc \in {"unmap", "forget"}
        /\ \A u \in tasks \ {t} : u \in tasks'
    BY <1>10 DEF Unmap, Forget, At, Turn
  <2>2. t.r \in Regs
    BY <2>1, Bounded DEF Bears, WorkPcs
  <2>3. r # t.r /\ doc'.to[r] = doc.to[r]
    BY <1>2, <2>1, <2>2, UnmappedShape
  <2>. QED
    BY <1>4, <2>1, <2>3
<1>11. CASE InboundDelete(t)
  <2>1. /\ UNCHANGED doc /\ inbound' = inbound \ {t.id} /\ t.pc = "unindex"
        /\ \A u \in tasks \ {t} : u \in tasks'
    BY <1>11 DEF InboundDelete, Turn
  <2>2. doc.to[r] # t.id
    BY <2>1 DEF IdInv
  <2>. QED
    BY <1>4, <2>1, <2>2
<1>. QED
  BY <1>5, <1>6, <1>7, <1>8, <1>9, <1>10, <1>11 DEF TaskStep

\* So does a request's.
LEMMA RequestIndex ==
    ASSUME OneAtATime, TypeOK, RequestInv, IndexInv, [Next]_vars, NEW h \in Handlers, HandlerStep(h)
    PROVE  MappedIsIndexed'
<1>1. spent'.unindexed >= spent.unindexed /\ spent.unindexed \in Nat /\ spent'.unindexed \in Nat
  BY IdsGrow DEF Counters
<1>2. CASE DsDelete(h)
  BY <1>2, NoDocShape DEF DsDelete, MappedIsIndexed
<1>3. CASE IndexGone(h)
  <2>1. hs[h] \in [pc : {"inbound_delete", "ds_delete", "csr_delete", "forward"}, doc : Docs]
    BY <1>3, RequestShape DEF IndexGone, TypeOK
  <2>2. hs'[h].pc = "ds_delete"
    BY <1>3, <2>1 DEF IndexGone, Go, TypeOK
  <2>. QED
    BY <2>2 DEF MappedIsIndexed, Leaving
<1>4. CASE ~DsDelete(h) /\ ~IndexGone(h)
  <2>1. /\ UNCHANGED inbound /\ \A r \in Regs : doc'.to[r] = doc.to[r]
        /\ \A u \in tasks : u \in tasks'
    BY <1>4, RequestQuiet, RequestChanges
  <2>2. hs[h].pc # "ds_delete"
    <3>1. CASE (\E dist \in BOOLEAN : create(h, dist) \/ update(h, dist)) \/ delete(h)
      <4>1. hs[h] = Idle
        BY <3>1 DEF create, update, delete
      <4>. QED
        BY <4>1 DEF Idle
    <3>2. CASE \/ CsrCreate(h) \/ DsRead(h) \/ DsPut(h) \/ DsMake(h) \/ Follow(h) \/ GetCsr(h)
               \/ DsGet(h) \/ CsrDelete(h) \/ DeletesSpawned(h)
      BY <3>2 DEF CsrCreate, DsRead, DsPut, DsMake, Follow, GetCsr, DsGet, CsrDelete, DeletesSpawned
    <3>. QED
      BY <1>4, <3>1, <3>2 DEF HandlerStep
  <2>3. \A g \in Handlers : hs[g].pc # "ds_delete"
    BY <2>2 DEF OneAtATime
  <2>4. ASSUME NEW r \in Regs, Leaving(r)
        PROVE  Leaving(r)'
    BY <2>1, <2>3, <2>4 DEF Leaving
  <2>. QED
    BY <1>1, <2>1, <2>4 DEF IndexInv, MappedIsIndexed
<1>. QED
  BY <1>2, <1>3, <1>4

\* A copy is indexed before it is mapped, and stays so.
LEMMA IndexStep ==
    ASSUME OneAtATime, TypeOK, RequestInv, IdInv, IndexInv, [Next]_vars
    PROVE  IndexInv'
<1>. DEFINE Indexed == \A u \in tasks' : u.pc = "map" => u.id \in inbound'
<1>1. /\ spent'.unindexed >= spent.unindexed /\ spent.unindexed \in Nat
      /\ spent'.unindexed \in Nat
  BY IdsGrow DEF Counters
<1>2. ASSUME spent'.unindexed = 0
      PROVE  \A u \in tasks : u.pc = "map" => u.id \in inbound /\ Bears(u) /\ Unknown(u)
  BY <1>1, <1>2 DEF IndexInv, IdInv, Bears, WorkPcs
<1>3. ASSUME spent'.unindexed = 0, \A u \in tasks' : u.pc = "map" => u \in tasks,
             inbound \subseteq inbound'
      PROVE  Indexed
  BY <1>2, <1>3
<1>4. CASE UNCHANGED vars \/ \E r \in Regs, form \in Forms \cup {Nobody} : RegWrite(r, form)
  <2>1. \A u \in tasks' : Bears(u) => u \in tasks
    BY <1>4 DEF vars, RegWrite, Bears, WorkPcs
  <2>2. UNCHANGED <<doc, inbound, hs>> /\ tasks \subseteq tasks'
    BY <1>4 DEF vars, RegWrite
  <2>3. \A r \in Regs : Leaving(r) => Leaving(r)'
    BY <2>2 DEF Leaving
  <2>4. MappedIsIndexed'
    BY <1>1, <2>2, <2>3 DEF IndexInv, MappedIsIndexed
  <2>5. spent'.unindexed = 0 => Indexed
    BY <1>3, <2>1, <2>2 DEF Bears, WorkPcs
  <2>. QED
    BY <2>4, <2>5 DEF IndexInv
<1>5. ASSUME NEW t \in tasks, TaskStep(t), spent'.unindexed = 0
      PROVE  Indexed
  <2>1. CASE Prepare(t) \/ Send(t) \/ Initial(t) \/ InitialList(t) \/ Notified(t)
    BY <1>3, <1>5, <2>1, JobsOnly DEF Bears, WorkPcs
  <2>2. CASE Dispatch(t)
    <3>1. PICK s : /\ Turn(t, s) /\ UNCHANGED inbound
                   /\ ~Bears(s) \/ s.pc \in {"index", "drop"}
      BY <2>2, DispatchStep
    <3>. QED
      BY <1>3, <1>5, <3>1 DEF Turn, Bears, WorkPcs
  <2>3. CASE InboundPut(t)
    <3>1. PICK s : Turn(t, s) /\ s.id = t.id
      BY <2>3, WorkStep DEF InboundPut, WorkPcs
    <3>2. inbound' = inbound \cup {t.id}
      <4>1. ASSUME spent' = [[spent EXCEPT !["fails"] = spent.fails + 1]
                               EXCEPT !["unindexed"] = spent.unindexed + 1]
            PROVE  FALSE
        <5>1. spent'["unindexed"] = spent.unindexed + 1
          BY <4>1, CountingBoth DEF Counters
        <5>. QED
          BY <1>1, <1>5, <5>1
      <4>. QED
        BY <2>3, <4>1 DEF InboundPut
    <3>. QED
      BY <1>2, <1>5, <3>1, <3>2 DEF Turn
  <2>4. CASE SetRemote(t) \/ Drop(t) \/ Forget(t)
    <3>1. \E pc \in {"post", "unindex", "forget"} : At(t, pc)
      BY <2>4 DEF SetRemote, Drop, Forget
    <3>2. t.pc \in WorkPcs /\ UNCHANGED inbound
      BY <2>4 DEF SetRemote, Drop, Forget, WorkPcs
    <3>3. PICK s : Turn(t, s) /\ s.pc \in {"post", "unindex", "forget"}
      BY <3>1, <3>2, WorkStep DEF WorkPcs
    <3>. QED
      BY <1>3, <1>5, <3>2, <3>3 DEF Turn
  <2>5. CASE Post(t)
    <3>1. UNCHANGED inbound /\ t.pc \in WorkPcs /\ (Turn(t, Resumed(t)) \/ At(t, "rollback"))
      BY <2>5 DEF Post, WorkPcs
    <3>2. CASE Turn(t, Resumed(t))
      BY <1>3, <1>5, <3>1, <3>2, WorkStep DEF Bears, WorkPcs
    <3>3. CASE At(t, "rollback")
      <4>1. PICK s : Turn(t, s) /\ s.pc = "rollback"
        BY <3>1, <3>3, WorkStep DEF WorkPcs
      <4>. QED
        BY <1>3, <1>5, <3>1, <4>1 DEF Turn
    <3>. QED
      BY <3>1, <3>2, <3>3
  <2>6. CASE Rollback(t) \/ InboundDelete(t)
    <3>1. /\ t.pc \in {"rollback", "unindex"} /\ Bears(t) /\ inbound' = inbound \ {t.id}
          /\ Turn(t, Resumed(t)) \/ At(t, "unmap")
      BY <2>6 DEF Rollback, InboundDelete, Bears, WorkPcs
    <3>2. \A u \in tasks' : u.pc = "map" => u \in tasks
      <4>1. CASE Turn(t, Resumed(t))
        BY <3>1, <4>1, WorkStep DEF Bears, WorkPcs
      <4>2. CASE At(t, "unmap")
        <5>1. PICK s : Turn(t, s) /\ s.pc = "unmap"
          BY <3>1, <4>2, WorkStep DEF WorkPcs
        <5>. QED
          BY <5>1 DEF Turn
      <4>. QED
        BY <3>1, <4>1, <4>2
    <3>3. \A u \in tasks : u.pc = "map" => u.id \in inbound /\ u.id # t.id
      BY <1>2, <1>5, <3>1 DEF Unknown
    <3>. QED
      BY <3>1, <3>2, <3>3
  <2>7. CASE Unmap(t)
    <3>1. UNCHANGED inbound /\ t.pc \in WorkPcs /\ Turn(t, Resumed(t))
      BY <2>7 DEF Unmap, WorkPcs
    <3>. QED
      BY <1>3, <1>5, <3>1, WorkStep DEF Bears, WorkPcs
  <2>8. CASE DeleteForward(t)
    BY <1>3, <1>5, <2>8 DEF DeleteForward
  <2>. QED
    BY <1>5, <2>1, <2>2, <2>3, <2>4, <2>5, <2>6, <2>7, <2>8 DEF TaskStep
<1>6. ASSUME NEW h \in Handlers, HandlerStep(h), spent'.unindexed = 0
      PROVE  Indexed
  <2>1. \A u \in tasks' : u.pc = "map" => u \in tasks
    BY <1>6, RequestQuiet DEF Bears, WorkPcs
  <2>2. CASE UNCHANGED inbound
    BY <1>3, <1>6, <2>1, <2>2
  <2>3. CASE IndexGone(h)
    <3>1. Carries(h) /\ \A i \in inbound \ inbound' : \E r \in Regs : i = hs[h].doc.to[r]
      BY <2>3 DEF IndexGone, Carries, Remotes
    <3>. QED
      BY <1>2, <1>6, <2>1, <3>1 DEF Unknown
  <2>. QED
    BY <1>6, <2>2, <2>3, RequestChanges
<1>7. ASSUME NEW t \in tasks, TaskStep(t)
      PROVE  IndexInv'
  BY <1>5, <1>7, TaskIndex DEF IndexInv
<1>8. ASSUME NEW h \in Handlers, HandlerStep(h)
      PROVE  IndexInv'
  BY <1>6, <1>8, RequestIndex DEF IndexInv
<1>. QED
  BY <1>4, <1>7, <1>8 DEF Next

-----------------------------------------------------------------------------
(* The copies a registration has used.                                      *)

Bound(r) == freed[r] + (IF doc.to[r] = Nobody THEN 0 ELSE 1)

LEMMA UsedIs ==
    ASSUME NEW r \in Regs
    PROVE  \A c : c \in Used(r)
              <=> \/ c \in copies /\ c.r = r
                  \/ \E u \in tasks : u.pc = "post" /\ u.r = r /\ c = Copy(r, u.id)
                  \/ doc.to[r] # Nobody /\ c = Copy(r, doc.to[r])
BY DEF Used

\* No copy more, and no mapping that was not taken away: the count holds.
LEMMA UsedShrinks ==
    ASSUME TypeOK, TypeOK', UsedInv, NEW r \in Regs, Used(r)' \subseteq Used(r), Bound(r)' >= Bound(r)
    PROVE  IsFiniteSet(Used(r)') /\ Cardinality(Used(r)') <= Bound(r)'
<1>1. IsFiniteSet(Used(r)) /\ Cardinality(Used(r)) <= Bound(r)
  BY DEF UsedInv, Bound
<1>2. /\ IsFiniteSet(Used(r)') /\ Cardinality(Used(r)') <= Cardinality(Used(r))
      /\ Cardinality(Used(r)) \in Nat /\ Cardinality(Used(r)') \in Nat
  BY <1>1, FS_Subset, FS_CardinalityType
<1>3. Bound(r) \in Nat /\ Bound(r)' \in Nat
  BY DEF Bound, TypeOK
<1>. QED
  BY <1>1, <1>2, <1>3

\* One copy more, for a mapping there was not.
LEMMA UsedGrows ==
    ASSUME TypeOK, TypeOK', UsedInv, NEW r \in Regs, NEW c, Used(r)' \subseteq Used(r) \cup {c},
           Bound(r)' >= Bound(r) + 1
    PROVE  IsFiniteSet(Used(r)') /\ Cardinality(Used(r)') <= Bound(r)'
<1>1. IsFiniteSet(Used(r)) /\ Cardinality(Used(r)) <= Bound(r) /\ Cardinality(Used(r)) \in Nat
  BY FS_CardinalityType DEF UsedInv, Bound
<1>2. /\ IsFiniteSet(Used(r) \cup {c}) /\ Cardinality(Used(r) \cup {c}) <= Cardinality(Used(r)) + 1
      /\ Cardinality(Used(r) \cup {c}) \in Nat
  <2>1. /\ IsFiniteSet(Used(r) \cup {c})
        /\ Cardinality(Used(r) \cup {c})
              = IF c \in Used(r) THEN Cardinality(Used(r)) ELSE Cardinality(Used(r)) + 1
    BY <1>1, FS_AddElement
  <2>2. Cardinality(Used(r) \cup {c}) \in Nat
    BY <2>1, FS_CardinalityType
  <2>. QED
    BY <1>1, <2>1, <2>2
<1>3. /\ IsFiniteSet(Used(r)') /\ Cardinality(Used(r)') <= Cardinality(Used(r) \cup {c})
      /\ Cardinality(Used(r)') \in Nat
  BY <1>2, FS_Subset, FS_CardinalityType
<1>4. Bound(r) \in Nat /\ Bound(r)' \in Nat
  BY DEF Bound, TypeOK
<1>. QED
  BY <1>1, <1>2, <1>3, <1>4

\* Mappings that stay or are taken away and counted.
LEMMA BoundStays ==
    ASSUME TypeOK, TypeOK', NEW r \in Regs,
           \/ doc'.to[r] = doc.to[r] /\ freed'[r] = freed[r]
           \/ doc'.to[r] = Nobody /\ freed'[r] = freed[r] + (IF doc.to[r] = Nobody THEN 0 ELSE 1)
    PROVE  Bound(r)' >= Bound(r) /\ doc'.to[r] \in {doc.to[r], Nobody}
BY DEF Bound, TypeOK

LEMMA UsedQuiet ==
    ASSUME TypeOK, TypeOK', UsedInv, copies' \subseteq copies,
           \A u \in tasks' : u.pc = "post" => u \in tasks,
           \A r \in Regs :
              \/ doc'.to[r] = doc.to[r] /\ freed'[r] = freed[r]
              \/ doc'.to[r] = Nobody /\ freed'[r] = freed[r] + (IF doc.to[r] = Nobody THEN 0 ELSE 1)
    PROVE  UsedInv'
<1>1. ASSUME NEW r \in Regs
      PROVE  IsFiniteSet(Used(r)') /\ Cardinality(Used(r)') <= Bound(r)'
  <2>1. Bound(r)' >= Bound(r) /\ doc'.to[r] \in {doc.to[r], Nobody}
    BY BoundStays
  <2>2. Used(r)' \subseteq Used(r)
    BY <2>1 DEF Used
  <2>. QED
    BY <2>1, <2>2, UsedShrinks
<1>. QED
  BY <1>1 DEF UsedInv, Bound

LEMMA UsedStep ==
    ASSUME OneAtATime, TypeOK, TypeOK', RequestInv, UsedInv, [Next]_vars
    PROVE  UsedInv'
<1>1. ASSUME UNCHANGED <<doc, freed>>, copies' \subseteq copies,
             \A u \in tasks' : u.pc = "post" => u \in tasks
      PROVE  UsedInv'
  BY <1>1, UsedQuiet
<1>2. CASE UNCHANGED vars \/ \E r \in Regs, form \in Forms \cup {Nobody} : RegWrite(r, form)
  BY <1>1, <1>2 DEF vars, RegWrite
<1>3. ASSUME NEW t \in tasks, TaskStep(t)
      PROVE  UsedInv'
  <2>1. CASE Prepare(t) \/ Send(t) \/ Initial(t) \/ InitialList(t) \/ Notified(t)
    BY <1>1, <2>1, JobsOnly DEF Bears, WorkPcs
  <2>2. CASE Dispatch(t)
    <3>1. PICK s : /\ Turn(t, s) /\ UNCHANGED <<doc, copies, freed>>
                   /\ ~Bears(s) \/ s.pc \in {"index", "drop"}
      BY <2>2, DispatchStep
    <3>. QED
      BY <1>1, <3>1 DEF Turn, Bears, WorkPcs
  <2>3. CASE InboundPut(t) \/ Rollback(t) \/ Drop(t)
    <3>1. /\ t.pc \in WorkPcs /\ UNCHANGED <<doc, freed>> /\ copies' \subseteq copies
          /\ \E pc \in {"map", "unmap", "forget"} : At(t, pc)
      BY <2>3 DEF InboundPut, Rollback, Drop, WorkPcs
    <3>2. PICK s : Turn(t, s) /\ s.pc \in {"map", "unmap", "forget"}
      BY <3>1, WorkStep DEF WorkPcs
    <3>. QED
      BY <1>1, <3>1, <3>2 DEF Turn
  <2>4. CASE SetRemote(t)
    <3>1. /\ t.pc = "map" /\ t.r \in Regs /\ t.id \in Given \cup {Nobody} /\ t.id # Nobody
          /\ UNCHANGED <<copies, freed>>
      BY <2>4, Bounded DEF SetRemote, Bears, WorkPcs
    <3>2. CASE MayMap(t.r)
      <4>1. PICK s : Turn(t, s) /\ s.id = t.id /\ s.r = t.r
        BY <2>4, <3>1, <3>2, WorkStep DEF SetRemote, WorkPcs
      <4>2. \A q \in Regs : doc'.to[q] = IF q = t.r THEN t.id ELSE doc.to[q]
        BY <2>4, <3>1, <3>2, MappingShape DEF SetRemote
      <4>3. \A u \in tasks' : u \in tasks \/ u = s
        BY <4>1 DEF Turn
      <4>4. ASSUME NEW q \in Regs
            PROVE  IsFiniteSet(Used(q)') /\ Cardinality(Used(q)') <= Bound(q)'
        <5>1. CASE q = t.r
          <6>1. Used(q)' \subseteq Used(q) \cup {Copy(q, t.id)}
            BY <3>1, <4>1, <4>2, <4>3, <5>1 DEF Used, Copy
          <6>2. Bound(q)' >= Bound(q) + 1
            BY <3>1, <3>2, <4>2, <5>1 DEF Bound, MayMap, TypeOK
          <6>. QED
            BY <6>1, <6>2, UsedGrows
        <5>2. CASE q # t.r
          <6>1. Used(q)' \subseteq Used(q)
            BY <3>1, <4>1, <4>2, <4>3, <5>2 DEF Used, Copy
          <6>2. Bound(q)' >= Bound(q)
            BY <3>1, <4>2, <5>2, BoundStays
          <6>. QED
            BY <6>1, <6>2, UsedShrinks
        <5>. QED
          BY <5>1, <5>2
      <4>. QED
        BY <4>4 DEF UsedInv, Bound
    <3>3. CASE ~MayMap(t.r)
      <4>1. PICK s : Turn(t, s) /\ s.pc = "unindex" /\ UNCHANGED doc
        BY <2>4, <3>1, <3>3, WorkStep DEF SetRemote, WorkPcs
      <4>. QED
        BY <1>1, <3>1, <4>1 DEF Turn
    <3>. QED
      BY <3>2, <3>3
  <2>5. CASE Post(t)
    <3>1. /\ t.pc = "post" /\ t.r \in Regs /\ UNCHANGED <<doc, freed>>
          /\ copies' \subseteq copies \cup {Copy(t.r, t.id)}
          /\ Turn(t, Resumed(t)) \/ At(t, "rollback")
      BY <2>5, Bounded DEF Post, Copy, Bears, WorkPcs
    <3>2. \A u \in tasks' : u.pc = "post" => u \in tasks
      <4>1. CASE Turn(t, Resumed(t))
        BY <3>1, <4>1, WorkStep DEF Bears, WorkPcs
      <4>2. CASE At(t, "rollback")
        <5>1. PICK s : Turn(t, s) /\ s.pc = "rollback"
          BY <3>1, <4>2, WorkStep DEF WorkPcs
        <5>. QED
          BY <5>1 DEF Turn
      <4>. QED
        BY <3>1, <4>1, <4>2
    <3>3. ASSUME NEW q \in Regs
          PROVE  IsFiniteSet(Used(q)') /\ Cardinality(Used(q)') <= Bound(q)'
      <4>1. Copy(t.r, t.id) \in Used(t.r) /\ Copy(t.r, t.id).r = t.r
        BY <3>1 DEF Used, Copy
      <4>2. \A c \in copies' : c \in copies \/ c = Copy(t.r, t.id)
        BY <3>1
      <4>3. \A c \in Used(q)' : c \in Used(q)
        BY <3>1, <3>2, <4>1, <4>2 DEF Used
      <4>4. Bound(q)' >= Bound(q)
        BY <3>1, BoundStays
      <4>. QED
        BY <4>3, <4>4, UsedShrinks
    <3>. QED
      BY <3>3 DEF UsedInv, Bound
  <2>6. CASE Unmap(t) \/ Forget(t)
    <3>1. /\ t.pc \in WorkPcs /\ t.r \in Regs /\ UNCHANGED copies /\ Unmapped(t.r)
          /\ Turn(t, Resumed(t)) \/ At(t, "unindex")
      BY <2>6, Bounded DEF Unmap, Forget, Bears, WorkPcs
    <3>2. \A u \in tasks' : u.pc = "post" => u \in tasks
      <4>1. CASE Turn(t, Resumed(t))
        BY <3>1, <4>1, WorkStep DEF Bears, WorkPcs
      <4>2. CASE At(t, "unindex")
        <5>1. PICK s : Turn(t, s) /\ s.pc = "unindex"
          BY <3>1, <4>2, WorkStep DEF WorkPcs
        <5>. QED
          BY <5>1 DEF Turn
      <4>. QED
        BY <3>1, <4>1, <4>2
    <3>3. \A r \in Regs :
             \/ doc'.to[r] = doc.to[r] /\ freed'[r] = freed[r]
             \/ doc'.to[r] = Nobody /\ freed'[r] = freed[r] + (IF doc.to[r] = Nobody THEN 0 ELSE 1)
      BY <3>1, UnmappedShape DEF TypeOK
    <3>. QED
      BY <3>1, <3>2, <3>3, UsedQuiet
  <2>7. CASE InboundDelete(t)
    <3>1. t.pc \in WorkPcs /\ UNCHANGED <<doc, copies, freed>> /\ Turn(t, Resumed(t))
      BY <2>7 DEF InboundDelete, WorkPcs
    <3>. QED
      BY <1>1, <3>1, WorkStep DEF Bears, WorkPcs
  <2>8. CASE DeleteForward(t)
    BY <1>1, <2>8 DEF DeleteForward
  <2>. QED
    BY <1>3, <2>1, <2>2, <2>3, <2>4, <2>5, <2>6, <2>7, <2>8 DEF TaskStep
<1>4. ASSUME NEW h \in Handlers, HandlerStep(h)
      PROVE  UsedInv'
  <2>1. UNCHANGED copies /\ \A u \in tasks' : u.pc = "post" => u \in tasks
    BY <1>4, RequestQuiet, RequestChanges DEF Bears, WorkPcs
  <2>2. CASE DsDelete(h)
    <3>1. \A r \in Regs : /\ doc'.to[r] = Nobody
                          /\ freed'[r] = freed[r] + (IF doc.to[r] = Nobody THEN 0 ELSE 1)
      BY <2>2, NoDocShape DEF DsDelete, TypeOK
    <3>. QED
      BY <2>1, <3>1, UsedQuiet
  <2>3. CASE ~DsDelete(h)
    <3>1. UNCHANGED freed /\ \A r \in Regs : doc'.to[r] = doc.to[r]
      BY <1>4, <2>3, RequestQuiet, RequestChanges
    <3>. QED
      BY <2>1, <3>1, UsedQuiet
  <2>. QED
    BY <2>2, <2>3
<1>. QED
  BY <1>2, <1>3, <1>4 DEF Next

-----------------------------------------------------------------------------
(* The theorems.                                                            *)

LEMMA InitTypeOK == Init => TypeOK
BY NoDocShape DEF Init, TypeOK, NoSub, Idle, Requests

\* The types of the tasks that make and remove the copies, and of what they and
\* the requests share, hold whatever the interleaving.
THEOREM TypeCorrect == Spec => []TypeOK
<1>. QED
  BY InitTypeOK, TypeStep, PTL DEF Spec

LEMMA InitCopyInv ==
    ASSUME Init
    PROVE  CopyInv
<1>1. /\ doc = NoDoc /\ tasks = {} /\ copies = {} /\ \A h \in Handlers : hs[h] = Idle
      /\ spent.unindexed = 0 /\ \A r \in Regs : freed[r] = 0
  BY DEF Init
<1>2. RequestInv
  BY <1>1, NoDocShape DEF RequestInv, Idle
<1>3. IdInv
  BY <1>1, NoDocShape DEF IdInv
<1>4. IndexInv
  BY <1>1, NoDocShape DEF IndexInv, MappedIsIndexed
<1>5. UsedInv
  <2>1. \A r \in Regs : Used(r) = {}
    BY <1>1, NoDocShape DEF Used
  <2>. QED
    BY <1>1, <2>1, NoDocShape, FS_EmptySet DEF UsedInv
<1>. QED
  BY <1>2, <1>3, <1>4, <1>5 DEF CopyInv

\* The copies at a source are among those its registration has used.
LEMMA CopiesCounted ==
    ASSUME TypeOK, CopyInv
    PROVE  CopiesMapped
<1>1. ASSUME NEW r \in Regs
      PROVE  Cardinality({c \in copies : c.r = r}) <= 1 + freed[r]
  <2>. DEFINE C == {c \in copies : c.r = r}
  <2>1. C \subseteq Used(r)
    BY DEF Used
  <2>2. IsFiniteSet(Used(r)) /\ Cardinality(Used(r)) <= Bound(r)
    BY DEF CopyInv, UsedInv, Bound
  <2>3. /\ Cardinality(C) <= Cardinality(Used(r)) /\ Cardinality(C) \in Nat
        /\ Cardinality(Used(r)) \in Nat
    BY <2>1, <2>2, FS_Subset, FS_CardinalityType
  <2>4. Bound(r) <= 1 + freed[r] /\ freed[r] \in Nat /\ Bound(r) \in Nat
    BY DEF Bound, TypeOK
  <2>. QED
    BY <2>2, <2>3, <2>4
<1>. QED
  BY <1>1 DEF CopiesMapped, OneCopyEach, CopyInv, IndexInv

\* While a subscription's requests come one at a time, however its background
\* tasks interleave with them and with each other, and whichever forwarded call
\* or index write fails: what is mapped is in the inbound index, and a source
\* gets another copy only after the mapping of an earlier one was taken away.
THEOREM CopiesAreMapped ==
    ASSUME OneAtATime
    PROVE  Spec => []CopiesMapped
<1>1. Init => TypeOK /\ CopyInv
  BY InitTypeOK, InitCopyInv
<1>2. TypeOK /\ CopyInv /\ [Next]_vars => TypeOK' /\ CopyInv'
  BY TypeStep, RequestStep, IdStep, IndexStep, UsedStep DEF CopyInv
<1>3. TypeOK /\ CopyInv => CopiesMapped
  BY CopiesCounted
<1>. QED
  BY <1>1, <1>2, <1>3, PTL DEF Spec

-----------------------------------------------------------------------------
(* Registrations: Registry for every set of requests, bodies, pods and     *)
(* page sizes.                                                             *)

CONSTANTS EntityIds, Types, Every, Own, MaxHops, Ids, Bodies, Patches, Keep, Entities, Clients,
          Pods, Mirrors, PodOf, PageSize, Attempts, Patient, Free, NoReg, MaxExpiries,
          MaxSweeps, MaxGaps
VARIABLES store, past, lock, asked, sweep, jobs, pods, used

Register == INSTANCE Registry WITH Handlers <- Clients, hs <- asked, tasks <- jobs, spent <- used

\* The index of a mirror: exactly what the keys of its documents make it.
Indexed(x) ==
    /\ DOMAIN x.by_type = Types /\ DOMAIN x.by_id = EntityIds
    /\ \A t \in Types : x.by_type[t] = Register!Under(Register!TypeKeys(x.docs), t)
    /\ \A e \in EntityIds : x.by_id[e] = Register!Under(Register!IdKeys(x.docs), e)
    /\ x.any_type = Register!Anywhere(Register!TypeKeys(x.docs))
    /\ x.any_id = Register!Anywhere(Register!IdKeys(x.docs))

\* The keys of a document do not depend on the others.
LEMMA KeysOf ==
    ASSUME NEW f
    PROVE  /\ DOMAIN Register!TypeKeys(f) = DOMAIN f
           /\ DOMAIN Register!IdKeys(f) = DOMAIN f
           /\ \A id \in DOMAIN f : /\ Register!TypeKeys(f)[id] = Register!type_keys(f[id])
                                   /\ Register!IdKeys(f)[id] = Register!id_keys(f[id])
BY DEF Register!TypeKeys, Register!IdKeys

LEMMA Buckets ==
    ASSUME NEW x, Indexed(x)
    PROVE  /\ \A t \in Types : \A k :
                k \in x.by_type[t] <=> /\ k \in DOMAIN x.docs
                                      /\ Register!type_keys(x.docs[k]) # Every
                                      /\ t \in Register!type_keys(x.docs[k])
           /\ \A e \in EntityIds : \A k :
                k \in x.by_id[e] <=> /\ k \in DOMAIN x.docs
                                    /\ Register!id_keys(x.docs[k]) # Every
                                    /\ e \in Register!id_keys(x.docs[k])
           /\ \A k \in DOMAIN x.docs : Register!type_keys(x.docs[k]) = Every => k \in x.any_type
           /\ \A k \in DOMAIN x.docs : Register!id_keys(x.docs[k]) = Every => k \in x.any_id
BY KeysOf DEF Indexed, Register!Under, Register!Anywhere

LEMMA RemoveIndexed ==
    ASSUME NEW x, Indexed(x), NEW ids
    PROVE  /\ Indexed(Register!remove(x, ids))
           /\ DOMAIN Register!remove(x, ids).docs = DOMAIN x.docs \ ids
           /\ \A id \in DOMAIN x.docs \ ids : Register!remove(x, ids).docs[id] = x.docs[id]
<1>. DEFINE y == Register!remove(x, ids)
            old == [id \in DOMAIN x.docs \cap ids |-> x.docs[id]]
<1>1. /\ y.docs = [id \in DOMAIN x.docs \ ids |-> x.docs[id]]
      /\ y.by_type = Register!Unfiled(x.by_type, Register!TypeKeys(old))
      /\ y.by_id = Register!Unfiled(x.by_id, Register!IdKeys(old))
      /\ y.any_type = x.any_type \ Register!Anywhere(Register!TypeKeys(old))
      /\ y.any_id = x.any_id \ Register!Anywhere(Register!IdKeys(old))
  BY DEF Register!remove
<1>2. /\ DOMAIN old = DOMAIN x.docs \cap ids
      /\ \A id \in DOMAIN old : old[id] = x.docs[id]
  OBVIOUS
<1>3. /\ DOMAIN y.docs = DOMAIN x.docs \ ids
      /\ \A id \in DOMAIN y.docs : y.docs[id] = x.docs[id]
  BY <1>1
<1>. HIDE DEF y, old
<1>4. /\ \A k : Register!Under(Register!TypeKeys(x.docs), k) \ Register!Under(Register!TypeKeys(old), k)
                     = Register!Under(Register!TypeKeys(y.docs), k)
      /\ Register!Anywhere(Register!TypeKeys(x.docs)) \ Register!Anywhere(Register!TypeKeys(old))
           = Register!Anywhere(Register!TypeKeys(y.docs))
  <2>. DEFINE a == Register!TypeKeys(x.docs)
              b == Register!TypeKeys(old)
              c == Register!TypeKeys(y.docs)
  <2>1. /\ DOMAIN Register!TypeKeys(old) = DOMAIN old
        /\ \A id \in DOMAIN old : Register!TypeKeys(old)[id] = Register!type_keys(old[id])
    BY KeysOf
  <2>2. /\ DOMAIN Register!TypeKeys(x.docs) = DOMAIN x.docs
        /\ \A id \in DOMAIN x.docs : Register!TypeKeys(x.docs)[id] = Register!type_keys(x.docs[id])
    BY KeysOf
  <2>3. /\ DOMAIN Register!TypeKeys(y.docs) = DOMAIN y.docs
        /\ \A id \in DOMAIN y.docs : Register!TypeKeys(y.docs)[id] = Register!type_keys(y.docs[id])
    BY KeysOf
  <2>4. /\ DOMAIN b = DOMAIN a \cap ids /\ DOMAIN c = DOMAIN a \ ids
        /\ \A id \in DOMAIN b : b[id] = a[id]
        /\ \A id \in DOMAIN c : c[id] = a[id]
    BY <1>2, <1>3, <2>1, <2>2, <2>3
  <2>. HIDE DEF a, b, c
  <2>5. /\ \A k : Register!Under(a, k) \ Register!Under(b, k) = Register!Under(c, k)
        /\ Register!Anywhere(a) \ Register!Anywhere(b) = Register!Anywhere(c)
    BY <2>4 DEF Register!Under, Register!Anywhere
  <2>. QED
    BY <2>5 DEF a, b, c
<1>5. /\ \A k : Register!Under(Register!IdKeys(x.docs), k) \ Register!Under(Register!IdKeys(old), k)
                     = Register!Under(Register!IdKeys(y.docs), k)
      /\ Register!Anywhere(Register!IdKeys(x.docs)) \ Register!Anywhere(Register!IdKeys(old))
           = Register!Anywhere(Register!IdKeys(y.docs))
  <2>. DEFINE a == Register!IdKeys(x.docs)
              b == Register!IdKeys(old)
              c == Register!IdKeys(y.docs)
  <2>1. /\ DOMAIN Register!IdKeys(old) = DOMAIN old
        /\ \A id \in DOMAIN old : Register!IdKeys(old)[id] = Register!id_keys(old[id])
    BY KeysOf
  <2>2. /\ DOMAIN Register!IdKeys(x.docs) = DOMAIN x.docs
        /\ \A id \in DOMAIN x.docs : Register!IdKeys(x.docs)[id] = Register!id_keys(x.docs[id])
    BY KeysOf
  <2>3. /\ DOMAIN Register!IdKeys(y.docs) = DOMAIN y.docs
        /\ \A id \in DOMAIN y.docs : Register!IdKeys(y.docs)[id] = Register!id_keys(y.docs[id])
    BY KeysOf
  <2>4. /\ DOMAIN b = DOMAIN a \cap ids /\ DOMAIN c = DOMAIN a \ ids
        /\ \A id \in DOMAIN b : b[id] = a[id]
        /\ \A id \in DOMAIN c : c[id] = a[id]
    BY <1>2, <1>3, <2>1, <2>2, <2>3
  <2>. HIDE DEF a, b, c
  <2>5. /\ \A k : Register!Under(a, k) \ Register!Under(b, k) = Register!Under(c, k)
        /\ Register!Anywhere(a) \ Register!Anywhere(b) = Register!Anywhere(c)
    BY <2>4 DEF Register!Under, Register!Anywhere
  <2>. QED
    BY <2>5 DEF a, b, c
<1>6. Indexed(y)
  <2>1. ASSUME NEW t \in Types
        PROVE  y.by_type[t] = Register!Under(Register!TypeKeys(y.docs), t)
    <3>1. y.by_type[t] = x.by_type[t] \ Register!Under(Register!TypeKeys(old), t)
      BY <1>1 DEF Indexed, Register!Unfiled
    <3>2. x.by_type[t] = Register!Under(Register!TypeKeys(x.docs), t)
      BY DEF Indexed
    <3>. QED
      BY <1>4, <3>1, <3>2
  <2>2. ASSUME NEW e \in EntityIds
        PROVE  y.by_id[e] = Register!Under(Register!IdKeys(y.docs), e)
    <3>1. y.by_id[e] = x.by_id[e] \ Register!Under(Register!IdKeys(old), e)
      BY <1>1 DEF Indexed, Register!Unfiled
    <3>2. x.by_id[e] = Register!Under(Register!IdKeys(x.docs), e)
      BY DEF Indexed
    <3>. QED
      BY <1>5, <3>1, <3>2
  <2>3. DOMAIN y.by_type = Types /\ DOMAIN y.by_id = EntityIds
    BY <1>1 DEF Indexed, Register!Unfiled
  <2>4. /\ y.any_type = Register!Anywhere(Register!TypeKeys(y.docs))
        /\ y.any_id = Register!Anywhere(Register!IdKeys(y.docs))
    BY <1>1, <1>4, <1>5 DEF Indexed
  <2>. QED
    BY <2>1, <2>2, <2>3, <2>4 DEF Indexed
<1>. QED
  BY <1>3, <1>6 DEF y

LEMMA FileIndexed ==
    ASSUME NEW x, Indexed(x), NEW new, DOMAIN new \cap DOMAIN x.docs = {}
    PROVE  /\ Indexed(Register!file(x, new))
           /\ DOMAIN Register!file(x, new).docs = DOMAIN new \cup DOMAIN x.docs
           /\ \A id \in DOMAIN new : Register!file(x, new).docs[id] = new[id]
           /\ \A id \in DOMAIN x.docs : Register!file(x, new).docs[id] = x.docs[id]
<1>. DEFINE y == Register!file(x, new)
<1>1. /\ y.docs = [id \in DOMAIN new \cup DOMAIN x.docs |->
                      IF id \in DOMAIN new THEN new[id] ELSE x.docs[id]]
      /\ y.by_type = Register!Filed(x.by_type, Register!TypeKeys(new))
      /\ y.by_id = Register!Filed(x.by_id, Register!IdKeys(new))
      /\ y.any_type = x.any_type \cup Register!Anywhere(Register!TypeKeys(new))
      /\ y.any_id = x.any_id \cup Register!Anywhere(Register!IdKeys(new))
  BY DEF Register!file
<1>2. /\ DOMAIN y.docs = DOMAIN new \cup DOMAIN x.docs
      /\ \A id \in DOMAIN new : y.docs[id] = new[id]
      /\ \A id \in DOMAIN x.docs : y.docs[id] = x.docs[id]
  BY <1>1
<1>. HIDE DEF y
<1>3. /\ \A k : Register!Under(Register!TypeKeys(x.docs), k) \cup Register!Under(Register!TypeKeys(new), k)
                     = Register!Under(Register!TypeKeys(y.docs), k)
      /\ Register!Anywhere(Register!TypeKeys(x.docs)) \cup Register!Anywhere(Register!TypeKeys(new))
           = Register!Anywhere(Register!TypeKeys(y.docs))
  <2>. DEFINE a == Register!TypeKeys(x.docs)
              b == Register!TypeKeys(new)
              c == Register!TypeKeys(y.docs)
  <2>1. /\ DOMAIN Register!TypeKeys(new) = DOMAIN new
        /\ \A id \in DOMAIN new : Register!TypeKeys(new)[id] = Register!type_keys(new[id])
    BY KeysOf
  <2>2. /\ DOMAIN Register!TypeKeys(x.docs) = DOMAIN x.docs
        /\ \A id \in DOMAIN x.docs : Register!TypeKeys(x.docs)[id] = Register!type_keys(x.docs[id])
    BY KeysOf
  <2>3. /\ DOMAIN Register!TypeKeys(y.docs) = DOMAIN y.docs
        /\ \A id \in DOMAIN y.docs : Register!TypeKeys(y.docs)[id] = Register!type_keys(y.docs[id])
    BY KeysOf
  <2>4. /\ DOMAIN b \cap DOMAIN a = {} /\ DOMAIN c = DOMAIN b \cup DOMAIN a
        /\ \A id \in DOMAIN b : c[id] = b[id]
        /\ \A id \in DOMAIN a : c[id] = a[id]
    BY <1>2, <2>1, <2>2, <2>3
  <2>. HIDE DEF a, b, c
  <2>5. /\ \A k : Register!Under(a, k) \cup Register!Under(b, k) = Register!Under(c, k)
        /\ Register!Anywhere(a) \cup Register!Anywhere(b) = Register!Anywhere(c)
    BY <2>4 DEF Register!Under, Register!Anywhere
  <2>. QED
    BY <2>5 DEF a, b, c
<1>4. /\ \A k : Register!Under(Register!IdKeys(x.docs), k) \cup Register!Under(Register!IdKeys(new), k)
                     = Register!Under(Register!IdKeys(y.docs), k)
      /\ Register!Anywhere(Register!IdKeys(x.docs)) \cup Register!Anywhere(Register!IdKeys(new))
           = Register!Anywhere(Register!IdKeys(y.docs))
  <2>. DEFINE a == Register!IdKeys(x.docs)
              b == Register!IdKeys(new)
              c == Register!IdKeys(y.docs)
  <2>1. /\ DOMAIN Register!IdKeys(new) = DOMAIN new
        /\ \A id \in DOMAIN new : Register!IdKeys(new)[id] = Register!id_keys(new[id])
    BY KeysOf
  <2>2. /\ DOMAIN Register!IdKeys(x.docs) = DOMAIN x.docs
        /\ \A id \in DOMAIN x.docs : Register!IdKeys(x.docs)[id] = Register!id_keys(x.docs[id])
    BY KeysOf
  <2>3. /\ DOMAIN Register!IdKeys(y.docs) = DOMAIN y.docs
        /\ \A id \in DOMAIN y.docs : Register!IdKeys(y.docs)[id] = Register!id_keys(y.docs[id])
    BY KeysOf
  <2>4. /\ DOMAIN b \cap DOMAIN a = {} /\ DOMAIN c = DOMAIN b \cup DOMAIN a
        /\ \A id \in DOMAIN b : c[id] = b[id]
        /\ \A id \in DOMAIN a : c[id] = a[id]
    BY <1>2, <2>1, <2>2, <2>3
  <2>. HIDE DEF a, b, c
  <2>5. /\ \A k : Register!Under(a, k) \cup Register!Under(b, k) = Register!Under(c, k)
        /\ Register!Anywhere(a) \cup Register!Anywhere(b) = Register!Anywhere(c)
    BY <2>4 DEF Register!Under, Register!Anywhere
  <2>. QED
    BY <2>5 DEF a, b, c
<1>5. Indexed(y)
  <2>1. ASSUME NEW t \in Types
        PROVE  y.by_type[t] = Register!Under(Register!TypeKeys(y.docs), t)
    <3>1. y.by_type[t] = x.by_type[t] \cup Register!Under(Register!TypeKeys(new), t)
      BY <1>1 DEF Indexed, Register!Filed
    <3>2. x.by_type[t] = Register!Under(Register!TypeKeys(x.docs), t)
      BY DEF Indexed
    <3>. QED
      BY <1>3, <3>1, <3>2
  <2>2. ASSUME NEW e \in EntityIds
        PROVE  y.by_id[e] = Register!Under(Register!IdKeys(y.docs), e)
    <3>1. y.by_id[e] = x.by_id[e] \cup Register!Under(Register!IdKeys(new), e)
      BY <1>1 DEF Indexed, Register!Filed
    <3>2. x.by_id[e] = Register!Under(Register!IdKeys(x.docs), e)
      BY DEF Indexed
    <3>. QED
      BY <1>4, <3>1, <3>2
  <2>3. DOMAIN y.by_type = Types /\ DOMAIN y.by_id = EntityIds
    BY <1>1 DEF Indexed, Register!Filed
  <2>4. /\ y.any_type = Register!Anywhere(Register!TypeKeys(y.docs))
        /\ y.any_id = Register!Anywhere(Register!IdKeys(y.docs))
    BY <1>1, <1>3, <1>4 DEF Indexed
  <2>. QED
    BY <2>1, <2>2, <2>3, <2>4 DEF Indexed
<1>. QED
  BY <1>2, <1>5 DEF y

LEMMA InsertIndexed ==
    ASSUME NEW x, Indexed(x), NEW new
    PROVE  /\ Indexed(Register!insert(x, new))
           /\ DOMAIN Register!insert(x, new).docs = DOMAIN new \cup DOMAIN x.docs
           /\ \A id \in DOMAIN new \cup DOMAIN x.docs :
                Register!insert(x, new).docs[id] =
                   IF id \in DOMAIN new THEN new[id] ELSE x.docs[id]
<1>. DEFINE y == Register!remove(x, DOMAIN new)
<1>1. /\ Indexed(y) /\ DOMAIN y.docs = DOMAIN x.docs \ DOMAIN new
      /\ \A id \in DOMAIN y.docs : y.docs[id] = x.docs[id]
  BY RemoveIndexed
<1>. HIDE DEF y
<1>2. /\ Indexed(Register!file(y, new))
      /\ DOMAIN Register!file(y, new).docs = DOMAIN new \cup DOMAIN y.docs
      /\ \A id \in DOMAIN new : Register!file(y, new).docs[id] = new[id]
      /\ \A id \in DOMAIN y.docs : Register!file(y, new).docs[id] = y.docs[id]
  BY <1>1, FileIndexed
<1>3. Register!insert(x, new) = Register!file(y, new)
  BY DEF Register!insert, y
<1>. QED
  BY <1>1, <1>2, <1>3

\* A document that 5.12 matches is filed where the request looks.
LEMMA MatchedIsFiled ==
    ASSUME NEW d, NEW I, NEW T, Register!matching_infos(d, I, T, {}) # {}
    PROVE  /\ (I # Every /\ Register!id_keys(d) # Every) => I \cap Register!id_keys(d) # {}
           /\ (T # Every /\ Register!type_keys(d) # Every) => T \cap Register!type_keys(d) # {}
<1>1. PICK i \in d.infos : i.ents = Every \/ \E n \in i.ents : Register!entity_info_matches(n, I, T)
  BY DEF Register!matching_infos
<1>2. CASE i.ents = Every
  BY <1>1, <1>2 DEF Register!id_keys, Register!type_keys, Register!Unselective
<1>3. CASE i.ents # Every
  <2>1. PICK n \in i.ents : Register!entity_info_matches(n, I, T)
    BY <1>1, <1>3
  <2>2. n \in Register!Selectors(d)
    BY <1>1, <1>3, <2>1 DEF Register!Selectors
  <2>3. ASSUME I # Every, Register!id_keys(d) # Every
        PROVE  I \cap Register!id_keys(d) # {}
    <3>1. /\ n.ids # Every
          /\ Register!id_keys(d) = UNION {m.ids : m \in Register!Selectors(d)}
      BY <2>2, <2>3 DEF Register!id_keys
    <3>. QED
      BY <2>1, <2>2, <2>3, <3>1 DEF Register!entity_info_matches
  <2>4. ASSUME T # Every, Register!type_keys(d) # Every
        PROVE  T \cap Register!type_keys(d) # {}
    <3>1. /\ n.types # Every
          /\ Register!type_keys(d) = UNION {m.types : m \in Register!Selectors(d)}
      BY <2>2, <2>4 DEF Register!type_keys
    <3>. QED
      BY <2>1, <2>2, <2>4, <3>1 DEF Register!entity_info_matches
  <2>. QED
    BY <2>3, <2>4
<1>. QED
  BY <1>2, <1>3

LEMMA IndexNarrowsSoundly ==
    ASSUME NEW x, Indexed(x)
    PROVE  Register!NarrowsSoundly(x)
<1>1. ASSUME NEW I \in ((SUBSET EntityIds) \ {{}}) \cup {Every},
             NEW T \in ((SUBSET Types) \ {{}}) \cup {Every},
             NEW k \in DOMAIN x.docs, Register!matching_infos(x.docs[k], I, T, {}) # {}
      PROVE  k \in Register!matching(x, I, T)
  <2>1. ASSUME I # Every
        PROVE  k \in Register!bucketed(I, x.by_id, x.any_id)
    <3>1. CASE Register!id_keys(x.docs[k]) = Every
      BY <3>1, Buckets DEF Register!bucketed
    <3>2. CASE Register!id_keys(x.docs[k]) # Every
      <4>0. I \cap Register!id_keys(x.docs[k]) # {}
        BY <1>1, <2>1, <3>2, MatchedIsFiled
      <4>1. PICK e \in I : e \in Register!id_keys(x.docs[k])
        BY <4>0
      <4>2. e \in EntityIds /\ k \in x.by_id[e] /\ e \in DOMAIN x.by_id
        BY <2>1, <3>2, <4>1, Buckets DEF Indexed
      <4>. QED
        BY <4>1, <4>2 DEF Register!bucketed
    <3>. QED
      BY <3>1, <3>2
  <2>2. ASSUME T # Every
        PROVE  k \in Register!bucketed(T, x.by_type, x.any_type)
    <3>1. CASE Register!type_keys(x.docs[k]) = Every
      BY <3>1, Buckets DEF Register!bucketed
    <3>2. CASE Register!type_keys(x.docs[k]) # Every
      <4>0. T \cap Register!type_keys(x.docs[k]) # {}
        BY <1>1, <2>2, <3>2, MatchedIsFiled
      <4>1. PICK t \in T : t \in Register!type_keys(x.docs[k])
        BY <4>0
      <4>2. t \in Types /\ k \in x.by_type[t] /\ t \in DOMAIN x.by_type
        BY <2>2, <3>2, <4>1, Buckets DEF Indexed
      <4>. QED
        BY <4>1, <4>2 DEF Register!bucketed
    <3>. QED
      BY <3>1, <3>2
  <2>. QED
    BY <2>1, <2>2 DEF Register!matching
<1>2. ASSUME NEW t \in Types, NEW k \in x.by_type[t]
      PROVE  /\ k \in DOMAIN x.docs /\ Register!type_keys(x.docs[k]) # Every
             /\ t \in Register!type_keys(x.docs[k])
  BY <1>2, Buckets
<1>3. ASSUME NEW e \in EntityIds, NEW k \in x.by_id[e]
      PROVE  /\ k \in DOMAIN x.docs /\ Register!id_keys(x.docs[k]) # Every
             /\ e \in Register!id_keys(x.docs[k])
  BY <1>3, Buckets
<1>. QED
  BY <1>1, <1>2, <1>3 DEF Register!NarrowsSoundly

-----------------------------------------------------------------------------
(* The types of the registrations' state.                                  *)

Modes == {b.mode : b \in Bodies} \cup ({f.mode : f \in Patches} \ {Keep})
InfoSets == {b.infos : b \in Bodies} \cup ({f.infos : f \in Patches} \ {Keep})
RegRow == [mode : Modes, infos : InfoSets, ver : Nat]
MaybeRow == RegRow \cup {NoReg}
Cursor == {0} \cup Ids

\* Ids are 1..N in the order of a walk, every request comes to one pod, and no
\* row is taken for the lack of one.
WellRegistered ==
    /\ \E N \in Nat : Ids = 1..N
    /\ {PageSize, Attempts} \subseteq Nat \ {0}
    /\ PodOf \in [Clients -> Pods]
    /\ NoReg \notin RegRow

\* A handler's request, and what its place in the handler says of it.
RegClient ==
    [pc : {"idle", "lock", "take", "reap", "entities", "overlap", "write", "after", "publish",
           "done"},
     op : {"none", "create", "update", "delete"}, id : Cursor,
     body : Bodies \cup Patches \cup {NoReg}, before : MaybeRow, after : Cursor, row : MaybeRow,
     answer : {"none", "ok", "bad", "conflict", "exists", "missing"}]
Engaged(c) ==
    c.pc \notin {"idle", "done"} =>
        /\ c.id \in Ids
        /\ c.op \in {"create", "update", "delete"}
        /\ c.op = "create" => c.body \in Bodies
        /\ c.op = "update" => c.body \in Patches
        /\ c.pc \in {"lock", "entities", "overlap"} => c.op # "delete"
        /\ c.pc \in {"entities", "overlap"} => (c.op = "update" => c.before # NoReg)
Client == {c \in RegClient : Engaged(c)}

Delta == [id : Ids, row : MaybeRow]
Job == [id : Ids, row : MaybeRow, of : Clients, left : 1..Attempts]

MirrorShape ==
    [docs : UNION {[S -> RegRow] : S \in SUBSET Ids},
     by_type : [Types -> SUBSET Ids], by_id : [EntityIds -> SUBSET Ids],
     any_type : SUBSET Ids, any_id : SUBSET Ids]
Mirrored == {m \in MirrorShape : Indexed(m)}
RegPod == [pc : {"down", "seed", "up"}, listening : BOOLEAN, installed : BOOLEAN, after : Cursor,
           feed : Seq(Delta), mirror : Mirrored]

RegTyped ==
    /\ store \in [Ids -> MaybeRow]
    /\ past \in SUBSET (1..used.vers)
    /\ lock \in [Pods -> Clients \cup {Free}]
    /\ asked \in [Clients -> Client]
    /\ sweep \in [pc : {"idle", "walk", "reap"}, after : Cursor, dead : SUBSET Ids]
    /\ jobs \in SUBSET Job
    /\ pods \in [Mirrors -> RegPod]
    /\ used \in [asks : Nat, vers : Nat, sweeps : Nat, fails : Nat, gaps : Nat]
    /\ \A i \in Ids : store[i] # NoReg => store[i].ver \in 1..used.vers

\* An index of the right kind, of documents that are rows.
LEMMA MirrorMade ==
    ASSUME NEW m, Indexed(m), DOMAIN m.docs \in SUBSET Ids,
           m.docs = [k \in DOMAIN m.docs |-> m.docs[k]],
           \A k \in DOMAIN m.docs : m.docs[k] \in RegRow,
           m.by_type = [t \in Types |-> m.by_type[t]],
           m.by_id = [e \in EntityIds |-> m.by_id[e]],
           m = [docs |-> m.docs, by_type |-> m.by_type, by_id |-> m.by_id,
                any_type |-> m.any_type, any_id |-> m.any_id]
    PROVE  m \in Mirrored
<1>1. m.docs \in UNION {[S -> RegRow] : S \in SUBSET Ids}
  <2>1. m.docs \in [DOMAIN m.docs -> RegRow]
    OBVIOUS
  <2>. QED
    BY <2>1
<1>2. \A t \in Types : m.by_type[t] \in SUBSET Ids
  BY Buckets
<1>3. \A e \in EntityIds : m.by_id[e] \in SUBSET Ids
  BY Buckets
<1>4. m.any_type \in SUBSET Ids /\ m.any_id \in SUBSET Ids
  BY KeysOf DEF Indexed, Register!Anywhere
<1>5. m.by_type \in [Types -> SUBSET Ids] /\ m.by_id \in [EntityIds -> SUBSET Ids]
  BY <1>2, <1>3
<1>6. m \in MirrorShape
  BY <1>1, <1>4, <1>5 DEF MirrorShape
<1>. QED
  BY <1>6 DEF Mirrored

LEMMA MirrorRemoves ==
    ASSUME NEW m \in Mirrored, NEW ids
    PROVE  /\ Register!remove(m, ids) \in Mirrored
           /\ DOMAIN Register!remove(m, ids).docs = DOMAIN m.docs \ ids
           /\ \A k \in DOMAIN m.docs \ ids : Register!remove(m, ids).docs[k] = m.docs[k]
<1>. DEFINE y == Register!remove(m, ids)
<1>1. /\ Indexed(m) /\ DOMAIN m.docs \in SUBSET Ids
      /\ \A k \in DOMAIN m.docs : m.docs[k] \in RegRow
      /\ DOMAIN m.by_type = Types /\ DOMAIN m.by_id = EntityIds
  BY DEF Mirrored, MirrorShape
<1>2. /\ Indexed(y) /\ DOMAIN y.docs = DOMAIN m.docs \ ids
      /\ \A k \in DOMAIN m.docs \ ids : y.docs[k] = m.docs[k]
  BY <1>1, RemoveIndexed
<1>3. /\ y = [docs |-> y.docs, by_type |-> y.by_type, by_id |-> y.by_id,
              any_type |-> y.any_type, any_id |-> y.any_id]
      /\ y.docs = [k \in DOMAIN m.docs \ ids |-> m.docs[k]]
      /\ \E f : y.by_type = Register!Unfiled(m.by_type, f)
      /\ \E f : y.by_id = Register!Unfiled(m.by_id, f)
  BY DEF Register!remove
<1>. HIDE DEF y
<1>4. y.by_type = [t \in Types |-> y.by_type[t]] /\ y.by_id = [e \in EntityIds |-> y.by_id[e]]
  BY <1>1, <1>3 DEF Register!Unfiled
<1>5. y \in Mirrored
  BY <1>1, <1>2, <1>3, <1>4, MirrorMade
<1>. QED
  BY <1>2, <1>5 DEF y

LEMMA MirrorInserts ==
    ASSUME NEW m \in Mirrored, NEW S \in SUBSET Ids, NEW new \in [S -> RegRow]
    PROVE  /\ Register!insert(m, new) \in Mirrored
           /\ DOMAIN Register!insert(m, new).docs = S \cup DOMAIN m.docs
           /\ \A k \in S : Register!insert(m, new).docs[k] = new[k]
           /\ \A k \in DOMAIN m.docs \ S : Register!insert(m, new).docs[k] = m.docs[k]
<1>. DEFINE x == Register!remove(m, DOMAIN new)
            y == Register!insert(m, new)
<1>1. /\ Indexed(m) /\ DOMAIN m.docs \in SUBSET Ids
      /\ \A k \in DOMAIN m.docs : m.docs[k] \in RegRow
  BY DEF Mirrored, MirrorShape
<1>2. /\ Indexed(y)
      /\ DOMAIN y.docs = DOMAIN new \cup DOMAIN m.docs
      /\ \A id \in DOMAIN new \cup DOMAIN m.docs :
           y.docs[id] = IF id \in DOMAIN new THEN new[id] ELSE m.docs[id]
  BY <1>1, InsertIndexed
<1>3. x \in Mirrored
  BY MirrorRemoves
<1>4. DOMAIN x.by_type = Types /\ DOMAIN x.by_id = EntityIds
  BY <1>3 DEF Mirrored, MirrorShape
<1>5. /\ y = [docs |-> y.docs, by_type |-> y.by_type, by_id |-> y.by_id,
              any_type |-> y.any_type, any_id |-> y.any_id]
      /\ y.docs = [id \in DOMAIN new \cup DOMAIN x.docs |->
                     IF id \in DOMAIN new THEN new[id] ELSE x.docs[id]]
      /\ \E f : y.by_type = Register!Filed(x.by_type, f)
      /\ \E f : y.by_id = Register!Filed(x.by_id, f)
  BY DEF Register!insert, Register!file
<1>. HIDE DEF x, y
<1>6. y.by_type = [t \in Types |-> y.by_type[t]] /\ y.by_id = [e \in EntityIds |-> y.by_id[e]]
  BY <1>4, <1>5 DEF Register!Filed
<1>7. y.docs = [k \in DOMAIN y.docs |-> y.docs[k]]
  BY <1>5
<1>8. \A k \in DOMAIN y.docs : y.docs[k] \in RegRow
  BY <1>1, <1>2
<1>9. DOMAIN y.docs \in SUBSET Ids
  BY <1>1, <1>2
<1>10. y \in Mirrored
  BY <1>2, <1>5, <1>6, <1>7, <1>8, <1>9, MirrorMade
<1>11. /\ DOMAIN y.docs = S \cup DOMAIN m.docs
       /\ \A k \in S : y.docs[k] = new[k]
       /\ \A k \in DOMAIN m.docs \ S : y.docs[k] = m.docs[k]
  BY <1>2
<1>. QED
  BY <1>10, <1>11 DEF y

LEMMA EmptyMirrored ==
    /\ Register!Empty \in Mirrored
    /\ DOMAIN Register!Empty.docs = {}
<1>. DEFINE y == Register!Empty
<1>1. /\ y = [docs |-> y.docs, by_type |-> y.by_type, by_id |-> y.by_id,
              any_type |-> y.any_type, any_id |-> y.any_id]
      /\ y.docs = <<>> /\ y.by_type = [t \in Types |-> {}] /\ y.by_id = [e \in EntityIds |-> {}]
      /\ y.any_type = {} /\ y.any_id = {}
  BY DEF Register!Empty
<1>. HIDE DEF y
<1>2. DOMAIN y.docs = {} /\ y.docs = [k \in DOMAIN y.docs |-> y.docs[k]]
  BY <1>1
<1>3. \A f, k : DOMAIN f = {} => Register!Under(f, k) = {} /\ Register!Anywhere(f) = {}
  BY DEF Register!Under, Register!Anywhere
<1>4. Indexed(y)
  BY <1>1, <1>2, <1>3, KeysOf DEF Indexed
<1>5. y \in Mirrored
  BY <1>1, <1>2, <1>4, MirrorMade
<1>. QED
  BY <1>2, <1>5 DEF y

-----------------------------------------------------------------------------
(* Pages and rows.                                                         *)

\* A set of positions has a first one.
LEMMA LeastOf ==
    ASSUME NEW N \in Nat, NEW T \in SUBSET (1..N), T # {}
    PROVE  \E n \in T : \A m \in T : n <= m
<1>. DEFINE S == 1..N
            U == {1..n : n \in T}
<1>1. IsWellFoundedOn(StrictSubsetOrdering(S), FiniteSubsetsOf(S))
  BY FS_StrictSubsetOrderingWellFounded
<1>2. U \subseteq FiniteSubsetsOf(S) /\ U # {}
  <2>1. ASSUME NEW n \in T
        PROVE  1..n \in FiniteSubsetsOf(S)
    <3>1. n \in Int /\ 1..n \subseteq S
      OBVIOUS
    <3>. QED
      BY <3>1, FS_Interval DEF FiniteSubsetsOf
  <2>. QED
    BY <2>1
<1>3. PICK x \in U : \A y \in U : ~ (<<y, x>> \in StrictSubsetOrdering(S))
  <2>. HIDE DEF S, U
  <2>. QED
    BY <1>1, <1>2, WFMin
<1>4. PICK n \in T : x = 1..n
  BY <1>3
<1>5. ASSUME NEW m \in T, ~(n <= m)
      PROVE  FALSE
  <2>1. 1..m \subseteq 1..n /\ n \in 1..n /\ n \notin 1..m /\ 1..n \subseteq S
    BY <1>5
  <2>2. <<1..m, 1..n>> \in StrictSubsetOrdering(S)
    BY <2>1 DEF StrictSubsetOrdering
  <2>. QED
    BY <1>3, <1>4, <2>2
<1>. QED
  BY <1>5

\* A set of positions has a last one.
LEMMA GreatestOf ==
    ASSUME NEW N \in Nat, NEW T \in SUBSET (1..N), T # {}
    PROVE  \E n \in T : \A m \in T : m <= n
<1>. DEFINE U == {N + 1 - n : n \in T}
<1>1. U \in SUBSET (1..N) /\ U # {}
  <2>1. \A n \in T : n \in Int /\ 1 <= n /\ n <= N
    OBVIOUS
  <2>2. \A n \in T : N + 1 - n \in 1..N
    BY <2>1
  <2>. QED
    BY <2>2
<1>2. PICK u \in U : \A v \in U : u <= v
  <2>. HIDE DEF U
  <2>. QED
    BY <1>1, LeastOf
<1>3. PICK n \in T : u = N + 1 - n
  BY <1>2
<1>4. ASSUME NEW m \in T
      PROVE  m <= n
  <2>1. N + 1 - m \in U
    OBVIOUS
  <2>2. u <= N + 1 - m /\ n \in Int /\ m \in Int
    BY <1>2, <2>1
  <2>. QED
    BY <1>3, <2>2
<1>. QED
  BY <1>4

LEMMA RegisterCounts ==
    ASSUME NEW S
    PROVE  Register!Cardinality(S) = Cardinality(S)
BY DEF Register!Cardinality, Cardinality

\* What a page of a walk leaves out is behind it: a short page is all there is, and
\* up to its last row a page leaves out nothing.
LEMMA PageShape ==
    ASSUME WellRegistered, NEW st, NEW after \in Cursor
    PROVE  /\ Register!Page(st, after) \subseteq Register!AfterId(st, after)
           /\ Register!AfterId(st, after) = {i \in Ids : st[i] # NoReg /\ i > after}
           /\ Register!Short(st, after) =>
                Register!Page(st, after) = Register!AfterId(st, after)
           /\ ~Register!Short(st, after) =>
                /\ Register!Furthest(Register!Page(st, after)) \in Register!Page(st, after)
                /\ \A j \in Register!AfterId(st, after) :
                     j <= Register!Furthest(Register!Page(st, after)) =>
                     j \in Register!Page(st, after)
<1>. DEFINE A == Register!AfterId(st, after)
            P == Register!Page(st, after)
            Before(i) == {j \in A : j < i}
<1>1. PICK N \in Nat : Ids = 1..N
  BY DEF WellRegistered
<1>2. PageSize \in Nat /\ PageSize >= 1
  BY DEF WellRegistered
<1>3. A = {i \in Ids : st[i] # NoReg /\ i > after}
  BY DEF Register!AfterId, Register!Present
<1>4. A \in SUBSET (1..N)
  BY <1>1, <1>3
<1>5. IsFiniteSet(A) /\ \A S \in SUBSET A : IsFiniteSet(S) /\ Cardinality(S) \in Nat
  <2>1. IsFiniteSet(1..N)
    BY FS_Interval, 1 \in Int, N \in Int
  <2>. QED
    BY <1>4, <2>1, FS_Subset, FS_CardinalityType
<1>6. P = {i \in A : Cardinality(Before(i)) < PageSize}
  BY RegisterCounts DEF Register!Page
<1>7. Register!Short(st, after) = (Cardinality(P) < PageSize)
  BY RegisterCounts DEF Register!Short
<1>8. Register!Furthest(P) = CHOOSE i \in P : \A j \in P : j <= i
  BY DEF Register!Furthest
<1>. HIDE DEF A, P
<1>9. P \in SUBSET A
  BY <1>6
<1>10. ASSUME NEW i \in A, \A j \in A : j < i => j \in P, Cardinality(P) < PageSize
       PROVE  i \in P
  <2>1. Before(i) \in SUBSET P /\ IsFiniteSet(P) /\ Before(i) \in SUBSET A
    BY <1>5, <1>9, <1>10
  <2>2. Cardinality(Before(i)) <= Cardinality(P)
    BY <2>1, FS_Subset
  <2>3. Cardinality(Before(i)) \in Nat /\ Cardinality(P) \in Nat
    BY <1>5, <1>9, <2>1
  <2>. HIDE DEF Before
  <2>4. Cardinality(Before(i)) < PageSize
    BY <1>2, <1>10, <2>2, <2>3
  <2>. QED
    BY <1>6, <1>10, <2>4
<1>11. ASSUME Cardinality(P) < PageSize
       PROVE  P = A
  <2>1. SUFFICES ASSUME A \ P # {} PROVE FALSE
    BY <1>9
  <2>2. A \ P \in SUBSET (1..N)
    BY <1>4
  <2>3. PICK i \in A \ P : \A j \in A \ P : i <= j
    BY <2>1, <2>2, LeastOf
  <2>4. \A j \in A : j < i => j \in P
    BY <1>4, <2>3
  <2>. QED
    BY <1>10, <1>11, <2>3, <2>4
<1>12. ASSUME ~(Cardinality(P) < PageSize)
       PROVE  /\ Register!Furthest(P) \in P
              /\ \A j \in A : j <= Register!Furthest(P) => j \in P
  <2>1. P # {}
    BY <1>2, <1>12, FS_EmptySet
  <2>2. P \in SUBSET (1..N)
    BY <1>4, <1>9
  <2>3. \E i \in P : \A j \in P : j <= i
    BY <2>1, <2>2, GreatestOf
  <2>4. Register!Furthest(P) \in P
    BY <1>8, <2>3
  <2>5. ASSUME NEW j \in A, j <= Register!Furthest(P)
        PROVE  j \in P
    <3>. DEFINE i == Register!Furthest(P)
    <3>1. i \in A /\ Cardinality(Before(i)) < PageSize
      BY <1>6, <2>4
    <3>. HIDE DEF i
    <3>2. i \in Int /\ j \in Int /\ \A k \in A : k \in Int
      BY <1>4, <3>1
    <3>3. j <= i
      BY <2>5 DEF i
    <3>4. \A k \in A : k < j => k < i
      BY <3>2, <3>3
    <3>5. Before(j) \in SUBSET Before(i) /\ Before(i) \in SUBSET A /\ Before(j) \in SUBSET A
      BY <3>4
    <3>6. Cardinality(Before(j)) <= Cardinality(Before(i))
      BY <1>5, <3>5, FS_Subset
    <3>7. Cardinality(Before(j)) < PageSize
      BY <1>2, <1>5, <3>1, <3>5, <3>6
    <3>. QED
      BY <1>6, <3>7
  <2>. QED
    BY <2>4, <2>5
<1>13. /\ P \subseteq A
       /\ A = {i \in Ids : st[i] # NoReg /\ i > after}
       /\ Register!Short(st, after) => P = A
       /\ ~Register!Short(st, after) =>
            /\ Register!Furthest(P) \in P
            /\ \A j \in A : j <= Register!Furthest(P) => j \in P
  BY <1>3, <1>7, <1>9, <1>11, <1>12
<1>. QED
  BY <1>13 DEF A, P

LEMMA PageOfRows ==
    ASSUME WellRegistered, RegTyped, NEW after \in Cursor
    PROVE  /\ Register!Page(store, after) \in SUBSET Ids
           /\ \A i \in Register!Page(store, after) : store[i] \in RegRow
           /\ ~Register!Short(store, after) => Register!Furthest(Register!Page(store, after)) \in Cursor
<1>1. Register!Page(store, after) \subseteq {i \in Ids : store[i] # NoReg /\ i > after}
  BY PageShape
<1>2. \A i \in Ids : store[i] # NoReg => store[i] \in RegRow
  BY DEF RegTyped, MaybeRow
<1>3. ~Register!Short(store, after) =>
        Register!Furthest(Register!Page(store, after)) \in Register!Page(store, after)
  BY PageShape
<1>. QED
  BY <1>1, <1>2, <1>3 DEF Cursor

LEMMA RowsMade ==
    ASSUME NEW v \in Nat
    PROVE  /\ \A b \in Bodies : Register!Reg(b, v) \in RegRow
           /\ \A f \in Patches, r \in RegRow : Register!Reg(Register!Merged(r, f), v) \in RegRow
           /\ \A b : Register!Reg(b, v).ver = v
<1>1. ASSUME NEW b \in Bodies
      PROVE  Register!Reg(b, v) \in RegRow
  BY DEF Register!Reg, RegRow, Modes, InfoSets
<1>2. ASSUME NEW f \in Patches, NEW r \in RegRow
      PROVE  Register!Reg(Register!Merged(r, f), v) \in RegRow
  BY DEF Register!Reg, Register!Merged, RegRow, Modes, InfoSets
<1>3. \A b : Register!Reg(b, v).ver = v
  BY DEF Register!Reg
<1>. QED
  BY <1>1, <1>2, <1>3

-----------------------------------------------------------------------------
(* Every step keeps the types.                                             *)

regVars == <<store, past, lock, asked, sweep, jobs, pods, used>>

\* A request goes on in its handler.
LEMMA ClientOf ==
    ASSUME WellRegistered, RegTyped, NEW h \in Clients
    PROVE  /\ asked[h] \in RegClient /\ Engaged(asked[h]) /\ PodOf[h] \in Pods
           /\ Register!Unlocked(h) \in [Pods -> Clients \cup {Free}]
           /\ DOMAIN asked = Clients /\ DOMAIN lock = Pods
BY DEF RegTyped, Client, WellRegistered, Register!Unlocked

LEMMA ClientSet ==
    ASSUME RegTyped, NEW h \in Clients, NEW r \in RegClient, Engaged(r),
           asked' = [asked EXCEPT ![h] = r]
    PROVE  /\ asked' \in [Clients -> Client]
           /\ asked'[h] = r /\ \A g \in Clients \ {h} : asked'[g] = asked[g]
<1>1. asked \in [Clients -> Client] /\ r \in Client
  BY DEF RegTyped, Client
<1>. QED
  BY <1>1

\* Of what moves with a request: the handlers and the lock.
LEMMA TypedMove ==
    ASSUME RegTyped, asked' \in [Clients -> Client], lock' \in [Pods -> Clients \cup {Free}],
           UNCHANGED <<store, past, sweep, jobs, pods, used>>
    PROVE  RegTyped'
BY DEF RegTyped

LEMMA RefusedShape ==
    ASSUME WellRegistered, RegTyped, NEW h \in Clients,
           NEW answer \in {"bad", "conflict", "exists", "missing"}, Register!Refused(h, answer)
    PROVE  /\ asked' \in [Clients -> Client]
           /\ lock' \in [Pods -> Clients \cup {Free}]
           /\ lock' = [lock EXCEPT ![PodOf[h]] = Free]
           /\ asked'[h] = [asked[h] EXCEPT !.pc = "done", !.answer = answer]
           /\ asked'[h].pc = "done"
           /\ \A g \in Clients \ {h} : asked'[g] = asked[g]
<1>. DEFINE r == [asked[h] EXCEPT !.pc = "done", !.answer = answer]
<1>1. asked[h] \in RegClient /\ lock' = Register!Unlocked(h)
  BY ClientOf DEF Register!Refused
<1>2. r \in RegClient /\ r.pc = "done"
  BY <1>1 DEF RegClient
<1>3. Engaged(r)
  BY <1>2 DEF Engaged
<1>4. asked' = [asked EXCEPT ![h] = r]
  BY DEF Register!Refused, Register!Set
<1>. HIDE DEF r
<1>5. /\ asked' \in [Clients -> Client] /\ asked'[h] = r
      /\ \A g \in Clients \ {h} : asked'[g] = asked[g]
  BY <1>2, <1>3, <1>4, ClientSet
<1>. QED
  BY <1>1, <1>2, <1>5, ClientOf DEF r, Register!Unlocked

\* A handler that only goes on to another place.
LEMMA GoesShape ==
    ASSUME WellRegistered, RegTyped, NEW h \in Clients,
           NEW pc \in {"take", "reap", "overlap", "after"}, Register!Goes(h, pc),
           asked[h].pc \notin {"idle", "done"},
           pc = "overlap" => asked[h].pc \in {"entities", "overlap"}
    PROVE  /\ asked' \in [Clients -> Client]
           /\ asked'[h] = [asked[h] EXCEPT !.pc = pc]
           /\ asked'[h].pc = pc /\ asked'[h].id = asked[h].id /\ asked'[h].op = asked[h].op
           /\ asked'[h].body = asked[h].body /\ asked'[h].before = asked[h].before
           /\ asked'[h].after = asked[h].after /\ asked'[h].row = asked[h].row
           /\ \A g \in Clients \ {h} : asked'[g] = asked[g]
<1>. DEFINE r == [asked[h] EXCEPT !.pc = pc]
<1>1. asked[h] \in RegClient /\ Engaged(asked[h])
  BY ClientOf
<1>2. /\ r \in RegClient /\ r.pc = pc /\ r.id = asked[h].id /\ r.op = asked[h].op
      /\ r.body = asked[h].body /\ r.before = asked[h].before /\ r.after = asked[h].after
      /\ r.row = asked[h].row
  BY <1>1 DEF RegClient
<1>3. Engaged(r)
  BY <1>1, <1>2 DEF Engaged
<1>4. asked' = [asked EXCEPT ![h] = r]
  BY DEF Register!Goes, Register!Set
<1>. HIDE DEF r
<1>5. /\ asked' \in [Clients -> Client] /\ asked'[h] = r
      /\ \A g \in Clients \ {h} : asked'[g] = asked[g]
  BY <1>2, <1>3, <1>4, ClientSet
<1>. QED
  BY <1>2, <1>5 DEF r

LEMMA AskShape ==
    ASSUME WellRegistered, RegTyped, NEW h \in Clients, NEW id \in Ids, NEW op, NEW body,
           \/ op = "create" /\ body \in Bodies
           \/ op = "update" /\ body \in Patches
           \/ op = "delete" /\ body = NoReg,
           Register!Ask(h, op, id, body)
    PROVE  /\ asked' \in [Clients -> Client]
           /\ asked'[h].id = id /\ asked'[h].op = op /\ asked'[h].body = body
           /\ asked'[h].pc = IF op = "delete" THEN "take" ELSE "lock"
           /\ asked'[h].after = 0 /\ asked'[h].before = NoReg /\ asked'[h].row = NoReg
           /\ \A g \in Clients \ {h} : asked'[g] = asked[g]
<1>. DEFINE r == [Register!Resting EXCEPT !.pc = IF op = "delete" THEN "take" ELSE "lock",
                                         !.op = op, !.id = id, !.body = body]
<1>1. /\ r \in RegClient /\ r.id = id /\ r.op = op /\ r.body = body
      /\ r.pc = IF op = "delete" THEN "take" ELSE "lock"
      /\ r.after = 0 /\ r.before = NoReg /\ r.row = NoReg
  BY DEF RegClient, Register!Resting, Cursor, MaybeRow
<1>2. Engaged(r)
  BY <1>1 DEF Engaged
<1>3. asked' = [asked EXCEPT ![h] = r]
  BY DEF Register!Ask, Register!Set
<1>. HIDE DEF r
<1>. QED
  BY <1>1, <1>2, <1>3, ClientSet

\* What follows the read of the stored registration.
LEMMA TakenShape ==
    ASSUME WellRegistered, RegTyped, NEW h \in Clients, NEW found \in MaybeRow,
           asked[h].pc \in {"take", "reap"}, Register!Taken(h, found)
    PROVE  /\ asked' \in [Clients -> Client]
           /\ lock' \in [Pods -> Clients \cup {Free}]
           /\ \A g \in Clients \ {h} : asked'[g] = asked[g]
           /\ \/ /\ lock' = [lock EXCEPT ![PodOf[h]] = Free] /\ asked'[h].pc = "done"
                 /\ asked[h].op = "update"
              \/ /\ lock' = lock
                 /\ asked'[h].id = asked[h].id /\ asked'[h].op = asked[h].op
                 /\ asked'[h].body = asked[h].body /\ asked'[h].before = found
                 /\ asked'[h].after = asked[h].after /\ asked'[h].row = asked[h].row
                 /\ asked'[h].pc =
                      IF asked[h].op = "delete" \/ (asked[h].op = "update" /\ found = NoReg)
                      THEN "write" ELSE "entities"
<1>1. asked[h] \in RegClient /\ Engaged(asked[h])
  BY ClientOf
<1>. DEFINE C == /\ asked[h].op = "update" /\ found # NoReg
                 /\ ~Register!validate_exclusive(Register!Merged(found, asked[h].body))
<1>2. CASE C
  <2>1. Register!Refused(h, "bad")
    BY <1>2 DEF Register!Taken
  <2>. HIDE DEF C
  <2>2. /\ asked' \in [Clients -> Client] /\ lock' \in [Pods -> Clients \cup {Free}]
        /\ lock' = [lock EXCEPT ![PodOf[h]] = Free] /\ asked'[h].pc = "done"
        /\ \A g \in Clients \ {h} : asked'[g] = asked[g]
    BY <2>1, RefusedShape
  <2>. QED
    BY <1>2, <2>2 DEF C
<1>3. CASE ~C
  <2>. DEFINE pc == IF asked[h].op = "delete" \/ (asked[h].op = "update" /\ found = NoReg)
                    THEN "write" ELSE "entities"
              r == [asked[h] EXCEPT !.before = found, !.body = asked[h].body, !.pc = pc]
  <2>1. lock' = lock
    BY <1>3 DEF Register!Taken
  <2>2. asked' = [asked EXCEPT ![h] = r]
    <3>1. CASE asked[h].op = "update"
      BY <1>3, <3>1 DEF Register!Taken, Register!Set
    <3>2. CASE asked[h].op # "update"
      BY <1>3, <3>2 DEF Register!Taken, Register!Set
    <3>. QED
      BY <3>1, <3>2
  <2>3. pc \in {"write", "entities"}
    OBVIOUS
  <2>4. pc = "entities" => asked[h].op # "delete" /\ (asked[h].op = "update" => found # NoReg)
    OBVIOUS
  <2>. HIDE DEF pc
  <2>5. /\ r \in RegClient /\ r.id = asked[h].id /\ r.op = asked[h].op /\ r.body = asked[h].body
        /\ r.before = found /\ r.after = asked[h].after /\ r.row = asked[h].row /\ r.pc = pc
    BY <1>1, <2>3 DEF RegClient
  <2>6. Engaged(r)
    BY <1>1, <2>3, <2>4, <2>5 DEF Engaged
  <2>. HIDE DEF r
  <2>7. /\ asked' \in [Clients -> Client] /\ asked'[h] = r
        /\ \A g \in Clients \ {h} : asked'[g] = asked[g]
    BY <2>2, <2>5, <2>6, ClientSet
  <2>8. lock' \in [Pods -> Clients \cup {Free}]
    BY <2>1 DEF RegTyped
  <2>9. asked'[h].pc = IF asked[h].op = "delete" \/ (asked[h].op = "update" /\ found = NoReg)
                       THEN "write" ELSE "entities"
    BY <2>5, <2>7 DEF pc
  <2>. QED
    BY <2>1, <2>5, <2>7, <2>8, <2>9
<1>. QED
  BY <1>2, <1>3

\* A page of the walk for overlaps: a conflict, the end of the walk, or its next page.
LEMMA OverlapShape ==
    ASSUME WellRegistered, RegTyped, NEW h \in Clients, Register!check_proxied_overlap(h)
    PROVE  /\ asked' \in [Clients -> Client]
           /\ lock' \in [Pods -> Clients \cup {Free}]
           /\ \A g \in Clients \ {h} : asked'[g] = asked[g]
           /\ \/ lock' = [lock EXCEPT ![PodOf[h]] = Free] /\ asked'[h].pc = "done"
              \/ /\ lock' = lock
                 /\ asked'[h].id = asked[h].id /\ asked'[h].op = asked[h].op
                 /\ asked'[h].body = asked[h].body /\ asked'[h].before = asked[h].before
                 /\ asked'[h].row = asked[h].row
                 /\ IF Register!Short(store, asked[h].after)
                    THEN asked'[h].pc = "write" /\ asked'[h].after = asked[h].after
                    ELSE /\ asked'[h].pc = "overlap"
                         /\ asked'[h].after =
                              Register!Furthest(Register!Page(store, asked[h].after))
                 /\ \A i \in Register!Page(store, asked[h].after) :
                      \/ asked[h].op = "update" /\ i = asked[h].id
                      \/ Register!expired(store[i])
                      \/ ~Register!Overlaps(Register!Candidate(h), store[i])
<1>1. asked[h] \in RegClient /\ Engaged(asked[h]) /\ asked[h].pc = "overlap"
  BY ClientOf DEF Register!check_proxied_overlap
<1>2. CASE Register!Refused(h, "conflict")
  <2>1. /\ asked' \in [Clients -> Client] /\ lock' \in [Pods -> Clients \cup {Free}]
        /\ lock' = [lock EXCEPT ![PodOf[h]] = Free] /\ asked'[h].pc = "done"
        /\ \A g \in Clients \ {h} : asked'[g] = asked[g]
    BY <1>2, RefusedShape
  <2>. QED
    BY <2>1
<1>3. CASE ~Register!Refused(h, "conflict")
  <2>. DEFINE far == Register!Furthest(Register!Page(store, asked[h].after))
              r == IF Register!Short(store, asked[h].after)
                   THEN [asked[h] EXCEPT !.pc = "write"]
                   ELSE [asked[h] EXCEPT !.after = far]
  <2>1. /\ lock' = lock /\ asked' = [asked EXCEPT ![h] = r]
        /\ \A i \in Register!Page(store, asked[h].after) :
             \/ asked[h].op = "update" /\ i = asked[h].id
             \/ Register!expired(store[i])
             \/ ~Register!Overlaps(Register!Candidate(h), store[i])
    BY <1>3 DEF Register!check_proxied_overlap, Register!Set
  <2>2. asked[h].after \in Cursor
    BY <1>1 DEF RegClient
  <2>3. ~Register!Short(store, asked[h].after) => far \in Cursor
    BY <2>2, PageOfRows
  <2>. HIDE DEF far
  <2>4. /\ r \in RegClient /\ r.id = asked[h].id /\ r.op = asked[h].op /\ r.body = asked[h].body
        /\ r.before = asked[h].before /\ r.row = asked[h].row
        /\ IF Register!Short(store, asked[h].after)
           THEN r.pc = "write" /\ r.after = asked[h].after
           ELSE r.pc = "overlap" /\ r.after = far
    <3>1. CASE Register!Short(store, asked[h].after)
      BY <1>1, <3>1 DEF RegClient
    <3>2. CASE ~Register!Short(store, asked[h].after)
      BY <1>1, <2>3, <3>2 DEF RegClient
    <3>. QED
      BY <3>1, <3>2
  <2>5. Engaged(r)
    BY <1>1, <2>4 DEF Engaged
  <2>. HIDE DEF r
  <2>6. /\ asked' \in [Clients -> Client] /\ asked'[h] = r
        /\ \A g \in Clients \ {h} : asked'[g] = asked[g]
    BY <2>1, <2>4, <2>5, ClientSet
  <2>7. lock' \in [Pods -> Clients \cup {Free}]
    BY <2>1 DEF RegTyped
  <2>8. IF Register!Short(store, asked[h].after)
        THEN asked'[h].pc = "write" /\ asked'[h].after = asked[h].after
        ELSE /\ asked'[h].pc = "overlap"
             /\ asked'[h].after = Register!Furthest(Register!Page(store, asked[h].after))
    BY <2>4, <2>6 DEF far
  <2>. QED
    BY <2>1, <2>4, <2>6, <2>7, <2>8
<1>. QED
  BY <1>2, <1>3

\* A new version in the store, and a row taken out.
LEMMA StoreGains ==
    ASSUME RegTyped, NEW id \in Ids, NEW r \in RegRow, r.ver = used.vers + 1,
           store' = [store EXCEPT ![id] = r], used' = [used EXCEPT !.vers = @ + 1], past' = past
    PROVE  /\ store' \in [Ids -> MaybeRow]
           /\ store'[id] = r /\ \A i \in Ids \ {id} : store'[i] = store[i]
           /\ past' \in SUBSET (1..used'.vers)
           /\ used' \in [asks : Nat, vers : Nat, sweeps : Nat, fails : Nat, gaps : Nat]
           /\ used'.vers = used.vers + 1 /\ used'.sweeps = used.sweeps
           /\ used'.fails = used.fails
           /\ \A i \in Ids : store'[i] # NoReg => store'[i].ver \in 1..used'.vers
<1>1. /\ store \in [Ids -> MaybeRow] /\ past \in SUBSET (1..used.vers)
      /\ used \in [asks : Nat, vers : Nat, sweeps : Nat, fails : Nat, gaps : Nat]
      /\ \A i \in Ids : store[i] # NoReg => store[i].ver \in 1..used.vers
  BY DEF RegTyped
<1>2. /\ store' \in [Ids -> MaybeRow]
      /\ store'[id] = r /\ \A i \in Ids \ {id} : store'[i] = store[i]
  BY <1>1 DEF MaybeRow
<1>3. /\ used' \in [asks : Nat, vers : Nat, sweeps : Nat, fails : Nat, gaps : Nat]
      /\ used'.vers = used.vers + 1 /\ used'.sweeps = used.sweeps /\ used'.fails = used.fails
      /\ used.vers \in Nat
  BY <1>1
<1>4. past' \in SUBSET (1..used'.vers)
  BY <1>1, <1>3
<1>5. \A i \in Ids : store'[i] # NoReg => store'[i].ver \in 1..used'.vers
  <2>1. ASSUME NEW i \in Ids, store'[i] # NoReg
        PROVE  store'[i].ver \in 1..used'.vers
    <3>1. CASE i = id
      BY <1>2, <1>3, <3>1
    <3>2. CASE i # id
      <4>1. store[i].ver \in 1..used.vers /\ store'[i].ver = store[i].ver
        BY <1>1, <1>2, <2>1, <3>2
      <4>. QED
        BY <1>3, <4>1
    <3>. QED
      BY <3>1, <3>2
  <2>. QED
    BY <2>1
<1>. QED
  BY <1>2, <1>3, <1>4, <1>5

LEMMA StoreLoses ==
    ASSUME RegTyped, NEW id, store' = [store EXCEPT ![id] = NoReg],
           used'.vers = used.vers
    PROVE  /\ store' \in [Ids -> MaybeRow]
           /\ \A i \in Ids : store'[i] = IF i = id THEN NoReg ELSE store[i]
           /\ \A i \in Ids : store'[i] # NoReg => store'[i].ver \in 1..used'.vers
BY DEF RegTyped, MaybeRow

\* The write of a create.
LEMMA CreateShape ==
    ASSUME WellRegistered, RegTyped, NEW h \in Clients, Register!CreateRow(h)
    PROVE  /\ asked[h].pc = "write" /\ asked[h].op = "create" /\ asked[h].id \in Ids
           /\ asked' \in [Clients -> Client]
           /\ lock' \in [Pods -> Clients \cup {Free}]
           /\ lock' = [lock EXCEPT ![PodOf[h]] = Free]
           /\ \A g \in Clients \ {h} : asked'[g] = asked[g]
           /\ UNCHANGED <<past, sweep, jobs, pods>>
           /\ \/ asked'[h].pc = "done" /\ UNCHANGED <<store, used>>
              \/ /\ store[asked[h].id] = NoReg
                 /\ Register!Reg(asked[h].body, used.vers + 1) \in RegRow
                 /\ store' = [store EXCEPT ![asked[h].id] =
                                Register!Reg(asked[h].body, used.vers + 1)]
                 /\ used' = [used EXCEPT !.vers = @ + 1]
                 /\ asked'[h].pc = "publish" /\ asked'[h].id = asked[h].id
                 /\ asked'[h].row = Register!Reg(asked[h].body, used.vers + 1)
<1>. DEFINE v == Register!Reg(asked[h].body, used.vers + 1)
<1>1. /\ asked[h] \in RegClient /\ Engaged(asked[h])
      /\ asked[h].pc = "write" /\ asked[h].op = "create"
      /\ UNCHANGED <<past, sweep, jobs, pods>>
  BY ClientOf DEF Register!CreateRow
<1>2. asked[h].id \in Ids /\ asked[h].body \in Bodies
  BY <1>1 DEF Engaged
<1>3. CASE store[asked[h].id] # NoReg
  <2>. HIDE DEF v
  <2>1. UNCHANGED <<store, used>>
    BY <1>3 DEF Register!CreateRow
  <2>3. Register!Refused(h, "exists")
    BY <1>3 DEF Register!CreateRow
  <2>2. /\ asked' \in [Clients -> Client] /\ lock' \in [Pods -> Clients \cup {Free}]
        /\ lock' = [lock EXCEPT ![PodOf[h]] = Free] /\ asked'[h].pc = "done"
        /\ \A g \in Clients \ {h} : asked'[g] = asked[g]
    BY <2>3, RefusedShape
  <2>. QED
    BY <1>1, <1>2, <2>1, <2>2
<1>4. CASE store[asked[h].id] = NoReg
  <2>. DEFINE r == [asked[h] EXCEPT !.pc = "publish", !.row = v]
  <2>1. /\ store' = [store EXCEPT ![asked[h].id] = v]
        /\ used' = [used EXCEPT !.vers = @ + 1]
        /\ lock' = Register!Unlocked(h)
        /\ asked' = [asked EXCEPT ![h] = r]
    BY <1>4 DEF Register!CreateRow, Register!Stored, Register!Set
  <2>2. used.vers + 1 \in Nat
    BY DEF RegTyped
  <2>3. v \in RegRow
    BY <1>2, <2>2, RowsMade
  <2>. HIDE DEF v
  <2>4. r \in RegClient /\ r.pc = "publish" /\ r.id = asked[h].id /\ r.op = asked[h].op /\ r.row = v
        /\ r.body = asked[h].body
    BY <1>1, <2>3 DEF RegClient, MaybeRow
  <2>5. Engaged(r)
    BY <1>1, <1>2, <2>4 DEF Engaged
  <2>. HIDE DEF r
  <2>6. /\ asked' \in [Clients -> Client] /\ asked'[h] = r
        /\ \A g \in Clients \ {h} : asked'[g] = asked[g]
    BY <2>1, <2>4, <2>5, ClientSet
  <2>7. lock' \in [Pods -> Clients \cup {Free}] /\ lock' = [lock EXCEPT ![PodOf[h]] = Free]
    BY <2>1, ClientOf DEF Register!Unlocked
  <2>8. asked'[h].pc = "publish" /\ asked'[h].id = asked[h].id /\ asked'[h].row = v
    BY <2>4, <2>6
  <2>. QED
    BY <1>1, <1>2, <1>4, <2>1, <2>3, <2>6, <2>7, <2>8 DEF v
<1>. QED
  BY <1>3, <1>4

\* The write of an update.
LEMMA UpdateShape ==
    ASSUME WellRegistered, RegTyped, NEW h \in Clients, Register!UpdateRow(h)
    PROVE  /\ asked[h].pc = "write" /\ asked[h].op = "update" /\ asked[h].id \in Ids
           /\ asked' \in [Clients -> Client]
           /\ lock' \in [Pods -> Clients \cup {Free}]
           /\ lock' = [lock EXCEPT ![PodOf[h]] = Free]
           /\ \A g \in Clients \ {h} : asked'[g] = asked[g]
           /\ UNCHANGED <<past, sweep, jobs, pods>>
           /\ \/ asked'[h].pc = "done" /\ UNCHANGED <<store, used>>
              \/ LET v == Register!Reg(Register!Merged(store[asked[h].id], asked[h].body),
                                       used.vers + 1)
                 IN /\ store[asked[h].id] # NoReg
                    /\ v \in RegRow
                    /\ store' = [store EXCEPT ![asked[h].id] = v]
                    /\ used' = [used EXCEPT !.vers = @ + 1]
                    /\ asked'[h].pc = "after" /\ asked'[h].id = asked[h].id
<1>. DEFINE v == Register!Reg(Register!Merged(store[asked[h].id], asked[h].body), used.vers + 1)
<1>1. /\ asked[h] \in RegClient /\ Engaged(asked[h])
      /\ asked[h].pc = "write" /\ asked[h].op = "update"
      /\ UNCHANGED <<past, sweep, jobs, pods>>
  BY ClientOf DEF Register!UpdateRow
<1>2. asked[h].id \in Ids /\ asked[h].body \in Patches
  BY <1>1 DEF Engaged
<1>3. CASE store[asked[h].id] = NoReg
  <2>. HIDE DEF v
  <2>1. UNCHANGED <<store, used>>
    BY <1>3 DEF Register!UpdateRow
  <2>3. Register!Refused(h, "missing")
    BY <1>3 DEF Register!UpdateRow
  <2>2. /\ asked' \in [Clients -> Client] /\ lock' \in [Pods -> Clients \cup {Free}]
        /\ lock' = [lock EXCEPT ![PodOf[h]] = Free] /\ asked'[h].pc = "done"
        /\ \A g \in Clients \ {h} : asked'[g] = asked[g]
    BY <2>3, RefusedShape
  <2>. QED
    BY <1>1, <1>2, <2>1, <2>2
<1>4. CASE store[asked[h].id] # NoReg
  <2>1. /\ store' = [store EXCEPT ![asked[h].id] = v]
        /\ used' = [used EXCEPT !.vers = @ + 1]
        /\ lock' = Register!Unlocked(h)
        /\ Register!Goes(h, "after")
    BY <1>4 DEF Register!UpdateRow, Register!Stored
  <2>2. used.vers + 1 \in Nat /\ store[asked[h].id] \in RegRow
    BY <1>2, <1>4 DEF RegTyped, MaybeRow
  <2>3. v \in RegRow
    BY <1>2, <2>2, RowsMade
  <2>. HIDE DEF v
  <2>4. /\ asked' \in [Clients -> Client] /\ asked'[h].pc = "after" /\ asked'[h].id = asked[h].id
        /\ \A g \in Clients \ {h} : asked'[g] = asked[g]
    BY <1>1, <2>1, GoesShape
  <2>5. lock' \in [Pods -> Clients \cup {Free}] /\ lock' = [lock EXCEPT ![PodOf[h]] = Free]
    BY <2>1, ClientOf DEF Register!Unlocked
  <2>. QED
    BY <1>1, <1>2, <1>4, <2>1, <2>3, <2>4, <2>5 DEF v
<1>. QED
  BY <1>3, <1>4

LEMMA ReadAfterShape ==
    ASSUME WellRegistered, RegTyped, NEW h \in Clients, Register!ReadAfter(h)
    PROVE  /\ asked[h].pc = "after" /\ asked[h].id \in Ids
           /\ asked' \in [Clients -> Client]
           /\ asked'[h].pc = "publish" /\ asked'[h].id = asked[h].id
           /\ asked'[h].row = store[asked[h].id]
           /\ \A g \in Clients \ {h} : asked'[g] = asked[g]
           /\ UNCHANGED <<store, past, lock, sweep, jobs, pods, used>>
<1>. DEFINE r == [asked[h] EXCEPT !.pc = "publish", !.row = store[asked[h].id]]
<1>1. /\ asked[h] \in RegClient /\ Engaged(asked[h]) /\ asked[h].pc = "after"
      /\ asked' = [asked EXCEPT ![h] = r]
      /\ UNCHANGED <<store, past, lock, sweep, jobs, pods, used>>
  BY ClientOf DEF Register!ReadAfter, Register!Set
<1>2. asked[h].id \in Ids /\ store[asked[h].id] \in MaybeRow
  BY <1>1 DEF Engaged, RegTyped
<1>3. /\ r \in RegClient /\ r.pc = "publish" /\ r.id = asked[h].id /\ r.op = asked[h].op
      /\ r.row = store[asked[h].id] /\ r.body = asked[h].body
  BY <1>1, <1>2 DEF RegClient
<1>4. Engaged(r)
  BY <1>1, <1>2, <1>3 DEF Engaged
<1>. HIDE DEF r
<1>5. /\ asked' \in [Clients -> Client] /\ asked'[h] = r
      /\ \A g \in Clients \ {h} : asked'[g] = asked[g]
  BY <1>1, <1>3, <1>4, ClientSet
<1>. QED
  BY <1>1, <1>2, <1>3, <1>5

LEMMA DeleteShape ==
    ASSUME WellRegistered, RegTyped, NEW h \in Clients, Register!delete_registration(h)
    PROVE  /\ asked[h].pc = "write" /\ asked[h].op = "delete" /\ asked[h].id \in Ids
           /\ asked' \in [Clients -> Client]
           /\ \A g \in Clients \ {h} : asked'[g] = asked[g]
           /\ store' = [store EXCEPT ![asked[h].id] = NoReg]
           /\ UNCHANGED <<past, lock, sweep, jobs, pods, used>>
           /\ \/ store[asked[h].id] = NoReg /\ asked'[h].pc = "done"
              \/ /\ asked'[h].pc = "publish" /\ asked'[h].id = asked[h].id
                 /\ asked'[h].row = NoReg
<1>. DEFINE r == IF store[asked[h].id] = NoReg
                 THEN [asked[h] EXCEPT !.pc = "done", !.answer = "missing"]
                 ELSE [asked[h] EXCEPT !.pc = "publish", !.row = NoReg]
<1>1. /\ asked[h] \in RegClient /\ Engaged(asked[h]) /\ asked[h].pc = "write"
      /\ asked[h].op = "delete"
      /\ asked' = [asked EXCEPT ![h] = r]
      /\ store' = [store EXCEPT ![asked[h].id] = NoReg]
      /\ UNCHANGED <<past, lock, sweep, jobs, pods, used>>
  BY ClientOf DEF Register!delete_registration, Register!Set
<1>2. asked[h].id \in Ids
  BY <1>1 DEF Engaged
<1>3. /\ r \in RegClient /\ r.op = "delete" /\ r.id = asked[h].id
      /\ \/ store[asked[h].id] = NoReg /\ r.pc = "done"
         \/ r.pc = "publish" /\ r.row = NoReg
  <2>1. NoReg \in MaybeRow
    BY DEF MaybeRow
  <2>2. CASE store[asked[h].id] = NoReg
    BY <1>1, <2>2 DEF RegClient
  <2>3. CASE store[asked[h].id] # NoReg
    BY <1>1, <2>1, <2>3 DEF RegClient
  <2>. QED
    BY <2>2, <2>3
<1>4. Engaged(r)
  BY <1>2, <1>3 DEF Engaged
<1>. HIDE DEF r
<1>5. /\ asked' \in [Clients -> Client] /\ asked'[h] = r
      /\ \A g \in Clients \ {h} : asked'[g] = asked[g]
  BY <1>1, <1>3, <1>4, ClientSet
<1>. QED
  BY <1>1, <1>2, <1>3, <1>5

LEMMA ChangedShape ==
    ASSUME WellRegistered, RegTyped, NEW h \in Clients, Register!reg_changed(h)
    PROVE  /\ asked[h].pc = "publish" /\ asked[h].id \in Ids
           /\ asked' \in [Clients -> Client] /\ asked'[h].pc = "done"
           /\ \A g \in Clients \ {h} : asked'[g] = asked[g]
           /\ UNCHANGED <<store, past, lock, sweep, pods, used>>
           /\ \E t \in Job : /\ t.id = asked[h].id /\ t.row = asked[h].row /\ t.left = Attempts
                             /\ jobs' = jobs \cup {t}
<1>. DEFINE r == [asked[h] EXCEPT !.pc = "done", !.answer = "ok"]
            t == [id |-> asked[h].id, row |-> asked[h].row, of |-> h, left |-> Attempts]
<1>1. /\ asked[h] \in RegClient /\ Engaged(asked[h]) /\ asked[h].pc = "publish"
      /\ asked' = [asked EXCEPT ![h] = r] /\ jobs' = jobs \cup {t}
      /\ UNCHANGED <<store, past, lock, sweep, pods, used>>
  BY ClientOf DEF Register!reg_changed, Register!Set
<1>2. asked[h].id \in Ids /\ asked[h].row \in MaybeRow
  BY <1>1 DEF Engaged, RegClient
<1>3. r \in RegClient /\ r.pc = "done"
  BY <1>1 DEF RegClient
<1>4. Engaged(r)
  BY <1>3 DEF Engaged
<1>5. t \in Job /\ t.id = asked[h].id /\ t.row = asked[h].row /\ t.left = Attempts
  <2>1. Attempts \in 1..Attempts
    BY DEF WellRegistered
  <2>. QED
    BY <1>2, <2>1 DEF Job
<1>. HIDE DEF r, t
<1>6. /\ asked' \in [Clients -> Client] /\ asked'[h] = r
      /\ \A g \in Clients \ {h} : asked'[g] = asked[g]
  BY <1>1, <1>3, <1>4, ClientSet
<1>. QED
  BY <1>1, <1>2, <1>3, <1>5, <1>6

\* The steps of a pod: what becomes of each member of it.
LEMMA PodSet ==
    ASSUME RegTyped, NEW p \in Mirrors, NEW r \in RegPod, pods' = [pods EXCEPT ![p] = r]
    PROVE  /\ pods' \in [Mirrors -> RegPod]
           /\ pods'[p] = r /\ \A o \in Mirrors \ {p} : pods'[o] = pods[o]
<1>1. pods \in [Mirrors -> RegPod]
  BY DEF RegTyped
<1>. QED
  BY <1>1

LEMMA PodOfMirrors ==
    ASSUME RegTyped, NEW p \in Mirrors
    PROVE  /\ pods[p] \in RegPod
           /\ pods[p].pc \in {"down", "seed", "up"} /\ pods[p].after \in Cursor
           /\ pods[p].listening \in BOOLEAN /\ pods[p].installed \in BOOLEAN
           /\ pods[p].feed \in Seq(Delta) /\ pods[p].mirror \in Mirrored
<1>1. pods[p] \in RegPod
  BY DEF RegTyped
<1>. QED
  BY <1>1 DEF RegPod

\* A publication: the delta at the end of the feed of every pod that listens.
LEMMA PublishShape ==
    ASSUME RegTyped, NEW t \in jobs, Register!Publish(t)
    PROVE  /\ pods' \in [Mirrors -> RegPod]
           /\ jobs' = jobs \ {t}
           /\ UNCHANGED <<store, past, lock, asked, sweep, used>>
           /\ \A p \in Mirrors :
                /\ pods'[p].pc = pods[p].pc /\ pods'[p].listening = pods[p].listening
                /\ pods'[p].installed = pods[p].installed /\ pods'[p].after = pods[p].after
                /\ pods'[p].mirror = pods[p].mirror
                /\ pods'[p].feed = IF pods[p].listening
                                   THEN Append(pods[p].feed, [id |-> t.id, row |-> t.row])
                                   ELSE pods[p].feed
<1>. DEFINE d == [id |-> t.id, row |-> t.row]
            r(p) == IF pods[p].listening
                    THEN [pods[p] EXCEPT !.feed = Append(pods[p].feed, d)] ELSE pods[p]
<1>1. d \in Delta
  BY DEF RegTyped, Job, Delta
<1>2. /\ pods' = [p \in Mirrors |-> r(p)] /\ jobs' = jobs \ {t}
      /\ UNCHANGED <<store, past, lock, asked, sweep, used>>
  BY DEF Register!Publish
<1>. HIDE DEF d
<1>3. ASSUME NEW p \in Mirrors
      PROVE  /\ r(p) \in RegPod
             /\ r(p).pc = pods[p].pc /\ r(p).listening = pods[p].listening
             /\ r(p).installed = pods[p].installed /\ r(p).after = pods[p].after
             /\ r(p).mirror = pods[p].mirror
             /\ r(p).feed = IF pods[p].listening THEN Append(pods[p].feed, d) ELSE pods[p].feed
  <2>1. pods[p] \in RegPod /\ pods[p].feed \in Seq(Delta)
    BY PodOfMirrors
  <2>2. Append(pods[p].feed, d) \in Seq(Delta)
    BY <1>1, <2>1
  <2>. DEFINE f == Append(pods[p].feed, d)
  <2>. HIDE DEF f
  <2>3. CASE pods[p].listening
    <3>1. [pods[p] EXCEPT !.feed = f] \in RegPod
      BY <2>1, <2>2 DEF RegPod, f
    <3>2. LET q == [pods[p] EXCEPT !.feed = f]
          IN /\ q.pc = pods[p].pc /\ q.listening = pods[p].listening
             /\ q.installed = pods[p].installed /\ q.after = pods[p].after
             /\ q.mirror = pods[p].mirror /\ q.feed = f
      BY <2>1 DEF RegPod
    <3>3. r(p) = [pods[p] EXCEPT !.feed = f]
      BY <2>3 DEF f
    <3>. QED
      BY <2>3, <3>1, <3>2, <3>3 DEF f
  <2>4. CASE ~pods[p].listening
    BY <2>1, <2>4
  <2>. QED
    BY <2>3, <2>4
<1>. HIDE DEF r
<1>. QED
  BY <1>2, <1>3 DEF d

LEMMA PublishFailsShape ==
    ASSUME WellRegistered, RegTyped, NEW t \in jobs, Register!PublishFails(t)
    PROVE  /\ used.fails < MaxFails
           /\ used' \in [asks : Nat, vers : Nat, sweeps : Nat, fails : Nat, gaps : Nat]
           /\ used'.vers = used.vers /\ used'.sweeps = used.sweeps /\ used'.fails = used.fails + 1
           /\ UNCHANGED <<store, past, lock, asked, sweep, pods>>
           /\ \/ t.left = 1 /\ jobs' = jobs \ {t}
              \/ \E u \in Job : /\ t.left # 1 /\ u.id = t.id /\ u.row = t.row /\ u.left = t.left - 1
                                /\ jobs' = (jobs \ {t}) \cup {u}
<1>1. t \in Job /\ t.left \in 1..Attempts
  BY DEF RegTyped, Job
<1>2. /\ used.fails < MaxFails /\ used' = [used EXCEPT !.fails = @ + 1]
      /\ UNCHANGED <<store, past, lock, asked, sweep, pods>>
      /\ jobs' = (jobs \ {t}) \cup (IF t.left = 1 THEN {} ELSE {[t EXCEPT !.left = @ - 1]})
  BY DEF Register!PublishFails
<1>3. used \in [asks : Nat, vers : Nat, sweeps : Nat, fails : Nat, gaps : Nat]
  BY DEF RegTyped
<1>4. /\ used' \in [asks : Nat, vers : Nat, sweeps : Nat, fails : Nat, gaps : Nat]
      /\ used'.vers = used.vers /\ used'.sweeps = used.sweeps /\ used'.fails = used.fails + 1
  BY <1>2, <1>3
<1>5. ASSUME t.left # 1
      PROVE  LET u == [t EXCEPT !.left = @ - 1]
             IN u \in Job /\ u.id = t.id /\ u.row = t.row /\ u.left = t.left - 1
  <2>1. t.left - 1 \in 1..Attempts
    <3>1. Attempts \in Nat
      BY DEF WellRegistered
    <3>. QED
      BY <1>1, <1>5, <3>1
  <2>. DEFINE n == t.left - 1
  <2>. HIDE DEF n
  <2>2. LET u == [t EXCEPT !.left = n]
        IN u \in Job /\ u.id = t.id /\ u.row = t.row /\ u.left = n
    BY <1>1, <2>1 DEF Job, n
  <2>. QED
    BY <2>2 DEF n
<1>. QED
  BY <1>2, <1>4, <1>5

LEMMA StartShape ==
    ASSUME RegTyped, NEW p \in Mirrors, Register!Start(p)
    PROVE  /\ pods' \in [Mirrors -> RegPod] /\ \A o \in Mirrors \ {p} : pods'[o] = pods[o]
           /\ pods[p].pc = "down" /\ pods'[p].pc = "seed" /\ pods'[p].listening
           /\ pods'[p].installed = pods[p].installed /\ pods'[p].after = pods[p].after
           /\ pods'[p].feed = pods[p].feed /\ pods'[p].mirror = pods[p].mirror
           /\ UNCHANGED <<store, past, lock, asked, sweep, jobs, used>>
<1>. DEFINE r == [pods[p] EXCEPT !.pc = "seed", !.listening = TRUE]
<1>1. /\ pods[p].pc = "down" /\ pods' = [pods EXCEPT ![p] = r]
      /\ UNCHANGED <<store, past, lock, asked, sweep, jobs, used>>
  BY DEF Register!Start, Register!SetPod
<1>2. pods[p] \in RegPod
  BY PodOfMirrors
<1>3. /\ r \in RegPod /\ r.pc = "seed" /\ r.listening = TRUE /\ r.installed = pods[p].installed
      /\ r.after = pods[p].after /\ r.feed = pods[p].feed /\ r.mirror = pods[p].mirror
  BY <1>2 DEF RegPod
<1>. HIDE DEF r
<1>. QED
  BY <1>1, <1>3, PodSet

\* A page of a hydrate: the mirror has every row of the page.
LEMMA SeedShape ==
    ASSUME WellRegistered, RegTyped, NEW p \in Mirrors, Register!seed_mirror(p)
    PROVE  LET page == Register!Page(store, pods[p].after)
               old == pods[p].mirror.docs
               new == pods'[p].mirror.docs
           IN /\ pods' \in [Mirrors -> RegPod] /\ \A o \in Mirrors \ {p} : pods'[o] = pods[o]
              /\ pods[p].pc = "seed" /\ pods'[p].listening = pods[p].listening
              /\ pods'[p].feed = pods[p].feed
              /\ page \in SUBSET Ids
              /\ DOMAIN new = page \cup DOMAIN old
              /\ \A k \in page : new[k] = store[k]
              /\ \A k \in DOMAIN old \ page : new[k] = old[k]
              /\ IF Register!Short(store, pods[p].after)
                 THEN pods'[p].pc = "up" /\ pods'[p].installed /\ pods'[p].after = 0
                 ELSE /\ pods'[p].pc = "seed" /\ pods'[p].installed = pods[p].installed
                      /\ pods'[p].after = Register!Furthest(page)
              /\ UNCHANGED <<store, past, lock, asked, sweep, jobs, used>>
<1>. DEFINE page == Register!Page(store, pods[p].after)
            short == Register!Short(store, pods[p].after)
            rows == [i \in page |-> store[i]]
            seeded == Register!insert(pods[p].mirror, rows)
            r == IF short
                 THEN [pods[p] EXCEPT !.mirror = seeded, !.pc = "up", !.installed = TRUE,
                                      !.after = 0]
                 ELSE [pods[p] EXCEPT !.mirror = seeded, !.after = Register!Furthest(page)]
<1>1. /\ pods[p].pc = "seed" /\ pods' = [pods EXCEPT ![p] = r]
      /\ UNCHANGED <<store, past, lock, asked, sweep, jobs, used>>
  BY DEF Register!seed_mirror, Register!SetPod
<1>2. /\ pods[p] \in RegPod /\ pods[p].after \in Cursor /\ pods[p].mirror \in Mirrored
  BY PodOfMirrors
<1>3. /\ page \in SUBSET Ids /\ rows \in [page -> RegRow]
      /\ ~short => Register!Furthest(page) \in Cursor
  BY <1>2, PageOfRows
<1>4. /\ seeded \in Mirrored
      /\ DOMAIN seeded.docs = page \cup DOMAIN pods[p].mirror.docs
      /\ \A k \in page : seeded.docs[k] = rows[k]
      /\ \A k \in DOMAIN pods[p].mirror.docs \ page : seeded.docs[k] = pods[p].mirror.docs[k]
  <2>. HIDE DEF page, rows
  <2>. QED
    BY <1>2, <1>3, MirrorInserts
<1>5. \A k \in page : seeded.docs[k] = store[k]
  <2>1. \A k \in page : rows[k] = store[k]
    OBVIOUS
  <2>. HIDE DEF seeded, page
  <2>. QED
    BY <1>4, <2>1
<1>6. /\ r \in RegPod /\ r.listening = pods[p].listening /\ r.feed = pods[p].feed
      /\ r.mirror = seeded
      /\ IF short THEN r.pc = "up" /\ r.installed = TRUE /\ r.after = 0
         ELSE r.pc = "seed" /\ r.installed = pods[p].installed /\ r.after = Register!Furthest(page)
  <2>. HIDE DEF seeded, page, short
  <2>1. 0 \in Cursor
    BY DEF Cursor
  <2>2. CASE short
    BY <1>2, <1>4, <2>1, <2>2 DEF RegPod
  <2>3. CASE ~short
    BY <1>1, <1>2, <1>3, <1>4, <2>3 DEF RegPod
  <2>. QED
    BY <2>2, <2>3
<1>. HIDE DEF r, seeded, rows, short, page
<1>7. /\ pods' \in [Mirrors -> RegPod] /\ pods'[p] = r
      /\ \A o \in Mirrors \ {p} : pods'[o] = pods[o]
  BY <1>1, <1>6, PodSet
<1>8. /\ pods'[p].listening = pods[p].listening /\ pods'[p].feed = pods[p].feed
      /\ pods'[p].mirror = seeded
      /\ IF short THEN pods'[p].pc = "up" /\ pods'[p].installed /\ pods'[p].after = 0
         ELSE /\ pods'[p].pc = "seed" /\ pods'[p].installed = pods[p].installed
              /\ pods'[p].after = Register!Furthest(page)
  BY <1>6, <1>7
<1>9. /\ pods' \in [Mirrors -> RegPod] /\ \A o \in Mirrors \ {p} : pods'[o] = pods[o]
      /\ pods[p].pc = "seed" /\ pods'[p].listening = pods[p].listening
      /\ pods'[p].feed = pods[p].feed
      /\ page \in SUBSET Ids
      /\ DOMAIN pods'[p].mirror.docs = page \cup DOMAIN pods[p].mirror.docs
      /\ \A k \in page : pods'[p].mirror.docs[k] = store[k]
      /\ \A k \in DOMAIN pods[p].mirror.docs \ page :
           pods'[p].mirror.docs[k] = pods[p].mirror.docs[k]
      /\ IF short THEN pods'[p].pc = "up" /\ pods'[p].installed /\ pods'[p].after = 0
         ELSE /\ pods'[p].pc = "seed" /\ pods'[p].installed = pods[p].installed
              /\ pods'[p].after = Register!Furthest(page)
      /\ UNCHANGED <<store, past, lock, asked, sweep, jobs, used>>
  BY <1>1, <1>3, <1>4, <1>5, <1>7, <1>8
<1>. QED
  BY <1>9 DEF page, short

LEMMA SeedFailsShape ==
    ASSUME RegTyped, NEW p \in Mirrors, Register!SeedFails(p)
    PROVE  /\ pods' \in [Mirrors -> RegPod] /\ \A o \in Mirrors \ {p} : pods'[o] = pods[o]
           /\ pods[p].pc = "seed" /\ pods'[p].pc = "up" /\ pods'[p].listening = pods[p].listening
           /\ pods'[p].installed = pods[p].installed /\ pods'[p].after = 0
           /\ pods'[p].feed = pods[p].feed /\ pods'[p].mirror = pods[p].mirror
           /\ used' \in [asks : Nat, vers : Nat, sweeps : Nat, fails : Nat, gaps : Nat]
           /\ used'.vers = used.vers /\ used'.sweeps = used.sweeps /\ used'.fails = used.fails + 1
           /\ UNCHANGED <<store, past, lock, asked, sweep, jobs>>
<1>. DEFINE r == [pods[p] EXCEPT !.pc = "up", !.after = 0]
<1>1. /\ pods[p].pc = "seed" /\ pods' = [pods EXCEPT ![p] = r]
      /\ used' = [used EXCEPT !.fails = @ + 1]
      /\ UNCHANGED <<store, past, lock, asked, sweep, jobs>>
  BY DEF Register!SeedFails, Register!SetPod
<1>2. pods[p] \in RegPod /\ 0 \in Cursor
  BY PodOfMirrors DEF Cursor
<1>3. /\ r \in RegPod /\ r.pc = "up" /\ r.listening = pods[p].listening
      /\ r.installed = pods[p].installed
      /\ r.after = 0 /\ r.feed = pods[p].feed /\ r.mirror = pods[p].mirror
  BY <1>2 DEF RegPod
<1>4. /\ used' \in [asks : Nat, vers : Nat, sweeps : Nat, fails : Nat, gaps : Nat]
      /\ used'.vers = used.vers /\ used'.sweeps = used.sweeps /\ used'.fails = used.fails + 1
  BY <1>1 DEF RegTyped
<1>. HIDE DEF r
<1>. QED
  BY <1>1, <1>3, <1>4, PodSet

\* The first delta of a feed: the mirror holds its row, or has dropped its id.
LEMMA ConsumeShape ==
    ASSUME RegTyped, NEW p \in Mirrors, Register!Consume(p)
    PROVE  LET d == Head(pods[p].feed)
               old == pods[p].mirror.docs
               new == pods'[p].mirror.docs
           IN /\ pods' \in [Mirrors -> RegPod] /\ \A o \in Mirrors \ {p} : pods'[o] = pods[o]
              /\ pods[p].pc = "up" /\ pods'[p].pc = "up"
              /\ pods'[p].listening = pods[p].listening
              /\ pods'[p].installed = pods[p].installed /\ pods'[p].after = pods[p].after
              /\ pods[p].feed # <<>> /\ pods'[p].feed = Tail(pods[p].feed)
              /\ d \in Delta
              /\ DOMAIN new = IF d.row = NoReg THEN DOMAIN old \ {d.id} ELSE DOMAIN old \cup {d.id}
              /\ d.row # NoReg => new[d.id] = d.row
              /\ \A k \in DOMAIN old \ {d.id} : new[k] = old[k]
              /\ UNCHANGED <<store, past, lock, asked, sweep, jobs, used>>
<1>. DEFINE d == Head(pods[p].feed)
            m == pods[p].mirror
            n == Register!apply(m, d.id, d.row)
            r == [pods[p] EXCEPT !.feed = Tail(pods[p].feed), !.mirror = n]
<1>1. /\ pods[p].pc = "up" /\ pods[p].feed # <<>> /\ pods' = [pods EXCEPT ![p] = r]
      /\ UNCHANGED <<store, past, lock, asked, sweep, jobs, used>>
  BY DEF Register!Consume, Register!SetPod
<1>2. pods[p] \in RegPod /\ pods[p].feed \in Seq(Delta) /\ m \in Mirrored
  BY PodOfMirrors
<1>3. d \in Delta /\ Tail(pods[p].feed) \in Seq(Delta)
  BY <1>1, <1>2
<1>. HIDE DEF d, m
<1>4. d.id \in Ids /\ d.row \in MaybeRow
  BY <1>3 DEF Delta
<1>5. /\ n \in Mirrored
      /\ DOMAIN n.docs = IF d.row = NoReg THEN DOMAIN m.docs \ {d.id} ELSE DOMAIN m.docs \cup {d.id}
      /\ d.row # NoReg => n.docs[d.id] = d.row
      /\ \A k \in DOMAIN m.docs \ {d.id} : n.docs[k] = m.docs[k]
  <2>1. CASE d.row = NoReg
    <3>1. n = Register!remove(m, {d.id})
      BY <2>1 DEF Register!apply
    <3>. HIDE DEF n
    <3>. QED
      BY <1>2, <2>1, <3>1, MirrorRemoves
  <2>2. CASE d.row # NoReg
    <3>. DEFINE new == [i \in {d.id} |-> d.row]
                S == {d.id}
    <3>1. n = Register!insert(m, new)
      BY <2>2 DEF Register!apply
    <3>2. S \in SUBSET Ids /\ new \in [S -> RegRow] /\ new[d.id] = d.row
      BY <1>4, <2>2 DEF MaybeRow
    <3>. HIDE DEF n, new, S
    <3>3. /\ Register!insert(m, new) \in Mirrored
          /\ DOMAIN Register!insert(m, new).docs = S \cup DOMAIN m.docs
          /\ \A k \in S : Register!insert(m, new).docs[k] = new[k]
          /\ \A k \in DOMAIN m.docs \ S : Register!insert(m, new).docs[k] = m.docs[k]
      BY <1>2, <3>2, MirrorInserts
    <3>. QED
      BY <2>2, <3>1, <3>2, <3>3 DEF S
  <2>. QED
    BY <2>1, <2>2
<1>. HIDE DEF n
<1>6. /\ r \in RegPod /\ r.pc = "up" /\ r.listening = pods[p].listening
      /\ r.installed = pods[p].installed /\ r.after = pods[p].after
      /\ r.feed = Tail(pods[p].feed) /\ r.mirror = n
  <2>. DEFINE f == Tail(pods[p].feed)
  <2>1. f \in Seq(Delta)
    BY <1>3
  <2>. HIDE DEF f
  <2>2. LET q == [pods[p] EXCEPT !.feed = f, !.mirror = n]
        IN /\ q \in RegPod /\ q.pc = "up" /\ q.listening = pods[p].listening
           /\ q.installed = pods[p].installed /\ q.after = pods[p].after
           /\ q.feed = f /\ q.mirror = n
    BY <1>1, <1>2, <1>5, <2>1 DEF RegPod
  <2>. QED
    BY <2>2 DEF f
<1>. HIDE DEF r
<1>7. /\ pods' \in [Mirrors -> RegPod] /\ pods'[p] = r
      /\ \A o \in Mirrors \ {p} : pods'[o] = pods[o]
  BY <1>1, <1>6, PodSet
<1>. QED
  BY <1>1, <1>3, <1>5, <1>6, <1>7 DEF d, m

LEMMA GapShape ==
    ASSUME RegTyped, NEW p \in Mirrors, Register!Gap(p)
    PROVE  /\ pods' \in [Mirrors -> RegPod] /\ \A o \in Mirrors \ {p} : pods'[o] = pods[o]
           /\ pods[p].pc = "up" /\ pods'[p].pc = "seed"
           /\ pods'[p].listening => pods[p].listening /\ pods'[p].feed = pods[p].feed
           /\ pods'[p].installed = pods[p].installed /\ pods'[p].after = pods[p].after
           /\ pods'[p].mirror = pods[p].mirror
           /\ used' \in [asks : Nat, vers : Nat, sweeps : Nat, fails : Nat, gaps : Nat]
           /\ used'.vers = used.vers /\ used'.sweeps = used.sweeps /\ used'.fails = used.fails
           /\ UNCHANGED <<store, past, lock, asked, sweep, jobs>>
<1>1. pods[p].pc = "up"
  BY DEF Register!Gap
<1>2. PICK r \in RegPod :
        /\ pods' = [pods EXCEPT ![p] = r] /\ r.pc = "seed"
        /\ r.listening => pods[p].listening /\ r.feed = pods[p].feed
        /\ r.installed = pods[p].installed /\ r.after = pods[p].after /\ r.mirror = pods[p].mirror
        /\ UNCHANGED <<store, past, lock, asked, sweep, jobs>>
        /\ used' = used \/ used' = [used EXCEPT !.gaps = @ + 1]
  <2>1. pods[p] \in RegPod /\ pods[p].listening \in BOOLEAN
    BY PodOfMirrors
  <2>2. CASE pods[p].listening
    <3>1. used' = [used EXCEPT !.gaps = @ + 1]
      BY <2>2 DEF Register!Gap
    <3>2. CASE Register!SetPod(p, [pods[p] EXCEPT !.pc = "seed"])
      <4>. DEFINE r == [pods[p] EXCEPT !.pc = "seed"]
      <4>1. /\ pods' = [pods EXCEPT ![p] = r]
            /\ UNCHANGED <<store, past, lock, asked, sweep, jobs>>
        BY <3>2 DEF Register!SetPod
      <4>2. /\ r \in RegPod /\ r.pc = "seed" /\ r.feed = pods[p].feed
            /\ r.installed = pods[p].installed /\ r.after = pods[p].after
            /\ r.mirror = pods[p].mirror
        BY <2>1 DEF RegPod
      <4>. HIDE DEF r
      <4>. QED
        BY <2>2, <3>1, <4>1, <4>2
    <3>3. CASE Register!SetPod(p, [pods[p] EXCEPT !.pc = "seed", !.listening = FALSE,
                                                  !.feed = <<>>])
      <4>. DEFINE r == [pods[p] EXCEPT !.pc = "seed", !.listening = FALSE, !.feed = <<>>]
      <4>1. /\ pods' = [pods EXCEPT ![p] = r]
            /\ UNCHANGED <<store, past, lock, asked, sweep, jobs>>
        BY <3>3 DEF Register!SetPod
      <4>2. <<>> \in Seq(Delta)
        OBVIOUS
      <4>3. /\ r \in RegPod /\ r.pc = "seed" /\ r.listening = FALSE
            /\ r.installed = pods[p].installed /\ r.after = pods[p].after
            /\ r.mirror = pods[p].mirror
        BY <2>1, <4>2 DEF RegPod
      <4>. HIDE DEF r
      <4>. QED
        BY <3>1, <4>1, <4>3
    <3>. QED
      BY <2>2, <3>2, <3>3 DEF Register!Gap
  <2>3. CASE ~pods[p].listening
    <3>. DEFINE r == [pods[p] EXCEPT !.pc = "seed"]
    <3>1. /\ pods' = [pods EXCEPT ![p] = r] /\ used' = used
          /\ UNCHANGED <<store, past, lock, asked, sweep, jobs>>
      BY <2>3 DEF Register!Gap, Register!SetPod
    <3>2. /\ r \in RegPod /\ r.pc = "seed" /\ r.listening = pods[p].listening
          /\ r.installed = pods[p].installed /\ r.after = pods[p].after
          /\ r.mirror = pods[p].mirror
      BY <2>1 DEF RegPod
    <3>. HIDE DEF r
    <3>. QED
      BY <2>3, <3>1, <3>2
  <2>. QED
    BY <2>1, <2>2, <2>3
<1>3. /\ pods' \in [Mirrors -> RegPod] /\ pods'[p] = r
      /\ \A o \in Mirrors \ {p} : pods'[o] = pods[o]
  BY <1>2, PodSet
<1>4. /\ used' \in [asks : Nat, vers : Nat, sweeps : Nat, fails : Nat, gaps : Nat]
      /\ used'.vers = used.vers /\ used'.sweeps = used.sweeps /\ used'.fails = used.fails
  BY <1>2 DEF RegTyped
<1>. QED
  BY <1>1, <1>2, <1>3, <1>4

LEMMA LockShape ==
    ASSUME WellRegistered, RegTyped, NEW h \in Clients, Register!registration_write_lock(h)
    PROVE  /\ asked[h].pc = "lock" /\ asked[h].op # "delete" /\ lock[PodOf[h]] = Free
           /\ asked' \in [Clients -> Client] /\ lock' \in [Pods -> Clients \cup {Free}]
           /\ lock' = [lock EXCEPT ![PodOf[h]] = h]
           /\ asked'[h] = [asked[h] EXCEPT !.pc = "take"]
           /\ asked'[h].pc = "take" /\ asked'[h].id = asked[h].id /\ asked'[h].op = asked[h].op
           /\ asked'[h].after = asked[h].after /\ asked'[h].body = asked[h].body
           /\ \A g \in Clients \ {h} : asked'[g] = asked[g]
           /\ UNCHANGED <<store, past, sweep, jobs, pods, used>>
<1>1. /\ asked[h].pc = "lock" /\ lock[PodOf[h]] = Free /\ Register!Goes(h, "take")
      /\ lock' = [lock EXCEPT ![PodOf[h]] = h]
      /\ UNCHANGED <<store, past, sweep, jobs, pods, used>>
  BY DEF Register!registration_write_lock
<1>2. asked[h].op # "delete"
  BY <1>1, ClientOf DEF Engaged
<1>3. lock' \in [Pods -> Clients \cup {Free}]
  BY <1>1 DEF RegTyped
<1>4. Register!Goes(h, "take") /\ asked[h].pc \notin {"idle", "done"}
  BY <1>1
<1>. QED
  BY <1>1, <1>2, <1>3, <1>4, GoesShape

\* The read of the stored registration, and the removal of an expired one.
LEMMA TakeShape ==
    ASSUME WellRegistered, RegTyped, NEW h \in Clients, Register!take_live_registration(h)
    PROVE  /\ asked[h].pc = "take" /\ asked[h].id \in Ids /\ store[asked[h].id] \in MaybeRow
           /\ UNCHANGED <<store, past, sweep, jobs, pods, used>>
           /\ \/ Register!Taken(h, store[asked[h].id])
              \/ /\ lock' = lock /\ asked' \in [Clients -> Client]
                 /\ store[asked[h].id] # NoReg /\ Register!expired(store[asked[h].id])
                 /\ asked'[h].pc = "reap" /\ asked'[h].id = asked[h].id
                 /\ asked'[h].op = asked[h].op /\ asked'[h].after = asked[h].after
                 /\ asked'[h].body = asked[h].body
                 /\ \A g \in Clients \ {h} : asked'[g] = asked[g]
<1>. DEFINE found == store[asked[h].id]
<1>1. /\ asked[h].pc = "take" /\ UNCHANGED <<store, past, sweep, jobs, pods, used>>
      /\ IF found # NoReg /\ Register!expired(found)
         THEN Register!Goes(h, "reap") /\ UNCHANGED lock ELSE Register!Taken(h, found)
  BY DEF Register!take_live_registration
<1>2. asked[h].id \in Ids
  BY <1>1, ClientOf DEF Engaged
<1>3. found \in MaybeRow
  BY <1>2 DEF RegTyped
<1>. HIDE DEF found
<1>4. CASE found # NoReg /\ Register!expired(found)
  <2>1. Register!Goes(h, "reap") /\ lock' = lock
    BY <1>1, <1>4
  <2>2. Register!Goes(h, "reap") /\ asked[h].pc \notin {"idle", "done"}
    BY <1>1, <2>1
  <2>3. /\ asked' \in [Clients -> Client]
        /\ asked'[h].pc = "reap" /\ asked'[h].id = asked[h].id
        /\ asked'[h].op = asked[h].op /\ asked'[h].after = asked[h].after
        /\ asked'[h].body = asked[h].body
        /\ \A g \in Clients \ {h} : asked'[g] = asked[g]
    BY <2>2, GoesShape
  <2>. QED
    BY <1>1, <1>2, <1>3, <1>4, <2>1, <2>3 DEF found
<1>5. CASE ~(found # NoReg /\ Register!expired(found))
  BY <1>1, <1>2, <1>3, <1>5 DEF found
<1>. QED
  BY <1>4, <1>5

LEMMA ReapShape ==
    ASSUME WellRegistered, RegTyped, NEW h \in Clients, Register!Reap(h)
    PROVE  /\ asked[h].pc = "reap" /\ asked[h].id \in Ids /\ NoReg \in MaybeRow
           /\ store' = [store EXCEPT ![asked[h].id] = NoReg]
           /\ Register!Taken(h, NoReg)
           /\ UNCHANGED <<past, sweep, jobs, pods, used>>
<1>1. asked[h].pc = "reap"
  BY DEF Register!Reap
<1>2. asked[h].id \in Ids
  BY <1>1, ClientOf DEF Engaged
<1>. QED
  BY <1>1, <1>2 DEF Register!Reap, MaybeRow

\* The check against the entities.
LEMMA EntitiesShape ==
    ASSUME WellRegistered, RegTyped, NEW h \in Clients, Register!CheckEntities(h)
    PROVE  /\ asked[h].pc = "entities"
           /\ asked' \in [Clients -> Client] /\ lock' \in [Pods -> Clients \cup {Free}]
           /\ \A g \in Clients \ {h} : asked'[g] = asked[g]
           /\ UNCHANGED <<store, past, sweep, jobs, pods, used>>
           /\ \/ lock' = [lock EXCEPT ![PodOf[h]] = Free] /\ asked'[h].pc = "done"
              \/ /\ lock' = lock /\ asked'[h].pc = "overlap" /\ asked'[h].id = asked[h].id
                 /\ asked'[h].op = asked[h].op /\ asked'[h].after = asked[h].after
                 /\ asked'[h].body = asked[h].body /\ asked'[h].before = asked[h].before
<1>1. asked[h].pc = "entities" /\ UNCHANGED <<store, past, sweep, jobs, pods, used>>
  BY DEF Register!CheckEntities
<1>2. CASE Register!Refused(h, "conflict")
  <2>1. /\ asked' \in [Clients -> Client] /\ lock' \in [Pods -> Clients \cup {Free}]
        /\ lock' = [lock EXCEPT ![PodOf[h]] = Free] /\ asked'[h].pc = "done"
        /\ \A g \in Clients \ {h} : asked'[g] = asked[g]
    BY <1>2, RefusedShape
  <2>. QED
    BY <1>1, <2>1
<1>3. CASE ~Register!Refused(h, "conflict")
  <2>1. Register!Goes(h, "overlap") /\ lock' = lock
    BY <1>3 DEF Register!CheckEntities
  <2>2. /\ Register!Goes(h, "overlap")
        /\ asked[h].pc \notin {"idle", "done"} /\ asked[h].pc \in {"entities", "overlap"}
    BY <1>1, <2>1
  <2>3. /\ asked' \in [Clients -> Client]
        /\ asked'[h].pc = "overlap" /\ asked'[h].id = asked[h].id
        /\ asked'[h].op = asked[h].op /\ asked'[h].after = asked[h].after
        /\ asked'[h].body = asked[h].body /\ asked'[h].before = asked[h].before
        /\ \A g \in Clients \ {h} : asked'[g] = asked[g]
    BY <2>2, GoesShape
  <2>4. lock' \in [Pods -> Clients \cup {Free}]
    BY <2>1 DEF RegTyped
  <2>. QED
    BY <1>1, <2>1, <2>3, <2>4
<1>. QED
  BY <1>2, <1>3

LEMMA ExpireShape ==
    ASSUME RegTyped, NEW id \in Ids, Register!Expire(id)
    PROVE  /\ store[id] # NoReg /\ past' = past \cup {store[id].ver}
           /\ past' \in SUBSET (1..used.vers)
           /\ UNCHANGED <<store, lock, asked, sweep, jobs, pods, used>>
<1>1. /\ store[id] # NoReg /\ past' = past \cup {store[id].ver}
      /\ UNCHANGED <<store, lock, asked, sweep, jobs, pods, used>>
  BY DEF Register!Expire
<1>. QED
  BY <1>1 DEF RegTyped

LEMMA SweepPageShape ==
    ASSUME WellRegistered, RegTyped, Register!SweepPage
    PROVE  /\ sweep' \in [pc : {"idle", "walk", "reap"}, after : Cursor, dead : SUBSET Ids]
           /\ used' \in [asks : Nat, vers : Nat, sweeps : Nat, fails : Nat, gaps : Nat]
           /\ used'.vers = used.vers /\ used'.fails = used.fails
           /\ used'.sweeps = IF sweep.pc = "idle" THEN used.sweeps + 1 ELSE used.sweeps
           /\ UNCHANGED <<store, past, lock, asked, jobs, pods>>
<1>. DEFINE after == IF sweep.pc = "idle" THEN 0 ELSE sweep.after
            page == Register!Page(store, after)
            short == Register!Short(store, after)
            dead == (IF sweep.pc = "idle" THEN {} ELSE sweep.dead)
                    \cup {i \in page : Register!expired(store[i])}
<1>1. /\ sweep' = IF short
                  THEN [pc |-> IF dead = {} THEN "idle" ELSE "reap", after |-> 0, dead |-> dead]
                  ELSE [pc |-> "walk", after |-> Register!Furthest(page), dead |-> dead]
      /\ used' = IF sweep.pc = "idle" THEN [used EXCEPT !.sweeps = @ + 1] ELSE used
      /\ UNCHANGED <<store, past, lock, asked, jobs, pods>>
  BY DEF Register!SweepPage
<1>2. after \in Cursor /\ 0 \in Cursor
  BY DEF RegTyped, Cursor
<1>3. page \in SUBSET Ids /\ ~short => Register!Furthest(page) \in Cursor
  <2>. HIDE DEF after
  <2>. QED
    BY <1>2, PageOfRows
<1>4. page \in SUBSET Ids
  <2>. HIDE DEF after
  <2>. QED
    BY <1>2, PageOfRows
<1>. HIDE DEF page, short, after
<1>5. dead \in SUBSET Ids
  BY <1>4 DEF RegTyped
<1>. HIDE DEF dead
<1>6. sweep' \in [pc : {"idle", "walk", "reap"}, after : Cursor, dead : SUBSET Ids]
  <2>1. CASE short
    BY <1>1, <1>2, <1>5, <2>1
  <2>2. CASE ~short
    BY <1>1, <1>3, <1>4, <1>5, <2>2
  <2>. QED
    BY <2>1, <2>2
<1>7. /\ used' \in [asks : Nat, vers : Nat, sweeps : Nat, fails : Nat, gaps : Nat]
      /\ used'.vers = used.vers /\ used'.fails = used.fails
      /\ used'.sweeps = IF sweep.pc = "idle" THEN used.sweeps + 1 ELSE used.sweeps
  <2>1. used \in [asks : Nat, vers : Nat, sweeps : Nat, fails : Nat, gaps : Nat]
    BY DEF RegTyped
  <2>2. CASE sweep.pc = "idle"
    BY <1>1, <2>1, <2>2
  <2>3. CASE sweep.pc # "idle"
    BY <1>1, <2>1, <2>3
  <2>. QED
    BY <2>2, <2>3
<1>. QED
  BY <1>1, <1>6, <1>7

LEMMA SweepReapShape ==
    ASSUME RegTyped, NEW id \in Ids, Register!SweepReap(id)
    PROVE  /\ sweep.pc = "reap" /\ store' = [store EXCEPT ![id] = NoReg]
           /\ sweep' \in [pc : {"idle", "walk", "reap"}, after : Cursor, dead : SUBSET Ids]
           /\ UNCHANGED <<past, lock, asked, jobs, pods, used>>
<1>. DEFINE D == sweep.dead \ {id}
            P == IF sweep.dead = {id} THEN "idle" ELSE "reap"
<1>1. /\ sweep.pc = "reap" /\ store' = [store EXCEPT ![id] = NoReg]
      /\ sweep' = [sweep EXCEPT !.dead = D, !.pc = P]
      /\ UNCHANGED <<past, lock, asked, jobs, pods, used>>
  BY DEF Register!SweepReap
<1>2. /\ sweep \in [pc : {"idle", "walk", "reap"}, after : Cursor, dead : SUBSET Ids]
      /\ D \in SUBSET Ids /\ P \in {"idle", "walk", "reap"}
  BY DEF RegTyped
<1>. HIDE DEF D, P
<1>. QED
  BY <1>1, <1>2

LEMMA AskedMore ==
    ASSUME WellRegistered, RegTyped, NEW h \in Clients, NEW op, NEW id \in Ids, NEW body,
           Register!Ask(h, op, id, body)
    PROVE  /\ asked[h].pc \in {"idle", "done"} /\ (Patient => ~Register!Busy(id))
           /\ used' \in [asks : Nat, vers : Nat, sweeps : Nat, fails : Nat, gaps : Nat]
           /\ used'.vers = used.vers /\ used'.sweeps = used.sweeps /\ used'.fails = used.fails
           /\ UNCHANGED <<store, past, lock, sweep, jobs, pods>>
<1>1. /\ asked[h].pc \in {"idle", "done"} /\ (Patient => ~Register!Busy(id))
      /\ used' = [used EXCEPT !.asks = @ + 1]
      /\ UNCHANGED <<store, past, lock, sweep, jobs, pods>>
  BY DEF Register!Ask
<1>. QED
  BY <1>1 DEF RegTyped

LEMMA TypedInit ==
    ASSUME WellRegistered, Register!Init
    PROVE  RegTyped
<1>1. /\ store = [i \in Ids |-> NoReg] /\ past = {} /\ lock = [p \in Pods |-> Free]
      /\ asked = [h \in Clients |-> Register!Resting]
      /\ sweep = [pc |-> "idle", after |-> 0, dead |-> {}]
      /\ jobs = {} /\ pods = [p \in Mirrors |-> Register!Pod]
      /\ used = [asks |-> 0, vers |-> 0, sweeps |-> 0, fails |-> 0, gaps |-> 0]
  BY DEF Register!Init
<1>2. Register!Resting \in Client
  BY DEF Register!Resting, Client, RegClient, Engaged, MaybeRow, Cursor
<1>3. Register!Pod \in RegPod
  <2>1. Register!Empty \in Mirrored /\ <<>> \in Seq(Delta) /\ 0 \in Cursor
    BY EmptyMirrored DEF Cursor
  <2>. QED
    BY <2>1 DEF Register!Pod, RegPod
<1>4. 0 \in Cursor
  BY DEF Cursor
<1>. QED
  BY <1>1, <1>2, <1>3, <1>4 DEF RegTyped, MaybeRow

LEMMA TypedStep ==
    ASSUME WellRegistered, RegTyped, Register!Next \/ UNCHANGED regVars
    PROVE  RegTyped'
<1>1. ASSUME NEW h \in Clients, NEW id \in Ids, NEW op, NEW body, Register!Ask(h, op, id, body),
             \/ op = "create" /\ body \in Bodies
             \/ op = "update" /\ body \in Patches
             \/ op = "delete" /\ body = NoReg
      PROVE  RegTyped'
  <2>1. asked' \in [Clients -> Client]
    BY <1>1, AskShape
  <2>2. /\ used' \in [asks : Nat, vers : Nat, sweeps : Nat, fails : Nat, gaps : Nat]
        /\ used'.vers = used.vers
        /\ UNCHANGED <<store, past, lock, sweep, jobs, pods>>
    BY <1>1, AskedMore
  <2>. QED
    BY <2>1, <2>2 DEF RegTyped
<1>2. ASSUME NEW h \in Clients, Register!registration_write_lock(h)
      PROVE  RegTyped'
  <2>1. /\ asked' \in [Clients -> Client] /\ lock' \in [Pods -> Clients \cup {Free}]
        /\ UNCHANGED <<store, past, sweep, jobs, pods, used>>
    BY <1>2, LockShape
  <2>. QED
    BY <2>1, TypedMove
<1>3. ASSUME NEW h \in Clients, Register!take_live_registration(h)
      PROVE  RegTyped'
  <2>1. /\ asked[h].pc \in {"take", "reap"} /\ store[asked[h].id] \in MaybeRow
        /\ UNCHANGED <<store, past, sweep, jobs, pods, used>>
        /\ \/ Register!Taken(h, store[asked[h].id])
           \/ lock' = lock /\ asked' \in [Clients -> Client]
    BY <1>3, TakeShape
  <2>2. asked' \in [Clients -> Client] /\ lock' \in [Pods -> Clients \cup {Free}]
    <3>1. CASE Register!Taken(h, store[asked[h].id])
      BY <2>1, <3>1, TakenShape
    <3>2. CASE lock' = lock /\ asked' \in [Clients -> Client]
      BY <3>2 DEF RegTyped
    <3>. QED
      BY <2>1, <3>1, <3>2
  <2>. QED
    BY <2>1, <2>2, TypedMove
<1>4. ASSUME NEW h \in Clients, Register!Reap(h)
      PROVE  RegTyped'
  <2>1. /\ asked[h].pc \in {"take", "reap"} /\ NoReg \in MaybeRow
        /\ store' = [store EXCEPT ![asked[h].id] = NoReg] /\ Register!Taken(h, NoReg)
        /\ UNCHANGED <<past, sweep, jobs, pods, used>>
    BY <1>4, ReapShape
  <2>2. asked' \in [Clients -> Client] /\ lock' \in [Pods -> Clients \cup {Free}]
    BY <2>1, TakenShape
  <2>3. /\ store' \in [Ids -> MaybeRow]
        /\ \A i \in Ids : store'[i] # NoReg => store'[i].ver \in 1..used'.vers
    BY <2>1, StoreLoses
  <2>. QED
    BY <2>1, <2>2, <2>3 DEF RegTyped
<1>5. ASSUME NEW h \in Clients, Register!CheckEntities(h)
      PROVE  RegTyped'
  <2>1. /\ asked' \in [Clients -> Client] /\ lock' \in [Pods -> Clients \cup {Free}]
        /\ UNCHANGED <<store, past, sweep, jobs, pods, used>>
    BY <1>5, EntitiesShape
  <2>. QED
    BY <2>1, TypedMove
<1>6. ASSUME NEW h \in Clients, Register!check_proxied_overlap(h)
      PROVE  RegTyped'
  <2>1. asked' \in [Clients -> Client] /\ lock' \in [Pods -> Clients \cup {Free}]
    BY <1>6, OverlapShape
  <2>2. UNCHANGED <<store, past, sweep, jobs, pods, used>>
    BY <1>6 DEF Register!check_proxied_overlap
  <2>. QED
    BY <2>1, <2>2, TypedMove
<1>7. ASSUME NEW h \in Clients, Register!CreateRow(h)
      PROVE  RegTyped'
  <2>. DEFINE r == Register!Reg(asked[h].body, used.vers + 1)
  <2>1. /\ asked[h].id \in Ids /\ asked' \in [Clients -> Client]
        /\ lock' \in [Pods -> Clients \cup {Free}]
        /\ UNCHANGED <<past, sweep, jobs, pods>>
        /\ \/ UNCHANGED <<store, used>>
           \/ /\ r \in RegRow /\ store' = [store EXCEPT ![asked[h].id] = r]
              /\ used' = [used EXCEPT !.vers = @ + 1]
    BY <1>7, CreateShape
  <2>2. r.ver = used.vers + 1
    BY DEF Register!Reg
  <2>. HIDE DEF r
  <2>3. CASE UNCHANGED <<store, used>>
    BY <2>1, <2>3 DEF RegTyped
  <2>4. CASE ~(UNCHANGED <<store, used>>)
    <3>1. /\ store' \in [Ids -> MaybeRow] /\ past' \in SUBSET (1..used'.vers)
          /\ used' \in [asks : Nat, vers : Nat, sweeps : Nat, fails : Nat, gaps : Nat]
          /\ \A i \in Ids : store'[i] # NoReg => store'[i].ver \in 1..used'.vers
      BY <2>1, <2>2, <2>4, StoreGains
    <3>. QED
      BY <2>1, <3>1 DEF RegTyped
  <2>. QED
    BY <2>3, <2>4
<1>8. ASSUME NEW h \in Clients, Register!UpdateRow(h)
      PROVE  RegTyped'
  <2>. DEFINE r == Register!Reg(Register!Merged(store[asked[h].id], asked[h].body), used.vers + 1)
  <2>1. /\ asked[h].id \in Ids /\ asked' \in [Clients -> Client]
        /\ lock' \in [Pods -> Clients \cup {Free}]
        /\ UNCHANGED <<past, sweep, jobs, pods>>
        /\ \/ UNCHANGED <<store, used>>
           \/ /\ r \in RegRow /\ store' = [store EXCEPT ![asked[h].id] = r]
              /\ used' = [used EXCEPT !.vers = @ + 1]
    BY <1>8, UpdateShape
  <2>2. r.ver = used.vers + 1
    BY DEF Register!Reg
  <2>. HIDE DEF r
  <2>3. CASE UNCHANGED <<store, used>>
    BY <2>1, <2>3 DEF RegTyped
  <2>4. CASE ~(UNCHANGED <<store, used>>)
    <3>1. /\ store' \in [Ids -> MaybeRow] /\ past' \in SUBSET (1..used'.vers)
          /\ used' \in [asks : Nat, vers : Nat, sweeps : Nat, fails : Nat, gaps : Nat]
          /\ \A i \in Ids : store'[i] # NoReg => store'[i].ver \in 1..used'.vers
      BY <2>1, <2>2, <2>4, StoreGains
    <3>. QED
      BY <2>1, <3>1 DEF RegTyped
  <2>. QED
    BY <2>3, <2>4
<1>9. ASSUME NEW h \in Clients, Register!ReadAfter(h)
      PROVE  RegTyped'
  <2>1. asked' \in [Clients -> Client] /\ UNCHANGED <<store, past, lock, sweep, jobs, pods, used>>
    BY <1>9, ReadAfterShape
  <2>. QED
    BY <2>1 DEF RegTyped
<1>10. ASSUME NEW h \in Clients, Register!delete_registration(h)
       PROVE  RegTyped'
  <2>1. /\ asked' \in [Clients -> Client] /\ store' = [store EXCEPT ![asked[h].id] = NoReg]
        /\ UNCHANGED <<past, lock, sweep, jobs, pods, used>>
    BY <1>10, DeleteShape
  <2>2. /\ store' \in [Ids -> MaybeRow]
        /\ \A i \in Ids : store'[i] # NoReg => store'[i].ver \in 1..used'.vers
    BY <2>1, StoreLoses
  <2>. QED
    BY <2>1, <2>2 DEF RegTyped
<1>11. ASSUME NEW h \in Clients, Register!reg_changed(h)
       PROVE  RegTyped'
  <2>1. /\ asked' \in [Clients -> Client] /\ UNCHANGED <<store, past, lock, sweep, pods, used>>
        /\ \E t \in Job : jobs' = jobs \cup {t}
    BY <1>11, ChangedShape
  <2>2. jobs' \in SUBSET Job
    BY <2>1 DEF RegTyped
  <2>. QED
    BY <2>1, <2>2 DEF RegTyped
<1>12. ASSUME NEW id \in Ids, Register!Expire(id)
       PROVE  RegTyped'
  BY <1>12, ExpireShape DEF RegTyped
<1>13. ASSUME NEW id \in Ids, Register!SweepReap(id)
       PROVE  RegTyped'
  <2>1. /\ store' = [store EXCEPT ![id] = NoReg]
        /\ sweep' \in [pc : {"idle", "walk", "reap"}, after : Cursor, dead : SUBSET Ids]
        /\ UNCHANGED <<past, lock, asked, jobs, pods, used>>
    BY <1>13, SweepReapShape
  <2>2. /\ store' \in [Ids -> MaybeRow]
        /\ \A i \in Ids : store'[i] # NoReg => store'[i].ver \in 1..used'.vers
    BY <2>1, StoreLoses
  <2>. QED
    BY <2>1, <2>2 DEF RegTyped
<1>14. ASSUME Register!SweepPage
       PROVE  RegTyped'
  <2>1. /\ sweep' \in [pc : {"idle", "walk", "reap"}, after : Cursor, dead : SUBSET Ids]
        /\ used' \in [asks : Nat, vers : Nat, sweeps : Nat, fails : Nat, gaps : Nat]
        /\ used'.vers = used.vers /\ UNCHANGED <<store, past, lock, asked, jobs, pods>>
    BY <1>14, SweepPageShape
  <2>. QED
    BY <2>1 DEF RegTyped
<1>15. ASSUME NEW t \in jobs, Register!Publish(t)
       PROVE  RegTyped'
  <2>1. /\ pods' \in [Mirrors -> RegPod] /\ jobs' = jobs \ {t}
        /\ UNCHANGED <<store, past, lock, asked, sweep, used>>
    BY <1>15, PublishShape
  <2>. QED
    BY <2>1 DEF RegTyped
<1>16. ASSUME NEW t \in jobs, Register!PublishFails(t)
       PROVE  RegTyped'
  <2>1. /\ used' \in [asks : Nat, vers : Nat, sweeps : Nat, fails : Nat, gaps : Nat]
        /\ used'.vers = used.vers /\ UNCHANGED <<store, past, lock, asked, sweep, pods>>
        /\ jobs' = jobs \ {t} \/ \E u \in Job : jobs' = (jobs \ {t}) \cup {u}
    BY <1>16, PublishFailsShape
  <2>2. jobs' \in SUBSET Job
    BY <2>1 DEF RegTyped
  <2>. QED
    BY <2>1, <2>2 DEF RegTyped
<1>17. ASSUME NEW p \in Mirrors,
              \/ Register!Start(p) \/ Register!seed_mirror(p) \/ Register!SeedFails(p)
              \/ Register!Consume(p) \/ Register!Gap(p)
       PROVE  RegTyped'
  <2>1. /\ pods' \in [Mirrors -> RegPod]
        /\ used' \in [asks : Nat, vers : Nat, sweeps : Nat, fails : Nat, gaps : Nat]
        /\ used'.vers = used.vers /\ UNCHANGED <<store, past, lock, asked, sweep, jobs>>
    <3>1. CASE Register!Start(p)
      BY <3>1, StartShape DEF RegTyped
    <3>2. CASE Register!seed_mirror(p)
      BY <3>2, SeedShape DEF RegTyped
    <3>3. CASE Register!SeedFails(p)
      BY <3>3, SeedFailsShape
    <3>4. CASE Register!Consume(p)
      BY <3>4, ConsumeShape DEF RegTyped
    <3>5. CASE Register!Gap(p)
      BY <3>5, GapShape
    <3>. QED
      BY <1>17, <3>1, <3>2, <3>3, <3>4, <3>5
  <2>. QED
    BY <2>1 DEF RegTyped
<1>18. CASE UNCHANGED regVars
  BY <1>18 DEF RegTyped, regVars
<1>. QED
  BY <1>1, <1>2, <1>3, <1>4, <1>5, <1>6, <1>7, <1>8, <1>9, <1>10, <1>11, <1>12, <1>13, <1>14,
     <1>15, <1>16, <1>17, <1>18 DEF Register!Next, Register!Serve

\* Registry's types, for every instance: rows, versions, the lock and its
\* holders, what is published and what every pod has of it.
THEOREM RegistryTyped == ASSUME WellRegistered PROVE Register!Spec => []Register!TypeOK
<1>1. Register!Init => RegTyped
  BY TypedInit
<1>2. RegTyped /\ [Register!Next]_regVars => RegTyped'
  BY TypedStep
<1>3. RegTyped => Register!TypeOK
  <2>1. SUFFICES ASSUME RegTyped PROVE Register!TypeOK
    OBVIOUS
  <2>2. \A i \in Register!Present(store) : store[i].ver \in 1..used.vers
    BY <2>1 DEF RegTyped, Register!Present
  <2>3. \A h \in Clients : /\ asked[h].body \in Register!Bodyset
                           /\ asked[h].answer \in {"none", "ok", "bad", "conflict", "exists",
                                                   "missing"}
    BY <2>1, ClientOf DEF RegClient, Register!Bodyset
  <2>4. \A t \in jobs : t.left \in 1..Attempts
    BY <2>1 DEF RegTyped, Job
  <2>5. \A p \in Mirrors : DOMAIN pods[p].mirror.docs \subseteq Ids
    BY <2>1, PodOfMirrors DEF Mirrored, MirrorShape
  <2>. QED
    BY <2>1, <2>2, <2>3, <2>4, <2>5 DEF RegTyped, Register!TypeOK
<1>. QED
  BY <1>1, <1>2, <1>3, PTL DEF Register!Spec, Register!vars, regVars

\* mirror.rs, RegIndex: after any sequence of deltas and seeds, narrowing by type
\* and id drops no registration that 5.12 matches, whatever registrations say.
THEOREM NarrowingIsSound == ASSUME WellRegistered PROVE Register!Spec => []Register!PrefilterSound
<1>1. Register!Init => RegTyped
  BY TypedInit
<1>2. RegTyped /\ [Register!Next]_regVars => RegTyped'
  BY TypedStep
<1>3. RegTyped => Register!PrefilterSound
  BY PodOfMirrors, IndexNarrowsSoundly DEF Mirrored, Register!PrefilterSound
<1>. QED
  BY <1>1, <1>2, <1>3, PTL DEF Register!Spec, Register!vars, regVars

-----------------------------------------------------------------------------
(* The lock: no live registration stands in the way of an older one.       *)

\* Requests of one pod, whose lock tells them apart from nobody.
OnePod == Free \notin Clients /\ \A g, h \in Clients : PodOf[g] = PodOf[h]

\* A row that is gone, or that no request looks at any more.
Dying(id) == store[id] = NoReg \/ Register!expired(store[id])

\* Rows that only go, and time that only passes.
Fades == past \subseteq past' /\ \A i \in Ids : store'[i] \in {store[i], NoReg}

Holds(h) == /\ asked[h].op # "delete"
            /\ asked[h].pc \in {"take", "reap", "entities", "overlap", "write"}
Clear(h, j) == \/ asked[h].op = "update" /\ j = asked[h].id
               \/ Dying(j)
               \/ ~Register!Overlaps(Register!Candidate(h), store[j])

\* What a request knows of the store: the row it read is still there or gone, and
\* what its walk has passed is clear of it.
Handled(h) ==
    /\ asked[h].pc \in {"lock", "take", "reap", "entities"} => asked[h].after = 0
    /\ (asked[h].op = "update" /\ asked[h].pc \in {"entities", "overlap", "write"}) =>
          store[asked[h].id] \in {asked[h].before, NoReg}
    /\ asked[h].pc = "overlap" => \A j \in Ids : j <= asked[h].after => Clear(h, j)
    /\ (/\ asked[h].pc = "write" /\ asked[h].op # "delete"
        /\ asked[h].op = "update" => asked[h].before # NoReg) => \A j \in Ids : Clear(h, j)

\* What the lock keeps.
LaterClear ==
    \A i, j \in Ids :
        (i # j /\ ~Dying(i) /\ ~Dying(j) /\ store[i].ver > store[j].ver) =>
            ~Register!Overlaps(store[i], store[j])
Versioned ==
    \A i, j \in Ids : (i # j /\ store[i] # NoReg /\ store[j] # NoReg) => store[i].ver # store[j].ver

Exclusion == \A h \in Clients : Holds(h) => lock[PodOf[h]] = h

LockInv == RegTyped /\ Exclusion /\ (\A h \in Clients : Handled(h)) /\ LaterClear /\ Versioned

LEMMA DyingKept ==
    ASSUME RegTyped, Fades, NEW i \in Ids
    PROVE  /\ Dying(i) => Dying(i)'
           /\ ~Dying(i)' => ~Dying(i) /\ store'[i] = store[i]
BY DEF Dying, Fades, Register!expired

LEMMA RowsKept ==
    ASSUME RegTyped, LaterClear, Versioned, Fades
    PROVE  LaterClear' /\ Versioned'
<1>1. ASSUME NEW i \in Ids, NEW j \in Ids, i # j, ~Dying(i)', ~Dying(j)',
             store'[i].ver > store'[j].ver
      PROVE  ~Register!Overlaps(store'[i], store'[j])
  <2>1. ~Dying(i) /\ ~Dying(j) /\ store'[i] = store[i] /\ store'[j] = store[j]
    BY <1>1, DyingKept
  <2>. QED
    BY <1>1, <2>1 DEF LaterClear
<1>2. Versioned'
  BY DEF Versioned, Fades
<1>. QED
  BY <1>1, <1>2 DEF LaterClear

\* A request that does not move knows as much of a store that only loses rows.
LEMMA HandledKept ==
    ASSUME WellRegistered, RegTyped, NEW h \in Clients, Handled(h), asked'[h] = asked[h], Fades
    PROVE  Handled(h)'
<1>1. Register!Candidate(h)' = Register!Candidate(h)
  BY DEF Register!Candidate, Register!Merged
<1>2. ASSUME NEW j \in Ids, Clear(h, j)
      PROVE  Clear(h, j)'
  <2>1. CASE Dying(j)'
    BY <2>1 DEF Clear
  <2>2. CASE ~Dying(j)'
    <3>1. ~Dying(j) /\ store'[j] = store[j]
      BY <2>2, DyingKept
    <3>. QED
      BY <1>1, <1>2, <3>1 DEF Clear
  <2>. QED
    BY <2>1, <2>2
<1>3. (asked[h].op = "update" /\ asked[h].pc \in {"entities", "overlap", "write"}) =>
        store'[asked[h].id] \in {asked[h].before, NoReg}
  <2>1. SUFFICES ASSUME asked[h].op = "update", asked[h].pc \in {"entities", "overlap", "write"}
                 PROVE  store'[asked[h].id] \in {asked[h].before, NoReg}
    OBVIOUS
  <2>2. asked[h].id \in Ids
    BY <2>1, ClientOf DEF Engaged
  <2>. QED
    BY <2>1, <2>2 DEF Handled, Fades
<1>. QED
  BY <1>2, <1>3 DEF Handled

\* Outside the lock a request knows nothing that a write could spoil.
LEMMA HandledOutside ==
    ASSUME WellRegistered, RegTyped, NEW h \in Clients, Handled(h), asked'[h] = asked[h], ~Holds(h)
    PROVE  Handled(h)'
<1>1. /\ asked[h].pc # "overlap"
      /\ asked[h].pc \in {"entities", "write"} => asked[h].op = "delete"
  BY ClientOf DEF Holds, Engaged
<1>. QED
  BY <1>1 DEF Handled

LEMMA HoldsAlone ==
    ASSUME OnePod, Exclusion, NEW h \in Clients, Holds(h)
    PROVE  \A g \in Clients \ {h} : ~Holds(g)
BY DEF OnePod, Exclusion

LEMMA ExclusionKept ==
    ASSUME WellRegistered, OnePod, RegTyped, Exclusion, NEW h \in Clients,
           \A g \in Clients \ {h} : asked'[g] = asked[g],
           \/ lock' = lock /\ (Holds(h)' => Holds(h))
           \/ lock' = [lock EXCEPT ![PodOf[h]] = Free] /\ Holds(h) /\ ~Holds(h)'
    PROVE  Exclusion'
<1>1. \A g \in Clients \ {h} : Holds(g)' = Holds(g)
  BY DEF Holds
<1>2. CASE lock' = lock /\ (Holds(h)' => Holds(h))
  BY <1>1, <1>2 DEF Exclusion
<1>3. CASE lock' = [lock EXCEPT ![PodOf[h]] = Free] /\ Holds(h) /\ ~Holds(h)'
  <2>1. \A g \in Clients : ~Holds(g)'
    BY <1>1, <1>3, HoldsAlone
  <2>. QED
    BY <2>1 DEF Exclusion
<1>. QED
  BY <1>2, <1>3

\* The steps of a request that write nothing: what the handler knows of its place.
LEMMA AskHandled ==
    ASSUME WellRegistered, RegTyped, NEW h \in Clients, NEW id \in Ids, NEW op, NEW body,
           \/ op = "create" /\ body \in Bodies
           \/ op = "update" /\ body \in Patches
           \/ op = "delete" /\ body = NoReg,
           Register!Ask(h, op, id, body)
    PROVE  Handled(h)' /\ ~Holds(h)' /\ lock' = lock /\ Fades
<1>1. /\ asked'[h].op = op /\ asked'[h].pc = (IF op = "delete" THEN "take" ELSE "lock")
      /\ asked'[h].after = 0
  BY AskShape
<1>2. UNCHANGED <<store, past, lock>>
  BY AskedMore
<1>. QED
  BY <1>1, <1>2 DEF Handled, Holds, Fades

LEMMA TakenHandled ==
    ASSUME WellRegistered, OnePod, LockInv, NEW h \in Clients, NEW found \in MaybeRow,
           asked[h].pc \in {"take", "reap"}, Register!Taken(h, found),
           store'[asked[h].id] = found
    PROVE  Handled(h)' /\ Exclusion'
<1>1. /\ \A g \in Clients \ {h} : asked'[g] = asked[g]
      /\ \/ /\ lock' = [lock EXCEPT ![PodOf[h]] = Free] /\ asked'[h].pc = "done"
            /\ asked[h].op = "update"
         \/ /\ lock' = lock
            /\ asked'[h].id = asked[h].id /\ asked'[h].op = asked[h].op
            /\ asked'[h].body = asked[h].body /\ asked'[h].before = found
            /\ asked'[h].after = asked[h].after
            /\ asked'[h].pc =
                 IF asked[h].op = "delete" \/ (asked[h].op = "update" /\ found = NoReg)
                 THEN "write" ELSE "entities"
  BY TakenShape DEF LockInv
<1>2. asked[h].after = 0
  BY DEF LockInv, Handled
<1>3. Handled(h)'
  BY <1>1, <1>2 DEF Handled
<1>4. \/ lock' = lock /\ (Holds(h)' => Holds(h))
      \/ lock' = [lock EXCEPT ![PodOf[h]] = Free] /\ Holds(h) /\ ~Holds(h)'
  BY <1>1 DEF Holds
<1>5. Exclusion'
  BY <1>1, <1>4, ExclusionKept DEF LockInv
<1>. QED
  BY <1>3, <1>5

\* A page of the walk: behind it nothing stands in the way.
LEMMA OverlapHandled ==
    ASSUME WellRegistered, OnePod, LockInv, NEW h \in Clients, Register!check_proxied_overlap(h)
    PROVE  Handled(h)' /\ Exclusion'
<1>1. /\ asked[h].pc = "overlap" /\ UNCHANGED <<store, past, sweep, jobs, pods, used>>
  BY DEF Register!check_proxied_overlap
<1>2. asked[h] \in RegClient /\ asked[h].op # "delete"
  BY <1>1, ClientOf DEF LockInv, Engaged
<1>. DEFINE page == Register!Page(store, asked[h].after)
            short == Register!Short(store, asked[h].after)
            far == Register!Furthest(page)
<1>3. /\ \A g \in Clients \ {h} : asked'[g] = asked[g]
      /\ \/ lock' = [lock EXCEPT ![PodOf[h]] = Free] /\ asked'[h].pc = "done"
         \/ /\ lock' = lock
            /\ asked'[h].id = asked[h].id /\ asked'[h].op = asked[h].op
            /\ asked'[h].body = asked[h].body /\ asked'[h].before = asked[h].before
            /\ IF short THEN asked'[h].pc = "write" /\ asked'[h].after = asked[h].after
               ELSE asked'[h].pc = "overlap" /\ asked'[h].after = far
            /\ \A i \in page : \/ asked[h].op = "update" /\ i = asked[h].id
                               \/ Register!expired(store[i])
                               \/ ~Register!Overlaps(Register!Candidate(h), store[i])
  BY OverlapShape DEF LockInv
<1>4. asked[h].after \in Cursor
  BY <1>2 DEF RegClient
<1>5. /\ \A i \in Ids : store[i] # NoReg /\ i > asked[h].after => i \in page \/ ~short
      /\ \A i \in Ids : (~short /\ store[i] # NoReg /\ i > asked[h].after /\ i <= far) => i \in page
  BY <1>4, PageShape
<1>6. \A i \in Ids : i \in Int /\ asked[h].after \in Int
  BY <1>4 DEF WellRegistered, Cursor
<1>. HIDE DEF page, short, far
<1>7. CASE lock' = [lock EXCEPT ![PodOf[h]] = Free] /\ asked'[h].pc = "done"
  <2>1. Handled(h)'
    BY <1>7 DEF Handled
  <2>2. Holds(h) /\ ~Holds(h)'
    BY <1>1, <1>2, <1>7 DEF Holds
  <2>. QED
    BY <1>3, <1>7, <2>1, <2>2, ExclusionKept DEF LockInv
<1>8. CASE ~(lock' = [lock EXCEPT ![PodOf[h]] = Free] /\ asked'[h].pc = "done")
  <2>1. Register!Candidate(h)' = Register!Candidate(h)
    BY <1>3, <1>8 DEF Register!Candidate, Register!Merged
  <2>2. ASSUME NEW j \in Ids, Clear(h, j)
        PROVE  Clear(h, j)'
    BY <1>1, <1>3, <1>8, <2>1, <2>2 DEF Clear, Dying, Register!expired
  <2>3. ASSUME NEW j \in page
        PROVE  Clear(h, j)
    BY <1>3, <1>8, <2>3 DEF Clear, Dying
  <2>4. \A j \in Ids : j <= asked[h].after => Clear(h, j)
    BY <1>1 DEF LockInv, Handled
  <2>5. \A j \in Ids : store[j] = NoReg => Clear(h, j)
    BY DEF Clear, Dying
  <2>6. \A j \in Ids : (short \/ j <= far) => Clear(h, j)
    BY <1>5, <1>6, <2>3, <2>4, <2>5
  <2>7. Handled(h)'
    <3>1. asked'[h].op = "update" => store'[asked'[h].id] \in {asked'[h].before, NoReg}
      BY <1>1, <1>3, <1>8 DEF LockInv, Handled
    <3>2. asked'[h].pc = "overlap" => \A j \in Ids : j <= asked'[h].after => Clear(h, j)'
      BY <1>3, <1>8, <2>2, <2>6
    <3>3. asked'[h].pc = "write" => \A j \in Ids : Clear(h, j)'
      BY <1>3, <1>8, <2>2, <2>6
    <3>4. asked'[h].pc \in {"overlap", "write"}
      BY <1>3, <1>8
    <3>. QED
      BY <3>1, <3>2, <3>3, <3>4 DEF Handled
  <2>8. Holds(h)
    BY <1>1, <1>2 DEF Holds
  <2>. QED
    BY <1>3, <1>8, <2>7, <2>8, ExclusionKept DEF LockInv
<1>. QED
  BY <1>7, <1>8

\* The write: the new row is clear of every live row, and later than all of them.
LEMMA WrittenClear ==
    ASSUME WellRegistered, LockInv, NEW id \in Ids, NEW kept \in RegRow,
           kept.ver = used.vers + 1, store' = [store EXCEPT ![id] = kept], past' = past,
           \A j \in Ids \ {id} : Dying(j) \/ ~Register!Overlaps(kept, store[j])
    PROVE  LaterClear' /\ Versioned'
<1>1. /\ store'[id] = kept /\ \A i \in Ids \ {id} : store'[i] = store[i]
      /\ used.vers \in Nat
      /\ \A i \in Ids : store[i] # NoReg => store[i].ver \in 1..used.vers
  BY DEF LockInv, RegTyped
<1>2. \A i \in Ids \ {id} : Dying(i)' = Dying(i)
  BY <1>1 DEF Dying, Register!expired
<1>3. \A i \in Ids \ {id} : store[i] # NoReg => store[i].ver < kept.ver
  BY <1>1
<1>4. ASSUME NEW i \in Ids, NEW j \in Ids, i # j, ~Dying(i)', ~Dying(j)',
             store'[i].ver > store'[j].ver
      PROVE  ~Register!Overlaps(store'[i], store'[j])
  <2>1. CASE i = id
    BY <1>1, <1>2, <1>4, <2>1
  <2>2. CASE j = id
    <3>1. store[i] # NoReg
      BY <1>2, <1>4, <2>2 DEF Dying
    <3>2. store[i].ver < kept.ver /\ store[i].ver > kept.ver /\ store[i].ver \in Int
      BY <1>1, <1>3, <1>4, <2>2, <3>1
    <3>. QED
      BY <1>1, <3>2
  <2>3. CASE i # id /\ j # id
    BY <1>1, <1>2, <1>4, <2>3 DEF LockInv, LaterClear
  <2>. QED
    BY <2>1, <2>2, <2>3
<1>5. ASSUME NEW i \in Ids, NEW j \in Ids, i # j, store'[i] # NoReg, store'[j] # NoReg
      PROVE  store'[i].ver # store'[j].ver
  <2>1. CASE i = id
    <3>1. store[j].ver < kept.ver /\ store[j].ver \in Int /\ store'[j] = store[j]
      BY <1>1, <1>3, <1>5, <2>1
    <3>. QED
      BY <1>1, <2>1, <3>1
  <2>2. CASE j = id
    <3>1. store[i].ver < kept.ver /\ store[i].ver \in Int /\ store'[i] = store[i]
      BY <1>1, <1>3, <1>5, <2>2
    <3>. QED
      BY <1>1, <2>2, <3>1
  <2>3. CASE i # id /\ j # id
    BY <1>1, <1>5, <2>3 DEF LockInv, Versioned
  <2>. QED
    BY <2>1, <2>2, <2>3
<1>. QED
  BY <1>4, <1>5 DEF LaterClear, Versioned

LEMMA SameClaims ==
    ASSUME NEW b, NEW c, NEW o, b.mode = c.mode, b.infos = c.infos
    PROVE  Register!Overlaps(b, o) = Register!Overlaps(c, o)
BY DEF Register!Overlaps

LEMMA CreateClear ==
    ASSUME WellRegistered, OnePod, LockInv, NEW h \in Clients, Register!CreateRow(h)
    PROVE  Exclusion' /\ (\A g \in Clients : Handled(g)') /\ LaterClear' /\ Versioned'
<1>. DEFINE id == asked[h].id
            kept == Register!Reg(asked[h].body, used.vers + 1)
<1>1. /\ asked[h].pc = "write" /\ asked[h].op = "create" /\ id \in Ids
      /\ \A g \in Clients \ {h} : asked'[g] = asked[g]
      /\ lock' = [lock EXCEPT ![PodOf[h]] = Free] /\ past' = past
      /\ \/ asked'[h].pc = "done" /\ UNCHANGED <<store, used>>
         \/ /\ kept \in RegRow /\ store' = [store EXCEPT ![id] = kept]
            /\ asked'[h].pc = "publish"
  BY CreateShape DEF LockInv
<1>2. kept.ver = used.vers + 1 /\ kept.mode = asked[h].body.mode /\ kept.infos = asked[h].body.infos
  BY DEF Register!Reg
<1>. HIDE DEF id, kept
<1>3. Holds(h) /\ ~Holds(h)' /\ Handled(h)'
  BY <1>1 DEF Holds, Handled
<1>4. \A g \in Clients \ {h} : ~Holds(g)
  BY <1>3, HoldsAlone DEF LockInv
<1>5. \A g \in Clients : Handled(g)'
  BY <1>1, <1>3, <1>4, HandledOutside DEF LockInv
<1>6. Exclusion'
  BY <1>1, <1>3, ExclusionKept DEF LockInv
<1>7. LaterClear' /\ Versioned'
  <2>1. CASE UNCHANGED <<store, used>>
    <3>1. Fades
      BY <1>1, <2>1 DEF Fades
    <3>. QED
      BY <3>1, RowsKept DEF LockInv
  <2>2. CASE kept \in RegRow /\ store' = [store EXCEPT ![id] = kept]
    <3>1. ASSUME NEW j \in Ids \ {id}
          PROVE  Dying(j) \/ ~Register!Overlaps(kept, store[j])
      <4>1. Clear(h, j) /\ Register!Candidate(h) = asked[h].body
        BY <1>1 DEF LockInv, Handled, Register!Candidate
      <4>2. Register!Overlaps(kept, store[j]) = Register!Overlaps(asked[h].body, store[j])
        BY <1>2, SameClaims
      <4>. QED
        BY <1>1, <4>1, <4>2 DEF Clear
    <3>. QED
      BY <1>1, <1>2, <2>2, <3>1, WrittenClear
  <2>. QED
    BY <1>1, <2>1, <2>2
<1>. QED
  BY <1>5, <1>6, <1>7

LEMMA UpdateClear ==
    ASSUME WellRegistered, OnePod, LockInv, NEW h \in Clients, Register!UpdateRow(h)
    PROVE  Exclusion' /\ (\A g \in Clients : Handled(g)') /\ LaterClear' /\ Versioned'
<1>. DEFINE id == asked[h].id
            body == Register!Merged(store[id], asked[h].body)
            kept == Register!Reg(body, used.vers + 1)
<1>1. /\ asked[h].pc = "write" /\ asked[h].op = "update" /\ id \in Ids
      /\ \A g \in Clients \ {h} : asked'[g] = asked[g]
      /\ lock' = [lock EXCEPT ![PodOf[h]] = Free] /\ past' = past
      /\ \/ asked'[h].pc = "done" /\ UNCHANGED <<store, used>>
         \/ /\ store[id] # NoReg /\ kept \in RegRow /\ store' = [store EXCEPT ![id] = kept]
            /\ asked'[h].pc = "after"
  BY UpdateShape DEF LockInv
<1>2. kept.ver = used.vers + 1 /\ kept.mode = body.mode /\ kept.infos = body.infos
  BY DEF Register!Reg
<1>3. store[id] \in {asked[h].before, NoReg}
  BY <1>1 DEF LockInv, Handled
<1>4. Register!Candidate(h) = Register!Merged(asked[h].before, asked[h].body)
  BY <1>1 DEF Register!Candidate
<1>5. store[id] # NoReg => Register!Candidate(h) = body
  BY <1>3, <1>4
<1>. HIDE DEF body, kept
<1>6. Holds(h) /\ ~Holds(h)' /\ Handled(h)'
  BY <1>1 DEF Holds, Handled
<1>7. \A g \in Clients \ {h} : ~Holds(g)
  BY <1>6, HoldsAlone DEF LockInv
<1>8. \A g \in Clients : Handled(g)'
  BY <1>1, <1>6, <1>7, HandledOutside DEF LockInv
<1>9. Exclusion'
  BY <1>1, <1>6, ExclusionKept DEF LockInv
<1>10. LaterClear' /\ Versioned'
  <2>1. CASE UNCHANGED <<store, used>>
    <3>1. Fades
      BY <1>1, <2>1 DEF Fades
    <3>. QED
      BY <3>1, RowsKept DEF LockInv
  <2>2. CASE store[id] # NoReg /\ kept \in RegRow /\ store' = [store EXCEPT ![id] = kept]
    <3>1. ASSUME NEW j \in Ids \ {id}
          PROVE  Dying(j) \/ ~Register!Overlaps(kept, store[j])
      <4>1. asked[h].before # NoReg
        BY <1>3, <2>2
      <4>2. Clear(h, j)
        BY <1>1, <4>1 DEF LockInv, Handled
      <4>3. Register!Overlaps(kept, store[j]) = Register!Overlaps(body, store[j])
        BY <1>2, SameClaims
      <4>. QED
        BY <1>5, <2>2, <4>2, <4>3 DEF Clear
    <3>. QED
      BY <1>1, <1>2, <2>2, <3>1, WrittenClear
  <2>. QED
    BY <1>1, <2>1, <2>2
<1>. QED
  BY <1>8, <1>9, <1>10

\* What keeps the invariant: one request moves and its place is accounted for, and
\* the store at most loses rows.
LEMMA LockMoves ==
    ASSUME WellRegistered, LockInv, RegTyped', NEW h \in Clients, Handled(h)', Exclusion', Fades,
           \A g \in Clients \ {h} : asked'[g] = asked[g]
    PROVE  LockInv'
<1>1. \A g \in Clients \ {h} : Handled(g)'
  BY HandledKept DEF LockInv
<1>2. LaterClear' /\ Versioned'
  BY RowsKept DEF LockInv
<1>. QED
  BY <1>1, <1>2 DEF LockInv

LEMMA LockRests ==
    ASSUME WellRegistered, LockInv, RegTyped', Fades, UNCHANGED <<lock, asked>>
    PROVE  LockInv'
<1>1. \A g \in Clients : Handled(g)'
  BY HandledKept DEF LockInv
<1>2. LaterClear' /\ Versioned'
  BY RowsKept DEF LockInv
<1>3. Exclusion'
  BY DEF LockInv, Exclusion, Holds
<1>. QED
  BY <1>1, <1>2, <1>3 DEF LockInv

LEMMA LockStep ==
    ASSUME WellRegistered, OnePod, LockInv, Register!Next \/ UNCHANGED regVars
    PROVE  LockInv'
<1>1. RegTyped /\ RegTyped'
  BY TypedStep DEF LockInv
<1>2. ASSUME NEW h \in Clients, NEW id \in Ids, NEW op, NEW body, Register!Ask(h, op, id, body),
             \/ op = "create" /\ body \in Bodies
             \/ op = "update" /\ body \in Patches
             \/ op = "delete" /\ body = NoReg
      PROVE  LockInv'
  <2>1. Handled(h)' /\ ~Holds(h)' /\ lock' = lock /\ Fades
    BY <1>1, <1>2, AskHandled
  <2>2. \A g \in Clients \ {h} : asked'[g] = asked[g]
    BY <1>1, <1>2, AskShape
  <2>3. Exclusion'
    BY <1>1, <2>1, <2>2, ExclusionKept DEF LockInv
  <2>. QED
    BY <1>1, <2>1, <2>2, <2>3, LockMoves
<1>3. ASSUME NEW h \in Clients, Register!registration_write_lock(h)
      PROVE  LockInv'
  <2>1. /\ asked[h].pc = "lock" /\ lock[PodOf[h]] = Free
        /\ lock' = [lock EXCEPT ![PodOf[h]] = h]
        /\ asked'[h].pc = "take" /\ asked'[h].after = asked[h].after
        /\ \A g \in Clients \ {h} : asked'[g] = asked[g]
        /\ UNCHANGED <<store, past, sweep, jobs, pods, used>>
    BY <1>1, <1>3, LockShape
  <2>2. asked[h].after = 0
    BY <2>1 DEF LockInv, Handled
  <2>3. Handled(h)'
    BY <2>1, <2>2 DEF Handled
  <2>4. \A g \in Clients : ~Holds(g)
    BY <2>1 DEF LockInv, Exclusion, OnePod
  <2>5. \A g \in Clients \ {h} : ~Holds(g)'
    BY <2>1, <2>4 DEF Holds
  <2>6. lock'[PodOf[h]] = h
    BY <1>1, <2>1, ClientOf
  <2>7. Exclusion'
    BY <2>5, <2>6 DEF Exclusion
  <2>8. Fades
    BY <2>1 DEF Fades
  <2>. QED
    BY <1>1, <2>1, <2>3, <2>7, <2>8, LockMoves
<1>4. ASSUME NEW h \in Clients, Register!take_live_registration(h)
      PROVE  LockInv'
  <2>1. /\ asked[h].pc = "take" /\ asked[h].id \in Ids /\ store[asked[h].id] \in MaybeRow
        /\ UNCHANGED <<store, past, sweep, jobs, pods, used>>
        /\ \/ Register!Taken(h, store[asked[h].id])
           \/ /\ lock' = lock /\ asked'[h].pc = "reap"
              /\ asked'[h].op = asked[h].op /\ asked'[h].after = asked[h].after
              /\ \A g \in Clients \ {h} : asked'[g] = asked[g]
    BY <1>1, <1>4, TakeShape
  <2>2. Fades
    BY <2>1 DEF Fades
  <2>3. Handled(h)' /\ Exclusion' /\ \A g \in Clients \ {h} : asked'[g] = asked[g]
    <3>1. CASE Register!Taken(h, store[asked[h].id])
      <4>1. asked[h].pc \in {"take", "reap"} /\ store'[asked[h].id] = store[asked[h].id]
        BY <2>1
      <4>2. Handled(h)' /\ Exclusion'
        BY <2>1, <3>1, <4>1, TakenHandled
      <4>3. \A g \in Clients \ {h} : asked'[g] = asked[g]
        BY <1>1, <2>1, <3>1, <4>1, TakenShape
      <4>. QED
        BY <4>2, <4>3
    <3>2. CASE ~Register!Taken(h, store[asked[h].id])
      <4>1. asked[h].after = 0
        BY <2>1 DEF LockInv, Handled
      <4>2. Handled(h)'
        BY <2>1, <3>2, <4>1 DEF Handled
      <4>3. Holds(h)' => Holds(h)
        BY <2>1, <3>2 DEF Holds
      <4>4. Exclusion'
        BY <1>1, <2>1, <3>2, <4>3, ExclusionKept DEF LockInv
      <4>. QED
        BY <2>1, <3>2, <4>2, <4>4
    <3>. QED
      BY <3>1, <3>2
  <2>. QED
    BY <1>1, <2>2, <2>3, LockMoves
<1>5. ASSUME NEW h \in Clients, Register!Reap(h)
      PROVE  LockInv'
  <2>1. /\ asked[h].pc \in {"take", "reap"} /\ asked[h].id \in Ids /\ NoReg \in MaybeRow
        /\ store' = [store EXCEPT ![asked[h].id] = NoReg]
        /\ Register!Taken(h, NoReg)
        /\ UNCHANGED <<past, sweep, jobs, pods, used>>
    BY <1>1, <1>5, ReapShape
  <2>2. \A i \in Ids : store'[i] = IF i = asked[h].id THEN NoReg ELSE store[i]
    BY <1>1, <2>1, StoreLoses
  <2>3. Fades
    BY <2>1, <2>2 DEF Fades
  <2>4. Handled(h)' /\ Exclusion'
    BY <2>1, <2>2, TakenHandled
  <2>5. \A g \in Clients \ {h} : asked'[g] = asked[g]
    BY <1>1, <2>1, TakenShape
  <2>. QED
    BY <1>1, <2>3, <2>4, <2>5, LockMoves
<1>6. ASSUME NEW h \in Clients, Register!CheckEntities(h)
      PROVE  LockInv'
  <2>1. /\ asked[h].pc = "entities"
        /\ \A g \in Clients \ {h} : asked'[g] = asked[g]
        /\ UNCHANGED <<store, past, sweep, jobs, pods, used>>
        /\ \/ lock' = [lock EXCEPT ![PodOf[h]] = Free] /\ asked'[h].pc = "done"
           \/ /\ lock' = lock /\ asked'[h].pc = "overlap" /\ asked'[h].id = asked[h].id
              /\ asked'[h].op = asked[h].op /\ asked'[h].after = asked[h].after
              /\ asked'[h].before = asked[h].before
    BY <1>1, <1>6, EntitiesShape
  <2>2. Fades /\ Holds(h)
    <3>1. asked[h].op # "delete"
      BY <1>1, <2>1, ClientOf DEF Engaged
    <3>. QED
      BY <2>1, <3>1 DEF Fades, Holds
  <2>3. /\ asked[h].after = 0
        /\ asked[h].op = "update" => store[asked[h].id] \in {asked[h].before, NoReg}
    BY <2>1 DEF LockInv, Handled
  <2>4. \A j \in Ids : ~(j <= 0)
    BY DEF WellRegistered
  <2>5. Handled(h)'
    BY <2>1, <2>3, <2>4 DEF Handled
  <2>6. \/ lock' = lock /\ (Holds(h)' => Holds(h))
        \/ lock' = [lock EXCEPT ![PodOf[h]] = Free] /\ Holds(h) /\ ~Holds(h)'
    BY <2>1, <2>2 DEF Holds
  <2>7. Exclusion'
    BY <1>1, <2>1, <2>6, ExclusionKept DEF LockInv
  <2>. QED
    BY <1>1, <2>1, <2>2, <2>5, <2>7, LockMoves
<1>7. ASSUME NEW h \in Clients, Register!check_proxied_overlap(h)
      PROVE  LockInv'
  <2>1. /\ \A g \in Clients \ {h} : asked'[g] = asked[g]
        /\ UNCHANGED <<store, past, sweep, jobs, pods, used>>
    BY <1>1, <1>7, OverlapShape DEF Register!check_proxied_overlap
  <2>2. Fades
    BY <2>1 DEF Fades
  <2>. QED
    BY <1>1, <1>7, <2>1, <2>2, OverlapHandled, LockMoves
<1>8. ASSUME NEW h \in Clients, Register!CreateRow(h) \/ Register!UpdateRow(h)
      PROVE  LockInv'
  BY <1>1, <1>8, CreateClear, UpdateClear DEF LockInv
<1>9. ASSUME NEW h \in Clients, Register!ReadAfter(h) \/ Register!reg_changed(h)
      PROVE  LockInv'
  <2>1. /\ \A g \in Clients \ {h} : asked'[g] = asked[g]
        /\ asked'[h].pc \in {"publish", "done"}
        /\ UNCHANGED <<store, past, lock>>
    BY <1>1, <1>9, ReadAfterShape, ChangedShape
  <2>2. Handled(h)' /\ ~Holds(h)' /\ Fades
    BY <2>1 DEF Handled, Holds, Fades
  <2>3. Exclusion'
    BY <1>1, <2>1, <2>2, ExclusionKept DEF LockInv
  <2>. QED
    BY <1>1, <2>1, <2>2, <2>3, LockMoves
<1>10. ASSUME NEW h \in Clients, Register!delete_registration(h)
       PROVE  LockInv'
  <2>1. /\ \A g \in Clients \ {h} : asked'[g] = asked[g]
        /\ asked'[h].pc \in {"publish", "done"}
        /\ store' = [store EXCEPT ![asked[h].id] = NoReg] /\ UNCHANGED <<past, lock, used>>
    BY <1>1, <1>10, DeleteShape
  <2>2. \A i \in Ids : store'[i] = IF i = asked[h].id THEN NoReg ELSE store[i]
    BY <1>1, <2>1, StoreLoses
  <2>3. Handled(h)' /\ ~Holds(h)' /\ Fades
    BY <2>1, <2>2 DEF Handled, Holds, Fades
  <2>4. Exclusion'
    BY <1>1, <2>1, <2>3, ExclusionKept DEF LockInv
  <2>. QED
    BY <1>1, <2>1, <2>3, <2>4, LockMoves
<1>11. ASSUME NEW id \in Ids, Register!Expire(id) \/ Register!SweepReap(id)
       PROVE  LockInv'
  <2>1. UNCHANGED <<lock, asked>>
    BY <1>1, <1>11, ExpireShape, SweepReapShape
  <2>2. CASE Register!Expire(id)
    <3>1. Fades
      BY <1>1, <2>2, ExpireShape DEF Fades
    <3>. QED
      BY <1>1, <2>1, <3>1, LockRests
  <2>3. CASE Register!SweepReap(id)
    <3>1. store' = [store EXCEPT ![id] = NoReg] /\ used'.vers = used.vers /\ past' = past
      BY <1>1, <2>3, SweepReapShape
    <3>2. \A i \in Ids : store'[i] = IF i = id THEN NoReg ELSE store[i]
      BY <1>1, <3>1, StoreLoses
    <3>3. Fades
      BY <3>1, <3>2 DEF Fades
    <3>. QED
      BY <1>1, <2>1, <3>3, LockRests
  <2>. QED
    BY <1>11, <2>2, <2>3
<1>12. ASSUME \/ Register!SweepPage
              \/ \E t \in jobs : Register!Publish(t) \/ Register!PublishFails(t)
              \/ \E p \in Mirrors : \/ Register!Start(p) \/ Register!seed_mirror(p)
                                    \/ Register!SeedFails(p) \/ Register!Consume(p)
                                    \/ Register!Gap(p)
              \/ UNCHANGED regVars
       PROVE  LockInv'
  <2>1. UNCHANGED <<store, past, lock, asked>>
    <3>1. CASE Register!SweepPage
      BY <3>1 DEF Register!SweepPage
    <3>2. CASE \E t \in jobs : Register!Publish(t) \/ Register!PublishFails(t)
      BY <3>2 DEF Register!Publish, Register!PublishFails
    <3>3. CASE \E p \in Mirrors : \/ Register!Start(p) \/ Register!seed_mirror(p)
                                  \/ Register!SeedFails(p) \/ Register!Consume(p)
                                  \/ Register!Gap(p)
      BY <3>3 DEF Register!Start, Register!seed_mirror, Register!SeedFails, Register!Consume,
                  Register!Gap, Register!SetPod
    <3>4. CASE UNCHANGED regVars
      BY <3>4 DEF regVars
    <3>. QED
      BY <1>12, <3>1, <3>2, <3>3, <3>4
  <2>2. Fades
    BY <2>1 DEF Fades
  <2>. QED
    BY <1>1, <2>1, <2>2, LockRests
<1>. QED
  BY <1>2, <1>3, <1>4, <1>5, <1>6, <1>7, <1>8, <1>9, <1>10, <1>11, <1>12
     DEF Register!Next, Register!Serve

LEMMA LockInit ==
    ASSUME WellRegistered, Register!Init
    PROVE  LockInv
<1>1. RegTyped
  BY TypedInit
<1>2. /\ \A i \in Ids : store[i] = NoReg
      /\ \A h \in Clients : asked[h].pc = "idle"
  BY DEF Register!Init, Register!Resting
<1>. QED
  BY <1>1, <1>2 DEF LockInv, Exclusion, Holds, Handled, LaterClear, Versioned, Dying

\* REGISTRATION_WRITE, check_proxied_overlap: however the creates and updates of one pod
\* interleave with deletes, expiries and the collector, no live registration claims
\* what an older live one does, in the direction the check asks about.
THEOREM LaterStandsClear ==
    ASSUME WellRegistered, OnePod
    PROVE  Register!Spec => []LaterClear
<1>1. Register!Init => LockInv
  BY LockInit
<1>2. LockInv /\ [Register!Next]_regVars => LockInv'
  BY LockStep
<1>3. LockInv => LaterClear
  BY DEF LockInv
<1>. QED
  BY <1>1, <1>2, <1>3, PTL DEF Register!Spec, Register!vars, regVars

\* Registrations of which every RegistrationInfo names everything, or one EntityInfo.
OneSelector ==
    \A s \in InfoSets : \A i \in s :
        i.ents = Every \/ \E n : i.ents = {n} /\ n.types # {}

\* An EntityInfo asked about by another, and the other way round.
LEMMA HitsBack ==
    ASSUME NEW i, NEW k, NEW n, NEW m, i.ents = {n}, k.ents = {m}, {n} # Every, {m} # Every,
           n.types # {}, m.types # {}, Register!Hits(i, m)
    PROVE  Register!Hits(k, n)
<1>1. \A x : x.ids = {} => Register!is_pattern(x) \/ x.ids = Every
  <2>1. ASSUME NEW x, x.ids = {}, x.ids # Every
        PROVE  Register!is_pattern(x)
    <3>1. Register!Cardinality(x.ids) = 0
      BY <2>1, RegisterCounts, FS_EmptySet
    <3>. QED
      BY <2>1, <3>1 DEF Register!is_pattern
  <2>. QED
    BY <2>1
<1>2. ASSUME NEW j, NEW a, NEW b, j.ents = {a}, {a} # Every
      PROVE  Register!Hits(j, b) =
               (/\ \/ b.ids = Every
                   \/ a.ids = Every
                   \/ Register!is_pattern(a) /\ Register!is_pattern(b)
                   \/ a.ids \cap b.ids # {}
                /\ a.types = {} \/ a.types = Every \/ b.types = Every \/ a.types \cap b.types # {})
  <2>. DEFINE ids == UNION {x.ids : x \in {y \in j.ents : y.ids # Every /\ ~Register!is_pattern(y)}}
              patterns == {x \in j.ents : Register!is_pattern(x)}
              first == IF patterns = {} THEN {} ELSE {CHOOSE x \in patterns : TRUE}
              types == UNION {x.types : x \in {y \in j.ents : y.types # Every}}
  <2>1. Register!Hits(j, b) =
          (/\ \/ b.ids = Every
              \/ ids \cap b.ids # {}
              \/ \E x \in first : Register!is_pattern(b) \/ x.ids \cap b.ids # {}
              \/ ids = {} /\ patterns = {}
           /\ types = {} \/ b.types = Every \/ types \cap b.types # {})
    BY <1>2 DEF Register!Hits
  <2>2. types = IF a.types = Every THEN {} ELSE a.types
    BY <1>2
  <2>3. Register!is_pattern(a) => patterns = {a} /\ first = {a} /\ ids = {} /\ a.ids # Every
    BY <1>2 DEF Register!is_pattern
  <2>4. ~Register!is_pattern(a) => patterns = {} /\ first = {}
    BY <1>2
  <2>5. ~Register!is_pattern(a) => ids = IF a.ids = Every THEN {} ELSE a.ids
    BY <1>2
  <2>6. ~Register!is_pattern(a) /\ a.ids = {} => a.ids = Every
    BY <1>1
  <2>. HIDE DEF ids, patterns, first, types
  <2>7. (types = {} \/ b.types = Every \/ types \cap b.types # {}) =
        (a.types = {} \/ a.types = Every \/ b.types = Every \/ a.types \cap b.types # {})
    BY <2>2
  <2>8. CASE Register!is_pattern(a)
    BY <2>1, <2>3, <2>7, <2>8
  <2>9. CASE ~Register!is_pattern(a)
    BY <2>1, <2>4, <2>5, <2>6, <2>7, <2>9
  <2>. QED
    BY <2>8, <2>9
<1>3. Register!Hits(i, m) =
        (/\ \/ m.ids = Every
            \/ n.ids = Every
            \/ Register!is_pattern(n) /\ Register!is_pattern(m)
            \/ n.ids \cap m.ids # {}
         /\ n.types = {} \/ n.types = Every \/ m.types = Every \/ n.types \cap m.types # {})
  BY <1>2
<1>4. Register!Hits(k, n) =
        (/\ \/ n.ids = Every
            \/ m.ids = Every
            \/ Register!is_pattern(m) /\ Register!is_pattern(n)
            \/ m.ids \cap n.ids # {}
         /\ m.types = {} \/ m.types = Every \/ n.types = Every \/ m.types \cap n.types # {})
  BY <1>2
<1>. QED
  BY <1>3, <1>4

\* A RegistrationInfo without EntityInfos asks for everything.
LEMMA HitsAll ==
    ASSUME NEW i, NEW m, i.ents = Every
    PROVE  Register!Hits(i, m)
BY DEF Register!Hits

LEMMA OverlapsBack ==
    ASSUME OneSelector, NEW r \in RegRow, NEW s \in RegRow, Register!Overlaps(r, s)
    PROVE  Register!Overlaps(s, r)
<1>1. /\ r.mode \in Register!Proxying /\ Register!guarded(r.mode, s.mode)
      /\ r.infos \in InfoSets /\ s.infos \in InfoSets
  BY DEF RegRow, Register!Overlaps
<1>2. s.mode \in Register!Proxying /\ Register!guarded(s.mode, r.mode)
  BY <1>1 DEF Register!guarded, Register!Proxying
<1>3. PICK i \in r.infos, k \in s.infos :
        /\ k.ents = Every \/ \E m \in k.ents : Register!Hits(i, m)
        /\ k.attrs = Every \/ i.attrs = Every \/ i.attrs \cap k.attrs # {}
  BY DEF Register!Overlaps, Register!Matches
<1>4. i.ents = Every \/ \E n : i.ents = {n} /\ n.types # {}
  BY <1>1 DEF OneSelector
<1>5. k.ents = Every \/ \E m : k.ents = {m} /\ m.types # {}
  BY <1>1 DEF OneSelector
<1>6. i.ents = Every \/ \E n \in i.ents : Register!Hits(k, n)
  <2>1. SUFFICES ASSUME i.ents # Every PROVE \E n \in i.ents : Register!Hits(k, n)
    OBVIOUS
  <2>2. PICK n : i.ents = {n} /\ n.types # {}
    BY <1>4, <2>1
  <2>3. CASE k.ents = Every
    BY <2>2, <2>3, HitsAll
  <2>4. CASE k.ents # Every
    <3>1. PICK m : k.ents = {m} /\ m.types # {}
      BY <1>5, <2>4
    <3>2. Register!Hits(i, m)
      BY <1>3, <2>4, <3>1
    <3>3. {n} # Every /\ {m} # Every
      BY <2>1, <2>2, <2>4, <3>1
    <3>4. Register!Hits(k, n)
      BY <2>2, <3>1, <3>2, <3>3, HitsBack
    <3>. QED
      BY <2>2, <3>4
  <2>. QED
    BY <2>3, <2>4
<1>7. i.attrs = Every \/ k.attrs = Every \/ k.attrs \cap i.attrs # {}
  BY <1>3
<1>8. Register!Matches(k, r)
  BY <1>6, <1>7 DEF Register!Matches
<1>. QED
  BY <1>2, <1>8 DEF Register!Overlaps

\* ExclusiveAlone, for every number of requests, of registrations and of rows to a
\* page, when a RegistrationInfo has one EntityInfo: what the check does not find
\* one way round it would not find the other way round.
THEOREM ProxiedStandAlone ==
    ASSUME WellRegistered, OnePod, OneSelector
    PROVE  Register!Spec => []Register!ExclusiveAlone
<1>1. Register!Init => LockInv
  BY LockInit
<1>2. LockInv /\ [Register!Next]_regVars => LockInv'
  BY LockStep
<1>3. LockInv => Register!ExclusiveAlone
  <2>1. SUFFICES ASSUME LockInv, NEW i \in Ids, NEW j \in Ids, i # j, ~Dying(i), ~Dying(j),
                        Register!Overlaps(store[i], store[j])
                 PROVE  FALSE
    BY DEF Register!ExclusiveAlone, Register!Present, Dying
  <2>2. store[i] \in RegRow /\ store[j] \in RegRow
    BY <2>1 DEF LockInv, RegTyped, MaybeRow, Dying
  <2>3. store[i].ver \in Nat /\ store[j].ver \in Nat /\ store[i].ver # store[j].ver
    BY <2>1, <2>2 DEF LockInv, Versioned, Dying, RegRow
  <2>4. CASE store[i].ver > store[j].ver
    BY <2>1, <2>4 DEF LockInv, LaterClear
  <2>5. CASE store[j].ver > store[i].ver
    BY <2>1, <2>2, <2>5, OverlapsBack DEF LockInv, LaterClear
  <2>. QED
    BY <2>3, <2>4, <2>5
<1>. QED
  BY <1>1, <1>2, <1>3, PTL DEF Register!Spec, Register!vars, regVars

-----------------------------------------------------------------------------
(* The mirrors: what is published and what a pod holds.                    *)

\* A client writes an id again when its last write has been answered and published,
\* and fewer steps fail than a publication has attempts.
Unhurried == Patient /\ MaxFails < Attempts

\* What r says of id is what the store holds, or held before the row was
\* collected or reaped.
Says(r, id) ==
    /\ store[id] \in {r, NoReg}
    /\ used.sweeps = 0 => store[id] = r \/ (r # NoReg /\ Register!expired(r))

InHand(h) == asked[h].pc \notin {"idle", "done"}
OneHandlerWrites ==
    /\ \A g, h \in Clients : (g # h /\ InHand(g) /\ InHand(h)) => asked[g].id # asked[h].id
    /\ \A h \in Clients, t \in jobs : InHand(h) => asked[h].id # t.id
    /\ \A t, u \in jobs : t.id = u.id => t = u

\* Nothing about id is still to be published.
Quiet(id) ==
    /\ \A h \in Clients : asked[h].pc \in {"after", "publish"} => asked[h].id # id
    /\ \A t \in jobs : t.id # id

\* The last delta about id in p's feed, and the mirror when there is none.
FeedSays(p, id) ==
    \A k \in DOMAIN pods[p].feed :
        (/\ pods[p].feed[k].id = id
         /\ \A m \in DOMAIN pods[p].feed : m > k => pods[p].feed[m].id # id) =>
            Says(pods[p].feed[k].row, id)
Unfed(p, id) == \A k \in DOMAIN pods[p].feed : pods[p].feed[k].id # id
Agrees(p, id) ==
    /\ (store[id] # NoReg /\ (pods[p].installed \/ id <= pods[p].after)) =>
          id \in DOMAIN pods[p].mirror.docs /\ pods[p].mirror.docs[id] = store[id]
    /\ (used.sweeps = 0 /\ id \in DOMAIN pods[p].mirror.docs) =>
          \/ pods[p].mirror.docs[id] = store[id]
          \/ Register!expired(pods[p].mirror.docs[id])

Informed(p) ==
    \A id \in Ids : Quiet(id) => FeedSays(p, id) /\ (Unfed(p, id) => Agrees(p, id))
PodInv(p) ==
    /\ pods[p].pc # "seed" => pods[p].after = 0
    /\ pods[p].pc = "down" =>
          /\ ~pods[p].listening /\ ~pods[p].installed /\ pods[p].feed = <<>>
          /\ DOMAIN pods[p].mirror.docs = {}
    /\ pods[p].listening => Informed(p)

Placed(h) ==
    /\ asked[h].pc = "publish" => Says(asked[h].row, asked[h].id)
    /\ asked[h].pc = "reap" => Dying(asked[h].id)
Kept(t) == Says(t.row, t.id) /\ t.left + used.fails >= Attempts

MirrorInv ==
    /\ RegTyped
    /\ OneHandlerWrites
    /\ \A h \in Clients : Placed(h)
    /\ \A t \in jobs : Kept(t)
    /\ sweep.pc = "idle" \/ used.sweeps > 0
    /\ \A p \in Mirrors : PodInv(p)

\* The row of id stays, or goes because it has expired or something was collected.
Wanes(id) ==
    /\ past \subseteq past' /\ used.sweeps <= used'.sweeps
    /\ \/ store'[id] = store[id]
       \/ store'[id] = NoReg /\ (used'.sweeps > 0 \/ Dying(id))

LEMMA SweepsCounted ==
    ASSUME RegTyped, RegTyped'
    PROVE  used.sweeps \in Nat /\ used'.sweeps \in Nat /\ used.fails \in Nat /\ used'.fails \in Nat
BY DEF RegTyped

LEMMA SaysKept ==
    ASSUME RegTyped, RegTyped', NEW r, NEW id \in Ids, Says(r, id), Wanes(id)
    PROVE  Says(r, id)'
<1>1. used'.sweeps = 0 => used.sweeps = 0
  BY SweepsCounted DEF Wanes
<1>2. store'[id] \in {r, NoReg}
  BY DEF Says, Wanes
<1>3. ASSUME used'.sweeps = 0
      PROVE  store'[id] = r \/ (r # NoReg /\ Register!expired(r)')
  <2>1. store[id] = r \/ (r # NoReg /\ Register!expired(r))
    BY <1>1, <1>3 DEF Says
  <2>2. CASE r # NoReg /\ Register!expired(r)
    BY <2>2 DEF Wanes, Register!expired
  <2>3. CASE store[id] = r
    BY <1>3, <2>3, SweepsCounted DEF Wanes, Dying, Register!expired
  <2>. QED
    BY <2>1, <2>2, <2>3
<1>. QED
  BY <1>2, <1>3 DEF Says

LEMMA PlacedKept ==
    ASSUME RegTyped, RegTyped', NEW h \in Clients, Placed(h), asked'[h] = asked[h],
           InHand(h) => asked[h].id \in Ids /\ Wanes(asked[h].id)
    PROVE  Placed(h)'
<1>1. asked[h].pc = "publish" => Says(asked[h].row, asked[h].id)'
  <2>1. SUFFICES ASSUME asked[h].pc = "publish" PROVE Says(asked[h].row, asked[h].id)'
    OBVIOUS
  <2>2. Says(asked[h].row, asked[h].id) /\ asked[h].id \in Ids /\ Wanes(asked[h].id)
    BY <2>1 DEF Placed, InHand
  <2>. DEFINE id == asked[h].id
              r == asked[h].row
  <2>3. asked'[h].row = r /\ asked'[h].id = id
    OBVIOUS
  <2>4. Says(r, id) /\ id \in Ids /\ Wanes(id)
    BY <2>2
  <2>5. /\ used'.sweeps = 0 => used.sweeps = 0
        /\ store'[id] \in {r, NoReg}
        /\ used'.sweeps = 0 => store'[id] = r \/ (r # NoReg /\ r.ver \in past')
    <3>. HIDE DEF id, r
    <3>. QED
      BY <2>4, SweepsCounted DEF Says, Wanes, Dying, Register!expired
  <2>. QED
    BY <2>3, <2>5 DEF Says, Register!expired
<1>2. asked[h].pc = "reap" => Dying(asked[h].id)'
  BY DEF Placed, InHand, Wanes, Dying, Register!expired
<1>. QED
  BY <1>1, <1>2 DEF Placed

LEMMA AgreesKept ==
    ASSUME RegTyped, RegTyped', NEW p \in Mirrors, NEW id \in Ids, Agrees(p, id), Wanes(id),
           pods'[p].mirror = pods[p].mirror, pods'[p].installed = pods[p].installed,
           pods'[p].after = pods[p].after
    PROVE  Agrees(p, id)'
<1>1. (store'[id] # NoReg /\ (pods'[p].installed \/ id <= pods'[p].after)) =>
        id \in DOMAIN pods'[p].mirror.docs /\ pods'[p].mirror.docs[id] = store'[id]
  BY DEF Agrees, Wanes
<1>2. ASSUME used'.sweeps = 0, id \in DOMAIN pods'[p].mirror.docs
      PROVE  \/ pods'[p].mirror.docs[id] = store'[id]
             \/ Register!expired(pods[p].mirror.docs[id])'
  <2>1. used.sweeps = 0
    BY <1>2, SweepsCounted DEF Wanes
  <2>2. \/ pods[p].mirror.docs[id] = store[id]
        \/ Register!expired(pods[p].mirror.docs[id])
    BY <1>2, <2>1 DEF Agrees
  <2>3. CASE Register!expired(pods[p].mirror.docs[id])
    BY <2>3 DEF Register!expired, Wanes
  <2>4. CASE pods[p].mirror.docs[id] = store[id]
    <3>1. CASE store'[id] = store[id]
      BY <2>4, <3>1
    <3>2. CASE store'[id] = NoReg /\ Dying(id)
      BY <2>4, <3>2 DEF Dying, Wanes, Register!expired
    <3>. QED
      BY <1>2, <3>1, <3>2, SweepsCounted DEF Wanes
  <2>. QED
    BY <2>2, <2>3, <2>4
<1>. QED
  BY <1>1, <1>2 DEF Agrees

\* A feed that does not change says as much of a row that wanes.
LEMMA FeedKept ==
    ASSUME RegTyped, RegTyped', NEW p \in Mirrors, NEW id \in Ids, FeedSays(p, id), Wanes(id),
           pods'[p].feed = pods[p].feed
    PROVE  FeedSays(p, id)'
<1>1. ASSUME NEW k \in DOMAIN pods'[p].feed, pods'[p].feed[k].id = id,
             \A m \in DOMAIN pods'[p].feed : m > k => pods'[p].feed[m].id # id
      PROVE  Says(pods[p].feed[k].row, id)'
  <2>1. Says(pods[p].feed[k].row, id)
    BY <1>1 DEF FeedSays
  <2>2. PICK r : r = pods[p].feed[k].row
    OBVIOUS
  <2>3. Says(r, id)'
    BY <2>1, <2>2, SaysKept
  <2>. QED
    BY <2>2, <2>3 DEF Says, Register!expired
<1>. QED
  BY <1>1 DEF FeedSays

LEMMA PodKept ==
    ASSUME RegTyped, RegTyped', NEW p \in Mirrors, PodInv(p), pods'[p] = pods[p],
           \A id \in Ids : Quiet(id)' => Quiet(id) /\ Wanes(id)
    PROVE  PodInv(p)'
<1>1. ASSUME pods[p].listening, NEW id \in Ids, Quiet(id)'
      PROVE  FeedSays(p, id)' /\ (Unfed(p, id)' => Agrees(p, id)')
  <2>1. Quiet(id) /\ Wanes(id)
    BY <1>1
  <2>2. FeedSays(p, id) /\ (Unfed(p, id) => Agrees(p, id))
    BY <1>1, <2>1 DEF PodInv, Informed
  <2>3. FeedSays(p, id)'
    BY <2>1, <2>2, FeedKept
  <2>4. Unfed(p, id)' => Unfed(p, id)
    BY DEF Unfed
  <2>5. Unfed(p, id)' => Agrees(p, id)'
    BY <2>1, <2>2, <2>4, AgreesKept
  <2>. QED
    BY <2>3, <2>5
<1>2. Informed(p)' = (\A id \in Ids : Quiet(id)' => FeedSays(p, id)' /\ (Unfed(p, id)' => Agrees(p, id)'))
  BY DEF Informed
<1>3. pods'[p].listening => Informed(p)'
  BY <1>1, <1>2
<1>. QED
  BY <1>3 DEF PodInv

\* A row that does not move wanes.
LEMMA WanesStill ==
    ASSUME RegTyped, NEW id \in Ids, past \subseteq past', used'.sweeps = used.sweeps,
           store'[id] = store[id]
    PROVE  Wanes(id)
BY DEF Wanes, RegTyped

\* One request moves: it owns up to what it does to its row, and the rest stands.
LEMMA RequestMoves ==
    ASSUME WellRegistered, MirrorInv, RegTyped', NEW h \in Clients, InHand(h),
           \A g \in Clients \ {h} : asked'[g] = asked[g],
           InHand(h)' => asked'[h].id = asked[h].id,
           Placed(h)',
           UNCHANGED <<past, sweep, jobs, pods>>,
           used'.sweeps = used.sweeps, used'.fails = used.fails,
           \A id \in Ids \ {asked[h].id} : store'[id] = store[id],
           asked'[h].pc \in {"after", "publish"} \/ Wanes(asked[h].id),
           asked[h].pc \in {"after", "publish"} => asked'[h].pc \in {"after", "publish"}
    PROVE  MirrorInv'
<1>1. RegTyped /\ asked[h].id \in Ids
  BY ClientOf DEF MirrorInv, Engaged, InHand
<1>2. \A id \in Ids \ {asked[h].id} : Wanes(id)
  BY <1>1, WanesStill
<1>3. \A g \in Clients \ {h} : InHand(g) => asked[g].id \in Ids /\ asked[g].id # asked[h].id
  BY <1>1, ClientOf DEF MirrorInv, OneHandlerWrites, Engaged, InHand
<1>4. \A g \in Clients : Placed(g)'
  <2>1. \A g \in Clients \ {h} : InHand(g) => asked[g].id \in Ids /\ Wanes(asked[g].id)
    BY <1>2, <1>3
  <2>2. \A g \in Clients \ {h} : Placed(g)'
    BY <1>1, <2>1, PlacedKept DEF MirrorInv
  <2>. QED
    BY <2>2
<1>5. ASSUME NEW t \in jobs
      PROVE  Kept(t)'
  <2>1. t.id \in Ids /\ t.id # asked[h].id
    BY <1>1 DEF MirrorInv, OneHandlerWrites, RegTyped, Job
  <2>2. Says(t.row, t.id) /\ Wanes(t.id)
    BY <1>2, <2>1 DEF MirrorInv, Kept
  <2>3. Says(t.row, t.id)'
    BY <1>1, <2>1, <2>2, SaysKept
  <2>. QED
    BY <2>3 DEF MirrorInv, Kept
<1>6. OneHandlerWrites'
  <2>1. \A g \in Clients : InHand(g)' => InHand(g) /\ asked'[g].id = asked[g].id
    BY DEF InHand
  <2>. QED
    BY <2>1 DEF MirrorInv, OneHandlerWrites
<1>7. ASSUME NEW id \in Ids, Quiet(id)'
      PROVE  Quiet(id) /\ Wanes(id)
  <2>1. \A g \in Clients : asked[g].pc \in {"after", "publish"} =>
                             asked'[g].pc \in {"after", "publish"} /\ asked'[g].id = asked[g].id
    BY DEF InHand
  <2>2. Quiet(id)
    BY <1>7, <2>1 DEF Quiet
  <2>3. Wanes(id)
    <3>1. CASE id = asked[h].id
      <4>1. asked'[h].pc \in {"after", "publish"} => asked'[h].id = id
        BY <3>1 DEF InHand
      <4>. QED
        BY <1>7, <3>1, <4>1 DEF Quiet
    <3>. QED
      BY <1>2, <3>1
  <2>. QED
    BY <2>2, <2>3
<1>8. \A p \in Mirrors : PodInv(p)'
  BY <1>1, <1>7, PodKept DEF MirrorInv
<1>9. (sweep.pc = "idle" \/ used.sweeps > 0)'
  BY DEF MirrorInv
<1>. QED
  BY <1>4, <1>5, <1>6, <1>8, <1>9 DEF MirrorInv

\* Nobody's request moves, nothing is published and rows at most wane.
LEMMA StoreRests ==
    ASSUME WellRegistered, MirrorInv, RegTyped', UNCHANGED <<asked, jobs, pods>>,
           used'.fails = used.fails, \A id \in Ids : Wanes(id),
           sweep'.pc = "idle" \/ used'.sweeps > 0
    PROVE  MirrorInv'
<1>1. RegTyped
  BY DEF MirrorInv
<1>2. \A g \in Clients : Placed(g)'
  <2>1. \A g \in Clients : InHand(g) => asked[g].id \in Ids /\ Wanes(asked[g].id)
    BY <1>1, ClientOf DEF Engaged, InHand
  <2>. QED
    BY <1>1, <2>1, PlacedKept DEF MirrorInv
<1>3. ASSUME NEW t \in jobs
      PROVE  Kept(t)'
  <2>1. t.id \in Ids /\ Says(t.row, t.id) /\ t.left + used.fails >= Attempts
    BY <1>1 DEF MirrorInv, RegTyped, Job, Kept
  <2>2. Says(t.row, t.id)'
    BY <1>1, <2>1, SaysKept
  <2>. QED
    BY <2>1, <2>2 DEF Kept
<1>4. OneHandlerWrites'
  BY DEF MirrorInv, OneHandlerWrites, InHand
<1>5. \A id \in Ids : Quiet(id)' => Quiet(id)
  BY DEF Quiet
<1>6. \A p \in Mirrors : PodInv(p)'
  BY <1>1, <1>5, PodKept DEF MirrorInv
<1>. QED
  BY <1>2, <1>3, <1>4, <1>6 DEF MirrorInv

\* A pod moves by itself: nothing it is told of changes.
LEMMA PodMoves ==
    ASSUME WellRegistered, MirrorInv, RegTyped', NEW p \in Mirrors, PodInv(p)',
           \A o \in Mirrors \ {p} : pods'[o] = pods[o],
           UNCHANGED <<store, past, lock, asked, sweep, jobs>>,
           used'.sweeps = used.sweeps, used'.fails >= used.fails
    PROVE  MirrorInv'
<1>1. RegTyped
  BY DEF MirrorInv
<1>2. \A id \in Ids : Wanes(id) /\ (Quiet(id)' => Quiet(id))
  BY <1>1, WanesStill DEF Quiet
<1>3. \A g \in Clients : Placed(g)'
  <2>1. \A g \in Clients : InHand(g) => asked[g].id \in Ids
    BY <1>1, ClientOf DEF Engaged, InHand
  <2>. QED
    BY <1>1, <1>2, <2>1, PlacedKept DEF MirrorInv
<1>4. ASSUME NEW t \in jobs
      PROVE  Kept(t)'
  <2>1. t.id \in Ids /\ t.left \in Int /\ Says(t.row, t.id) /\ t.left + used.fails >= Attempts
    BY <1>1 DEF MirrorInv, RegTyped, Job, Kept
  <2>2. Says(t.row, t.id)'
    BY <1>1, <1>2, <2>1, SaysKept
  <2>3. t.left + used'.fails >= Attempts
    <3>1. used.fails \in Int /\ used'.fails \in Int
      BY <1>1, SweepsCounted
    <3>2. Attempts \in Int
      BY DEF WellRegistered
    <3>. QED
      BY <2>1, <3>1, <3>2
  <2>. QED
    BY <2>2, <2>3 DEF Kept
<1>5. OneHandlerWrites' /\ (sweep.pc = "idle" \/ used.sweeps > 0)'
  BY DEF MirrorInv, OneHandlerWrites, InHand
<1>6. \A o \in Mirrors \ {p} : PodInv(o)'
  BY <1>1, <1>2, PodKept DEF MirrorInv
<1>. QED
  BY <1>3, <1>4, <1>5, <1>6 DEF MirrorInv

LEMMA StartKept ==
    ASSUME WellRegistered, MirrorInv, RegTyped', NEW p \in Mirrors, Register!Start(p)
    PROVE  PodInv(p)'
<1>1. /\ pods[p].pc = "down" /\ pods'[p].pc = "seed"
      /\ pods'[p].installed = pods[p].installed /\ pods'[p].after = pods[p].after
      /\ pods'[p].feed = pods[p].feed /\ pods'[p].mirror = pods[p].mirror
  BY StartShape DEF MirrorInv
<1>2. /\ pods[p].after = 0 /\ ~pods[p].installed /\ pods[p].feed = <<>>
      /\ DOMAIN pods[p].mirror.docs = {}
  BY <1>1 DEF MirrorInv, PodInv
<1>3. \A id \in Ids : ~(id <= 0)
  BY DEF WellRegistered
<1>4. \A id \in Ids : FeedSays(p, id)' /\ Agrees(p, id)'
  BY <1>1, <1>2, <1>3 DEF FeedSays, Agrees
<1>. QED
  BY <1>1, <1>4 DEF PodInv, Informed

\* A page of a hydrate: the mirror agrees with the store up to the end of the page.
LEMMA SeedKept ==
    ASSUME WellRegistered, MirrorInv, RegTyped', NEW p \in Mirrors, Register!seed_mirror(p)
    PROVE  PodInv(p)'
<1>. DEFINE page == Register!Page(store, pods[p].after)
            short == Register!Short(store, pods[p].after)
            far == Register!Furthest(page)
            old == pods[p].mirror.docs
            new == pods'[p].mirror.docs
<1>1. /\ pods[p].pc = "seed" /\ pods'[p].listening = pods[p].listening
      /\ pods'[p].feed = pods[p].feed
      /\ DOMAIN new = page \cup DOMAIN old
      /\ \A k \in page : new[k] = store[k]
      /\ \A k \in DOMAIN old \ page : new[k] = old[k]
      /\ IF short THEN pods'[p].pc = "up" /\ pods'[p].installed /\ pods'[p].after = 0
         ELSE /\ pods'[p].pc = "seed" /\ pods'[p].installed = pods[p].installed
              /\ pods'[p].after = far
      /\ UNCHANGED <<store, past, lock, asked, sweep, jobs, used>>
  BY SeedShape DEF MirrorInv
<1>2. RegTyped /\ pods[p].after \in Cursor
  BY PodOfMirrors DEF MirrorInv
<1>3. /\ short => \A i \in Ids : (store[i] # NoReg /\ i > pods[p].after) => i \in page
      /\ ~short => \A i \in Ids :
                     (store[i] # NoReg /\ i > pods[p].after /\ i <= far) => i \in page
  BY <1>2, PageShape
<1>4. \A i \in Ids : i \in Int /\ pods[p].after \in Int /\ i > 0
  BY <1>2 DEF WellRegistered, Cursor
<1>. HIDE DEF page, short, far
<1>5. ASSUME pods[p].listening, NEW id \in Ids, Quiet(id)
      PROVE  FeedSays(p, id)' /\ (Unfed(p, id)' => Agrees(p, id)')
  <2>1. FeedSays(p, id) /\ (Unfed(p, id) => Agrees(p, id))
    BY <1>5 DEF MirrorInv, PodInv, Informed
  <2>2. Wanes(id)
    BY <1>1, <1>2, WanesStill
  <2>3. FeedSays(p, id)'
    BY <1>1, <1>2, <2>1, <2>2, FeedKept
  <2>4. ASSUME Unfed(p, id)'
        PROVE  Agrees(p, id)'
    <3>1. Agrees(p, id)
      BY <1>1, <2>1, <2>4 DEF Unfed
    <3>2. CASE id \in page
      BY <1>1, <3>2 DEF Agrees
    <3>3. CASE id \notin page
      <4>1. /\ id \in DOMAIN new <=> id \in DOMAIN old
            /\ id \in DOMAIN old => new[id] = old[id]
        BY <1>1, <3>3
      <4>2. (store[id] # NoReg /\ (pods'[p].installed \/ id <= pods'[p].after)) =>
              pods[p].installed \/ id <= pods[p].after
        BY <1>1, <1>3, <1>4, <3>3
      <4>3. (store[id] # NoReg /\ (pods'[p].installed \/ id <= pods'[p].after)) =>
              id \in DOMAIN new /\ new[id] = store[id]
        BY <3>1, <4>1, <4>2 DEF Agrees
      <4>4. (used.sweeps = 0 /\ id \in DOMAIN new) =>
              new[id] = store[id] \/ new[id].ver \in past
        BY <3>1, <4>1 DEF Agrees, Register!expired
      <4>. QED
        BY <1>1, <4>3, <4>4 DEF Agrees, Register!expired
    <3>. QED
      BY <3>2, <3>3
  <2>. QED
    BY <2>3, <2>4
<1>6. \A id \in Ids : Quiet(id)' => Quiet(id)
  BY <1>1 DEF Quiet
<1>7. pods'[p].listening => Informed(p)'
  BY <1>1, <1>5, <1>6 DEF Informed
<1>8. /\ pods'[p].pc # "seed" => pods'[p].after = 0
      /\ pods'[p].pc # "down"
  BY <1>1
<1>. QED
  BY <1>7, <1>8 DEF PodInv

\* The end of a hydrate that failed, and of a stream: the mirror stays.
LEMMA RestartKept ==
    ASSUME WellRegistered, MirrorInv, RegTyped', NEW p \in Mirrors,
           Register!SeedFails(p) \/ Register!Gap(p)
    PROVE  PodInv(p)'
<1>1. /\ pods'[p].pc \in {"seed", "up"} /\ pods'[p].after = 0
      /\ pods'[p].listening => pods[p].listening /\ pods'[p].feed = pods[p].feed
      /\ pods'[p].installed = pods[p].installed /\ pods'[p].mirror = pods[p].mirror
      /\ UNCHANGED <<store, past, asked, jobs>> /\ used'.sweeps = used.sweeps
  <2>1. CASE Register!SeedFails(p)
    BY <2>1, SeedFailsShape DEF MirrorInv
  <2>2. CASE Register!Gap(p)
    <3>1. pods[p].pc = "up" /\ pods'[p].after = pods[p].after
      BY <2>2, GapShape DEF MirrorInv
    <3>2. pods'[p].after = 0
      BY <3>1 DEF MirrorInv, PodInv
    <3>. QED
      BY <2>2, <3>2, GapShape DEF MirrorInv
  <2>. QED
    BY <2>1, <2>2
<1>2. RegTyped
  BY DEF MirrorInv
<1>3. \A id \in Ids : ~(id <= 0)
  BY DEF WellRegistered
<1>4. ASSUME pods'[p].listening, NEW id \in Ids, Quiet(id)
      PROVE  FeedSays(p, id)' /\ (Unfed(p, id)' => Agrees(p, id)')
  <2>1. /\ FeedSays(p, id) /\ (Unfed(p, id) => Agrees(p, id)) /\ pods'[p].feed = pods[p].feed
    BY <1>1, <1>4 DEF MirrorInv, PodInv, Informed
  <2>2. Wanes(id)
    BY <1>1, <1>2, WanesStill
  <2>3. FeedSays(p, id)'
    BY <1>2, <2>1, <2>2, FeedKept
  <2>4. Unfed(p, id)' => Agrees(p, id)
    BY <2>1 DEF Unfed
  <2>5. Agrees(p, id) => Agrees(p, id)'
    BY <1>1, <1>3 DEF Agrees, Register!expired
  <2>. QED
    BY <2>3, <2>4, <2>5
<1>5. \A id \in Ids : Quiet(id)' => Quiet(id)
  BY <1>1 DEF Quiet
<1>6. pods'[p].listening => Informed(p)'
  BY <1>4, <1>5 DEF Informed
<1>. QED
  BY <1>1, <1>6 DEF PodInv

\* The first delta of the feed: the mirror says what the delta did.
LEMMA ConsumeKept ==
    ASSUME WellRegistered, MirrorInv, RegTyped', NEW p \in Mirrors, Register!Consume(p)
    PROVE  PodInv(p)'
<1>. DEFINE f == pods[p].feed
            d == Head(pods[p].feed)
            old == pods[p].mirror.docs
            new == pods'[p].mirror.docs
<1>1. /\ pods[p].pc = "up" /\ pods'[p].pc = "up"
      /\ pods'[p].listening = pods[p].listening
      /\ pods'[p].installed = pods[p].installed /\ pods'[p].after = pods[p].after
      /\ f # <<>> /\ pods'[p].feed = Tail(f)
      /\ d \in Delta
      /\ DOMAIN new = IF d.row = NoReg THEN DOMAIN old \ {d.id} ELSE DOMAIN old \cup {d.id}
      /\ d.row # NoReg => new[d.id] = d.row
      /\ \A k \in DOMAIN old \ {d.id} : new[k] = old[k]
      /\ UNCHANGED <<store, past, lock, asked, sweep, jobs, used>>
  BY ConsumeShape DEF MirrorInv
<1>2. RegTyped /\ f \in Seq(Delta)
  BY PodOfMirrors DEF MirrorInv
<1>3. /\ Len(f) \in Nat /\ DOMAIN f = 1..Len(f) /\ 1 \in DOMAIN f /\ d = f[1]
      /\ DOMAIN Tail(f) = 1..(Len(f) - 1)
      /\ \A k \in DOMAIN Tail(f) : Tail(f)[k] = f[k + 1] /\ k + 1 \in DOMAIN f
  BY <1>1, <1>2
<1>. HIDE DEF f, d
<1>4. ASSUME pods[p].listening, NEW id \in Ids, Quiet(id)
      PROVE  FeedSays(p, id)' /\ (Unfed(p, id)' => Agrees(p, id)')
  <2>1. FeedSays(p, id) /\ (Unfed(p, id) => Agrees(p, id))
    BY <1>4 DEF MirrorInv, PodInv, Informed
  <2>2. ASSUME NEW k \in DOMAIN Tail(f), Tail(f)[k].id = id,
               \A m \in DOMAIN Tail(f) : m > k => Tail(f)[m].id # id
        PROVE  Says(Tail(f)[k].row, id)
    <3>1. k + 1 \in DOMAIN f /\ f[k + 1].id = id /\ Tail(f)[k] = f[k + 1]
      BY <1>3, <2>2
    <3>2. ASSUME NEW m \in DOMAIN f, m > k + 1
          PROVE  f[m].id # id
      <4>1. m - 1 \in DOMAIN Tail(f) /\ m - 1 > k /\ (m - 1) + 1 = m
        BY <1>3, <2>2, <3>2
      <4>. QED
        BY <1>3, <2>2, <4>1
    <3>. QED
      BY <2>1, <3>1, <3>2 DEF FeedSays, f
  <2>3. FeedSays(p, id)'
    <3>1. ASSUME NEW k \in DOMAIN pods'[p].feed, pods'[p].feed[k].id = id,
                 \A m \in DOMAIN pods'[p].feed : m > k => pods'[p].feed[m].id # id
          PROVE  Says(pods[p].feed[k].row, id)'
      <4>1. Says(Tail(f)[k].row, id) /\ pods'[p].feed[k] = Tail(f)[k]
        BY <1>1, <2>2, <3>1
      <4>. QED
        BY <1>1, <4>1 DEF Says, Register!expired
    <3>. QED
      BY <3>1 DEF FeedSays
  <2>4. ASSUME Unfed(p, id)'
        PROVE  Agrees(p, id)'
    <3>1. \A k \in DOMAIN Tail(f) : Tail(f)[k].id # id
      BY <1>1, <2>4 DEF Unfed
    <3>2. \A k \in DOMAIN f : k > 1 => f[k].id # id
      <4>1. ASSUME NEW k \in DOMAIN f, k > 1
            PROVE  f[k].id # id
        <5>1. k - 1 \in DOMAIN Tail(f) /\ (k - 1) + 1 = k
          BY <1>3, <4>1
        <5>. QED
          BY <1>3, <3>1, <5>1
      <4>. QED
        BY <4>1
    <3>3. CASE d.id = id
      <4>1. Says(d.row, id)
        BY <1>3, <2>1, <3>2, <3>3 DEF FeedSays, f
      <4>2. store[id] # NoReg => id \in DOMAIN new /\ new[id] = store[id]
        BY <1>1, <3>3, <4>1 DEF Says
      <4>3. (used.sweeps = 0 /\ id \in DOMAIN new) =>
              new[id] = store[id] \/ new[id].ver \in past
        BY <1>1, <3>3, <4>1 DEF Says, Register!expired
      <4>. QED
        BY <1>1, <4>2, <4>3 DEF Agrees, Register!expired
    <3>4. CASE d.id # id
      <4>1. Unfed(p, id)
        <5>1. \A k \in DOMAIN f : k = 1 \/ k > 1
          BY <1>3
        <5>. QED
          BY <1>3, <3>2, <3>4, <5>1 DEF Unfed, f
      <4>2. /\ id \in DOMAIN new <=> id \in DOMAIN old
            /\ id \in DOMAIN old => new[id] = old[id]
        BY <1>1, <3>4
      <4>. QED
        BY <1>1, <2>1, <4>1, <4>2 DEF Agrees, Register!expired
    <3>. QED
      BY <3>3, <3>4
  <2>. QED
    BY <2>3, <2>4
<1>5. \A id \in Ids : Quiet(id)' => Quiet(id)
  BY <1>1 DEF Quiet
<1>6. pods'[p].listening => Informed(p)'
  BY <1>1, <1>4, <1>5 DEF Informed
<1>7. pods'[p].pc = "up" /\ pods'[p].after = 0
  BY <1>1 DEF MirrorInv, PodInv
<1>. QED
  BY <1>6, <1>7 DEF PodInv

\* A publication: every pod that listens is told what the store holds.
LEMMA PublishKept ==
    ASSUME WellRegistered, MirrorInv, RegTyped', NEW t \in jobs, Register!Publish(t)
    PROVE  MirrorInv'
<1>. DEFINE d == [id |-> t.id, row |-> t.row]
<1>1. /\ RegTyped /\ t \in Job /\ t.id \in Ids /\ Says(t.row, t.id)
  BY DEF MirrorInv, RegTyped, Job, Kept
<1>2. /\ jobs' = jobs \ {t} /\ UNCHANGED <<store, past, lock, asked, sweep, used>>
      /\ \A p \in Mirrors :
           /\ pods'[p].pc = pods[p].pc /\ pods'[p].listening = pods[p].listening
           /\ pods'[p].installed = pods[p].installed /\ pods'[p].after = pods[p].after
           /\ pods'[p].mirror = pods[p].mirror
           /\ pods'[p].feed = IF pods[p].listening THEN Append(pods[p].feed, d)
                              ELSE pods[p].feed
  BY <1>1, PublishShape
<1>3. d.id = t.id /\ d.row = t.row
  OBVIOUS
<1>. HIDE DEF d
<1>4. ASSUME NEW p \in Mirrors, pods[p].listening, NEW id \in Ids, Quiet(id)'
      PROVE  FeedSays(p, id)' /\ (Unfed(p, id)' => Agrees(p, id)')
  <2>. DEFINE f == pods[p].feed
              n == Len(f)
  <2>1. f \in Seq(Delta) /\ pods'[p].feed = Append(f, d)
    BY <1>1, <1>2, <1>4, PodOfMirrors
  <2>2. /\ n \in Nat /\ DOMAIN f = 1..n /\ DOMAIN pods'[p].feed = 1..(n + 1)
        /\ pods'[p].feed[n + 1] = d /\ \A k \in 1..n : pods'[p].feed[k] = f[k]
    BY <2>1
  <2>. HIDE DEF f, n
  <2>3. CASE id = t.id
    <3>1. ~(Unfed(p, id)')
      <4>1. n + 1 \in DOMAIN pods'[p].feed /\ pods'[p].feed[n + 1].id = id
        BY <1>3, <2>2, <2>3
      <4>. QED
        BY <4>1 DEF Unfed
    <3>2. FeedSays(p, id)'
      <4>1. ASSUME NEW k \in DOMAIN pods'[p].feed, pods'[p].feed[k].id = id,
                   \A m \in DOMAIN pods'[p].feed : m > k => pods'[p].feed[m].id # id
            PROVE  Says(pods[p].feed[k].row, id)'
        <5>1. k = n + 1
          BY <1>3, <2>2, <2>3, <4>1
        <5>2. pods'[p].feed[k].row = t.row
          BY <1>3, <2>2, <5>1
        <5>. QED
          BY <1>1, <1>2, <2>3, <5>2 DEF Says, Register!expired
      <4>. QED
        BY <4>1 DEF FeedSays
    <3>. QED
      BY <3>1, <3>2
  <2>4. CASE id # t.id
    <3>1. Quiet(id)
      BY <1>2, <1>4, <2>4 DEF Quiet
    <3>2. FeedSays(p, id) /\ (Unfed(p, id) => Agrees(p, id))
      BY <1>4, <3>1 DEF MirrorInv, PodInv, Informed
    <3>3. FeedSays(p, id)'
      <4>1. ASSUME NEW k \in DOMAIN pods'[p].feed, pods'[p].feed[k].id = id,
                   \A m \in DOMAIN pods'[p].feed : m > k => pods'[p].feed[m].id # id
            PROVE  Says(pods[p].feed[k].row, id)'
        <5>1. k \in 1..n /\ pods'[p].feed[k] = f[k]
          BY <1>3, <2>2, <2>4, <4>1
        <5>2. ASSUME NEW m \in DOMAIN f, m > k
              PROVE  f[m].id # id
          <6>1. m \in 1..n /\ m \in DOMAIN pods'[p].feed
            BY <2>2, <5>2
          <6>2. pods'[p].feed[m].id # id /\ pods'[p].feed[m] = f[m]
            BY <2>2, <4>1, <5>2, <6>1
          <6>. QED
            BY <6>2
        <5>3. Says(f[k].row, id)
          BY <2>2, <3>2, <4>1, <5>1, <5>2 DEF FeedSays, f
        <5>. QED
          BY <1>2, <5>1, <5>3 DEF Says, Register!expired
      <4>. QED
        BY <4>1 DEF FeedSays
    <3>4. Unfed(p, id)' => Unfed(p, id)
      <4>1. ASSUME Unfed(p, id)'
            PROVE  \A k \in DOMAIN f : f[k].id # id
        <5>1. \A k \in DOMAIN pods'[p].feed : pods'[p].feed[k].id # id
          BY <4>1 DEF Unfed
        <5>. QED
          BY <2>2, <5>1
      <4>. QED
        BY <4>1 DEF Unfed, f
    <3>5. Agrees(p, id) => Agrees(p, id)'
      BY <1>2 DEF Agrees, Register!expired
    <3>. QED
      BY <3>2, <3>3, <3>4, <3>5
  <2>. QED
    BY <2>3, <2>4
<1>5. ASSUME NEW p \in Mirrors
      PROVE  PodInv(p)'
  <2>1. PodInv(p)
    BY DEF MirrorInv
  <2>2. pods[p].pc = "down" => ~pods[p].listening
    BY <2>1 DEF PodInv
  <2>3. pods'[p].listening => Informed(p)'
    BY <1>2, <1>4 DEF Informed
  <2>. QED
    BY <1>2, <2>1, <2>2, <2>3 DEF PodInv
<1>6. \A g \in Clients : Placed(g)'
  BY <1>2 DEF MirrorInv, Placed, Says, Dying, Register!expired
<1>7. \A u \in jobs' : Kept(u)'
  BY <1>2 DEF MirrorInv, Kept, Says, Register!expired
<1>8. OneHandlerWrites' /\ (sweep.pc = "idle" \/ used.sweeps > 0)'
  BY <1>2 DEF MirrorInv, OneHandlerWrites, InHand
<1>. QED
  BY <1>5, <1>6, <1>7, <1>8 DEF MirrorInv

\* A publication that fails is tried again: a task has more attempts left than
\* failures are to come.
LEMMA PublishFailsKept ==
    ASSUME WellRegistered, Unhurried, MirrorInv, RegTyped', NEW t \in jobs,
           Register!PublishFails(t)
    PROVE  MirrorInv'
<1>1. /\ RegTyped /\ t \in Job /\ t.id \in Ids /\ t.left \in Int /\ Kept(t)
  BY DEF MirrorInv, RegTyped, Job
<1>2. /\ used.fails < MaxFails /\ used'.sweeps = used.sweeps /\ used'.fails = used.fails + 1
      /\ UNCHANGED <<store, past, lock, asked, sweep, pods>>
      /\ \/ t.left = 1 /\ jobs' = jobs \ {t}
         \/ \E u \in Job : /\ t.left # 1 /\ u.id = t.id /\ u.row = t.row /\ u.left = t.left - 1
                           /\ jobs' = (jobs \ {t}) \cup {u}
  BY <1>1, PublishFailsShape
<1>3. used.fails \in Nat /\ Attempts \in Nat /\ MaxFails \in Nat
  BY <1>1, SweepsCounted, DistSubAssumption DEF WellRegistered, RegTyped
<1>4. t.left # 1
  BY <1>1, <1>2, <1>3 DEF Kept, Unhurried
<1>5. PICK u \in Job : /\ u.id = t.id /\ u.row = t.row /\ u.left = t.left - 1
                       /\ jobs' = (jobs \ {t}) \cup {u}
  BY <1>2, <1>4
<1>6. \A id \in Ids : Wanes(id) /\ (Quiet(id)' => Quiet(id))
  <2>1. ASSUME NEW id \in Ids, Quiet(id)'
        PROVE  Quiet(id)
    <3>1. /\ \A h \in Clients : asked[h].pc \in {"after", "publish"} => asked[h].id # id
          /\ \A v \in jobs' : v.id # id
      BY <1>2, <2>1 DEF Quiet
    <3>2. \A v \in jobs : v.id # id
      BY <1>5, <3>1
    <3>. QED
      BY <3>1, <3>2 DEF Quiet
  <2>. QED
    BY <1>1, <1>2, <2>1, WanesStill
<1>7. \A p \in Mirrors : PodInv(p)'
  BY <1>1, <1>2, <1>6, PodKept DEF MirrorInv
<1>8. \A g \in Clients : Placed(g)'
  BY <1>2 DEF MirrorInv, Placed, Says, Dying, Register!expired
<1>9. ASSUME NEW v \in jobs'
      PROVE  Kept(v)'
  <2>1. CASE v \in jobs
    <3>1. Kept(v) /\ v.left \in Int
      BY <1>1, <2>1 DEF MirrorInv, RegTyped, Job
    <3>2. v.left + used'.fails >= Attempts
      BY <1>2, <1>3, <3>1 DEF Kept
    <3>. QED
      BY <1>2, <3>1, <3>2 DEF Kept, Says, Register!expired
  <2>2. CASE v = u
    <3>1. u.left + used'.fails >= Attempts
      BY <1>1, <1>2, <1>3, <1>5 DEF Kept
    <3>2. Says(t.row, t.id)
      BY <1>1 DEF Kept
    <3>. QED
      BY <1>2, <1>5, <2>2, <3>1, <3>2 DEF Kept, Says, Register!expired
  <2>. QED
    BY <1>5, <2>1, <2>2
<1>10. OneHandlerWrites'
  <2>1. /\ \A g, h \in Clients : (g # h /\ InHand(g) /\ InHand(h)) => asked[g].id # asked[h].id
        /\ \A h \in Clients, v \in jobs : InHand(h) => asked[h].id # v.id
        /\ \A v, w \in jobs : v.id = w.id => v = w
    BY DEF MirrorInv, OneHandlerWrites
  <2>2. \A h \in Clients : InHand(h)' = InHand(h) /\ asked'[h] = asked[h]
    BY <1>2 DEF InHand
  <2>3. \A h \in Clients, v \in jobs' : InHand(h) => asked[h].id # v.id
    BY <1>5, <2>1
  <2>4. \A v, w \in jobs' : v.id = w.id => v = w
    BY <1>5, <2>1
  <2>. QED
    BY <2>1, <2>2, <2>3, <2>4 DEF OneHandlerWrites
<1>11. (sweep.pc = "idle" \/ used.sweeps > 0)'
  BY <1>2 DEF MirrorInv
<1>. QED
  BY <1>7, <1>8, <1>9, <1>10, <1>11 DEF MirrorInv

\* The publication is spawned with what the handler read.
LEMMA ChangedKept ==
    ASSUME WellRegistered, MirrorInv, RegTyped', NEW h \in Clients, Register!reg_changed(h)
    PROVE  MirrorInv'
<1>1. RegTyped
  BY DEF MirrorInv
<1>2. PICK t \in Job :
        /\ t.id = asked[h].id /\ t.row = asked[h].row /\ t.left = Attempts
        /\ jobs' = jobs \cup {t}
  BY <1>1, ChangedShape
<1>3. /\ asked[h].pc = "publish" /\ asked[h].id \in Ids /\ asked'[h].pc = "done"
      /\ \A g \in Clients \ {h} : asked'[g] = asked[g]
      /\ UNCHANGED <<store, past, lock, sweep, pods, used>>
  BY <1>1, ChangedShape
<1>4. Says(t.row, t.id) /\ InHand(h)
  BY <1>2, <1>3 DEF MirrorInv, Placed, InHand
<1>5. \A id \in Ids : Wanes(id) /\ (Quiet(id)' => Quiet(id))
  <2>1. ASSUME NEW id \in Ids, Quiet(id)'
        PROVE  Quiet(id)
    <3>1. /\ \A g \in Clients : asked'[g].pc \in {"after", "publish"} => asked'[g].id # id
          /\ \A v \in jobs' : v.id # id
      BY <2>1 DEF Quiet
    <3>2. id # asked[h].id
      BY <1>2, <3>1
    <3>3. \A g \in Clients : asked[g].pc \in {"after", "publish"} => asked[g].id # id
      BY <1>3, <3>1, <3>2
    <3>. QED
      BY <1>2, <3>1, <3>3 DEF Quiet
  <2>. QED
    BY <1>1, <1>3, <2>1, WanesStill
<1>6. \A p \in Mirrors : PodInv(p)'
  BY <1>1, <1>3, <1>5, PodKept DEF MirrorInv
<1>7. ASSUME NEW g \in Clients
      PROVE  Placed(g)'
  <2>1. CASE g = h
    BY <1>3, <2>1 DEF Placed
  <2>2. CASE g # h
    BY <1>3, <2>2 DEF MirrorInv, Placed, Says, Dying, Register!expired
  <2>. QED
    BY <2>1, <2>2
<1>8. ASSUME NEW v \in jobs'
      PROVE  Kept(v)'
  <2>1. CASE v \in jobs
    BY <1>3, <2>1 DEF MirrorInv, Kept, Says, Register!expired
  <2>2. CASE v = t
    <3>1. t.left + used'.fails >= Attempts
      <4>1. used'.fails \in Nat /\ Attempts \in Int
        BY <1>1, SweepsCounted DEF WellRegistered
      <4>. QED
        BY <1>2, <4>1
    <3>. QED
      BY <1>3, <1>4, <2>2, <3>1 DEF Kept, Says, Register!expired
  <2>. QED
    BY <1>2, <2>1, <2>2
<1>9. OneHandlerWrites'
  <2>1. /\ \A f, g \in Clients : (f # g /\ InHand(f) /\ InHand(g)) => asked[f].id # asked[g].id
        /\ \A g \in Clients, v \in jobs : InHand(g) => asked[g].id # v.id
        /\ \A v, w \in jobs : v.id = w.id => v = w
    BY DEF MirrorInv, OneHandlerWrites
  <2>2. \A g \in Clients : InHand(g)' => InHand(g) /\ g # h /\ asked'[g].id = asked[g].id
    BY <1>3 DEF InHand
  <2>3. \A f, g \in Clients : (f # g /\ InHand(f)' /\ InHand(g)') => asked'[f].id # asked'[g].id
    BY <2>1, <2>2
  <2>4. \A g \in Clients, v \in jobs' : InHand(g)' => asked'[g].id # v.id
    BY <1>2, <1>4, <2>1, <2>2
  <2>5. \A v, w \in jobs' : v.id = w.id => v = w
    BY <1>2, <1>4, <2>1
  <2>. QED
    BY <2>3, <2>4, <2>5 DEF OneHandlerWrites
<1>10. (sweep.pc = "idle" \/ used.sweeps > 0)'
  BY <1>3 DEF MirrorInv
<1>. QED
  BY <1>6, <1>7, <1>8, <1>9, <1>10 DEF MirrorInv

LEMMA AskKept ==
    ASSUME WellRegistered, Unhurried, MirrorInv, RegTyped', NEW h \in Clients, NEW id \in Ids,
           NEW op, NEW body,
           \/ op = "create" /\ body \in Bodies
           \/ op = "update" /\ body \in Patches
           \/ op = "delete" /\ body = NoReg,
           Register!Ask(h, op, id, body)
    PROVE  MirrorInv'
<1>1. RegTyped
  BY DEF MirrorInv
<1>2. /\ asked'[h].id = id /\ asked'[h].pc \in {"take", "lock"}
      /\ \A g \in Clients \ {h} : asked'[g] = asked[g]
  BY <1>1, AskShape
<1>3. /\ asked[h].pc \in {"idle", "done"} /\ (Patient => ~Register!Busy(id))
      /\ used'.sweeps = used.sweeps /\ used'.fails = used.fails
      /\ UNCHANGED <<store, past, lock, sweep, jobs, pods>>
  BY <1>1, AskedMore
<1>4. /\ \A g \in Clients : InHand(g) => asked[g].id # id
      /\ \A t \in jobs : t.id # id
  BY <1>3 DEF Unhurried, Register!Busy, InHand
<1>5. \A i \in Ids : Wanes(i) /\ (Quiet(i)' => Quiet(i))
  <2>1. \A i \in Ids : Quiet(i)' => Quiet(i)
    BY <1>2, <1>3 DEF Quiet
  <2>. QED
    BY <1>1, <1>3, <2>1, WanesStill
<1>6. \A p \in Mirrors : PodInv(p)'
  BY <1>1, <1>3, <1>5, PodKept DEF MirrorInv
<1>7. \A g \in Clients : Placed(g)'
  BY <1>2, <1>3 DEF MirrorInv, Placed, Says, Dying, Register!expired
<1>8. \A t \in jobs' : Kept(t)'
  BY <1>3 DEF MirrorInv, Kept, Says, Register!expired
<1>9. OneHandlerWrites'
  <2>1. /\ \A f, g \in Clients : (f # g /\ InHand(f) /\ InHand(g)) => asked[f].id # asked[g].id
        /\ \A g \in Clients, v \in jobs : InHand(g) => asked[g].id # v.id
        /\ \A v, w \in jobs : v.id = w.id => v = w
    BY DEF MirrorInv, OneHandlerWrites
  <2>2. \A g \in Clients \ {h} : InHand(g)' = InHand(g) /\ asked'[g].id = asked[g].id
    BY <1>2 DEF InHand
  <2>3. \A f, g \in Clients : (f # g /\ InHand(f)' /\ InHand(g)') => asked'[f].id # asked'[g].id
    BY <1>2, <1>4, <2>1, <2>2
  <2>4. \A g \in Clients, v \in jobs' : InHand(g)' => asked'[g].id # v.id
    BY <1>2, <1>3, <1>4, <2>1, <2>2
  <2>5. \A v, w \in jobs' : v.id = w.id => v = w
    BY <1>3, <2>1
  <2>. QED
    BY <2>3, <2>4, <2>5 DEF OneHandlerWrites
<1>10. (sweep.pc = "idle" \/ used.sweeps > 0)'
  BY <1>3 DEF MirrorInv
<1>. QED
  BY <1>6, <1>7, <1>8, <1>9, <1>10 DEF MirrorInv

\* The handler's reads, checks and refusals write nothing but the removal of an
\* expired row.
LEMMA CheckKept ==
    ASSUME WellRegistered, MirrorInv, RegTyped', NEW h \in Clients,
           \/ Register!registration_write_lock(h) \/ Register!take_live_registration(h)
           \/ Register!CheckEntities(h) \/ Register!check_proxied_overlap(h)
    PROVE  MirrorInv'
<1>1. RegTyped
  BY DEF MirrorInv
<1>2. /\ InHand(h) /\ asked[h].pc \notin {"after", "publish"}
      /\ \A g \in Clients \ {h} : asked'[g] = asked[g]
      /\ UNCHANGED <<store, past, sweep, jobs, pods, used>>
      /\ \/ asked'[h].pc = "done"
         \/ /\ asked'[h].id = asked[h].id
            /\ asked'[h].pc \in {"take", "reap", "entities", "overlap", "write"}
      /\ asked'[h].pc = "reap" => Dying(asked[h].id)
  <2>1. CASE Register!registration_write_lock(h)
    BY <1>1, <2>1, LockShape DEF InHand
  <2>2. CASE Register!CheckEntities(h)
    BY <1>1, <2>2, EntitiesShape DEF InHand
  <2>3. CASE Register!check_proxied_overlap(h)
    <3>1. /\ asked[h].pc = "overlap" /\ UNCHANGED <<store, past, sweep, jobs, pods, used>>
      BY <2>3 DEF Register!check_proxied_overlap
    <3>2. /\ \A g \in Clients \ {h} : asked'[g] = asked[g]
          /\ \/ asked'[h].pc = "done"
             \/ asked'[h].id = asked[h].id /\ asked'[h].pc \in {"overlap", "write"}
      BY <1>1, <2>3, OverlapShape
    <3>. QED
      BY <3>1, <3>2 DEF InHand
  <2>4. CASE Register!take_live_registration(h)
    <3>1. /\ asked[h].pc = "take" /\ store[asked[h].id] \in MaybeRow
          /\ UNCHANGED <<store, past, sweep, jobs, pods, used>>
          /\ \/ Register!Taken(h, store[asked[h].id])
             \/ /\ Register!expired(store[asked[h].id])
                /\ asked'[h].pc = "reap" /\ asked'[h].id = asked[h].id
                /\ \A g \in Clients \ {h} : asked'[g] = asked[g]
      BY <1>1, <2>4, TakeShape
    <3>2. CASE Register!Taken(h, store[asked[h].id])
      <4>1. /\ \A g \in Clients \ {h} : asked'[g] = asked[g]
            /\ \/ asked'[h].pc = "done"
               \/ asked'[h].id = asked[h].id /\ asked'[h].pc \in {"entities", "write"}
        BY <1>1, <3>1, <3>2, TakenShape
      <4>. QED
        BY <3>1, <4>1 DEF InHand
    <3>3. CASE ~Register!Taken(h, store[asked[h].id])
      BY <3>1, <3>3 DEF InHand, Dying
    <3>. QED
      BY <3>2, <3>3
  <2>. QED
    BY <2>1, <2>2, <2>3, <2>4
<1>3. Placed(h)'
  BY <1>2 DEF Placed, Dying, Register!expired
<1>4. asked[h].id \in Ids
  BY <1>1, <1>2, ClientOf DEF Engaged, InHand
<1>5. Wanes(asked[h].id)
  BY <1>1, <1>2, <1>4, WanesStill
<1>6. InHand(h)' => asked'[h].id = asked[h].id
  BY <1>2 DEF InHand
<1>. QED
  BY <1>2, <1>3, <1>5, <1>6, RequestMoves

LEMMA ReapKept ==
    ASSUME WellRegistered, MirrorInv, RegTyped', NEW h \in Clients, Register!Reap(h)
    PROVE  MirrorInv'
<1>1. RegTyped
  BY DEF MirrorInv
<1>2. /\ asked[h].pc = "reap" /\ asked[h].id \in Ids /\ NoReg \in MaybeRow
      /\ store' = [store EXCEPT ![asked[h].id] = NoReg]
      /\ Register!Taken(h, NoReg)
      /\ UNCHANGED <<past, sweep, jobs, pods, used>>
  BY <1>1, ReapShape
<1>3. /\ \A g \in Clients \ {h} : asked'[g] = asked[g]
      /\ \/ asked'[h].pc = "done"
         \/ asked'[h].id = asked[h].id /\ asked'[h].pc \in {"entities", "write"}
  BY <1>1, <1>2, TakenShape
<1>4. \A i \in Ids : store'[i] = IF i = asked[h].id THEN NoReg ELSE store[i]
  BY <1>1, <1>2, StoreLoses
<1>5. Dying(asked[h].id)
  BY <1>2 DEF MirrorInv, Placed
<1>6. Wanes(asked[h].id)
  BY <1>1, <1>2, <1>4, <1>5, SweepsCounted DEF Wanes
<1>7. Placed(h)' /\ InHand(h) /\ (InHand(h)' => asked'[h].id = asked[h].id)
  BY <1>2, <1>3 DEF Placed, InHand
<1>. QED
  BY <1>2, <1>3, <1>4, <1>6, <1>7, RequestMoves

\* A write: until it is published it owes the mirrors its row.
LEMMA WriteKept ==
    ASSUME WellRegistered, MirrorInv, RegTyped', NEW h \in Clients,
           \/ Register!CreateRow(h) \/ Register!UpdateRow(h) \/ Register!ReadAfter(h)
           \/ Register!delete_registration(h)
    PROVE  MirrorInv'
<1>1. RegTyped
  BY DEF MirrorInv
<1>. DEFINE id == asked[h].id
<1>2. /\ asked[h].pc \in {"write", "after"} /\ id \in Ids
      /\ \A g \in Clients \ {h} : asked'[g] = asked[g]
      /\ UNCHANGED <<past, sweep, jobs, pods>>
      /\ used'.sweeps = used.sweeps /\ used'.fails = used.fails
      /\ \A i \in Ids \ {id} : store'[i] = store[i]
      /\ \/ asked'[h].pc = "done" /\ store'[id] = store[id] /\ asked[h].pc = "write"
         \/ asked'[h].pc = "after" /\ asked'[h].id = id
         \/ asked'[h].pc = "publish" /\ asked'[h].id = id /\ asked'[h].row = store'[id]
  <2>1. CASE Register!CreateRow(h)
    <3>. DEFINE kept == Register!Reg(asked[h].body, used.vers + 1)
    <3>1. /\ asked[h].pc = "write" /\ id \in Ids
          /\ \A g \in Clients \ {h} : asked'[g] = asked[g]
          /\ UNCHANGED <<past, sweep, jobs, pods>>
          /\ \/ asked'[h].pc = "done" /\ UNCHANGED <<store, used>>
             \/ /\ kept \in RegRow /\ store' = [store EXCEPT ![id] = kept]
                /\ used' = [used EXCEPT !.vers = @ + 1]
                /\ asked'[h].pc = "publish" /\ asked'[h].id = id /\ asked'[h].row = kept
      BY <1>1, <2>1, CreateShape
    <3>2. kept.ver = used.vers + 1
      BY DEF Register!Reg
    <3>. HIDE DEF kept, id
    <3>3. CASE asked'[h].pc = "done" /\ UNCHANGED <<store, used>>
      BY <3>1, <3>3
    <3>4. CASE ~(asked'[h].pc = "done" /\ UNCHANGED <<store, used>>)
      <4>1. /\ store'[id] = kept /\ \A i \in Ids \ {id} : store'[i] = store[i]
            /\ used'.sweeps = used.sweeps /\ used'.fails = used.fails
        BY <1>1, <3>1, <3>2, <3>4, StoreGains
      <4>. QED
        BY <3>1, <3>4, <4>1
    <3>. QED
      BY <3>3, <3>4
  <2>2. CASE Register!UpdateRow(h)
    <3>. DEFINE kept == Register!Reg(Register!Merged(store[id], asked[h].body), used.vers + 1)
    <3>1. /\ asked[h].pc = "write" /\ id \in Ids
          /\ \A g \in Clients \ {h} : asked'[g] = asked[g]
          /\ UNCHANGED <<past, sweep, jobs, pods>>
          /\ \/ asked'[h].pc = "done" /\ UNCHANGED <<store, used>>
             \/ /\ kept \in RegRow /\ store' = [store EXCEPT ![id] = kept]
                /\ used' = [used EXCEPT !.vers = @ + 1]
                /\ asked'[h].pc = "after" /\ asked'[h].id = id
      BY <1>1, <2>2, UpdateShape
    <3>2. kept.ver = used.vers + 1
      BY DEF Register!Reg
    <3>. HIDE DEF kept, id
    <3>3. CASE UNCHANGED <<store, used>>
      BY <3>1, <3>3
    <3>4. CASE ~(UNCHANGED <<store, used>>)
      <4>1. /\ \A i \in Ids \ {id} : store'[i] = store[i]
            /\ used'.sweeps = used.sweeps /\ used'.fails = used.fails
        BY <1>1, <3>1, <3>2, <3>4, StoreGains
      <4>. QED
        BY <3>1, <3>4, <4>1
    <3>. QED
      BY <3>3, <3>4
  <2>3. CASE Register!ReadAfter(h)
    BY <1>1, <2>3, ReadAfterShape
  <2>4. CASE Register!delete_registration(h)
    <3>1. /\ asked[h].pc = "write" /\ id \in Ids
          /\ \A g \in Clients \ {h} : asked'[g] = asked[g]
          /\ store' = [store EXCEPT ![id] = NoReg]
          /\ UNCHANGED <<past, lock, sweep, jobs, pods, used>>
          /\ \/ store[id] = NoReg /\ asked'[h].pc = "done"
             \/ asked'[h].pc = "publish" /\ asked'[h].id = id /\ asked'[h].row = NoReg
      BY <1>1, <2>4, DeleteShape
    <3>. HIDE DEF id
    <3>2. \A i \in Ids : store'[i] = IF i = id THEN NoReg ELSE store[i]
      BY <1>1, <3>1, StoreLoses
    <3>. QED
      BY <3>1, <3>2
  <2>. QED
    BY <2>1, <2>2, <2>3, <2>4
<1>. HIDE DEF id
<1>3. Placed(h)'
  BY <1>2 DEF Placed, Says
<1>4. asked'[h].pc \in {"after", "publish"} \/ Wanes(id)
  BY <1>1, <1>2, WanesStill
<1>5. /\ InHand(h) /\ (InHand(h)' => asked'[h].id = id)
      /\ asked[h].pc \in {"after", "publish"} => asked'[h].pc \in {"after", "publish"}
  BY <1>2 DEF InHand
<1>. QED
  BY <1>2, <1>3, <1>4, <1>5, RequestMoves DEF id

LEMMA MirrorInit ==
    ASSUME WellRegistered, Register!Init
    PROVE  MirrorInv
<1>1. RegTyped
  BY TypedInit
<1>2. /\ \A h \in Clients : asked[h].pc = "idle"
      /\ jobs = {} /\ sweep.pc = "idle"
      /\ \A p \in Mirrors : pods[p] = Register!Pod
  BY DEF Register!Init, Register!Resting
<1>3. \A p \in Mirrors : PodInv(p)
  BY <1>2 DEF PodInv, Register!Pod, Register!Empty
<1>. QED
  BY <1>1, <1>2, <1>3 DEF MirrorInv, OneHandlerWrites, Placed, InHand

LEMMA MirrorStep ==
    ASSUME WellRegistered, Unhurried, MirrorInv, Register!Next \/ UNCHANGED regVars
    PROVE  MirrorInv'
<1>1. RegTyped /\ RegTyped'
  BY TypedStep DEF MirrorInv
<1>2. ASSUME NEW h \in Clients, NEW id \in Ids, NEW op, NEW body, Register!Ask(h, op, id, body),
             \/ op = "create" /\ body \in Bodies
             \/ op = "update" /\ body \in Patches
             \/ op = "delete" /\ body = NoReg
      PROVE  MirrorInv'
  BY <1>1, <1>2, AskKept
<1>3. ASSUME NEW h \in Clients, Register!registration_write_lock(h) \/ Register!Serve(h)
      PROVE  MirrorInv'
  BY <1>1, <1>3, CheckKept, ReapKept, WriteKept, ChangedKept DEF Register!Serve
<1>4. ASSUME NEW id \in Ids, Register!Expire(id)
      PROVE  MirrorInv'
  <2>1. past \subseteq past' /\ UNCHANGED <<store, lock, asked, sweep, jobs, pods, used>>
    BY <1>1, <1>4, ExpireShape
  <2>2. \A i \in Ids : Wanes(i)
    BY <1>1, <2>1, WanesStill
  <2>. QED
    BY <1>1, <2>1, <2>2, StoreRests DEF MirrorInv
<1>5. ASSUME NEW id \in Ids, Register!SweepReap(id)
      PROVE  MirrorInv'
  <2>1. /\ sweep.pc = "reap" /\ store' = [store EXCEPT ![id] = NoReg]
        /\ UNCHANGED <<past, lock, asked, jobs, pods, used>>
    BY <1>1, <1>5, SweepReapShape
  <2>2. \A i \in Ids : store'[i] = IF i = id THEN NoReg ELSE store[i]
    BY <1>1, <2>1, StoreLoses
  <2>3. used.sweeps > 0
    BY <2>1 DEF MirrorInv
  <2>4. \A i \in Ids : Wanes(i)
    BY <1>1, <2>1, <2>2, <2>3, SweepsCounted DEF Wanes
  <2>. QED
    BY <1>1, <2>1, <2>3, <2>4, StoreRests
<1>6. ASSUME Register!SweepPage
      PROVE  MirrorInv'
  <2>1. /\ used'.fails = used.fails
        /\ used'.sweeps = IF sweep.pc = "idle" THEN used.sweeps + 1 ELSE used.sweeps
        /\ UNCHANGED <<store, past, lock, asked, jobs, pods>>
    BY <1>1, <1>6, SweepPageShape
  <2>2. used'.sweeps > 0 /\ used.sweeps <= used'.sweeps
    BY <1>1, <2>1, SweepsCounted DEF MirrorInv
  <2>3. \A i \in Ids : Wanes(i)
    BY <2>1, <2>2 DEF Wanes
  <2>. QED
    BY <1>1, <2>1, <2>2, <2>3, StoreRests
<1>7. ASSUME NEW t \in jobs, Register!Publish(t) \/ Register!PublishFails(t)
      PROVE  MirrorInv'
  BY <1>1, <1>7, PublishKept, PublishFailsKept
<1>8. ASSUME NEW p \in Mirrors,
             \/ Register!Start(p) \/ Register!seed_mirror(p) \/ Register!SeedFails(p)
             \/ Register!Consume(p) \/ Register!Gap(p)
      PROVE  MirrorInv'
  <2>1. PodInv(p)'
    BY <1>1, <1>8, StartKept, SeedKept, RestartKept, ConsumeKept
  <2>2. /\ \A o \in Mirrors \ {p} : pods'[o] = pods[o]
        /\ UNCHANGED <<store, past, lock, asked, sweep, jobs>>
        /\ used'.sweeps = used.sweeps
        /\ used'.fails = used.fails \/ used'.fails = used.fails + 1
    <3>1. CASE Register!Start(p)
      BY <1>1, <3>1, StartShape
    <3>2. CASE Register!seed_mirror(p)
      BY <1>1, <3>2, SeedShape
    <3>3. CASE Register!SeedFails(p)
      BY <1>1, <3>3, SeedFailsShape
    <3>4. CASE Register!Consume(p)
      BY <1>1, <3>4, ConsumeShape
    <3>5. CASE Register!Gap(p)
      BY <1>1, <3>5, GapShape
    <3>. QED
      BY <1>8, <3>1, <3>2, <3>3, <3>4, <3>5
  <2>3. used'.fails >= used.fails
    BY <1>1, <2>2, SweepsCounted
  <2>. QED
    BY <1>1, <2>1, <2>2, <2>3, PodMoves
<1>9. CASE UNCHANGED regVars
  <2>1. UNCHANGED <<store, past, lock, asked, sweep, jobs, pods, used>>
    BY <1>9 DEF regVars
  <2>2. \A i \in Ids : Wanes(i)
    BY <1>1, <2>1, WanesStill
  <2>. QED
    BY <1>1, <2>1, <2>2, StoreRests DEF MirrorInv
<1>. QED
  BY <1>2, <1>3, <1>4, <1>5, <1>6, <1>7, <1>8, <1>9 DEF Register!Next

\* wiring.rs, seed_mirror and the consumer of the change stream: "no delta can fall
\* between them".  A live registration is in every installed mirror or on its way
\* there, whatever the order of hydrate, writes, publications, gaps and collections.
THEOREM NoDeltaMissed ==
    ASSUME WellRegistered, Unhurried
    PROVE  Register!Spec => []Register!NoneMissed
<1>1. Register!Init => MirrorInv
  BY MirrorInit
<1>2. MirrorInv /\ [Register!Next]_regVars => MirrorInv'
  BY MirrorStep
<1>3. MirrorInv => Register!NoneMissed
  <2>1. SUFFICES ASSUME MirrorInv, NEW p \in Mirrors, NEW id \in Ids, pods[p].installed,
                        store[id] # NoReg, ~Register!Coming(p, id)
                 PROVE  /\ id \in DOMAIN pods[p].mirror.docs
                        /\ pods[p].mirror.docs[id].ver = store[id].ver
    BY DEF Register!NoneMissed
  <2>2. pods[p].listening /\ Quiet(id) /\ Unfed(p, id)
    BY <2>1 DEF Register!Coming, Quiet, Unfed
  <2>3. Agrees(p, id)
    BY <2>1, <2>2 DEF MirrorInv, PodInv, Informed
  <2>. QED
    BY <2>1, <2>3 DEF Agrees
<1>. QED
  BY <1>1, <1>2, <1>3, PTL DEF Register!Spec, Register!vars, regVars

\* wiring.rs, "last-writer-wins per key converges": once nothing about an id is on its
\* way to a pod that listens, and as long as nothing was collected, the pod's mirror
\* holds no live version of it that the store does not.
THEOREM MirrorsAgree ==
    ASSUME WellRegistered, Unhurried
    PROVE  Register!Spec => []Register!MirrorsConverge
<1>1. Register!Init => MirrorInv
  BY MirrorInit
<1>2. MirrorInv /\ [Register!Next]_regVars => MirrorInv'
  BY MirrorStep
<1>3. MirrorInv => Register!MirrorsConverge
  <2>1. SUFFICES ASSUME MirrorInv, NEW p \in Mirrors, NEW id \in Ids,
                        ~Register!Coming(p, id), used.sweeps = 0,
                        id \in DOMAIN pods[p].mirror.docs,
                        ~Register!expired(pods[p].mirror.docs[id])
                 PROVE  store[id] # NoReg /\ store[id].ver = pods[p].mirror.docs[id].ver
    BY DEF Register!MirrorsConverge
  <2>2. pods[p].listening /\ Quiet(id) /\ Unfed(p, id)
    BY <2>1 DEF Register!Coming, Quiet, Unfed
  <2>3. pods[p].mirror.docs[id] = store[id]
    BY <2>1, <2>2 DEF MirrorInv, PodInv, Informed, Agrees
  <2>4. pods[p].mirror \in Mirrored
    BY <2>1, PodOfMirrors DEF MirrorInv
  <2>5. pods[p].mirror.docs[id] \in RegRow /\ NoReg \notin RegRow
    BY <2>1, <2>4 DEF Mirrored, MirrorShape, WellRegistered
  <2>. QED
    BY <2>3, <2>5
<1>. QED
  BY <1>1, <1>2, <1>3, PTL DEF Register!Spec, Register!vars, regVars

=============================================================================
