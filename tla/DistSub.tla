------------------------------ MODULE DistSub ------------------------------
(***************************************************************************)
(* Distributed subscriptions, the consumer half (antares-api distsub.rs):  *)
(* one subscription of this broker, the internal Registration Subscription *)
(* that watches the registrations for it, and the copies of it at the      *)
(* Context Sources.  Background tasks, one per change of a registration,   *)
(* make and remove the copies; they interleave at every await with each    *)
(* other and with the requests that create, update or delete the           *)
(* subscription.                                                           *)
(*                                                                         *)
(* Left out: what a copy contains, and so the PATCHes that keep it in step *)
(* (they change nothing that is modelled), the Via chain, auxiliary        *)
(* registrations, and the notifications that come in.                      *)
(***************************************************************************)
EXTENDS Integers, FiniteSets

CONSTANTS
    Regs,
    Forms,      \* what a registration may say: [match, ops]
    Nobody,     \* no registration, no id
    Handlers,   \* requests for the subscription
    Ops,        \* what they and the registrations' owners ask for
    MaxAsks, MaxFails

ASSUME DistSubAssumption ==
    /\ Nobody \notin Nat /\ Nobody \notin Forms
    /\ Forms \subseteq [match : BOOLEAN, ops : SUBSET {"create", "delete"}]
    /\ {MaxAsks, MaxFails} \subseteq Nat

VARIABLES
    own,      \* the subscription: is it there, and is it distributed
    reg,      \* reg[r]: the stored registration, or Nobody
    doc,      \* its mapping document: the Registration Subscription's id, and
              \* to[r], the id of the copy at r's source
    csrs,     \* the stored Registration Subscriptions
    inbound,  \* the ids the inbound index knows
    copies,   \* the copies at the sources
    hs,       \* hs[h]: a request between two awaits
    tasks,    \* the background tasks
    freed,    \* freed[r]: how often a mapping of r was taken away
    spent     \* requests, failures, unindexed copies and ids given out

vars == <<own, reg, doc, csrs, inbound, copies, hs, tasks, freed, spent>>

NoDoc == [stored |-> FALSE, csr |-> Nobody, to |-> [r \in Regs |-> Nobody]]
NoSub == [live |-> FALSE, dist |-> FALSE]
Idle == [pc |-> "free"]

\* How tasks stand between two awaits: the fan-out of a registration's change,
\* the jobs of a notification, the work on one copy, the registrations that
\* match already, the delete a teardown forwards.
WorkPcs == {"index", "map", "post", "rollback", "unmap", "drop", "forget", "unindex"}
Given == 1..spent.ids
About == SUBSET [r : Regs, form : Forms]
Reasons == {"updated", "newlyMatching", "noLongerMatching"}
Tasks ==
    [n : Given, pc : {"prepare"}, r : Regs, old : Forms \cup {Nobody}, new : Forms \cup {Nobody}]
    \cup [n : Given, pc : {"send", "notify", "dispatch"}, reason : Reasons,
          todo : About, jobs : SUBSET Given, about : About]
    \cup [n : Given, pc : WorkPcs, r : Regs, id : Given, reason : Reasons,
          todo : About, jobs : SUBSET Given, about : About]
    \cup [n : Given, pc : {"initial", "list"}, csr : Given]
    \cup [n : Given, pc : {"delete"}, r : Regs, id : Given]

\* How requests do: with nothing in hand, with the Registration Subscription's
\* id, with that and the document they read, or with the document alone.
Docs == [stored : BOOLEAN, csr : Given \cup {Nobody}, to : [Regs -> Given \cup {Nobody}]]
Requests ==
    [pc : {"free", "csr", "follow", "get_csr", "ds_get"}]
    \cup [pc : {"read"}, csr : Given]
    \cup [pc : {"put", "make"}, csr : Given, doc : Docs]
    \cup [pc : {"inbound_delete", "ds_delete", "csr_delete", "forward"}, doc : Docs]

TypeOK ==
    /\ own \in [live : BOOLEAN, dist : BOOLEAN]
    /\ reg \in [Regs -> Forms \cup {Nobody}]
    /\ doc \in Docs /\ (~doc.stored => doc = NoDoc)
    /\ csrs \subseteq Given /\ inbound \subseteq Given /\ copies \subseteq [r : Regs, id : Given]
    /\ hs \in [Handlers -> Requests]
    /\ tasks \subseteq Tasks
    /\ freed \in [Regs -> Nat]
    /\ spent \in [{"asks", "fails", "unindexed", "ids"} -> Nat]

Init ==
    /\ own = NoSub /\ doc = NoDoc
    /\ reg \in [Regs -> Forms \cup {Nobody}]
    /\ csrs = {} /\ inbound = {} /\ copies = {} /\ tasks = {}
    /\ hs = [h \in Handlers |-> Idle]
    /\ freed = [r \in Regs |-> 0]
    /\ spent = [c \in {"asks", "fails", "unindexed", "ids"} |-> 0]

Fresh == spent.ids + 1
Count(c) == spent' = [spent EXCEPT ![c] = @ + 1]
Fails == spent.fails < MaxFails /\ Count("fails")

Ask(op) == op \in Ops /\ spent.asks < MaxAsks
Go(h, s) == hs' = [hs EXCEPT ![h] = s]
Answer(h) == Go(h, Idle)
Turn(t, s) == tasks' = (tasks \ {t}) \cup {s}
At(t, pc) == Turn(t, [t EXCEPT !.pc = pc])

-----------------------------------------------------------------------------
(* Registrations, and the notifications their changes set off.             *)

\* create, update and delete_registration; the fan-out is prepared after the
\* write, which no lock covers any more.
RegWrite(r, form) ==
    /\ Ask("reg") /\ form # reg[r]
    /\ reg' = [reg EXCEPT ![r] = form]
    /\ tasks' = tasks \cup {[n |-> Fresh, pc |-> "prepare", r |-> r, old |-> reg[r], new |-> form]}
    /\ spent' = [spent EXCEPT !.asks = @ + 1, !.ids = @ + 1]
    /\ UNCHANGED <<own, doc, csrs, inbound, copies, hs, freed>>

Matching(form) == form # Nobody /\ form.match
csource_trigger(old, new) ==
    IF Matching(new) THEN IF Matching(old) THEN "updated" ELSE "newlyMatching"
    ELSE "noLongerMatching"

\* prepare_csource_jobs: one job for each Registration Subscription there is.
Prepare(t) ==
    LET reason == csource_trigger(t.old, t.new)
        form == IF reason = "noLongerMatching" THEN t.old ELSE t.new
    IN /\ t.pc = "prepare"
       /\ IF csrs = {} \/ ~(Matching(t.old) \/ Matching(t.new)) THEN tasks' = tasks \ {t}
          ELSE Turn(t, [n |-> t.n, pc |-> "send", reason |-> reason, todo |-> {},
                        jobs |-> csrs, about |-> {[r |-> t.r, form |-> form]}])
       /\ UNCHANGED <<own, reg, doc, csrs, inbound, copies, hs, freed, spent>>

\* send_csource_jobs: the jobs one by one, those whose subscription is still
\* there.
Send(t) ==
    /\ t.pc = "send"
    /\ IF t.jobs = {} THEN tasks' = tasks \ {t}
       ELSE \E c \in t.jobs :
               Turn(t, [n |-> t.n, pc |-> IF c \in csrs THEN "notify" ELSE "send",
                        reason |-> t.reason, todo |-> IF c \in csrs THEN t.about ELSE {},
                        jobs |-> t.jobs \ {c}, about |-> t.about])
    /\ UNCHANGED <<own, reg, doc, csrs, inbound, copies, hs, freed, spent>>

\* csource_initial: the registrations that match already.
Initial(t) ==
    /\ t.pc = "initial"
    /\ IF t.csr \in csrs THEN At(t, "list") ELSE tasks' = tasks \ {t}
    /\ UNCHANGED <<own, reg, doc, csrs, inbound, copies, hs, freed, spent>>

InitialList(t) ==
    LET now == {[r |-> r, form |-> reg[r]] : r \in {r \in Regs : Matching(reg[r])}}
    IN /\ t.pc = "list"
       /\ IF now = {} THEN tasks' = tasks \ {t}
          ELSE Turn(t, [n |-> t.n, pc |-> "notify", reason |-> "newlyMatching", todo |-> now,
                        jobs |-> {}, about |-> {}])
       /\ UNCHANGED <<own, reg, doc, csrs, inbound, copies, hs, freed, spent>>

-----------------------------------------------------------------------------
(* on_csource_notification.                                                *)

Notified(t) ==
    /\ t.pc = "notify"
    /\ At(t, IF own.live /\ own.dist THEN "dispatch" ELSE "send")
    /\ UNCHANGED <<own, reg, doc, csrs, inbound, copies, hs, freed, spent>>

\* The next registration of the notification, or the next job.
Resumed(t) == [n |-> t.n, pc |-> "dispatch", reason |-> t.reason, todo |-> t.todo,
             jobs |-> t.jobs, about |-> t.about]

\* What to do about one registration depends on the reason, on whether it is
\* mapped, and on what its source supports.
Dispatch(t) ==
    /\ t.pc = "dispatch"
    /\ IF t.todo = {} THEN At(t, "send") /\ UNCHANGED spent
       ELSE \E x \in t.todo :
            LET left == [t EXCEPT !.todo = @ \ {x}]
                mapped == doc.to[x.r]
                Work(pc, id) == [n |-> t.n, pc |-> pc, r |-> x.r, id |-> id, reason |-> t.reason,
                                 todo |-> left.todo, jobs |-> t.jobs, about |-> t.about]
            IN CASE t.reason # "noLongerMatching" /\ mapped = Nobody /\ "create" \in x.form.ops ->
                      Turn(t, Work("index", Fresh)) /\ Count("ids")
                 [] t.reason = "noLongerMatching" /\ mapped # Nobody /\ "delete" \in x.form.ops ->
                      Turn(t, Work("drop", mapped)) /\ UNCHANGED spent
                 [] OTHER -> Turn(t, left) /\ UNCHANGED spent
    /\ UNCHANGED <<own, reg, doc, csrs, inbound, copies, hs, freed>>

\* inbound_put, whose failure is only logged.
InboundPut(t) ==
    /\ t.pc = "index" /\ At(t, "map")
    /\ \/ inbound' = inbound \cup {t.id} /\ UNCHANGED spent
       \/ /\ spent.fails < MaxFails
          /\ spent' = [spent EXCEPT !.fails = @ + 1, !.unindexed = @ + 1] /\ UNCHANGED inbound
    /\ UNCHANGED <<own, reg, doc, csrs, copies, hs, freed>>

\* Mutant: a second copy takes the place of the first.
MayMap_blind(r) == doc.stored

\* ds_set_remote, under the store's lock: one copy to a registration, and none
\* without the document.
MayMap(r) == doc.stored /\ doc.to[r] = Nobody

\* The document with r mapped to id.
Mapping(r, id) == [doc EXCEPT !.to = [@ EXCEPT ![r] = id]]

SetRemote(t) ==
    /\ t.pc = "map"
    /\ IF MayMap(t.r) THEN doc' = Mapping(t.r, t.id) /\ At(t, "post")
                      ELSE UNCHANGED doc /\ At(t, "unindex")
    /\ UNCHANGED <<own, reg, csrs, inbound, copies, hs, freed, spent>>

\* The copy is made at the source, or is not, and the answer may be lost.
Post(t) ==
    LET copy == [r |-> t.r, id |-> t.id]
    IN /\ t.pc = "post"
       /\ \/ copies' = copies \cup {copy} /\ Turn(t, Resumed(t)) /\ UNCHANGED spent
          \/ copies' \in {copies, copies \cup {copy}} /\ At(t, "rollback") /\ Fails
       /\ UNCHANGED <<own, reg, doc, csrs, inbound, hs, freed>>

Rollback(t) ==
    /\ t.pc = "rollback"
    /\ inbound' = inbound \ {t.id} /\ At(t, "unmap")
    /\ UNCHANGED <<own, reg, doc, csrs, copies, hs, freed, spent>>

\* Taking a mapping away takes whatever id is there.
Unmapped(r) == IF doc.to[r] = Nobody THEN UNCHANGED <<doc, freed>>
               ELSE /\ doc' = Mapping(r, Nobody)
                    /\ freed' = [freed EXCEPT ![r] = @ + 1]

\* Mutant: a refused copy stays mapped.
Unmap_kept(t) ==
    /\ t.pc = "unmap" /\ Turn(t, Resumed(t))
    /\ UNCHANGED <<own, reg, doc, csrs, inbound, copies, hs, freed, spent>>

Unmap(t) ==
    /\ t.pc = "unmap" /\ Unmapped(t.r) /\ Turn(t, Resumed(t))
    /\ UNCHANGED <<own, reg, csrs, inbound, copies, hs, spent>>

\* noLongerMatching: the copy goes at the source, then its mapping, then its
\* entry in the index.
Drop(t) ==
    /\ t.pc = "drop" /\ At(t, "forget")
    /\ \/ copies' = copies \ {[r |-> t.r, id |-> t.id]} /\ UNCHANGED spent
       \/ UNCHANGED copies /\ Fails
    /\ UNCHANGED <<own, reg, doc, csrs, inbound, hs, freed>>

Forget(t) ==
    /\ t.pc = "forget" /\ Unmapped(t.r) /\ At(t, "unindex")
    /\ UNCHANGED <<own, reg, csrs, inbound, copies, hs, spent>>

InboundDelete(t) ==
    /\ t.pc = "unindex"
    /\ inbound' = inbound \ {t.id} /\ Turn(t, Resumed(t))
    /\ UNCHANGED <<own, reg, doc, csrs, copies, hs, freed, spent>>

\* The delete that a teardown forwards.
DeleteForward(t) ==
    /\ t.pc = "delete" /\ tasks' = tasks \ {t}
    /\ \/ copies' = copies \ {[r |-> t.r, id |-> t.id]} /\ UNCHANGED spent
       \/ UNCHANGED copies /\ Fails
    /\ UNCHANGED <<own, reg, doc, csrs, inbound, hs, freed>>

TaskStep(t) ==
    \/ Prepare(t) \/ Send(t) \/ Initial(t) \/ InitialList(t) \/ Notified(t) \/ Dispatch(t)
    \/ InboundPut(t) \/ SetRemote(t) \/ Post(t) \/ Rollback(t) \/ Unmap(t) \/ Drop(t) \/ Forget(t)
    \/ InboundDelete(t) \/ DeleteForward(t)

-----------------------------------------------------------------------------
(* The requests: create, update (localOnly on or off) and delete.          *)

create(h, dist) ==
    /\ hs[h] = Idle /\ Ask("create") /\ ~own.live
    /\ own' = [live |-> TRUE, dist |-> dist]
    /\ Go(h, [pc |-> IF dist THEN "csr" ELSE "free"]) /\ Count("asks")
    /\ UNCHANGED <<reg, doc, csrs, inbound, copies, tasks, freed>>

update(h, dist) ==
    /\ hs[h] = Idle /\ Ask("update") /\ own.live
    /\ own' = [own EXCEPT !.dist = dist]
    /\ Go(h, [pc |-> "follow"]) /\ Count("asks")
    /\ UNCHANGED <<reg, doc, csrs, inbound, copies, tasks, freed>>

delete(h) ==
    /\ hs[h] = Idle /\ Ask("delete") /\ own.live
    /\ own' = NoSub
    /\ Go(h, [pc |-> "ds_get"]) /\ Count("asks")
    /\ UNCHANGED <<reg, doc, csrs, inbound, copies, tasks, freed>>

\* on_subscription_created: the Registration Subscription, then the mapping
\* document with its id, read and written back whole.
CsrCreate(h) ==
    /\ hs[h].pc = "csr"
    /\ csrs' = csrs \cup {Fresh} /\ Go(h, [pc |-> "read", csr |-> Fresh]) /\ Count("ids")
    /\ UNCHANGED <<own, reg, doc, inbound, copies, tasks, freed>>

DsRead(h) ==
    /\ hs[h].pc = "read"
    /\ Go(h, [pc |-> "put", csr |-> hs[h].csr, doc |-> doc])
    /\ UNCHANGED <<own, reg, doc, csrs, inbound, copies, tasks, freed, spent>>

Spawned(c) == tasks' = tasks \cup {[n |-> Fresh, pc |-> "initial", csr |-> c]} /\ Count("ids")

\* The document as it was read, with the new Registration Subscription.
Written(h) == [stored |-> TRUE, csr |-> hs[h].csr, to |-> hs[h].doc.to]

\* ds_put: overwrite, or create what is not there.
DsPut(h) ==
    /\ hs[h].pc = "put"
    /\ IF doc.stored
       THEN /\ doc' = Written(h)
            /\ Answer(h) /\ Spawned(hs[h].csr)
       ELSE Go(h, [hs[h] EXCEPT !.pc = "make"]) /\ UNCHANGED <<doc, tasks, spent>>
    /\ UNCHANGED <<own, reg, csrs, inbound, copies, freed>>

DsMake(h) ==
    /\ hs[h].pc = "make"
    /\ doc' = IF doc.stored THEN doc ELSE Written(h)
    /\ Answer(h) /\ Spawned(hs[h].csr)
    /\ UNCHANGED <<own, reg, csrs, inbound, copies, freed>>

\* on_subscription_updated: torn down when it is local now, created when it has
\* no Registration Subscription yet.
Follow(h) ==
    /\ hs[h].pc = "follow"
    /\ Go(h, [pc |-> IF ~own.live THEN "free" ELSE IF own.dist THEN "get_csr" ELSE "ds_get"])
    /\ UNCHANGED <<own, reg, doc, csrs, inbound, copies, tasks, freed, spent>>

GetCsr(h) ==
    /\ hs[h].pc = "get_csr"
    /\ Go(h, [pc |-> IF doc.csr = Nobody THEN "csr" ELSE "free"])
    /\ UNCHANGED <<own, reg, doc, csrs, inbound, copies, tasks, freed, spent>>

\* on_subscription_deleted works on the document as it reads it here.
DsGet(h) ==
    /\ hs[h].pc = "ds_get"
    /\ Go(h, [pc |-> "inbound_delete", doc |-> doc])
    /\ UNCHANGED <<own, reg, doc, csrs, inbound, copies, tasks, freed, spent>>

Remotes(h) == {r \in Regs : hs[h].doc.to[r] # Nobody}

\* The awaits of the loop over the copies are taken as one.
IndexGone(h) ==
    /\ hs[h].pc = "inbound_delete"
    /\ inbound' = inbound \ {hs[h].doc.to[r] : r \in Remotes(h)}
    /\ Go(h, [hs[h] EXCEPT !.pc = "ds_delete"])
    /\ UNCHANGED <<own, reg, doc, csrs, copies, tasks, freed, spent>>

DsDelete(h) ==
    /\ hs[h].pc = "ds_delete"
    /\ doc' = NoDoc
    /\ freed' = [r \in Regs |-> IF doc.to[r] = Nobody THEN freed[r] ELSE freed[r] + 1]
    /\ Go(h, [hs[h] EXCEPT !.pc = "csr_delete"])
    /\ UNCHANGED <<own, reg, csrs, inbound, copies, tasks, spent>>

CsrDelete(h) ==
    /\ hs[h].pc = "csr_delete"
    /\ csrs' = csrs \ {hs[h].doc.csr}
    /\ Go(h, [hs[h] EXCEPT !.pc = "forward"])
    /\ UNCHANGED <<own, reg, doc, inbound, copies, tasks, freed, spent>>

\* Every source that can delete, and every one whose registration is gone.
DeletesSpawned(h) ==
    LET asked == {r \in Remotes(h) : reg[r] = Nobody \/ "delete" \in reg[r].ops}
    IN /\ hs[h].pc = "forward"
       /\ tasks' = tasks \cup {[n |-> hs[h].doc.to[r], pc |-> "delete", r |-> r,
                                id |-> hs[h].doc.to[r]] : r \in asked}
       /\ Answer(h)
       /\ UNCHANGED <<own, reg, doc, csrs, inbound, copies, freed, spent>>

HandlerStep(h) ==
    \/ \E dist \in BOOLEAN : create(h, dist) \/ update(h, dist)
    \/ delete(h) \/ CsrCreate(h) \/ DsRead(h) \/ DsPut(h) \/ DsMake(h) \/ Follow(h) \/ GetCsr(h)
    \/ DsGet(h) \/ IndexGone(h) \/ DsDelete(h) \/ CsrDelete(h) \/ DeletesSpawned(h)

Next ==
    \/ \E r \in Regs, form \in Forms \cup {Nobody} : RegWrite(r, form)
    \/ \E t \in tasks : TaskStep(t)
    \/ \E h \in Handlers : HandlerStep(h)

Spec == Init /\ [][Next]_vars

-----------------------------------------------------------------------------
(* Properties.                                                             *)

\* A notification from a copy finds its subscription: what is mapped is in the
\* inbound index, unless its index write failed or somebody is between taking
\* the entry and the mapping away.
Leaving(r) ==
    \/ \E t \in tasks : t.pc = "unmap" /\ t.r = r
    \/ \E h \in Handlers : hs[h].pc = "ds_delete"
MappedIsIndexed ==
    \A r \in Regs : doc.to[r] = Nobody \/ doc.to[r] \in inbound
                    \/ Leaving(r) \/ spent.unindexed > 0

\* "two notifications racing for the same pair would otherwise each create a
\* remote copy and orphan the loser's": a source gets another copy only after
\* the mapping of an earlier one was taken away.
OneCopyEach ==
    \A r \in Regs : Cardinality({c \in copies : c.r = r}) <= 1 + freed[r]

\* Both hold while the subscription's requests come one at a time.
CopiesMapped == MappedIsIndexed /\ OneCopyEach

-----------------------------------------------------------------------------
(* The inductive invariant behind them.                                    *)

\* A request that writes the mapping document finds none; one that takes it
\* away leaves none.
RequestInv ==
    /\ doc.stored => doc.csr # Nobody
    /\ \A h \in Handlers :
          /\ hs[h].pc \in {"csr", "read", "put", "make", "csr_delete", "forward"} => doc = NoDoc
          /\ hs[h].pc \in {"put", "make"} => hs[h].doc = NoDoc
          /\ hs[h].pc = "free" /\ ~own.live => doc = NoDoc
          /\ hs[h].pc \in {"follow", "get_csr", "csr", "read", "put", "make"} => own.live

\* Who bears the id of a copy.
Bears(t) == t.pc \in WorkPcs \cup {"delete"}
Carries(h) == hs[h].pc \in {"put", "make", "inbound_delete", "ds_delete", "csr_delete", "forward"}

\* Nobody else has the id of a copy that is not mapped yet.
Unknown(t) ==
    /\ \A u \in tasks : Bears(u) /\ u.id = t.id => u = t
    /\ \A r \in Regs : doc.to[r] # t.id
    /\ \A h \in Handlers : Carries(h) => \A r \in Regs : hs[h].doc.to[r] # t.id

\* An id is mapped at one registration, and the work on it is about that one.
IdInv ==
    /\ \A r, q \in Regs : doc.to[r] = doc.to[q] /\ doc.to[r] # Nobody => r = q
    /\ \A t \in tasks :
          /\ t.pc \in {"index", "map"} => Unknown(t)
          /\ t.pc \in {"post", "rollback", "unmap", "drop", "forget"}
                => \A r \in Regs : doc.to[r] = t.id => r = t.r
          /\ t.pc = "unindex" => \A r \in Regs : doc.to[r] # t.id

\* A copy is indexed before it is mapped.
IndexInv ==
    /\ spent.unindexed = 0 => \A t \in tasks : t.pc = "map" => t.id \in inbound
    /\ MappedIsIndexed

\* The copies r has, is about to have, or has mapped: each was mapped once, and
\* at most one is still.
Copy(r, id) == [r |-> r, id |-> id]
Used(r) ==
    {c \in copies : c.r = r}
    \cup {Copy(r, t.id) : t \in {u \in tasks : u.pc = "post" /\ u.r = r}}
    \cup {Copy(r, id) : id \in {doc.to[r]} \ {Nobody}}
UsedInv ==
    \A r \in Regs :
       /\ IsFiniteSet(Used(r))
       /\ Cardinality(Used(r)) <= freed[r] + (IF doc.to[r] = Nobody THEN 0 ELSE 1)

CopyInv == RequestInv /\ IdInv /\ IndexInv /\ UsedInv
=============================================================================
