------------------------------ MODULE RowStore ------------------------------
(***************************************************************************)
(* The Postgres driver (antares-sql store/pg/doc.rs, entity.rs, mod.rs,    *)
(* any.rs): every call is a transaction of a few statements, at the        *)
(* isolation Postgres gives by default, where each statement sees what is  *)
(* committed when it runs.  A write claims its tenant's row, waits for the *)
(* lock of the document's row and holds both until it commits; a           *)
(* connection lost before that leaves nothing behind.                      *)
(*                                                                         *)
(* What a transaction holds is told by its call's record: claim is its     *)
(* lock on the tenants row, has the rows it locked.  now() is the instant  *)
(* a transaction began, so the clock only moves between transactions.      *)
(* Instances' own expiry, an upsert of an Entity (three transactions) and  *)
(* @contexts, which claim no tenant, are left out.                         *)
(***************************************************************************)
EXTENDS Integers, FiniteSets

CONSTANTS
    Keys,       \* documents: kind, tenant and id
    Clients,    \* handlers and background tasks, of any number of pods
    Asks,       \* the calls they make
    Default,    \* the tenant whose row is never removed (TenantId::DEFAULT)
    MaxTime, MaxCalls, MaxFaults,
    Absent

Docs == [val : Nat, till : Nat, inst : {0}]

\* An Entity is upserted by calls of its own, which are left out.
ASSUME RowStoreAssumption ==
    /\ MaxTime \in Nat /\ MaxCalls \in Nat /\ MaxFaults \in Nat
    /\ Absent \notin Docs
    /\ \A a \in Asks :
          \/ a.op = "purge" /\ a.tenant \in {k.tenant : k \in Keys}
          \/ /\ a.key \in Keys
             /\ \/ a.op = "create" /\ a.doc \in Docs
                \/ a.op = "upsert" /\ a.doc \in Docs /\ a.key.kind # "entity"
                \/ a.op = "mutate" /\ a.val \in Nat
                \/ a.op \in {"delete", "delete_if", "get"}

VARIABLES
    time,
    row,        \* the committed rows of entities and of the document tables
    index,      \* index[k]: csource_index, the match rows of a registration
    tenants,    \* the committed rows of tenants
    calls,      \* calls[c]: the call of client c and its transaction
    asked, faults

vars == <<time, row, index, tenants, calls, asked, faults>>

Idle == [pc |-> "idle"]
Tenants == {k.tenant : k \in Keys}
Of(t) == {k \in Keys : k.tenant = t}
IsEntity(k) == k.kind = "entity"
IsRegistration(k) == k.kind = "registration"

\* 4.22 in SQL: expires_at <= now().  Only entities have the predicate.
Expired(k) == IsEntity(k) /\ row[k] # Absent /\ row[k].till # 0 /\ row[k].till <= time
Gone(k) == row[k] = Absent \/ Expired(k)

\* What a registration's document is flattened to: the values 2n and 2n + 1
\* differ in bookkeeping only (timesSent and the like).
index_rows(k, d) == IF IsRegistration(k) /\ d # Absent THEN d.val \div 2 ELSE Absent

-----------------------------------------------------------------------------
(* Transactions and their locks.                                           *)

Open(c) == calls[c].pc \in {"unknown", "claimed", "written", "decided", "purging"}
Others(c) == {o \in Clients \ {c} : Open(o)}

TenantOf(c) == IF calls[c].ask.op = "purge" THEN calls[c].ask.tenant ELSE calls[c].ask.key.tenant

\* FOR SHARE and the exclusive lock of an INSERT or of FOR UPDATE.
ClaimedBy(o, t) == calls[o].claim # "none" /\ TenantOf(o) = t
Exclusive(o) == calls[o].claim \in {"insert", "update"}
MayShare(c, t) == \A o \in Others(c) : ClaimedBy(o, t) => ~ Exclusive(o)
MayOwn(c, t) == \A o \in Others(c) : ~ ClaimedBy(o, t)

\* Mutant: only who has claimed the tenant is waited for.
RowFree_claims(c, k) == \A o \in Others(c) : ClaimedBy(o, k.tenant) => k \notin calls[o].has

RowFree(c, k) == \A o \in Others(c) : k \notin calls[o].has

Tx(c, pc, claim, has, new, answer) ==
    [pc |-> pc, ask |-> calls[c].ask, claim |-> claim, has |-> has, new |-> new,
     answer |-> answer, found |-> Absent]
Begins(c, pc, claim) == Tx(c, pc, claim, {}, Absent, "none")
At(c, s) == calls' = [calls EXCEPT ![c] = s]
Answered(c, answer, found) ==
    [pc |-> "done", ask |-> calls[c].ask, answer |-> answer, found |-> found]

Ask(c) ==
    /\ calls[c].pc = "idle" /\ asked < MaxCalls
    /\ \E a \in Asks : At(c, [pc |-> "asked", ask |-> a])
    /\ asked' = asked + 1
    /\ UNCHANGED <<time, row, index, tenants, faults>>

\* A create or an upsert may be its tenant's first write.
Claims(a) == a.op \in {"create", "upsert"}

\* Mutant: the claim is a statement of its own, before the transaction.
claim_tenant_apart(c) ==
    /\ calls[c].pc = "asked" /\ Claims(calls[c].ask)
    /\ MayShare(c, TenantOf(c))
    /\ At(c, Begins(c, "claimed", "none"))
    /\ tenants' = tenants \cup {TenantOf(c)}
    /\ UNCHANGED <<time, row, index, asked, faults>>

\* SELECT ... FOR SHARE: the row, once nobody is about to remove it.
claim_tenant(c) ==
    /\ calls[c].pc = "asked" /\ Claims(calls[c].ask)
    /\ LET t == TenantOf(c)
       IN  \/ /\ t \in tenants /\ MayShare(c, t)
              /\ At(c, Begins(c, "claimed", "share"))
           \/ t \notin tenants /\ At(c, Begins(c, "unknown", "none"))
    /\ UNCHANGED <<time, row, index, tenants, asked, faults>>

\* INSERT ... ON CONFLICT DO UPDATE: waits for whoever has the row or is
\* inserting it, and then has it alone.
insert_tenant(c) ==
    /\ calls[c].pc = "unknown" /\ MayOwn(c, TenantOf(c))
    /\ At(c, Begins(c, "claimed", "insert"))
    /\ UNCHANGED <<time, row, index, tenants, asked, faults>>

-----------------------------------------------------------------------------
(* Statements.  One that writes waits for the row and keeps it.            *)

Ready(c, op) ==
    /\ calls[c].ask.op = op
    /\ calls[c].pc = IF Claims(calls[c].ask) THEN "claimed" ELSE "asked"
ClaimOf(c) == IF calls[c].pc = "claimed" THEN calls[c].claim ELSE "none"
Begun(c) == calls[c].pc # "idle"

Writes(c, new, answer) ==
    /\ RowFree(c, calls[c].ask.key)
    /\ At(c, Tx(c, "written", ClaimOf(c), {calls[c].ask.key}, new, answer))
    /\ UNCHANGED <<time, row, index, tenants, asked, faults>>

\* The transaction has its answer and is still to end.
Decides(c, answer) ==
    /\ At(c, Tx(c, "decided", ClaimOf(c), {}, Absent, answer))
    /\ UNCHANGED <<time, row, index, tenants, asked, faults>>

\* A statement that found no row to lock: the transaction is over.
Finds(c, answer, found) ==
    /\ At(c, Answered(c, answer, found))
    /\ UNCHANGED <<time, row, index, tenants, asked, faults>>

\* INSERT ... ON CONFLICT: an expired entity is created over, anything else
\* that is there refuses.  Either waits for who has the row.
Create(c) ==
    /\ Begun(c) /\ Ready(c, "create")
    /\ LET k == calls[c].ask.key
       IN  \/ Gone(k) /\ Writes(c, calls[c].ask.doc, "created")
           \/ ~ Gone(k) /\ RowFree(c, k) /\ Decides(c, "refused")

Upsert(c) ==
    /\ Begun(c) /\ Ready(c, "upsert")
    /\ Writes(c, calls[c].ask.doc, IF row[calls[c].ask.key] = Absent THEN "created" ELSE "done")

Delete(c) ==
    /\ Begun(c) /\ Ready(c, "delete")
    /\ IF Gone(calls[c].ask.key) THEN Finds(c, "absent", Absent) ELSE Writes(c, Absent, "done")

\* The DELETE hands out the document it removed; a refusal rolls it back.
delete_if(c) ==
    /\ Begun(c) /\ Ready(c, "delete_if")
    /\ LET k == calls[c].ask.key
       IN  IF Gone(k) THEN Finds(c, "absent", Absent)
           ELSE \/ row[k].val \in calls[c].ask.keep /\ Writes(c, Absent, "done")
                \/ /\ row[k].val \notin calls[c].ask.keep /\ RowFree(c, k)
                   /\ Decides(c, "absent")

\* Mutant: the document is read before its lock is waited for.
Mutate_unlocked(c) ==
    /\ Begun(c) /\ Ready(c, "mutate")
    /\ LET a == calls[c].ask
           d == row[a.key]
       IN  IF Gone(a.key) THEN Finds(c, "absent", Absent)
           ELSE /\ At(c, Tx(c, "written", "none", {}, [val |-> a.val, till |-> d.till, inst |-> 0], "done"))
                /\ UNCHANGED <<time, row, index, tenants, asked, faults>>

\* SELECT ... FOR UPDATE, the closure, UPDATE.
Mutate(c) ==
    /\ Begun(c) /\ Ready(c, "mutate")
    /\ LET a == calls[c].ask
           d == row[a.key]
       IN  IF Gone(a.key) THEN Finds(c, "absent", Absent)
           ELSE \/ /\ d.val \notin a.refuses
                   /\ Writes(c, [val |-> a.val, till |-> d.till, inst |-> 0], "done")
                \/ d.val \in a.refuses /\ RowFree(c, a.key) /\ Decides(c, "refused")

Get(c) ==
    /\ Begun(c) /\ Ready(c, "get")
    /\ LET k == calls[c].ask.key
       IN  IF Gone(k) THEN Finds(c, "absent", Absent) ELSE Finds(c, "done", row[k])

-----------------------------------------------------------------------------
(* Commit.                                                                 *)

Claimed(c) == IF calls[c].claim = "insert" THEN tenants \cup {TenantOf(c)} ELSE tenants

\* Mutant: a create that lost rebuilds the winner's match rows.
Refused_rebuilding(c) ==
    /\ calls[c].pc = "decided"
    /\ tenants' = Claimed(c)
    /\ At(c, Answered(c, calls[c].answer, Absent))
    /\ index' = IF calls[c].ask.op = "create"
                THEN [index EXCEPT ![calls[c].ask.key] = index_rows(calls[c].ask.key, calls[c].ask.doc)]
                ELSE index
    /\ UNCHANGED <<time, row, asked, faults>>

\* Nothing was written, but the claim may be a tenant's first.
Refused(c) ==
    /\ calls[c].pc = "decided"
    /\ tenants' = Claimed(c)
    /\ At(c, Answered(c, calls[c].answer, Absent))
    /\ UNCHANGED <<time, row, index, asked, faults>>

\* rebuild_csource_index is part of a registration's write; a mutate leaves
\* alone what its document flattens to as before, and a removed registration
\* takes its rows with it (ON DELETE CASCADE).
Commit(c) ==
    /\ calls[c].pc = "written"
    /\ LET k == calls[c].ask.key
       IN  /\ row' = [row EXCEPT ![k] = calls[c].new]
           /\ index' = [index EXCEPT ![k] =
                  IF calls[c].ask.op = "mutate" /\ index_rows(k, row[k]) = index_rows(k, calls[c].new)
                  THEN @ ELSE index_rows(k, calls[c].new)]
    /\ tenants' = Claimed(c)
    /\ At(c, Answered(c, calls[c].answer, Absent))
    /\ UNCHANGED <<time, asked, faults>>

Reply(c) ==
    /\ calls[c].pc = "done"
    /\ At(c, Idle)
    /\ UNCHANGED <<time, row, index, tenants, asked, faults>>

-----------------------------------------------------------------------------
(* The purge of a tenant: its row for itself, then table by table.         *)

\* SELECT ... FOR UPDATE waits for every write that has claimed the tenant.
Purge(c) ==
    /\ calls[c].pc = "asked" /\ calls[c].ask.op = "purge"
    /\ LET t == TenantOf(c)
       IN  \/ /\ t \notin tenants
              /\ At(c, [Answered(c, "absent", Absent) EXCEPT !.pc = "purged"])
           \/ /\ t \in tenants /\ MayOwn(c, t)
              /\ At(c, Begins(c, "purging", "update"))
    /\ UNCHANGED <<time, row, index, tenants, asked, faults>>

\* The DELETE of a table reaches a row, once whoever has it lets go.
PurgeRow(c, k) ==
    /\ calls[c].pc = "purging"
    /\ k \in Of(TenantOf(c)) \ calls[c].has
    /\ row[k] # Absent /\ RowFree(c, k)
    /\ At(c, [calls[c] EXCEPT !.has = @ \cup {k}])
    /\ UNCHANGED <<time, row, index, tenants, asked, faults>>

PurgeCommit(c) ==
    /\ calls[c].pc = "purging"
    /\ \A k \in Of(TenantOf(c)) : row[k] # Absent => k \in calls[c].has
    /\ row' = [k \in Keys |-> IF k \in calls[c].has THEN Absent ELSE row[k]]
    /\ index' = [k \in Keys |-> IF k \in calls[c].has THEN Absent ELSE index[k]]
    /\ tenants' = tenants \ ({TenantOf(c)} \ {Default})
    /\ At(c, [Answered(c, "done", Absent) EXCEPT !.pc = "purged"])
    /\ UNCHANGED <<time, asked, faults>>

PurgeReply(c) ==
    /\ calls[c].pc = "purged"
    /\ At(c, [calls[c] EXCEPT !.pc = "done"])
    /\ UNCHANGED <<time, row, index, tenants, asked, faults>>

\* reap_expired_entities (pg/maintenance.rs), of what expired before now: a row
\* some transaction is creating over waits, and is then no longer expired.
Reap(k) ==
    /\ Expired(k) /\ row[k].till < time
    /\ \A c \in Clients : Open(c) => k \notin calls[c].has
    /\ row' = [row EXCEPT ![k] = Absent]
    /\ UNCHANGED <<time, index, tenants, calls, asked, faults>>

-----------------------------------------------------------------------------
(* Faults and time.                                                        *)

\* A client hangs up, or a connection or a pod is lost: the transaction is
\* rolled back, and one that had committed is not told.
Lost(c) ==
    /\ faults < MaxFaults /\ faults' = faults + 1
    /\ calls[c].pc # "idle"
    /\ At(c, Idle)
    /\ UNCHANGED <<time, row, index, tenants, asked>>

Tick ==
    /\ time < MaxTime /\ \A c \in Clients : ~ Open(c)
    /\ time' = time + 1
    /\ UNCHANGED <<row, index, tenants, calls, asked, faults>>

Init ==
    /\ time = 0
    /\ row = [k \in Keys |-> Absent] /\ index = row
    /\ tenants = {}
    /\ calls = [c \in Clients |-> Idle]
    /\ asked = 0 /\ faults = 0

Call(c) ==
    \/ Ask(c) \/ claim_tenant(c) \/ insert_tenant(c)
    \/ Create(c) \/ Upsert(c) \/ Delete(c) \/ delete_if(c) \/ Mutate(c) \/ Get(c)
    \/ Refused(c) \/ Commit(c) \/ Reply(c)
    \/ Purge(c) \/ (\E k \in Keys : PurgeRow(c, k)) \/ PurgeCommit(c) \/ PurgeReply(c)

Next ==
    \/ \E c \in Clients : Call(c) \/ Lost(c)
    \/ \E k \in Keys : Reap(k)
    \/ Tick

Spec == Init /\ [][Next]_vars

-----------------------------------------------------------------------------
(* The contract.  An expired row is absent one tick later there.           *)

View(c) ==
    CASE calls[c].pc = "idle" -> Idle
      [] calls[c].pc \in {"asked", "unknown", "claimed", "written", "purging"} ->
             [pc |-> "asked", ask |-> calls[c].ask, met |-> {}]
      [] calls[c].pc = "purged" ->
             [pc |-> "asked", ask |-> calls[c].ask, met |-> Of(TenantOf(c))]
      [] OTHER -> [pc |-> "taken", ask |-> calls[c].ask, answer |-> calls[c].answer,
                   found |-> IF calls[c].pc = "done" THEN calls[c].found ELSE Absent]

Holds == [k \in Keys |-> IF Gone(k) THEN Absent ELSE row[k]]
Views == [c \in Clients |-> View(c)]

Contract == INSTANCE StoreContract WITH
    time <- time + 1, MaxTime <- MaxTime + 1, held <- Holds, calls <- Views

-----------------------------------------------------------------------------
(* Properties.                                                             *)

Answers == {"none", "created", "done", "refused", "absent"}
Maybe == Docs \cup {Absent}
Calls ==
    [pc : {"idle"}] \cup [pc : {"asked"}, ask : Asks]
      \cup [pc : {"unknown", "claimed", "written", "decided", "purging"}, ask : Asks,
            claim : {"none", "share", "insert", "update"}, has : SUBSET Keys,
            new : Maybe, answer : Answers, found : {Absent}]
      \cup [pc : {"purged", "done"}, ask : Asks, answer : Answers, found : Maybe]

\* Every variable is well formed; a lock is held by the call that is on it.
TypeOK ==
    /\ time \in 0..MaxTime
    /\ row \in [Keys -> Maybe]
    /\ index \in [Keys -> Nat \cup {Absent}]
    /\ tenants \subseteq Tenants
    /\ calls \in [Clients -> Calls]
    /\ \A c, o \in Clients : c # o /\ Open(c) /\ Open(o) => calls[c].has \cap calls[o].has = {}
    /\ asked \in 0..MaxCalls /\ faults \in 0..MaxFaults

\* "The tenant row and the rows it accounts for commit together" (mod.rs,
\* claim_tenant): nothing is stored for a tenant the inventory does not name,
\* whatever purges and first writes race; and "the extracted match rows are
\* never a version behind the document" (doc.rs, rebuild_csource_index).
RowsAccounted ==
    /\ \A k \in Keys : row[k] # Absent => k.tenant \in tenants
    /\ \A k \in Keys : index[k] = index_rows(k, row[k])

\* The driver keeps the contract: each call takes effect at one instant, and a
\* purge leaves nothing of what was there (CurrentStateDriver).
RowsKeepContract == Contract!Spec
=============================================================================
