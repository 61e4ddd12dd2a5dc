--------------------------- MODULE StoreContract ---------------------------
(***************************************************************************)
(* What a current-state driver promises its callers (CurrentStateDriver,   *)
(* antares-store lib.rs): a call takes effect at one instant between being *)
(* made and being answered, on the one document it names; a document past  *)
(* its expiry is absent for every call; what was answered outlives a       *)
(* crash.  Only the purge of a tenant is no instant: it meets each of the  *)
(* tenant's documents at its own.                                          *)
(***************************************************************************)
EXTENDS Integers

CONSTANTS
    Keys,       \* documents: kind, tenant and id
    Clients,    \* requests and background tasks that use the store
    Asks,       \* the calls they may make
    MaxTime,
    Absent      \* no document

VARIABLES
    time,
    held,       \* held[k]: the document at k, as anybody may see it
    calls       \* calls[c]: the call of client c

vars == <<time, held, calls>>

Idle == [pc |-> "idle"]

\* 4.22: what an Entity is at t: nothing once it expired, and without the
\* Attribute instances that did.  No other document ends by itself.
Past(stamp, t) == stamp # 0 /\ stamp < t
Live(k, d, t) ==
    IF d = Absent \/ k.kind # "entity" THEN d
    ELSE IF Past(d.till, t) THEN Absent
    ELSE [val |-> d.val, till |-> d.till, inst |-> IF Past(d.inst, t) THEN 0 ELSE d.inst]

\* The document a call leaves where d was, and its answer.
After(a, d) ==
    CASE a.op = "create" -> IF d = Absent THEN a.doc ELSE d
      [] a.op = "upsert" -> a.doc
      [] a.op = "delete" -> Absent
      [] a.op = "delete_if" -> IF d # Absent /\ d.val \in a.keep THEN Absent ELSE d
      [] a.op = "mutate" -> IF d # Absent /\ d.val \notin a.refuses
                            THEN [val |-> a.val, till |-> d.till, inst |-> d.inst] ELSE d
      [] OTHER -> d
Answer(a, d) ==
    IF d = Absent THEN IF a.op \in {"create", "upsert"} THEN "created" ELSE "absent"
    ELSE CASE a.op = "create" -> "refused"
           [] a.op = "delete_if" -> IF d.val \in a.keep THEN "done" ELSE "absent"
           [] a.op = "mutate" -> IF d.val \in a.refuses THEN "refused" ELSE "done"
           [] OTHER -> "done"
Found(a, d) == IF a.op = "get" THEN d ELSE Absent

Of(tenant) == {k \in Keys : k.tenant = tenant}

Init ==
    /\ time = 1
    /\ held = [k \in Keys |-> Absent]
    /\ calls = [c \in Clients |-> Idle]

Ask(c) ==
    /\ calls[c] = Idle
    /\ \E a \in Asks : calls' = [calls EXCEPT ![c] = [pc |-> "asked", ask |-> a, met |-> {}]]
    /\ UNCHANGED <<time, held>>

Take(c) ==
    /\ calls[c].pc = "asked" /\ calls[c].ask.op # "purge"
    /\ LET a == calls[c].ask
       IN  /\ held' = [held EXCEPT ![a.key] = Live(a.key, After(a, @), time)]
           /\ calls' = [calls EXCEPT ![c] =
                  [pc |-> "taken", ask |-> a,
                   answer |-> Answer(a, held[a.key]), found |-> Found(a, held[a.key])]]
    /\ UNCHANGED time

\* The purge meets some of the tenant's documents.
Purge(c) ==
    /\ calls[c].pc = "asked" /\ calls[c].ask.op = "purge"
    /\ \E S \in SUBSET Of(calls[c].ask.tenant) :
           /\ held' = [k \in Keys |-> IF k \in S THEN Absent ELSE held[k]]
           /\ calls' = [calls EXCEPT ![c].met = @ \cup S]
    /\ UNCHANGED time

Purged(c) ==
    /\ calls[c].pc = "asked" /\ calls[c].ask.op = "purge"
    /\ calls[c].met = Of(calls[c].ask.tenant)
    /\ \E answer \in {"done", "absent"} :
           calls' = [calls EXCEPT ![c] =
               [pc |-> "taken", ask |-> calls[c].ask, answer |-> answer, found |-> Absent]]
    /\ UNCHANGED <<time, held>>

Answered(c) ==
    /\ calls[c].pc = "taken"
    /\ calls' = [calls EXCEPT ![c] = Idle]
    /\ UNCHANGED <<time, held>>

\* Callers are gone before they were answered: they hung up, or everything
\* stopped.  Whether their calls were taken they do not learn.
Lose ==
    /\ \E gone \in SUBSET Clients :
           calls' = [c \in Clients |-> IF c \in gone THEN Idle ELSE calls[c]]
    /\ UNCHANGED <<time, held>>

Tick ==
    /\ time < MaxTime
    /\ time' = time + 1
    /\ held' = [k \in Keys |-> Live(k, held[k], time')]
    /\ UNCHANGED calls

Next ==
    \/ Lose \/ Tick
    \/ \E c \in Clients : Ask(c) \/ Take(c) \/ Purge(c) \/ Purged(c) \/ Answered(c)

Spec == Init /\ [][Next]_vars
=============================================================================
