--------------------------- MODULE IntervalClaim ---------------------------
(***************************************************************************)
(* One periodic subscription swept by several matcher pods on bus=nats     *)
(* (antares-api notify.rs, claim_interval and release_interval): every pod *)
(* ticks on its own and finds the same subscription due, from a mirror of  *)
(* its own; the row's lock decides whose firing it is.                     *)
(*                                                                         *)
(* A pod may look whenever it likes: what its clock saves it from doing is *)
(* SweepClock's.                                                           *)
(***************************************************************************)
EXTENDS Integers

CONSTANTS
    Pods,
    Interval,
    MaxTime, MaxFails

VARIABLES
    time,      \* now
    anchor,    \* the row's lastNotification, or createdAt while it has none
    mirrored,  \* mirrored[p]: the anchor in pod p's mirror
    firing,    \* firing[p]: pod p's firing between two awaits
    last,      \* the instant of the last notification sent, or of the creation
    unspent,   \* does the anchor stand for a claim that sent nothing?
    fails      \* failures so far

vars == <<time, anchor, mirrored, firing, last, unspent, fails>>

Idle == [pc |-> "idle"]

TypeOK ==
    /\ {time, anchor, last} \subseteq 0..MaxTime
    /\ mirrored \in [Pods -> 0..MaxTime]
    /\ \A p \in Pods : firing[p] \in {Idle} \cup [pc : {"claim"}]
                          \cup [pc : {"query", "release", "send", "mirror"},
                                prev : 0..MaxTime, at : 0..MaxTime]
    /\ unspent \in BOOLEAN /\ fails \in 0..MaxFails

Init ==
    /\ time = 0 /\ anchor = 0 /\ last = 0 /\ unspent = FALSE /\ fails = 0
    /\ mirrored = [p \in Pods |-> 0]
    /\ firing = [p \in Pods |-> Idle]

due_at(a) == a + Interval

Claimed == {"query", "release", "send", "mirror"}

\* A firing settles within one interval of its claim (a bound on how slow the
\* Entity query is, not a promise of the code).
Tick ==
    /\ time < MaxTime
    /\ \A p \in Pods : firing[p].pc \in Claimed => time + 1 < due_at(firing[p].at)
    /\ time' = time + 1
    /\ UNCHANGED <<anchor, mirrored, firing, last, unspent, fails>>

Step(p, s) == firing' = [firing EXCEPT ![p] = s]
At(p, pc) == Step(p, [firing[p] EXCEPT !.pc = pc])
Fails == fails < MaxFails /\ fails' = fails + 1

\* The sweep finds the mirror's document due.
Look(p) ==
    /\ firing[p] = Idle /\ time >= due_at(mirrored[p])
    /\ Step(p, [pc |-> "claim"])
    /\ UNCHANGED <<time, anchor, mirrored, last, unspent, fails>>

\* Mutant: the sweep's due check is not made again under the lock.
StillDue_unchecked == time >= anchor

\* The check that decides runs on the row, at the instant of the claim.
StillDue == time >= due_at(anchor)

claim_interval(p) ==
    /\ firing[p].pc = "claim"
    /\ IF StillDue THEN anchor' = time /\ Step(p, [pc |-> "query", prev |-> anchor, at |-> time])
                   ELSE UNCHANGED anchor /\ Step(p, Idle)
    /\ UNCHANGED <<time, mirrored, last, unspent, fails>>

\* The Entities to notify about: some, or none (a query that fails is read as
\* none).
Query(p) ==
    /\ firing[p].pc = "query"
    /\ At(p, "send") \/ At(p, "release")
    /\ UNCHANGED <<time, anchor, mirrored, last, unspent, fails>>

\* Mutant: an empty firing keeps its claim.
Released_kept(prev) == anchor

\* What the claim overwrote.
Released(prev) == prev

release_interval(p) ==
    /\ firing[p].pc = "release" /\ Step(p, Idle)
    /\ \/ anchor' = Released(firing[p].prev) /\ UNCHANGED <<unspent, fails>>
       \/ Fails /\ unspent' = TRUE /\ UNCHANGED anchor
    /\ UNCHANGED <<time, mirrored, last>>

\* deliver_as books the row and sends.  It sends nothing in a cooldown, to an
\* open circuit or when the booking fails, and the claim stays.
Deliver(p) ==
    /\ firing[p].pc = "send"
    /\ \/ /\ anchor' = time /\ last' = time /\ unspent' = FALSE
          /\ At(p, "mirror") /\ UNCHANGED fails
       \/ unspent' = TRUE /\ Step(p, Idle) /\ UNCHANGED <<anchor, last, fails>>
    /\ UNCHANGED <<time, mirrored>>

\* The document it booked, in its own mirror only.
MirrorBookkeeping(p) ==
    /\ firing[p].pc = "mirror"
    /\ mirrored' = [mirrored EXCEPT ![p] = last] /\ Step(p, Idle)
    /\ UNCHANGED <<time, anchor, last, unspent, fails>>

\* A client's write of the subscription brings the row to a pod's mirror.
Replicated(p) ==
    /\ mirrored[p] # anchor /\ mirrored' = [mirrored EXCEPT ![p] = anchor]
    /\ UNCHANGED <<time, anchor, firing, last, unspent, fails>>

\* A pod stops in the middle of a firing, and starts again.
Crash(p) ==
    /\ firing[p] # Idle /\ Fails /\ Step(p, Idle)
    /\ unspent' = (unspent \/ firing[p].pc \in Claimed \ {"mirror"})
    /\ UNCHANGED <<time, anchor, mirrored, last>>

Next ==
    \/ Tick
    \/ \E p \in Pods : \/ Look(p) \/ claim_interval(p) \/ Query(p) \/ release_interval(p)
                       \/ Deliver(p) \/ MirrorBookkeeping(p) \/ Replicated(p) \/ Crash(p)

Spec == Init /\ [][Next]_vars

-----------------------------------------------------------------------------
(* Properties.                                                             *)

\* "N matcher pods race, exactly one wins" (claim_interval): two notifications
\* are a whole interval apart, whoever sends them and whatever the mirrors say.
OnePodPerPeriod == last' # last => time >= due_at(last)

\* lastNotification stays truthful (release_interval): with no firing under
\* way it is the instant of the last notification, unless a claim was left
\* behind without a notification.
Truthful ==
    (\A p \in Pods : firing[p].pc \notin Claimed) /\ ~unspent => anchor = last

ClaimsKept == [][OnePodPerPeriod /\ Truthful']_vars
=============================================================================
