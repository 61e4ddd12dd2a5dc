------------------------------ MODULE Delivery ------------------------------
(***************************************************************************)
(* Notification delivery and its bookkeeping: deliver_as, the retry task   *)
(* it leaves behind, dead letters and their replay, the Subscription       *)
(* handlers that write the same rows, and the SubMirror that all of them   *)
(* write (antares-api: notify.rs, subscriptions.rs, mirror.rs, lib.rs).    *)
(*                                                                         *)
(* An attempt is one notification for one subscription.  Its steps are the *)
(* awaits of deliver_as: other attempts, client requests and replays run   *)
(* between any two of them.  Each store call is one atomic step, as the    *)
(* row lock makes it.  Notification payloads, headers and sinks are        *)
(* abstracted; the outcome of a send is chosen by the environment.         *)
(***************************************************************************)
EXTENDS Naturals, FiniteSets

CONSTANTS
    Subs,         \* subscription ids (client-chosen, so reusable)
    Attempts,     \* notifications, each delivered once
    Handlers,     \* concurrent subscription requests
    Replayers,    \* concurrent dead-letter replays
    MaxAttempts,  \* ANTARES_NOTIFY_ATTEMPTS
    Serial,       \* TRUE: one drain delivers, one notification per subscription at a time
    StoreFails,   \* TRUE: store calls may fail
    NoAttempt,    \* the absent lastSuccess / the idle replayer
    MaxWrites     \* bound on the client writes of one subscription

ASSUME DeliveryAssumption ==
    /\ Subs # {}
    /\ IsFiniteSet(Attempts)
    /\ NoAttempt \notin Attempts
    /\ MaxAttempts \in Nat \ {0}
    /\ Serial \in BOOLEAN
    /\ StoreFails \in BOOLEAN
    /\ MaxWrites \in Nat

VARIABLES
    row,      \* row[s]: the stored subscription document
    mirror,   \* mirror[s]: the SubMirror's copy
    writes,   \* writes[s]: client writes so far; numbers incarnations and versions
    pc, sub,  \* the step an attempt is at, and its subscription
    carry,    \* the document a writeback returned, on its way to the mirror
    prev,     \* the lastSuccess the booking overwrote (Delivery::prev_success)
    made,     \* sends made
    booked,   \* booked[a]: the counter epoch record_delivery counted a in
    failed,   \* failed[a]: the counter epoch the failure of a was counted in
    acked,    \* the attempts that some send got acknowledged
    letter,   \* the dead letter of a
    handler,  \* subscription requests
    replay    \* dead-letter replays

attemptVars == <<pc, sub, carry, prev, made, booked, failed, acked, letter>>
vars == <<row, mirror, writes, attemptVars, handler, replay>>

Stamps == Attempts \cup {NoAttempt}

\* gen numbers the incarnation (0: no document), ver the client's last write,
\* epoch the last write that replaced the `notification' member.  last is
\* lastSuccess: the attempt whose instant it holds.
Docs == [gen: Nat, ver: Nat, epoch: Nat, sent: Nat, failed: Nat, last: Stamps,
         status: {"none", "ok", "failed"}]

NoDoc == [gen |-> 0, ver |-> 0, epoch |-> 0, sent |-> 0, failed |-> 0,
          last |-> NoAttempt, status |-> "none"]

Held(d) == d.gen # 0

AttemptSteps == {"new", "matched", "mirror_booked", "send", "book_failure",
                 "mirror_failure", "retry", "resend", "settle", "mirror_settled", "done"}

\* Steps that run on the retry task, outside the drain.
RetrySteps == {"retry", "resend", "settle", "mirror_settled"}

TypeOK ==
    /\ row \in [Subs -> Docs]
    /\ mirror \in [Subs -> Docs]
    /\ writes \in [Subs -> Nat]
    /\ pc \in [Attempts -> AttemptSteps]
    /\ sub \in [Attempts -> Subs]
    /\ carry \in [Attempts -> Docs]
    /\ prev \in [Attempts -> Stamps]
    /\ made \in [Attempts -> 0..MaxAttempts]
    /\ booked \in [Attempts -> Nat]
    /\ failed \in [Attempts -> Nat]
    /\ acked \subseteq Attempts
    /\ letter \in [Attempts -> {"none", "stored", "dropped", "replayed"}]
    /\ handler \in [Handlers -> [pc: {"free", "get", "sync"}, id: Subs, doc: Docs]]
    /\ replay \in [Replayers -> [pc: {"free", "send", "delete"}, of: Stamps]]

Init ==
    /\ row = [s \in Subs |-> NoDoc]
    /\ mirror = [s \in Subs |-> NoDoc]
    /\ writes = [s \in Subs |-> 0]
    /\ pc = [a \in Attempts |-> "new"]
    /\ sub = [a \in Attempts |-> CHOOSE s \in Subs : TRUE]
    /\ carry = [a \in Attempts |-> NoDoc]
    /\ prev = [a \in Attempts |-> NoAttempt]
    /\ made = [a \in Attempts |-> 0]
    /\ booked = [a \in Attempts |-> 0]
    /\ failed = [a \in Attempts |-> 0]
    /\ acked = {}
    /\ letter = [a \in Attempts |-> "none"]
    /\ handler = [h \in Handlers |-> [pc |-> "free", id |-> CHOOSE s \in Subs : TRUE,
                                      doc |-> NoDoc]]
    /\ replay = [r \in Replayers |-> [pc |-> "free", of |-> NoAttempt]]

-----------------------------------------------------------------------------
(* Subscription requests: the store write, then the sub_changed sync.      *)

NewDoc(n) == [NoDoc EXCEPT !.gen = n, !.ver = n, !.epoch = n]

Create(h, s) ==
    LET n == writes[s] + 1
        d == NewDoc(n)
    IN /\ handler[h].pc = "free"
       /\ writes[s] < MaxWrites
       /\ ~Held(row[s])
       /\ writes' = [writes EXCEPT ![s] = n]
       /\ row' = [row EXCEPT ![s] = d]
       /\ handler' = [handler EXCEPT ![h] = [pc |-> "sync", id |-> s, doc |-> d]]
       /\ UNCHANGED <<mirror, attemptVars, replay>>

\* apply_doc_fragment replaces whole members: a fragment that names
\* `notification' (replaces) drops the bookkeeping stored inside the old one.
Patched(d, n, replaces) ==
    IF replaces
    THEN [d EXCEPT !.ver = n, !.epoch = n, !.sent = 0, !.failed = 0,
                   !.last = NoAttempt, !.status = "none"]
    ELSE [d EXCEPT !.ver = n]

Update(h, s, replaces) ==
    LET n == writes[s] + 1
    IN /\ handler[h].pc = "free"
       /\ writes[s] < MaxWrites
       /\ Held(row[s])
       /\ writes' = [writes EXCEPT ![s] = n]
       /\ row' = [row EXCEPT ![s] = Patched(@, n, replaces)]
       /\ handler' = [handler EXCEPT ![h] = [pc |-> "get", id |-> s, doc |-> NoDoc]]
       /\ UNCHANGED <<mirror, attemptVars, replay>>

UpdateGet(h) ==
    /\ handler[h].pc = "get"
    /\ handler' = [handler EXCEPT ![h] = [pc |-> "sync", id |-> handler[h].id,
                                          doc |-> row[handler[h].id]]]
    /\ UNCHANGED <<row, mirror, writes, attemptVars, replay>>

\* A failed re-read ends the request: the mirror is not told of the update.
UpdateGetLost(h) ==
    /\ StoreFails
    /\ handler[h].pc = "get"
    /\ handler' = [handler EXCEPT ![h] = [pc |-> "free", id |-> handler[h].id, doc |-> NoDoc]]
    /\ UNCHANGED <<row, mirror, writes, attemptVars, replay>>

Delete(h, s) ==
    /\ handler[h].pc = "free"
    /\ Held(row[s])
    /\ row' = [row EXCEPT ![s] = NoDoc]
    /\ handler' = [handler EXCEPT ![h] = [pc |-> "sync", id |-> s, doc |-> NoDoc]]
    /\ UNCHANGED <<mirror, writes, attemptVars, replay>>

SyncMirror(h) ==
    /\ handler[h].pc = "sync"
    /\ mirror' = [mirror EXCEPT ![handler[h].id] = handler[h].doc]
    /\ handler' = [handler EXCEPT ![h] = [pc |-> "free", id |-> handler[h].id, doc |-> NoDoc]]
    /\ UNCHANGED <<row, writes, attemptVars, replay>>

-----------------------------------------------------------------------------
(* deliver_as.                                                             *)

\* The matcher reads the mirror, never the store.
Match(a, s) ==
    /\ pc[a] = "new"
    /\ Held(mirror[s])
    /\ Serial => \A b \in Attempts : sub[b] = s => pc[b] \in {"new", "done"} \cup RetrySteps
    /\ pc' = [pc EXCEPT ![a] = "matched"]
    /\ sub' = [sub EXCEPT ![a] = s]
    /\ UNCHANGED <<row, mirror, writes, carry, prev, made, booked, failed, acked, letter,
                   handler, replay>>

\* Paused or expired, no sink for the scheme, cooldown, open breaker, policy
\* engine, or a store error in record_delivery: nothing is booked or sent.
Suppress(a) ==
    /\ pc[a] = "matched"
    /\ pc' = [pc EXCEPT ![a] = "done"]
    /\ UNCHANGED <<row, mirror, writes, sub, carry, prev, made, booked, failed, acked, letter,
                   handler, replay>>

\* record_delivery, before the send; without a row nothing may be sent.
Stamped(d, a) == [d EXCEPT !.sent = d.sent + 1, !.last = a, !.status = "ok"]

\* Mutant: a missing row does not stop the send.
BookOptional(a) ==
    /\ pc[a] = "matched"
    /\ pc' = [pc EXCEPT ![a] = "send"]
    /\ UNCHANGED <<row, mirror, writes, sub, carry, prev, made, booked, failed, acked, letter,
                   handler, replay>>

Book(a) ==
    LET d == Stamped(row[sub[a]], a)
    IN /\ pc[a] = "matched"
       /\ IF Held(row[sub[a]])
          THEN /\ row' = [row EXCEPT ![sub[a]] = d]
               /\ prev' = [prev EXCEPT ![a] = row[sub[a]].last]
               /\ booked' = [booked EXCEPT ![a] = row[sub[a]].epoch]
               /\ carry' = [carry EXCEPT ![a] = d]
               /\ pc' = [pc EXCEPT ![a] = "mirror_booked"]
          ELSE /\ pc' = [pc EXCEPT ![a] = "done"]
               /\ UNCHANGED <<row, prev, booked, carry>>
       /\ UNCHANGED <<mirror, writes, sub, made, failed, acked, letter, handler, replay>>

\* Mutant: the mirror counts the delivery once more.
MirroredTwice(a) ==
    mirror' = IF Held(carry[a])
              THEN [mirror EXCEPT ![sub[a]] = [carry[a] EXCEPT !.sent = @ + 1]] ELSE mirror

\* mirror_bookkeeping: the written-back document, when there was a row.
Mirrored(a) ==
    mirror' = IF Held(carry[a]) THEN [mirror EXCEPT ![sub[a]] = carry[a]] ELSE mirror

MirrorBooked(a) ==
    /\ pc[a] = "mirror_booked"
    /\ Mirrored(a)
    /\ pc' = [pc EXCEPT ![a] = "send"]
    /\ UNCHANGED <<row, writes, sub, carry, prev, made, booked, failed, acked, letter,
                   handler, replay>>

\* Refused by the egress policy: a failure for the bookkeeping, but no send.
Refuse(a) ==
    /\ pc[a] = "send"
    /\ pc' = [pc EXCEPT ![a] = "book_failure"]
    /\ UNCHANGED <<row, mirror, writes, sub, carry, prev, made, booked, failed, acked, letter,
                   handler, replay>>

Send(a, ok) ==
    /\ pc[a] = "send"
    /\ made' = [made EXCEPT ![a] = 1]
    /\ acked' = IF ok THEN acked \cup {a} ELSE acked
    /\ pc' = [pc EXCEPT ![a] = IF ok THEN "done" ELSE "book_failure"]
    /\ UNCHANGED <<row, mirror, writes, sub, carry, prev, booked, failed, letter,
                   handler, replay>>

\* Mutant: the optimistic lastSuccess survives the failure.
RolledBackKeepsStamp(d, p) == [d EXCEPT !.failed = @ + 1, !.status = "failed"]

\* The failure writeback: status, the lastSuccess rollback, timesFailed.
RolledBack(d, p) == [d EXCEPT !.failed = d.failed + 1, !.last = p, !.status = "failed"]

BookFailure(a) ==
    LET d == RolledBack(row[sub[a]], prev[a])
    IN /\ pc[a] = "book_failure"
       /\ IF Held(row[sub[a]])
          THEN /\ row' = [row EXCEPT ![sub[a]] = d]
               /\ failed' = [failed EXCEPT ![a] = row[sub[a]].epoch]
               /\ carry' = [carry EXCEPT ![a] = d]
          ELSE /\ carry' = [carry EXCEPT ![a] = NoDoc]
               /\ UNCHANGED <<row, failed>>
       /\ pc' = [pc EXCEPT ![a] = "mirror_failure"]
       /\ UNCHANGED <<mirror, writes, sub, prev, made, booked, acked, letter, handler, replay>>

\* mutate fails: nothing is written, but a failure after the closure ran still
\* leaves the document it captured for the mirror.
BookFailureLost(a, captured) ==
    /\ StoreFails
    /\ pc[a] = "book_failure"
    /\ carry' = [carry EXCEPT ![a] = IF captured /\ Held(row[sub[a]])
                                     THEN RolledBack(row[sub[a]], prev[a]) ELSE NoDoc]
    /\ pc' = [pc EXCEPT ![a] = "mirror_failure"]
    /\ UNCHANGED <<row, mirror, writes, sub, prev, made, booked, failed, acked, letter,
                   handler, replay>>

MirrorFailure(a) ==
    /\ pc[a] = "mirror_failure"
    /\ Mirrored(a)
    /\ pc' = [pc EXCEPT ![a] = IF made[a] > 0 /\ MaxAttempts > 1 THEN "retry" ELSE "done"]
    /\ UNCHANGED <<row, writes, sub, carry, prev, made, booked, failed, acked, letter,
                   handler, replay>>

-----------------------------------------------------------------------------
(* retry_and_settle.                                                       *)

\* Mutant: the policy grants a retry past its last attempt.
RetryUnbounded(a) ==
    /\ pc[a] = "retry"
    /\ pc' = [pc EXCEPT ![a] = IF Held(row[sub[a]]) THEN "resend" ELSE "done"]
    /\ UNCHANGED <<row, mirror, writes, sub, carry, prev, made, booked, failed, acked, letter,
                   handler, replay>>

\* next_delay grants a retry; the row is re-read after the sleep, and a
\* subscription that is gone ends the task.
Retry(a) ==
    /\ pc[a] = "retry"
    /\ made[a] < MaxAttempts
    /\ pc' = [pc EXCEPT ![a] = IF Held(row[sub[a]]) THEN "resend" ELSE "done"]
    /\ UNCHANGED <<row, mirror, writes, sub, carry, prev, made, booked, failed, acked, letter,
                   handler, replay>>

\* A failed re-read reads as a subscription that is gone.
RetryBlind(a) ==
    /\ StoreFails
    /\ pc[a] = "retry"
    /\ made[a] < MaxAttempts
    /\ pc' = [pc EXCEPT ![a] = "done"]
    /\ UNCHANGED <<row, mirror, writes, sub, carry, prev, made, booked, failed, acked, letter,
                   handler, replay>>

\* Mutant: the retry loop forgets to count its sends.
ResendUncounted(a, ok) ==
    /\ pc[a] = "resend"
    /\ acked' = IF ok THEN acked \cup {a} ELSE acked
    /\ pc' = [pc EXCEPT ![a] = IF ok THEN "settle" ELSE "retry"]
    /\ UNCHANGED <<row, mirror, writes, sub, carry, prev, made, booked, failed, letter,
                   handler, replay>>

Resend(a, ok) ==
    /\ pc[a] = "resend"
    /\ made' = [made EXCEPT ![a] = @ + 1]
    /\ acked' = IF ok THEN acked \cup {a} ELSE acked
    /\ pc' = [pc EXCEPT ![a] = IF ok THEN "settle" ELSE "retry"]
    /\ UNCHANGED <<row, mirror, writes, sub, carry, prev, booked, failed, letter,
                   handler, replay>>

\* Mutant: a retry counts as one more notification.
RetriedCounts(d, a) == [d EXCEPT !.sent = @ + 1, !.last = a, !.status = "ok"]

\* A retry that succeeds moves lastSuccess and status, never the counters.
Retried(d, a) == [d EXCEPT !.last = a, !.status = "ok"]

Settle(a) ==
    LET d == Retried(row[sub[a]], a)
    IN /\ pc[a] = "settle"
       /\ IF Held(row[sub[a]])
          THEN /\ row' = [row EXCEPT ![sub[a]] = d]
               /\ carry' = [carry EXCEPT ![a] = d]
          ELSE /\ carry' = [carry EXCEPT ![a] = NoDoc]
               /\ UNCHANGED row
       /\ pc' = [pc EXCEPT ![a] = "mirror_settled"]
       /\ UNCHANGED <<mirror, writes, sub, prev, made, booked, failed, acked, letter,
                      handler, replay>>

SettleLost(a, captured) ==
    /\ StoreFails
    /\ pc[a] = "settle"
    /\ carry' = [carry EXCEPT ![a] = IF captured /\ Held(row[sub[a]])
                                     THEN Retried(row[sub[a]], a) ELSE NoDoc]
    /\ pc' = [pc EXCEPT ![a] = "mirror_settled"]
    /\ UNCHANGED <<row, mirror, writes, sub, prev, made, booked, failed, acked, letter,
                   handler, replay>>

MirrorSettled(a) ==
    /\ pc[a] = "mirror_settled"
    /\ Mirrored(a)
    /\ pc' = [pc EXCEPT ![a] = "done"]
    /\ UNCHANGED <<row, writes, sub, carry, prev, made, booked, failed, acked, letter,
                   handler, replay>>

\* next_delay is exhausted: the policy's attempts, or at any earlier moment its
\* max_age.  The letter's own store write may fail, and is then only logged.
GiveUp(a, stored) ==
    /\ pc[a] = "retry"
    /\ letter' = [letter EXCEPT ![a] = IF stored THEN "stored" ELSE "none"]
    /\ pc' = [pc EXCEPT ![a] = "done"]
    /\ UNCHANGED <<row, mirror, writes, sub, carry, prev, made, booked, failed, acked,
                   handler, replay>>

-----------------------------------------------------------------------------
(* The dead-letter admin.                                                  *)

ReplayGet(r, a) ==
    /\ replay[r].pc = "free"
    /\ letter[a] = "stored"
    /\ replay' = [replay EXCEPT ![r] = [pc |-> "send", of |-> a]]
    /\ UNCHANGED <<row, mirror, writes, attemptVars, handler>>

\* Mutant: a failed replay deletes the letter too.
ReplaySendDeletes(r, ok) ==
    /\ replay[r].pc = "send"
    /\ acked' = IF ok THEN acked \cup {replay[r].of} ELSE acked
    /\ replay' = [replay EXCEPT ![r] = [pc |-> "delete", of |-> replay[r].of]]
    /\ UNCHANGED <<row, mirror, writes, pc, sub, carry, prev, made, booked, failed, letter,
                   handler>>

\* Success goes on to delete the letter; failure keeps it.
ReplaySend(r, ok) ==
    /\ replay[r].pc = "send"
    /\ acked' = IF ok THEN acked \cup {replay[r].of} ELSE acked
    /\ replay' = [replay EXCEPT ![r] = IF ok THEN [pc |-> "delete", of |-> replay[r].of]
                                       ELSE [pc |-> "free", of |-> NoAttempt]]
    /\ UNCHANGED <<row, mirror, writes, pc, sub, carry, prev, made, booked, failed, letter,
                   handler>>

ReplayDelete(r) ==
    /\ replay[r].pc = "delete"
    /\ letter' = [letter EXCEPT ![replay[r].of] = IF @ = "stored" THEN "replayed" ELSE @]
    /\ replay' = [replay EXCEPT ![r] = [pc |-> "free", of |-> NoAttempt]]
    /\ UNCHANGED <<row, mirror, writes, pc, sub, carry, prev, made, booked, failed, acked,
                   handler>>

\* A failed delete answers an error and keeps the letter that was delivered.
ReplayDeleteLost(r) ==
    /\ StoreFails
    /\ replay[r].pc = "delete"
    /\ replay' = [replay EXCEPT ![r] = [pc |-> "free", of |-> NoAttempt]]
    /\ UNCHANGED <<row, mirror, writes, attemptVars, handler>>

\* dead_letter_delete: the operator drops the letter unreplayed.
DropLetter(a) ==
    /\ letter[a] = "stored"
    /\ letter' = [letter EXCEPT ![a] = "dropped"]
    /\ UNCHANGED <<row, mirror, writes, pc, sub, carry, prev, made, booked, failed, acked,
                   handler, replay>>

-----------------------------------------------------------------------------
Client ==
    \/ \E h \in Handlers, s \in Subs :
          \/ Create(h, s)
          \/ \E replaces \in BOOLEAN : Update(h, s, replaces)
          \/ Delete(h, s)
    \/ \E h \in Handlers : UpdateGet(h) \/ UpdateGetLost(h) \/ SyncMirror(h)

Deliver(a) ==
    \/ Suppress(a) \/ Book(a) \/ MirrorBooked(a) \/ Refuse(a)
    \/ \E ok \in BOOLEAN : Send(a, ok)
    \/ BookFailure(a) \/ MirrorFailure(a)
    \/ Retry(a) \/ Settle(a) \/ MirrorSettled(a)
    \/ \E ok \in BOOLEAN : Resend(a, ok)
    \/ \E stored \in BOOLEAN : GiveUp(a, stored)
    \/ \E captured \in BOOLEAN : BookFailureLost(a, captured) \/ SettleLost(a, captured)
    \/ RetryBlind(a)

Admin ==
    \/ \E r \in Replayers : \/ \E a \in Attempts : ReplayGet(r, a)
                            \/ \E ok \in BOOLEAN : ReplaySend(r, ok)
                            \/ ReplayDelete(r) \/ ReplayDeleteLost(r)
    \/ \E a \in Attempts : DropLetter(a)

Next ==
    \/ Client
    \/ \E a \in Attempts, s \in Subs : Match(a, s)
    \/ \E a \in Attempts : Deliver(a)
    \/ Admin

Spec == Init /\ [][Next]_vars

\* Every await of a delivery or a retry resolves: sends carry a timeout, store
\* calls return, sleeps end.
FairSpec == Spec /\ \A a \in Attempts : WF_vars(Deliver(a))
-----------------------------------------------------------------------------
(* Properties.                                                             *)

BookedIn(s, e) == {a \in Attempts : sub[a] = s /\ booked[a] = e}
FailedIn(s, e) == {a \in Attempts : sub[a] = s /\ failed[a] = e}

\* Table 5.2.14.2-1 as deliver_as and retry_and_settle book it: however many
\* attempts, retries and client writes interleave, timesSent is the number of
\* notifications booked, and timesFailed the number whose first send failed,
\* since the `notification' member was last written.
CountersExact ==
    \A s \in Subs :
        Held(row[s]) => /\ row[s].sent = Cardinality(BookedIn(s, row[s].epoch))
                        /\ row[s].failed = Cardinality(FailedIn(s, row[s].epoch))

\* "No row to book against means the subscription was deleted [...] nothing may
\* be sent" (deliver_as): whatever the mirror held when it was matched, a
\* notification that left, was acknowledged or was dead-lettered had been
\* booked on a stored subscription first.
SentWasBooked ==
    \A a \in Attempts :
        made[a] > 0 \/ a \in acked \/ letter[a] # "none" => booked[a] # 0

\* A dead letter is "the only copy of a notification the delivery policy gave up
\* on" (dead_letter_delete): while the store answers, one that is still stored
\* was never acknowledged, unless the replay that got the acknowledgement is
\* about to delete it; one that a replay deleted was acknowledged.
LetterMeansUndelivered ==
    \A a \in Attempts :
        /\ letter[a] = "stored" /\ a \in acked
              => \/ StoreFails
                 \/ \E r \in Replayers : replay[r].pc = "delete" /\ replay[r].of = a
        /\ letter[a] = "replayed" => a \in acked

\* mirror_bookkeeping writes "the document the writeback just committed": the
\* matcher's copy of a subscription is never newer than the stored row.
MirrorNeverAhead ==
    \A s \in Subs :
        /\ mirror[s].ver <= writes[s]
        /\ Held(row[s]) => /\ mirror[s].ver <= row[s].ver
                           /\ mirror[s].epoch = row[s].epoch
                                 => mirror[s].sent <= row[s].sent

AtRest(s) ==
    /\ \A a \in Attempts : sub[a] = s => pc[a] \in {"new", "done"}
    /\ \A h \in Handlers : handler[h].pc = "free"
    /\ \A r \in Replayers : replay[r].pc = "free"

Succeeded(s, e) == {a \in BookedIn(s, e) : a \in acked /\ letter[a] = "none"}

\* A delivery was booked, the subscription was recreated or a client replaced
\* `notification', and its failure was counted there: the rollback brings an
\* instant back that the write had dropped.
Straddled(s) == \E a \in FailedIn(s, row[s].epoch) : booked[a] # row[s].epoch

\* "the transient window is the in-flight attempt itself" (deliver_as) and a
\* failed attempt must not rewind "lastSuccess past a delivery that succeeded"
\* (pg/doc.rs, record_delivery): with nothing in flight, lastSuccess names a
\* delivery that succeeded whenever one did, and nothing otherwise.
LastSuccessTruthful ==
    \A s \in Subs :
        Held(row[s]) /\ AtRest(s) /\ ~Straddled(s) =>
            IF Succeeded(s, row[s].epoch) = {} THEN row[s].last = NoAttempt
            ELSE row[s].last \in Succeeded(s, row[s].epoch)

\* "an exhausted policy leaves a dead letter" (docs/src/operations.md): every
\* matched notification is settled - the retry task of a delivery ends.
EveryAttemptSettles == \A a \in Attempts : pc[a] = "matched" ~> pc[a] = "done"

-----------------------------------------------------------------------------
(* The inductive invariant behind CountersExact, SentWasBooked and         *)
(* LetterMeansUndelivered.                                                 *)

\* Where an attempt is tells what it has done.
PhaseInv ==
    \A a \in Attempts :
        /\ pc[a] \in {"new", "matched"} => booked[a] = 0
        /\ pc[a] \in {"new", "matched", "mirror_booked", "send", "book_failure"}
              => failed[a] = 0
        /\ booked[a] = 0 => pc[a] \in {"new", "matched", "done"} /\ made[a] = 0
        /\ made[a] = MaxAttempts => pc[a] # "resend"

\* Only a finished or settling attempt is acknowledged, and only a finished one
\* is dead-lettered; neither happens to one that was never booked.
OutcomeInv ==
    \A a \in Attempts :
        /\ a \in acked => pc[a] \in {"settle", "mirror_settled", "done"} /\ booked[a] # 0
        /\ letter[a] # "none" => pc[a] = "done" /\ booked[a] # 0

\* A replay works on a letter that was stored.
ReplayInv ==
    \A r \in Replayers :
        /\ replay[r].pc # "free" => replay[r].of \in Attempts /\ letter[replay[r].of] # "none"
        /\ replay[r].pc = "delete" => replay[r].of \in acked

\* Counter epochs are client writes that have happened.
EpochInv ==
    /\ \A s \in Subs : /\ row[s].epoch <= writes[s]
                       /\ Held(row[s]) => row[s].epoch # 0
    /\ \A a \in Attempts : booked[a] <= writes[sub[a]] /\ failed[a] <= writes[sub[a]]

DeliveryInv ==
    /\ TypeOK /\ PhaseInv /\ OutcomeInv /\ ReplayInv /\ EpochInv
    /\ CountersExact /\ LetterMeansUndelivered
-----------------------------------------------------------------------------
(* The inductive invariant behind MirrorNeverAhead.                        *)

\* d, a copy of a document of s, is of an earlier or the present write of it.
Fits(s, d) ==
    /\ d.ver <= writes[s] /\ d.epoch <= writes[s]
    /\ Held(row[s]) => /\ d.ver <= row[s].ver
                       /\ d.epoch = row[s].epoch => d.sent <= row[s].sent

\* So is every copy on its way to the mirror: a delivery's writeback and a
\* handler's re-read, however long they take and whatever is written meanwhile.
CopyInv ==
    /\ \A s \in Subs : row[s].ver <= writes[s] /\ Fits(s, mirror[s])
    /\ \A a \in Attempts : Fits(sub[a], carry[a]) /\ (pc[a] = "new" => carry[a] = NoDoc)
    /\ \A h \in Handlers : handler[h].pc = "sync" => Fits(handler[h].id, handler[h].doc)
=============================================================================
