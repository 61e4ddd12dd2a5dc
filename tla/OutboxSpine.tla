---------------------------- MODULE OutboxSpine -----------------------------
(***************************************************************************)
(* The change spine of ANTARES_BUS=nats: entity transactions enqueue their *)
(* change events in the outbox table, drains on the api pods publish them  *)
(* to the JetStream change stream, matcher pods share one durable consumer *)
(* and ack after processing (antares-sql: pg/outbox.rs, pg/entity.rs,      *)
(* pg/maintenance.rs; antares-broker: wiring.rs; antares-bus: nats.rs).    *)
(*                                                                         *)
(* Drains and matchers crash between any two steps; publishes, acks and    *)
(* store calls fail with and without their effect.  The stream stores a    *)
(* message, drops one whose Msg-Id it remembers, and redelivers what is    *)
(* not acked.                                                              *)
(***************************************************************************)
EXTENDS Naturals, FiniteSets

CONSTANTS
    Entities, Writers, Drains, Matchers,
    MaxSeq,        \* bound on the outbox sequence
    PageSize,      \* rows of one peek (64 in the code)
    MaxFaults,     \* bound on crashes and failed calls
    DurableFirst,  \* TRUE: the matcher durable exists before the first publish
    Lags,          \* TRUE: the consumer may lag past the 24 h the reap waits
    ReadFails,     \* TRUE: reading a kept row back may fail
    Kinds          \* the events that happen, by which body is over 256 KB

ASSUME SpineAssumption ==
    /\ MaxSeq \in Nat /\ PageSize \in Nat \ {0} /\ MaxFaults \in Nat
    /\ DurableFirst \in BOOLEAN /\ Lags \in BOOLEAN /\ ReadFails \in BOOLEAN
    /\ Kinds \subseteq {"small",    \* none
                        "created",  \* the only one, of a creation
                        "grown",    \* the new one of an update, not the old one
                        "updated"}  \* the old one of an update

Seqs == 1..MaxSeq

VARIABLES
    row,       \* row[s]: the outbox row with seq s
    event,     \* event[s]: its event: entity, writer, and kind
    last,      \* the bigserial
    drain,     \* the page a drain works on
    window,    \* Msg-Ids inside the stream's duplicate window
    stored,    \* stored[s]: messages the stream has stored for s
    first,     \* first[s]: stream position of the first of them, 0 for none
    tail,      \* stream position of the last message stored
    bus,       \* stored messages that are not acked
    durable,   \* the shared durable exists
    work,      \* the message a matcher is at
    handled,   \* events processed with their bodies
    spoiled,   \* events processed without
    phantom,   \* of these, the ones matched as another change than theirs
    faults

streamVars == <<window, stored, first, tail, bus>>
matchVars == <<work, handled, spoiled, phantom>>
vars == <<row, event, last, drain, streamVars, durable, matchVars, faults>>

Committed == {"live", "kept", "gone"}
Oversized(s) == event[s].kind # "small"
Idle == [pc |-> "peek", page |-> {}, acked |-> {}, retained |-> {}]
NoWork == [pc |-> "idle", seq |-> 0, n |-> 0]

TypeOK ==
    /\ row \in [Seqs -> {"free", "open", "void"} \cup Committed]
    /\ event \in [Seqs -> [entity: Entities, by: Writers, kind: Kinds]]
    /\ last \in 0..MaxSeq
    /\ drain \in [Drains -> [pc: {"peek", "work"}, page: SUBSET Seqs,
                             acked: SUBSET {s \in Seqs : ~Oversized(s)},
                             retained: SUBSET {s \in Seqs : Oversized(s)}]]
    /\ window \subseteq Seqs
    /\ stored \in [Seqs -> Nat] /\ first \in [Seqs -> Nat] /\ tail \in Nat
    /\ bus \subseteq Seqs \X Nat
    /\ durable \in BOOLEAN
    /\ work \in [Matchers -> [pc: {"idle", "process", "ack"}, seq: 0..MaxSeq, n: Nat]]
    /\ handled \subseteq Seqs /\ spoiled \subseteq Seqs /\ phantom \subseteq spoiled
    /\ faults \in 0..MaxFaults

Init ==
    /\ row = [s \in Seqs |-> "free"]
    /\ event \in [Seqs -> [entity: Entities, by: Writers, kind: Kinds]]
    /\ last = 0
    /\ drain = [d \in Drains |-> Idle]
    /\ window = {}
    /\ stored = [s \in Seqs |-> 0] /\ first = [s \in Seqs |-> 0] /\ tail = 0
    /\ bus = {}
    /\ durable = DurableFirst
    /\ work = [m \in Matchers |-> NoWork]
    /\ handled = {} /\ spoiled = {} /\ phantom = {}
    /\ faults = 0

Fault == faults < MaxFaults /\ faults' = faults + 1
NoFault == UNCHANGED faults

-----------------------------------------------------------------------------
(* Entity transactions.                                                    *)

Opened(w) == {s \in Seqs : row[s] = "open" /\ event[s].by = w}

\* A write under the entity's row lock, and its outbox row in the same
\* transaction; a batch does several before it commits.  The sequence counts
\* at the INSERT, whatever becomes of the transaction.  Who writes what in
\* which size is the environment's choice, fixed with the initial state.
Enqueue(w) ==
    LET s == last + 1
    IN /\ last < MaxSeq
       /\ event[s].by = w
       /\ \A t \in Seqs : row[t] = "open" /\ event[t].entity = event[s].entity
                             => event[t].by = w
       /\ last' = s
       /\ row' = [row EXCEPT ![s] = "open"]
       /\ UNCHANGED <<event, drain, streamVars, durable, matchVars, faults>>

EndTx(w, to) ==
    /\ Opened(w) # {}
    /\ row' = [s \in Seqs |-> IF s \in Opened(w) THEN to ELSE row[s]]
    /\ UNCHANGED <<event, last, drain, streamVars, durable, matchVars, faults>>

Commit(w) == EndTx(w, "live")
Rollback(w) == EndTx(w, "void")

-----------------------------------------------------------------------------
(* The drain loop.                                                         *)

Live == {s \in Seqs : row[s] = "live"}

\* The oldest PageSize rows that are committed and unpublished.
Peek(d) ==
    /\ drain[d].pc = "peek"
    /\ Live # {}
    /\ drain' = [drain EXCEPT ![d] =
          [Idle EXCEPT !.pc = "work",
                       !.page = {s \in Live : Cardinality({t \in Live : t < s}) < PageSize}]]
    /\ UNCHANGED <<row, event, last, streamVars, durable, matchVars, faults>>

\* Rows are published oldest first.
IsOldest(d, s) == s \in drain[d].page /\ \A t \in drain[d].page : s <= t

\* JetStream: a remembered Msg-Id is acked and dropped; a message nobody has
\* interest in is acked and not kept.
Store(s) ==
    IF s \in window
    THEN UNCHANGED streamVars
    ELSE /\ window' = window \cup {s}
         /\ stored' = [stored EXCEPT ![s] = stored[s] + 1]
         /\ tail' = tail + 1
         /\ first' = IF first[s] = 0 THEN [first EXCEPT ![s] = tail + 1] ELSE first
         /\ bus' = IF durable THEN bus \cup {<<s, stored[s] + 1>>} ELSE bus

\* Mutant: an oversized row is deleted like any other.
PublishAcksAll(d, s) ==
    /\ IsOldest(d, s)
    /\ Store(s)
    /\ drain' = [drain EXCEPT ![d].page = drain[d].page \ {s},
                              ![d].acked = drain[d].acked \cup {s}]
    /\ UNCHANGED <<row, event, last, durable, matchVars, faults>>

\* Published: a row that travelled as a claim-check reference is to be kept,
\* any other to be deleted.
Publish(d, s) ==
    /\ IsOldest(d, s)
    /\ Store(s)
    /\ drain' = [drain EXCEPT
          ![d] = [pc |-> "work", page |-> drain[d].page \ {s},
                  acked |-> IF Oversized(s) THEN drain[d].acked ELSE drain[d].acked \cup {s},
                  retained |-> IF Oversized(s) THEN drain[d].retained \cup {s}
                               ELSE drain[d].retained]]
    /\ UNCHANGED <<row, event, last, durable, matchVars, faults>>

\* Mutant: the drain goes on with the rest of the page.
PublishFailsSkips(d, s, reached) ==
    /\ IsOldest(d, s)
    /\ Fault
    /\ IF reached THEN Store(s) ELSE UNCHANGED streamVars
    /\ drain' = [drain EXCEPT ![d].page = drain[d].page \ {s}]
    /\ UNCHANGED <<row, event, last, durable, matchVars>>

\* The publish fails, before the stream or after it (the ack was lost): the
\* rest of the page waits for the next round.
PublishFails(d, s, reached) ==
    /\ IsOldest(d, s)
    /\ Fault
    /\ IF reached THEN Store(s) ELSE UNCHANGED streamVars
    /\ drain' = [drain EXCEPT ![d].page = {}]
    /\ UNCHANGED <<row, event, last, durable, matchVars>>

\* One UPDATE per oversized row, under its tenant; a failed one is logged.
Retain(d, s, ok) ==
    /\ drain[d].page = {}
    /\ s \in drain[d].retained
    /\ IF ok THEN NoFault ELSE Fault
    /\ row' = IF ok /\ row[s] = "live" THEN [row EXCEPT ![s] = "kept"] ELSE row
    /\ drain' = [drain EXCEPT ![d].retained = drain[d].retained \ {s}]
    /\ UNCHANGED <<event, last, streamVars, durable, matchVars>>

\* Mutant: everything up to the highest published seq is deleted.
AckRange(d, ok) ==
    /\ drain[d].pc = "work"
    /\ drain[d].page = {} /\ drain[d].retained = {}
    /\ IF ok THEN NoFault ELSE Fault
    /\ row' = [s \in Seqs |-> IF /\ ok /\ row[s] = "live"
                                 /\ \E t \in drain[d].acked : s <= t
                              THEN "gone" ELSE row[s]]
    /\ drain' = [drain EXCEPT ![d] = Idle]
    /\ UNCHANGED <<event, last, streamVars, durable, matchVars>>

\* Exactly the published seqs are deleted; a failed ack leaves them all.
Ack(d, ok) ==
    /\ drain[d].pc = "work"
    /\ drain[d].page = {} /\ drain[d].retained = {}
    /\ IF ok THEN NoFault ELSE Fault
    /\ row' = [s \in Seqs |-> IF ok /\ s \in drain[d].acked THEN "gone" ELSE row[s]]
    /\ drain' = [drain EXCEPT ![d] = Idle]
    /\ UNCHANGED <<event, last, streamVars, durable, matchVars>>

CrashDrain(d) ==
    /\ drain[d].pc = "work"
    /\ Fault
    /\ drain' = [drain EXCEPT ![d] = Idle]
    /\ UNCHANGED <<row, event, last, streamVars, durable, matchVars>>

-----------------------------------------------------------------------------
(* The stream and the matcher pods.                                        *)

\* The duplicate window (120 s) passes.
Forget(s) ==
    /\ s \in window
    /\ Fault
    /\ window' = window \ {s}
    /\ UNCHANGED <<row, event, last, drain, stored, first, tail, bus, durable, matchVars>>

\* consume_balanced creates the durable if it is not there.
ConsumeBalanced ==
    /\ ~durable
    /\ durable' = TRUE
    /\ UNCHANGED <<row, event, last, drain, streamVars, matchVars, faults>>

InFlight(msg) == \E m \in Matchers : work[m].pc # "idle" /\ <<work[m].seq, work[m].n>> = msg

\* Mutant: the message is acked when it arrives.
AckOnReceive(m, msg) ==
    /\ work[m].pc = "idle"
    /\ msg \in bus
    /\ IF InFlight(msg) THEN Fault ELSE NoFault
    /\ work' = [work EXCEPT ![m] = [pc |-> "process", seq |-> msg[1], n |-> msg[2]]]
    /\ bus' = bus \ {msg}
    /\ UNCHANGED <<row, event, last, drain, window, stored, first, tail, durable,
                   handled, spoiled, phantom>>

\* A message is delivered to one pod, and to another when the ack wait has run
\* out on the first.
Receive(m, msg) ==
    /\ work[m].pc = "idle"
    /\ msg \in bus
    /\ IF InFlight(msg) THEN Fault ELSE NoFault
    /\ work' = [work EXCEPT ![m] = [pc |-> "process", seq |-> msg[1], n |-> msg[2]]]
    /\ UNCHANGED <<row, event, last, drain, streamVars, durable, handled, spoiled, phantom>>

\* resolve_payloads: the bodies of a reference are read back from the outbox
\* row; an error reads as a row that is gone.
Resolves(s, ok) == ok /\ row[s] \in {"live", "kept"}

\* resolve_payloads, then process_change.  Without the row the entity's current
\* document (found, unless it is gone too) stands for the new body and nothing
\* for an old one that was referenced: an update whose old body is missing
\* matches as a creation, one whose new body is missing as a deletion.
Process(m, ok, found) ==
    LET s == work[m].seq
        whole == \/ ~Oversized(s) \/ Resolves(s, ok)
                 \/ found /\ event[s].kind \in {"created", "grown"}
        disguised == \/ found /\ event[s].kind = "updated"
                     \/ ~found /\ event[s].kind = "grown"
    IN /\ work[m].pc = "process"
       /\ IF ok THEN NoFault ELSE ReadFails /\ Oversized(s) /\ Fault
       /\ handled' = IF whole THEN handled \cup {s} ELSE handled
       /\ spoiled' = IF whole THEN spoiled ELSE spoiled \cup {s}
       /\ phantom' = IF ~whole /\ disguised THEN phantom \cup {s} ELSE phantom
       /\ work' = [work EXCEPT ![m].pc = "ack"]
       /\ UNCHANGED <<row, event, last, drain, streamVars, durable>>

\* The ack; a lost one leaves the message to be redelivered.
AckMessage(m, ok) ==
    /\ work[m].pc = "ack"
    /\ IF ok THEN NoFault ELSE Fault
    /\ bus' = IF ok THEN bus \ {<<work[m].seq, work[m].n>>} ELSE bus
    /\ work' = [work EXCEPT ![m] = NoWork]
    /\ UNCHANGED <<row, event, last, drain, window, stored, first, tail, durable,
                   handled, spoiled, phantom>>

CrashMatcher(m) ==
    /\ work[m].pc # "idle"
    /\ Fault
    /\ work' = [work EXCEPT ![m] = NoWork]
    /\ UNCHANGED <<row, event, last, drain, streamVars, durable, handled, spoiled, phantom>>

-----------------------------------------------------------------------------
(* Maintenance.                                                            *)

\* Nothing that could still need the row of s: no message, nobody holding one,
\* no drain about to publish it again.
Settled(s) ==
    /\ \A msg \in bus : msg[1] # s
    /\ \A m \in Matchers : work[m].pc = "idle" \/ work[m].seq # s
    /\ \A d \in Drains : s \notin drain[d].page

\* reap_published frees a kept row 24 hours after its stamp.  Unless the
\* consumer lags further than that, everybody is done with it by then.
Reap(s) ==
    /\ row[s] = "kept"
    /\ Lags \/ Settled(s)
    /\ row' = [row EXCEPT ![s] = "gone"]
    /\ UNCHANGED <<event, last, drain, streamVars, durable, matchVars, faults>>

-----------------------------------------------------------------------------
DrainStep(d) ==
    \/ Peek(d)
    \/ \E s \in Seqs : Publish(d, s) \/ Retain(d, s, TRUE)
    \/ Ack(d, TRUE)

MatchStep(m) ==
    \/ \E msg \in bus : Receive(m, msg)
    \/ \E found \in BOOLEAN : Process(m, TRUE, found)
    \/ AckMessage(m, TRUE)

DrainFails(d) ==
    \/ \E s \in Seqs, reached \in BOOLEAN : PublishFails(d, s, reached)
    \/ \E s \in Seqs : Retain(d, s, FALSE)
    \/ Ack(d, FALSE)
    \/ CrashDrain(d)

MatchFails(m) ==
    \/ \E found \in BOOLEAN : Process(m, FALSE, found)
    \/ AckMessage(m, FALSE)
    \/ CrashMatcher(m)

Next ==
    \/ \E w \in Writers : Enqueue(w) \/ Commit(w) \/ Rollback(w)
    \/ \E d \in Drains : DrainStep(d) \/ DrainFails(d)
    \/ \E m \in Matchers : MatchStep(m) \/ MatchFails(m)
    \/ \E s \in Seqs : Forget(s) \/ Reap(s)
    \/ ConsumeBalanced

Spec == Init /\ [][Next]_vars

\* The loops of every drain and of every matcher pod keep running: tokio polls a
\* ready task, and the bus and the database answer again once the faults,
\* which are bounded, are over.
FairSpec ==
    /\ Spec
    /\ \A d \in Drains : WF_vars(DrainStep(d))
    /\ \A m \in Matchers : WF_vars(MatchStep(m))

-----------------------------------------------------------------------------
(* Properties.                                                             *)

OnBus(s) == \E msg \in bus : msg[1] = s

\* "a broker crash between commit and publish can never lose an event"
\* (pg/outbox.rs) and, past the publish, "ack AFTER processing" (wiring.rs): a
\* committed event is in the outbox for the next drain, unacked on the stream,
\* or has been processed.
NoEventLost ==
    \A s \in Seqs : row[s] \in Committed
                       => row[s] = "live" \/ OnBus(s) \/ s \in handled \cup spoiled

\* "this row is the only remaining copy of the bodies it dropped" (pg/outbox.rs):
\* as long as a message that travels as a reference can still reach a matcher,
\* the row it refers to is there.
ReferenceResolves ==
    ~Lags => /\ \A s \in Seqs : Oversized(s) /\ OnBus(s) => row[s] \in {"live", "kept"}
             /\ ~ReadFails => spoiled = {}

\* "publishing order is the commit order" (pg/outbox.rs): for one entity, the
\* stream stores an event first only after every earlier committed one, however
\* many drains publish, fail and crash.
EntityOrder ==
    \A s, t \in Seqs :
        /\ s < t /\ event[s].entity = event[t].entity
        /\ row[s] \in Committed /\ first[t] # 0
        => first[s] # 0 /\ first[s] < first[t]

\* The promise of the change feed, for the spine that carries it.
feed == [s \in Seqs |-> IF s \in handled THEN "notified"
                        ELSE IF row[s] \in Committed THEN "due" ELSE "absent"]

Feed == INSTANCE ChangeFeed WITH feed <- feed, Seqs <- Seqs

\* The spine implements the feed: nothing uncommitted reaches the matcher, and
\* everything committed eventually does.
ImplementsFeed == Feed!FairSpec

\* "the before-image is gone and the change notifies nobody"
\* (docs/src/admin-api.md).
NotifiesNobody == phantom = {}

-----------------------------------------------------------------------------
(* The inductive invariant behind NoEventLost, ReferenceResolves and the   *)
(* refinement.                                                             *)

\* Only committed rows are drained, carried or processed, and the sequence
\* never reuses a row.
CommitInv ==
    /\ \A s \in Seqs : s > last => row[s] = "free"
    /\ \A d \in Drains, s \in Seqs :
          s \in drain[d].page \cup drain[d].acked \cup drain[d].retained
             => row[s] \in Committed
    /\ \A msg \in bus : row[msg[1]] \in Committed
    /\ \A m \in Matchers :
          work[m].pc # "idle" => work[m].seq \in Seqs /\ row[work[m].seq] \in Committed
    /\ \A s \in handled \cup spoiled : row[s] \in Committed

Carried(s) == OnBus(s) \/ s \in handled \cup spoiled

\* What a drain may forget, and what the stream would refuse to store again, is
\* on the stream or processed.
CarriedInv ==
    DurableFirst =>
        /\ durable
        /\ \A s \in window : Carried(s)
        /\ \A d \in Drains, s \in Seqs :
              s \in drain[d].acked \cup drain[d].retained => Carried(s)
        /\ \A s \in Seqs : row[s] \in {"kept", "gone"} => Carried(s)

\* A message is acked after it was processed.
AckInv ==
    \A m \in Matchers : work[m].pc = "ack" => work[m].seq \in handled \cup spoiled

\* The row of an oversized event outlives its messages.
ReferenceInv ==
    ~Lags =>
        /\ \A s \in Seqs :
              Oversized(s) /\ row[s] \notin {"live", "kept"}
                 => /\ ~OnBus(s)
                    /\ \A d \in Drains : s \notin drain[d].page
                    /\ \A m \in Matchers : work[m].pc = "process" => work[m].seq # s
        /\ ~ReadFails => spoiled = {}

SpineInv == TypeOK /\ CommitInv /\ CarriedInv /\ AckInv /\ ReferenceInv

-----------------------------------------------------------------------------
(* The inductive invariant behind EntityOrder.                             *)

SameEntity(s, t) == s < t /\ event[s].entity = event[t].entity

\* The row lock: whoever writes an entity that an open transaction has written
\* is that transaction.
LockInv ==
    \A s, t \in Seqs :
        SameEntity(s, t) /\ row[s] = "open" /\ row[t] # "free"
           => row[t] = "open" /\ event[t].by = event[s].by

\* What has a place in the stream, and what must have one.
StreamInv ==
    /\ \A s \in Seqs : first[s] <= tail
    /\ \A s \in Seqs : first[s] # 0 => row[s] \in Committed
    /\ \A s \in window : first[s] # 0
    /\ \A d \in Drains : \A s \in drain[d].acked \cup drain[d].retained : first[s] # 0
    /\ \A s \in Seqs : row[s] \in {"kept", "gone"} => first[s] # 0

\* An event is on a page with the earlier ones of its entity that were never
\* stored.
PageInv ==
    \A d \in Drains, s, t \in Seqs :
        SameEntity(s, t) /\ t \in drain[d].page /\ row[s] \in Committed
           => s \in drain[d].page \/ first[s] # 0

OrderInv == LockInv /\ StreamInv /\ PageInv /\ EntityOrder
=============================================================================
