----------------------------- MODULE MCSettling -----------------------------
(***************************************************************************)
(* How changes reach the matcher, and how the deliveries they cause end.   *)
(* A behaviour runs one of three and leaves the others at rest: the change *)
(* feed that the outbox carries (the constants of the .cfg), deliveries    *)
(* with retries and two operators at the dead letters, or deliveries under *)
(* the default policy of one send, drained one at a time.                  *)
(***************************************************************************)
EXTENDS OutboxSpine

CONSTANTS a1, a2, a3, NoAttempt

VARIABLES
    part,
    d_row, d_mirror, d_writes, d_pc, d_sub, d_carry, d_prev, d_made, d_booked, d_failed,
    d_acked, d_letter, d_handler, d_replay

delVars == <<d_row, d_mirror, d_writes, d_pc, d_sub, d_carry, d_prev, d_made, d_booked, d_failed,
             d_acked, d_letter, d_handler, d_replay>>

Retries == INSTANCE Delivery WITH
    Subs <- {"s1"}, Attempts <- {a1, a2}, Handlers <- {"h1"}, Replayers <- {"r1", "r2"},
    MaxAttempts <- 2, Serial <- FALSE, StoreFails <- FALSE, MaxWrites <- 1,
    row <- d_row, mirror <- d_mirror, writes <- d_writes, pc <- d_pc, sub <- d_sub,
    carry <- d_carry, prev <- d_prev, made <- d_made, booked <- d_booked, failed <- d_failed,
    acked <- d_acked, letter <- d_letter, handler <- d_handler, replay <- d_replay

OneSend == INSTANCE Delivery WITH
    Subs <- {"s1"}, Attempts <- {a1, a2, a3}, Handlers <- {"h1"}, Replayers <- {"r1"},
    MaxAttempts <- 1, Serial <- TRUE, StoreFails <- FALSE, MaxWrites <- 2,
    row <- d_row, mirror <- d_mirror, writes <- d_writes, pc <- d_pc, sub <- d_sub,
    carry <- d_carry, prev <- d_prev, made <- d_made, booked <- d_booked, failed <- d_failed,
    acked <- d_acked, letter <- d_letter, handler <- d_handler, replay <- d_replay

NoChanges == event = [s \in Seqs |-> [entity |-> "e1", by |-> "w1", kind |-> "small"]]

MCInit ==
    /\ part \in {"feed", "retries", "one send"}
    /\ Init
    /\ event[1].entity = "e1" /\ event[1].by = "w1"    \* entities, writers: any
    /\ part # "feed" => NoChanges
    /\ IF part = "one send" THEN OneSend!Init ELSE Retries!Init

MCNext ==
    /\ UNCHANGED part
    /\ \/ part = "feed" /\ Next /\ UNCHANGED delVars
       \/ part = "retries" /\ Retries!Next /\ UNCHANGED vars
       \/ part = "one send" /\ OneSend!Next /\ UNCHANGED vars

allVars == <<part, vars, delVars>>

\* Every await of the drain loop, of a matcher pod and of a delivery resolves
\* (FairSpec of either module).
MCSpec ==
    /\ MCInit /\ [][MCNext]_allVars
    /\ \A d \in Drains : WF_allVars(part = "feed" /\ DrainStep(d) /\ UNCHANGED <<part, delVars>>)
    /\ \A m \in Matchers : WF_allVars(part = "feed" /\ MatchStep(m) /\ UNCHANGED <<part, delVars>>)
    /\ \A a \in {a1, a2} :
           WF_allVars(part = "retries" /\ Retries!Deliver(a) /\ UNCHANGED <<part, vars>>)
    /\ \A a \in {a1, a2, a3} :
           WF_allVars(part = "one send" /\ OneSend!Deliver(a) /\ UNCHANGED <<part, vars>>)

\* What the bookkeeping says of a notification is so.  A dead letter is kept
\* for what was never acknowledged, whatever two operators replay; under the
\* default policy the rollback of a failed attempt leaves lastSuccess at the
\* last one that succeeded (deliver_as, retry_and_settle).
DeliveryTruthful ==
    /\ part = "retries" => Retries!LetterMeansUndelivered
    /\ part = "one send" => OneSend!LastSuccessTruthful

\* Under a policy of retries every matched notification is settled.
EveryAttemptSettles == \A a \in {a1, a2} : d_pc[a] = "matched" ~> d_pc[a] = "done"
=============================================================================
