----------------------------- MODULE ChangeFeed -----------------------------
(***************************************************************************)
(* What the change spine promises its subscribers: the changes of one      *)
(* transaction become due together, and each one that is due is handed     *)
(* whole to the matcher.  A change that never committed is never handed    *)
(* over.  OutboxSpine implements it with an outbox table, drains, a stream *)
(* and redelivered messages.                                               *)
(***************************************************************************)
CONSTANT Seqs

VARIABLE feed

Init == feed = [s \in Seqs |-> "absent"]

\* A transaction commits: its changes become due, all at once.
Commit ==
    \E S \in SUBSET Seqs :
        /\ \A s \in S : feed[s] = "absent"
        /\ feed' = [s \in Seqs |-> IF s \in S THEN "due" ELSE feed[s]]

\* The matcher gets one.
Notify(s) ==
    /\ feed[s] = "due"
    /\ feed' = [feed EXCEPT ![s] = "notified"]

Next == Commit \/ \E s \in Seqs : Notify(s)

Spec == Init /\ [][Next]_feed

FairSpec == Spec /\ \A s \in Seqs : WF_feed(Notify(s))
=============================================================================
