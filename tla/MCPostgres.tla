----------------------------- MODULE MCPostgres -----------------------------
(***************************************************************************)
(* What the broker does in Postgres.  A behaviour runs one of two parts    *)
(* and leaves the other at rest: the rows of documents and tenants under   *)
(* concurrent transactions (the constants of the .cfg), or the outbox with *)
(* its drains and the matcher pods.                                        *)
(***************************************************************************)
EXTENDS RowStore, TLC

CONSTANTS c1, c2, w1, w2, d1, d2, m1, m2

VARIABLES
    part,
    o_row, o_event, o_last, o_drain, o_window, o_stored, o_first, o_tail, o_bus, o_durable,
    o_work, o_handled, o_spoiled, o_phantom, o_faults

outVars == <<o_row, o_event, o_last, o_drain, o_window, o_stored, o_first, o_tail, o_bus, o_durable,
             o_work, o_handled, o_spoiled, o_phantom, o_faults>>

-----------------------------------------------------------------------------
(* One Entity and one registration of one tenant, and two clients.         *)

Key(kind) == [kind |-> kind, tenant |-> 1, id |-> 1]
E == Key("entity")
R == Key("registration")
Doc(v, till) == [val |-> v, till |-> till, inst |-> 0]

MCKeys == {E, R}
MCAsks ==
    { [op |-> "create", key |-> E, doc |-> Doc(1, 1)],
      [op |-> "create", key |-> E, doc |-> Doc(2, 0)],
      [op |-> "delete", key |-> E],
      [op |-> "delete_if", key |-> E, keep |-> {1}],
      [op |-> "mutate", key |-> E, val |-> 3, refuses |-> {2}],
      [op |-> "get", key |-> E],
      [op |-> "create", key |-> R, doc |-> Doc(2, 0)],
      [op |-> "upsert", key |-> R, doc |-> Doc(4, 0)],
      [op |-> "mutate", key |-> R, val |-> 3, refuses |-> {}],
      [op |-> "delete", key |-> R],
      [op |-> "purge", tenant |-> 1] }

\* Two writers, two drains and two matcher pods on one entity.
Out == INSTANCE OutboxSpine WITH
    Entities <- {"e1"}, Writers <- {w1, w2}, Drains <- {d1, d2}, Matchers <- {m1, m2},
    MaxSeq <- 2, PageSize <- 2, MaxFaults <- 2, DurableFirst <- FALSE, Lags <- FALSE,
    ReadFails <- TRUE, Kinds <- {"small", "grown"},
    row <- o_row, event <- o_event, last <- o_last, drain <- o_drain, window <- o_window,
    stored <- o_stored, first <- o_first, tail <- o_tail, bus <- o_bus, durable <- o_durable,
    work <- o_work, handled <- o_handled, spoiled <- o_spoiled, phantom <- o_phantom,
    faults <- o_faults

-----------------------------------------------------------------------------
NoChanges == \E w \in {w1, w2} : o_event = [s \in 1..2 |-> [entity |-> "e1", by |-> w, kind |-> "small"]]

MCInit ==
    /\ part \in {"rows", "outbox"}
    /\ Init
    /\ Out!Init /\ (part # "outbox" => NoChanges)

MCNext ==
    /\ UNCHANGED part
    /\ \/ part = "rows" /\ Next /\ UNCHANGED outVars
       \/ part = "outbox" /\ Out!Next /\ UNCHANGED vars

MCSpec == MCInit /\ [][MCNext]_<<part, vars, outVars>>

\* Clients, writers, drains and matcher pods are interchangeable.
Interchangeable == UNION {Permutations(S) : S \in {{c1, c2}, {w1, w2}, {d1, d2}, {m1, m2}}}

\* Two drains of two pods: one entity's events are first stored in the order
\* of their commits, and the row a message refers to is there as long as the
\* message is (pg/outbox.rs).
OutboxSafe == part = "outbox" => Out!TypeOK /\ Out!EntityOrder /\ Out!ReferenceResolves
=============================================================================
