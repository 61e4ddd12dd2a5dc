----------------------------- MODULE LocalSpine -----------------------------
(***************************************************************************)
(* The change path of one broker process on bus=local and the drain that   *)
(* ends the process: an entity write commits and runs the change hook      *)
(* under emit_order, the hook puts the change in its request's buffer (or, *)
(* outside a request, straight on the matcher queue), the history layer    *)
(* flushes the buffer when the handler is done, the matcher folds and      *)
(* processes what is queued, and on SIGTERM the accept loop and the drain  *)
(* wait for the three counters that stand for all of this work             *)
(* (antares-sql: store/mem; antares-api: notify.rs, history.rs, lib.rs;    *)
(* antares-broker: main.rs, shutdown.rs).                                  *)
(*                                                                         *)
(* A change is its position in log.  Which documents a write produces and  *)
(* which subscriptions a change matches play no part here, so a write that *)
(* changes nothing (a refused create, an absent or expired document, a     *)
(* mutate whose closure fails or leaves the document alone) is a stutter:  *)
(* it takes and gives back the order lock.  Shared counters are read and   *)
(* written sequentially consistently.                                      *)
(***************************************************************************)
EXTENDS Integers, Sequences, FiniteSets

CONSTANTS
    Conns,           \* connections a client may open
    Tasks,           \* tasks the process may spawn: names for BACKGROUND's units
    Entities,
    Nobody,          \* the order lock is free
    MaxConnections,  \* ANTARES_MAX_CONNECTIONS
    QueueLimit,      \* CHANGE_QUEUE, in flushed buffers
    BatchLimit,      \* CHANGE_BATCH, in changes
    UsizeMod,        \* number of values of a usize
    MaxChanges       \* bound on committed changes

ASSUME LocalAssumption ==
    /\ Conns \cap Tasks = {} /\ Nobody \notin Conns \cup Tasks
    /\ IsFiniteSet(Conns) /\ IsFiniteSet(Tasks)
    /\ {MaxConnections, QueueLimit, BatchLimit, UsizeMod} \subseteq Nat \ {0}
    /\ MaxChanges \in Nat
    /\ UsizeMod > QueueLimit + BatchLimit + Cardinality(Conns \cup Tasks)

VARIABLES
    log,         \* committed changes, in commit order
    order,       \* who holds emit_order
    at,          \* where each connection or task is
    held,        \* held[w]: the change whose hook w is running, or 0
    buf,         \* buf[c]: the CHANGES task-local of c's request
    queue,       \* the matcher's channel, a sequence of buffers
    pending,     \* pending_changes
    matcher,     \* the drain loop of wire_matcher: pc, batch, taken
    processed,   \* changes process_changes went through, in that order
    lost,        \* changes that left the path, by reason
    inflight,    \* open connections, as the accept loop counts them
    background,  \* BACKGROUND
    phase,       \* the process: serving, noticing, draining, drained ...
    read,        \* which counter the drain looks at next
    late         \* the drain deadline has passed

changes  == <<log, order, held, buf>>
matching == <<matcher, processed>>
stop     == <<phase, read, late>>
vars == <<log, order, at, held, buf, queue, pending, matcher, processed, lost,
          inflight, background, phase, read, late>>

Writers == Conns \cup Tasks
Ids     == 1..Len(log)
Elems(s) == {s[k] : k \in DOMAIN s}
ConnStages == {"off", "idle", "handling", "emitting", "flushing", "counting"}
TaskStages == {"off", "working", "emitting", "counting", "retrying", "over"}
Reasons == {"queue full", "matcher panicked", "client gone"}

Lose(reason, ids) == lost' = [lost EXCEPT ![reason] = @ \cup ids]
Running == phase # "exited"

\* fetch_add and fetch_sub on a usize: a settle that overtakes the count of its
\* own buffer passes below zero.
Wrap(n) ==
    IF n < 0 THEN n + UsizeMod ELSE IF n >= UsizeMod THEN n - UsizeMod ELSE n

TypeOK ==
    /\ log \in Seq(Entities) /\ Len(log) <= MaxChanges
    /\ order \in Writers \cup {Nobody}
    /\ at \in [Writers -> ConnStages \cup TaskStages]
    /\ \A c \in Conns : at[c] \in ConnStages
    /\ \A t \in Tasks : at[t] \in TaskStages
    /\ held \in [Writers -> 0..Len(log)]
    /\ buf \in [Conns -> Seq(Ids)]
    /\ queue \in Seq(Seq(Ids)) /\ Len(queue) <= QueueLimit
    /\ pending \in 0..(UsizeMod - 1)
    /\ matcher \in [pc : {"receiving", "folding", "processing", "settling"},
                    batch : Seq(Ids), taken : 0..BatchLimit]
    /\ processed \in Seq(Ids)
    /\ lost \in [Reasons -> SUBSET Ids]
    /\ inflight \in 0..MaxConnections /\ background \in 0..Cardinality(Tasks)
    /\ phase \in {"serving", "noticing", "draining", "drained", "abandoned", "exited"}
    /\ read \in {"inflight", "background", "pending"} /\ late \in BOOLEAN

Init ==
    /\ log = <<>> /\ order = Nobody
    /\ at = [w \in Writers |-> "off"]
    /\ held = [w \in Writers |-> 0] /\ buf = [c \in Conns |-> <<>>]
    /\ queue = <<>> /\ pending = 0
    /\ matcher = [pc |-> "receiving", batch |-> <<>>, taken |-> 0]
    /\ processed = <<>> /\ lost = [r \in Reasons |-> {}]
    /\ inflight = 0 /\ background = 0
    /\ phase = "serving" /\ read = "inflight" /\ late = FALSE

-----------------------------------------------------------------------------
(* Connections.  A connection serves its requests one after another.       *)

\* Over the cap the accepted stream is dropped.  inflight is raised before
\* the connection's task is spawned.
Accept(c) ==
    /\ phase \in {"serving", "noticing"} /\ at[c] = "off"
    /\ Cardinality({d \in Conns : at[d] # "off"}) < MaxConnections
    /\ at' = [at EXCEPT ![c] = "idle"] /\ inflight' = inflight + 1
    /\ UNCHANGED <<changes, queue, pending, matching, lost, background, stop>>

\* A connection that has not looked at the drain signal yet still reads one.
Request(c) ==
    /\ Running /\ at[c] = "idle"
    /\ at' = [at EXCEPT ![c] = "handling"]
    /\ UNCHANGED <<changes, queue, pending, matching, lost, inflight, background, stop>>

\* Mutant: a connection that closes keeps its unit of inflight.
CloseKeepsCount(c) ==
    /\ Running /\ at[c] = "idle"
    /\ at' = [at EXCEPT ![c] = "off"]
    /\ UNCHANGED <<changes, queue, pending, matching, lost, inflight, background, stop>>

\* The client hangs up between requests, or the drain signal closes an idle
\* connection.
Close(c) ==
    /\ Running /\ at[c] = "idle"
    /\ at' = [at EXCEPT ![c] = "off"] /\ inflight' = inflight - 1
    /\ UNCHANGED <<changes, queue, pending, matching, lost, background, stop>>

\* The client hangs up during a request: the service future is dropped at the
\* await it is suspended in - in the handler, which between commit and buffer
\* never suspends, or in the temporal drain - and its buffer with it.
Disconnect(c) ==
    /\ Running /\ at[c] \in {"handling", "flushing"}
    /\ at' = [at EXCEPT ![c] = "off"] /\ inflight' = inflight - 1
    /\ buf' = [buf EXCEPT ![c] = <<>>]
    /\ Lose("client gone", Elems(buf[c]))
    /\ UNCHANGED <<log, order, held, queue, pending, matching, background, stop>>

-----------------------------------------------------------------------------
(* Entity writes and the change hook.                                      *)

\* Mutant: the write does not take emit_order.
CommitUnordered(w, e) ==
    /\ Running /\ at[w] \in {"handling", "working"}
    /\ Len(log) < MaxChanges
    /\ log' = Append(log, e) /\ order' = w
    /\ held' = [held EXCEPT ![w] = Len(log) + 1]
    /\ at' = [at EXCEPT ![w] = "emitting"]
    /\ UNCHANGED <<buf, queue, pending, matching, lost, inflight, background, stop>>

\* create, upsert, delete, delete_if, mutate: order lock, then the commit.
Commit(w, e) ==
    /\ Running /\ at[w] \in {"handling", "working"} /\ order = Nobody
    /\ Len(log) < MaxChanges
    /\ log' = Append(log, e) /\ order' = w
    /\ held' = [held EXCEPT ![w] = Len(log) + 1]
    /\ at' = [at EXCEPT ![w] = "emitting"]
    /\ UNCHANGED <<buf, queue, pending, matching, lost, inflight, background, stop>>

\* queue_for_matching up to its fetch_add: a full queue drops the buffer.
TrySend(w, ids, otherwise) ==
    IF Len(queue) < QueueLimit
    THEN /\ queue' = Append(queue, ids)
         /\ at' = [at EXCEPT ![w] = "counting"]
         /\ UNCHANGED lost
    ELSE /\ Lose("queue full", Elems(ids))
         /\ at' = [at EXCEPT ![w] = otherwise]
         /\ UNCHANGED queue

\* The hook inside a request, once record_temporal_change is over.
HookBuffers(c) ==
    /\ Running /\ c \in Conns /\ at[c] = "emitting"
    /\ buf' = [buf EXCEPT ![c] = Append(@, held[c])]
    /\ held' = [held EXCEPT ![c] = 0] /\ order' = Nobody
    /\ at' = [at EXCEPT ![c] = "handling"]
    /\ UNCHANGED <<log, queue, pending, matching, lost, inflight, background, stop>>

\* The hook outside a request: no buffer, the change is queued on the spot,
\* under the order lock until it is counted.
HookQueues(t) ==
    /\ Running /\ t \in Tasks /\ at[t] = "emitting"
    /\ TrySend(t, <<held[t]>>, "working")
    /\ held' = [held EXCEPT ![t] = 0]
    /\ order' = IF Len(queue) < QueueLimit THEN order ELSE Nobody
    /\ UNCHANGED <<log, buf, pending, matching, inflight, background, stop>>

\* The handler returns and the layer drains the temporal events.
Return(c) ==
    /\ Running /\ at[c] = "handling"
    /\ at' = [at EXCEPT ![c] = "flushing"]
    /\ UNCHANGED <<changes, queue, pending, matching, lost, inflight, background, stop>>

\* Mutant: the layer copies the buffer where it should take it.
FlushKeeps(c) ==
    /\ Running /\ at[c] = "flushing"
    /\ IF buf[c] = <<>>
       THEN at' = [at EXCEPT ![c] = "idle"] /\ UNCHANGED <<queue, lost>>
       ELSE TrySend(c, buf[c], "idle")
    /\ UNCHANGED <<log, order, held, buf, pending, matching, inflight, background, stop>>

\* change_flush, then the response.
Flush(c) ==
    /\ Running /\ at[c] = "flushing"
    /\ IF buf[c] = <<>>
       THEN at' = [at EXCEPT ![c] = "idle"] /\ UNCHANGED <<queue, lost>>
       ELSE TrySend(c, buf[c], "idle")
    /\ buf' = [buf EXCEPT ![c] = <<>>]
    /\ UNCHANGED <<log, order, held, pending, matching, inflight, background, stop>>

\* The fetch_add behind a successful try_send.
Count(w) ==
    /\ Running /\ at[w] = "counting"
    /\ pending' = Wrap(pending + 1)
    /\ at' = [at EXCEPT ![w] = IF w \in Conns THEN "idle" ELSE "working"]
    /\ order' = IF order = w THEN Nobody ELSE order
    /\ UNCHANGED <<log, held, buf, queue, matching, lost, inflight, background, stop>>

-----------------------------------------------------------------------------
(* Background tasks.                                                       *)

\* A handler leaves work behind: the remote leg of a distributed
\* subscription, the fill of a snapshot.
SpawnFromRequest(c, t) ==
    /\ Running /\ at[c] = "handling" /\ at[t] = "off"
    /\ background' = background + 1
    /\ at' = [at EXCEPT ![t] = "working"]
    /\ UNCHANGED <<changes, queue, pending, matching, lost, inflight, stop>>

\* deliver_as hands a failed first attempt to retry_and_settle.
SpawnRetry(t) ==
    /\ Running /\ matcher.pc = "processing" /\ at[t] = "off"
    /\ background' = background + 1
    /\ at' = [at EXCEPT ![t] = "retrying"]
    /\ UNCHANGED <<changes, queue, pending, matching, lost, inflight, stop>>

TaskEnds(t) ==
    /\ Running /\ at[t] \in {"working", "retrying"}
    /\ background' = background - 1
    /\ at' = [at EXCEPT ![t] = "over"]
    /\ UNCHANGED <<changes, queue, pending, matching, lost, inflight, stop>>

\* The unwinding skips the fetch_sub.
TaskPanics(t) ==
    /\ Running /\ at[t] \in {"working", "retrying"}
    /\ at' = [at EXCEPT ![t] = "over"]
    /\ UNCHANGED <<changes, queue, pending, matching, lost, inflight, background, stop>>

-----------------------------------------------------------------------------
(* The matcher.                                                            *)

Receive ==
    /\ Running /\ matcher.pc = "receiving" /\ queue # <<>>
    /\ matcher' = [pc |-> "folding", batch |-> Head(queue), taken |-> 1]
    /\ queue' = Tail(queue)
    /\ UNCHANGED <<changes, at, pending, processed, lost, inflight, background, stop>>

\* Whatever is queued behind it rides the same pass.
Fold ==
    /\ Running /\ matcher.pc = "folding" /\ queue # <<>>
    /\ Len(matcher.batch) < BatchLimit
    /\ matcher' = [matcher EXCEPT !.batch = @ \o Head(queue), !.taken = @ + 1]
    /\ queue' = Tail(queue)
    /\ UNCHANGED <<changes, at, pending, processed, lost, inflight, background, stop>>

FoldEnds ==
    /\ Running /\ matcher.pc = "folding"
    /\ queue = <<>> \/ Len(matcher.batch) >= BatchLimit
    /\ matcher' = [matcher EXCEPT !.pc = "processing"]
    /\ UNCHANGED <<changes, at, queue, pending, processed, lost, inflight, background, stop>>

\* process_changes returns once every delivery of the batch has.
Process ==
    /\ Running /\ matcher.pc = "processing"
    /\ processed' = processed \o matcher.batch
    /\ matcher' = [matcher EXCEPT !.pc = "settling", !.batch = <<>>]
    /\ UNCHANGED <<changes, at, queue, pending, lost, inflight, background, stop>>

\* guarded: the panic is absorbed and counted, the loop goes on.
ProcessPanics ==
    /\ Running /\ matcher.pc = "processing"
    /\ Lose("matcher panicked", Elems(matcher.batch))
    /\ matcher' = [matcher EXCEPT !.pc = "settling", !.batch = <<>>]
    /\ UNCHANGED <<changes, at, queue, pending, processed, inflight, background, stop>>

\* Mutant: the batch of an absorbed panic is never settled.
SettleNot == FALSE

Settle ==
    /\ Running /\ matcher.pc = "settling"
    /\ pending' = Wrap(pending - matcher.taken)
    /\ matcher' = [matcher EXCEPT !.pc = "receiving", !.taken = 0]
    /\ UNCHANGED <<changes, at, queue, processed, lost, inflight, background, stop>>

-----------------------------------------------------------------------------
(* Shutdown.                                                               *)

work == <<changes, at, queue, pending, matching, lost, inflight, background>>

Sigterm ==
    /\ phase = "serving" /\ phase' = "noticing"
    /\ UNCHANGED <<work, read, late>>

\* The notice window is over: the listener closes and connections are told.
CloseListener ==
    /\ phase = "noticing" /\ phase' = "draining"
    /\ UNCHANGED <<work, read, late>>

Deadline ==
    /\ phase = "draining" /\ ~late /\ late' = TRUE
    /\ UNCHANGED <<work, phase, read>>

\* Mutant: the drain starts over without looking at the clock.
ReadNoDeadline(name, count, zeroPhase, zeroRead) ==
    /\ phase = "draining" /\ read = name
    /\ IF count = 0
       THEN phase' = zeroPhase /\ read' = zeroRead
       ELSE phase' = phase /\ read' = "inflight"
    /\ UNCHANGED <<work, late>>

\* One counter of the loop's condition: zero goes on to the next, anything
\* else sleeps and starts over unless the deadline has passed.
ReadCounter(name, count, zeroPhase, zeroRead) ==
    /\ phase = "draining" /\ read = name
    /\ IF count = 0
       THEN phase' = zeroPhase /\ read' = zeroRead
       ELSE phase' = (IF late THEN "abandoned" ELSE phase) /\ read' = "inflight"
    /\ UNCHANGED <<work, late>>

\* Mutant: the drain does not know the matcher queue.
ReadBackgroundLast == ReadCounter("background", background, "drained", "inflight")

ReadInflight   == ReadCounter("inflight", inflight, "draining", "background")
ReadBackground == ReadCounter("background", background, "draining", "pending")
ReadPending    == ReadCounter("pending", pending, "drained", "inflight")
Drain == ReadInflight \/ ReadBackground \/ ReadPending

\* The stores close and the process ends; on bus=local no outbox is flushed.
Exit ==
    /\ phase \in {"drained", "abandoned"} /\ phase' = "exited"
    /\ UNCHANGED <<work, read, late>>

-----------------------------------------------------------------------------
Matcher ==
    Receive \/ Fold \/ FoldEnds \/ Process \/ ProcessPanics \/ Settle

Next ==
    \/ \E c \in Conns : \/ Accept(c) \/ Request(c) \/ Close(c) \/ Disconnect(c)
                        \/ HookBuffers(c) \/ Return(c) \/ Flush(c)
                        \/ \E t \in Tasks : SpawnFromRequest(c, t)
    \/ \E w \in Writers : Count(w) \/ \E e \in Entities : Commit(w, e)
    \/ \E t \in Tasks : \/ HookQueues(t) \/ SpawnRetry(t)
                        \/ TaskEnds(t) \/ TaskPanics(t)
    \/ Matcher
    \/ Sigterm \/ CloseListener \/ Deadline \/ Drain \/ Exit

Spec == Init /\ [][Next]_vars

\* The matcher loop and the main task are scheduled, a delivery has a timeout,
\* a fetch_add follows its try_send, and the drain's clock advances.  Clients
\* and handlers owe nothing.
Fairness ==
    /\ WF_vars(Matcher) /\ \A w \in Writers : WF_vars(Count(w))
    /\ WF_vars(CloseListener) /\ WF_vars(Deadline) /\ WF_vars(Drain) /\ WF_vars(Exit)

FairSpec == Spec /\ Fairness

-----------------------------------------------------------------------------
(* Every committed change is in exactly one place: on its way through the  *)
(* hook, a request's buffer, the queue or the matcher's batch, processed,  *)
(* or lost for one counted reason.  Nothing is matched twice and nothing   *)
(* vanishes between try_send, fold and settle.                             *)
Places(i) ==
    {<<"hook", w>> : w \in {v \in Writers : held[v] = i}}
    \cup (UNION {{<<"buffer", c, k>> : k \in {j \in DOMAIN buf[c] : buf[c][j] = i}}
                 : c \in Conns})
    \cup (UNION {{<<"queue", n, k>> : k \in {j \in DOMAIN queue[n] : queue[n][j] = i}}
                 : n \in DOMAIN queue})
    \cup {<<"batch", k>> : k \in {j \in DOMAIN matcher.batch : matcher.batch[j] = i}}
    \cup {<<"done", k>> : k \in {j \in DOMAIN processed : processed[j] = i}}
    \cup {<<"lost", r>> : r \in {s \in Reasons : i \in lost[s]}}

EachChangeOnce == \A i \in Ids : Cardinality(Places(i)) = 1

(* "Change hooks fire in COMMIT order" (store/mem/mod.rs:152): a hook that  *)
(* completes leaves no hook of an earlier commit behind it.                 *)
HooksInCommitOrder ==
    [][\A w \in Writers : held[w] # 0 /\ held'[w] = 0 =>
           \A v \in Writers : held[v] # 0 => held[w] <= held[v]]_vars

(* A drain that ends without giving up leaves nothing of a request behind:  *)
(* no open connection, no task a request spawned, no change that a matcher  *)
(* would still have to see (shutdown.rs:103-108).  It takes the order in    *)
(* which the three counters are raised, lowered and read.                   *)
DrainLeavesNothing ==
    phase = "drained" =>
        /\ \A c \in Conns : at[c] = "off"
        /\ \A t \in Tasks : at[t] \notin {"working", "emitting", "counting"}
        /\ queue = <<>> /\ matcher.pc = "receiving"

(* What has been queued is processed or counted lost, unless the process    *)
(* ends first; a stop that has begun ends.                                  *)
QueuedIsMatched ==
    \A i \in 1..MaxChanges :
        (\E n \in DOMAIN queue : i \in Elems(queue[n])) ~>
        (i \in Elems(processed) \cup lost["matcher panicked"] \/ ~Running)

StopEnds == phase = "noticing" ~> phase = "exited"

(* notify.rs:1051-1053, "per-subscription order holds", and ARCHITECTURE.md *)
(* 137: the matcher sees the changes of one entity in commit order.         *)
ChangesInCommitOrder ==
    \A k, l \in DOMAIN processed :
        k < l /\ log[processed[k]] = log[processed[l]] => processed[k] < processed[l]

-----------------------------------------------------------------------------
(* The inductive invariant behind TypeOK, HooksInCommitOrder and           *)
(* DrainLeavesNothing.                                                     *)

\* Who of D is at one of the stages V.
Those(f, V, D) == {w \in D : f[w] \in V}

\* inflight counts the open connections.
ConnInv ==
    /\ inflight = Cardinality(Those(at, ConnStages \ {"off"}, Conns))
    /\ inflight <= MaxConnections

\* background is at least the tasks that run: panics leave their unit behind.
TaskInv ==
    /\ Cardinality(Those(at, TaskStages \ {"off", "over"}, Tasks)) <= background
    /\ background <= Cardinality(Those(at, TaskStages \ {"off"}, Tasks))

\* No buffer is empty, and a batch holds a change for every buffer taken.
BatchInv ==
    /\ \A n \in DOMAIN queue : queue[n] # <<>>
    /\ matcher.pc = "receiving" <=> matcher.taken = 0
    /\ matcher.pc = "folding" => matcher.taken <= Len(matcher.batch)

\* pending is what is queued and taken, less what has not been counted yet.
Uncounted == Cardinality(Those(at, {"counting"}, Writers))
PendingInv ==
    pending = Wrap(Len(queue) + matcher.taken - Uncounted)

\* A hook runs under the order lock.
OrderInv ==
    \A w \in Writers : /\ held[w] # 0 <=> at[w] = "emitting"
                       /\ at[w] = "emitting" => order = w

\* What the drain has read to be zero stays so: connections, then the tasks
\* only connections start.
DrainInv ==
    /\ phase # "draining" => read = "inflight"
    /\ phase = "draining" /\ read # "inflight" => \A c \in Conns : at[c] = "off"
    /\ phase = "draining" /\ read = "pending" =>
           \A t \in Tasks : at[t] \notin {"working", "emitting", "counting"}

SpineInv ==
    /\ TypeOK /\ ConnInv /\ TaskInv /\ BatchInv /\ PendingInv /\ OrderInv
    /\ DrainInv /\ DrainLeavesNothing
=============================================================================
