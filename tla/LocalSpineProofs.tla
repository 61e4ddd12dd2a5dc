-------------------------- MODULE LocalSpineProofs --------------------------
(***************************************************************************)
(* For every number of connections, tasks, entities and changes: the types *)
(* of LocalSpine, hooks in commit order, one place for each change, and    *)
(* that a drain which does not give up leaves nothing of a request behind. *)
(***************************************************************************)
EXTENDS LocalSpine, FiniteSetTheorems, SequenceTheorems, TLAPS

Open  == ConnStages \ {"off"}
Live  == TaskStages \ {"off", "over"}
Begun == TaskStages \ {"off"}
Late  == {"counting"}

ConnsOpen  == Those(at, Open, Conns)
TasksLive  == Those(at, Live, Tasks)
TasksBegun == Those(at, Begun, Tasks)
NotCounted == Those(at, Late, Writers)

(* What moving one writer to stage v does to the number of those at V.      *)
Joins(w, v, V)  == v \in V /\ at[w] \notin V
Leaves(w, v, V) == v \notin V /\ at[w] \in V
Stays(w, v, V)  == v \in V <=> at[w] \in V

(* Counting who is at one of the stages V: the count is a number, and one   *)
(* writer moving to stage v changes it by what the move says.               *)
LEMMA CountIsNat ==
    ASSUME NEW D, IsFiniteSet(D), NEW f, NEW V
    PROVE  /\ IsFiniteSet(Those(f, V, D))
           /\ Cardinality(Those(f, V, D)) \in Nat
           /\ Cardinality(Those(f, V, D)) <= Cardinality(D)
           /\ Cardinality(Those(f, V, D)) = 0 => \A w \in D : f[w] \notin V
<1>1. Those(f, V, D) \subseteq D
  BY DEF Those
<1>2. /\ IsFiniteSet(Those(f, V, D)) /\ Cardinality(Those(f, V, D)) <= Cardinality(D)
  BY <1>1, FS_Subset
<1>3. Cardinality(Those(f, V, D)) \in Nat
  BY <1>2, FS_CardinalityType
<1>4. ASSUME Cardinality(Those(f, V, D)) = 0 PROVE \A w \in D : f[w] \notin V
  <2>1. Those(f, V, D) = {}
    BY <1>2, <1>4, FS_EmptySet
  <2> QED BY <2>1 DEF Those
<1> QED BY <1>2, <1>3, <1>4

(* A function that changes at one writer changes the count by what it does there. *)
LEMMA CountMoves ==
    ASSUME NEW D, IsFiniteSet(D), NEW V, NEW f, NEW g, NEW w,
           \A u \in D \ {w} : g[u] = f[u]
    PROVE  /\ w \in D /\ g[w] \in V /\ f[w] \notin V =>
                  Cardinality(Those(g, V, D)) = Cardinality(Those(f, V, D)) + 1
           /\ w \in D /\ g[w] \notin V /\ f[w] \in V =>
                  Cardinality(Those(g, V, D)) = Cardinality(Those(f, V, D)) - 1
           /\ w \notin D \/ (g[w] \in V <=> f[w] \in V) =>
                  Cardinality(Those(g, V, D)) = Cardinality(Those(f, V, D))
<1> DEFINE F == Those(f, V, D)  G == Those(g, V, D)
<1>1. IsFiniteSet(F) /\ Cardinality(F) \in Nat
  BY CountIsNat
<1>2. ASSUME w \in D, g[w] \in V, f[w] \notin V PROVE Cardinality(G) = Cardinality(F) + 1
  <2>1. w \notin F /\ G = F \cup {w}
    BY <1>2 DEF Those
  <2> QED BY <1>1, <2>1, FS_AddElement
<1>3. ASSUME w \in D, g[w] \notin V, f[w] \in V PROVE Cardinality(G) = Cardinality(F) - 1
  <2>1. w \in F /\ G = F \ {w}
    BY <1>3 DEF Those
  <2> QED BY <1>1, <2>1, FS_RemoveElement
<1>4. ASSUME w \notin D \/ (g[w] \in V <=> f[w] \in V) PROVE Cardinality(G) = Cardinality(F)
  <2>1. G = F
    BY <1>4 DEF Those
  <2> QED BY <2>1
<1> QED BY <1>2, <1>3, <1>4

(* The four counts the invariant speaks of, and what one move does to each. *)
LEMMA CountsAreNat ==
    /\ IsFiniteSet(Conns) /\ IsFiniteSet(Tasks) /\ IsFiniteSet(Writers)
    /\ Cardinality(Writers) \in Nat
    /\ Cardinality(ConnsOpen) \in Nat /\ Cardinality(TasksLive) \in Nat
    /\ Cardinality(TasksBegun) \in Nat /\ Cardinality(TasksBegun) <= Cardinality(Tasks)
    /\ Cardinality(NotCounted) \in Nat /\ Cardinality(NotCounted) <= Cardinality(Writers)
<1>1. IsFiniteSet(Conns) /\ IsFiniteSet(Tasks)
  BY LocalAssumption DEF LocalAssumption
<1>2. IsFiniteSet(Writers)
  BY <1>1, FS_Union DEF Writers
<1>3. Cardinality(Writers) \in Nat
  BY <1>2, FS_CardinalityType
<1>4. Cardinality(ConnsOpen) \in Nat
  BY <1>1, CountIsNat DEF ConnsOpen
<1>5. Cardinality(TasksLive) \in Nat
  BY <1>1, CountIsNat DEF TasksLive
<1>6. Cardinality(TasksBegun) \in Nat /\ Cardinality(TasksBegun) <= Cardinality(Tasks)
  BY <1>1, CountIsNat DEF TasksBegun
<1>7. Cardinality(NotCounted) \in Nat /\ Cardinality(NotCounted) <= Cardinality(Writers)
  BY <1>2, CountIsNat DEF NotCounted
<1> QED BY <1>1, <1>2, <1>3, <1>4, <1>5, <1>6, <1>7

(* The same, of at and its next value.                                       *)
LEMMA MovesAt ==
    ASSUME NEW D, IsFiniteSet(D), NEW V, NEW w, NEW v,
           at'[w] = v, \A u \in D \ {w} : at'[u] = at[u]
    PROVE  /\ w \in D /\ Joins(w, v, V) =>
                  Cardinality(Those(at', V, D)) = Cardinality(Those(at, V, D)) + 1
           /\ w \in D /\ Leaves(w, v, V) =>
                  Cardinality(Those(at', V, D)) = Cardinality(Those(at, V, D)) - 1
           /\ w \notin D \/ Stays(w, v, V) =>
                  Cardinality(Those(at', V, D)) = Cardinality(Those(at, V, D))
  BY CountMoves DEF Joins, Leaves, Stays

(* What one writer moving to stage v does to each of the four counts.        *)
LEMMA MoveCounts ==
    ASSUME TypeOK, NEW w \in Writers, NEW v, at' = [at EXCEPT ![w] = v]
    PROVE  /\ w \in Conns /\ Joins(w, v, Open) => Cardinality(ConnsOpen)' = Cardinality(ConnsOpen) + 1
           /\ w \in Conns /\ Leaves(w, v, Open) => Cardinality(ConnsOpen)' = Cardinality(ConnsOpen) - 1
           /\ w \notin Conns \/ Stays(w, v, Open) => Cardinality(ConnsOpen)' = Cardinality(ConnsOpen)
           /\ w \in Tasks /\ Joins(w, v, Live) => Cardinality(TasksLive)' = Cardinality(TasksLive) + 1
           /\ w \in Tasks /\ Leaves(w, v, Live) => Cardinality(TasksLive)' = Cardinality(TasksLive) - 1
           /\ w \notin Tasks \/ Stays(w, v, Live) => Cardinality(TasksLive)' = Cardinality(TasksLive)
           /\ w \in Tasks /\ Joins(w, v, Begun) => Cardinality(TasksBegun)' = Cardinality(TasksBegun) + 1
           /\ w \in Tasks /\ Leaves(w, v, Begun) => Cardinality(TasksBegun)' = Cardinality(TasksBegun) - 1
           /\ w \notin Tasks \/ Stays(w, v, Begun) => Cardinality(TasksBegun)' = Cardinality(TasksBegun)
           /\ Joins(w, v, Late) => Cardinality(NotCounted)' = Cardinality(NotCounted) + 1
           /\ Leaves(w, v, Late) => Cardinality(NotCounted)' = Cardinality(NotCounted) - 1
           /\ Stays(w, v, Late) => Cardinality(NotCounted)' = Cardinality(NotCounted)
<1>1. IsFiniteSet(Conns) /\ IsFiniteSet(Tasks) /\ IsFiniteSet(Writers)
  BY CountsAreNat
<1>2. /\ at'[w] = v
      /\ \A u \in Writers \ {w} : at'[u] = at[u]
      /\ \A u \in Conns \ {w} : at'[u] = at[u]
      /\ \A u \in Tasks \ {w} : at'[u] = at[u]
  BY DEF TypeOK, Writers
<1>3. /\ w \in Conns /\ Joins(w, v, Open) => Cardinality(Those(at', Open, Conns)) = Cardinality(Those(at, Open, Conns)) + 1
      /\ w \in Conns /\ Leaves(w, v, Open) => Cardinality(Those(at', Open, Conns)) = Cardinality(Those(at, Open, Conns)) - 1
      /\ w \notin Conns \/ Stays(w, v, Open) => Cardinality(Those(at', Open, Conns)) = Cardinality(Those(at, Open, Conns))
  BY <1>1, <1>2, MovesAt, Zenon
<1>4. /\ w \in Tasks /\ Joins(w, v, Live) => Cardinality(Those(at', Live, Tasks)) = Cardinality(Those(at, Live, Tasks)) + 1
      /\ w \in Tasks /\ Leaves(w, v, Live) => Cardinality(Those(at', Live, Tasks)) = Cardinality(Those(at, Live, Tasks)) - 1
      /\ w \notin Tasks \/ Stays(w, v, Live) => Cardinality(Those(at', Live, Tasks)) = Cardinality(Those(at, Live, Tasks))
  BY <1>1, <1>2, MovesAt, Zenon
<1>5. /\ w \in Tasks /\ Joins(w, v, Begun) => Cardinality(Those(at', Begun, Tasks)) = Cardinality(Those(at, Begun, Tasks)) + 1
      /\ w \in Tasks /\ Leaves(w, v, Begun) => Cardinality(Those(at', Begun, Tasks)) = Cardinality(Those(at, Begun, Tasks)) - 1
      /\ w \notin Tasks \/ Stays(w, v, Begun) => Cardinality(Those(at', Begun, Tasks)) = Cardinality(Those(at, Begun, Tasks))
  BY <1>1, <1>2, MovesAt, Zenon
<1>6. /\ Joins(w, v, Late) => Cardinality(Those(at', Late, Writers)) = Cardinality(Those(at, Late, Writers)) + 1
      /\ Leaves(w, v, Late) => Cardinality(Those(at', Late, Writers)) = Cardinality(Those(at, Late, Writers)) - 1
      /\ Stays(w, v, Late) => Cardinality(Those(at', Late, Writers)) = Cardinality(Those(at, Late, Writers))
  BY <1>1, <1>2, MovesAt, Zenon
<1>7. ConnsOpen = Those(at, Open, Conns) /\ ConnsOpen' = Those(at', Open, Conns)
  BY DEF ConnsOpen, Those, Open
<1>8. TasksLive = Those(at, Live, Tasks) /\ TasksLive' = Those(at', Live, Tasks)
  BY DEF TasksLive, Those, Live
<1>9. TasksBegun = Those(at, Begun, Tasks) /\ TasksBegun' = Those(at', Begun, Tasks)
  BY DEF TasksBegun, Those, Begun
<1>10. NotCounted = Those(at, Late, Writers) /\ NotCounted' = Those(at', Late, Writers)
  BY DEF NotCounted, Those, Late
<1> QED BY <1>3, <1>4, <1>5, <1>6, <1>7, <1>8, <1>9, <1>10

(* The parts of TypeOK: where everyone is, what the sequences and sets hold, *)
(* and the counters.                                                        *)
StageInv ==
    /\ at \in [Writers -> ConnStages \cup TaskStages]
    /\ \A c \in Conns : at[c] \in ConnStages
    /\ \A t \in Tasks : at[t] \in TaskStages

ChangeInv ==
    /\ log \in Seq(Entities) /\ Len(log) <= MaxChanges
    /\ held \in [Writers -> 0..Len(log)]
    /\ buf \in [Conns -> Seq(Ids)]
    /\ queue \in Seq(Seq(Ids)) /\ Len(queue) <= QueueLimit
    /\ matcher \in [pc : {"receiving", "folding", "processing", "settling"},
                    batch : Seq(Ids), taken : 0..BatchLimit]
    /\ processed \in Seq(Ids)
    /\ lost \in [Reasons -> SUBSET Ids]

CounterInv ==
    /\ pending \in 0..(UsizeMod - 1)
    /\ inflight \in 0..MaxConnections /\ background \in 0..Cardinality(Tasks)

PhaseInv ==
    /\ order \in Writers \cup {Nobody}
    /\ phase \in {"serving", "noticing", "draining", "drained", "abandoned", "exited"}
    /\ read \in {"inflight", "background", "pending"} /\ late \in BOOLEAN

(* TypeOK is its parts.                                                      *)
LEMMA TypeParts == TypeOK <=> StageInv /\ ChangeInv /\ CounterInv /\ PhaseInv
BY DEF TypeOK, StageInv, ChangeInv, CounterInv, PhaseInv

(* What LocalAssumption says, in the terms of the model.                     *)
LEMMA Constants ==
    /\ Writers = Conns \cup Tasks /\ Conns \cap Tasks = {} /\ Nobody \notin Writers
    /\ MaxConnections \in Nat /\ QueueLimit \in Nat /\ BatchLimit \in Nat
    /\ UsizeMod \in Nat /\ MaxChanges \in Nat
    /\ MaxConnections > 0 /\ QueueLimit > 0 /\ BatchLimit > 0
    /\ UsizeMod > QueueLimit + BatchLimit + Cardinality(Writers)
BY LocalAssumption DEF LocalAssumption, Writers

(* Everyone stays at one of its stages.                                     *)
LEMMA StageStep ==
    ASSUME SpineInv, Next
    PROVE  StageInv'
<1>1. ASSUME NEW c \in Conns, Accept(c) PROVE StageInv'
  BY <1>1, Constants DEF SpineInv, TypeOK, StageInv, ConnStages, TaskStages, Accept,
     changes, matching, stop
<1>2. ASSUME NEW c \in Conns, Request(c) PROVE StageInv'
  BY <1>2, Constants DEF SpineInv, TypeOK, StageInv, ConnStages, TaskStages, Request,
     changes, matching, stop
<1>3. ASSUME NEW c \in Conns, Close(c) PROVE StageInv'
  BY <1>3, Constants DEF SpineInv, TypeOK, StageInv, ConnStages, TaskStages, Close,
     changes, matching, stop
<1>4. ASSUME NEW c \in Conns, Disconnect(c) PROVE StageInv'
  BY <1>4, Constants DEF SpineInv, TypeOK, StageInv, ConnStages, TaskStages,
     Disconnect, changes, matching, stop
<1>5. ASSUME NEW c \in Conns, HookBuffers(c) PROVE StageInv'
  BY <1>5, Constants DEF SpineInv, TypeOK, StageInv, ConnStages, TaskStages,
     HookBuffers, changes, matching, stop
<1>6. ASSUME NEW c \in Conns, Return(c) PROVE StageInv'
  BY <1>6, Constants DEF SpineInv, TypeOK, StageInv, ConnStages, TaskStages, Return,
     changes, matching, stop
<1>7. ASSUME NEW c \in Conns, Flush(c) PROVE StageInv'
  BY <1>7, Constants DEF SpineInv, TypeOK, StageInv, ConnStages, TaskStages, Flush,
     TrySend, changes, matching, stop
<1>8. ASSUME NEW c \in Conns, NEW t \in Tasks, SpawnFromRequest(c, t) PROVE StageInv'
  BY <1>8, Constants DEF SpineInv, TypeOK, StageInv, ConnStages, TaskStages,
     SpawnFromRequest, changes, matching, stop
<1>9. ASSUME NEW w \in Writers, Count(w) PROVE StageInv'
  BY <1>9, Constants DEF SpineInv, TypeOK, StageInv, ConnStages, TaskStages, Count,
     changes, matching, stop
<1>10. ASSUME NEW w \in Writers, NEW e \in Entities, Commit(w, e) PROVE StageInv'
  BY <1>10, Constants DEF SpineInv, TypeOK, StageInv, ConnStages, TaskStages, Commit,
     changes, matching, stop
<1>11. ASSUME NEW t \in Tasks, HookQueues(t) PROVE StageInv'
  BY ZenonT(30), <1>11, Constants DEF SpineInv, TypeOK, StageInv, ConnStages, TaskStages,
     HookQueues, TrySend, changes, matching, stop
<1>12. ASSUME NEW t \in Tasks, SpawnRetry(t) PROVE StageInv'
  BY <1>12, Constants DEF SpineInv, TypeOK, StageInv, ConnStages, TaskStages,
     SpawnRetry, changes, matching, stop
<1>13. ASSUME NEW t \in Tasks, TaskEnds(t) PROVE StageInv'
  BY <1>13, Constants DEF SpineInv, TypeOK, StageInv, ConnStages, TaskStages,
     TaskEnds, changes, matching, stop
<1>14. ASSUME NEW t \in Tasks, TaskPanics(t) PROVE StageInv'
  BY <1>14, Constants DEF SpineInv, TypeOK, StageInv, ConnStages, TaskStages,
     TaskPanics, changes, matching, stop
<1>15. ASSUME Receive PROVE StageInv'
  BY <1>15, Constants DEF SpineInv, TypeOK, StageInv, ConnStages, TaskStages, Receive,
     changes, matching, stop
<1>16. ASSUME Fold PROVE StageInv'
  BY <1>16, Constants DEF SpineInv, TypeOK, StageInv, ConnStages, TaskStages, Fold,
     changes, matching, stop
<1>17. ASSUME FoldEnds PROVE StageInv'
  BY <1>17, Constants DEF SpineInv, TypeOK, StageInv, ConnStages, TaskStages,
     FoldEnds, changes, matching, stop
<1>18. ASSUME Process PROVE StageInv'
  BY <1>18, Constants DEF SpineInv, TypeOK, StageInv, ConnStages, TaskStages, Process,
     changes, matching, stop
<1>19. ASSUME ProcessPanics PROVE StageInv'
  BY <1>19, Constants DEF SpineInv, TypeOK, StageInv, ConnStages, TaskStages,
     ProcessPanics, changes, matching, stop
<1>20. ASSUME Settle PROVE StageInv'
  BY <1>20, Constants DEF SpineInv, TypeOK, StageInv, ConnStages, TaskStages, Settle,
     changes, matching, stop
<1>21. ASSUME Sigterm PROVE StageInv'
  BY <1>21, Constants DEF SpineInv, TypeOK, StageInv, ConnStages, TaskStages, Sigterm,
     work, changes, matching, stop
<1>22. ASSUME CloseListener PROVE StageInv'
  BY <1>22, Constants DEF SpineInv, TypeOK, StageInv, ConnStages, TaskStages,
     CloseListener, work, changes, matching, stop
<1>23. ASSUME Deadline PROVE StageInv'
  BY <1>23, Constants DEF SpineInv, TypeOK, StageInv, ConnStages, TaskStages,
     Deadline, work, changes, matching, stop
<1>24. ASSUME ReadInflight PROVE StageInv'
  BY <1>24, Constants DEF SpineInv, TypeOK, StageInv, ConnStages, TaskStages,
     ReadInflight, ReadCounter, work, changes, matching, stop
<1>25. ASSUME ReadBackground PROVE StageInv'
  BY <1>25, Constants DEF SpineInv, TypeOK, StageInv, ConnStages, TaskStages,
     ReadBackground, ReadCounter, work, changes, matching, stop
<1>26. ASSUME ReadPending PROVE StageInv'
  BY <1>26, Constants DEF SpineInv, TypeOK, StageInv, ConnStages, TaskStages,
     ReadPending, ReadCounter, work, changes, matching, stop
<1>27. ASSUME Exit PROVE StageInv'
  BY <1>27, Constants DEF SpineInv, TypeOK, StageInv, ConnStages, TaskStages, Exit,
     work, changes, matching, stop
<1> QED BY <1>1, <1>2, <1>3, <1>4, <1>5, <1>6, <1>7, <1>8, <1>9, <1>10,
     <1>11, <1>12, <1>13, <1>14, <1>15, <1>16, <1>17, <1>18, <1>19,
     <1>20, <1>21, <1>22, <1>23, <1>24, <1>25, <1>26, <1>27 DEF Next, Matcher, Drain

(* The order lock and the drain stay in range.                              *)
LEMMA PhaseStep ==
    ASSUME SpineInv, Next
    PROVE  PhaseInv'
<1>1. ASSUME NEW c \in Conns, Accept(c) PROVE PhaseInv'
  BY <1>1, Constants DEF SpineInv, TypeOK, PhaseInv, Accept, changes, matching, stop
<1>2. ASSUME NEW c \in Conns, Request(c) PROVE PhaseInv'
  BY <1>2, Constants DEF SpineInv, TypeOK, PhaseInv, Request, changes, matching, stop
<1>3. ASSUME NEW c \in Conns, Close(c) PROVE PhaseInv'
  BY <1>3, Constants DEF SpineInv, TypeOK, PhaseInv, Close, changes, matching, stop
<1>4. ASSUME NEW c \in Conns, Disconnect(c) PROVE PhaseInv'
  BY <1>4, Constants DEF SpineInv, TypeOK, PhaseInv, Disconnect, changes, matching,
     stop
<1>5. ASSUME NEW c \in Conns, HookBuffers(c) PROVE PhaseInv'
  BY <1>5, Constants DEF SpineInv, TypeOK, PhaseInv, HookBuffers, changes, matching,
     stop
<1>6. ASSUME NEW c \in Conns, Return(c) PROVE PhaseInv'
  BY <1>6, Constants DEF SpineInv, TypeOK, PhaseInv, Return, changes, matching, stop
<1>7. ASSUME NEW c \in Conns, Flush(c) PROVE PhaseInv'
  BY <1>7, Constants DEF SpineInv, TypeOK, PhaseInv, Flush, TrySend, changes,
     matching, stop
<1>8. ASSUME NEW c \in Conns, NEW t \in Tasks, SpawnFromRequest(c, t) PROVE PhaseInv'
  BY <1>8, Constants DEF SpineInv, TypeOK, PhaseInv, SpawnFromRequest, changes,
     matching, stop
<1>9. ASSUME NEW w \in Writers, Count(w) PROVE PhaseInv'
  BY <1>9, Constants DEF SpineInv, TypeOK, PhaseInv, Count, changes, matching, stop
<1>10. ASSUME NEW w \in Writers, NEW e \in Entities, Commit(w, e) PROVE PhaseInv'
  BY <1>10, Constants DEF SpineInv, TypeOK, PhaseInv, Commit, changes, matching, stop
<1>11. ASSUME NEW t \in Tasks, HookQueues(t) PROVE PhaseInv'
  BY <1>11, Constants DEF SpineInv, TypeOK, PhaseInv, HookQueues, TrySend, changes,
     matching, stop
<1>12. ASSUME NEW t \in Tasks, SpawnRetry(t) PROVE PhaseInv'
  BY <1>12, Constants DEF SpineInv, TypeOK, PhaseInv, SpawnRetry, changes, matching,
     stop
<1>13. ASSUME NEW t \in Tasks, TaskEnds(t) PROVE PhaseInv'
  BY <1>13, Constants DEF SpineInv, TypeOK, PhaseInv, TaskEnds, changes, matching,
     stop
<1>14. ASSUME NEW t \in Tasks, TaskPanics(t) PROVE PhaseInv'
  BY <1>14, Constants DEF SpineInv, TypeOK, PhaseInv, TaskPanics, changes, matching,
     stop
<1>15. ASSUME Receive PROVE PhaseInv'
  BY <1>15, Constants DEF SpineInv, TypeOK, PhaseInv, Receive, changes, matching, stop
<1>16. ASSUME Fold PROVE PhaseInv'
  BY <1>16, Constants DEF SpineInv, TypeOK, PhaseInv, Fold, changes, matching, stop
<1>17. ASSUME FoldEnds PROVE PhaseInv'
  BY <1>17, Constants DEF SpineInv, TypeOK, PhaseInv, FoldEnds, changes, matching,
     stop
<1>18. ASSUME Process PROVE PhaseInv'
  BY <1>18, Constants DEF SpineInv, TypeOK, PhaseInv, Process, changes, matching, stop
<1>19. ASSUME ProcessPanics PROVE PhaseInv'
  BY <1>19, Constants DEF SpineInv, TypeOK, PhaseInv, ProcessPanics, changes,
     matching, stop
<1>20. ASSUME Settle PROVE PhaseInv'
  BY <1>20, Constants DEF SpineInv, TypeOK, PhaseInv, Settle, changes, matching, stop
<1>21. ASSUME Sigterm PROVE PhaseInv'
  BY <1>21, Constants DEF SpineInv, TypeOK, PhaseInv, Sigterm, work, changes,
     matching, stop
<1>22. ASSUME CloseListener PROVE PhaseInv'
  BY <1>22, Constants DEF SpineInv, TypeOK, PhaseInv, CloseListener, work, changes,
     matching, stop
<1>23. ASSUME Deadline PROVE PhaseInv'
  BY <1>23, Constants DEF SpineInv, TypeOK, PhaseInv, Deadline, work, changes,
     matching, stop
<1>24. ASSUME ReadInflight PROVE PhaseInv'
  BY <1>24, Constants DEF SpineInv, TypeOK, PhaseInv, ReadInflight, ReadCounter, work,
     changes, matching, stop
<1>25. ASSUME ReadBackground PROVE PhaseInv'
  BY <1>25, Constants DEF SpineInv, TypeOK, PhaseInv, ReadBackground, ReadCounter,
     work, changes, matching, stop
<1>26. ASSUME ReadPending PROVE PhaseInv'
  BY <1>26, Constants DEF SpineInv, TypeOK, PhaseInv, ReadPending, ReadCounter, work,
     changes, matching, stop
<1>27. ASSUME Exit PROVE PhaseInv'
  BY <1>27, Constants DEF SpineInv, TypeOK, PhaseInv, Exit, work, changes, matching,
     stop
<1> QED BY <1>1, <1>2, <1>3, <1>4, <1>5, <1>6, <1>7, <1>8, <1>9, <1>10,
     <1>11, <1>12, <1>13, <1>14, <1>15, <1>16, <1>17, <1>18, <1>19,
     <1>20, <1>21, <1>22, <1>23, <1>24, <1>25, <1>26, <1>27 DEF Next, Matcher, Drain

(* A hook runs under the order lock.                                        *)
LEMMA OrderStep ==
    ASSUME SpineInv, Next
    PROVE  OrderInv'
<1>1. ASSUME NEW c \in Conns, Accept(c) PROVE OrderInv'
  BY <1>1, Constants DEF SpineInv, TypeOK, OrderInv, ConnStages, TaskStages, Accept,
     changes, matching, stop
<1>2. ASSUME NEW c \in Conns, Request(c) PROVE OrderInv'
  BY <1>2, Constants DEF SpineInv, TypeOK, OrderInv, ConnStages, TaskStages, Request,
     changes, matching, stop
<1>3. ASSUME NEW c \in Conns, Close(c) PROVE OrderInv'
  BY <1>3, Constants DEF SpineInv, TypeOK, OrderInv, ConnStages, TaskStages, Close,
     changes, matching, stop
<1>4. ASSUME NEW c \in Conns, Disconnect(c) PROVE OrderInv'
  BY <1>4, Constants DEF SpineInv, TypeOK, OrderInv, ConnStages, TaskStages,
     Disconnect, changes, matching, stop
<1>5. ASSUME NEW c \in Conns, HookBuffers(c) PROVE OrderInv'
  BY <1>5, Constants DEF SpineInv, TypeOK, OrderInv, ConnStages, TaskStages,
     HookBuffers, changes, matching, stop
<1>6. ASSUME NEW c \in Conns, Return(c) PROVE OrderInv'
  BY <1>6, Constants DEF SpineInv, TypeOK, OrderInv, ConnStages, TaskStages, Return,
     changes, matching, stop
<1>7. ASSUME NEW c \in Conns, Flush(c) PROVE OrderInv'
  BY ZenonT(30), <1>7, Constants DEF SpineInv, TypeOK, OrderInv, ConnStages, TaskStages, Flush,
     TrySend, changes, matching, stop
<1>8. ASSUME NEW c \in Conns, NEW t \in Tasks, SpawnFromRequest(c, t) PROVE OrderInv'
  BY <1>8, Constants DEF SpineInv, TypeOK, OrderInv, ConnStages, TaskStages,
     SpawnFromRequest, changes, matching, stop
<1>9. ASSUME NEW w \in Writers, Count(w) PROVE OrderInv'
  BY <1>9, Constants DEF SpineInv, TypeOK, OrderInv, ConnStages, TaskStages, Count,
     changes, matching, stop
<1>10. ASSUME NEW w \in Writers, NEW e \in Entities, Commit(w, e) PROVE OrderInv'
  BY SMTT(30), <1>10, Constants DEF SpineInv, TypeOK, OrderInv, ConnStages, TaskStages, Commit,
     changes, matching, stop
<1>11. ASSUME NEW t \in Tasks, HookQueues(t) PROVE OrderInv'
  BY ZenonT(30), <1>11, Constants DEF SpineInv, TypeOK, OrderInv, ConnStages, TaskStages,
     HookQueues, TrySend, changes, matching, stop
<1>12. ASSUME NEW t \in Tasks, SpawnRetry(t) PROVE OrderInv'
  BY <1>12, Constants DEF SpineInv, TypeOK, OrderInv, ConnStages, TaskStages,
     SpawnRetry, changes, matching, stop
<1>13. ASSUME NEW t \in Tasks, TaskEnds(t) PROVE OrderInv'
  BY <1>13, Constants DEF SpineInv, TypeOK, OrderInv, ConnStages, TaskStages,
     TaskEnds, changes, matching, stop
<1>14. ASSUME NEW t \in Tasks, TaskPanics(t) PROVE OrderInv'
  BY <1>14, Constants DEF SpineInv, TypeOK, OrderInv, ConnStages, TaskStages,
     TaskPanics, changes, matching, stop
<1>15. ASSUME Receive PROVE OrderInv'
  BY <1>15, Constants DEF SpineInv, TypeOK, OrderInv, ConnStages, TaskStages, Receive,
     changes, matching, stop
<1>16. ASSUME Fold PROVE OrderInv'
  BY <1>16, Constants DEF SpineInv, TypeOK, OrderInv, ConnStages, TaskStages, Fold,
     changes, matching, stop
<1>17. ASSUME FoldEnds PROVE OrderInv'
  BY <1>17, Constants DEF SpineInv, TypeOK, OrderInv, ConnStages, TaskStages,
     FoldEnds, changes, matching, stop
<1>18. ASSUME Process PROVE OrderInv'
  BY <1>18, Constants DEF SpineInv, TypeOK, OrderInv, ConnStages, TaskStages, Process,
     changes, matching, stop
<1>19. ASSUME ProcessPanics PROVE OrderInv'
  BY <1>19, Constants DEF SpineInv, TypeOK, OrderInv, ConnStages, TaskStages,
     ProcessPanics, changes, matching, stop
<1>20. ASSUME Settle PROVE OrderInv'
  BY <1>20, Constants DEF SpineInv, TypeOK, OrderInv, ConnStages, TaskStages, Settle,
     changes, matching, stop
<1>21. ASSUME Sigterm PROVE OrderInv'
  BY <1>21, Constants DEF SpineInv, TypeOK, OrderInv, ConnStages, TaskStages, Sigterm,
     work, changes, matching, stop
<1>22. ASSUME CloseListener PROVE OrderInv'
  BY <1>22, Constants DEF SpineInv, TypeOK, OrderInv, ConnStages, TaskStages,
     CloseListener, work, changes, matching, stop
<1>23. ASSUME Deadline PROVE OrderInv'
  BY <1>23, Constants DEF SpineInv, TypeOK, OrderInv, ConnStages, TaskStages,
     Deadline, work, changes, matching, stop
<1>24. ASSUME ReadInflight PROVE OrderInv'
  BY <1>24, Constants DEF SpineInv, TypeOK, OrderInv, ConnStages, TaskStages,
     ReadInflight, ReadCounter, work, changes, matching, stop
<1>25. ASSUME ReadBackground PROVE OrderInv'
  BY <1>25, Constants DEF SpineInv, TypeOK, OrderInv, ConnStages, TaskStages,
     ReadBackground, ReadCounter, work, changes, matching, stop
<1>26. ASSUME ReadPending PROVE OrderInv'
  BY <1>26, Constants DEF SpineInv, TypeOK, OrderInv, ConnStages, TaskStages,
     ReadPending, ReadCounter, work, changes, matching, stop
<1>27. ASSUME Exit PROVE OrderInv'
  BY <1>27, Constants DEF SpineInv, TypeOK, OrderInv, ConnStages, TaskStages, Exit,
     work, changes, matching, stop
<1> QED BY <1>1, <1>2, <1>3, <1>4, <1>5, <1>6, <1>7, <1>8, <1>9, <1>10,
     <1>11, <1>12, <1>13, <1>14, <1>15, <1>16, <1>17, <1>18, <1>19,
     <1>20, <1>21, <1>22, <1>23, <1>24, <1>25, <1>26, <1>27 DEF Next, Matcher, Drain

(* Sequences of changes.                                                    *)
LEMMA ElemsType ==
    ASSUME NEW S, NEW s \in Seq(S)
    PROVE  Elems(s) \subseteq S
BY DEF Elems

(* Only the empty sequence has length zero.                                  *)
LEMMA LengthZero ==
    ASSUME NEW S, NEW s \in Seq(S)
    PROVE  Len(s) \in Nat /\ (Len(s) = 0 <=> s = <<>>)
BY EmptySeq

(* Append adds one element at the end.                                       *)
LEMMA AppendType ==
    ASSUME NEW S, NEW s \in Seq(S), NEW e \in S
    PROVE  /\ Append(s, e) \in Seq(S) /\ Len(Append(s, e)) = Len(s) + 1
           /\ \A n \in DOMAIN Append(s, e) :
                  Append(s, e)[n] = IF n = Len(s) + 1 THEN e ELSE s[n]
           /\ \A n \in DOMAIN Append(s, e) : n # Len(s) + 1 => n \in DOMAIN s
OBVIOUS

(* Head and Tail take the first element off.                                 *)
LEMMA TailType ==
    ASSUME NEW S, NEW s \in Seq(S), s # <<>>
    PROVE  /\ Head(s) \in S /\ Head(s) = s[1] /\ 1 \in DOMAIN s
           /\ Tail(s) \in Seq(S) /\ Len(Tail(s)) = Len(s) - 1
           /\ \A n \in DOMAIN Tail(s) : n + 1 \in DOMAIN s /\ Tail(s)[n] = s[n + 1]
OBVIOUS

(* Concatenation keeps the element type and adds the lengths.                *)
LEMMA ConcatType ==
    ASSUME NEW S, NEW s \in Seq(S), NEW r \in Seq(S)
    PROVE  s \o r \in Seq(S) /\ Len(s \o r) = Len(s) + Len(r)
OBVIOUS

(* A sequence over a set is one over every larger set.                       *)
LEMMA Widen ==
    ASSUME NEW S, NEW T, S \subseteq T
    PROVE  Seq(S) \subseteq Seq(T) /\ Seq(Seq(S)) \subseteq Seq(Seq(T))
<1>1. ASSUME NEW A, NEW B, A \subseteq B PROVE Seq(A) \subseteq Seq(B)
  BY <1>1
<1>2. Seq(S) \subseteq Seq(T)
  BY <1>1
<1> QED BY <1>1, <1>2

(* Losing changes keeps lost a map to sets of changes.                       *)
LEMMA LoseType ==
    ASSUME lost \in [Reasons -> SUBSET Ids], NEW r \in Reasons,
           NEW s \in Seq(Ids), Lose(r, Elems(s))
    PROVE  lost' \in [Reasons -> SUBSET Ids]
BY ElemsType DEF Lose

(* queue_for_matching either queues a buffer behind the others or drops it. *)
LEMMA TrySendType ==
    ASSUME ChangeInv, \A n \in DOMAIN queue : queue[n] # <<>>,
           NEW w, NEW ids \in Seq(Ids), ids # <<>>, NEW otherwise,
           TrySend(w, ids, otherwise)
    PROVE  /\ queue' \in Seq(Seq(Ids)) /\ Len(queue') <= QueueLimit
           /\ \A n \in DOMAIN queue' : queue'[n] # <<>>
           /\ lost' \in [Reasons -> SUBSET Ids]
           /\ \/ Len(queue') = Len(queue) + 1 /\ at' = [at EXCEPT ![w] = "counting"]
              \/ queue' = queue /\ at' = [at EXCEPT ![w] = otherwise]
<1>1. /\ queue \in Seq(Seq(Ids)) /\ Len(queue) <= QueueLimit /\ Len(queue) \in Nat
      /\ QueueLimit \in Nat /\ lost \in [Reasons -> SUBSET Ids]
  BY Constants DEF ChangeInv
<1>2. CASE Len(queue) < QueueLimit
  <2>1. /\ queue' = Append(queue, ids) /\ lost' = lost
        /\ at' = [at EXCEPT ![w] = "counting"]
    BY <1>2 DEF TrySend
  <2>2. queue' \in Seq(Seq(Ids)) /\ Len(queue') = Len(queue) + 1
    BY <1>1, <2>1, AppendType
  <2>3. \A n \in DOMAIN queue' : queue'[n] # <<>>
    BY <1>1, <2>1, AppendType
  <2> QED BY <1>1, <1>2, <2>1, <2>2, <2>3
<1>3. CASE ~(Len(queue) < QueueLimit)
  <2>1. /\ queue' = queue /\ Lose("queue full", Elems(ids))
        /\ at' = [at EXCEPT ![w] = otherwise]
    BY <1>3 DEF TrySend
  <2>2. lost' \in [Reasons -> SUBSET Ids]
    BY <1>1, <2>1, LoseType DEF Reasons
  <2> QED BY <1>1, <2>1, <2>2
<1> QED BY <1>2, <1>3

(* A change keeps its place in log; buffers, batches and losses hold changes. *)
LEMMA ChangeStep ==
    ASSUME SpineInv, Next
    PROVE  ChangeInv'
<1>1. ASSUME NEW c \in Conns, Accept(c) PROVE ChangeInv'
  BY <1>1, Constants DEF SpineInv, TypeOK, ChangeInv, OrderInv, BatchInv, Ids, Lose,
     Elems, Accept, changes, matching, stop
<1>2. ASSUME NEW c \in Conns, Request(c) PROVE ChangeInv'
  BY <1>2, Constants DEF SpineInv, TypeOK, ChangeInv, OrderInv, BatchInv, Ids, Lose,
     Elems, Request, changes, matching, stop
<1>3. ASSUME NEW c \in Conns, Close(c) PROVE ChangeInv'
  BY <1>3, Constants DEF SpineInv, TypeOK, ChangeInv, OrderInv, BatchInv, Ids, Lose,
     Elems, Close, changes, matching, stop
<1>4. ASSUME NEW c \in Conns, Disconnect(c) PROVE ChangeInv'
  <2>1. ChangeInv /\ log' = log /\ Ids' = Ids
    BY <1>4, TypeParts DEF SpineInv, Ids, Disconnect, changes, matching, stop
  <2>2. buf' \in [Conns -> Seq(Ids)]
    BY <1>4, <2>1, EmptySeq DEF ChangeInv, Disconnect
  <2>3. lost' \in [Reasons -> SUBSET Ids]
    BY <1>4, <2>1, LoseType DEF ChangeInv, Disconnect, Reasons
  <2> QED BY <1>4, <2>1, <2>2, <2>3 DEF ChangeInv, Disconnect, matching
<1>5. ASSUME NEW c \in Conns, HookBuffers(c) PROVE ChangeInv'
  <2>1. ChangeInv /\ log' = log /\ Ids' = Ids
    BY <1>5, TypeParts DEF SpineInv, Ids, HookBuffers, changes, matching, stop
  <2>2. held[c] \in Ids
    BY <1>5, <2>1, Constants DEF ChangeInv, SpineInv, OrderInv, HookBuffers, Ids
  <2>3. buf' \in [Conns -> Seq(Ids)]
    BY <1>5, <2>1, <2>2, AppendType DEF ChangeInv, HookBuffers
  <2>4. held' \in [Writers -> 0..Len(log)]
    <3>1. Len(log) \in Nat
      BY <2>1, LengthZero DEF ChangeInv
    <3>2. 0 \in 0..Len(log) /\ held \in [Writers -> 0..Len(log)]
      BY <2>1, <3>1 DEF ChangeInv
    <3> QED BY <1>5, <3>2 DEF HookBuffers
  <2> QED BY <1>5, <2>1, <2>3, <2>4 DEF ChangeInv, HookBuffers, matching
<1>6. ASSUME NEW c \in Conns, Return(c) PROVE ChangeInv'
  BY <1>6, Constants DEF SpineInv, TypeOK, ChangeInv, OrderInv, BatchInv, Ids, Lose,
     Elems, Return, changes, matching, stop
<1>7. ASSUME NEW c \in Conns, Flush(c) PROVE ChangeInv'
  <2>1. ChangeInv /\ log' = log /\ Ids' = Ids
    BY <1>7, TypeParts DEF SpineInv, Ids, Flush, TrySend, changes, matching, stop
  <2>2. buf' \in [Conns -> Seq(Ids)]
    BY <1>7, <2>1 DEF ChangeInv, Flush
  <2>3. /\ queue' \in Seq(Seq(Ids)) /\ Len(queue') <= QueueLimit
        /\ lost' \in [Reasons -> SUBSET Ids]
    <3>1. CASE buf[c] = <<>>
      BY <1>7, <2>1, <3>1 DEF ChangeInv, Flush
    <3>2. CASE buf[c] # <<>>
      <4>1. buf[c] \in Seq(Ids) /\ TrySend(c, buf[c], "idle")
        BY <1>7, <2>1, <3>2 DEF ChangeInv, Flush
      <4> QED BY <2>1, <3>2, <4>1, TrySendType DEF SpineInv, BatchInv
    <3> QED BY <3>1, <3>2
  <2> QED BY <1>7, <2>1, <2>2, <2>3 DEF ChangeInv, Flush, matching
<1>8. ASSUME NEW c \in Conns, NEW t \in Tasks, SpawnFromRequest(c, t) PROVE ChangeInv'
  BY <1>8, Constants DEF SpineInv, TypeOK, ChangeInv, OrderInv, BatchInv, Ids, Lose,
     Elems, SpawnFromRequest, changes, matching, stop
<1>9. ASSUME NEW w \in Writers, Count(w) PROVE ChangeInv'
  BY <1>9, Constants DEF SpineInv, TypeOK, ChangeInv, OrderInv, BatchInv, Ids, Lose,
     Elems, Count, changes, matching, stop
<1>10. ASSUME NEW w \in Writers, NEW e \in Entities, Commit(w, e) PROVE ChangeInv'
  <2>1. ChangeInv /\ Len(log) \in Nat /\ Len(log) < MaxChanges
    BY <1>10, TypeParts DEF SpineInv, ChangeInv, Commit
  <2>2. log' \in Seq(Entities) /\ Len(log') = Len(log) + 1
    BY <1>10, <2>1, AppendType DEF ChangeInv, Commit
  <2>3. Ids \subseteq Ids' /\ Seq(Ids) \subseteq Seq(Ids') /\ Seq(Seq(Ids)) \subseteq Seq(Seq(Ids'))
    <3>1. Ids \subseteq Ids'
      BY <2>1, <2>2 DEF Ids
    <3> QED BY <3>1, Widen
  <2>4. held' \in [Writers -> 0..Len(log')]
    BY <1>10, <2>1, <2>2 DEF ChangeInv, Commit
  <2>5. buf' \in [Conns -> Seq(Ids')]
    BY <1>10, <2>1, <2>3 DEF ChangeInv, Commit
  <2>6. queue' \in Seq(Seq(Ids')) /\ Len(queue') <= QueueLimit /\ processed' \in Seq(Ids')
    BY <1>10, <2>1, <2>3 DEF ChangeInv, Commit, matching
  <2>7. matcher' \in [pc : {"receiving", "folding", "processing", "settling"},
                      batch : Seq(Ids'), taken : 0..BatchLimit]
    BY <1>10, <2>1, <2>3 DEF ChangeInv, Commit, matching
  <2>8. lost' \in [Reasons -> SUBSET Ids']
    BY <1>10, <2>1, <2>3 DEF ChangeInv, Commit
  <2>9. Len(log') <= MaxChanges
    BY <2>1, <2>2, Constants
  <2> QED BY <2>2, <2>4, <2>5, <2>6, <2>7, <2>8, <2>9 DEF ChangeInv
<1>11. ASSUME NEW t \in Tasks, HookQueues(t) PROVE ChangeInv'
  <2>1. ChangeInv /\ log' = log /\ Ids' = Ids
    BY <1>11, TypeParts DEF SpineInv, Ids, HookQueues, TrySend, changes, matching, stop
  <2>2. held[t] \in Ids /\ <<held[t]>> \in Seq(Ids) /\ <<held[t]>> # <<>>
    <3>1. held[t] \in Ids
      BY <1>11, <2>1, Constants DEF ChangeInv, SpineInv, OrderInv, HookQueues, Ids
    <3> QED BY <3>1
  <2>3. /\ queue' \in Seq(Seq(Ids)) /\ Len(queue') <= QueueLimit
        /\ lost' \in [Reasons -> SUBSET Ids]
    BY <1>11, <2>1, <2>2, TrySendType DEF HookQueues, SpineInv, BatchInv
  <2>4. held' \in [Writers -> 0..Len(log)]
    <3>1. Len(log) \in Nat
      BY <2>1, LengthZero DEF ChangeInv
    <3>2. 0 \in 0..Len(log) /\ held \in [Writers -> 0..Len(log)]
      BY <2>1, <3>1 DEF ChangeInv
    <3> QED BY <1>11, <3>2 DEF HookQueues
  <2> QED BY <1>11, <2>1, <2>3, <2>4 DEF ChangeInv, HookQueues, matching
<1>12. ASSUME NEW t \in Tasks, SpawnRetry(t) PROVE ChangeInv'
  BY <1>12, Constants DEF SpineInv, TypeOK, ChangeInv, OrderInv, BatchInv, Ids, Lose,
     Elems, SpawnRetry, changes, matching, stop
<1>13. ASSUME NEW t \in Tasks, TaskEnds(t) PROVE ChangeInv'
  BY <1>13, Constants DEF SpineInv, TypeOK, ChangeInv, OrderInv, BatchInv, Ids, Lose,
     Elems, TaskEnds, changes, matching, stop
<1>14. ASSUME NEW t \in Tasks, TaskPanics(t) PROVE ChangeInv'
  BY <1>14, Constants DEF SpineInv, TypeOK, ChangeInv, OrderInv, BatchInv, Ids, Lose,
     Elems, TaskPanics, changes, matching, stop
<1>15. ASSUME Receive PROVE ChangeInv'
  <2>1. ChangeInv /\ log' = log /\ Ids' = Ids
    BY <1>15, TypeParts DEF SpineInv, Ids, Receive, changes, matching, stop
  <2>2. queue \in Seq(Seq(Ids)) /\ queue # <<>> /\ Len(queue) <= QueueLimit
    BY <1>15, <2>1 DEF ChangeInv, Receive
  <2>3. /\ Head(queue) \in Seq(Ids) /\ Tail(queue) \in Seq(Seq(Ids))
        /\ Len(Tail(queue)) = Len(queue) - 1 /\ Len(queue) \in Nat
    BY <2>2, TailType, LengthZero
  <2>4. 1 \in 0..BatchLimit
    BY Constants
  <2>5. matcher' \in [pc : {"receiving", "folding", "processing", "settling"},
                      batch : Seq(Ids), taken : 0..BatchLimit]
    BY <1>15, <2>3, <2>4 DEF Receive
  <2>6. queue' \in Seq(Seq(Ids)) /\ Len(queue') <= QueueLimit
    <3>1. queue' = Tail(queue)
      BY <1>15 DEF Receive
    <3>2. Len(queue) - 1 <= QueueLimit
      BY <2>2, <2>3, Constants
    <3> QED BY <2>3, <3>1, <3>2
  <2> QED BY <1>15, <2>1, <2>5, <2>6 DEF ChangeInv, Receive, changes
<1>16. ASSUME Fold PROVE ChangeInv'
  <2>1. ChangeInv /\ log' = log /\ Ids' = Ids
    BY <1>16, TypeParts DEF SpineInv, Ids, Fold, changes, matching, stop
  <2>2. /\ Head(queue) \in Seq(Ids) /\ Tail(queue) \in Seq(Seq(Ids))
        /\ Len(Tail(queue)) = Len(queue) - 1 /\ matcher.batch \in Seq(Ids)
    BY <1>16, <2>1, TailType DEF ChangeInv, Fold
  <2>3. matcher.batch \o Head(queue) \in Seq(Ids)
    BY <2>2, ConcatType
  <2>4. matcher.taken + 1 \in 0..BatchLimit
    BY SMTT(30), <1>16, <2>1, <2>2, Constants, LengthZero DEF ChangeInv, SpineInv, BatchInv, Fold
  <2>5. matcher' \in [pc : {"receiving", "folding", "processing", "settling"},
                      batch : Seq(Ids), taken : 0..BatchLimit]
    BY <1>16, <2>1, <2>3, <2>4 DEF ChangeInv, Fold
  <2>6. queue' \in Seq(Seq(Ids)) /\ Len(queue') <= QueueLimit
    BY <1>16, <2>1, <2>2, Constants, LengthZero DEF ChangeInv, Fold
  <2> QED BY <1>16, <2>1, <2>5, <2>6 DEF ChangeInv, Fold, changes
<1>17. ASSUME FoldEnds PROVE ChangeInv'
  BY <1>17, Constants DEF SpineInv, TypeOK, ChangeInv, OrderInv, BatchInv, Ids, Lose,
     Elems, FoldEnds, changes, matching, stop
<1>18. ASSUME Process PROVE ChangeInv'
  <2>1. ChangeInv /\ log' = log /\ Ids' = Ids
    BY <1>18, TypeParts DEF SpineInv, Ids, Process, changes, matching, stop
  <2>2. processed' \in Seq(Ids)
    <3>1. processed \in Seq(Ids) /\ matcher.batch \in Seq(Ids)
      BY <2>1 DEF ChangeInv
    <3> QED BY <1>18, <2>1, <3>1, ConcatType DEF Process
  <2>3. matcher' \in [pc : {"receiving", "folding", "processing", "settling"},
                      batch : Seq(Ids), taken : 0..BatchLimit]
    BY <1>18, <2>1, EmptySeq DEF ChangeInv, Process
  <2> QED BY <1>18, <2>1, <2>2, <2>3 DEF ChangeInv, Process, changes
<1>19. ASSUME ProcessPanics PROVE ChangeInv'
  <2>1. ChangeInv /\ log' = log /\ Ids' = Ids
    BY <1>19, TypeParts DEF SpineInv, Ids, ProcessPanics, changes, matching, stop
  <2>2. matcher' \in [pc : {"receiving", "folding", "processing", "settling"},
                      batch : Seq(Ids), taken : 0..BatchLimit]
    BY <1>19, <2>1, EmptySeq DEF ChangeInv, ProcessPanics
  <2>3. lost' \in [Reasons -> SUBSET Ids]
    <3>1. matcher.batch \in Seq(Ids)
      BY <2>1 DEF ChangeInv
    <3> QED BY <1>19, <2>1, <3>1, LoseType DEF ChangeInv, ProcessPanics, Reasons
  <2> QED BY <1>19, <2>1, <2>2, <2>3 DEF ChangeInv, ProcessPanics, changes
<1>20. ASSUME Settle PROVE ChangeInv'
  <2>1. ChangeInv /\ log' = log /\ Ids' = Ids
    BY <1>20, TypeParts DEF SpineInv, Ids, Settle, changes, matching, stop
  <2>2. matcher' \in [pc : {"receiving", "folding", "processing", "settling"},
                      batch : Seq(Ids), taken : 0..BatchLimit]
    <3>1. 0 \in 0..BatchLimit
      BY Constants
    <3> QED BY <1>20, <2>1, <3>1 DEF ChangeInv, Settle
  <2> QED BY <1>20, <2>1, <2>2 DEF ChangeInv, Settle, changes
<1>21. ASSUME Sigterm PROVE ChangeInv'
  BY <1>21, Constants DEF SpineInv, TypeOK, ChangeInv, OrderInv, BatchInv, Ids, Lose,
     Elems, Sigterm, work, changes, matching, stop
<1>22. ASSUME CloseListener PROVE ChangeInv'
  BY <1>22, Constants DEF SpineInv, TypeOK, ChangeInv, OrderInv, BatchInv, Ids, Lose,
     Elems, CloseListener, work, changes, matching, stop
<1>23. ASSUME Deadline PROVE ChangeInv'
  BY <1>23, Constants DEF SpineInv, TypeOK, ChangeInv, OrderInv, BatchInv, Ids, Lose,
     Elems, Deadline, work, changes, matching, stop
<1>24. ASSUME ReadInflight PROVE ChangeInv'
  BY <1>24, Constants DEF SpineInv, TypeOK, ChangeInv, OrderInv, BatchInv, Ids, Lose,
     Elems, ReadInflight, ReadCounter, work, changes, matching, stop
<1>25. ASSUME ReadBackground PROVE ChangeInv'
  BY <1>25, Constants DEF SpineInv, TypeOK, ChangeInv, OrderInv, BatchInv, Ids, Lose,
     Elems, ReadBackground, ReadCounter, work, changes, matching, stop
<1>26. ASSUME ReadPending PROVE ChangeInv'
  BY <1>26, Constants DEF SpineInv, TypeOK, ChangeInv, OrderInv, BatchInv, Ids, Lose,
     Elems, ReadPending, ReadCounter, work, changes, matching, stop
<1>27. ASSUME Exit PROVE ChangeInv'
  BY <1>27, Constants DEF SpineInv, TypeOK, ChangeInv, OrderInv, BatchInv, Ids, Lose,
     Elems, Exit, work, changes, matching, stop
<1> QED BY <1>1, <1>2, <1>3, <1>4, <1>5, <1>6, <1>7, <1>8, <1>9, <1>10,
     <1>11, <1>12, <1>13, <1>14, <1>15, <1>16, <1>17, <1>18, <1>19,
     <1>20, <1>21, <1>22, <1>23, <1>24, <1>25, <1>26, <1>27 DEF Next, Matcher, Drain

(* No buffer is empty and a batch holds a change for every buffer taken.     *)
LEMMA BatchStep ==
    ASSUME SpineInv, Next
    PROVE  BatchInv'
<1>1. ASSUME NEW c \in Conns, Accept(c) PROVE BatchInv'
  BY <1>1, Constants DEF SpineInv, TypeOK, BatchInv, Ids, Accept, changes, matching,
     stop
<1>2. ASSUME NEW c \in Conns, Request(c) PROVE BatchInv'
  BY <1>2, Constants DEF SpineInv, TypeOK, BatchInv, Ids, Request, changes, matching,
     stop
<1>3. ASSUME NEW c \in Conns, Close(c) PROVE BatchInv'
  BY <1>3, Constants DEF SpineInv, TypeOK, BatchInv, Ids, Close, changes, matching,
     stop
<1>4. ASSUME NEW c \in Conns, Disconnect(c) PROVE BatchInv'
  BY <1>4, Constants DEF SpineInv, TypeOK, BatchInv, Ids, Disconnect, changes,
     matching, stop
<1>5. ASSUME NEW c \in Conns, HookBuffers(c) PROVE BatchInv'
  BY <1>5, Constants DEF SpineInv, TypeOK, BatchInv, Ids, HookBuffers, changes,
     matching, stop
<1>6. ASSUME NEW c \in Conns, Return(c) PROVE BatchInv'
  BY <1>6, Constants DEF SpineInv, TypeOK, BatchInv, Ids, Return, changes, matching,
     stop
<1>7. ASSUME NEW c \in Conns, Flush(c) PROVE BatchInv'
  <2>1. ChangeInv /\ BatchInv
    BY TypeParts DEF SpineInv
  <2>2. \A n \in DOMAIN queue' : queue'[n] # <<>>
    <3>1. CASE buf[c] = <<>>
      BY <1>7, <2>1, <3>1 DEF BatchInv, Flush
    <3>2. CASE buf[c] # <<>>
      <4>1. buf[c] \in Seq(Ids) /\ TrySend(c, buf[c], "idle")
        BY <1>7, <2>1, <3>2 DEF ChangeInv, Flush
      <4> QED BY <2>1, <3>2, <4>1, TrySendType DEF BatchInv
    <3> QED BY <3>1, <3>2
  <2> QED BY <1>7, <2>1, <2>2 DEF BatchInv, Flush, matching
<1>8. ASSUME NEW c \in Conns, NEW t \in Tasks, SpawnFromRequest(c, t) PROVE BatchInv'
  BY <1>8, Constants DEF SpineInv, TypeOK, BatchInv, Ids, SpawnFromRequest, changes,
     matching, stop
<1>9. ASSUME NEW w \in Writers, Count(w) PROVE BatchInv'
  BY <1>9, Constants DEF SpineInv, TypeOK, BatchInv, Ids, Count, changes, matching,
     stop
<1>10. ASSUME NEW w \in Writers, NEW e \in Entities, Commit(w, e) PROVE BatchInv'
  BY <1>10, Constants DEF SpineInv, TypeOK, BatchInv, Ids, Commit, changes, matching,
     stop
<1>11. ASSUME NEW t \in Tasks, HookQueues(t) PROVE BatchInv'
  <2>1. ChangeInv /\ BatchInv
    BY TypeParts DEF SpineInv
  <2>2. <<held[t]>> \in Seq(Ids) /\ <<held[t]>> # <<>>
    <3>1. held[t] \in Ids
      BY <1>11, <2>1, Constants DEF ChangeInv, SpineInv, OrderInv, HookQueues, Ids
    <3> QED BY <3>1
  <2>3. \A n \in DOMAIN queue' : queue'[n] # <<>>
    BY <1>11, <2>1, <2>2, TrySendType DEF HookQueues, BatchInv
  <2> QED BY <1>11, <2>1, <2>3 DEF BatchInv, HookQueues, matching
<1>12. ASSUME NEW t \in Tasks, SpawnRetry(t) PROVE BatchInv'
  BY <1>12, Constants DEF SpineInv, TypeOK, BatchInv, Ids, SpawnRetry, changes,
     matching, stop
<1>13. ASSUME NEW t \in Tasks, TaskEnds(t) PROVE BatchInv'
  BY <1>13, Constants DEF SpineInv, TypeOK, BatchInv, Ids, TaskEnds, changes,
     matching, stop
<1>14. ASSUME NEW t \in Tasks, TaskPanics(t) PROVE BatchInv'
  BY <1>14, Constants DEF SpineInv, TypeOK, BatchInv, Ids, TaskPanics, changes,
     matching, stop
<1>15. ASSUME Receive PROVE BatchInv'
  <2>1. ChangeInv /\ BatchInv
    BY TypeParts DEF SpineInv
  <2>2. /\ Head(queue) \in Seq(Ids) /\ Head(queue) # <<>>
        /\ \A n \in DOMAIN Tail(queue) : Tail(queue)[n] # <<>>
    BY <1>15, <2>1, TailType DEF ChangeInv, BatchInv, Receive
  <2>3. Len(Head(queue)) >= 1
    BY <2>2, LengthZero
  <2> QED BY <1>15, <2>2, <2>3 DEF BatchInv, Receive
<1>16. ASSUME Fold PROVE BatchInv'
  <2>1. ChangeInv /\ BatchInv
    BY TypeParts DEF SpineInv
  <2>2. /\ Head(queue) \in Seq(Ids) /\ Head(queue) # <<>>
        /\ \A n \in DOMAIN Tail(queue) : Tail(queue)[n] # <<>>
    BY <1>16, <2>1, TailType DEF ChangeInv, BatchInv, Fold
  <2>3. Len(Head(queue)) \in Nat /\ Len(Head(queue)) >= 1
    BY <2>2, LengthZero
  <2>4. matcher.batch \in Seq(Ids) /\ Len(matcher.batch) \in Nat /\ matcher.taken \in Nat
    BY <2>1 DEF ChangeInv
  <2>5. Len(matcher.batch \o Head(queue)) = Len(matcher.batch) + Len(Head(queue))
    BY <2>2, <2>4, ConcatType
  <2>6. /\ matcher'.pc = "folding" /\ matcher'.batch = matcher.batch \o Head(queue)
        /\ matcher'.taken = matcher.taken + 1 /\ queue' = Tail(queue)
    BY <1>16, <2>1 DEF ChangeInv, Fold
  <2>7. matcher.taken <= Len(matcher.batch)
    BY <1>16, <2>1 DEF BatchInv, Fold
  <2>8. matcher.taken + 1 <= Len(matcher.batch) + Len(Head(queue)) /\ matcher.taken + 1 # 0
    BY <2>3, <2>4, <2>7
  <2> QED BY <2>2, <2>5, <2>6, <2>8 DEF BatchInv
<1>17. ASSUME FoldEnds PROVE BatchInv'
  BY <1>17, Constants DEF SpineInv, TypeOK, BatchInv, Ids, FoldEnds, changes,
     matching, stop
<1>18. ASSUME Process PROVE BatchInv'
  BY <1>18, Constants DEF SpineInv, TypeOK, BatchInv, Ids, Process, changes, matching,
     stop
<1>19. ASSUME ProcessPanics PROVE BatchInv'
  BY <1>19, Constants DEF SpineInv, TypeOK, BatchInv, Ids, ProcessPanics, changes,
     matching, stop
<1>20. ASSUME Settle PROVE BatchInv'
  BY <1>20, Constants DEF SpineInv, TypeOK, BatchInv, Ids, Settle, changes, matching,
     stop
<1>21. ASSUME Sigterm PROVE BatchInv'
  BY <1>21, Constants DEF SpineInv, TypeOK, BatchInv, Ids, Sigterm, work, changes,
     matching, stop
<1>22. ASSUME CloseListener PROVE BatchInv'
  BY <1>22, Constants DEF SpineInv, TypeOK, BatchInv, Ids, CloseListener, work,
     changes, matching, stop
<1>23. ASSUME Deadline PROVE BatchInv'
  BY <1>23, Constants DEF SpineInv, TypeOK, BatchInv, Ids, Deadline, work, changes,
     matching, stop
<1>24. ASSUME ReadInflight PROVE BatchInv'
  BY <1>24, Constants DEF SpineInv, TypeOK, BatchInv, Ids, ReadInflight, ReadCounter,
     work, changes, matching, stop
<1>25. ASSUME ReadBackground PROVE BatchInv'
  BY <1>25, Constants DEF SpineInv, TypeOK, BatchInv, Ids, ReadBackground,
     ReadCounter, work, changes, matching, stop
<1>26. ASSUME ReadPending PROVE BatchInv'
  BY <1>26, Constants DEF SpineInv, TypeOK, BatchInv, Ids, ReadPending, ReadCounter,
     work, changes, matching, stop
<1>27. ASSUME Exit PROVE BatchInv'
  BY <1>27, Constants DEF SpineInv, TypeOK, BatchInv, Ids, Exit, work, changes,
     matching, stop
<1> QED BY <1>1, <1>2, <1>3, <1>4, <1>5, <1>6, <1>7, <1>8, <1>9, <1>10,
     <1>11, <1>12, <1>13, <1>14, <1>15, <1>16, <1>17, <1>18, <1>19,
     <1>20, <1>21, <1>22, <1>23, <1>24, <1>25, <1>26, <1>27 DEF Next, Matcher, Drain

(* What a counter at zero means.                                            *)
LEMMA NoConnection ==
    ASSUME SpineInv, inflight = 0
    PROVE  \A c \in Conns : at[c] = "off"
<1>1. IsFiniteSet(Conns) /\ Cardinality(Those(at, ConnStages \ {"off"}, Conns)) = 0
  BY CountsAreNat DEF SpineInv, ConnInv
<1>2. \A c \in Conns : at[c] \notin ConnStages \ {"off"}
  BY <1>1, CountIsNat
<1> QED BY <1>2 DEF SpineInv, TypeOK

(* background at zero: every task that began is over.                        *)
LEMMA NoTask ==
    ASSUME SpineInv, background = 0
    PROVE  \A t \in Tasks : at[t] \in {"off", "over"}
<1>1. Cardinality(TasksLive) \in Nat /\ Cardinality(TasksLive) <= 0
  BY CountsAreNat DEF SpineInv, TaskInv, TasksLive, Live
<1>2. IsFiniteSet(Tasks) /\ Cardinality(Those(at, TaskStages \ {"off", "over"}, Tasks)) = 0
  BY <1>1, CountsAreNat DEF TasksLive, Live
<1>3. \A t \in Tasks : at[t] \notin TaskStages \ {"off", "over"}
  BY <1>2, CountIsNat
<1> QED BY <1>3 DEF SpineInv, TypeOK

(* pending_changes at zero with nobody about to count: nothing is queued.     *)
LEMMA NothingQueued ==
    ASSUME SpineInv, pending = 0, \A w \in Writers : at[w] # "counting"
    PROVE  queue = <<>> /\ matcher.pc = "receiving"
<1>1. Those(at, {"counting"}, Writers) = {}
  BY DEF Those
<1>2. Uncounted = 0
  BY <1>1, FS_EmptySet DEF Uncounted
<1>3. /\ queue \in Seq(Seq(Ids)) /\ Len(queue) \in Nat /\ Len(queue) <= QueueLimit
      /\ matcher.taken \in Nat /\ matcher.taken <= BatchLimit
  BY TypeParts, LengthZero, Constants DEF SpineInv, ChangeInv
<1>4. 0 = Wrap(Len(queue) + matcher.taken)
  BY <1>2, <1>3 DEF SpineInv, PendingInv
<1>5. Len(queue) + matcher.taken < UsizeMod
  BY <1>3, Constants, CountsAreNat
<1>6. Len(queue) = 0 /\ matcher.taken = 0
  <2>1. \A m, n \in Nat : m + n < UsizeMod /\ 0 = Wrap(m + n) => m = 0 /\ n = 0
    BY Constants DEF Wrap
  <2> QED BY <2>1, <1>3, <1>4, <1>5
<1> QED BY <1>3, <1>6, LengthZero DEF SpineInv, BatchInv

(* What the drain has read to be zero stays so.                              *)
LEMMA DrainStep ==
    ASSUME SpineInv, Next
    PROVE  (DrainInv /\ DrainLeavesNothing)'
<1>1. ASSUME NEW c \in Conns, Accept(c) PROVE (DrainInv /\ DrainLeavesNothing)'
  BY <1>1, Constants DEF SpineInv, TypeOK, ConnStages, TaskStages, DrainInv,
     DrainLeavesNothing, Accept, changes, matching, stop
<1>2. ASSUME NEW c \in Conns, Request(c) PROVE (DrainInv /\ DrainLeavesNothing)'
  BY <1>2, Constants DEF SpineInv, TypeOK, ConnStages, TaskStages, DrainInv,
     DrainLeavesNothing, Request, changes, matching, stop
<1>3. ASSUME NEW c \in Conns, Close(c) PROVE (DrainInv /\ DrainLeavesNothing)'
  BY <1>3, Constants DEF SpineInv, TypeOK, ConnStages, TaskStages, DrainInv,
     DrainLeavesNothing, Close, changes, matching, stop
<1>4. ASSUME NEW c \in Conns, Disconnect(c) PROVE (DrainInv /\ DrainLeavesNothing)'
  BY <1>4, Constants DEF SpineInv, TypeOK, ConnStages, TaskStages, DrainInv,
     DrainLeavesNothing, Disconnect, changes, matching, stop
<1>5. ASSUME NEW c \in Conns, HookBuffers(c) PROVE (DrainInv /\ DrainLeavesNothing)'
  BY <1>5, Constants DEF SpineInv, TypeOK, ConnStages, TaskStages, DrainInv,
     DrainLeavesNothing, HookBuffers, changes, matching, stop
<1>6. ASSUME NEW c \in Conns, Return(c) PROVE (DrainInv /\ DrainLeavesNothing)'
  BY <1>6, Constants DEF SpineInv, TypeOK, ConnStages, TaskStages, DrainInv,
     DrainLeavesNothing, Return, changes, matching, stop
<1>7. ASSUME NEW c \in Conns, Flush(c) PROVE (DrainInv /\ DrainLeavesNothing)'
  BY <1>7, Constants DEF SpineInv, TypeOK, ConnStages, TaskStages, DrainInv,
     DrainLeavesNothing, Flush, TrySend, changes, matching, stop
<1>8. ASSUME NEW c \in Conns, NEW t \in Tasks, SpawnFromRequest(c, t) PROVE (DrainInv /\ DrainLeavesNothing)'
  BY <1>8, Constants DEF SpineInv, TypeOK, ConnStages, TaskStages, DrainInv,
     DrainLeavesNothing, SpawnFromRequest, changes, matching, stop
<1>9. ASSUME NEW w \in Writers, Count(w) PROVE (DrainInv /\ DrainLeavesNothing)'
  BY <1>9, Constants DEF SpineInv, TypeOK, ConnStages, TaskStages, DrainInv,
     DrainLeavesNothing, Count, changes, matching, stop
<1>10. ASSUME NEW w \in Writers, NEW e \in Entities, Commit(w, e) PROVE (DrainInv /\ DrainLeavesNothing)'
  BY <1>10, Constants DEF SpineInv, TypeOK, ConnStages, TaskStages, DrainInv,
     DrainLeavesNothing, Commit, changes, matching, stop
<1>11. ASSUME NEW t \in Tasks, HookQueues(t) PROVE (DrainInv /\ DrainLeavesNothing)'
  BY <1>11, Constants DEF SpineInv, TypeOK, ConnStages, TaskStages, DrainInv,
     DrainLeavesNothing, HookQueues, TrySend, changes, matching, stop
<1>12. ASSUME NEW t \in Tasks, SpawnRetry(t) PROVE (DrainInv /\ DrainLeavesNothing)'
  BY <1>12, Constants DEF SpineInv, TypeOK, ConnStages, TaskStages, DrainInv,
     DrainLeavesNothing, SpawnRetry, changes, matching, stop
<1>13. ASSUME NEW t \in Tasks, TaskEnds(t) PROVE (DrainInv /\ DrainLeavesNothing)'
  BY <1>13, Constants DEF SpineInv, TypeOK, ConnStages, TaskStages, DrainInv,
     DrainLeavesNothing, TaskEnds, changes, matching, stop
<1>14. ASSUME NEW t \in Tasks, TaskPanics(t) PROVE (DrainInv /\ DrainLeavesNothing)'
  BY <1>14, Constants DEF SpineInv, TypeOK, ConnStages, TaskStages, DrainInv,
     DrainLeavesNothing, TaskPanics, changes, matching, stop
<1>15. ASSUME Receive PROVE (DrainInv /\ DrainLeavesNothing)'
  BY <1>15, Constants DEF SpineInv, TypeOK, ConnStages, TaskStages, DrainInv,
     DrainLeavesNothing, Receive, changes, matching, stop
<1>16. ASSUME Fold PROVE (DrainInv /\ DrainLeavesNothing)'
  BY <1>16, Constants DEF SpineInv, TypeOK, ConnStages, TaskStages, DrainInv,
     DrainLeavesNothing, Fold, changes, matching, stop
<1>17. ASSUME FoldEnds PROVE (DrainInv /\ DrainLeavesNothing)'
  BY <1>17, Constants DEF SpineInv, TypeOK, ConnStages, TaskStages, DrainInv,
     DrainLeavesNothing, FoldEnds, changes, matching, stop
<1>18. ASSUME Process PROVE (DrainInv /\ DrainLeavesNothing)'
  BY <1>18, Constants DEF SpineInv, TypeOK, ConnStages, TaskStages, DrainInv,
     DrainLeavesNothing, Process, changes, matching, stop
<1>19. ASSUME ProcessPanics PROVE (DrainInv /\ DrainLeavesNothing)'
  BY <1>19, Constants DEF SpineInv, TypeOK, ConnStages, TaskStages, DrainInv,
     DrainLeavesNothing, ProcessPanics, changes, matching, stop
<1>20. ASSUME Settle PROVE (DrainInv /\ DrainLeavesNothing)'
  BY <1>20, Constants DEF SpineInv, TypeOK, ConnStages, TaskStages, DrainInv,
     DrainLeavesNothing, Settle, changes, matching, stop
<1>21. ASSUME Sigterm PROVE (DrainInv /\ DrainLeavesNothing)'
  BY <1>21, Constants DEF SpineInv, TypeOK, ConnStages, TaskStages, DrainInv,
     DrainLeavesNothing, Sigterm, work, changes, matching, stop
<1>22. ASSUME CloseListener PROVE (DrainInv /\ DrainLeavesNothing)'
  BY <1>22, Constants DEF SpineInv, TypeOK, ConnStages, TaskStages, DrainInv,
     DrainLeavesNothing, CloseListener, work, changes, matching, stop
<1>23. ASSUME Deadline PROVE (DrainInv /\ DrainLeavesNothing)'
  BY <1>23, Constants DEF SpineInv, TypeOK, ConnStages, TaskStages, DrainInv,
     DrainLeavesNothing, Deadline, work, changes, matching, stop
<1>24. ASSUME ReadInflight PROVE (DrainInv /\ DrainLeavesNothing)'
  <2>1. CASE inflight = 0
    BY <1>24, <2>1, NoConnection DEF SpineInv, DrainInv, DrainLeavesNothing, ReadInflight,
       ReadCounter, work, changes, matching
  <2>2. CASE inflight # 0
    BY <1>24, <2>2 DEF SpineInv, DrainInv, DrainLeavesNothing, ReadInflight,
       ReadCounter, work, changes, matching
  <2> QED BY <2>1, <2>2
<1>25. ASSUME ReadBackground PROVE (DrainInv /\ DrainLeavesNothing)'
  <2>1. CASE background = 0
    BY <1>25, <2>1, NoTask DEF SpineInv, DrainInv, DrainLeavesNothing, ReadBackground,
       ReadCounter, work, changes, matching
  <2>2. CASE background # 0
    BY <1>25, <2>2 DEF SpineInv, DrainInv, DrainLeavesNothing, ReadBackground,
       ReadCounter, work, changes, matching
  <2> QED BY <2>1, <2>2
<1>26. ASSUME ReadPending PROVE (DrainInv /\ DrainLeavesNothing)'
  <2>1. CASE pending = 0
    <3>1. /\ \A c \in Conns : at[c] = "off"
          /\ \A t \in Tasks : at[t] \notin {"working", "emitting", "counting"}
      BY <1>26 DEF SpineInv, DrainInv, ReadPending, ReadCounter
    <3>2. queue = <<>> /\ matcher.pc = "receiving"
      BY <2>1, <3>1, NothingQueued, Constants
    <3> QED BY <1>26, <2>1, <3>1, <3>2 DEF DrainInv, DrainLeavesNothing, ReadPending,
            ReadCounter, work, changes, matching
  <2>2. CASE pending # 0
    BY <1>26, <2>2 DEF SpineInv, DrainInv, DrainLeavesNothing, ReadPending,
       ReadCounter, work, changes, matching
  <2> QED BY <2>1, <2>2
<1>27. ASSUME Exit PROVE (DrainInv /\ DrainLeavesNothing)'
  BY <1>27, Constants DEF SpineInv, TypeOK, ConnStages, TaskStages, DrainInv,
     DrainLeavesNothing, Exit, work, changes, matching, stop
<1> QED BY <1>1, <1>2, <1>3, <1>4, <1>5, <1>6, <1>7, <1>8, <1>9, <1>10,
     <1>11, <1>12, <1>13, <1>14, <1>15, <1>16, <1>17, <1>18, <1>19,
     <1>20, <1>21, <1>22, <1>23, <1>24, <1>25, <1>26, <1>27 DEF Next, Matcher, Drain

(* The three counting invariants in terms of the counts, now and next.      *)
LEMMA CountersRestated ==
    /\ ConnInv <=> inflight = Cardinality(ConnsOpen) /\ inflight <= MaxConnections
    /\ ConnInv' <=> inflight' = Cardinality(ConnsOpen)' /\ inflight' <= MaxConnections
    /\ TaskInv <=> /\ Cardinality(TasksLive) <= background
                   /\ background <= Cardinality(TasksBegun)
    /\ TaskInv' <=> /\ Cardinality(TasksLive)' <= background'
                    /\ background' <= Cardinality(TasksBegun)'
    /\ PendingInv <=> pending = Wrap(Len(queue) + matcher.taken - Cardinality(NotCounted))
    /\ PendingInv' <=> pending' = Wrap(Len(queue') + matcher'.taken - Cardinality(NotCounted)')
BY DEF ConnInv, TaskInv, PendingInv, Uncounted, ConnsOpen, TasksLive, TasksBegun,
       NotCounted, Open, Live, Begun, Late

(* inflight follows the open connections.                                    *)
LEMMA ConnStep ==
    ASSUME SpineInv, Next
    PROVE  ConnInv'
<1>1. ASSUME NEW c \in Conns, Accept(c) PROVE ConnInv'
  <2>1. c \in Writers /\ at' = [at EXCEPT ![c] = "idle"]
    BY <1>1, Constants DEF Accept
  <2>2. Joins(c, "idle", Open)
    BY <1>1, Constants DEF SpineInv, TypeOK, ConnStages, TaskStages, Joins, Leaves, Stays,
       OrderInv, Open, Live, Begun, Late, Accept
  <2>3. Cardinality(ConnsOpen)' = Cardinality(ConnsOpen) + 1
    BY <2>1, <2>2, MoveCounts DEF SpineInv
  <2>4. inflight = Cardinality(ConnsOpen) /\ inflight <= MaxConnections /\ inflight' = inflight + 1
    BY <1>1, CountersRestated DEF SpineInv, Accept
  <2>5. Cardinality(ConnsOpen) < MaxConnections
    <3>1. ConnsOpen = {d \in Conns : at[d] # "off"}
      BY DEF ConnsOpen, Those, Open, SpineInv, TypeOK
    <3> QED BY <1>1, <3>1 DEF Accept
  <2> QED BY <2>3, <2>4, <2>5, CountersRestated, CountsAreNat, Constants
<1>2. ASSUME NEW c \in Conns, Request(c) PROVE ConnInv'
  <2>1. c \in Writers /\ at' = [at EXCEPT ![c] = "handling"]
    BY <1>2, Constants DEF Request
  <2> QED BY <1>2, <2>1, MoveCounts, CountsAreNat, Constants
          DEF SpineInv, TypeOK, ConnInv, ConnsOpen, Open, Joins, Leaves, Stays,
              ConnStages, TaskStages, Request
<1>3. ASSUME NEW c \in Conns, Close(c) PROVE ConnInv'
  <2>1. c \in Writers /\ at' = [at EXCEPT ![c] = "off"]
    BY <1>3, Constants DEF Close
  <2>2. Leaves(c, "off", Open)
    BY <1>3, Constants DEF SpineInv, TypeOK, ConnStages, TaskStages, Joins, Leaves, Stays,
       OrderInv, Open, Live, Begun, Late, Close
  <2>3. Cardinality(ConnsOpen)' = Cardinality(ConnsOpen) - 1
    BY <2>1, <2>2, MoveCounts DEF SpineInv
  <2>4. inflight = Cardinality(ConnsOpen) /\ inflight <= MaxConnections /\ inflight' = inflight - 1
    BY <1>3, CountersRestated DEF SpineInv, Close
  <2> QED BY <2>3, <2>4, CountersRestated, CountsAreNat, Constants
<1>4. ASSUME NEW c \in Conns, Disconnect(c) PROVE ConnInv'
  <2>1. c \in Writers /\ at' = [at EXCEPT ![c] = "off"]
    BY <1>4, Constants DEF Disconnect
  <2>2. Leaves(c, "off", Open)
    BY <1>4, Constants DEF SpineInv, TypeOK, ConnStages, TaskStages, Joins, Leaves, Stays,
       OrderInv, Open, Live, Begun, Late, Disconnect
  <2>3. Cardinality(ConnsOpen)' = Cardinality(ConnsOpen) - 1
    BY <2>1, <2>2, MoveCounts DEF SpineInv
  <2>4. inflight = Cardinality(ConnsOpen) /\ inflight <= MaxConnections /\ inflight' = inflight - 1
    BY <1>4, CountersRestated DEF SpineInv, Disconnect
  <2> QED BY <2>3, <2>4, CountersRestated, CountsAreNat, Constants
<1>5. ASSUME NEW c \in Conns, HookBuffers(c) PROVE ConnInv'
  <2>1. c \in Writers /\ at' = [at EXCEPT ![c] = "handling"]
    BY <1>5, Constants DEF HookBuffers
  <2> QED BY <1>5, <2>1, MoveCounts, CountsAreNat, Constants
          DEF SpineInv, TypeOK, ConnInv, ConnsOpen, Open, Joins, Leaves, Stays,
              ConnStages, TaskStages, HookBuffers
<1>6. ASSUME NEW c \in Conns, Return(c) PROVE ConnInv'
  <2>1. c \in Writers /\ at' = [at EXCEPT ![c] = "flushing"]
    BY <1>6, Constants DEF Return
  <2> QED BY <1>6, <2>1, MoveCounts, CountsAreNat, Constants
          DEF SpineInv, TypeOK, ConnInv, ConnsOpen, Open, Joins, Leaves, Stays,
              ConnStages, TaskStages, Return
<1>7. ASSUME NEW c \in Conns, Flush(c) PROVE ConnInv'
  <2>1. c \in Writers
    BY Constants
  <2>2. \/ at' = [at EXCEPT ![c] = "counting"]
        \/ at' = [at EXCEPT ![c] = "idle"]
    BY <1>7 DEF Flush, TrySend
  <2>3. CASE at' = [at EXCEPT ![c] = "counting"]
    BY <1>7, <2>1, <2>3, MoveCounts, CountsAreNat, Constants
       DEF SpineInv, TypeOK, ConnInv, ConnsOpen, Open, Joins, Leaves, Stays,
           ConnStages, TaskStages, Flush
  <2>4. CASE at' = [at EXCEPT ![c] = "idle"]
    <3>1. Stays(c, "idle", Open)
      BY <1>7, Constants DEF SpineInv, TypeOK, Stays, Open, ConnStages, Flush
    <3>2. Cardinality(ConnsOpen)' = Cardinality(ConnsOpen)
      BY <2>1, <2>4, <3>1, MoveCounts DEF SpineInv
    <3>3. inflight' = inflight
      BY <1>7 DEF Flush
    <3> QED BY <3>2, <3>3, CountersRestated DEF SpineInv
  <2> QED BY <2>2, <2>3, <2>4
<1>8. ASSUME NEW c \in Conns, NEW t \in Tasks, SpawnFromRequest(c, t) PROVE ConnInv'
  <2>1. t \in Writers /\ at' = [at EXCEPT ![t] = "working"]
    BY <1>8, Constants DEF SpawnFromRequest
  <2> QED BY <1>8, <2>1, MoveCounts, CountsAreNat, Constants
          DEF SpineInv, TypeOK, ConnInv, ConnsOpen, Open, Joins, Leaves, Stays,
              ConnStages, TaskStages, SpawnFromRequest
<1>9. ASSUME NEW w \in Writers, Count(w) PROVE ConnInv'
  <2>1. w \in Writers /\ at' = [at EXCEPT ![w] = (IF w \in Conns THEN "idle" ELSE "working")]
    BY <1>9, Constants DEF Count
  <2> QED BY <1>9, <2>1, MoveCounts, CountsAreNat, Constants
          DEF SpineInv, TypeOK, ConnInv, ConnsOpen, Open, Joins, Leaves, Stays,
              ConnStages, TaskStages, Count
<1>10. ASSUME NEW w \in Writers, NEW e \in Entities, Commit(w, e) PROVE ConnInv'
  <2>1. w \in Writers /\ at' = [at EXCEPT ![w] = "emitting"]
    BY <1>10, Constants DEF Commit
  <2> QED BY <1>10, <2>1, MoveCounts, CountsAreNat, Constants
          DEF SpineInv, TypeOK, ConnInv, ConnsOpen, Open, Joins, Leaves, Stays,
              ConnStages, TaskStages, Commit
<1>11. ASSUME NEW t \in Tasks, HookQueues(t) PROVE ConnInv'
  <2>1. t \in Writers
    BY Constants
  <2>2. \/ at' = [at EXCEPT ![t] = "counting"]
        \/ at' = [at EXCEPT ![t] = "working"]
    BY <1>11 DEF HookQueues, TrySend
  <2>3. CASE at' = [at EXCEPT ![t] = "counting"]
    BY <1>11, <2>1, <2>3, MoveCounts, CountsAreNat, Constants
       DEF SpineInv, TypeOK, ConnInv, ConnsOpen, Open, Joins, Leaves, Stays,
           ConnStages, TaskStages, HookQueues
  <2>4. CASE at' = [at EXCEPT ![t] = "working"]
    BY <1>11, <2>1, <2>4, MoveCounts, CountsAreNat, Constants
       DEF SpineInv, TypeOK, ConnInv, ConnsOpen, Open, Joins, Leaves, Stays,
           ConnStages, TaskStages, HookQueues
  <2> QED BY <2>2, <2>3, <2>4
<1>12. ASSUME NEW t \in Tasks, SpawnRetry(t) PROVE ConnInv'
  <2>1. t \in Writers /\ at' = [at EXCEPT ![t] = "retrying"]
    BY <1>12, Constants DEF SpawnRetry
  <2> QED BY <1>12, <2>1, MoveCounts, CountsAreNat, Constants
          DEF SpineInv, TypeOK, ConnInv, ConnsOpen, Open, Joins, Leaves, Stays,
              ConnStages, TaskStages, SpawnRetry
<1>13. ASSUME NEW t \in Tasks, TaskEnds(t) PROVE ConnInv'
  <2>1. t \in Writers /\ at' = [at EXCEPT ![t] = "over"]
    BY <1>13, Constants DEF TaskEnds
  <2> QED BY <1>13, <2>1, MoveCounts, CountsAreNat, Constants
          DEF SpineInv, TypeOK, ConnInv, ConnsOpen, Open, Joins, Leaves, Stays,
              ConnStages, TaskStages, TaskEnds
<1>14. ASSUME NEW t \in Tasks, TaskPanics(t) PROVE ConnInv'
  <2>1. t \in Writers /\ at' = [at EXCEPT ![t] = "over"]
    BY <1>14, Constants DEF TaskPanics
  <2> QED BY <1>14, <2>1, MoveCounts, CountsAreNat, Constants
          DEF SpineInv, TypeOK, ConnInv, ConnsOpen, Open, Joins, Leaves, Stays,
              ConnStages, TaskStages, TaskPanics
<1>15. ASSUME Receive PROVE ConnInv'
  BY <1>15, Constants DEF SpineInv, ConnInv, Receive, changes, matching, stop
<1>16. ASSUME Fold PROVE ConnInv'
  BY <1>16, Constants DEF SpineInv, ConnInv, Fold, changes, matching, stop
<1>17. ASSUME FoldEnds PROVE ConnInv'
  BY <1>17, Constants DEF SpineInv, ConnInv, FoldEnds, changes, matching, stop
<1>18. ASSUME Process PROVE ConnInv'
  BY <1>18, Constants DEF SpineInv, ConnInv, Process, changes, matching, stop
<1>19. ASSUME ProcessPanics PROVE ConnInv'
  BY <1>19, Constants DEF SpineInv, ConnInv, ProcessPanics, changes, matching, stop
<1>20. ASSUME Settle PROVE ConnInv'
  BY <1>20, Constants DEF SpineInv, ConnInv, Settle, changes, matching, stop
<1>21. ASSUME Sigterm PROVE ConnInv'
  BY <1>21, Constants DEF SpineInv, ConnInv, Sigterm, work, changes, matching, stop
<1>22. ASSUME CloseListener PROVE ConnInv'
  BY <1>22, Constants DEF SpineInv, ConnInv, CloseListener, work, changes, matching,
     stop
<1>23. ASSUME Deadline PROVE ConnInv'
  BY <1>23, Constants DEF SpineInv, ConnInv, Deadline, work, changes, matching, stop
<1>24. ASSUME ReadInflight PROVE ConnInv'
  BY <1>24, Constants DEF SpineInv, ConnInv, ReadInflight, ReadCounter, work, changes,
     matching, stop
<1>25. ASSUME ReadBackground PROVE ConnInv'
  BY <1>25, Constants DEF SpineInv, ConnInv, ReadBackground, ReadCounter, work,
     changes, matching, stop
<1>26. ASSUME ReadPending PROVE ConnInv'
  BY <1>26, Constants DEF SpineInv, ConnInv, ReadPending, ReadCounter, work, changes,
     matching, stop
<1>27. ASSUME Exit PROVE ConnInv'
  BY <1>27, Constants DEF SpineInv, ConnInv, Exit, work, changes, matching, stop
<1> QED BY <1>1, <1>2, <1>3, <1>4, <1>5, <1>6, <1>7, <1>8, <1>9, <1>10,
     <1>11, <1>12, <1>13, <1>14, <1>15, <1>16, <1>17, <1>18, <1>19,
     <1>20, <1>21, <1>22, <1>23, <1>24, <1>25, <1>26, <1>27 DEF Next, Matcher, Drain

(* background covers the tasks that run.                                     *)
LEMMA TaskStep ==
    ASSUME SpineInv, Next
    PROVE  TaskInv'
<1>1. ASSUME NEW c \in Conns, Accept(c) PROVE TaskInv'
  <2>1. c \in Writers /\ at' = [at EXCEPT ![c] = "idle"]
    BY <1>1, Constants DEF Accept
  <2> QED BY ZenonT(30), <1>1, <2>1, MoveCounts, CountsAreNat, Constants
          DEF SpineInv, TypeOK, TaskInv, TasksLive, TasksBegun, Live, Begun, Joins, Leaves, Stays,
              ConnStages, TaskStages, Accept
<1>2. ASSUME NEW c \in Conns, Request(c) PROVE TaskInv'
  <2>1. c \in Writers /\ at' = [at EXCEPT ![c] = "handling"]
    BY <1>2, Constants DEF Request
  <2> QED BY <1>2, <2>1, MoveCounts, CountsAreNat, Constants
          DEF SpineInv, TypeOK, TaskInv, TasksLive, TasksBegun, Live, Begun, Joins, Leaves, Stays,
              ConnStages, TaskStages, Request
<1>3. ASSUME NEW c \in Conns, Close(c) PROVE TaskInv'
  <2>1. c \in Writers /\ at' = [at EXCEPT ![c] = "off"]
    BY <1>3, Constants DEF Close
  <2> QED BY <1>3, <2>1, MoveCounts, CountsAreNat, Constants
          DEF SpineInv, TypeOK, TaskInv, TasksLive, TasksBegun, Live, Begun, Joins, Leaves, Stays,
              ConnStages, TaskStages, Close
<1>4. ASSUME NEW c \in Conns, Disconnect(c) PROVE TaskInv'
  <2>1. c \in Writers /\ at' = [at EXCEPT ![c] = "off"]
    BY <1>4, Constants DEF Disconnect
  <2> QED BY <1>4, <2>1, MoveCounts, CountsAreNat, Constants
          DEF SpineInv, TypeOK, TaskInv, TasksLive, TasksBegun, Live, Begun, Joins, Leaves, Stays,
              ConnStages, TaskStages, Disconnect
<1>5. ASSUME NEW c \in Conns, HookBuffers(c) PROVE TaskInv'
  <2>1. c \in Writers /\ at' = [at EXCEPT ![c] = "handling"]
    BY <1>5, Constants DEF HookBuffers
  <2> QED BY <1>5, <2>1, MoveCounts, CountsAreNat, Constants
          DEF SpineInv, TypeOK, TaskInv, TasksLive, TasksBegun, Live, Begun, Joins, Leaves, Stays,
              ConnStages, TaskStages, HookBuffers
<1>6. ASSUME NEW c \in Conns, Return(c) PROVE TaskInv'
  <2>1. c \in Writers /\ at' = [at EXCEPT ![c] = "flushing"]
    BY <1>6, Constants DEF Return
  <2> QED BY <1>6, <2>1, MoveCounts, CountsAreNat, Constants
          DEF SpineInv, TypeOK, TaskInv, TasksLive, TasksBegun, Live, Begun, Joins, Leaves, Stays,
              ConnStages, TaskStages, Return
<1>7. ASSUME NEW c \in Conns, Flush(c) PROVE TaskInv'
  <2>1. c \in Writers
    BY Constants
  <2>2. \/ at' = [at EXCEPT ![c] = "counting"]
        \/ at' = [at EXCEPT ![c] = "idle"]
    BY <1>7 DEF Flush, TrySend
  <2>3. CASE at' = [at EXCEPT ![c] = "counting"]
    BY <1>7, <2>1, <2>3, MoveCounts, CountsAreNat, Constants
       DEF SpineInv, TypeOK, TaskInv, TasksLive, TasksBegun, Live, Begun, Joins, Leaves, Stays,
           ConnStages, TaskStages, Flush
  <2>4. CASE at' = [at EXCEPT ![c] = "idle"]
    BY <1>7, <2>1, <2>4, MoveCounts, CountsAreNat, Constants
       DEF SpineInv, TypeOK, TaskInv, TasksLive, TasksBegun, Live, Begun, Joins, Leaves, Stays,
           ConnStages, TaskStages, Flush
  <2> QED BY <2>2, <2>3, <2>4
<1>8. ASSUME NEW c \in Conns, NEW t \in Tasks, SpawnFromRequest(c, t) PROVE TaskInv'
  <2>1. t \in Writers /\ at' = [at EXCEPT ![t] = "working"]
    BY <1>8, Constants DEF SpawnFromRequest
  <2>2. Joins(t, "working", Live) /\ Joins(t, "working", Begun)
    BY <1>8, Constants DEF SpineInv, TypeOK, ConnStages, TaskStages, Joins, Leaves, Stays,
       OrderInv, Open, Live, Begun, Late, SpawnFromRequest
  <2>3. Cardinality(TasksLive)' = Cardinality(TasksLive) + 1 /\ Cardinality(TasksBegun)' = Cardinality(TasksBegun) + 1
    BY <2>1, <2>2, MoveCounts DEF SpineInv
  <2>4. Cardinality(TasksLive) <= background /\ background <= Cardinality(TasksBegun)
        /\ background' = background + 1 /\ background \in Nat
    BY <1>8, CountersRestated, CountsAreNat, FS_CardinalityType DEF TypeOK, SpineInv, SpawnFromRequest
  <2> QED BY <2>3, <2>4, CountersRestated, CountsAreNat, Constants
<1>9. ASSUME NEW w \in Writers, Count(w) PROVE TaskInv'
  <2>1. w \in Writers /\ at' = [at EXCEPT ![w] = (IF w \in Conns THEN "idle" ELSE "working")]
    BY <1>9, Constants DEF Count
  <2> QED BY <1>9, <2>1, MoveCounts, CountsAreNat, Constants
          DEF SpineInv, TypeOK, TaskInv, TasksLive, TasksBegun, Live, Begun, Joins, Leaves, Stays,
              ConnStages, TaskStages, Count
<1>10. ASSUME NEW w \in Writers, NEW e \in Entities, Commit(w, e) PROVE TaskInv'
  <2>1. w \in Writers /\ at' = [at EXCEPT ![w] = "emitting"]
    BY <1>10, Constants DEF Commit
  <2> QED BY ZenonT(30), <1>10, <2>1, MoveCounts, CountsAreNat, Constants
          DEF SpineInv, TypeOK, TaskInv, TasksLive, TasksBegun, Live, Begun, Joins, Leaves, Stays,
              ConnStages, TaskStages, Commit
<1>11. ASSUME NEW t \in Tasks, HookQueues(t) PROVE TaskInv'
  <2>1. t \in Writers
    BY Constants
  <2>2. \/ at' = [at EXCEPT ![t] = "counting"]
        \/ at' = [at EXCEPT ![t] = "working"]
    BY <1>11 DEF HookQueues, TrySend
  <2>3. CASE at' = [at EXCEPT ![t] = "counting"]
    BY <1>11, <2>1, <2>3, MoveCounts, CountsAreNat, Constants
       DEF SpineInv, TypeOK, TaskInv, TasksLive, TasksBegun, Live, Begun, Joins, Leaves, Stays,
           ConnStages, TaskStages, HookQueues
  <2>4. CASE at' = [at EXCEPT ![t] = "working"]
    <3>1. Stays(t, "working", Live) /\ Stays(t, "working", Begun)
      BY <1>11, Constants DEF SpineInv, TypeOK, Stays, Live, Begun, TaskStages, HookQueues
    <3>2. /\ Cardinality(TasksLive)' = Cardinality(TasksLive)
          /\ Cardinality(TasksBegun)' = Cardinality(TasksBegun)
      BY <2>1, <2>4, <3>1, MoveCounts DEF SpineInv
    <3>3. background' = background
      BY <1>11 DEF HookQueues
    <3> QED BY <3>2, <3>3, CountersRestated DEF SpineInv
  <2> QED BY <2>2, <2>3, <2>4
<1>12. ASSUME NEW t \in Tasks, SpawnRetry(t) PROVE TaskInv'
  <2>1. t \in Writers /\ at' = [at EXCEPT ![t] = "retrying"]
    BY <1>12, Constants DEF SpawnRetry
  <2>2. Joins(t, "retrying", Live) /\ Joins(t, "retrying", Begun)
    BY <1>12, Constants DEF SpineInv, TypeOK, ConnStages, TaskStages, Joins, Leaves, Stays,
       OrderInv, Open, Live, Begun, Late, SpawnRetry
  <2>3. Cardinality(TasksLive)' = Cardinality(TasksLive) + 1 /\ Cardinality(TasksBegun)' = Cardinality(TasksBegun) + 1
    BY <2>1, <2>2, MoveCounts DEF SpineInv
  <2>4. Cardinality(TasksLive) <= background /\ background <= Cardinality(TasksBegun)
        /\ background' = background + 1 /\ background \in Nat
    BY <1>12, CountersRestated, CountsAreNat, FS_CardinalityType DEF TypeOK, SpineInv, SpawnRetry
  <2> QED BY <2>3, <2>4, CountersRestated, CountsAreNat, Constants
<1>13. ASSUME NEW t \in Tasks, TaskEnds(t) PROVE TaskInv'
  <2>1. t \in Writers /\ at' = [at EXCEPT ![t] = "over"]
    BY <1>13, Constants DEF TaskEnds
  <2>2. Leaves(t, "over", Live) /\ Stays(t, "over", Begun)
    BY <1>13, Constants DEF SpineInv, TypeOK, ConnStages, TaskStages, Joins, Leaves, Stays,
       OrderInv, Open, Live, Begun, Late, TaskEnds
  <2>3. Cardinality(TasksLive)' = Cardinality(TasksLive) - 1 /\ Cardinality(TasksBegun)' = Cardinality(TasksBegun)
    BY <2>1, <2>2, MoveCounts DEF SpineInv
  <2>4. Cardinality(TasksLive) <= background /\ background <= Cardinality(TasksBegun)
        /\ background' = background - 1 /\ background \in Nat
    BY <1>13, CountersRestated, CountsAreNat, FS_CardinalityType DEF TypeOK, SpineInv, TaskEnds
  <2> QED BY <2>3, <2>4, CountersRestated, CountsAreNat, Constants
<1>14. ASSUME NEW t \in Tasks, TaskPanics(t) PROVE TaskInv'
  <2>1. t \in Writers /\ at' = [at EXCEPT ![t] = "over"]
    BY <1>14, Constants DEF TaskPanics
  <2>2. Leaves(t, "over", Live) /\ Stays(t, "over", Begun)
    BY <1>14, Constants DEF SpineInv, TypeOK, ConnStages, TaskStages, Joins, Leaves, Stays,
       OrderInv, Open, Live, Begun, Late, TaskPanics
  <2>3. Cardinality(TasksLive)' = Cardinality(TasksLive) - 1 /\ Cardinality(TasksBegun)' = Cardinality(TasksBegun)
    BY <2>1, <2>2, MoveCounts DEF SpineInv
  <2>4. Cardinality(TasksLive) <= background /\ background <= Cardinality(TasksBegun)
        /\ background' = background /\ background \in Nat
    BY <1>14, CountersRestated, CountsAreNat, FS_CardinalityType DEF TypeOK, SpineInv, TaskPanics
  <2> QED BY <2>3, <2>4, CountersRestated, CountsAreNat, Constants
<1>15. ASSUME Receive PROVE TaskInv'
  BY <1>15, Constants DEF SpineInv, TaskInv, Receive, changes, matching, stop
<1>16. ASSUME Fold PROVE TaskInv'
  BY <1>16, Constants DEF SpineInv, TaskInv, Fold, changes, matching, stop
<1>17. ASSUME FoldEnds PROVE TaskInv'
  BY <1>17, Constants DEF SpineInv, TaskInv, FoldEnds, changes, matching, stop
<1>18. ASSUME Process PROVE TaskInv'
  BY <1>18, Constants DEF SpineInv, TaskInv, Process, changes, matching, stop
<1>19. ASSUME ProcessPanics PROVE TaskInv'
  BY <1>19, Constants DEF SpineInv, TaskInv, ProcessPanics, changes, matching, stop
<1>20. ASSUME Settle PROVE TaskInv'
  BY <1>20, Constants DEF SpineInv, TaskInv, Settle, changes, matching, stop
<1>21. ASSUME Sigterm PROVE TaskInv'
  BY <1>21, Constants DEF SpineInv, TaskInv, Sigterm, work, changes, matching, stop
<1>22. ASSUME CloseListener PROVE TaskInv'
  BY <1>22, Constants DEF SpineInv, TaskInv, CloseListener, work, changes, matching,
     stop
<1>23. ASSUME Deadline PROVE TaskInv'
  BY <1>23, Constants DEF SpineInv, TaskInv, Deadline, work, changes, matching, stop
<1>24. ASSUME ReadInflight PROVE TaskInv'
  BY <1>24, Constants DEF SpineInv, TaskInv, ReadInflight, ReadCounter, work, changes,
     matching, stop
<1>25. ASSUME ReadBackground PROVE TaskInv'
  BY <1>25, Constants DEF SpineInv, TaskInv, ReadBackground, ReadCounter, work,
     changes, matching, stop
<1>26. ASSUME ReadPending PROVE TaskInv'
  BY <1>26, Constants DEF SpineInv, TaskInv, ReadPending, ReadCounter, work, changes,
     matching, stop
<1>27. ASSUME Exit PROVE TaskInv'
  BY <1>27, Constants DEF SpineInv, TaskInv, Exit, work, changes, matching, stop
<1> QED BY <1>1, <1>2, <1>3, <1>4, <1>5, <1>6, <1>7, <1>8, <1>9, <1>10,
     <1>11, <1>12, <1>13, <1>14, <1>15, <1>16, <1>17, <1>18, <1>19,
     <1>20, <1>21, <1>22, <1>23, <1>24, <1>25, <1>26, <1>27 DEF Next, Matcher, Drain

(* Adding to a wrapped number, or subtracting from it, wraps the result.    *)
LEMMA WrapAgain ==
    ASSUME NEW n \in Int, NEW d \in Int, n + UsizeMod > 0, n < UsizeMod
    PROVE  /\ n + d + UsizeMod > 0 /\ n + d < UsizeMod => Wrap(Wrap(n) + d) = Wrap(n + d)
           /\ n - d + UsizeMod > 0 /\ n - d < UsizeMod => Wrap(Wrap(n) - d) = Wrap(n - d)
           /\ Wrap(n) \in 0..(UsizeMod - 1)
BY Constants DEF Wrap

(* The queue, the batch and the writers together are fewer than a usize     *)
(* can tell apart.                                                          *)
LEMMA SmallSum ==
    ASSUME NEW a \in Nat, a <= QueueLimit, NEW b \in Nat, b <= BatchLimit,
           NEW c \in Nat, c <= Cardinality(Writers)
    PROVE  /\ a + b - c \in Int /\ a + b - c + UsizeMod > 0 /\ a + b - c < UsizeMod
           /\ a + b - c - b + UsizeMod > 0 /\ a + b - c - b < UsizeMod
           /\ a + b - c - b = a + 0 - c /\ a + b - c + 1 = a + b - (c - 1)
<1>1. /\ UsizeMod > QueueLimit + BatchLimit + Cardinality(Writers)
      /\ UsizeMod \in Nat /\ QueueLimit \in Nat /\ BatchLimit \in Nat
  BY Constants
<1>2. Cardinality(Writers) \in Nat
  BY CountsAreNat
<1> QED BY <1>1, <1>2

(* What is queued, taken and not yet counted are small numbers.             *)
LEMMA PendingRange ==
    ASSUME SpineInv
    PROVE  /\ Len(queue) \in Nat /\ Len(queue) <= QueueLimit
           /\ matcher.taken \in Nat /\ matcher.taken <= BatchLimit
           /\ Cardinality(NotCounted) \in Nat /\ Cardinality(NotCounted) <= Cardinality(Writers)
           /\ pending = Wrap(Len(queue) + matcher.taken - Cardinality(NotCounted))
<1>1. ChangeInv /\ QueueLimit \in Nat /\ BatchLimit \in Nat
  BY TypeParts, Constants DEF SpineInv
<1>2. Len(queue) \in Nat /\ Len(queue) <= QueueLimit
  BY <1>1, LengthZero DEF ChangeInv
<1>3. matcher.taken \in Nat /\ matcher.taken <= BatchLimit
  BY <1>1 DEF ChangeInv
<1> QED BY <1>2, <1>3, CountsAreNat, CountersRestated DEF SpineInv

(* pending is what is queued and taken, less what is not counted yet.        *)
LEMMA PendingStep ==
    ASSUME SpineInv, Next
    PROVE  PendingInv'
<1>1. ASSUME NEW c \in Conns, Accept(c) PROVE PendingInv'
  <2>1. c \in Writers /\ at' = [at EXCEPT ![c] = "idle"]
    BY <1>1, Constants DEF Accept
  <2>2. Stays(c, "idle", Late)
    BY <1>1, Constants DEF SpineInv, TypeOK, ConnStages, TaskStages, Joins, Leaves, Stays,
       OrderInv, Open, Live, Begun, Late, Accept
  <2>3. Cardinality(NotCounted)' = Cardinality(NotCounted)
    BY <2>1, <2>2, MoveCounts DEF SpineInv
  <2>4. pending = Wrap(Len(queue) + matcher.taken - Cardinality(NotCounted))
        /\ pending' = pending /\ queue' = queue /\ matcher' = matcher
    BY <1>1, CountersRestated DEF SpineInv, Accept, matching
  <2> QED BY <2>3, <2>4, CountersRestated
<1>2. ASSUME NEW c \in Conns, Request(c) PROVE PendingInv'
  <2>1. c \in Writers /\ at' = [at EXCEPT ![c] = "handling"]
    BY <1>2, Constants DEF Request
  <2>2. Stays(c, "handling", Late)
    BY <1>2, Constants DEF SpineInv, TypeOK, ConnStages, TaskStages, Joins, Leaves, Stays,
       OrderInv, Open, Live, Begun, Late, Request
  <2>3. Cardinality(NotCounted)' = Cardinality(NotCounted)
    BY <2>1, <2>2, MoveCounts DEF SpineInv
  <2>4. pending = Wrap(Len(queue) + matcher.taken - Cardinality(NotCounted))
        /\ pending' = pending /\ queue' = queue /\ matcher' = matcher
    BY <1>2, CountersRestated DEF SpineInv, Request, matching
  <2> QED BY <2>3, <2>4, CountersRestated
<1>3. ASSUME NEW c \in Conns, Close(c) PROVE PendingInv'
  <2>1. c \in Writers /\ at' = [at EXCEPT ![c] = "off"]
    BY <1>3, Constants DEF Close
  <2>2. Stays(c, "off", Late)
    BY <1>3, Constants DEF SpineInv, TypeOK, ConnStages, TaskStages, Joins, Leaves, Stays,
       OrderInv, Open, Live, Begun, Late, Close
  <2>3. Cardinality(NotCounted)' = Cardinality(NotCounted)
    BY <2>1, <2>2, MoveCounts DEF SpineInv
  <2>4. pending = Wrap(Len(queue) + matcher.taken - Cardinality(NotCounted))
        /\ pending' = pending /\ queue' = queue /\ matcher' = matcher
    BY <1>3, CountersRestated DEF SpineInv, Close, matching
  <2> QED BY <2>3, <2>4, CountersRestated
<1>4. ASSUME NEW c \in Conns, Disconnect(c) PROVE PendingInv'
  <2>1. c \in Writers /\ at' = [at EXCEPT ![c] = "off"]
    BY <1>4, Constants DEF Disconnect
  <2>2. Stays(c, "off", Late)
    BY <1>4, Constants DEF SpineInv, TypeOK, ConnStages, TaskStages, Joins, Leaves, Stays,
       OrderInv, Open, Live, Begun, Late, Disconnect
  <2>3. Cardinality(NotCounted)' = Cardinality(NotCounted)
    BY <2>1, <2>2, MoveCounts DEF SpineInv
  <2>4. pending = Wrap(Len(queue) + matcher.taken - Cardinality(NotCounted))
        /\ pending' = pending /\ queue' = queue /\ matcher' = matcher
    BY <1>4, CountersRestated DEF SpineInv, Disconnect, matching
  <2> QED BY <2>3, <2>4, CountersRestated
<1>5. ASSUME NEW c \in Conns, HookBuffers(c) PROVE PendingInv'
  <2>1. c \in Writers /\ at' = [at EXCEPT ![c] = "handling"]
    BY <1>5, Constants DEF HookBuffers
  <2>2. Stays(c, "handling", Late)
    BY <1>5, Constants DEF SpineInv, TypeOK, ConnStages, TaskStages, Joins, Leaves, Stays,
       OrderInv, Open, Live, Begun, Late, HookBuffers
  <2>3. Cardinality(NotCounted)' = Cardinality(NotCounted)
    BY <2>1, <2>2, MoveCounts DEF SpineInv
  <2>4. pending = Wrap(Len(queue) + matcher.taken - Cardinality(NotCounted))
        /\ pending' = pending /\ queue' = queue /\ matcher' = matcher
    BY <1>5, CountersRestated DEF SpineInv, HookBuffers, matching
  <2> QED BY <2>3, <2>4, CountersRestated
<1>6. ASSUME NEW c \in Conns, Return(c) PROVE PendingInv'
  <2>1. c \in Writers /\ at' = [at EXCEPT ![c] = "flushing"]
    BY <1>6, Constants DEF Return
  <2>2. Stays(c, "flushing", Late)
    BY <1>6, Constants DEF SpineInv, TypeOK, ConnStages, TaskStages, Joins, Leaves, Stays,
       OrderInv, Open, Live, Begun, Late, Return
  <2>3. Cardinality(NotCounted)' = Cardinality(NotCounted)
    BY <2>1, <2>2, MoveCounts DEF SpineInv
  <2>4. pending = Wrap(Len(queue) + matcher.taken - Cardinality(NotCounted))
        /\ pending' = pending /\ queue' = queue /\ matcher' = matcher
    BY <1>6, CountersRestated DEF SpineInv, Return, matching
  <2> QED BY <2>3, <2>4, CountersRestated
<1>7. ASSUME NEW c \in Conns, Flush(c) PROVE PendingInv'
  <2>1. ChangeInv /\ BatchInv /\ PendingInv
    BY TypeParts DEF SpineInv
  <2>2. Joins(c, "counting", Late) /\ Stays(c, "idle", Late)
    BY <1>7, Constants DEF SpineInv, TypeOK, ConnStages, TaskStages, Joins, Stays, Late, Flush
  <2>3. c \in Writers /\ pending' = pending /\ matcher' = matcher
    BY <1>7, Constants DEF Flush, matching
  <2>4. \/ Len(queue') = Len(queue) + 1 /\ at' = [at EXCEPT ![c] = "counting"]
        \/ queue' = queue /\ at' = [at EXCEPT ![c] = "idle"]
    <3>1. CASE buf[c] = <<>>
      BY <1>7, <3>1 DEF Flush
    <3>2. CASE buf[c] # <<>>
      <4>1. buf[c] \in Seq(Ids) /\ TrySend(c, buf[c], "idle")
        BY <1>7, <2>1, <3>2 DEF ChangeInv, Flush
      <4> QED BY <2>1, <3>2, <4>1, TrySendType DEF BatchInv
    <3> QED BY <3>1, <3>2
  <2>5. \/ /\ Len(queue') = Len(queue) + 1
           /\ Cardinality(NotCounted)' = Cardinality(NotCounted) + 1
        \/ /\ queue' = queue /\ Cardinality(NotCounted)' = Cardinality(NotCounted)
    BY <2>2, <2>3, <2>4, MoveCounts DEF SpineInv
  <2>6. Len(queue') + matcher'.taken - Cardinality(NotCounted)'
            = Len(queue) + matcher.taken - Cardinality(NotCounted)
    BY <2>3, <2>5, PendingRange
  <2> QED BY <2>3, <2>6, PendingRange, CountersRestated
<1>8. ASSUME NEW c \in Conns, NEW t \in Tasks, SpawnFromRequest(c, t) PROVE PendingInv'
  <2>1. t \in Writers /\ at' = [at EXCEPT ![t] = "working"]
    BY <1>8, Constants DEF SpawnFromRequest
  <2>2. Stays(t, "working", Late)
    BY <1>8, Constants DEF SpineInv, TypeOK, ConnStages, TaskStages, Joins, Leaves, Stays,
       OrderInv, Open, Live, Begun, Late, SpawnFromRequest
  <2>3. Cardinality(NotCounted)' = Cardinality(NotCounted)
    BY <2>1, <2>2, MoveCounts DEF SpineInv
  <2>4. pending = Wrap(Len(queue) + matcher.taken - Cardinality(NotCounted))
        /\ pending' = pending /\ queue' = queue /\ matcher' = matcher
    BY <1>8, CountersRestated DEF SpineInv, SpawnFromRequest, matching
  <2> QED BY <2>3, <2>4, CountersRestated
<1>9. ASSUME NEW w \in Writers, Count(w) PROVE PendingInv'
  <2>1. w \in Writers /\ at' = [at EXCEPT ![w] = (IF w \in Conns THEN "idle" ELSE "working")]
    BY <1>9, Constants DEF Count
  <2>2. Leaves(w, (IF w \in Conns THEN "idle" ELSE "working"), Late)
    BY <1>9, Constants DEF SpineInv, TypeOK, ConnStages, TaskStages, Joins, Leaves, Stays,
       OrderInv, Open, Live, Begun, Late, Count
  <2>3. Cardinality(NotCounted)' = Cardinality(NotCounted) - 1
    BY <2>1, <2>2, MoveCounts DEF SpineInv
  <2>4. pending = Wrap(Len(queue) + matcher.taken - Cardinality(NotCounted))
        /\ pending' = Wrap(pending + 1) /\ queue' = queue /\ matcher' = matcher
    BY <1>9, CountersRestated DEF SpineInv, Count, matching
  <2> DEFINE n == Len(queue) + matcher.taken - Cardinality(NotCounted)
  <2>5. /\ n \in Int /\ n + UsizeMod > 0 /\ n < UsizeMod
        /\ n + 1 = Len(queue) + matcher.taken - (Cardinality(NotCounted) - 1)
    BY PendingRange, SmallSum
  <2>6. Cardinality(NotCounted)' \in Nat /\ Cardinality(NotCounted)' <= Cardinality(Writers)
    <3>1. NotCounted' = Those(at', Late, Writers)
      BY DEF NotCounted, Those, Late
    <3> QED BY <3>1, CountIsNat, CountsAreNat
  <2>7. n + 1 = Len(queue) + matcher.taken - Cardinality(NotCounted)'
    BY <2>3, <2>5
  <2>8. n + 1 + UsizeMod > 0 /\ n + 1 < UsizeMod
    <3>1. /\ Len(queue) + matcher.taken - Cardinality(NotCounted)' + UsizeMod > 0
          /\ Len(queue) + matcher.taken - Cardinality(NotCounted)' < UsizeMod
      BY <2>6, PendingRange, SmallSum
    <3> QED BY <2>7, <3>1
  <2>9. Wrap(Wrap(n) + 1) = Wrap(n + 1)
    BY <2>5, <2>8, WrapAgain
  <2>10. Wrap(n) = pending
    BY <2>4
  <2> QED BY <2>4, <2>7, <2>9, <2>10, CountersRestated
<1>10. ASSUME NEW w \in Writers, NEW e \in Entities, Commit(w, e) PROVE PendingInv'
  <2>1. w \in Writers /\ at' = [at EXCEPT ![w] = "emitting"]
    BY <1>10, Constants DEF Commit
  <2>2. Stays(w, "emitting", Late)
    BY <1>10, Constants DEF SpineInv, TypeOK, ConnStages, TaskStages, Joins, Leaves, Stays,
       OrderInv, Open, Live, Begun, Late, Commit
  <2>3. Cardinality(NotCounted)' = Cardinality(NotCounted)
    BY <2>1, <2>2, MoveCounts DEF SpineInv
  <2>4. pending = Wrap(Len(queue) + matcher.taken - Cardinality(NotCounted))
        /\ pending' = pending /\ queue' = queue /\ matcher' = matcher
    BY <1>10, CountersRestated DEF SpineInv, Commit, matching
  <2> QED BY <2>3, <2>4, CountersRestated
<1>11. ASSUME NEW t \in Tasks, HookQueues(t) PROVE PendingInv'
  <2>1. ChangeInv /\ BatchInv /\ PendingInv
    BY TypeParts DEF SpineInv
  <2>2. Joins(t, "counting", Late) /\ Stays(t, "working", Late)
    BY <1>11, Constants DEF SpineInv, TypeOK, ConnStages, TaskStages, Joins, Stays, Late, HookQueues
  <2>3. t \in Writers /\ pending' = pending /\ matcher' = matcher
    BY <1>11, Constants DEF HookQueues, matching
  <2>4. \/ Len(queue') = Len(queue) + 1 /\ at' = [at EXCEPT ![t] = "counting"]
        \/ queue' = queue /\ at' = [at EXCEPT ![t] = "working"]
    <3>1. held[t] \in Ids
      BY <1>11, <2>1, Constants DEF ChangeInv, SpineInv, OrderInv, HookQueues, Ids
    <3>2. <<held[t]>> \in Seq(Ids) /\ <<held[t]>> # <<>>
      BY <3>1
    <3>3. TrySend(t, <<held[t]>>, "working")
      BY <1>11 DEF HookQueues
    <3> QED BY <2>1, <3>2, <3>3, TrySendType DEF BatchInv
  <2>5. \/ /\ Len(queue') = Len(queue) + 1
           /\ Cardinality(NotCounted)' = Cardinality(NotCounted) + 1
        \/ /\ queue' = queue /\ Cardinality(NotCounted)' = Cardinality(NotCounted)
    BY <2>2, <2>3, <2>4, MoveCounts DEF SpineInv
  <2>6. Len(queue') + matcher'.taken - Cardinality(NotCounted)'
            = Len(queue) + matcher.taken - Cardinality(NotCounted)
    BY <2>3, <2>5, PendingRange
  <2> QED BY <2>3, <2>6, PendingRange, CountersRestated
<1>12. ASSUME NEW t \in Tasks, SpawnRetry(t) PROVE PendingInv'
  <2>1. t \in Writers /\ at' = [at EXCEPT ![t] = "retrying"]
    BY <1>12, Constants DEF SpawnRetry
  <2>2. Stays(t, "retrying", Late)
    BY <1>12, Constants DEF SpineInv, TypeOK, ConnStages, TaskStages, Joins, Leaves, Stays,
       OrderInv, Open, Live, Begun, Late, SpawnRetry
  <2>3. Cardinality(NotCounted)' = Cardinality(NotCounted)
    BY <2>1, <2>2, MoveCounts DEF SpineInv
  <2>4. pending = Wrap(Len(queue) + matcher.taken - Cardinality(NotCounted))
        /\ pending' = pending /\ queue' = queue /\ matcher' = matcher
    BY <1>12, CountersRestated DEF SpineInv, SpawnRetry, matching
  <2> QED BY <2>3, <2>4, CountersRestated
<1>13. ASSUME NEW t \in Tasks, TaskEnds(t) PROVE PendingInv'
  <2>1. t \in Writers /\ at' = [at EXCEPT ![t] = "over"]
    BY <1>13, Constants DEF TaskEnds
  <2>2. Stays(t, "over", Late)
    BY <1>13, Constants DEF SpineInv, TypeOK, ConnStages, TaskStages, Joins, Leaves, Stays,
       OrderInv, Open, Live, Begun, Late, TaskEnds
  <2>3. Cardinality(NotCounted)' = Cardinality(NotCounted)
    BY <2>1, <2>2, MoveCounts DEF SpineInv
  <2>4. pending = Wrap(Len(queue) + matcher.taken - Cardinality(NotCounted))
        /\ pending' = pending /\ queue' = queue /\ matcher' = matcher
    BY <1>13, CountersRestated DEF SpineInv, TaskEnds, matching
  <2> QED BY <2>3, <2>4, CountersRestated
<1>14. ASSUME NEW t \in Tasks, TaskPanics(t) PROVE PendingInv'
  <2>1. t \in Writers /\ at' = [at EXCEPT ![t] = "over"]
    BY <1>14, Constants DEF TaskPanics
  <2>2. Stays(t, "over", Late)
    BY <1>14, Constants DEF SpineInv, TypeOK, ConnStages, TaskStages, Joins, Leaves, Stays,
       OrderInv, Open, Live, Begun, Late, TaskPanics
  <2>3. Cardinality(NotCounted)' = Cardinality(NotCounted)
    BY <2>1, <2>2, MoveCounts DEF SpineInv
  <2>4. pending = Wrap(Len(queue) + matcher.taken - Cardinality(NotCounted))
        /\ pending' = pending /\ queue' = queue /\ matcher' = matcher
    BY <1>14, CountersRestated DEF SpineInv, TaskPanics, matching
  <2> QED BY <2>3, <2>4, CountersRestated
<1>15. ASSUME Receive PROVE PendingInv'
  <2>1. ChangeInv /\ BatchInv
    BY TypeParts DEF SpineInv
  <2>2. Cardinality(NotCounted)' = Cardinality(NotCounted)
    BY <1>15 DEF NotCounted, Those, Receive
  <2>3. queue' = Tail(queue) /\ pending' = pending /\ matcher'.taken = 1
    BY <1>15, <2>1 DEF ChangeInv, Receive
  <2>4. matcher.taken = 0
    BY <1>15, <2>1 DEF BatchInv, Receive
  <2>5. Len(queue') = Len(queue) - 1
    <3>1. queue \in Seq(Seq(Ids)) /\ queue # <<>>
      BY <1>15, <2>1 DEF ChangeInv, Receive
    <3>2. Len(Tail(queue)) = Len(queue) - 1
      BY <3>1, TailType
    <3> QED BY <2>3, <3>2
  <2>6. Len(queue') + matcher'.taken - Cardinality(NotCounted)'
            = Len(queue) + matcher.taken - Cardinality(NotCounted)
    <3>1. matcher'.taken = 1
      BY <2>3
    <3> QED BY <2>2, <2>4, <2>5, <3>1, PendingRange
  <2> QED BY <2>3, <2>6, PendingRange, CountersRestated
<1>16. ASSUME Fold PROVE PendingInv'
  <2>1. ChangeInv /\ BatchInv
    BY TypeParts DEF SpineInv
  <2>2. Cardinality(NotCounted)' = Cardinality(NotCounted)
    BY <1>16 DEF NotCounted, Those, Fold
  <2>3. queue' = Tail(queue) /\ pending' = pending /\ matcher'.taken = matcher.taken + 1
    BY <1>16, <2>1 DEF ChangeInv, Fold
  <2>5. Len(queue') = Len(queue) - 1
    <3>1. queue \in Seq(Seq(Ids)) /\ queue # <<>>
      BY <1>16, <2>1 DEF ChangeInv, Fold
    <3>2. Len(Tail(queue)) = Len(queue) - 1
      BY <3>1, TailType
    <3> QED BY <2>3, <3>2
  <2>6. Len(queue') + matcher'.taken - Cardinality(NotCounted)'
            = Len(queue) + matcher.taken - Cardinality(NotCounted)
    <3>1. matcher'.taken = matcher.taken + 1
      BY <2>3
    <3> QED BY <2>2, <2>5, <3>1, PendingRange
  <2> QED BY <2>3, <2>6, PendingRange, CountersRestated
<1>17. ASSUME FoldEnds PROVE PendingInv'
  <2>1. ChangeInv /\ BatchInv
    BY TypeParts DEF SpineInv
  <2>2. Cardinality(NotCounted)' = Cardinality(NotCounted)
    BY <1>17 DEF NotCounted, Those, FoldEnds
  <2>3. queue' = queue /\ pending' = pending /\ matcher'.taken = matcher.taken
    BY <1>17, <2>1 DEF ChangeInv, FoldEnds
  <2> QED BY <2>2, <2>3, PendingRange, CountersRestated
<1>18. ASSUME Process PROVE PendingInv'
  <2>1. ChangeInv /\ BatchInv
    BY TypeParts DEF SpineInv
  <2>2. Cardinality(NotCounted)' = Cardinality(NotCounted)
    BY <1>18 DEF NotCounted, Those, Process
  <2>3. queue' = queue /\ pending' = pending /\ matcher'.taken = matcher.taken
    BY <1>18, <2>1 DEF ChangeInv, Process
  <2> QED BY <2>2, <2>3, PendingRange, CountersRestated
<1>19. ASSUME ProcessPanics PROVE PendingInv'
  <2>1. ChangeInv /\ BatchInv
    BY TypeParts DEF SpineInv
  <2>2. Cardinality(NotCounted)' = Cardinality(NotCounted)
    BY <1>19 DEF NotCounted, Those, ProcessPanics
  <2>3. queue' = queue /\ pending' = pending /\ matcher'.taken = matcher.taken
    BY <1>19, <2>1 DEF ChangeInv, ProcessPanics
  <2> QED BY <2>2, <2>3, PendingRange, CountersRestated
<1>20. ASSUME Settle PROVE PendingInv'
  <2>1. ChangeInv /\ BatchInv
    BY TypeParts DEF SpineInv
  <2>2. Cardinality(NotCounted)' = Cardinality(NotCounted)
    BY <1>20 DEF NotCounted, Those, Settle
  <2>3. /\ queue' = queue /\ matcher'.taken = 0
        /\ pending' = Wrap(pending - matcher.taken)
    BY <1>20, <2>1 DEF ChangeInv, Settle
  <2> DEFINE n == Len(queue) + matcher.taken - Cardinality(NotCounted)
  <2>4. /\ n \in Int /\ n + UsizeMod > 0 /\ n < UsizeMod
        /\ n - matcher.taken + UsizeMod > 0 /\ n - matcher.taken < UsizeMod
        /\ n - matcher.taken = Len(queue) + 0 - Cardinality(NotCounted)
    BY PendingRange, SmallSum
  <2>5. Wrap(Wrap(n) - matcher.taken) = Wrap(n - matcher.taken)
    BY <2>4, PendingRange, WrapAgain
  <2>6. Wrap(n) = pending
    BY PendingRange
  <2>7. n - matcher.taken = Len(queue') + matcher'.taken - Cardinality(NotCounted)'
    BY <2>2, <2>3, <2>4
  <2> QED BY <2>3, <2>5, <2>6, <2>7, CountersRestated
<1>21. ASSUME Sigterm PROVE PendingInv'
  BY <1>21, Constants DEF SpineInv, PendingInv, Uncounted, Sigterm, work, changes,
     matching, stop
<1>22. ASSUME CloseListener PROVE PendingInv'
  BY <1>22, Constants DEF SpineInv, PendingInv, Uncounted, CloseListener, work,
     changes, matching, stop
<1>23. ASSUME Deadline PROVE PendingInv'
  BY <1>23, Constants DEF SpineInv, PendingInv, Uncounted, Deadline, work, changes,
     matching, stop
<1>24. ASSUME ReadInflight PROVE PendingInv'
  BY <1>24, Constants DEF SpineInv, PendingInv, Uncounted, ReadInflight, ReadCounter,
     work, changes, matching, stop
<1>25. ASSUME ReadBackground PROVE PendingInv'
  BY <1>25, Constants DEF SpineInv, PendingInv, Uncounted, ReadBackground,
     ReadCounter, work, changes, matching, stop
<1>26. ASSUME ReadPending PROVE PendingInv'
  BY <1>26, Constants DEF SpineInv, PendingInv, Uncounted, ReadPending, ReadCounter,
     work, changes, matching, stop
<1>27. ASSUME Exit PROVE PendingInv'
  BY <1>27, Constants DEF SpineInv, PendingInv, Uncounted, Exit, work, changes,
     matching, stop
<1> QED BY <1>1, <1>2, <1>3, <1>4, <1>5, <1>6, <1>7, <1>8, <1>9, <1>10,
     <1>11, <1>12, <1>13, <1>14, <1>15, <1>16, <1>17, <1>18, <1>19,
     <1>20, <1>21, <1>22, <1>23, <1>24, <1>25, <1>26, <1>27 DEF Next, Matcher, Drain

(* background is a number.                                                   *)
LEMMA BackgroundInt == SpineInv => background \in Int
BY DEF SpineInv, TypeOK

(* background stays a number.                                               *)
LEMMA BackgroundStep ==
    ASSUME SpineInv, Next
    PROVE  background' \in Int
<1>1. ASSUME NEW c \in Conns, Accept(c) PROVE background' \in Int
  BY <1>1, BackgroundInt DEF Accept, changes, matching, stop
<1>2. ASSUME NEW c \in Conns, Request(c) PROVE background' \in Int
  BY <1>2, BackgroundInt DEF Request, changes, matching, stop
<1>3. ASSUME NEW c \in Conns, Close(c) PROVE background' \in Int
  BY <1>3, BackgroundInt DEF Close, changes, matching, stop
<1>4. ASSUME NEW c \in Conns, Disconnect(c) PROVE background' \in Int
  BY <1>4, BackgroundInt DEF Disconnect, changes, matching, stop
<1>5. ASSUME NEW c \in Conns, HookBuffers(c) PROVE background' \in Int
  BY <1>5, BackgroundInt DEF HookBuffers, changes, matching, stop
<1>6. ASSUME NEW c \in Conns, Return(c) PROVE background' \in Int
  BY <1>6, BackgroundInt DEF Return, changes, matching, stop
<1>7. ASSUME NEW c \in Conns, Flush(c) PROVE background' \in Int
  BY <1>7, BackgroundInt DEF Flush, TrySend, changes, matching, stop
<1>8. ASSUME NEW c \in Conns, NEW t \in Tasks, SpawnFromRequest(c, t) PROVE background' \in Int
  BY <1>8, BackgroundInt DEF SpawnFromRequest, changes, matching, stop
<1>9. ASSUME NEW w \in Writers, Count(w) PROVE background' \in Int
  BY <1>9, BackgroundInt DEF Count, changes, matching, stop
<1>10. ASSUME NEW w \in Writers, NEW e \in Entities, Commit(w, e) PROVE background' \in Int
  BY <1>10, BackgroundInt DEF Commit, changes, matching, stop
<1>11. ASSUME NEW t \in Tasks, HookQueues(t) PROVE background' \in Int
  BY <1>11, BackgroundInt DEF HookQueues, TrySend, changes, matching, stop
<1>12. ASSUME NEW t \in Tasks, SpawnRetry(t) PROVE background' \in Int
  BY <1>12, BackgroundInt DEF SpawnRetry, changes, matching, stop
<1>13. ASSUME NEW t \in Tasks, TaskEnds(t) PROVE background' \in Int
  BY <1>13, BackgroundInt DEF TaskEnds, changes, matching, stop
<1>14. ASSUME NEW t \in Tasks, TaskPanics(t) PROVE background' \in Int
  BY <1>14, BackgroundInt DEF TaskPanics, changes, matching, stop
<1>15. ASSUME Receive PROVE background' \in Int
  BY <1>15, BackgroundInt DEF Receive, changes, matching, stop
<1>16. ASSUME Fold PROVE background' \in Int
  BY <1>16, BackgroundInt DEF Fold, changes, matching, stop
<1>17. ASSUME FoldEnds PROVE background' \in Int
  BY <1>17, BackgroundInt DEF FoldEnds, changes, matching, stop
<1>18. ASSUME Process PROVE background' \in Int
  BY <1>18, BackgroundInt DEF Process, changes, matching, stop
<1>19. ASSUME ProcessPanics PROVE background' \in Int
  BY <1>19, BackgroundInt DEF ProcessPanics, changes, matching, stop
<1>20. ASSUME Settle PROVE background' \in Int
  BY <1>20, BackgroundInt DEF Settle, changes, matching, stop
<1>21. ASSUME Sigterm PROVE background' \in Int
  BY <1>21, BackgroundInt DEF Sigterm, work, changes, matching, stop
<1>22. ASSUME CloseListener PROVE background' \in Int
  BY <1>22, BackgroundInt DEF CloseListener, work, changes, matching, stop
<1>23. ASSUME Deadline PROVE background' \in Int
  BY <1>23, BackgroundInt DEF Deadline, work, changes, matching, stop
<1>24. ASSUME ReadInflight PROVE background' \in Int
  BY <1>24, BackgroundInt DEF ReadInflight, ReadCounter, work, changes, matching, stop
<1>25. ASSUME ReadBackground PROVE background' \in Int
  BY <1>25, BackgroundInt DEF ReadBackground, ReadCounter, work, changes, matching, stop
<1>26. ASSUME ReadPending PROVE background' \in Int
  BY <1>26, BackgroundInt DEF ReadPending, ReadCounter, work, changes, matching, stop
<1>27. ASSUME Exit PROVE background' \in Int
  BY <1>27, BackgroundInt DEF Exit, work, changes, matching, stop
<1> QED BY <1>1, <1>2, <1>3, <1>4, <1>5, <1>6, <1>7, <1>8, <1>9, <1>10,
     <1>11, <1>12, <1>13, <1>14, <1>15, <1>16, <1>17, <1>18, <1>19,
     <1>20, <1>21, <1>22, <1>23, <1>24, <1>25, <1>26, <1>27 DEF Next, Matcher, Drain

(* The counters stay in range.                                              *)
LEMMA CounterStep ==
    ASSUME SpineInv, Next
    PROVE  CounterInv'
<1>1. Cardinality(ConnsOpen)' \in Nat
  <2>1. ConnsOpen' = Those(at', Open, Conns)
    BY DEF ConnsOpen, Those, Open
  <2> QED BY <2>1, CountIsNat, CountsAreNat
<1>2. /\ Cardinality(TasksLive)' \in Nat /\ Cardinality(TasksBegun)' \in Nat
      /\ Cardinality(TasksBegun)' <= Cardinality(Tasks)
  <2>1. TasksLive' = Those(at', Live, Tasks) /\ TasksBegun' = Those(at', Begun, Tasks)
    BY DEF TasksLive, TasksBegun, Those, Live, Begun
  <2> QED BY <2>1, CountIsNat, CountsAreNat
<1>3. inflight' \in 0..MaxConnections
  BY <1>1, ConnStep, CountersRestated, Constants
<1>4. background' \in 0..Cardinality(Tasks)
  <2>1. Cardinality(Tasks) \in Nat
    BY CountsAreNat, FS_CardinalityType
  <2> QED BY <1>2, <2>1, TaskStep, CountersRestated, BackgroundStep
<1>5. pending' \in 0..(UsizeMod - 1)
  <2>1. /\ Len(queue') \in Nat /\ Len(queue') <= QueueLimit
        /\ matcher'.taken \in Nat /\ matcher'.taken <= BatchLimit
    <3>1. ChangeInv'
      BY ChangeStep
    <3>2. Len(queue') \in Nat /\ Len(queue') <= QueueLimit
      BY <3>1, LengthZero DEF ChangeInv
    <3>3. matcher'.taken \in Nat /\ matcher'.taken <= BatchLimit
      BY <3>1, Constants DEF ChangeInv
    <3> QED BY <3>2, <3>3
  <2>2. /\ Cardinality(NotCounted)' \in Nat
        /\ Cardinality(NotCounted)' <= Cardinality(Writers)
    <3>1. NotCounted' = Those(at', Late, Writers)
      BY DEF NotCounted, Those, Late
    <3> QED BY <3>1, CountIsNat, CountsAreNat
  <2> DEFINE n == Len(queue') + matcher'.taken - Cardinality(NotCounted)'
  <2>3. n \in Int /\ n + UsizeMod > 0 /\ n < UsizeMod
    BY <2>1, <2>2, SmallSum
  <2>4. pending' = Wrap(n)
    BY PendingStep, CountersRestated
  <2>5. Wrap(n) \in 0..(UsizeMod - 1)
    BY <2>3, WrapAgain
  <2> QED BY <2>4, <2>5
<1> QED BY <1>3, <1>4, <1>5 DEF CounterInv

(* A step that changes nothing keeps the invariant.                         *)
LEMMA Stutter ==
    ASSUME SpineInv, UNCHANGED vars
    PROVE  SpineInv'
<1> USE DEF vars
<1>1. TypeOK'
  BY DEF SpineInv, TypeOK, Ids
<1>2. ConnInv' /\ TaskInv' /\ PendingInv'
  <2>1. /\ ConnsOpen' = ConnsOpen /\ TasksLive' = TasksLive
        /\ TasksBegun' = TasksBegun /\ NotCounted' = NotCounted
    BY DEF ConnsOpen, TasksLive, TasksBegun, NotCounted, Those
  <2> QED BY <2>1, CountersRestated DEF SpineInv
<1>3. BatchInv' /\ OrderInv'
  BY DEF SpineInv, BatchInv, OrderInv
<1>4. DrainInv' /\ DrainLeavesNothing'
  BY DEF SpineInv, DrainInv, DrainLeavesNothing
<1> QED BY <1>1, <1>2, <1>3, <1>4 DEF SpineInv

(* The process starts with nothing under way.                                *)
LEMMA Initially == Init => SpineInv
<1> SUFFICES ASSUME Init PROVE SpineInv
  OBVIOUS
<1>1. /\ ConnsOpen = {} /\ TasksLive = {} /\ TasksBegun = {} /\ NotCounted = {}
  BY Constants DEF Init, ConnsOpen, TasksLive, TasksBegun, NotCounted, Those, Open,
     Live, Begun, Late
<1>2. /\ Cardinality(ConnsOpen) = 0 /\ Cardinality(TasksLive) = 0
      /\ Cardinality(TasksBegun) = 0 /\ Cardinality(NotCounted) = 0
  BY <1>1, FS_EmptySet
<1>3. StageInv
  BY Constants DEF Init, StageInv, ConnStages, TaskStages
<1>4. Len(log) = 0 /\ Len(queue) = 0
  BY DEF Init
<1>5. ChangeInv
  <2>1. 0 \in 0..Len(log) /\ 0 \in 0..BatchLimit
    BY <1>4, Constants
  <2>2. log \in Seq(Entities) /\ queue \in Seq(Seq(Ids)) /\ processed \in Seq(Ids)
    BY EmptySeq DEF Init
  <2>3. /\ held \in [Writers -> 0..Len(log)] /\ buf \in [Conns -> Seq(Ids)]
        /\ lost \in [Reasons -> SUBSET Ids]
    BY <2>1, EmptySeq DEF Init
  <2>4. matcher \in [pc : {"receiving", "folding", "processing", "settling"},
                     batch : Seq(Ids), taken : 0..BatchLimit]
    BY <2>1, EmptySeq DEF Init
  <2>5. Len(log) <= MaxChanges /\ Len(queue) <= QueueLimit
    BY <1>4, Constants
  <2> QED BY <2>2, <2>3, <2>4, <2>5 DEF ChangeInv
<1>6. CounterInv
  <2>1. Cardinality(Tasks) \in Nat
    BY CountsAreNat, FS_CardinalityType
  <2> QED BY <2>1, Constants, CountsAreNat DEF Init, CounterInv
<1>7. PhaseInv
  BY DEF Init, PhaseInv
<1>8. ConnInv /\ TaskInv
  BY <1>2, Constants, CountersRestated DEF Init
<1>9. PendingInv
  <2>1. pending = 0 /\ matcher.taken = 0
    BY DEF Init
  <2>2. Wrap(0) = 0
    BY Constants, CountsAreNat DEF Wrap
  <2> QED BY <1>2, <1>4, <2>1, <2>2, CountersRestated
<1>10. BatchInv /\ OrderInv /\ DrainInv /\ DrainLeavesNothing
  BY <1>4 DEF Init, BatchInv, OrderInv, DrainInv, DrainLeavesNothing
<1> QED BY <1>3, <1>5, <1>6, <1>7, <1>8, <1>9, <1>10, TypeParts DEF SpineInv

-----------------------------------------------------------------------------
(* Where a change is.  Six parts of the path can have it, and each has it   *)
(* nowhere or in one spot; OnePlace says that one part has it once and the  *)
(* others do not.                                                           *)

Once(s, i) == \E k \in DOMAIN s : s[k] = i /\ \A j \in DOMAIN s : s[j] = i => j = k

NoHook(i)   == \A w \in Writers : held[w] # i
OneHook(i)  == \E w \in Writers : held[w] = i /\ \A v \in Writers : held[v] = i => v = w
NoBuffer(i) == \A c \in Conns : i \notin Elems(buf[c])
OneBuffer(i) ==
    \E c \in Conns : Once(buf[c], i) /\ \A d \in Conns \ {c} : i \notin Elems(buf[d])
NoQueue(i)  == \A n \in DOMAIN queue : i \notin Elems(queue[n])
OneQueue(i) ==
    \E n \in DOMAIN queue :
        Once(queue[n], i) /\ \A m \in DOMAIN queue \ {n} : i \notin Elems(queue[m])
NoLoss(i)   == \A r \in Reasons : i \notin lost[r]
OneLoss(i)  == \E r \in Reasons : i \in lost[r] /\ \A q \in Reasons \ {r} : i \notin lost[q]
NoBatch(i)  == i \notin Elems(matcher.batch)
OneBatch(i) == Once(matcher.batch, i)
NotDone(i)  == i \notin Elems(processed)
DoneOnce(i) == Once(processed, i)

OnePlace(i) ==
    \/ OneHook(i) /\ NoBuffer(i) /\ NoQueue(i) /\ NoBatch(i) /\ NotDone(i) /\ NoLoss(i)
    \/ NoHook(i) /\ OneBuffer(i) /\ NoQueue(i) /\ NoBatch(i) /\ NotDone(i) /\ NoLoss(i)
    \/ NoHook(i) /\ NoBuffer(i) /\ OneQueue(i) /\ NoBatch(i) /\ NotDone(i) /\ NoLoss(i)
    \/ NoHook(i) /\ NoBuffer(i) /\ NoQueue(i) /\ OneBatch(i) /\ NotDone(i) /\ NoLoss(i)
    \/ NoHook(i) /\ NoBuffer(i) /\ NoQueue(i) /\ NoBatch(i) /\ DoneOnce(i) /\ NoLoss(i)
    \/ NoHook(i) /\ NoBuffer(i) /\ NoQueue(i) /\ NoBatch(i) /\ NotDone(i) /\ OneLoss(i)

PlaceInv ==
    /\ \A i \in Ids : OnePlace(i)
    /\ matcher.pc \in {"receiving", "settling"} => matcher.batch = <<>>

(* A change that is in one place has one place.                              *)
LEMMA OnePlaceCounts ==
    ASSUME NEW i, OnePlace(i)
    PROVE  Cardinality(Places(i)) = 1
<1>1. SUFFICES \E p : Places(i) = {p}
  <2>1. ASSUME NEW p, Places(i) = {p} PROVE Cardinality(Places(i)) = 1
    BY <2>1, FS_Singleton
  <2> QED BY <2>1
<1>2. /\ OneHook(i) => \E w : {v \in Writers : held[v] = i} = {w}
      /\ NoHook(i) => {v \in Writers : held[v] = i} = {}
  BY DEF OneHook, NoHook
<1>3. /\ OneLoss(i) => \E r : {s \in Reasons : i \in lost[s]} = {r}
      /\ NoLoss(i) => {s \in Reasons : i \in lost[s]} = {}
  BY DEF OneLoss, NoLoss
<1>4. ASSUME NEW s
      PROVE  /\ Once(s, i) => \E k : {j \in DOMAIN s : s[j] = i} = {k}
             /\ i \notin Elems(s) => {j \in DOMAIN s : s[j] = i} = {}
  BY DEF Once, Elems
<1> DEFINE H == {<<"hook", w>> : w \in {v \in Writers : held[v] = i}}
           B == UNION {{<<"buffer", c, k>> : k \in {j \in DOMAIN buf[c] : buf[c][j] = i}}
                       : c \in Conns}
           Q == UNION {{<<"queue", n, k>> : k \in {j \in DOMAIN queue[n] : queue[n][j] = i}}
                       : n \in DOMAIN queue}
           T == {<<"batch", k>> : k \in {j \in DOMAIN matcher.batch : matcher.batch[j] = i}}
           D == {<<"done", k>> : k \in {j \in DOMAIN processed : processed[j] = i}}
           L == {<<"lost", r>> : r \in {s \in Reasons : i \in lost[s]}}
<1>5. Places(i) = H \cup B \cup Q \cup T \cup D \cup L
  BY Zenon DEF Places
<1>6. (OneHook(i) => \E p : H = {p}) /\ (NoHook(i) => H = {})
  <2>1. ASSUME OneHook(i) PROVE \E p : H = {p}
    <3>1. PICK w : {v \in Writers : held[v] = i} = {w}
      BY <1>2, <2>1
    <3>2. H = {<<"hook", w>>}
      BY <3>1
    <3> QED BY <3>2
  <2>2. NoHook(i) => H = {}
    BY <1>2
  <2> QED BY <2>1, <2>2
<1>7. NoBuffer(i) => B = {}
  BY <1>4 DEF NoBuffer
<1>8. OneBuffer(i) => \E p : B = {p}
  <2> SUFFICES ASSUME NEW c \in Conns, Once(buf[c], i),
                      \A d \in Conns \ {c} : i \notin Elems(buf[d])
               PROVE  \E p : B = {p}
    BY DEF OneBuffer
  <2>1. PICK k : {j \in DOMAIN buf[c] : buf[c][j] = i} = {k}
    BY <1>4
  <2>2. \A d \in Conns \ {c} : {j \in DOMAIN buf[d] : buf[d][j] = i} = {}
    BY <1>4
  <2>3. B = {<<"buffer", c, k>>}
    BY <2>1, <2>2
  <2> QED BY <2>3
<1>9. NoQueue(i) => Q = {}
  BY <1>4 DEF NoQueue
<1>10. OneQueue(i) => \E p : Q = {p}
  <2> SUFFICES ASSUME NEW n \in DOMAIN queue, Once(queue[n], i),
                      \A m \in DOMAIN queue \ {n} : i \notin Elems(queue[m])
               PROVE  \E p : Q = {p}
    BY DEF OneQueue
  <2>1. PICK k : {j \in DOMAIN queue[n] : queue[n][j] = i} = {k}
    BY <1>4
  <2>2. \A m \in DOMAIN queue \ {n} : {j \in DOMAIN queue[m] : queue[m][j] = i} = {}
    BY <1>4
  <2>3. Q = {<<"queue", n, k>>}
    BY <2>1, <2>2
  <2> QED BY <2>3
<1>11. (OneBatch(i) => \E p : T = {p}) /\ (NoBatch(i) => T = {})
  <2>1. /\ OneBatch(i) => \E k : {j \in DOMAIN matcher.batch : matcher.batch[j] = i} = {k}
        /\ NoBatch(i) => {j \in DOMAIN matcher.batch : matcher.batch[j] = i} = {}
    BY DEF OneBatch, NoBatch, Once, Elems
  <2>2. ASSUME OneBatch(i) PROVE \E p : T = {p}
    <3>1. PICK k : {j \in DOMAIN matcher.batch : matcher.batch[j] = i} = {k}
      BY <2>1, <2>2
    <3>2. T = {<<"batch", k>>}
      BY <3>1
    <3> QED BY <3>2
  <2> QED BY <2>1, <2>2
<1>12. (DoneOnce(i) => \E p : D = {p}) /\ (NotDone(i) => D = {})
  <2>1. /\ DoneOnce(i) => \E k : {j \in DOMAIN processed : processed[j] = i} = {k}
        /\ NotDone(i) => {j \in DOMAIN processed : processed[j] = i} = {}
    BY DEF DoneOnce, NotDone, Once, Elems
  <2>2. ASSUME DoneOnce(i) PROVE \E p : D = {p}
    <3>1. PICK k : {j \in DOMAIN processed : processed[j] = i} = {k}
      BY <2>1, <2>2
    <3>2. D = {<<"done", k>>}
      BY <3>1
    <3> QED BY <3>2
  <2> QED BY <2>1, <2>2
<1>13. (OneLoss(i) => \E p : L = {p}) /\ (NoLoss(i) => L = {})
  <2>1. ASSUME OneLoss(i) PROVE \E p : L = {p}
    <3>1. PICK r : {s \in Reasons : i \in lost[s]} = {r}
      BY <1>3, <2>1
    <3>2. L = {<<"lost", r>>}
      BY <3>1
    <3> QED BY <3>2
  <2>2. NoLoss(i) => L = {}
    BY <1>3
  <2> QED BY <2>1, <2>2
<1> HIDE DEF H, B, Q, T, D, L
<1> QED BY <1>5, <1>6, <1>7, <1>8, <1>9, <1>10, <1>11, <1>12, <1>13 DEF OnePlace

(* Appending and concatenating move nothing that was there, and add what is *)
(* new behind it.                                                           *)
LEMMA OnceIsElem == ASSUME NEW s, NEW i PROVE Once(s, i) => i \in Elems(s)
BY DEF Once, Elems

LEMMA OnceAppended ==
    ASSUME NEW S, NEW s \in Seq(S), NEW e \in S, NEW i
    PROVE  /\ i \in Elems(Append(s, e)) <=> i \in Elems(s) \/ i = e
           /\ i # e /\ Once(s, i) => Once(Append(s, e), i)
           /\ i \notin Elems(s) /\ i = e => Once(Append(s, e), i)
<1> DEFINE t == Append(s, e)
<1>1. /\ DOMAIN s = 1..Len(s) /\ DOMAIN t = 1..(Len(s) + 1) /\ Len(s) \in Nat
      /\ \A k \in 1..Len(s) : t[k] = s[k]
      /\ t[Len(s) + 1] = e
  OBVIOUS
<1> HIDE DEF t
<1>2. \A k \in DOMAIN t : k = Len(s) + 1 \/ k \in DOMAIN s
  BY <1>1
<1>3. \A k \in DOMAIN s : k \in DOMAIN t /\ t[k] = s[k] /\ k # Len(s) + 1
  BY <1>1
<1>4. Len(s) + 1 \in DOMAIN t
  BY <1>1
<1>5. i \in Elems(t) <=> i \in Elems(s) \/ i = e
  BY <1>1, <1>2, <1>3, <1>4 DEF Elems
<1>6. i # e /\ Once(s, i) => Once(t, i)
  BY <1>1, <1>2, <1>3 DEF Once
<1>7. i \notin Elems(s) /\ i = e => Once(t, i)
  BY <1>1, <1>2, <1>3, <1>4 DEF Once, Elems
<1> QED BY <1>5, <1>6, <1>7 DEF t

LEMMA OnceJoined ==
    ASSUME NEW S, NEW s \in Seq(S), NEW r \in Seq(S), NEW i
    PROVE  /\ i \in Elems(s \o r) <=> i \in Elems(s) \/ i \in Elems(r)
           /\ Once(s, i) /\ i \notin Elems(r) => Once(s \o r, i)
           /\ i \notin Elems(s) /\ Once(r, i) => Once(s \o r, i)
<1> DEFINE t == s \o r
<1>1. /\ DOMAIN s = 1..Len(s) /\ DOMAIN r = 1..Len(r) /\ DOMAIN t = 1..(Len(s) + Len(r))
      /\ Len(s) \in Nat /\ Len(r) \in Nat
      /\ \A k \in 1..Len(s) : t[k] = s[k]
      /\ \A k \in 1..Len(r) : t[Len(s) + k] = r[k]
  OBVIOUS
<1> HIDE DEF t
<1>2. \A k \in DOMAIN t : k \in DOMAIN s \/ (k - Len(s) \in DOMAIN r /\ t[k] = r[k - Len(s)])
  <2> TAKE k \in DOMAIN t
  <2>1. CASE k <= Len(s)
    BY <1>1, <2>1
  <2>2. CASE ~(k <= Len(s))
    <3>1. k - Len(s) \in 1..Len(r) /\ Len(s) + (k - Len(s)) = k
      BY <1>1, <2>2
    <3> QED BY <1>1, <3>1
  <2> QED BY <2>1, <2>2
<1>3. \A k \in DOMAIN s : k \in DOMAIN t /\ t[k] = s[k]
  BY <1>1
<1>4. \A k \in DOMAIN r : Len(s) + k \in DOMAIN t /\ t[Len(s) + k] = r[k]
  BY <1>1
<1>5. i \in Elems(t) <=> i \in Elems(s) \/ i \in Elems(r)
  BY <1>2, <1>3, <1>4 DEF Elems
<1>6. Once(s, i) /\ i \notin Elems(r) => Once(t, i)
  BY <1>2, <1>3 DEF Once, Elems
<1>7. i \notin Elems(s) /\ Once(r, i) => Once(t, i)
  <2> SUFFICES ASSUME i \notin Elems(s), NEW k \in DOMAIN r, r[k] = i,
                      \A j \in DOMAIN r : r[j] = i => j = k
               PROVE  Once(t, i)
    BY DEF Once
  <2>1. \A j \in DOMAIN t : t[j] = i => j = Len(s) + k
    <3> SUFFICES ASSUME NEW j \in DOMAIN t, t[j] = i PROVE j = Len(s) + k
      OBVIOUS
    <3>1. j \notin DOMAIN s
      BY <1>3 DEF Elems
    <3>2. j - Len(s) \in DOMAIN r /\ r[j - Len(s)] = i
      BY <1>2, <3>1
    <3>3. j - Len(s) = k
      BY <3>2
    <3> QED BY <1>1, <3>3
  <2> QED BY <1>4, <2>1 DEF Once
<1> QED BY <1>5, <1>6, <1>7 DEF t

(* A buffer queued behind the others brings its changes and no others.       *)
LEMMA QueueAppended ==
    ASSUME NEW S, queue \in Seq(Seq(S)), NEW ids \in Seq(S), NEW i,
           queue' = Append(queue, ids)
    PROVE  /\ i \notin Elems(ids) => /\ NoQueue(i) => NoQueue(i)'
                                     /\ OneQueue(i) => OneQueue(i)'
           /\ NoQueue(i) /\ Once(ids, i) => OneQueue(i)'
<1>1. /\ DOMAIN queue = 1..Len(queue) /\ DOMAIN queue' = 1..(Len(queue) + 1)
      /\ Len(queue) \in Nat
      /\ \A n \in 1..Len(queue) : queue'[n] = queue[n]
      /\ queue'[Len(queue) + 1] = ids
  OBVIOUS
<1>2. \A n \in DOMAIN queue' : n = Len(queue) + 1 \/ n \in DOMAIN queue
  BY <1>1
<1>3. \A n \in DOMAIN queue : n \in DOMAIN queue' /\ queue'[n] = queue[n] /\ n # Len(queue) + 1
  BY <1>1
<1>4. Len(queue) + 1 \in DOMAIN queue' /\ queue'[Len(queue) + 1] = ids
  BY <1>1
<1>5. i \notin Elems(ids) /\ NoQueue(i) => NoQueue(i)'
  BY <1>2, <1>3, <1>4 DEF NoQueue, Elems
<1>6. i \notin Elems(ids) /\ OneQueue(i) => OneQueue(i)'
  <2> SUFFICES ASSUME i \notin Elems(ids), NEW n \in DOMAIN queue, Once(queue[n], i),
                      \A m \in DOMAIN queue \ {n} : i \notin Elems(queue[m])
               PROVE  OneQueue(i)'
    BY DEF OneQueue
  <2>1. n \in DOMAIN queue' /\ Once(queue'[n], i)
    BY <1>3
  <2>2. \A m \in DOMAIN queue' \ {n} : i \notin Elems(queue'[m])
    BY <1>2, <1>3, <1>4
  <2> QED BY <2>1, <2>2 DEF OneQueue, Once, Elems
<1>7. NoQueue(i) /\ Once(ids, i) => OneQueue(i)'
  BY <1>2, <1>3, <1>4 DEF NoQueue, OneQueue, Once, Elems
<1> QED BY <1>5, <1>6, <1>7

(* The matcher takes the first buffer with its changes and leaves the others. *)
LEMMA QueueTaken ==
    ASSUME NEW S, queue \in Seq(Seq(S)), queue # <<>>, queue' = Tail(queue), NEW i
    PROVE  /\ NoQueue(i) => i \notin Elems(Head(queue)) /\ NoQueue(i)'
           /\ OneQueue(i) => \/ Once(Head(queue), i) /\ NoQueue(i)'
                             \/ i \notin Elems(Head(queue)) /\ OneQueue(i)'
<1>1. /\ DOMAIN queue = 1..Len(queue) /\ DOMAIN queue' = 1..(Len(queue) - 1)
      /\ Len(queue) \in Nat /\ Len(queue) > 0 /\ Head(queue) = queue[1]
      /\ \A n \in 1..(Len(queue) - 1) : queue'[n] = queue[n + 1]
  BY EmptySeq
<1>2. \A n \in DOMAIN queue' : n + 1 \in DOMAIN queue /\ queue'[n] = queue[n + 1] /\ n + 1 # 1
  BY <1>1
<1>3. \A n \in DOMAIN queue : n # 1 => n - 1 \in DOMAIN queue' /\ queue'[n - 1] = queue[n]
  <2> SUFFICES ASSUME NEW n \in DOMAIN queue, n # 1
               PROVE  n - 1 \in DOMAIN queue' /\ queue'[n - 1] = queue[n]
    OBVIOUS
  <2>1. n - 1 \in 1..(Len(queue) - 1) /\ (n - 1) + 1 = n
    BY <1>1
  <2> QED BY <1>1, <2>1
<1>4. 1 \in DOMAIN queue /\ Head(queue) = queue[1]
  BY <1>1
<1>5. NoQueue(i) => i \notin Elems(Head(queue)) /\ NoQueue(i)'
  BY <1>2, <1>4 DEF NoQueue
<1>6. ASSUME NEW n \in DOMAIN queue, Once(queue[n], i),
             \A m \in DOMAIN queue \ {n} : i \notin Elems(queue[m])
      PROVE  \/ Once(Head(queue), i) /\ NoQueue(i)'
             \/ i \notin Elems(Head(queue)) /\ OneQueue(i)'
  <2>1. CASE n = 1
    BY <1>2, <1>4, <1>6, <2>1 DEF NoQueue
  <2>2. CASE n # 1
    <3>1. i \notin Elems(Head(queue))
      BY <1>4, <1>6, <2>2
    <3>2. n - 1 \in DOMAIN queue' /\ queue'[n - 1] = queue[n]
      BY <1>3, <2>2
    <3>3. \A m \in DOMAIN queue' \ {n - 1} : i \notin Elems(queue'[m])
      <4> SUFFICES ASSUME NEW m \in DOMAIN queue', m # n - 1 PROVE i \notin Elems(queue'[m])
        OBVIOUS
      <4>1. m + 1 \in DOMAIN queue /\ queue'[m] = queue[m + 1]
        BY <1>2
      <4>2. m + 1 # n
        BY <1>1
      <4> QED BY <1>6, <4>1, <4>2
    <3>4. Once(queue'[n - 1], i)
      BY <1>6, <3>2
    <3>5. OneQueue(i)'
      BY <3>2, <3>3, <3>4 DEF OneQueue
    <3> QED BY <3>1, <3>5
  <2> QED BY <2>1, <2>2
<1>7. OneQueue(i) => \/ Once(Head(queue), i) /\ NoQueue(i)'
                     \/ i \notin Elems(Head(queue)) /\ OneQueue(i)'
  BY <1>6 DEF OneQueue
<1> QED BY <1>5, <1>7

(* A loss has one reason.                                                    *)
LEMMA LossAdded ==
    ASSUME lost \in [Reasons -> SUBSET Ids], NEW r \in Reasons, NEW ids, Lose(r, ids), NEW i
    PROVE  /\ i \notin ids => /\ NoLoss(i) => NoLoss(i)'
                              /\ OneLoss(i) => OneLoss(i)'
           /\ i \in ids /\ NoLoss(i) => OneLoss(i)'
BY DEF Lose, NoLoss, OneLoss

(* A request's buffer is emptied.                                            *)
LEMMA BufferEmptied ==
    ASSUME buf \in [Conns -> Seq(Ids)], NEW c \in Conns, buf' = [buf EXCEPT ![c] = <<>>], NEW i
    PROVE  /\ NoBuffer(i) => i \notin Elems(buf[c]) /\ NoBuffer(i)'
           /\ OneBuffer(i) => \/ Once(buf[c], i) /\ NoBuffer(i)'
                              \/ i \notin Elems(buf[c]) /\ OneBuffer(i)'
<1>1. Elems(<<>>) = {}
  BY DEF Elems
<1>2. \A d \in Conns : buf'[d] = IF d = c THEN <<>> ELSE buf[d]
  OBVIOUS
<1>3. NoBuffer(i) => i \notin Elems(buf[c]) /\ NoBuffer(i)'
  BY <1>1, <1>2 DEF NoBuffer
<1>4. ASSUME NEW d \in Conns, Once(buf[d], i), \A e \in Conns \ {d} : i \notin Elems(buf[e])
      PROVE  \/ Once(buf[c], i) /\ NoBuffer(i)'
             \/ i \notin Elems(buf[c]) /\ OneBuffer(i)'
  <2>1. CASE d = c
    BY <1>1, <1>2, <1>4, <2>1 DEF NoBuffer
  <2>2. CASE d # c
    <3>1. i \notin Elems(buf[c]) /\ buf'[d] = buf[d]
      BY <1>2, <1>4, <2>2
    <3>2. \A e \in Conns \ {d} : i \notin Elems(buf'[e])
      BY <1>1, <1>2, <1>4
    <3>3. Once(buf'[d], i)
      BY <1>4, <3>1
    <3> QED BY <3>1, <3>2, <3>3 DEF OneBuffer
  <2> QED BY <2>1, <2>2
<1>5. OneBuffer(i) => \/ Once(buf[c], i) /\ NoBuffer(i)'
                      \/ i \notin Elems(buf[c]) /\ OneBuffer(i)'
  BY <1>4 DEF OneBuffer
<1> QED BY <1>3, <1>5

(* A hook ends.                                                              *)
LEMMA HookCleared ==
    ASSUME NEW n \in Nat, held \in [Writers -> 0..n], NEW w \in Writers,
           held' = [held EXCEPT ![w] = 0], NEW i \in Nat, i # 0
    PROVE  /\ i # held[w] => /\ NoHook(i) => NoHook(i)'
                             /\ OneHook(i) => OneHook(i)'
           /\ i = held[w] => ~NoHook(i) /\ (OneHook(i) => NoHook(i)')
<1>1. \A v \in Writers : held'[v] = IF v = w THEN 0 ELSE held[v]
  OBVIOUS
<1> QED BY <1>1 DEF NoHook, OneHook

(* A part of the path that a step leaves alone has what it had.              *)
LEMMA PartKept ==
    ASSUME NEW i
    PROVE  /\ UNCHANGED held => (NoHook(i)' <=> NoHook(i)) /\ (OneHook(i)' <=> OneHook(i))
           /\ UNCHANGED buf => (NoBuffer(i)' <=> NoBuffer(i)) /\ (OneBuffer(i)' <=> OneBuffer(i))
           /\ UNCHANGED queue => (NoQueue(i)' <=> NoQueue(i)) /\ (OneQueue(i)' <=> OneQueue(i))
           /\ UNCHANGED matcher => (NoBatch(i)' <=> NoBatch(i)) /\ (OneBatch(i)' <=> OneBatch(i))
           /\ UNCHANGED processed => (NotDone(i)' <=> NotDone(i)) /\ (DoneOnce(i)' <=> DoneOnce(i))
           /\ UNCHANGED lost => (NoLoss(i)' <=> NoLoss(i)) /\ (OneLoss(i)' <=> OneLoss(i))
<1>1. UNCHANGED held => (NoHook(i)' <=> NoHook(i)) /\ (OneHook(i)' <=> OneHook(i))
  BY DEF NoHook, OneHook
<1>2. UNCHANGED buf => (NoBuffer(i)' <=> NoBuffer(i)) /\ (OneBuffer(i)' <=> OneBuffer(i))
  BY DEF NoBuffer, OneBuffer
<1>3. UNCHANGED queue => (NoQueue(i)' <=> NoQueue(i)) /\ (OneQueue(i)' <=> OneQueue(i))
  BY DEF NoQueue, OneQueue
<1>4. UNCHANGED matcher => (NoBatch(i)' <=> NoBatch(i)) /\ (OneBatch(i)' <=> OneBatch(i))
  BY DEF NoBatch, OneBatch
<1>5. UNCHANGED processed => (NotDone(i)' <=> NotDone(i)) /\ (DoneOnce(i)' <=> DoneOnce(i))
  BY DEF NotDone, DoneOnce
<1>6. UNCHANGED lost => (NoLoss(i)' <=> NoLoss(i)) /\ (OneLoss(i)' <=> OneLoss(i))
  BY DEF NoLoss, OneLoss
<1> QED BY <1>1, <1>2, <1>3, <1>4, <1>5, <1>6

(* queue_for_matching moves a whole buffer, onto the queue or out of it.     *)
LEMMA TrySendMoves ==
    ASSUME queue \in Seq(Seq(Ids)), lost \in [Reasons -> SUBSET Ids],
           NEW w, NEW ids \in Seq(Ids), NEW otherwise, TrySend(w, ids, otherwise), NEW i
    PROVE  /\ i \notin Elems(ids) => /\ NoQueue(i) => NoQueue(i)'
                                     /\ OneQueue(i) => OneQueue(i)'
                                     /\ NoLoss(i) => NoLoss(i)'
                                     /\ OneLoss(i) => OneLoss(i)'
           /\ NoQueue(i) /\ NoLoss(i) /\ Once(ids, i) => \/ OneQueue(i)' /\ NoLoss(i)'
                                                         \/ NoQueue(i)' /\ OneLoss(i)'
<1>1. CASE Len(queue) < QueueLimit
  <2>1. queue' = Append(queue, ids) /\ UNCHANGED lost
    BY <1>1 DEF TrySend
  <2> QED BY <2>1, QueueAppended, PartKept
<1>2. CASE ~(Len(queue) < QueueLimit)
  <2>1. UNCHANGED queue /\ Lose("queue full", Elems(ids)) /\ "queue full" \in Reasons
    BY <1>2 DEF TrySend, Reasons
  <2> QED BY <2>1, LossAdded, PartKept, OnceIsElem
<1> QED BY <1>1, <1>2

(* Every step leaves every change in one place.                              *)
LEMMA PlaceStep ==
    ASSUME SpineInv, PlaceInv, Next
    PROVE  PlaceInv'
<1>1. /\ log \in Seq(Entities) /\ Len(log) \in Nat /\ Ids = 1..Len(log)
      /\ held \in [Writers -> 0..Len(log)] /\ buf \in [Conns -> Seq(Ids)]
      /\ queue \in Seq(Seq(Ids)) /\ processed \in Seq(Ids)
      /\ lost \in [Reasons -> SUBSET Ids] /\ matcher.batch \in Seq(Ids)
      /\ \A i \in Ids : i \in Nat /\ i # 0
  <2>1. ChangeInv
    BY TypeParts DEF SpineInv
  <2> QED BY <2>1 DEF ChangeInv, Ids
<1>2. matcher \in [pc : {"receiving", "folding", "processing", "settling"},
                   batch : Seq(Ids), taken : 0..BatchLimit]
  BY TypeParts DEF SpineInv, ChangeInv
<1>3. {"queue full", "matcher panicked", "client gone"} \subseteq Reasons
  BY DEF Reasons
<1>4. \A w \in Writers : held[w] # 0 <=> at[w] = "emitting"
  BY DEF SpineInv, OrderInv
<1>5. ASSUME UNCHANGED log, \A i \in Ids : OnePlace(i)',
             matcher'.pc \in {"receiving", "settling"} => matcher'.batch = <<>>
      PROVE  PlaceInv'
  BY <1>5 DEF PlaceInv, Ids
(* A step that moves no change.                                              *)
<1>6. ASSUME UNCHANGED <<log, held, buf, queue, processed, lost>>,
             matcher'.batch = matcher.batch,
             matcher'.pc \in {"receiving", "settling"} => matcher.pc \in {"receiving", "settling"}
      PROVE  PlaceInv'
  <2>1. ASSUME NEW i \in Ids PROVE OnePlace(i)'
    <3>1. OnePlace(i)
      BY DEF PlaceInv
    <3>2. (NoBatch(i)' <=> NoBatch(i)) /\ (OneBatch(i)' <=> OneBatch(i))
      BY <1>6 DEF NoBatch, OneBatch
    <3> QED BY <1>6, <3>1, <3>2, PartKept DEF OnePlace
  <2> QED BY <1>5, <1>6, <2>1 DEF PlaceInv
<1>7. ASSUME NEW w \in Writers, NEW e \in Entities, Commit(w, e)
      PROVE  PlaceInv'
  <2>1. /\ Ids' = Ids \cup {Len(log) + 1} /\ held[w] = 0
        /\ held' = [held EXCEPT ![w] = Len(log) + 1]
    <3>1. Len(log') = Len(log) + 1
      BY <1>1, <1>7 DEF Commit
    <3>2. held[w] = 0
      BY <1>4, <1>7 DEF Commit
    <3> QED BY <1>1, <1>7, <3>1, <3>2 DEF Commit, Ids
  <2>2. UNCHANGED <<buf, queue, matcher, processed, lost>>
    BY <1>7 DEF Commit, matching
  <2>3. \A v \in Writers : held'[v] = IF v = w THEN Len(log) + 1 ELSE held[v]
    BY <1>1, <2>1
  <2>4. ASSUME NEW i \in Ids PROVE OnePlace(i)'
    <3>1. i # Len(log) + 1 /\ i # 0
      BY <1>1
    <3>2. (NoHook(i) => NoHook(i)') /\ (OneHook(i) => OneHook(i)')
      BY <2>1, <2>3, <3>1 DEF NoHook, OneHook
    <3>3. OnePlace(i)
      BY DEF PlaceInv
    <3> QED BY <2>2, <3>2, <3>3, PartKept DEF OnePlace
  <2> PICK n : n = Len(log) + 1
    OBVIOUS
  <2>5. OnePlace(n)'
    <3>1. n \notin Ids /\ \A v \in Writers : held[v] # n
      BY <1>1
    <3>2. \A s \in Seq(Ids) : n \notin Elems(s)
      BY <3>1, ElemsType
    <3>3. \A k \in DOMAIN queue : queue[k] \in Seq(Ids)
      BY <1>1
    <3>4. NoBuffer(n)' /\ NoQueue(n)' /\ NoBatch(n)' /\ NotDone(n)' /\ NoLoss(n)'
      BY <1>1, <2>2, <3>1, <3>2, <3>3 DEF NoBuffer, NoQueue, NoBatch, NotDone, NoLoss
    <3>5. OneHook(n)'
      BY <2>3, <3>1 DEF OneHook
    <3> QED BY <3>4, <3>5 DEF OnePlace
  <2>6. matcher'.pc \in {"receiving", "settling"} => matcher'.batch = <<>>
    BY <2>2 DEF PlaceInv
  <2>7. \A i \in Ids' : OnePlace(i)'
    BY <2>1, <2>4, <2>5
  <2> QED BY <2>6, <2>7 DEF PlaceInv
(* The hook puts its change in the request's buffer.                         *)
<1>8. ASSUME NEW c \in Conns, HookBuffers(c)
      PROVE  PlaceInv'
  <2>1. c \in Writers /\ held[c] # 0 /\ held[c] \in Ids
    BY <1>1, <1>4, <1>8, Constants DEF HookBuffers
  <2>2. /\ held' = [held EXCEPT ![c] = 0]
        /\ \A d \in Conns : buf'[d] = IF d = c THEN Append(buf[c], held[c]) ELSE buf[d]
        /\ UNCHANGED <<log, queue, matcher, processed, lost>>
    BY <1>1, <1>8 DEF HookBuffers, matching
  <2>3. ASSUME NEW i \in Ids PROVE OnePlace(i)'
    <3>1. OnePlace(i)
      BY DEF PlaceInv
    <3>2. /\ i # held[c] => (NoHook(i) => NoHook(i)') /\ (OneHook(i) => OneHook(i)')
          /\ i = held[c] => ~NoHook(i) /\ (OneHook(i) => NoHook(i)')
      BY <1>1, <2>1, <2>2, HookCleared
    <3>3. /\ i \in Elems(buf'[c]) <=> i \in Elems(buf[c]) \/ i = held[c]
          /\ i # held[c] /\ Once(buf[c], i) => Once(buf'[c], i)
          /\ i \notin Elems(buf[c]) /\ i = held[c] => Once(buf'[c], i)
      <4>1. buf'[c] = Append(buf[c], held[c]) /\ buf[c] \in Seq(Ids) /\ held[c] \in Ids
        BY <1>1, <2>1, <2>2
      <4> QED BY <4>1, OnceAppended
    <3>4. i # held[c] => (NoBuffer(i) => NoBuffer(i)') /\ (OneBuffer(i) => OneBuffer(i)')
      <4>1. i # held[c] /\ NoBuffer(i) => NoBuffer(i)'
        BY <2>2, <3>3 DEF NoBuffer
      <4>2. ASSUME i # held[c], NEW d \in Conns, Once(buf[d], i),
                   \A f \in Conns \ {d} : i \notin Elems(buf[f])
            PROVE  OneBuffer(i)'
        <5>1. Once(buf'[d], i)
          BY <2>2, <3>3, <4>2
        <5>2. \A f \in Conns \ {d} : i \notin Elems(buf'[f])
          BY <2>2, <3>3, <4>2
        <5> QED BY <5>1, <5>2 DEF OneBuffer, Once
      <4> QED BY <4>1, <4>2 DEF OneBuffer
    <3>5. i = held[c] /\ NoBuffer(i) => OneBuffer(i)'
      <4> SUFFICES ASSUME i = held[c], NoBuffer(i) PROVE OneBuffer(i)'
        OBVIOUS
      <4>1. Once(buf'[c], i)
        BY <3>3 DEF NoBuffer
      <4>2. \A f \in Conns \ {c} : i \notin Elems(buf'[f])
        BY <2>2 DEF NoBuffer
      <4> QED BY <4>1, <4>2 DEF OneBuffer, Once
    <3> QED BY <2>2, <3>1, <3>2, <3>4, <3>5, PartKept DEF OnePlace
  <2>4. matcher'.pc \in {"receiving", "settling"} => matcher'.batch = <<>>
    BY <2>2 DEF PlaceInv
  <2> QED BY <1>5, <2>2, <2>3, <2>4
(* The hook outside a request queues its change on the spot.                 *)
<1>9. ASSUME NEW t \in Tasks, HookQueues(t)
      PROVE  PlaceInv'
  <2>1. t \in Writers /\ held[t] # 0 /\ held[t] \in Ids
    BY <1>1, <1>4, <1>9, Constants DEF HookQueues
  <2>2. /\ held' = [held EXCEPT ![t] = 0] /\ TrySend(t, <<held[t]>>, "working")
        /\ UNCHANGED <<log, buf, matcher, processed>>
    BY <1>9 DEF HookQueues, matching
  <2>3. ASSUME NEW i \in Ids PROVE OnePlace(i)'
    <3>1. OnePlace(i)
      BY DEF PlaceInv
    <3>2. /\ i # held[t] => (NoHook(i) => NoHook(i)') /\ (OneHook(i) => OneHook(i)')
          /\ i = held[t] => ~NoHook(i) /\ (OneHook(i) => NoHook(i)')
      BY <1>1, <2>1, <2>2, HookCleared
    <3>3. /\ <<held[t]>> \in Seq(Ids)
          /\ i # held[t] => i \notin Elems(<<held[t]>>)
          /\ i = held[t] => Once(<<held[t]>>, i)
      BY <2>1 DEF Elems, Once
    <3>4. /\ i \notin Elems(<<held[t]>>) => /\ NoQueue(i) => NoQueue(i)'
                                            /\ OneQueue(i) => OneQueue(i)'
                                            /\ NoLoss(i) => NoLoss(i)'
                                            /\ OneLoss(i) => OneLoss(i)'
          /\ NoQueue(i) /\ NoLoss(i) /\ Once(<<held[t]>>, i) => \/ OneQueue(i)' /\ NoLoss(i)'
                                                                \/ NoQueue(i)' /\ OneLoss(i)'
      BY <1>1, <2>2, <3>3, TrySendMoves
    <3>5. CASE i = held[t]
      BY <2>2, <3>1, <3>2, <3>3, <3>4, <3>5, PartKept DEF OnePlace
    <3>6. CASE i # held[t]
      BY <2>2, <3>1, <3>2, <3>3, <3>4, <3>6, PartKept DEF OnePlace
    <3> QED BY <3>5, <3>6
  <2>4. matcher'.pc \in {"receiving", "settling"} => matcher'.batch = <<>>
    BY <2>2 DEF PlaceInv
  <2> QED BY <1>5, <2>2, <2>3, <2>4
(* A dropped request takes its buffer with it.                               *)
<1>10. ASSUME NEW c \in Conns, Disconnect(c)
       PROVE  PlaceInv'
  <2>1. /\ buf' = [buf EXCEPT ![c] = <<>>] /\ Lose("client gone", Elems(buf[c]))
        /\ UNCHANGED <<log, held, queue, matcher, processed>>
    BY <1>10 DEF Disconnect, matching
  <2>2. ASSUME NEW i \in Ids PROVE OnePlace(i)'
    <3>1. OnePlace(i)
      BY DEF PlaceInv
    <3>2. /\ NoBuffer(i) => i \notin Elems(buf[c]) /\ NoBuffer(i)'
          /\ OneBuffer(i) => \/ Once(buf[c], i) /\ NoBuffer(i)'
                             \/ i \notin Elems(buf[c]) /\ OneBuffer(i)'
      BY <1>1, <2>1, BufferEmptied
    <3>3. /\ i \notin Elems(buf[c]) => /\ NoLoss(i) => NoLoss(i)'
                                       /\ OneLoss(i) => OneLoss(i)'
          /\ i \in Elems(buf[c]) /\ NoLoss(i) => OneLoss(i)'
      BY <1>1, <1>3, <2>1, LossAdded
    <3>4. Once(buf[c], i) => i \in Elems(buf[c])
      BY OnceIsElem
    <3> QED BY <2>1, <3>1, <3>2, <3>3, <3>4, PartKept DEF OnePlace
  <2>3. matcher'.pc \in {"receiving", "settling"} => matcher'.batch = <<>>
    BY <2>1 DEF PlaceInv
  <2> QED BY <1>5, <2>1, <2>2, <2>3
(* change_flush takes the buffer to the queue.                               *)
<1>11. ASSUME NEW c \in Conns, Flush(c)
       PROVE  PlaceInv'
  <2>1. /\ buf' = [buf EXCEPT ![c] = <<>>]
        /\ UNCHANGED <<log, held, matcher, processed>>
        /\ \/ buf[c] = <<>> /\ UNCHANGED <<queue, lost>>
           \/ TrySend(c, buf[c], "idle")
    BY <1>11 DEF Flush, matching
  <2>2. ASSUME NEW i \in Ids PROVE OnePlace(i)'
    <3>1. OnePlace(i)
      BY DEF PlaceInv
    <3>2. /\ NoBuffer(i) => i \notin Elems(buf[c]) /\ NoBuffer(i)'
          /\ OneBuffer(i) => \/ Once(buf[c], i) /\ NoBuffer(i)'
                             \/ i \notin Elems(buf[c]) /\ OneBuffer(i)'
      BY <1>1, <2>1, BufferEmptied
    <3>3. CASE TrySend(c, buf[c], "idle")
      <4>1. /\ i \notin Elems(buf[c]) => /\ NoQueue(i) => NoQueue(i)'
                                         /\ OneQueue(i) => OneQueue(i)'
                                         /\ NoLoss(i) => NoLoss(i)'
                                         /\ OneLoss(i) => OneLoss(i)'
            /\ NoQueue(i) /\ NoLoss(i) /\ Once(buf[c], i) => \/ OneQueue(i)' /\ NoLoss(i)'
                                                             \/ NoQueue(i)' /\ OneLoss(i)'
        BY <1>1, <3>3, TrySendMoves
      <4> QED BY <2>1, <3>1, <3>2, <4>1, PartKept DEF OnePlace
    <3>4. CASE buf[c] = <<>> /\ UNCHANGED <<queue, lost>>
      <4>1. ~Once(buf[c], i)
        BY <3>4, OnceIsElem DEF Elems
      <4> QED BY <2>1, <3>1, <3>2, <3>4, <4>1, PartKept DEF OnePlace
    <3> QED BY <2>1, <3>3, <3>4
  <2>3. matcher'.pc \in {"receiving", "settling"} => matcher'.batch = <<>>
    BY <2>1 DEF PlaceInv
  <2> QED BY <1>5, <2>1, <2>2, <2>3
(* The matcher takes a buffer, first or behind what it has.                  *)
<1>12. ASSUME Receive \/ Fold
       PROVE  PlaceInv'
  <2>1. /\ queue # <<>> /\ queue' = Tail(queue)
        /\ UNCHANGED <<log, held, buf, processed, lost>>
    BY <1>12 DEF Receive, Fold, changes
  <2>2. matcher'.pc = "folding" /\ matcher'.batch = matcher.batch \o Head(queue)
    <3>1. CASE Receive
      <4>1. matcher.batch = <<>>
        BY <3>1 DEF Receive, PlaceInv
      <4>2. Head(queue) \in Seq(Ids)
        BY <1>1, <2>1
      <4>3. matcher.batch \o Head(queue) = Head(queue)
        BY <4>1, <4>2
      <4> QED BY <3>1, <4>3 DEF Receive
    <3>2. CASE Fold
      BY <1>2, <3>2 DEF Fold
    <3> QED BY <1>12, <3>1, <3>2
  <2>3. ASSUME NEW i \in Ids PROVE OnePlace(i)'
    <3>1. OnePlace(i)
      BY DEF PlaceInv
    <3>2. /\ NoQueue(i) => i \notin Elems(Head(queue)) /\ NoQueue(i)'
          /\ OneQueue(i) => \/ Once(Head(queue), i) /\ NoQueue(i)'
                            \/ i \notin Elems(Head(queue)) /\ OneQueue(i)'
      BY <1>1, <2>1, QueueTaken
    <3>3. Head(queue) \in Seq(Ids)
      BY <1>1, <2>1
    <3>4. /\ i \notin Elems(Head(queue)) => /\ NoBatch(i) => NoBatch(i)'
                                            /\ OneBatch(i) => OneBatch(i)'
          /\ NoBatch(i) /\ Once(Head(queue), i) => OneBatch(i)'
      <4>1. /\ i \in Elems(matcher'.batch)
                  <=> i \in Elems(matcher.batch) \/ i \in Elems(Head(queue))
            /\ Once(matcher.batch, i) /\ i \notin Elems(Head(queue)) => Once(matcher'.batch, i)
            /\ i \notin Elems(matcher.batch) /\ Once(Head(queue), i) => Once(matcher'.batch, i)
        BY <1>1, <2>2, <3>3, OnceJoined
      <4>2. (NoBatch(i)' <=> i \notin Elems(matcher'.batch)) /\ (OneBatch(i)' <=> Once(matcher'.batch, i))
        BY DEF NoBatch, OneBatch, Once, Elems
      <4> QED BY <4>1, <4>2 DEF NoBatch, OneBatch
    <3> QED BY <2>1, <3>1, <3>2, <3>4, PartKept DEF OnePlace
  <2> QED BY <1>5, <2>1, <2>2, <2>3
(* process_changes has gone through the batch, or panicked over it.          *)
<1>13. ASSUME Process \/ ProcessPanics
       PROVE  PlaceInv'
  <2>1. /\ UNCHANGED <<log, held, buf, queue>>
        /\ matcher'.batch = <<>>
        /\ \/ processed' = processed \o matcher.batch /\ UNCHANGED lost
           \/ Lose("matcher panicked", Elems(matcher.batch)) /\ UNCHANGED processed
    BY <1>2, <1>13 DEF Process, ProcessPanics, changes
  <2>2. ASSUME NEW i \in Ids PROVE OnePlace(i)'
    <3>1. OnePlace(i)
      BY DEF PlaceInv
    <3>2. NoBatch(i)'
      <4>1. Elems(<<>>) = {}
        BY DEF Elems
      <4>2. i \notin Elems(matcher'.batch)
        BY <2>1, <4>1
      <4> QED BY <4>2 DEF NoBatch, Elems
    <3>3. OneBatch(i) => ~NoBatch(i)
      BY OnceIsElem DEF OneBatch, NoBatch
    <3>4. CASE processed' = processed \o matcher.batch /\ UNCHANGED lost
      <4>1. /\ i \in Elems(processed') <=> i \in Elems(processed) \/ i \in Elems(matcher.batch)
            /\ Once(processed, i) /\ i \notin Elems(matcher.batch) => Once(processed', i)
            /\ i \notin Elems(processed) /\ Once(matcher.batch, i) => Once(processed', i)
        BY <1>1, <3>4, OnceJoined
      <4>2. (NotDone(i)' <=> i \notin Elems(processed')) /\ (DoneOnce(i)' <=> Once(processed', i))
        BY DEF NotDone, DoneOnce, Once, Elems
      <4>3. /\ NoBatch(i) => /\ NotDone(i) => NotDone(i)'
                             /\ DoneOnce(i) => DoneOnce(i)'
            /\ NotDone(i) /\ OneBatch(i) => DoneOnce(i)'
        BY <4>1, <4>2 DEF NoBatch, OneBatch, NotDone, DoneOnce
      <4> QED BY <2>1, <3>1, <3>2, <3>3, <3>4, <4>3, PartKept DEF OnePlace
    <3>5. CASE Lose("matcher panicked", Elems(matcher.batch)) /\ UNCHANGED processed
      <4>1. /\ i \notin Elems(matcher.batch) => /\ NoLoss(i) => NoLoss(i)'
                                                /\ OneLoss(i) => OneLoss(i)'
            /\ i \in Elems(matcher.batch) /\ NoLoss(i) => OneLoss(i)'
        BY <1>1, <1>3, <3>5, LossAdded
      <4>2. /\ NoBatch(i) => /\ NoLoss(i) => NoLoss(i)'
                             /\ OneLoss(i) => OneLoss(i)'
            /\ OneBatch(i) /\ NoLoss(i) => OneLoss(i)'
        BY <4>1, OnceIsElem DEF NoBatch, OneBatch
      <4> QED BY <2>1, <3>1, <3>2, <3>3, <3>5, <4>2, PartKept DEF OnePlace
    <3> QED BY <2>1, <3>4, <3>5
  <2> QED BY <1>5, <2>1, <2>2
<1>14. ASSUME FoldEnds \/ Settle
       PROVE  PlaceInv'
  <2>1. /\ UNCHANGED <<log, held, buf, queue, processed, lost>>
        /\ matcher'.batch = matcher.batch
        /\ matcher'.pc \in {"receiving", "settling"} => matcher.pc \in {"receiving", "settling"}
    BY <1>2, <1>14 DEF FoldEnds, Settle, changes
  <2> QED BY <1>6, <2>1
<1>15. ASSUME UNCHANGED <<log, held, buf, queue, matcher, processed, lost>>
       PROVE  PlaceInv'
  BY <1>6, <1>15
<1>16. ASSUME NEW c \in Conns,
              \/ Accept(c) \/ Request(c) \/ Close(c) \/ Return(c)
              \/ \E t \in Tasks : SpawnFromRequest(c, t)
       PROVE  PlaceInv'
  BY <1>15, <1>16 DEF Accept, Request, Close, Return, SpawnFromRequest, changes, matching
<1>17. ASSUME NEW w \in Writers, Count(w)
       PROVE  PlaceInv'
  BY <1>15, <1>17 DEF Count, matching
<1>18. ASSUME NEW t \in Tasks, SpawnRetry(t) \/ TaskEnds(t) \/ TaskPanics(t)
       PROVE  PlaceInv'
  BY <1>15, <1>18 DEF SpawnRetry, TaskEnds, TaskPanics, changes, matching
<1>19. ASSUME Sigterm \/ CloseListener \/ Deadline \/ Drain \/ Exit
       PROVE  PlaceInv'
  BY <1>15, <1>19 DEF Sigterm, CloseListener, Deadline, Drain, ReadInflight, ReadBackground,
     ReadPending, ReadCounter, Exit, work, changes, matching
<1> QED BY <1>7, <1>8, <1>9, <1>10, <1>11, <1>12, <1>13, <1>14, <1>16, <1>17, <1>18, <1>19
        DEF Next, Matcher

-----------------------------------------------------------------------------
(* The inductive invariant holds for all values of the constants.           *)
THEOREM Invariance == Spec => []SpineInv
<1>1. Init => SpineInv
  BY Initially
<1>2. SpineInv /\ [Next]_vars => SpineInv'
  <2>1. ASSUME SpineInv, Next PROVE SpineInv'
    <3>1. TypeOK'
      <4>1. TypeOK' <=> StageInv' /\ ChangeInv' /\ CounterInv' /\ PhaseInv'
        BY DEF TypeOK, StageInv, ChangeInv, CounterInv, PhaseInv
      <4> QED BY <2>1, <4>1, StageStep, ChangeStep, CounterStep, PhaseStep
    <3> QED BY <2>1, <3>1, ConnStep, TaskStep, BatchStep, PendingStep, OrderStep,
            DrainStep DEF SpineInv
  <2> QED BY <2>1, Stutter
<1> QED BY <1>1, <1>2, PTL DEF Spec

(* Every variable keeps its type: the queue its limit, inflight the cap on  *)
(* connections, pending_changes the range of its usize.                     *)
THEOREM TypeCorrect == Spec => []TypeOK
<1>1. SpineInv => TypeOK
  BY DEF SpineInv
<1> QED BY <1>1, Invariance, PTL

(* shutdown.rs:103-108: when the drain has read its three counters at zero, *)
(* one after the other, no connection is open, no task a request spawned    *)
(* still runs and no change waits for the matcher.                          *)
THEOREM DrainIsComplete == Spec => []DrainLeavesNothing
<1>1. SpineInv => DrainLeavesNothing
  BY DEF SpineInv
<1> QED BY <1>1, Invariance, PTL

(* store/mem/mod.rs:152: the hooks of the changes complete in commit order. *)
THEOREM HooksOrdered == Spec => HooksInCommitOrder
<1> DEFINE Ordered == \A w \in Writers : held[w] # 0 /\ held'[w] = 0 =>
                          \A v \in Writers : held[v] # 0 => held[w] <= held[v]
<1>1. ASSUME SpineInv, [Next]_vars PROVE [Ordered]_vars
  <2>1. \A w, v \in Writers : held[w] # 0 /\ held[v] # 0 => w = v
    BY <1>1, Constants DEF SpineInv, OrderInv
  <2>2. \A w \in Writers : held[w] <= held[w]
    <3>1. Len(log) \in Nat /\ held \in [Writers -> 0..Len(log)]
      BY <1>1, TypeParts, LengthZero DEF SpineInv, ChangeInv
    <3> QED BY <3>1
  <2> QED BY <2>1, <2>2
<1> QED BY <1>1, Invariance, PTL DEF Spec, HooksInCommitOrder

(* No change is duplicated on its way or forgotten: each is in one hook, one *)
(* request's buffer, one entry of the matcher's queue or its batch, or it   *)
(* was processed once, or it was lost for one reason (history.rs:40-54,     *)
(* history.rs:119-141, notify.rs:40-50, notify.rs:233-297).                 *)
THEOREM OncePerChange == Spec => []EachChangeOnce
<1>1. Init => PlaceInv
  BY DEF Init, PlaceInv, Ids
<1>2. SpineInv /\ PlaceInv /\ [Next]_vars => PlaceInv'
  <2>1. ASSUME PlaceInv, UNCHANGED vars PROVE PlaceInv'
    <3>1. UNCHANGED <<log, held, buf, queue, matcher, processed, lost>>
      BY <2>1 DEF vars
    <3>2. ASSUME NEW i \in Ids PROVE OnePlace(i)'
      BY <2>1, <3>1, PartKept DEF PlaceInv, OnePlace
    <3> QED BY <2>1, <3>1, <3>2 DEF PlaceInv, Ids
  <2> QED BY <2>1, PlaceStep
<1>3. PlaceInv => EachChangeOnce
  BY OnePlaceCounts DEF PlaceInv, EachChangeOnce
<1> QED BY <1>1, <1>2, <1>3, Invariance, PTL DEF Spec
=============================================================================
