------------------------------ MODULE MCUpkeep ------------------------------
(***************************************************************************)
(* The work a broker does behind and between requests, one part to a       *)
(* behaviour: both halves of the interval sweep, the claims of several     *)
(* pods on one firing, the snapshots' tasks, the recording of an           *)
(* Entity's history, and the candidate sets of queries.  The parts share   *)
(* no state; the ones a behaviour is not about stay where they started.    *)
(***************************************************************************)
EXTENDS SweepClock, TLC

CONSTANTS s1, s2, t1, t2, x1, NoTime, Null, d1, d2, d3, NoMap, NoAsk

TwoTenants == (s1 :> t1) @@ (s2 :> t2)

VARIABLES
    part,
    c_now, c_row, c_mirror, c_clock, c_sweep, c_sending, c_handler, c_initial, c_ops,
    docs, index, data, hs, tasks, reap, past, dead, spent,
    entity, evo, rs, used,
    time, anchor, mirrored, firing, last, unspent, fails,
    fits, maps, pages, swept, when, born, missed, unasked

subsVars  == vars
csubsVars == <<c_now, c_row, c_mirror, c_clock, c_sweep, c_sending, c_handler, c_initial, c_ops>>
snapVars  == <<docs, index, data, hs, tasks, reap, past, dead, spent>>
histVars  == <<entity, evo, rs, used>>
claimVars == <<time, anchor, mirrored, firing, last, unspent, fails>>
mapVars   == <<fits, maps, pages, swept, when, born, missed, unasked>>

Csubs == INSTANCE SweepClock WITH
    Subs <- {s1}, TenantOf <- (s1 :> t1), Handlers <- {"h1"},
    Ops <- {"create", "update", "delete"}, Mirrored <- FALSE, Backstop <- 3,
    MaxTime <- 5, MaxOps <- 2,
    now <- c_now, row <- c_row, mirror <- c_mirror, clock <- c_clock, sweep <- c_sweep,
    sending <- c_sending, handler <- c_handler, initial <- c_initial, ops <- c_ops

\* Two requests with everything that can happen to them, or three without an
\* expiry (see MCNext).
Snap == INSTANCE Snapshots WITH
    Ids <- {1, 2}, Priorities <- {5}, Handlers <- {1, 2},
    Ops <- {"create", "clone", "update", "delete", "purge"},
    Reuse <- FALSE, Queries <- 1, Cap <- 1, MaxSnapshots <- 2,
    MaxAsks <- 3, MaxExpiries <- 1, MaxSweeps <- 1, MaxCrashes <- 1, sweep <- reap

Hist == INSTANCE History WITH
    Attrs <- {x1}, Times <- {1}, Values <- {1, 2}, Handlers <- 1..3,
    Ops <- {"write", "delete", "delete_attr", "upsert", "add", "delete_temporal",
            "delete_temporal_attr", "modify", "delete_instance"},
    Locking <- TRUE, Record <- "all", MaxAttempts <- 16, MaxAsks <- 3, MaxFails <- 1,
    hs <- rs, spent <- used

Claims == INSTANCE IntervalClaim WITH Pods <- {1, 2}, MaxTime <- 7, MaxFails <- 1

-----------------------------------------------------------------------------
(* Maps: one is stored, of two entities held here and one at a source; two *)
(* requests and at most one change of an entity meet it, and a map they    *)
(* create has to take its place.                                           *)

Listed == {d1, d2, d3}
Query == [kind |-> "create", only |-> Listed, life |-> 2]
PageOf(id, offset, limit, count, only, named) ==
    [kind |-> "page", id |-> id, offset |-> offset, limit |-> limit, count |-> count,
     only |-> only, named |-> named, life |-> 2]
MapForms ==
    (1 :> {PageOf(1, 1, 1, FALSE, Listed, Listed), PageOf(1, 0, 1, TRUE, Listed, Listed),
            PageOf(1, 0, 1, FALSE, {d1, d2}, {d2, d3})})
    @@ (2 :> {Query, [Query EXCEPT !.kind = "retrieve", !.only = {d1}, !.life = 0],
               PageOf(1, 0, 2, FALSE, {d2, d3}, Listed),
               [kind |-> "update", id |-> 1, exp |-> 9], [kind |-> "delete", id |-> 1]})
Maps == INSTANCE EntityMaps WITH
    Order <- <<d1, d2, d3>>, Remote <- {d2}, Ids <- 1..2, Handlers <- {1, 2}, Forms <- MapForms,
    Stored <- {[i \in 1..2 |-> IF i = 1 THEN [ids |-> Listed, backed |-> {d2}, exp |-> 1] ELSE NoMap]},
    Cap <- 1, MaxLife <- 3, MaxLimit <- 2, ChunkMin <- 2, MaxNow <- 1, MaxEdits <- 1, MaxAsks <- 2,
    Gone <- NoMap, Idle <- NoAsk, hs <- pages, spent <- unasked, clock <- when

-----------------------------------------------------------------------------
SnapParts == {"snapshots", "expiry"}

MCInit ==
    /\ part \in {"subs", "csubs", "claims", "history", "maps"} \cup SnapParts
    /\ Init /\ Csubs!Init /\ Claims!Init /\ Snap!Init /\ Hist!Init
    /\ Maps!Init /\ (part # "maps" => fits = Listed)

MCNext ==
    /\ UNCHANGED part
    /\ \/ /\ part = "subs" /\ Next
          /\ UNCHANGED <<csubsVars, claimVars, snapVars, histVars, mapVars>>
       \/ /\ part = "csubs" /\ Csubs!Next
          /\ UNCHANGED <<subsVars, claimVars, snapVars, histVars, mapVars>>
       \/ /\ part = "claims" /\ Claims!Next
          /\ UNCHANGED <<subsVars, csubsVars, snapVars, histVars, mapVars>>
       \/ /\ part = "snapshots" /\ Snap!Next /\ spent'.expiries = 0 /\ spent'.sweeps = 0
          /\ UNCHANGED <<subsVars, csubsVars, claimVars, histVars, mapVars>>
       \/ /\ part = "expiry" /\ Snap!Next /\ spent'.asks <= 2
          /\ UNCHANGED <<subsVars, csubsVars, claimVars, histVars, mapVars>>
       \/ /\ part = "history" /\ Hist!Next
          /\ UNCHANGED <<subsVars, csubsVars, claimVars, snapVars, mapVars>>
       \/ /\ part = "maps" /\ Maps!Next
          /\ UNCHANGED <<subsVars, csubsVars, claimVars, snapVars, histVars>>

allVars == <<part, subsVars, csubsVars, claimVars, snapVars, histVars, mapVars>>

MCSpec == MCInit /\ [][MCNext]_allVars

-----------------------------------------------------------------------------
(* The parts' properties, by the names they have there.                    *)

\* The state of the part that moves is well formed.
EveryTypeOK ==
    CASE part = "subs"  -> TypeOK
      [] part = "csubs" -> Csubs!TypeOK
      [] part = "history" -> Hist!TypeOK
      [] part = "claims" -> Claims!TypeOK
      [] part = "maps"  -> Maps!TypeOK
      [] OTHER          -> Snap!TypeOK

\* A copy is named by its document, the reverse index or its own fill, except
\* what a crash cut off, and at rest one no document names has been freed
\* (purge_data_bg, purge_synth, fill_cancelled); the registry of snapshots is
\* then within snapshot_cap and none is left in preparation (evict_over_cap,
\* fill_snapshot, finish); and no write puts a removed snapshot back
\* (snap_put), while ids are not reused.
SnapshotsSettle ==
    /\ [](part \in SnapParts => Snap!CopiesAccounted /\ Snap!CapKept /\ Snap!Settles)
    /\ Snap!NotResurrected

\* Recorded history does not outlive its Entity (temporal_append's guard), what
\* was answered is in it (upsert_temporal_local, history::layer), and a step
\* that takes nothing away leaves every instanceId (5.6.11.4).
HistoryFaithful ==
    /\ []Hist!NoOrphanHistory
    /\ [][(\A r \in 1..3 : Hist!Recorded(r)) /\ Hist!Kept]_histVars

\* What a pod does not hear of the others costs at most a period: a clock signal
\* the Context Source half lost is repaired within one backstop (interval_tick),
\* and two notifications of a periodic subscription are a whole interval apart
\* and lastNotification tells when one was sent, whichever pods sweep
\* (claim_interval, release_interval).
PodsOnTime == Claims!ClaimsKept /\ [](part = "csubs" => Csubs!BackstopRepairs)

\* A map keeps the candidates it was built with (map_put), and a page through
\* it is whole (query_entities_outer).
MapsAndPages == part = "maps" => Maps!MapsKept /\ Maps!PagesWhole
=============================================================================
