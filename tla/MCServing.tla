----------------------------- MODULE MCServing ------------------------------
(***************************************************************************)
(* One broker serves: the change path of its writes and the drain that     *)
(* ends it (LocalSpine), a distributed read (DistRead) and the walk that   *)
(* fills or purges a match set (MatchWalk).  They share no state, so a     *)
(* behaviour runs one of them and leaves the others at rest.               *)
(***************************************************************************)
EXTENDS LocalSpine, TLC

CONSTANTS
    c1, c2, t1, e1,                         \* the change path
    e2, y1, x1, x2, s1, s2, Every, Own, Absent, Nothing, MaxHops    \* reads

VARIABLES
    part,
    docs, mine, theirs, ans,
    stored, walk, stayed, writes

readVars == <<docs, mine, theirs, ans>>
walkVars == <<stored, walk, stayed, writes>>

-----------------------------------------------------------------------------
(* Reads: four sets of registrations, six versions at either source, three *)
(* here, and ten requests.                                                 *)

Info(ids, attrs) == [ents |-> IF ids = Every THEN Every ELSE {[ids |-> ids, types |-> {y1}]},
                     attrs |-> attrs]
Reg(id, s, mode, ops, infos) ==
    [id |-> id, src |-> s, mode |-> mode, ops |-> ops, expired |-> FALSE, infos |-> infos]
AllReads == {"retrieveEntity", "queryEntity"}
ReadCatalogue ==
    { <<Reg("x", s1, "exclusive", AllReads, {Info({e1}, {x1})}),
        Reg("i", s2, "inclusive", AllReads, {Info(Every, Every)})>>,
      <<Reg("u", s2, "auxiliary", AllReads, {Info({e1, e2}, Every)}),
        Reg("i", s1, "inclusive", AllReads, {Info({e1}, {x1}), Info({e2}, {x2})})>>,
      <<Reg("u", s1, "auxiliary", AllReads, {Info({e1}, Every)}),
        Reg("i", s2, "auxiliary", {"queryBatch"}, {Info(Every, {x1})})>>,
      <<Reg("r", s1, "redirect", {"retrieveEntity"}, {Info({e1}, {x2})}),
        [Reg("i", s2, "inclusive", AllReads, {Info(Every, {x1})}) EXCEPT !.expired = TRUE],
        Reg("x", s2, "inclusive", AllReads, {Info({e1}, {x1, x2})})>> }
Inst(x, d, when, exp, hit, from) ==
    [attr |-> x, ds |-> d, at |-> when, exp |-> exp, hit |-> hit, from |-> from]
Version(exp, insts) == [exp |-> exp, insts |-> insts]
Versions(s) ==
    { Version(0, {Inst(x1, 0, 1, 0, TRUE, s)}),
      Version(0, {Inst(x1, 0, 3, 0, FALSE, s)}),
      Version(4, {Inst(x1, 0, 2, 0, TRUE, s)}),
      Version(1, {Inst(x1, 0, 3, 0, TRUE, s)}),
      Version(0, {Inst(x1, 0, 3, 1, TRUE, s), Inst(x2, 0, 2, 0, FALSE, s)}),
      Version(5, {Inst(x1, 1, 1, 0, TRUE, s), Inst(x2, 0, 1, 6, FALSE, s)}) }
Local == { Absent, Version(0, {Inst(x1, 0, 2, 0, FALSE, "here")}),
           Version(5, {Inst(x1, 0, 2, 0, TRUE, "here"), Inst(x2, 0, 1, 0, FALSE, "here")}) }
TheirVersions ==
    {[s \in {s1, s2} |-> [e \in {e1, e2} |->
        CASE e = e1 /\ s = s1 -> v [] e = e1 /\ s = s2 -> w
          [] e = e2 /\ s = s1 -> u [] OTHER -> Absent]] :
        v \in Versions(s1) \cup {Absent}, w \in Versions(s2) \cup {Absent},
        u \in {Absent, Version(0, {Inst(x1, 0, 1, 0, TRUE, s1), Inst(x2, 0, 1, 0, FALSE, s1)})}}
Plain(kind, ids) ==
    [kind |-> kind, ids |-> ids, types |-> Every, filter |-> FALSE, split |-> FALSE, via |-> <<>>,
     local |-> FALSE, map |-> Nothing, except |-> Nothing, fragment |-> Absent]
ReadAsks ==
    { Plain("retrieve", {e1}),
      [Plain("retrieve", {e1}) EXCEPT !.map = {"u", "x"}],
      [Plain("retrieve", {e1}) EXCEPT !.via = <<s1>>],
      [Plain("retrieve", {e1}) EXCEPT !.via = <<Own>>],
      Plain("query", Every),
      [Plain("query", Every) EXCEPT !.types = {y1}, !.filter = TRUE, !.split = TRUE],
      [Plain("query", Every) EXCEPT !.types = {y1}, !.filter = TRUE],
      [Plain("query", {e1}) EXCEPT !.filter = TRUE, !.local = TRUE],
      [Plain("notified", {e1}) EXCEPT !.except = "i", !.filter = TRUE,
          !.fragment = Version(0, {Inst(x2, 0, 3, 0, TRUE, "notice")})],
      [Plain("notified", {e1}) EXCEPT !.except = "x",
          !.fragment = Version(4, {Inst(x1, 0, 3, 0, TRUE, "notice")})] }
Read == INSTANCE DistRead WITH
    Ents <- {e1, e2}, Sources <- {s1, s2}, Asks <- ReadAsks, Catalogue <- ReadCatalogue,
    Mine <- {[e \in {e1, e2} |-> IF e = e1 THEN v ELSE Absent] : v \in Local},
    Theirs <- TheirVersions, Now <- 2, read <- ans

-----------------------------------------------------------------------------
(* The walk: four entities, two attributes, one write in between.          *)

Asked(mode, need, ids, purged) == [mode |-> mode, need |-> need, ids |-> ids, purged |-> purged]
Walks ==
    {Asked("delete", {}, 1..4, {}), Asked("delete", {x1}, {1, 3, 4}, {}),
     Asked("prune", {x1}, 1..4, {x1}), Asked("prune", {}, 2..4, {x2}), Asked("prune", {x2}, 1..4, {x1}),
     Asked("map", {x1}, 1..4, {}), Asked("map", {}, {3, 4}, {})}

Walk == INSTANCE MatchWalk WITH
    Ids <- 1..4, Attrs <- {x1, x2}, Queries <- Walks, Chunk <- 2, Paged <- TRUE,
    Writes <- {"create", "add"}, MaxWrites <- 1, row <- stored

NoWalk ==
    /\ stored = <<>> /\ stayed = {} /\ writes = 0
    /\ walk = [pc |-> "read", q |-> Asked("map", {}, {3, 4}, {}), offset |-> 0,
               batch |-> {}, rows |-> 0, out |-> {}]

-----------------------------------------------------------------------------
Parts == {"spine", "reads", "walk"}

MCInit ==
    /\ part \in Parts
    /\ Init
    /\ IF part = "reads" THEN Read!Init ELSE docs = <<>> /\ mine = <<>> /\ theirs = <<>> /\ ans = <<>>
    /\ IF part = "walk" THEN Walk!Init ELSE NoWalk

MCNext ==
    /\ UNCHANGED part
    /\ \/ part = "spine" /\ Next /\ UNCHANGED <<readVars, walkVars>>
       \/ part = "reads" /\ Read!Next /\ UNCHANGED <<vars, walkVars>>
       \/ part = "walk"  /\ Walk!Next /\ UNCHANGED <<vars, readVars>>

allVars == <<part, vars, readVars, walkVars>>

\* Where the change path is at rest nothing it is fair to is enabled.
MCSpec ==
    /\ MCInit /\ [][MCNext]_allVars /\ Fairness
    /\ WF_allVars(part = "walk" /\ Walk!Round /\ UNCHANGED <<part, vars, readVars>>)

-----------------------------------------------------------------------------
(* The parts' properties, by the names they have there.                    *)

\* The state of the part that moves is well formed.
PartTypeOK ==
    CASE part = "reads" -> Read!TypeOK
      [] part = "walk"  -> Walk!TypeOK
      [] OTHER          -> TypeOK

\* An answer is the best of what everybody asked knows (merge_docs,
\* merge_candidates), and nobody speaks for what its registration does not
\* cover (narrow_to_scope, admits_import, map_gate); a walk reaches every Entity
\* that matched and that nobody else wrote (purge_locally, build_query_map).
ReadsRight ==
    /\ part = "reads" => Read!BestOfAll /\ Read!ReadsScoped
    /\ part = "walk" => Walk!WalksAll

\* A stop that has begun ends (drain), and so does a walk, whatever other
\* requests add meanwhile (next_scan_offset).
StopAndWalkEnd == StopEnds /\ (part = "walk" => Walk!WalkEnds)
=============================================================================
