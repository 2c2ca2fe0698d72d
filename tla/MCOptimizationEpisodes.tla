------------------------- MODULE MCOptimizationEpisodes -------------------------
(* Instances of OptimizationEpisodes for TLC.                               *)
EXTENDS OptimizationEpisodes, TLC

CONSTANTS
  Optimized,   \* bound: the Parents that are optimized and edited
  Elsewhere    \* bound: the Workspaces in which a session is opened or shown again

(* No temporal property of these instances names a value: the ids of        *)
(* episodes, sessions and calls are interchangeable.                        *)
Ids == Permutations(Episodes) \union Permutations(Sessions) \union Permutations(Calls)

Busy == {c \in Calls : ~Free(c)}
InFlight == Cardinality(Busy) + Len(mail)
Asked == \E s \in Sessions : auth[s] # {}
Edited == \E p \in Parents : rev[p] > 0
Unwritten == {e \in Known \intersect DOMAIN file : ep[e] # file[e]}
Astray == {e \in Known : Launched(e) /\ ep[e].parent # thread[e].parent}

Places ==
  /\ \A s \in Sessions : \A a \in auth[s] : a.parent \in Optimized
  /\ \A c \in Busy : /\ call[c].kind = "edit" => call[c].parent \in Optimized
                     /\ call[c].kind = "open" => call[c].parent \in Elsewhere

(* Bounds of the search: two things in flight at a time, and only one while *)
(* the file is behind, an episode is unread or not where it works, or a     *)
(* Parent was edited; an authorization is asked for while nothing but       *)
(* answers and edits is under way; a session is opened, or an episode shown,*)
(* alone but for one event.                                                 *)
Small ==
  /\ Places
  /\ InFlight <= IF Unwritten # {} \/ skipped # {} \/ Edited \/ Astray # {} THEN 1 ELSE 2
  /\ Cardinality(skipped) <= 1 /\ Cardinality(Unwritten) <= 1 /\ Cardinality(Astray) <= 1
  /\ Edited => skipped = {} /\ Unwritten = {}
  /\ Asked => mail = <<>> /\ \A c \in Busy : call[c].kind \in {"answer", "edit"}
  /\ \A c, d \in Busy : c # d => call[c].kind \notin {"open", "rebind"}
=============================================================================
