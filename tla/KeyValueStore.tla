---------------------------- MODULE KeyValueStore ----------------------------
(***************************************************************************)
(* What a key-value store with a file promises: a map that is changed key  *)
(* by key, saved as a whole and loaded as a whole.  A save that failed     *)
(* leaves a torn file, out of which a load makes a part of what was saved  *)
(* or nothing, but never anything else.                                    *)
(***************************************************************************)
EXTENDS Functions, FiniteSets

CONSTANTS K, V

VARIABLES
    map,     \* from the keys in the store to their values
    count,   \* how many there are
    disk     \* the file: what was saved, and whether all of it is there

Maps == UNION {[D -> V] : D \in SUBSET K}

Empty == [k \in {} |-> {}]

KvInit == map = Empty /\ disk = [state |-> "none", map |-> Empty]

Change == \/ \E k \in K, v \in V : map' = [x \in DOMAIN map \cup {k} |-> IF x = k THEN v ELSE map[x]]
          \/ \E k \in K : map' = Restrict(map, DOMAIN map \ {k})
          \/ map' = Empty

Save == disk' \in [state : {"whole", "torn"}, map : {map}]

Load == \/ disk.state = "whole" /\ map' = disk.map
        \/ disk.state = "torn" /\ \E D \in SUBSET DOMAIN disk.map : map' = Restrict(disk.map, D)

KvNext ==
    /\ \/ (Change \/ Load) /\ UNCHANGED disk
       \/ Save /\ UNCHANGED map
    /\ count' = Cardinality(DOMAIN map')

KvSpec == KvInit /\ count = 0 /\ [][KvNext]_<<map, count, disk>>
=============================================================================
