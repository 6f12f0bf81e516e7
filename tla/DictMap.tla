------------------------------- MODULE DictMap -------------------------------
(* What a Dict promises: a map from keys to values, and answers about it.  *)
EXTENDS Naturals

CONSTANTS Keys, Values, None

VARIABLES map, answer

FullMaps == [Keys -> Values \cup {None}]

MapInit == map = [k \in Keys |-> None] /\ answer = None

MapFind == \E k \in Keys : answer' = map[k] /\ UNCHANGED map

\* Set overwrites, Insert does not; both tell whether the key is new.
MapSet == \E k \in Keys, v \in Values :
    map' = [map EXCEPT ![k] = v] /\ answer' = map[k]

MapInsert == \E k \in Keys, v \in Values :
    map' = [map EXCEPT ![k] = IF @ = None THEN v ELSE @] /\ answer' = map[k]

MapDelete == \E k \in Keys : map' = [map EXCEPT ![k] = None] /\ answer' = map[k]

MapClear == map' = [k \in Keys |-> None] /\ UNCHANGED answer

MapNext == MapFind \/ MapSet \/ MapInsert \/ MapDelete \/ MapClear

MapSpec == MapInit /\ [][MapNext]_<<map, answer>>
=============================================================================
