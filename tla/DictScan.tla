------------------------------ MODULE DictScan ------------------------------
(* A client scans a Dict with Dict::Scan, one call at a time, while other  *)
(* operations change and rehash the Dict between the calls.                *)
EXTENDS Dict

LOCAL INSTANCE FiniteSetsExt

VARIABLES
    cursor,    \* of the scan under way
    visited,   \* keys the scan has shown
    steady     \* keys that have been in the dict since the scan began

scanVars == <<cursor, visited, steady>>

(* Scan shows one index of both tables and moves on; a scan starts at 0    *)
(* and is over when no index is left.                                      *)
Finished == -1

Shown(d, c) ==
    {e[1] : e \in UNION {d.table[i][c] : i \in {i \in {0, 1} : c < TableSize(d.exp[i])}}}

LastIndex_FirstTable(d) == TableSize(d.exp[0]) - 1

LastIndex(d) == Max({TableSize(d.exp[i]) : i \in {0, 1}}) - 1

AllKeys(d) ==
    {e[1] : e \in UNION UNION {{d.table[i][b] : b \in DOMAIN d.table[i]} : i \in {0, 1}}}

StartScan ==
    /\ cursor = Finished
    /\ cursor' = 0
    /\ visited' = {}
    /\ steady' = AllKeys(dict)
    /\ UNCHANGED vars

Scan ==
    /\ cursor # Finished
    /\ visited' = visited \cup Shown(dict, cursor)
    /\ cursor' = IF cursor >= LastIndex(dict) THEN Finished ELSE cursor + 1
    /\ UNCHANGED <<vars, steady>>

(* Any operation in between; a key it removes is no longer steady. *)
Meanwhile ==
    /\ Next
    /\ steady' = steady \cap AllKeys(dict')
    /\ UNCHANGED <<cursor, visited>>

ScanInit == Init /\ cursor = Finished /\ visited = {} /\ steady = {}

ScanNext == StartScan \/ Scan \/ Meanwhile

ScanSpec == ScanInit /\ [][ScanNext]_<<vars, scanVars>>

(* A key that stays in the dict for the whole of a SCAN is shown, although *)
(* the table grows and entries move between two calls.                     *)
ScanMissesNothing == cursor = Finished => steady \subseteq visited
=============================================================================
