------------------------------ MODULE TableMap ------------------------------
(***************************************************************************)
(* What a table of the accounts drive promises its callers: a map with a   *)
(* limit on its entries.  A call is asked and then decided in one step;    *)
(* a read answers for the key that was asked.                              *)
(***************************************************************************)
EXTENDS Integers, FiniteSets

CONSTANTS Key, Value, Limit, Absent,
          Protected(_)  \* values an unforced removal is refused for

VARIABLES map,     \* [Key -> Value \cup {Absent}]
          asked,   \* the call not yet decided, or NoCall
          answer   \* what the last decided call was answered

mapVars == <<map, asked, answer>>

NoCall == [kind |-> "none"]

Entries == {k \in Key : map[k] # Absent}

MapInit == map = [k \in Key |-> Absent] /\ asked = NoCall /\ answer = "ok"

Ask(kind, k, v, force) ==
  /\ asked = NoCall
  /\ asked' = [kind |-> kind, key |-> k, val |-> v, force |-> force]
  /\ UNCHANGED <<map, answer>>

Get(k) == answer' = map[k] /\ UNCHANGED map

Set(k, v) ==
  IF map[k] # Absent \/ Cardinality(Entries) < Limit
  THEN map' = [map EXCEPT ![k] = v] /\ answer' = "ok"
  ELSE answer' = "tableFull" /\ UNCHANGED map

Delete(k, force) ==
  CASE map[k] = Absent -> answer' = Absent /\ UNCHANGED map
    [] map[k] # Absent /\ Protected(map[k]) /\ ~force -> answer' = "nonceProtected" /\ UNCHANGED map
    [] OTHER -> map' = [map EXCEPT ![k] = Absent] /\ answer' = "ok"

Decide ==
  /\ \/ asked.kind = "get" /\ Get(asked.key)
     \/ asked.kind = "set" /\ Set(asked.key, asked.val)
     \/ asked.kind = "remove" /\ Delete(asked.key, asked.force)
  /\ asked' = NoCall

MapNext ==
  \/ \E k \in Key : \/ Ask("get", k, Absent, FALSE)
                    \/ \E v \in Value : Ask("set", k, v, FALSE)
                    \/ \E force \in BOOLEAN : Ask("remove", k, Absent, force)
  \/ Decide

MapSpec == MapInit /\ [][MapNext]_mapVars
=============================================================================
