--------------------------- MODULE MCUpsertImport ---------------------------
(* Instances of UpsertImport for TLC. *)
EXTENDS UpsertImport

Two == {"a", "b"}

(* Any row of the first car, one row of the second and one rejected row. *)
Lines ==
    [car : {"a"}, ts : 0..2, hasId : BOOLEAN, ok : {TRUE}]
    \cup {[car |-> "b", ts |-> 1, hasId |-> TRUE, ok |-> TRUE],
          [car |-> "a", ts |-> 1, hasId |-> TRUE, ok |-> FALSE]}
FourLines == [1..4 -> Lines]

(* The first car is not stored, or stored with or without an id. *)
SomeTables ==
    {[k \in Two |-> IF k = "a" THEN v ELSE Absent] :
        v \in {Absent, [ts |-> 2, hasId |-> TRUE, from |-> 0],
               [ts |-> 1, hasId |-> FALSE, from |-> 0]}}
=============================================================================
