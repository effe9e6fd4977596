--------------------------- MODULE MCVehicleStore ---------------------------
(* An instance of VehicleStore for TLC. *)
EXTENDS VehicleStore

CONSTANTS a, b, c

ThreeProcs == {a, b, c}
TwoCars == {1, 2}

Colors == "white" :> "white" @@ "pearl" :> "white" @@ "red" :> "red"

(* Every row of the input has an inspection of its own: its stamp. *)
Car(car, stamp, id, color, fuel, grade) ==
    [car |-> car, stamp |-> stamp, id |-> id, color |-> color, fuel |-> fuel, grade |-> grade,
     inspected |-> stamp]

Gas == {"gasoline"}
Lpg == {"lpg"}
Other == {"text"}

Roles == a :> {"import"} @@ b :> {"import", "bulk"} @@ c :> Kinds

(* The first and the second process meet the cars in two orders.  The      *)
(* second has a newer row without an id, which an older row of its chunk   *)
(* fills in; the third a row without a stamp and then the newest.          *)
Given ==
    a :> << <<Car(1, 2, TRUE, "red", Gas, Gas), Car(2, 1, TRUE, "red", Lpg, Gas)>> >>
    @@ b :> << <<Car(2, 2, TRUE, "pearl", Lpg, Gas), Car(1, 3, FALSE, "pearl", Lpg, Gas),
                 Car(1, 1, TRUE, "pearl", Lpg, Gas)>> >>
    @@ c :> << <<Car(1, 0, TRUE, "red", Gas, Gas)>>, <<Car(1, 4, TRUE, "white", Gas, Other)>> >>

(* One car is stored, by an older version that kept no source_id. *)
OneOld ==
    1 :> [stamp |-> 1, id |-> FALSE, color |-> "pearl", alias |-> "pearl", fuel |-> Other,
          grade |-> Gas, inspected |-> 1]
    @@ 2 :> Absent
=============================================================================
