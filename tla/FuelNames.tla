----------------------------- MODULE FuelNames -----------------------------
(***************************************************************************)
(* normalize_fuel and infer_fuel of apps/services/encar_fuel.py, _alias of *)
(* apps/services/encar_attrs.py.                                           *)
(*                                                                         *)
(* A label is the set of the fragments its text is made of that the rules  *)
(* look for, Korean and English spellings of a fragment being one, with    *)
(* "text" for anything else.  The standard name of a fuel is the label     *)
(* with that fragment alone.  The empty label is a missing value.          *)
(***************************************************************************)
EXTENDS Integers, Sequences, FiniteSetsExt, TLC

CONSTANT Attr       \* _MISSION_ALIASES, _COLOR_ALIASES or _TYPE_ALIASES:
                    \* the standard name of each value, itself if it has none

(* Values of the tables are not keys of them with another value. *)
ASSUME AttrAssumption == \A a \in DOMAIN Attr : Attr[a] \in DOMAIN Attr /\ Attr[Attr[a]] = Attr[a]

Fragments == {"gasoline", "petrol", "diesel", "lpg", "hybrid", "electric", "hydrogen",
              "ev", "cng", "+", "text"}

(* ENCAR_FUELS *)
Standard == {{f} : f \in {"gasoline", "diesel", "lpg", "hybrid", "electric", "hydrogen"}}

(* _ALIASES, the entries that the rules below would not give: the whole    *)
(* text is the key.                                                        *)
Alias == [label \in {{"gasoline", "electric"}, {"diesel", "electric"}} |-> {"hybrid"}]

(* The tests on parts of the text, in their order. *)
Rules == << <<{"hydrogen"}, {"hydrogen"}>>,
            <<{"hybrid"}, {"hybrid"}>>,
            <<{"electric", "+"}, {"hybrid"}>>,
            <<{"ev"}, {"electric"}>>,
            <<{"cng"}, {"cng"}>>,
            <<{"diesel"}, {"diesel"}>>,
            <<{"lpg"}, {"lpg"}>>,
            <<{"gasoline"}, {"gasoline"}>>,
            <<{"petrol"}, {"gasoline"}>> >>

Matching(label) == {i \in DOMAIN Rules : Rules[i][1] \subseteq label}

NormalizeFuel(label) ==
    IF label \in Standard THEN label
    ELSE IF label \in DOMAIN Alias THEN Alias[label]
    ELSE IF Matching(label) # {} THEN Rules[Min(Matching(label))][2]
    ELSE label

(* The grade says which fuel it is when the fuel does not. *)
InferFuel(fuel, grade) ==
    LET canon == NormalizeFuel(fuel)
        fromGrade == NormalizeFuel(grade)
    IN  IF canon \notin Standard /\ fromGrade \in Standard THEN fromGrade ELSE canon
=============================================================================
