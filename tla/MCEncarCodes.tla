---------------------------- MODULE MCEncarCodes ----------------------------
(* A small code hierarchy in two editions, and two listings of a car. *)
EXTENDS EncarCodes

MCLabels ==
    {"", "A", "B", "M", "N", "D", "E", "G1", "G2", "Gx", "I", "S 2WD", "S 4WD", "Sx"}

(* normalize_label drops the drive: both S become the same. *)
MCNorm == [l \in MCLabels |-> IF l \in {"S 2WD", "S 4WD"} THEN "S" ELSE l]

(* Gx is near to G1 and G2 alike, Sx to S. *)
MCScore == [ab \in {MCNorm[l] : l \in MCLabels} \X {MCNorm[l] : l \in MCLabels} |->
    CASE "" \in {ab[1], ab[2]} -> 0
      [] ab[1] = ab[2] -> 100
      [] {ab[1], ab[2]} \in {{"Gx", "G1"}, {"Gx", "G2"}, {"Sx", "S"}} -> 80
      [] OTHER -> 0]
MCAlias == [l \in MCLabels |-> IF l = "B" THEN "A" ELSE l]

C(no, parent, name) == [no |-> no, parent |-> parent, name |-> name]

(* Model M has no detailed model, N has two with a grade each. *)
MCFormer == <<
    << C(1, 0, "A") >>,
    << C(1, 1, "M"), C(2, 1, "N") >>,
    << C(1, 2, "D"), C(2, 2, "E") >>,
    << C(1, 1, "G1"), C(2, 2, "G2") >>,
    << C(1, 1, "S 2WD"), C(2, 1, "S 4WD") >> >>
(* The later edition gives a grade another name. *)
MCFiles == [MCFormer EXCEPT ![4] = << C(1, 1, "I"), C(2, 2, "G2") >>]

MCOrder == [p \in Procs |-> IF p = Importer THEN "up" ELSE "down"]

MCListings == {
    <<"B", "N", "", "Gx", "Sx">>,   \* an alias, no detailed model, near labels
    <<"A", "M", "E", "G2", "">> }   \* a model without grades, a grade of another
=============================================================================
