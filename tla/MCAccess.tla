----------------------------- MODULE MCAccess -----------------------------
(* An instance of Access for TLC. *)
EXTENDS Access

CONSTANTS w1, w2, root, ann, bob, pw, other, key, s1, s2

TwoWorkers == {w1, w2}
ThreeNames == {root, ann, bob}
TwoPasswords == {pw, other}
OneKey == {key}
TwoSecrets == {s1, s2}
=============================================================================
