--------------------------- MODULE MCCrawlImport ---------------------------
(* Instances of CrawlImport for TLC. *)
EXTENDS CrawlImport

Four == 1..4
Cars == {"a", "b", "c", "d"}

(* Every row is another car; the last one may be rejected, so that a *)
(* collect can complete before a start it had saved.                 *)
DistinctCars ==
    {f \in [Four -> [key : Cars, ts : 1..4, ok : BOOLEAN]] :
        \A i \in Four :
            /\ f[i].key = <<"a", "b", "c", "d">>[i]
            /\ f[i].ts = i
            /\ f[i].ok \/ i = 4}

(* The server lists cars again: any two rows may be of one car. *)
RepeatedCars ==
    {f \in [Four -> [key : {"a", "b", "c"}, ts : 1..4, ok : {TRUE}]] :
        \A i \in Four : f[i].ts = i}
=============================================================================
