--------------------------- MODULE MCCrawlCursor ---------------------------
(* Instances of CrawlCursor for TLC. *)
EXTENDS CrawlCursor

(* ids with growing gaps, where the jumps run past several rows *)
SparseIds == {1, 2, 5, 12, 27}
=============================================================================
