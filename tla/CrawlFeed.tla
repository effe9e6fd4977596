----------------------------- MODULE CrawlFeed -----------------------------
(***************************************************************************)
(* What iter_crawling_rows (apps/services/crawl_client.py) promises to its *)
(* consumer, import_from_crawl, apart from how it probes the crawl server: *)
(* the rows of the server are settled in ascending id order, each of them  *)
(* either delivered in a page or passed over by a skipped range, and a     *)
(* range is skipped only because of the broken row it ends with, until an  *)
(* outage makes the server answer 500 for a healthy row.                   *)
(***************************************************************************)
EXTENDS Integers

VARIABLES
    rows,           \* ids of the rows the crawl server holds
    broken,         \* those the server cannot serve: a page with one is a 500
    outage,         \* the server has answered 500 for healthy rows
    pos,            \* every row below pos is settled
    delivered,      \* ids yielded to the consumer
    skips,          \* ranges <<first, last>> reported through on_skip
    status          \* "open", "done" (the generator returned) or "failed"

vars == <<rows, broken, outage, pos, delivered, skips, status>>

From(o) == {r \in rows : r >= o}

(* The rows passed over by the reported ranges. *)
Passed == {r \in rows : \E s \in skips : s[1] <= r /\ r <= s[2]}

Init ==
    /\ broken \subseteq rows
    /\ outage = FALSE
    /\ pos \in Nat
    /\ delivered = {}
    /\ skips = {}
    /\ status = "open"

(* The rows from pos to m are delivered together. *)
Deliver(m) ==
    /\ status = "open"
    /\ {r \in From(pos) : r <= m} \cap broken = {}
    /\ delivered' = delivered \cup {r \in From(pos) : r <= m}
    /\ pos' = m + 1
    /\ UNCHANGED <<rows, broken, outage, skips, status>>

(* The last rows are delivered, or there were none left: the feed ends. *)
Finish ==
    /\ status = "open"
    /\ From(pos) \cap broken = {}
    /\ delivered' = delivered \cup From(pos)
    /\ status' = "done"
    /\ UNCHANGED <<rows, broken, outage, pos, skips>>

(* The offsets from pos up to the next position are given up, because of  *)
(* the last of them.                                                      *)
Skip ==
    /\ status = "open"
    /\ pos' > pos
    /\ outage => outage'
    /\ pos' - 1 \in broken \/ outage'
    /\ skips' = skips \cup {<<pos, pos' - 1>>}
    /\ UNCHANGED <<rows, broken, delivered, status>>

(* The connection fails for good, or the server keeps answering 500. *)
Fail ==
    /\ status = "open"
    /\ outage => outage'
    /\ status' = "failed"
    /\ UNCHANGED <<rows, broken, pos, delivered, skips>>

(* The server answers 500 for healthy rows. *)
Outage ==
    /\ outage' = TRUE
    /\ UNCHANGED <<rows, broken, pos, delivered, skips, status>>

Next ==
    \/ \E m \in From(pos) : Deliver(m)
    \/ Finish
    \/ Skip
    \/ Fail
    \/ Outage

Spec == Init /\ [][Next]_vars
=============================================================================
