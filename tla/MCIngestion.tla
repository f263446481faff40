---------------------------- MODULE MCIngestion ----------------------------
(* The constants of the TLC runs of Ingestion.                             *)
EXTENDS Ingestion

CONSTANTS d1, d2

Request(k, r, S) == [kind |-> k, rules |-> r, targets |-> S]
AllRequests == {Request("file", "none", Stores),
                Request("connector", "chunking", {"regular"}),
                Request("text", "none", {"regular"})}

OneFile == {Request("file", "none", {"regular"})}
OtherRules == {Request("file", "other", {"regular"})}
=============================================================================
