------------------------------- MODULE MCScrape ------------------------------
(* Scrape with three targets: one named api, one without a name, one named   *)
(* www, on a host where API and api are different pools.                     *)
EXTENDS Scrape

MCNames == {"api", "API", "www"}
MCFold == [n \in MCNames |-> IF n = "API" THEN "api" ELSE n]
MCAsked == <<"api", "", "www">>
MCConfs == {{"api", "API"}, {"API", "www"}}

=============================================================================
