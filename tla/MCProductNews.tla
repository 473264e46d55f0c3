---- MODULE MCProductNews ----
(* Small instances of ProductNews for TLC: addresses and workers are        *)
(* interchangeable in the runs that check no liveness property.             *)
EXTENDS ProductNews, TLC

Interchangeable == Permutations(Subscribers) \union Permutations(Workers)
====
