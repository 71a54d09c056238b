------------------------- MODULE MCCloudflareWorker -------------------------
(* TLC instance of CloudflareWorker: requests, nodes and payloads only differ by name. *)
EXTENDS CloudflareWorker, TLC

Symmetry == Permutations(Handler) \cup Permutations(NodeID) \cup Permutations(Version)
=============================================================================
