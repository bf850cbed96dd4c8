----------------------------- MODULE MCStorage -----------------------------
(* An instance of Storage for TLC. *)
EXTENDS Storage, TLC

CONSTANTS pool, dash, underscore, own, shared

(* dex names "a-b" and "a_b" give one file name *)
MCSnapshotPath == (pool :> own) @@ (dash :> shared) @@ (underscore :> shared)

MCMaxEvents == (pool :> 2) @@ (dash :> 1) @@ (underscore :> 1)
=============================================================================
