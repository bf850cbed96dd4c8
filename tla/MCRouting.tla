----------------------------- MODULE MCRouting -----------------------------
(* Instances of Routing for TLC. *)
EXTENDS Routing, TLC

CONSTANTS old, v3, n1, n2, n3, fork, w, x, y, z, t0, t1

(* pairs that connect to w only one after the other, and a way round by a *)
(* pair of another factory                                                 *)
MCTokensOf == (old :> <<w, x>>) @@ (v3 :> <<w, x>>) @@ (n1 :> <<x, w>>) @@ (n2 :> <<y, x>>)
                @@ (n3 :> <<y, z>>) @@ (fork :> <<z, w>>) @@ (Sample :> <<t0, t1>>)

Config(boot2, boot3, list, n, provider) ==
    [v2 |-> boot2, v3 |-> boot3, whitelist |-> list, samples |-> n, http |-> provider]

MCConfigs ==
    {Config({}, {}, list, 0, TRUE) : list \in {Anything, {w}}}
        \cup {Config({old}, {v3}, {w}, 0, provider) : provider \in BOOLEAN}
        \cup {Config({old}, {v3}, list, 1, TRUE) : list \in {Anything, {w}}}
=============================================================================
