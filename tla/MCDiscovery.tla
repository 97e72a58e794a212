---------------------------- MODULE MCDiscovery ----------------------------
(* Two active nodes and two topics.  Node ann runs a walker, bob accepts its
   sessions; they find each other, and cyd, on the local network, and may add
   each other as bootstraps. *)
EXTENDS Discovery

CONSTANTS ann, bob, cyd, w1, t1, t2, home, away

MCWalkers ==
    [w \in {w1} |-> ann]

MCMayBlock ==
    {<<bob, ann>>}

MCFirstAddr ==
    [n \in {ann, bob, cyd} |-> IF n = ann THEN away ELSE home]

MCFirstTopics ==
    [n \in {ann, bob} |-> IF n = ann THEN {t1, t2} ELSE {t1}]

MCBootstraps ==
    [n \in {ann, bob} |-> {}]

=============================================================================
