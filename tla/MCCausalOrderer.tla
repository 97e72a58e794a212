-------------------------- MODULE MCCausalOrderer ---------------------------
(* Instances of CausalOrderer: items are numbered along the graph.         *)
EXTENDS CausalOrderer, SequencesExt

\* Lists without duplicates; an item depends on lower numbers only, so that
\* every graph is acyclic.
Lists(i) == {SetToSortSeq(S, <) : S \in SUBSET (1..(i - 1))}

Dags == {g \in [ID -> UNION {Lists(i) : i \in ID}] : \A i \in ID : g[i] \in Lists(i)}

\* The graph of the test partial_order: 2 <- 1, 3 <- 2, 4 <- {2, 3}.
TestGraph == {<< <<>>, <<1>>, <<2>>, <<2, 3>> >>}
=============================================================================
