----------------------------- MODULE MCMeshSync -----------------------------
(***************************************************************************)
(* Instances of MeshSync for TLC: meshes of two and three nodes.            *)
(***************************************************************************)
EXTENDS MeshSyncInv, TLC

\* Every node has one address.
OneEach == {<<n, 1>> : n \in Node}

\* A node that writes is reached under two addresses.
TwoAtOne == LET one == CHOOSE n \in Writers : TRUE
            IN  OneEach \cup {<<one, 2>>}
AtNode == [a \in Addr |-> a[1]]

\* A node that writes is in every registry, its own included.
SelfListed == LET odd == CHOOSE n \in Writers : TRUE
              IN  [n \in Node |-> {odd}]

\* Every node has every other node in its registry.
FullMesh == [n \in Node |-> Node \ {n}]

\* All nodes know one whose services do not write, and which knows nobody.
Hub == LET hub == CHOOSE n \in Node \ Writers : TRUE
       IN  [n \in Node |-> IF n = hub THEN {} ELSE {hub}]

\* All clocks agree.
NoSkew == [n \in Node |-> 0]

\* The clock of a node that writes is a second ahead of the others.
OneAhead == LET fast == CHOOSE n \in Writers : TRUE
            IN  [n \in Node |-> IF n = fast THEN 1 ELSE 0]

RowPostSymmetry == Permutations(Row) \cup Permutations(PostId)
FullSymmetry == RowPostSymmetry \cup Permutations(Node)
=============================================================================
