------------------------ MODULE MCCapabilityRegistry ------------------------
(***************************************************************************)
(* Instances of CapabilityRegistry for TLC.                                 *)
(***************************************************************************)
EXTENDS CapabilityRegistry, TLC

CONSTANTS a, b, gpu, voice

Decl(k, v, t) == [name |-> k, version |-> v, tags |-> t]

\* Two names; the same name twice, then a name without tags.
SomeLists == {<<Decl(a, 2, {gpu, voice}), Decl(b, 1, {gpu})>>,
              <<Decl(b, 1, {voice}), Decl(b, 2, {gpu}), Decl(a, 1, {})>>}

SomeQueries == {[required |-> <<gpu, voice>>, min |-> 0],
                [required |-> <<gpu>>, min |-> 2],
                [required |-> <<>>, min |-> 0]}

\* No call and no peer is different from the others.
Alike == Permutations(Call) \cup Permutations(Peer)
=============================================================================
