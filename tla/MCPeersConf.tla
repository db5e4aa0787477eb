---------------------------- MODULE MCPeersConf ----------------------------
(***************************************************************************)
(* Instances of PeersConf for TLC.                                          *)
(***************************************************************************)
EXTENDS PeersConf

Named(h) == [host : {h}, mixed : BOOLEAN, local : BOOLEAN]

PeerSectionsOf(names, aliases) ==
  [name : names, secrets : {<<>>}, complete : {TRUE}, role : Role, aliases : aliases]

MeshSectionsOf(secrets) ==
  [name : {MeshName, [MeshName EXCEPT !.mixed = TRUE]}, secrets : secrets,
   complete : BOOLEAN, role : {CHOOSE r \in Role : TRUE}, aliases : {{}}]

Broken == [name : {[host |-> h, mixed |-> FALSE, local |-> FALSE] : h \in Host},
           secrets : {<<>>}, complete : {FALSE}, role : Role, aliases : {{}}]

AllNames == UNION {Named(h) : h \in Host}

\* At most one alias in a section, and at most one line with a secret.
PlainSections ==
  PeerSectionsOf(AllNames, {{}} \cup {{n} : n \in AllNames}) \cup Broken
    \cup MeshSectionsOf({<<>>} \cup {<<k>> : k \in Key \cup {Empty}})

\* add_peer is called with canonical names.
Canonical == {n \in AllNames : n = Canon(n)}
=============================================================================
