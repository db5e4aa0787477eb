----------------------------- MODULE PeersConf -----------------------------
(***************************************************************************)
(* The peer registry and its file, peers.conf (peers_parser.rs,             *)
(* peers_registry.rs, peers_types.rs, and load_shared_secret of auth.rs).   *)
(*                                                                          *)
(* The file is a sequence of sections, edited by hand or written by `save`; *)
(* the registry is what `load` makes of it.  Fields of a peer other than    *)
(* its role and aliases are carried along the same way and left out.        *)
(***************************************************************************)
EXTENDS Naturals, FiniteSets, SequencesExt

CONSTANTS Host,         \* host names, without case and suffix
          Role,         \* roles of a peer
          Key,          \* shared secrets
          Sections,     \* bound: the sections an editor may add
          Newcomers,    \* bound: the names under which add_peer is called
          MaxSections   \* bound: sections of a file edited by hand

\* A name is a host name in lower or mixed case, with ".local" or without.
Name == [host : Host \cup {"mesh"}, mixed : BOOLEAN, local : BOOLEAN]

MeshName == [host |-> "mesh", mixed |-> FALSE, local |-> FALSE]

\* canonical_peer_name: lower case, no ".local".
Canon(n) == [n EXCEPT !.mixed = FALSE, !.local = FALSE]

Empty == "empty"    \* `shared_secret=` with no value, and no secret at all

\* A section: its name, the values of its shared_secret lines in order, and
\* the peer it describes; `complete` when no required field is missing.
Section == [name : Name, secrets : Seq(Key \cup {Empty}), complete : BOOLEAN,
            role : Role, aliases : SUBSET Name]

ASSUME SectionsAssumption == Sections \subseteq Section
ASSUME NewcomersAssumption == Newcomers \subseteq Name /\ Empty \notin Key
ASSUME RoleAssumption == Role # {}

PeerConfig == [role : Role, aliases : SUBSET Name]

NoRegistry == [secret |-> Empty, peers |-> <<>>, ok |-> FALSE]
NewRegistry == [secret |-> Empty, peers |-> <<>>, ok |-> TRUE]

Names(reg) == DOMAIN reg.peers

\* The peer p under the name n, in place of one that was there.
Put(reg, n, p) ==
  [reg EXCEPT !.peers = [m \in Names(reg) \cup {n} |-> IF m = n THEN p ELSE @[m]]]

-----------------------------------------------------------------------------
\* flush_section: what one section adds to the registry.

\* Slip: a section [mesh] without a secret unsets it.
FlushMeshResets(reg, s) ==
  [reg EXCEPT !.secret = IF s.secrets = <<>> THEN Empty ELSE Last(s.secrets)]

\* `[mesh]`, spelled like that: the last shared_secret line counts.
FlushMesh(reg, s) ==
  IF s.secrets = <<>> THEN reg ELSE [reg EXCEPT !.secret = Last(s.secrets)]

\* The first section of an identity defines the peer.
Define(reg, s) ==
  LET c == Canon(s.name)
      raw == IF s.name = c THEN {} ELSE {s.name}
  IN  Put(reg, c, [role |-> s.role, aliases |-> s.aliases \cup raw])

\* Slip: a later section of an identity replaces the peer.
MergeReplaces(reg, s) ==
  LET c == Canon(s.name)
  IN  [reg EXCEPT !.peers[c] = [role |-> s.role,
                                aliases |-> s.aliases \cup ({s.name} \ {c})]]

\* Slip: the section's aliases are merged, its own name is not.
MergeForgetsName(reg, s) ==
  [reg EXCEPT !.peers[Canon(s.name)].aliases = @ \cup (s.aliases \ {Canon(s.name)})]

\* A later section of an identity only adds names.
Merge(reg, s) ==
  LET c == Canon(s.name)
  IN  [reg EXCEPT !.peers[c].aliases = @ \cup ((s.aliases \cup {s.name}) \ {c})]

\* Slip: a section without a required field ends the load, what came before it
\* stays.
FlushKeepsRest(reg, s) ==
  IF ~reg.ok THEN reg
  ELSE IF s.name = MeshName THEN FlushMesh(reg, s)
  ELSE IF ~s.complete THEN [reg EXCEPT !.ok = FALSE]
  ELSE IF Canon(s.name) \in Names(reg) THEN Merge(reg, s)
  ELSE Define(reg, s)

\* A section without a required field fails the whole file.
Flush(reg, s) ==
  IF ~reg.ok THEN reg
  ELSE IF s.name = MeshName THEN FlushMesh(reg, s)
  ELSE IF ~s.complete THEN NoRegistry
  ELSE IF Canon(s.name) \in Names(reg) THEN Merge(reg, s)
  ELSE Define(reg, s)

\* parse_ini: what it has in hand after each number of sections, and at the end.
After(sections) ==
  LET after[i \in 0 .. Len(sections)] ==
        IF i = 0 THEN NewRegistry ELSE Flush(after[i - 1], sections[i])
  IN  after

Parse(sections) == After(sections)[Len(sections)]

\* A section `[mesh]` spelled in any case.
MeshLike(s) == s.name.host = "mesh" /\ ~s.name.local

\* The shared_secret lines of a section that have a value.
Given(s) == {j \in DOMAIN s.secrets : s.secrets[j] # Empty}

\* load_shared_secret, of the requests that are not heartbeats and of every
\* verification: the first line with a value, in a section `[mesh]` spelled in
\* any case.
AuthSecret(sections) ==
  LET mesh == {i \in DOMAIN sections : MeshLike(sections[i]) /\ Given(sections[i]) # {}}
      s == sections[Min(mesh)]
  IN  IF mesh = {} THEN Empty ELSE s.secrets[Min(Given(s))]

-----------------------------------------------------------------------------
\* The order of the names of one host: upper case sorts before lower case, and a
\* name before the same name with ".local".
Before(m, n) ==
  /\ m.host = n.host
  /\ (m.mixed /\ ~n.mixed) \/ (m.mixed = n.mixed /\ ~m.local /\ n.local)

\* The ways to list names in that order; unlike the code's, it leaves open in
\* which order different hosts come.
Orders(names) == {s \in [1 .. Cardinality(names) -> names] :
                    /\ \A n \in names : \E i \in DOMAIN s : s[i] = n
                    /\ \A i, j \in DOMAIN s : i < j => ~Before(s[j], s[i])}

\* Slip: the aliases of a peer are not written.
PeerSectionNoAliases(n, p) ==
  [name |-> n, secrets |-> <<>>, complete |-> TRUE, role |-> p.role, aliases |-> {}]

PeerSection(n, p) ==
  [name |-> n, secrets |-> <<>>, complete |-> TRUE, role |-> p.role, aliases |-> p.aliases]

MeshSection(secret) ==
  [name |-> MeshName, secrets |-> <<secret>>, complete |-> FALSE,
   role |-> CHOOSE r \in Role : TRUE, aliases |-> {}]

\* PeersRegistry::save: the secret, then the peers in the order of their names.
Texts(reg) == {<<MeshSection(reg.secret)>> \o
                 [i \in DOMAIN s |-> PeerSection(s[i], reg.peers[s[i]])] :
                   s \in Orders(Names(reg))}

\* get_peer: a peer by its name or, failing that, one that has the alias.
Lookup(reg, n) ==
  IF n \in Names(reg) THEN {n} ELSE {m \in Names(reg) : n \in reg.peers[m].aliases}

-----------------------------------------------------------------------------
VARIABLES file,   \* the contents of peers.conf
          reg     \* the registry last loaded, as modified since

vars == <<file, reg>>

Init == file = <<>> /\ reg = NoRegistry

HandEdit(s) == /\ Len(file) < MaxSections
               /\ file' = Append(file, s)
               /\ UNCHANGED reg

Load == reg' = Parse(file) /\ UNCHANGED file

Save == reg.ok /\ file' \in Texts(reg) /\ UNCHANGED reg

AddPeer(n, p) == /\ reg.ok
                 /\ reg' = Put(reg, n, p)
                 /\ UNCHANGED file

RemovePeer(n) == /\ reg.ok
                 /\ reg' = [reg EXCEPT !.peers = Restrict(@, DOMAIN @ \ {n})]
                 /\ UNCHANGED file

UpdateRole(n, r) == /\ reg.ok /\ n \in Names(reg)
                    /\ reg' = [reg EXCEPT !.peers[n].role = r]
                    /\ UNCHANGED file

Next ==
  \/ \E s \in Sections : HandEdit(s)
  \/ Load \/ Save
  \/ \E n \in Newcomers, r \in Role : AddPeer(n, [role |-> r, aliases |-> {}])
  \/ \E n \in Names(reg) : \/ RemovePeer(n)
                           \/ \E r \in Role : UpdateRole(n, r)

Spec == Init /\ [][Next]_vars

-----------------------------------------------------------------------------
\* Names and roles are what they should be, and a load that fails leaves no part
\* of the file in the registry (parse_ini returns the error, not the map).
TypeOK ==
  /\ \A i \in DOMAIN file : file[i].name \in Name /\ file[i].role \in Role
  /\ reg.ok \in BOOLEAN /\ reg.secret \in Key \cup {Empty}
  /\ Names(reg) \subseteq Name
  /\ \A n \in Names(reg) : reg.peers[n] \in PeerConfig
  /\ ~reg.ok => reg = NoRegistry

\* The peers are listed under canonical names, none of which is "mesh".
WellNamed(r) == \A n \in Names(r) : n = Canon(n) /\ n # MeshName

\* Saving such a registry and loading it again gives the same registry, whatever
\* was merged into it, added, removed or changed (PeersRegistry::save and load).
RoundTrip == reg.ok /\ WellNamed(reg) => \A text \in Texts(reg) : Parse(text) = reg

PeerSections == {i \in DOMAIN file : file[i].name # MeshName}

\* Sections whose names differ only in case and ".local" are one peer, with
\* the first section's fields and every name any of them had: what the parser
\* computes section by section, stated of the whole file.
OneIdentity ==
  LET r == Parse(file)
      same(c) == {i \in PeerSections : Canon(file[i].name) = c}
      first(c) == CHOOSE i \in same(c) : \A j \in same(c) : i <= j
  IN  r.ok =>
        /\ Names(r) = {Canon(file[i].name) : i \in PeerSections}
        /\ \A c \in Names(r) :
             /\ r.peers[c].role = file[first(c)].role
             /\ r.peers[c].aliases \ {c} =
                  (UNION {file[i].aliases \cup {file[i].name} : i \in same(c)}) \ {c}

\* A peer is found under every name a section of the file gave it, unless
\* another section claims that name for an alias.
NamesFound ==
  LET r == Parse(file)
  IN  r.ok => \A i \in PeerSections :
        (\A j \in PeerSections : file[i].name \in file[j].aliases
                                   => Canon(file[j].name) = Canon(file[i].name))
          => Lookup(r, file[i].name) = {Canon(file[i].name)}

\* The secret that signs heartbeats (sync_loop.rs) is the one that signs every
\* other request and that the receiver verifies with (auth.rs), whatever else the
\* file holds, if all sections [mesh] are spelled so and have one line between them.
OneSecret ==
  LET mesh == {i \in DOMAIN file : MeshLike(file[i])}
      lines == UNION {{i} \X DOMAIN file[i].secrets : i \in mesh}
  IN  (\A l, m \in lines : l = m) /\ (\A i \in mesh : file[i].name = MeshName) /\ Parse(file).ok
        => Parse(file).secret = AuthSecret(file)
=============================================================================
