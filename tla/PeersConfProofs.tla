-------------------------- MODULE PeersConfProofs --------------------------
(***************************************************************************)
(* Proofs of the properties of PeersConf, for every file and every          *)
(* registry: the parser is a scan over a sequence, so they are inductions   *)
(* over the number of sections read.                                        *)
(***************************************************************************)
EXTENDS PeersConf, LeastNumbers, FiniteSetTheorems, SequenceTheorems, TLAPS

-----------------------------------------------------------------------------
(* Sets of numbers.                                                          *)

\* The least number of a set, as Min has it.
LEMMA MinLeast ==
  ASSUME NEW T, T \subseteq Nat, T # {}
  PROVE  Min(T) \in T /\ \A m \in T : Min(T) <= m
  BY LeastNumber DEF Min

-----------------------------------------------------------------------------
(* The scan of the parser.                                                   *)

\* The recursive function After has the value its equation gives, at every place.
LEMMA AfterDef ==
  ASSUME NEW sections, Len(sections) \in Nat
  PROVE  /\ After(sections)[0] = NewRegistry
         /\ \A i \in 1 .. Len(sections) :
              After(sections)[i] = Flush(After(sections)[i - 1], sections[i])
<1> DEFINE N == Len(sections)
           F(g, i) == IF i = 0 THEN NewRegistry ELSE Flush(g[i - 1], sections[i])
           S == {n \in 0 .. N : \E g : g = [i \in 0 .. n |-> F(g, i)]}
<1>1. 0 \in S
  <2> DEFINE g == [i \in 0 .. 0 |-> NewRegistry]
  <2>1. g = [i \in 0 .. 0 |-> F(g, i)]
    OBVIOUS
  <2> HIDE DEF g, F
  <2> QED BY <2>1
<1>2. ASSUME NEW n \in 0 .. N - 1, n \in S
      PROVE  n + 1 \in S
  <2>1. PICK g : g = [i \in 0 .. n |-> F(g, i)]
    BY <1>2
  <2> DEFINE h == [i \in 0 .. n + 1 |-> IF i = n + 1 THEN Flush(g[n], sections[n + 1]) ELSE g[i]]
  <2>2. ASSUME NEW i \in 0 .. n + 1 PROVE h[i] = F(h, i)
    <3>1. CASE i = n + 1
      BY <3>1
    <3>2. CASE i # n + 1 /\ i # 0
      <4>1. i \in 0 .. n /\ i - 1 \in 0 .. n + 1 /\ i - 1 # n + 1
        BY <3>2
      <4>2. g[i] = F(g, i)
        BY <2>1, <4>1
      <4> QED BY <4>1, <4>2, <3>2
    <3>3. CASE i = 0
      <4>1. g[0] = F(g, 0)
        BY <2>1
      <4> QED BY <3>3, <4>1
    <3> QED BY <3>1, <3>2, <3>3
  <2>3. h = [i \in 0 .. n + 1 |-> F(h, i)]
    BY <2>2
  <2> HIDE DEF h, F
  <2>4. n + 1 \in 0 .. N
    OBVIOUS
  <2> QED BY <2>3, <2>4
<1>3. N \in S
  <2> HIDE DEF S
  <2>1. 0 .. N \subseteq S
    BY <1>1, <1>2, Induction
  <2> QED BY <2>1
<1>4. After(sections) = [i \in 0 .. N |-> F(After(sections), i)]
  <2>1. \E g : g = [i \in 0 .. N |-> F(g, i)]
    BY <1>3
  <2>2. After(sections) = CHOOSE g : g = [i \in 0 .. N |-> F(g, i)]
    BY DEF After
  <2> HIDE DEF F
  <2> QED BY <2>1, <2>2
<1> QED
  <2>1. ASSUME NEW i \in 0 .. N PROVE After(sections)[i] = F(After(sections), i)
    <3> HIDE DEF F
    <3> QED BY <1>4
  <2> QED BY <2>1

-----------------------------------------------------------------------------
(* Types.                                                                    *)

\* What the parser computes with: a finite map from names to peers, and
\* nothing at all after a failure.
IsRegistry(r) ==
  /\ r = [secret |-> r.secret, peers |-> r.peers, ok |-> r.ok]
  /\ r.secret \in Key \cup {Empty} /\ r.ok \in BOOLEAN
  /\ r.peers = [n \in Names(r) |-> r.peers[n]]
  /\ Names(r) \subseteq Name /\ IsFiniteSet(Names(r))
  /\ \A n \in Names(r) : r.peers[n] \in PeerConfig
  /\ ~r.ok => r = NoRegistry

\* The inductive invariant: the types, with what makes a text of the registry a
\* sequence of sections again.
IInv == file \in Seq(Section) /\ IsRegistry(reg)

\* Canonical names are names, and making a name canonical twice changes nothing more.
LEMMA CanonName ==
  /\ MeshName \in Name
  /\ \A n \in Name : Canon(n) \in Name /\ Canon(Canon(n)) = Canon(n)
  BY DEF Canon, Name, MeshName

\* The empty registry and the result of a failed parse are registries.
LEMMA NoRegistryType == IsRegistry(NoRegistry) /\ IsRegistry(NewRegistry)
<1>1. /\ \A n \in DOMAIN << >> : FALSE
      /\ << >> = [n \in DOMAIN << >> |-> << >>[n]]
      /\ DOMAIN << >> = {}
  OBVIOUS
<1>2. IsFiniteSet({})
  BY FS_EmptySet
<1> QED BY <1>1, <1>2 DEF IsRegistry, NoRegistry, NewRegistry, Names

\* A registry with its map of peers replaced, written field by field.
LEMMA WithPeers ==
  ASSUME NEW r, IsRegistry(r), NEW f
  PROVE  [r EXCEPT !.peers = f] = [secret |-> r.secret, peers |-> f, ok |-> r.ok]
  BY DEF IsRegistry

\* Adding or replacing one peer.
LEMMA PutType ==
  ASSUME NEW r, IsRegistry(r), r.ok, NEW n \in Name, NEW p \in PeerConfig
  PROVE  /\ IsRegistry(Put(r, n, p))
         /\ Put(r, n, p) =
              [secret |-> r.secret, ok |-> r.ok,
               peers |-> [m \in Names(r) \cup {n} |-> IF m = n THEN p ELSE r.peers[m]]]
<1> DEFINE q == Put(r, n, p)
           f == [m \in Names(r) \cup {n} |-> IF m = n THEN p ELSE r.peers[m]]
<1>2. q = [secret |-> r.secret, peers |-> f, ok |-> r.ok]
  <2>1. q = [r EXCEPT !.peers = f]
    BY DEF Put
  <2> HIDE DEF f
  <2> QED BY <2>1, WithPeers
<1>3. IsFiniteSet(Names(r) \cup {n})
  BY FS_AddElement DEF IsRegistry
<1>4. /\ Names(r) \subseteq Name
      /\ \A m \in Names(r) : r.peers[m] \in PeerConfig
      /\ r.secret \in Key \cup {Empty} /\ r.ok = TRUE
  BY DEF IsRegistry
<1> HIDE DEF q
<1>5. q.peers = f /\ q.secret = r.secret /\ q.ok = r.ok /\ Names(q) = Names(r) \cup {n}
  BY <1>2 DEF Names
<1>6. \A m \in Names(q) : q.peers[m] \in PeerConfig
  BY <1>4, <1>5
<1>7. q.peers = [m \in Names(q) |-> q.peers[m]]
  BY <1>5
<1>8. IsRegistry(q)
  <2> HIDE DEF f
  <2> QED BY <1>2, <1>3, <1>4, <1>5, <1>6, <1>7 DEF IsRegistry
<1> QED BY <1>2, <1>8 DEF q

\* Changing the configuration of a peer that is there.
LEMMA ChangeType ==
  ASSUME NEW r, IsRegistry(r), r.ok, NEW n \in Names(r), NEW p \in PeerConfig
  PROVE  /\ IsRegistry([r EXCEPT !.peers[n] = p])
         /\ Names([r EXCEPT !.peers[n] = p]) = Names(r)
         /\ \A m \in Names(r) :
              [r EXCEPT !.peers[n] = p].peers[m] = IF m = n THEN p ELSE r.peers[m]
<1> DEFINE f == [r.peers EXCEPT ![n] = p]
           q == [r EXCEPT !.peers = f]
<1>1. /\ r = [secret |-> r.secret, peers |-> r.peers, ok |-> r.ok]
      /\ r.secret \in Key \cup {Empty} /\ r.ok = TRUE
      /\ r.peers = [m \in Names(r) |-> r.peers[m]]
      /\ Names(r) \subseteq Name /\ IsFiniteSet(Names(r))
      /\ \A m \in Names(r) : r.peers[m] \in PeerConfig
  BY DEF IsRegistry
<1>2. f = [m \in Names(r) |-> IF m = n THEN p ELSE r.peers[m]]
  BY <1>1
<1>3. q = [secret |-> r.secret, peers |-> f, ok |-> r.ok]
  <2> HIDE DEF f
  <2> QED BY WithPeers
<1> HIDE DEF q, f
<1>4. q.peers = f /\ q.secret = r.secret /\ q.ok = r.ok /\ Names(q) = Names(r)
  BY <1>2, <1>3 DEF Names
<1>5. \A m \in Names(r) : f[m] = IF m = n THEN p ELSE r.peers[m]
  BY <1>2
<1>6. IsRegistry(q)
  BY <1>1, <1>2, <1>3, <1>4, <1>5 DEF IsRegistry
<1>7. [r EXCEPT !.peers[n] = p] = q
  BY DEF q, f
<1> QED BY <1>4, <1>5, <1>6, <1>7

\* Ending a section keeps the registry a registry (flush_section).
LEMMA FlushType ==
  ASSUME NEW r, IsRegistry(r), NEW s \in Section
  PROVE  IsRegistry(Flush(r, s))
<1>1. CASE ~r.ok
  BY <1>1 DEF Flush
<1>2. CASE r.ok /\ s.name = MeshName
  <2>1. s.secrets \in Seq(Key \cup {Empty})
    BY DEF Section
  <2>2. s.secrets # << >> => Last(s.secrets) \in Key \cup {Empty}
    BY <2>1 DEF Last
  <2>3. CASE s.secrets = << >>
    BY <1>2, <2>3 DEF Flush, FlushMesh
  <2>4. CASE s.secrets # << >>
    <3> DEFINE v == Last(s.secrets)
               q == [secret |-> v, peers |-> r.peers, ok |-> r.ok]
    <3> HIDE DEF v
    <3>1. v \in Key \cup {Empty}
      BY <2>2, <2>4 DEF v
    <3>2. [r EXCEPT !.secret = v] = q
      BY DEF IsRegistry
    <3>3. IsRegistry(q)
      BY <3>1, <1>2 DEF IsRegistry, Names
    <3> QED BY <1>2, <2>4, <3>2, <3>3 DEF Flush, FlushMesh, v
  <2> QED BY <2>3, <2>4
<1>3. CASE r.ok /\ s.name # MeshName /\ ~s.complete
  BY <1>3, NoRegistryType DEF Flush
<1>4. CASE r.ok /\ s.name # MeshName /\ s.complete
  <2>1. s.name \in Name /\ s.role \in Role /\ s.aliases \in SUBSET Name
    BY DEF Section
  <2>2. Canon(s.name) \in Name
    BY <2>1, CanonName
  <2>3. CASE Canon(s.name) \in Names(r)
    <3> DEFINE p == r.peers[Canon(s.name)]
               q == [p EXCEPT !.aliases = @ \cup ((s.aliases \cup {s.name}) \ {Canon(s.name)})]
    <3>1. p \in PeerConfig
      BY <2>3 DEF IsRegistry
    <3>2. q \in PeerConfig
      BY <3>1, <2>1 DEF PeerConfig
    <3>3. Flush(r, s) = [r EXCEPT !.peers[Canon(s.name)] = q]
      BY <1>4, <2>3 DEF Flush, Merge
    <3> HIDE DEF q
    <3> QED BY <3>2, <3>3, <1>4, <2>3, ChangeType
  <2>4. CASE Canon(s.name) \notin Names(r)
    <3> DEFINE p == [role |-> s.role,
                     aliases |-> s.aliases \cup (IF s.name = Canon(s.name) THEN {} ELSE {s.name})]
    <3>1. p \in PeerConfig
      BY <2>1 DEF PeerConfig
    <3>2. Flush(r, s) = Put(r, Canon(s.name), p)
      BY <1>4, <2>4 DEF Flush, Define
    <3> HIDE DEF p
    <3> QED BY <3>1, <3>2, <1>4, <2>2, PutType
  <2> QED BY <2>3, <2>4
<1> QED BY <1>1, <1>2, <1>3, <1>4

\* What holds of a new registry and is kept by each section holds of what is
\* parsed: here the types.
LEMMA AfterType ==
  ASSUME NEW sections \in Seq(Section)
  PROVE  \A i \in 0 .. Len(sections) : IsRegistry(After(sections)[i])
<1> DEFINE N == Len(sections)
           S == {n \in 0 .. N : IsRegistry(After(sections)[n])}
<1>1. 0 \in S
  BY AfterDef, NoRegistryType
<1>2. ASSUME NEW n \in 0 .. N - 1, n \in S PROVE n + 1 \in S
  <2>1. n + 1 \in 1 .. N /\ (n + 1) - 1 = n
    OBVIOUS
  <2>2. After(sections)[n + 1] = Flush(After(sections)[n], sections[n + 1])
    BY <2>1, AfterDef
  <2>3. sections[n + 1] \in Section
    BY <2>1, ElementOfSeq
  <2> QED BY <1>2, <2>1, <2>2, <2>3, FlushType
<1>3. 0 .. N \subseteq S
  <2> HIDE DEF S
  <2> QED BY <1>1, <1>2, Induction
<1> QED BY <1>3

\* Whatever the file says, parsing it gives a registry or fails.
LEMMA ParseType ==
  ASSUME NEW sections \in Seq(Section)
  PROVE  IsRegistry(Parse(sections))
  BY AfterType, LenProperties DEF Parse

\* What save writes: a section [mesh], then one section per name.
LEMMA TextSections ==
  ASSUME NEW r, IsRegistry(r), NEW text \in Texts(r)
  PROVE  /\ text \in Seq(Section)
         /\ \E s \in Orders(Names(r)) :
              /\ Cardinality(Names(r)) \in Nat
              /\ Len(text) = Cardinality(Names(r)) + 1
              /\ text[1] = MeshSection(r.secret)
              /\ \A i \in 1 .. Cardinality(Names(r)) :
                   text[i + 1] = PeerSection(s[i], r.peers[s[i]])
<1> DEFINE k == Cardinality(Names(r))
<1>1. PICK s \in Orders(Names(r)) :
        text = <<MeshSection(r.secret)>> \o
                 [i \in DOMAIN s |-> PeerSection(s[i], r.peers[s[i]])]
  BY DEF Texts
<1>2. k \in Nat /\ s \in [1 .. k -> Names(r)]
  BY FS_CardinalityType DEF IsRegistry, Orders
<1> DEFINE rest == [i \in 1 .. k |-> PeerSection(s[i], r.peers[s[i]])]
<1>3. ASSUME NEW n \in Names(r) PROVE PeerSection(n, r.peers[n]) \in Section
  <2>1. n \in Name /\ r.peers[n] \in PeerConfig
    BY DEF IsRegistry
  <2> QED BY <2>1 DEF PeerSection, Section, PeerConfig
<1>4. rest \in Seq(Section) /\ Len(rest) = k
  BY <1>2, <1>3
<1>5. MeshSection(r.secret) \in Section
  <2>1. (CHOOSE role \in Role : TRUE) \in Role
    BY RoleAssumption
  <2>2. r.secret \in Key \cup {Empty} /\ MeshName \in Name
    BY CanonName DEF IsRegistry
  <2> QED BY <2>1, <2>2 DEF MeshSection, Section
<1>6. <<MeshSection(r.secret)>> \in Seq(Section) /\ Len(<<MeshSection(r.secret)>>) = 1
  BY <1>5
<1>7. text = <<MeshSection(r.secret)>> \o rest
  BY <1>1, <1>2
<1> HIDE DEF rest
<1>8. /\ text \in Seq(Section) /\ Len(text) = 1 + k
      /\ \A i \in 1 .. 1 + k :
           text[i] = IF i <= 1 THEN <<MeshSection(r.secret)>>[i] ELSE rest[i - 1]
  BY <1>2, <1>4, <1>6, <1>7, ConcatProperties
<1>9. text[1] = MeshSection(r.secret)
  BY <1>2, <1>8
<1>10. ASSUME NEW i \in 1 .. k PROVE text[i + 1] = PeerSection(s[i], r.peers[s[i]])
  <2>1. i + 1 \in 1 .. 1 + k /\ ~(i + 1 <= 1) /\ (i + 1) - 1 = i
    BY <1>2
  <2>2. text[i + 1] = rest[i]
    BY <1>8, <2>1
  <2> QED BY <2>2 DEF rest
<1> QED BY <1>1, <1>2, <1>8, <1>9, <1>10

\* No file and an empty registry satisfy the invariant.
LEMMA TypesInit == Init => IInv
  BY NoRegistryType DEF Init, IInv

\* A hand edit, a load, a save and each change of the registry keep the invariant.
LEMMA TypesStep == IInv /\ [Next]_vars => IInv'
<1> SUFFICES ASSUME IInv, [Next]_vars PROVE IInv'
  OBVIOUS
<1> USE DEF IInv
<1>1. ASSUME NEW s \in Sections, HandEdit(s) PROVE IInv'
  BY <1>1, SectionsAssumption DEF HandEdit
<1>2. CASE Load
  BY <1>2, ParseType DEF Load
<1>3. CASE Save
  BY <1>3, TextSections DEF Save
<1>4. ASSUME NEW n \in Newcomers, NEW r \in Role, AddPeer(n, [role |-> r, aliases |-> {}])
      PROVE  IInv'
  <2>1. [role |-> r, aliases |-> {}] \in PeerConfig /\ n \in Name
    BY NewcomersAssumption DEF PeerConfig
  <2> QED BY <1>4, <2>1, PutType DEF AddPeer
<1>5. ASSUME NEW n \in Names(reg), RemovePeer(n) PROVE IInv'
  <2> DEFINE f == Restrict(reg.peers, Names(reg) \ {n})
  <2>1. f = [m \in Names(reg) \ {n} |-> reg.peers[m]]
    BY DEF Restrict
  <2>2. reg' = [reg EXCEPT !.peers = f]
    BY <1>5 DEF RemovePeer, Names
  <2>3. IsFiniteSet(Names(reg) \ {n})
    BY FS_RemoveElement DEF IsRegistry
  <2> HIDE DEF f
  <2>4. reg' = [secret |-> reg.secret, peers |-> f, ok |-> reg.ok]
    BY <2>2, WithPeers
  <2>5. Names(reg)' = Names(reg) \ {n} /\ reg.ok /\ file' = file
    BY <2>1, <2>4, <1>5 DEF Names, RemovePeer
  <2>6. \A m \in Names(reg) \ {n} : f[m] \in PeerConfig
    BY <2>1 DEF IsRegistry
  <2>7. IsRegistry(reg)'
    BY <2>1, <2>3, <2>4, <2>5, <2>6 DEF IsRegistry
  <2> QED BY <2>5, <2>7
<1>6. ASSUME NEW n \in Names(reg), NEW r \in Role, UpdateRole(n, r) PROVE IInv'
  <2> DEFINE p == [reg.peers[n] EXCEPT !.role = r]
  <2>1. p \in PeerConfig
    BY DEF IsRegistry, PeerConfig
  <2>2. reg' = [reg EXCEPT !.peers[n] = p] /\ reg.ok /\ file' = file
    BY <1>6 DEF UpdateRole
  <2> HIDE DEF p
  <2> QED BY <2>1, <2>2, ChangeType
<1>7. CASE UNCHANGED vars
  BY <1>7 DEF vars
<1> QED BY <1>1, <1>2, <1>3, <1>4, <1>5, <1>6, <1>7 DEF Next

\* The file is always a sequence of sections and the registry a finite map from
\* names to peers, empty after a load that failed.
THEOREM TypesTheorem == Spec => []IInv
<1> QED BY TypesInit, TypesStep, PTL DEF Spec

\* Names and roles are what they should be after any sequence of loads, saves,
\* hand edits and changes, and a load that fails leaves nothing in the registry.
THEOREM TypeCorrect == Spec => []TypeOK
<1>1. IInv => TypeOK
  <2> SUFFICES ASSUME IInv PROVE TypeOK
    OBVIOUS
  <2>1. \A i \in DOMAIN file : file[i] \in Section
    BY DEF IInv
  <2> QED BY <2>1 DEF TypeOK, IInv, IsRegistry, Section
<1> QED BY TypesTheorem, <1>1, PTL

-----------------------------------------------------------------------------
(* Identities.                                                               *)

\* The sections up to place i that describe a peer, and those of identity c.
Upto(sections, i) == {j \in 1 .. i : sections[j].name # MeshName}
Same(sections, i, c) == {j \in Upto(sections, i) : Canon(sections[j].name) = c}

\* What the registry r holds after i sections.
Scanned(sections, i, r) ==
  r.ok =>
    /\ Names(r) = {Canon(sections[j].name) : j \in Upto(sections, i)}
    /\ \A c \in Names(r) :
         /\ r.peers[c].role = sections[Min(Same(sections, i, c))].role
         /\ r.peers[c].aliases \ {c} =
              (UNION {sections[j].aliases \cup {sections[j].name} :
                       j \in Same(sections, i, c)}) \ {c}

\* A member of a set that no other is below is its minimum.
LEMMA MinSame ==
  ASSUME NEW T, T \subseteq Nat, NEW n \in T, \A m \in T : n <= m
  PROVE  Min(T) = n
<1> DEFINE m == Min(T)
<1>1. m \in T /\ m <= n
  BY MinLeast
<1> HIDE DEF m
<1>2. n <= m /\ n \in Nat /\ m \in Nat
  BY <1>1
<1>3. m = n
  BY <1>1, <1>2
<1> QED BY <1>3 DEF m

\* One more section: what the registry holds follows the sections read so far.
LEMMA ScanStep ==
  ASSUME NEW sections \in Seq(Section), NEW i \in 0 .. Len(sections) - 1,
         NEW r, IsRegistry(r), Scanned(sections, i, r)
  PROVE  Scanned(sections, i + 1, Flush(r, sections[i + 1]))
<1> DEFINE s == sections[i + 1]
           c == Canon(s.name)
           q == Flush(r, s)
<1> SUFFICES ASSUME q.ok PROVE Scanned(sections, i + 1, q)
  BY DEF Scanned
<1>1. s \in Section /\ i \in Nat /\ i + 1 \in 1 .. Len(sections)
  <2>1. i + 1 \in 1 .. Len(sections)
    OBVIOUS
  <2> QED BY <2>1, ElementOfSeq
<1>2. r.ok
  BY DEF Flush
<1>3. 1 .. i + 1 = (1 .. i) \cup {i + 1}
  BY <1>1
<1>4. CASE s.name = MeshName
  <2>1. Upto(sections, i + 1) = Upto(sections, i)
    BY <1>3, <1>4 DEF Upto
  <2>2. \A d : Same(sections, i + 1, d) = Same(sections, i, d)
    BY <2>1 DEF Same
  <2>3. q.peers = r.peers
    BY <1>2, <1>4 DEF Flush, FlushMesh, IsRegistry
  <2> QED BY <1>2, <2>1, <2>2, <2>3 DEF Scanned, Names
<1>5. CASE s.name # MeshName
  <2>1. s.complete
    BY <1>2, <1>5 DEF Flush, NoRegistry
  <2>2. Upto(sections, i + 1) = Upto(sections, i) \cup {i + 1}
    BY <1>3, <1>5 DEF Upto
  <2>3. /\ \A d : d # c => Same(sections, i + 1, d) = Same(sections, i, d)
        /\ Same(sections, i + 1, c) = Same(sections, i, c) \cup {i + 1}
    BY <2>2 DEF Same
  <2>4. \A d : Same(sections, i, d) \subseteq 1 .. i
    BY DEF Same, Upto
  <2>5. CASE c \in Names(r)
    <3> DEFINE p == [r.peers[c] EXCEPT !.aliases = @ \cup ((s.aliases \cup {s.name}) \ {c})]
    <3>1. r.peers[c] \in PeerConfig
      BY <2>5 DEF IsRegistry
    <3>2. /\ p \in PeerConfig /\ p.role = r.peers[c].role
          /\ p.aliases = r.peers[c].aliases \cup ((s.aliases \cup {s.name}) \ {c})
      BY <3>1, <1>1 DEF PeerConfig, Section
    <3>3. q = [r EXCEPT !.peers[c] = p]
      BY <1>2, <1>5, <2>1, <2>5 DEF Flush, Merge
    <3> HIDE DEF p, q
    <3>4. /\ Names(q) = Names(r)
          /\ \A m \in Names(r) : q.peers[m] = IF m = c THEN p ELSE r.peers[m]
      BY <1>2, <2>5, <3>2, <3>3, ChangeType
    <3>5. Names(q) = {Canon(sections[j].name) : j \in Upto(sections, i + 1)}
      BY <1>2, <2>2, <2>5, <3>4 DEF Scanned
    <3>6. ASSUME NEW d \in Names(q), d # c
          PROVE  /\ q.peers[d].role = sections[Min(Same(sections, i + 1, d))].role
                 /\ q.peers[d].aliases \ {d} =
                      (UNION {sections[j].aliases \cup {sections[j].name} :
                               j \in Same(sections, i + 1, d)}) \ {d}
      BY <1>2, <2>3, <3>4, <3>6 DEF Scanned
    <3>7. q.peers[c].role = sections[Min(Same(sections, i + 1, c))].role
      <4>1. Same(sections, i, c) # {}
        BY <1>2, <2>5 DEF Scanned, Same
      <4>2. /\ Min(Same(sections, i, c)) \in Same(sections, i, c)
            /\ \A j \in Same(sections, i, c) : Min(Same(sections, i, c)) <= j
        BY <4>1, <2>4, MinLeast
      <4>3. Min(Same(sections, i + 1, c)) = Min(Same(sections, i, c))
        <5> DEFINE m == Min(Same(sections, i, c))
                   T == Same(sections, i + 1, c)
        <5>1. m \in T /\ T \subseteq Nat /\ m \in 1 .. i
          BY <2>3, <2>4, <4>2
        <5> HIDE DEF m
        <5>2. \A j \in T : m <= j
          BY <2>3, <4>2, <5>1, <1>1 DEF m
        <5> HIDE DEF T
        <5>3. Min(T) = m
          BY <5>1, <5>2, MinSame
        <5> QED BY <5>3 DEF T, m
      <4> QED BY <1>2, <2>5, <3>2, <3>4, <4>3 DEF Scanned
    <3>8. q.peers[c].aliases \ {c} =
            (UNION {sections[j].aliases \cup {sections[j].name} :
                     j \in Same(sections, i + 1, c)}) \ {c}
      <4>1. r.peers[c].aliases \ {c} =
              (UNION {sections[j].aliases \cup {sections[j].name} :
                       j \in Same(sections, i, c)}) \ {c}
        BY <1>2, <2>5 DEF Scanned
      <4>2. q.peers[c].aliases \ {c} =
              (r.peers[c].aliases \ {c}) \cup ((s.aliases \cup {s.name}) \ {c})
        BY <2>5, <3>2, <3>4
      <4>3. UNION {sections[j].aliases \cup {sections[j].name} :
                     j \in Same(sections, i + 1, c)} =
              (UNION {sections[j].aliases \cup {sections[j].name} :
                       j \in Same(sections, i, c)}) \cup (s.aliases \cup {s.name})
        BY <2>3
      <4> QED BY <4>1, <4>2, <4>3
    <3> QED BY <3>5, <3>6, <3>7, <3>8 DEF Scanned
  <2>6. CASE c \notin Names(r)
    <3> DEFINE p == [role |-> s.role,
                     aliases |-> s.aliases \cup (IF s.name = c THEN {} ELSE {s.name})]
    <3>1. p \in PeerConfig /\ c \in Name
      BY <1>1, CanonName DEF PeerConfig, Section
    <3>2. q = Put(r, c, p)
      BY <1>2, <1>5, <2>1, <2>6 DEF Flush, Define
    <3>3. p.role = s.role /\ p.aliases \ {c} = (s.aliases \cup {s.name}) \ {c}
      OBVIOUS
    <3> HIDE DEF p, q
    <3>4. /\ Names(q) = Names(r) \cup {c}
          /\ \A m \in Names(q) : q.peers[m] = IF m = c THEN p ELSE r.peers[m]
      <4> DEFINE f == [m \in Names(r) \cup {c} |-> IF m = c THEN p ELSE r.peers[m]]
      <4>0. Put(r, c, p) = [secret |-> r.secret, ok |-> r.ok, peers |-> f]
        <5> HIDE DEF c
        <5> QED BY <1>2, <3>1, PutType
      <4>1. q.peers = f
        BY <3>2, <4>0
      <4>2. Names(q) = Names(r) \cup {c}
        BY <4>1 DEF Names
      <4> QED BY <4>1, <4>2
    <3>5. Names(q) = {Canon(sections[j].name) : j \in Upto(sections, i + 1)}
      BY <1>2, <2>2, <3>4 DEF Scanned
    <3>6. ASSUME NEW d \in Names(q), d # c
          PROVE  /\ q.peers[d].role = sections[Min(Same(sections, i + 1, d))].role
                 /\ q.peers[d].aliases \ {d} =
                      (UNION {sections[j].aliases \cup {sections[j].name} :
                               j \in Same(sections, i + 1, d)}) \ {d}
      BY <1>2, <2>3, <3>4, <3>6 DEF Scanned
    <3>7. Same(sections, i + 1, c) = {i + 1}
      BY <1>2, <2>3, <2>6 DEF Scanned, Same
    <3>8. Min({i + 1}) = i + 1
      <4> DEFINE T == {i + 1}
      <4>1. T \subseteq Nat /\ i + 1 \in T /\ \A m \in T : i + 1 <= m
        BY <1>1
      <4> HIDE DEF T
      <4>2. Min(T) = i + 1
        BY <4>1, MinSame
      <4> QED BY <4>2 DEF T
    <3>9. (UNION {sections[j].aliases \cup {sections[j].name} :
                    j \in Same(sections, i + 1, c)}) = s.aliases \cup {s.name}
      BY <3>7
    <3>10. /\ q.peers[c].role = sections[Min(Same(sections, i + 1, c))].role
           /\ q.peers[c].aliases \ {c} = (s.aliases \cup {s.name}) \ {c}
      BY <3>3, <3>4, <3>7, <3>8
    <3> QED BY <3>5, <3>6, <3>9, <3>10 DEF Scanned
  <2> QED BY <2>5, <2>6
<1> QED BY <1>4, <1>5

\* The registry parsed from a file holds what all of its sections say.
LEMMA ScanAll ==
  ASSUME NEW sections \in Seq(Section)
  PROVE  Scanned(sections, Len(sections), Parse(sections))
<1> DEFINE N == Len(sections)
           S == {n \in 0 .. N : Scanned(sections, n, After(sections)[n])}
<1>1. 0 \in S
  <2>1. Names(NewRegistry) = {} /\ Upto(sections, 0) = {}
    BY DEF Names, NewRegistry, Upto
  <2> QED BY <2>1, AfterDef DEF Scanned
<1>2. ASSUME NEW n \in 0 .. N - 1, n \in S PROVE n + 1 \in S
  <2>1. n + 1 \in 1 .. N /\ (n + 1) - 1 = n
    OBVIOUS
  <2>2. After(sections)[n + 1] = Flush(After(sections)[n], sections[n + 1])
    BY <2>1, AfterDef
  <2>3. IsRegistry(After(sections)[n])
    BY AfterType
  <2> QED BY <1>2, <2>1, <2>2, <2>3, ScanStep
<1>3. 0 .. N \subseteq S
  <2> HIDE DEF S
  <2> QED BY <1>1, <1>2, Induction
<1> QED BY <1>3 DEF Parse

\* Sections whose names differ only in case and ".local" are one peer, with the
\* first one's fields and all their names (flush_section), for every file.
THEOREM OneIdentityTheorem == Spec => []OneIdentity
<1>1. IInv => OneIdentity
  <2> SUFFICES ASSUME IInv PROVE OneIdentity
    OBVIOUS
  <2>1. file \in Seq(Section) /\ DOMAIN file = 1 .. Len(file)
    BY DEF IInv
  <2>2. Scanned(file, Len(file), Parse(file))
    BY <2>1, ScanAll
  <2>3. PeerSections = Upto(file, Len(file))
    BY <2>1 DEF PeerSections, Upto
  <2>4. \A c : {i \in PeerSections : Canon(file[i].name) = c} = Same(file, Len(file), c)
    BY <2>3 DEF Same
  <2> DEFINE r == Parse(file)
             same(c) == {i \in PeerSections : Canon(file[i].name) = c}
             first(c) == CHOOSE i \in same(c) : \A j \in same(c) : i <= j
  <2>5. \A c : same(c) = Same(file, Len(file), c) /\ first(c) = Min(Same(file, Len(file), c))
    BY <2>4 DEF Min
  <2>6. SUFFICES ASSUME r.ok
                 PROVE  /\ Names(r) = {Canon(file[i].name) : i \in PeerSections}
                        /\ \A c \in Names(r) :
                             /\ r.peers[c].role = file[first(c)].role
                             /\ r.peers[c].aliases \ {c} =
                                  (UNION {file[i].aliases \cup {file[i].name} : i \in same(c)}) \ {c}
    BY DEF OneIdentity
  <2> HIDE DEF same, first
  <2> QED BY <2>2, <2>3, <2>5, <2>6 DEF Scanned
<1> QED BY TypesTheorem, <1>1, PTL

\* A peer is found under every name a section gave it that no other peer claims
\* for an alias (get_peer after parse_ini), for every file.
THEOREM NamesFoundTheorem == Spec => []NamesFound
<1>1. IInv /\ OneIdentity => NamesFound
  <2> DEFINE r == Parse(file)
             same(c) == {i \in PeerSections : Canon(file[i].name) = c}
             names(c) == UNION {file[i].aliases \cup {file[i].name} : i \in same(c)}
  <2> SUFFICES ASSUME IInv, OneIdentity, r.ok, NEW i \in PeerSections,
                      \A j \in PeerSections : file[i].name \in file[j].aliases
                        => Canon(file[j].name) = Canon(file[i].name)
               PROVE  Lookup(r, file[i].name) = {Canon(file[i].name)}
    BY DEF NamesFound
  <2> DEFINE n == file[i].name
             c == Canon(n)
  <2>1. /\ Names(r) = {Canon(file[j].name) : j \in PeerSections}
        /\ \A d \in Names(r) : r.peers[d].aliases \ {d} = names(d) \ {d}
    BY DEF OneIdentity
  <2>2. \A j \in PeerSections : file[j].name \in Name
    <3>1. \A j \in DOMAIN file : file[j] \in Section
      BY DEF IInv
    <3> QED BY <3>1 DEF PeerSections, Section
  <2>3. CASE n \in Names(r)
    <3>1. Canon(n) = n
      BY <2>1, <2>2, <2>3, CanonName
    <3> QED BY <2>3, <3>1 DEF Lookup
  <2>4. CASE n \notin Names(r)
    <3>1. c \in Names(r) /\ c # n
      BY <2>1, <2>4
    <3>2. n \in names(c)
      OBVIOUS
    <3>3. n \in r.peers[c].aliases
      <4>1. r.peers[c].aliases \ {c} = names(c) \ {c}
        BY <2>1, <3>1
      <4> HIDE DEF names
      <4> QED BY <3>1, <3>2, <4>1
    <3>4. ASSUME NEW m \in Names(r), n \in r.peers[m].aliases PROVE m = c
      <4>1. r.peers[m].aliases \ {m} = names(m) \ {m}
        BY <2>1
      <4>2. n \in names(m)
        <5> HIDE DEF names
        <5> QED BY <2>4, <3>4, <4>1
      <4>3. PICK j \in same(m) : n \in file[j].aliases \cup {file[j].name}
        BY <4>2
      <4> QED BY <4>3
    <3> QED BY <2>4, <3>1, <3>3, <3>4 DEF Lookup
  <2> QED BY <2>3, <2>4
<1> QED BY TypesTheorem, OneIdentityTheorem, <1>1, PTL

-----------------------------------------------------------------------------
(* Saving and loading again.                                                 *)

\* A list of k different names in which each of k names occurs repeats none.
LEMMA OrderInjective ==
  ASSUME NEW names, IsFiniteSet(names), NEW s \in Orders(names)
  PROVE  \A i, j \in 1 .. Cardinality(names) : s[i] = s[j] => i = j
<1> DEFINE k == Cardinality(names)
<1>1. k \in Nat
  BY FS_CardinalityType
<1>2. s \in [1 .. k -> names] /\ \A n \in names : \E i \in 1 .. k : s[i] = n
  BY DEF Orders
<1>3. s \in Surjection(1 .. k, names)
  BY <1>2 DEF Surjection
<1>4. IsFiniteSet(1 .. k) /\ Cardinality(1 .. k) = k
  BY <1>1, FS_Interval
<1>5. s \in Injection(1 .. k, names)
  BY <1>3, <1>4, FS_SurjSameCardinalityImpliesInj
<1> QED BY <1>5 DEF Injection, IsInjective

\* What of the registry r is back after the first i names of s.
Back(r, s, i) == [secret |-> r.secret, ok |-> TRUE,
                  peers |-> [n \in {s[j] : j \in 1 .. i} |-> r.peers[n]]]

\* Reading the [mesh] section that save wrote restores the secret.
LEMMA MeshBack ==
  ASSUME NEW r, IsRegistry(r), NEW s
  PROVE  Flush(NewRegistry, MeshSection(r.secret)) = Back(r, s, 0)
<1> DEFINE m == MeshSection(r.secret)
<1>1. m.name = MeshName /\ m.secrets = <<r.secret>>
  BY DEF MeshSection
<1>2. m.secrets # << >> /\ Last(m.secrets) = r.secret
  BY <1>1 DEF Last
<1>3. {s[j] : j \in 1 .. 0} = {}
  OBVIOUS
<1>4. [n \in {s[j] : j \in 1 .. 0} |-> r.peers[n]] = << >>
  BY <1>3
<1> HIDE DEF m
<1>5. Flush(NewRegistry, m) = [NewRegistry EXCEPT !.secret = r.secret]
  BY <1>1, <1>2 DEF Flush, FlushMesh, NewRegistry
<1> QED BY <1>4, <1>5 DEF Back, NewRegistry, m

\* Reading the section that save wrote for the next name restores that peer.
LEMMA PeerBack ==
  ASSUME NEW r, IsRegistry(r), WellNamed(r), NEW s \in Orders(Names(r)),
         NEW i \in 0 .. Cardinality(Names(r)) - 1
  PROVE  Flush(Back(r, s, i), PeerSection(s[i + 1], r.peers[s[i + 1]])) = Back(r, s, i + 1)
<1> DEFINE k == Cardinality(Names(r))
           n == s[i + 1]
           m == PeerSection(n, r.peers[n])
           b == Back(r, s, i)
           done(l) == {s[j] : j \in 1 .. l}
<1>1. k \in Nat /\ i \in Nat /\ i + 1 \in 1 .. k /\ 1 .. i \subseteq 1 .. k
  BY FS_CardinalityType DEF IsRegistry
<1>2. s \in [1 .. k -> Names(r)] /\ n \in Names(r)
  BY <1>1 DEF Orders
<1>3. n = Canon(n) /\ n # MeshName /\ n \in Name /\ r.peers[n] \in PeerConfig
  BY <1>2 DEF WellNamed, IsRegistry
<1>4. n \notin done(i)
  <2> SUFFICES ASSUME NEW j \in 1 .. i, s[j] = s[i + 1] PROVE FALSE
    OBVIOUS
  <2>1. j \in 1 .. k /\ j # i + 1
    BY <1>1
  <2> QED BY <1>1, <2>1, OrderInjective DEF IsRegistry
<1>5. done(i + 1) = done(i) \cup {n}
  <2>1. 1 .. i + 1 = (1 .. i) \cup {i + 1}
    BY <1>1
  <2> QED BY <2>1
<1>6. b.ok /\ Names(b) = done(i) /\ \A d \in done(i) : b.peers[d] = r.peers[d]
  BY DEF Back, Names
<1>7. /\ m.name = n /\ m.complete /\ m.role = r.peers[n].role
      /\ m.aliases = r.peers[n].aliases
  BY DEF PeerSection
<1>8. [role |-> m.role, aliases |-> m.aliases \cup {}] = r.peers[n]
  BY <1>3, <1>7 DEF PeerConfig
<1> HIDE DEF n, m, b, done
<1>9. Flush(b, m) = Put(b, n, r.peers[n])
  BY <1>3, <1>4, <1>6, <1>7, <1>8 DEF Flush, Define
<1>10. [d \in Names(b) \cup {n} |-> IF d = n THEN r.peers[n] ELSE b.peers[d]]
         = [d \in done(i + 1) |-> r.peers[d]]
  BY <1>5, <1>6
<1>11. Put(b, n, r.peers[n]) = [b EXCEPT !.peers = [d \in done(i + 1) |-> r.peers[d]]]
  BY <1>10 DEF Put
<1> QED BY <1>9, <1>11 DEF Back, b, done, n, m

\* Parsing any text that save may write for a well-named registry gives it back.
LEMMA SavedAndLoaded ==
  ASSUME NEW r, IsRegistry(r), r.ok, WellNamed(r), NEW text \in Texts(r)
  PROVE  Parse(text) = r
<1> DEFINE k == Cardinality(Names(r))
<1>1. PICK s \in Orders(Names(r)) :
        /\ k \in Nat /\ Len(text) = k + 1 /\ text[1] = MeshSection(r.secret)
        /\ \A i \in 1 .. k : text[i + 1] = PeerSection(s[i], r.peers[s[i]])
  BY TextSections
<1> DEFINE S == {i \in 0 .. k : After(text)[i + 1] = Back(r, s, i)}
<1>2. 0 \in S
  <2>1. After(text)[1] = Flush(After(text)[1 - 1], text[1]) /\ After(text)[0] = NewRegistry
    BY <1>1, AfterDef
  <2> QED BY <1>1, <2>1, MeshBack
<1>3. ASSUME NEW i \in 0 .. k - 1, i \in S PROVE i + 1 \in S
  <2>1. /\ i + 1 \in 0 .. k /\ i + 1 \in 1 .. k /\ (i + 1) + 1 \in 1 .. Len(text)
        /\ ((i + 1) + 1) - 1 = i + 1
    BY <1>1
  <2>2. After(text)[(i + 1) + 1] = Flush(After(text)[i + 1], text[(i + 1) + 1])
    BY <1>1, <2>1, AfterDef
  <2>3. text[(i + 1) + 1] = PeerSection(s[i + 1], r.peers[s[i + 1]])
    BY <1>1, <2>1
  <2> QED BY <1>3, <2>1, <2>2, <2>3, PeerBack
<1>4. k \in S
  <2> HIDE DEF S
  <2>1. 0 .. k \subseteq S
    BY <1>1, <1>2, <1>3, Induction
  <2> QED BY <1>1, <2>1
<1>5. Parse(text) = Back(r, s, k)
  BY <1>1, <1>4 DEF Parse
<1>6. {s[j] : j \in 1 .. k} = Names(r)
  BY DEF Orders
<1> QED BY <1>5, <1>6 DEF Back, IsRegistry

\* The names of a registry can be listed in the order of save: it always has a
\* text.
LEMMA OrderExists ==
  ASSUME NEW k \in Nat
  PROVE  \A names \in SUBSET Name :
           IsFiniteSet(names) /\ Cardinality(names) = k => Orders(names) # {}
<1> DEFINE Rank(n) == (IF n.mixed THEN 0 ELSE 2) + (IF n.local THEN 1 ELSE 0)
           S == {i \in 0 .. k : \A names \in SUBSET Name :
                   IsFiniteSet(names) /\ Cardinality(names) = i => Orders(names) # {}}
<1>1. 0 \in S
  <2> SUFFICES ASSUME NEW names \in SUBSET Name, IsFiniteSet(names), Cardinality(names) = 0
               PROVE  Orders(names) # {}
    OBVIOUS
  <2>1. names = {}
    BY FS_EmptySet
  <2>2. [i \in 1 .. 0 |-> i] \in Orders(names)
    BY <2>1 DEF Orders
  <2> QED BY <2>2
<1>2. ASSUME NEW i \in 0 .. k - 1, i \in S PROVE i + 1 \in S
  <2> SUFFICES ASSUME NEW names \in SUBSET Name, IsFiniteSet(names),
                      Cardinality(names) = i + 1
               PROVE  Orders(names) # {}
    OBVIOUS
  <2>1. \A n \in names : n.mixed \in BOOLEAN /\ n.local \in BOOLEAN /\ Rank(n) \in Nat
    BY DEF Name
  <2>2. names # {}
    BY FS_EmptySet
  <2>3. PICK n \in names : \A m \in names : Rank(n) <= Rank(m)
    <3> DEFINE T == {Rank(m) : m \in names}
    <3>1. T \subseteq Nat /\ T # {}
      BY <2>1, <2>2
    <3> HIDE DEF T
    <3>2. \E t \in T : \A u \in T : t <= u
      BY <3>1, LeastNumber
    <3> QED BY <3>2 DEF T
  <2>4. \A m \in names : ~Before(m, n)
    BY <2>1, <2>3 DEF Before
  <2> DEFINE rest == names \ {n}
  <2>5. IsFiniteSet(rest) /\ Cardinality(rest) = i
    BY FS_RemoveElement
  <2>6. PICK s : s \in Orders(rest)
    BY <1>2, <2>5
  <2>7. /\ s \in [1 .. i -> rest]
        /\ \A m \in rest : \E j \in 1 .. i : s[j] = m
        /\ \A j, l \in 1 .. i : j < l => ~Before(s[l], s[j])
    BY <2>5, <2>6 DEF Orders
  <2> DEFINE t == [j \in 1 .. i + 1 |-> IF j = 1 THEN n ELSE s[j - 1]]
  <2>8. ASSUME NEW j \in 1 .. i + 1, j # 1 PROVE j - 1 \in 1 .. i
    BY <2>8
  <2>9. t \in [1 .. i + 1 -> names]
    BY <2>7, <2>8
  <2>10. ASSUME NEW m \in names PROVE \E j \in 1 .. i + 1 : t[j] = m
    <3>1. CASE m = n
      <4>1. 1 \in 1 .. i + 1 /\ t[1] = m
        BY <3>1
      <4> QED BY <4>1
    <3>2. CASE m # n
      <4>1. PICK j \in 1 .. i : s[j] = m
        BY <2>7, <3>2
      <4>2. j + 1 \in 1 .. i + 1 /\ j + 1 # 1 /\ (j + 1) - 1 = j
        OBVIOUS
      <4> QED BY <4>1, <4>2
    <3> QED BY <3>1, <3>2
  <2>11. ASSUME NEW j \in 1 .. i + 1, NEW l \in 1 .. i + 1, j < l
         PROVE  ~Before(t[l], t[j])
    <3>1. CASE j = 1
      BY <2>4, <2>9, <3>1
    <3>2. CASE j # 1
      <4>1. l # 1 /\ j - 1 < l - 1
        BY <2>11, <3>2
      <4>2. t[l] = s[l - 1] /\ t[j] = s[j - 1]
        BY <4>1, <3>2
      <4> QED BY <2>7, <2>8, <3>2, <4>1, <4>2
    <3> QED BY <3>1, <3>2
  <2> HIDE DEF t
  <2>12. t \in Orders(names)
    BY <2>9, <2>10, <2>11 DEF Orders
  <2> QED BY <2>12
<1>3. k \in S
  <2> HIDE DEF S
  <2>1. 0 .. k \subseteq S
    BY <1>1, <1>2, Induction
  <2> QED BY <2>1
<1> QED BY <1>3

\* Every registry has a text: some order of its names is one that save can use.
LEMMA TextExists ==
  ASSUME NEW r, IsRegistry(r)
  PROVE  Texts(r) # {}
<1>1. Cardinality(Names(r)) \in Nat
  BY FS_CardinalityType DEF IsRegistry
<1>2. Orders(Names(r)) # {}
  BY <1>1, OrderExists DEF IsRegistry
<1> QED BY <1>2 DEF Texts

\* A registry saved and loaded again is the same registry (PeersRegistry::save
\* and load), if its peers have canonical names other than "mesh"; and every
\* registry can be saved.
THEOREM RoundTripTheorem == Spec => [](RoundTrip /\ Texts(reg) # {})
<1>1. IInv => RoundTrip /\ Texts(reg) # {}
  BY SavedAndLoaded, TextExists DEF IInv, RoundTrip
<1> QED BY TypesTheorem, <1>1, PTL

-----------------------------------------------------------------------------
(* The two readers of the secret.                                            *)

MeshPlaces(sections) == {i \in DOMAIN sections : MeshLike(sections[i])}

\* The lines shared_secret, each with its section and its place there.
Lines(sections) == UNION {{i} \X DOMAIN sections[i].secrets : i \in MeshPlaces(sections)}

OneLine(sections) ==
  /\ \A l, m \in Lines(sections) : l = m
  /\ \A i \in MeshPlaces(sections) : sections[i].name = MeshName

\* After i sections the parser has the line, if it has come to it.
SecretRead(sections, i, r) ==
  r.ok =>
    /\ \A l \in Lines(sections) : l[1] <= i => r.secret = sections[l[1]].secrets[l[2]]
    /\ (\A l \in Lines(sections) : ~(l[1] <= i)) => r.secret = Empty

\* The members of Lines are the places of the secret lines.
LEMMA LinesDef ==
  ASSUME NEW sections
  PROVE  /\ \A l \in Lines(sections) :
              /\ l = <<l[1], l[2]>> /\ l[1] \in MeshPlaces(sections)
              /\ l[2] \in DOMAIN sections[l[1]].secrets
         /\ \A i \in MeshPlaces(sections) : \A j \in DOMAIN sections[i].secrets :
              <<i, j>> \in Lines(sections)
  BY DEF Lines

\* One more section: the parser holds the secret line if it has come to it.
LEMMA SecretStep ==
  ASSUME NEW sections \in Seq(Section), OneLine(sections),
         NEW i \in 0 .. Len(sections) - 1, NEW r, IsRegistry(r),
         SecretRead(sections, i, r)
  PROVE  SecretRead(sections, i + 1, Flush(r, sections[i + 1]))
<1> DEFINE s == sections[i + 1]
           q == Flush(r, s)
<1> SUFFICES ASSUME q.ok PROVE SecretRead(sections, i + 1, q)
  BY DEF SecretRead
<1>1. s \in Section /\ i \in Nat /\ i + 1 \in DOMAIN sections
  <2>1. i + 1 \in 1 .. Len(sections)
    OBVIOUS
  <2> QED BY <2>1, ElementOfSeq
<1>2. r.ok
  BY DEF Flush
<1>3. \A l \in Lines(sections) : l[1] \in Nat /\ (l[1] <= i + 1 <=> l[1] <= i \/ l[1] = i + 1)
  BY <1>1, LinesDef DEF MeshPlaces
<1>4. CASE i + 1 \notin MeshPlaces(sections) \/ s.secrets = << >>
  <2>1. q.secret = r.secret
    <3>1. CASE s.name = MeshName
      <4>1. s.secrets = << >>
        BY <1>1, <1>4, <3>1 DEF MeshPlaces, MeshLike, MeshName
      <4> QED BY <1>2, <3>1, <4>1 DEF Flush, FlushMesh
    <3>2. CASE s.name # MeshName
      <4>1. s.complete
        BY <1>2, <3>2 DEF Flush, NoRegistry
      <4> QED BY <1>2, <3>2, <4>1 DEF Flush, Merge, Define, Put, IsRegistry
    <3> QED BY <3>1, <3>2
  <2>2. \A l \in Lines(sections) : l[1] # i + 1
    BY <1>4, LinesDef
  <2> QED BY <1>2, <1>3, <2>1, <2>2 DEF SecretRead
<1>5. CASE i + 1 \in MeshPlaces(sections) /\ s.secrets # << >>
  <2> DEFINE n == Len(s.secrets)
  <2>1. s.secrets \in Seq(Key \cup {Empty}) /\ n \in DOMAIN s.secrets
    BY <1>1, <1>5 DEF Section
  <2>2. <<i + 1, n>> \in Lines(sections)
    BY <1>5, <2>1, LinesDef
  <2>3. \A l \in Lines(sections) : l[1] = i + 1 /\ l[2] = n
    BY <2>2 DEF OneLine
  <2>4. s.name = MeshName
    BY <1>5 DEF OneLine
  <2>5. q.secret = s.secrets[n]
    BY <1>2, <1>5, <2>4 DEF Flush, FlushMesh, Last, IsRegistry
  <2> QED BY <1>3, <2>2, <2>3, <2>5 DEF SecretRead
<1> QED BY <1>4, <1>5

\* At the end of a file with one secret line, the parser holds that line.
LEMMA SecretAll ==
  ASSUME NEW sections \in Seq(Section), OneLine(sections)
  PROVE  SecretRead(sections, Len(sections), Parse(sections))
<1> DEFINE N == Len(sections)
           S == {n \in 0 .. N : SecretRead(sections, n, After(sections)[n])}
<1>1. 0 \in S
  <2>1. \A l \in Lines(sections) : ~(l[1] <= 0)
    BY LinesDef DEF MeshPlaces
  <2> QED BY <2>1, AfterDef DEF SecretRead, NewRegistry
<1>2. ASSUME NEW n \in 0 .. N - 1, n \in S PROVE n + 1 \in S
  <2>1. n + 1 \in 1 .. N /\ (n + 1) - 1 = n
    OBVIOUS
  <2>2. After(sections)[n + 1] = Flush(After(sections)[n], sections[n + 1])
    BY <2>1, AfterDef
  <2>3. IsRegistry(After(sections)[n])
    BY AfterType
  <2> QED BY <1>2, <2>1, <2>2, <2>3, SecretStep
<1>3. 0 .. N \subseteq S
  <2> HIDE DEF S
  <2> QED BY <1>1, <1>2, Induction
<1> QED BY <1>3 DEF Parse

\* The other reader takes the first line that has a value.
LEMMA AuthReads ==
  ASSUME NEW sections \in Seq(Section)
  PROVE  \/ /\ AuthSecret(sections) = Empty
            /\ \A l \in Lines(sections) : sections[l[1]].secrets[l[2]] = Empty
         \/ \E l \in Lines(sections) : AuthSecret(sections) = sections[l[1]].secrets[l[2]]
<1> DEFINE mesh == {i \in DOMAIN sections : MeshLike(sections[i]) /\ Given(sections[i]) # {}}
<1>1. CASE mesh = {}
  <2>1. AuthSecret(sections) = Empty
    BY <1>1 DEF AuthSecret
  <2>2. ASSUME NEW l \in Lines(sections) PROVE sections[l[1]].secrets[l[2]] = Empty
    <3>1. l[1] \in MeshPlaces(sections) /\ l[2] \in DOMAIN sections[l[1]].secrets
      BY LinesDef
    <3> QED BY <1>1, <3>1 DEF MeshPlaces, Given
  <2> QED BY <2>1, <2>2
<1>2. CASE mesh # {}
  <2> DEFINE i == Min(mesh)
             j == Min(Given(sections[i]))
  <2>1. i \in mesh
    <3>1. mesh \subseteq Nat
      OBVIOUS
    <3> HIDE DEF mesh
    <3> QED BY <1>2, <3>1, MinLeast
  <2>2. AuthSecret(sections) = sections[i].secrets[j]
    BY <1>2 DEF AuthSecret
  <2> HIDE DEF i
  <2>3. sections[i] \in Section
    BY <2>1
  <2>4. sections[i].secrets \in Seq(Key \cup {Empty})
    BY <2>3 DEF Section
  <2>5. Given(sections[i]) \subseteq Nat /\ Given(sections[i]) # {}
    BY <2>1, <2>4 DEF Given
  <2>6. j \in Given(sections[i])
    BY <2>5, MinLeast
  <2> HIDE DEF j
  <2>7. <<i, j>> \in Lines(sections)
    BY <2>1, <2>6, LinesDef DEF MeshPlaces, Given
  <2> QED BY <2>2, <2>7
<1> QED BY <1>1, <1>2

\* The two readers of peers.conf find the same secret, if the sections [mesh] are
\* spelled so and have one line between them (sync_loop.rs and auth.rs).
THEOREM OneSecretTheorem == Spec => []OneSecret
<1>1. IInv => OneSecret
  <2> SUFFICES ASSUME IInv, OneLine(file), Parse(file).ok
               PROVE  Parse(file).secret = AuthSecret(file)
    BY DEF OneSecret, OneLine, Lines, MeshPlaces
  <2>1. file \in Seq(Section) /\ DOMAIN file = 1 .. Len(file)
    BY DEF IInv
  <2>2. SecretRead(file, Len(file), Parse(file))
    BY <2>1, SecretAll
  <2>3. \A l \in Lines(file) : l[1] <= Len(file)
    BY <2>1, LinesDef DEF MeshPlaces
  <2>4. \A l \in Lines(file) : Parse(file).secret = file[l[1]].secrets[l[2]]
    BY <2>2, <2>3 DEF SecretRead
  <2>5. CASE Lines(file) = {}
    BY <2>1, <2>2, <2>5, AuthReads DEF SecretRead
  <2>6. CASE Lines(file) # {}
    BY <2>1, <2>4, <2>6, AuthReads
  <2> QED BY <2>5, <2>6
<1> QED BY TypesTheorem, <1>1, PTL
=============================================================================
