-------------------------- MODULE CapabilityTypes --------------------------
(***************************************************************************)
(* What the capability registry speaks of (capability_types.rs) and how its *)
(* readers look at the table (the SELECTs of capability_registry.rs), as    *)
(* functions of one snapshot of node_capabilities.                          *)
(*                                                                          *)
(* Versions are compared as texts by the code: a number here stands for the *)
(* place of a version in that order.  Metadata is carried along unread.     *)
(***************************************************************************)
EXTENDS Integers, Sequences, FiniteSets

CONSTANTS Peer, Cap, Tag,
          Version,   \* positive numbers
          Lists,     \* bodies of the registrations considered
          Queries,   \* bodies of the queries considered
          NoRow      \* what a table without such a row holds

Declaration == [name : Cap, version : Version, tags : SUBSET Tag]

\* A query without min_version has 0.
Query == [required : Seq(Tag), min : Version \cup {0}]

ASSUME VersionAssumption == Version \subseteq Nat \ {0}
ASSUME ListsAssumption == Lists \subseteq Seq(Declaration)
ASSUME QueriesAssumption == Queries \subseteq Query
ASSUME NoRowAssumption == NoRow \notin Declaration

\* A snapshot of the table, which has one row per peer and capability name.
View == [Peer -> [Cap -> Declaration \cup {NoRow}]]

Rows(view, p) == {view[p][k] : k \in Cap} \ {NoRow}

\* list_all_capabilities: the peers that have a row, with their rows.
Grouped(view) == [p \in {p \in Peer : Rows(view, p) # {}} |-> Rows(view, p)]

-----------------------------------------------------------------------------
\* query_capable_peers.

\* The places of the required tags that this row offers.
Matched(q, row) == {i \in DOMAIN q.required : q.required[i] \in row.tags}

\* The rows that are new enough and offer a required tag.
Matching(view, q, p) ==
  {row \in Rows(view, p) : row.version >= q.min /\ Matched(q, row) # {}}

\* The score, before it is divided by the number of required tags: what the
\* rows offer is added up, a tag that two of them offer counts twice.
Score(view, q, p) ==
  Cardinality({pair \in (DOMAIN q.required) \X Matching(view, q, p) :
                 pair[1] \in Matched(q, pair[2])})

Entry(view, q, p) == [peer |-> p, score |-> Score(view, q, p),
                      matched |-> {row.name : row \in Matching(view, q, p)}]

\* Slip: the lowest score first.
RankedUp(view, q) ==
  LET found == {p \in Peer : Matching(view, q, p) # {}}
  IN {[i \in DOMAIN s |-> Entry(view, q, s[i])] :
        s \in {s \in [1 .. Cardinality(found) -> found] :
                 /\ \A i, j \in DOMAIN s : s[i] = s[j] => i = j
                 /\ \A i, j \in DOMAIN s :
                      i < j => Score(view, q, s[i]) <= Score(view, q, s[j])}}

\* Equal scores come in the order of a hash map: in any.
Ranked(view, q) ==
  LET found == {p \in Peer : Matching(view, q, p) # {}}
  IN {[i \in DOMAIN s |-> Entry(view, q, s[i])] :
        s \in {s \in [1 .. Cardinality(found) -> found] :
                 /\ \A i, j \in DOMAIN s : s[i] = s[j] => i = j
                 /\ \A i, j \in DOMAIN s :
                      i < j => Score(view, q, s[i]) >= Score(view, q, s[j])}}

-----------------------------------------------------------------------------
\* The answers to the three requests that read.
Answers(view) == {<<"peer", Rows(view, p)>> : p \in Peer}
                   \cup {<<"all", Grouped(view)>>}
                   \cup UNION {{<<"query", r>> : r \in Ranked(view, q)} : q \in Queries}
=============================================================================
