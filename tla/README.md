# Convergio mesh: a verification project

TLA+ modules for `crates/convergio-mesh`, the crate that keeps the databases of
several Convergio daemons in step. The modules model how rows travel between
daemons, how a node is seen to be alive, how the registry of peers is read
and written, and what the registry of capabilities promises its clients. TLC checks small instances; TLAPS proves every safety
property that the code has for every mesh, file and list. Paths below are relative to
`src/crates/convergio-mesh/src/` unless they start with `src/`.

## 1. The system

A *daemon* runs on each node, with a SQLite database, an HTTP server and one
background thread for the mesh. The peers it knows are listed in `peers.conf`.
Daemons share no memory: everything passes through signed HTTP requests.

### Inventory

| Component | State it keeps | Operations | What makes it correct |
|---|---|---|---|
| Row synchronisation (`sync.rs`, `sync_apply.rs`, `sync_cursor.rs`) | replicated tables, `_sync_meta` with a cursor for each table and peer address | `sync_table_with_peer`: export, POST, GET, apply row by row, new cursor | no row is hidden behind a cursor; an older version never replaces a newer one; replicas come to agree |
| Background loop (`sync_loop.rs`) | none between sweeps; the place in the registry and the table within one | sleep, read the registry, skip itself, visit peers one after another | a bad peer starves nobody; no sync with itself |
| Import and export handlers (`routes.rs`) | the same tables | apply a list of changes, list the changes past a stamp | what is acknowledged was applied |
| Transport (`transport.rs`) | statistics in `mesh_sync_stats` | choice of an address, signed requests with time limits | a request ends; statistics tell the truth |
| Heartbeats, status, readiness (`sync_loop.rs`, `routes.rs`, `ext.rs`) | `peer_heartbeats` with the receiver's time | send after each visit, store, age into offline | a node that works is online where its link is good; readiness means synced |
| Peer registry (`peers_parser.rs`, `peers_registry.rs`, `peers_types.rs`) | `peers.conf`, the parsed registry | load, save, add, remove, change a role, find by name or alias | one host is one peer; saving loses nothing |
| Request authentication (`auth.rs`) | the shared secret | load, sign, verify | all readers of the file agree on the secret |
| Capability registry (`capability_registry.rs`, `capability_routes.rs`) | rows of capabilities for each peer | register, remove, list, query | a call answered with success is in effect; readers see only what some call declared and none overruled |
| Delegation (`delegation.rs`) | a row for each step of a delegation | record, read | progress does not run backwards |
| Role configuration, topology (`routes_role_config.rs`, `routes_cross_poll.rs`) | one configuration for each role | upsert, read, proxy a peer's plans | none that takes several steps |
| Convergence check (`convergence.rs`) | the node's own row of `mesh_peer_state` | hash local counts, upsert, compare with the rows of others, log | none; nothing calls it |
| Repository sync (`routes_sync_repo.rs`) | a checkout | runs `git` and `cargo` | outside the reach of a model |
| Extension glue, schema, tools (`ext.rs`, `schema.rs`, `mcp_defs.rs`, `types.rs`, `error.rs`) | tables, constants | registration, migrations | declarative |

### Interactions

* The loop of node *n* and the handlers of its peers meet in HTTP requests. The
  import handler runs on its own thread beside the loop of its node, beside the
  node's services and beside other imports, and each of its statements is a
  transaction of its own.
* A client that has waited ten seconds gives up; the handler it spoke to does
  not know and goes on. The next round may then run beside the old request.
* One cursor serves both halves of a round: it filters the rows that are
  pushed and the rows that are fetched.
* The heartbeat of a peer is sent at the end of the visit, so it waits for all
  eleven tables of that peer and of every peer listed before it.
* A call of the capability registry is a series of statements, each its own
  transaction, beside those of other calls; readers look at the table between them.
* `peers.conf` is read by two programs in the program: `PeersRegistry::load` and
  `load_shared_secret`.

### What is hard to test

`PROJECT.json` lists every hazard at its line. In short:

* **Check and insert are two statements** (`sync_apply.rs:232` and `:257`), and a
  check that fails counts as passed (`sync_apply.rs:128`).
* **Success that is none**: a handler without a database connection, or whose
  insert failed, answers with status 200.
* **Stamps of one second** compared with a strict `>`: equality is a boundary
  case on the export, on the apply and on the cursor.
* **Requests that outlive their client**, crashes between the push, the apply
  and the save of the cursor, reads of the cursor that fail.
* **Clocks that differ**: rows stamped in the future, rows that arrive late.
* **Time limits that add up**: up to 3 connection attempts, 22 requests, the bodies of
  11 answers and a heartbeat for each peer, on one thread.
* **Lists written row by row**: a registration that stops half way, or beside a
  removal, leaves a mixture.
* **Names**: case and `.local` make several sections one host.

## 2. Modules

| Module | Role |
|---|---|
| `SyncApply` | pure operators: what is exported, which change wins, where a cursor moves |
| `LwwReplication` | abstract specification: what replication promises, with no rounds, cursors or messages |
| `MeshSync` | detailed specification: loops, requests, handlers, crashes, losses; its properties |
| `MeshSyncInv` | the inductive invariant, in layers |
| `MeshSyncProofs`, `MeshSyncForward`, `MeshSyncQuiet` | theorems about `MeshSync` |
| `LeastNumbers` | the least number of a set, and induction over the places of a sequence, for the proofs |
| `MCMeshSync` | meshes, clocks and symmetry for TLC |
| `Heartbeat` | the sweep of one node in time, heartbeats at its peers, readiness |
| `HeartbeatProofs` | theorems about `Heartbeat` |
| `MCHeartbeat` | registries and addresses for TLC |
| `CapabilityTypes` | declarations, queries, and what a reader is told of a table |
| `CapabilityPromise` | abstract specification: what clients may rely on, told by calls and answers, with no table |
| `CapabilityRegistry` | detailed specification: the handlers, statement by statement, and its properties |
| `CapabilityProofs` | theorems about `CapabilityRegistry` |
| `MCCapabilityRegistry` | lists and queries for TLC |
| `PeersConf` | `peers.conf`, the registry, names, the two readings of the secret |
| `PeersConfProofs` | theorems about `PeersConf` |
| `MCPeersConf` | sections and names for TLC |

`LwwReplication` and `MeshSync` both extend `SyncApply`; `MeshSync` instantiates
`LwwReplication` with its own `db` and `written` (the refinement mapping is the
identity on these two) and states `ImplementsLww`. `MeshSync` and `Heartbeat`
show the same loop from two sides. `MeshSync` has the data and no duration, and
`Heartbeat` has the duration and no data. They are not composed, because neither
depends on what the other leaves out: rounds never read heartbeats, and the
time a visit takes is bounded by its limits whatever the rows are.
`CapabilityRegistry` instantiates `CapabilityPromise` with its history of calls (the
mapping makes one outcome of an error and a call lost in a crash, which a client
cannot tell apart) and states `KeepsPromise`. It shares no state with the loop.

### `MeshSync` and the code

| Variable | Code |
|---|---|
| `now`, `Skew` | `datetime('now')`; node *n* reads `now + Skew[n]` |
| `db[n][r]` | the row with key *r* in one replicated table: its `updated_at` and the node whose service wrote that version |
| `Addr`, `Host` | the addresses in the registries, and the node that listens at each |
| `Peers[n]` | the active peers of *n*'s `peers.conf`, *n* itself perhaps |
| `cursor[n][a]` | `last_synced` of `_sync_meta` for address *a*, `0` for no row |
| `pc[n]`, `queue[n]` | where the loop is in `sync_table_with_peer`, and the peers the sweep has not visited |
| `round[n]` | locals of `sync_table_with_peer`: `peer` (an address), `round_start_at`, `since`, newest exported and applied stamps, fetched changes still to apply, a change checked but not inserted |
| `posts` | import requests: under way, at work in the handler, and whether their client still waits |
| `seen`, `written` | history, read by properties only |

| Action | Code |
|---|---|
| `LocalWrite` | any service of the node; external to the crate |
| `BeginSweep`, `SkipSelf`, `SkipPeer` | `run_sync_round`: the list of peers, the self-skip, a peer without an address that answers |
| `StartRound` | the address that `resolve_best_addr` chose, `round_start_at`, then `get_sync_meta`, whose error counts as no cursor |
| `ExportNothing`, `ExportAndPost`, `ExportFails` | `export_changes_since`, the empty list, the POST |
| `RequestLost`, `SendTimesOut`, `ConnectionLost` | the three ways a POST fails; the round returns `(0, 0, 0)` |
| `Arrive`, `ImportRefused` | `handle_import` with and without a connection |
| `ImportSkip`, `ImportAdopt`, `ImportDecide`, `ImportInsert` | the loop of `apply_changes_inner` at the peer |
| `ImportReply` | the answer, and its effect on a client that still waits |
| `Fetch`, `FetchFails` | `fetch_remote_changes` |
| `PullSkip`, `PullAdopt`, `PullDecide`, `PullInsert` | the same loop at the initiator |
| `FinishRound`, `FinishUnsaved` | `compute_new_cursor`, `upsert_sync_meta` and its failure |
| `Crash` | the process ends and starts again on its database |

`Adopt` in one step and `Decide` then `Insert` in two are the same code: with
the hazard `"interleave"` another writer may come between the two statements,
without it nobody does. `Passes` is the check: the change is newer, or, with the hazard
`"unchecked"`, the `SELECT` of `local_updated_at` failed, which the code takes for a row
that does not exist (`.ok().flatten()`). The order of the changes in a list is left open: SQL
orders the export by `updated_at`, but the keys of one list are distinct, so
the order changes neither what is applied nor the newest stamp.

`Hazards` is the set of things that may go wrong. Each is a real outcome of the
code: `net` (loss, time limits), `crash`, `busy` (a statement of a round other than a
check fails, or an export gets no connection), `unchecked` (the `SELECT` of a check fails,
and the change is inserted without a comparison), `refused` (an import gets none), `reject` (one row
cannot be inserted), `interleave`, `tailscale` (a node cannot find its own Tailscale address
and syncs with itself if its registry lists it) and `sameSecond` (a write in the second of a
round's start or of a cursor). One cause may bring several of them: a database that is
locked for too long (`SQLITE_BUSY`) can fail any statement, and is then both `busy` and
`unchecked`. They are told apart because the code survives the one and not the other. The parameter makes it possible to say which
property survives which hazard, and the theorems state which ones a property excludes:

| Property | holds with |
|---|---|
| `TypeOK`, `CursorNotAhead`, `CursorFromRowData` | every hazard |
| `ImplementsLww`, `OwnWritesKept`, `OverwritesOnlyOlder`, `CursorNeverBack` | every hazard except `interleave` and `unchecked` |
| `NoOwnWriteSkipped` | `net`, `crash`, `busy`, `tailscale` |
| `QuietAgrees` | the same four, with any clocks, where every node has every other in its registry |

### `Heartbeat` and the code

`at` is the blocking call the loop is in and `left` the time that is left of its
limit; `Tick` takes one unit and cannot pass a limit, because every call ends
by its own timeout: 2 s to connect; 10 s for a request, and 10 s more for the body of
an answer, since the limit of a blocking client starts anew when the body is read
(`transport.rs:153`; the answer to a POST is not read); 5 s for a heartbeat, and 5 s more
for the text of a rejection.
`pos`, `addr` and `table` are the three loop counters (`sync_loop.rs:52`,
`transport.rs:176`, `sync_loop.rs:72`). `age[p]` is the age of the heartbeat
that *p* holds, up to `OfflineAfter` (600 s, `routes.rs`). `failures` is
`consecutive_failures`; `missed` is what that column would have to count.
`Steady` names the peers whose requests succeed within their limits; the others
may do anything. `Faults` has the daemon's own troubles: it is restarted, its
registry or pool fails, its Tailscale address cannot be found. `calm` is the time
the loop has run since its last own fault, and `missed` and `calm` are history: only
properties read them. `Waiting(p)` is how long *p* has been owed a heartbeat, `Due(i)`
how long its next one can take from any place of the loop; `BeatInTime` says that
they never add up to more than `Gap`, after a restart or a lost sweep too.
`ShownOnline` is what follows for the receiver: with `Gap < OfflineAfter`, a node
that has run undisturbed for `OfflineAfter` is online at every steady peer.

### `CapabilityRegistry` and the code

`row` is the table `node_capabilities`, keyed by peer and name. A call arrives, gets a
connection or an error object with status 200 (`Refused`), and runs: `Upsert` is one
`INSERT ... ON CONFLICT` of the loop in `register_capabilities`, `UpsertFails` its early
return, `Registered` its end, `Remove` the one `DELETE`. `GetPeer`, `ListAll` and
`QueryPeers` are one `SELECT` each with what the code makes of its rows. `Crash` ends
every open call and keeps the table. `writer` and `before` are history.

What the code does, and the model with it:

* A row is written in a transaction of its own, so a call that fails or crashes half
  way leaves the rows before that point.
* A registration never removes a row that its list does not name.
* When a list names a capability twice, the later entry stays.
* Versions are compared as texts, so `10.0.0` is below `9.0.0`; in the model a
  version is its place in that order.
* The score adds up what the rows offer: a tag that two rows offer counts twice, and
  several partial rows may outrank a complete one. Peers with equal scores come in
  the order of a hash map. `CoverageFirst` states what is left of "best match first".

`CapabilityPromise` says what remains for clients: a reader sees, in each row, a word
of a call on that row that no later successful call overruled; of a call answered with
success its last word on that row, of one that failed or is under way any of its words
or none.

### `PeersConf` and the code

A file is a sequence of sections, the registry a function from names to peers.
A name is a host, a case and an optional `.local`. `canonical_peer_name` forgets the
case and the suffix. `Flush` is `flush_section` with all its branches: `[mesh]` in
that spelling, a missing field, a known identity, a new one. `After(sections)[i]` is the
registry after *i* sections, `Parse` the last of these. `Texts` is what `save`
may write: the code sorts by name; a name in the model is a host and a spelling, so
`Orders` keeps the order of the spellings and leaves that of the hosts open.
`Lookup` is `get_peer`; where several peers have the alias, any of them may be
found, as the code takes the first that its map yields. `AuthSecret` is
`load_shared_secret`. `AddPeer`, `RemovePeer`, `UpdateRole` and `Save` are
public functions of the crate that its tests call.

## 3. Runs

"violation" runs show a disagreement between the code and what a comment, a
test or the ADR says of it; section 6 lists them.

| Run | Question | Result |
|---|---|---|
| `mesh_two` | two nodes, two rows, loss, late replies: is an own write ever lost behind a cursor or an import; when nothing is left to exchange, are the rows equally new? | pass |
| `mesh_hub` | two spokes and a hub, two requests in flight, a clock ahead, crashes, failed statements other than a check: the inductive invariant of the proofs; do cursors ever move back; does a late request take a table back? | pass |
| `mesh_hazards` | all hazards at once, and a node that finds itself in its registry: the types and two rules of `sync_cursor.rs` | pass |
| `mesh_converges` | a peer with two addresses, and a cursor for each: is a write lost between the two; do rounds implement last-writer-wins; liveness: do replicas agree in the end? | pass |
| `lww_race` | does an older version ever replace a newer one, with a writer between check and insert? | violation |
| `refused_import`, `same_second` | is an own write ever lost behind a cursor, with that hazard? | violation |
| `beat_served` | the node itself and two peers in the registry, restarts, lost sweeps, one bad peer: is the bound between two heartbeats met; is the node online at the good peer once it has run for a while; liveness: is that peer sent heartbeats for ever? | pass |
| `beat_three` | with the code's limits and three slow peers: does a good peer ever show the node as offline? | violation |
| `ready` | does `sync_healthy` mean that peers are being synced? | violation |
| `peers_conf` | parser, save, lookup and secret against definitions over the whole file | pass |
| `capabilities` | three calls beside each other that may fail, be refused or crash: is what was answered in effect; do readers see only what the promise allows; does a complete match come first? | pass |

### Bounds, and why they are enough

* **Nodes**: two, or three in a star. A cursor concerns one node and one peer;
  what a third node adds is a second sender at one import handler, which brings
  back rows of the first (`mesh_hub`). The theorems are for any set of nodes
  and any registry.
* **Rows**: rows meet in one place, the cursor, which takes the newest stamp
  of a list; with two rows one of them is older than the newest (`mesh_two`,
  `same_second`). The other runs ask about one row at a time.
* **`MaxTime`** 2 seconds: a row before and a row after a round started, and a
  tie. `OneAhead` sets the clock of a writer a second ahead of the others, which
  gives rows from the future (`mesh_hub`, `mesh_hazards`).
* **Addresses**: one for each node, or two for one of them (`TwoAtOne` in
  `mesh_converges`): a change of address needs two, and what a change does to one
  peer does not depend on the addresses of another.
* **Registries**: in `mesh_hazards` both nodes list the one that writes (`SelfListed`). It
  syncs with itself, or it would have nothing to sync, while the other pushes to it and
  pulls from it, so its own loop, its own requests and those of a peer meet in one table.
  With every node in both registries the run has 6.4 million states, which hold the same
  three properties; the theorems cover that case.
* **`PostId`**: one or two requests of a node under way: two let the request of
  a round that timed out run beside the next one (`mesh_hub`); with one the
  old request must be over first.
* **`Writers`**: the nodes whose services write. Both in `mesh_two` and
  `mesh_converges`; one in `mesh_hub`, where the hub is one of the others.
* **`MaxTime` and liveness**: with the clock stopped, writes stop being visible
  as changes, which is the premise of `EventuallyAgree`.
* **Symmetry**: rows and request names are interchangeable, nodes too where the
  registry and the clocks do not tell them apart; no run with liveness uses it.
* **Time in `Heartbeat`**: units of ten seconds, limits rounded up; with the eleven
  tables of the code a visit is 3 + 33 + 1 = 37 units at most (a push, an answer and its
  body for each table), and a sweep with its sleep 40 units for one peer, 77 for two and
  114 for three, while a heartbeat is good for 60.
  `beat_three` keeps these numbers; it needs only the 22 requests: 3 * 22 = 66 units
  that the code really may wait, even if the body of an answer takes no time. If bodies are
  as slow, two peers do. `beat_served` has two tables, the first and the
  last, so that a history with restarts stays small: a visit is 3 + 6 + 1 = 10 units and
  `Gap` = 3 + 3 * 10 = 33 for the node itself and two peers. `OfflineAfter` is 34, the
  least value at which `ShownOnline` should hold. `ready` asks nothing of the number of
  tables and has two.
* **`MaxAddrs`** 3: Thunderbolt, LAN and Tailscale. **`MaxFailures`** 5: the
  threshold in `routes.rs`; 0 where the run does not ask for it.
* **`capabilities`**: two peers, two names, two tags, two versions; three calls, since a
  mixture takes two and the call that overrules it, or is overruled by it, is a third;
  two lists, one of which names a capability twice and has an entry without tags; three
  queries, one without tags and one with a minimum version.
* **`MaxSections`** 2 hand-written sections beside those that `save` writes: a
  section and one that repeats, contradicts or fails it. **`Sections`**,
  **`Newcomers`**: every spelling of the names of two hosts, at most one alias
  and one secret in a section. Peers are added under canonical names, the only
  ones for which saving is lossless (section 6).

### Fairness

* `MeshSync!FairSpec`: the steps of the loop and of the handlers are weakly fair,
  since they run on live threads and each blocking call has a time limit.
  `StartRound` and `Arrive` are strongly fair for every link: a peer that is
  tried for ever is reached some time under one of its addresses, no matter which,
  and a request sent for ever arrives some time. Every request has a handler of its own,
  so the handlers are fair one by one. This is what a link that "may fail any number of times" means, and no less will
  do: with a link that always fails nothing converges. No step of the environment
  (writes, clocks, losses) is fair. `FetchFails` and `FinishRound` share the weak
  fairness of `PullStep`, so a fetch is not promised to succeed; in `mesh_converges`
  the push alone must and does bring the nodes together. Strong fairness of `Arrive` also
  says that no request is refused for its size for ever: axum reads a body of 2 MB at
  most unless told otherwise, a round puts all rows past the cursor in one POST, and the
  model has no sizes.
* `Heartbeat!FairSpec`: time passes, and calls return (`WF` of `Tick` and
  `Loop`); the registry and the pool do not fail every sweep for ever (`SF` of
  `WakeUp`). A daemon that stays down is an excuse in `HeardAgain` itself.

## 4. Proofs

All theorems are checked by TLAPS from the named assumptions of the
modules (addresses belong to nodes, registries list nodes, clocks and limits are natural
numbers, the author of a row that does not exist is no node, there is a role for a peer
to have). Registries may list their own node, and a node may have any number of
addresses, or none.

| Theorem | Says |
|---|---|
| `MeshSyncProofs!TypeCorrect` | `Spec => []TypeOK` |
| `MeshSyncProofs!CursorNotAheadTheorem` | no cursor passes its node's clock |
| `MeshSyncProofs!CursorFromRowDataTheorem` | a cursor is backed by a row the node had |
| `MeshSyncProofs!LwwTheorem` | refinement: `MeshSync` implements `LwwReplication` where checks are in force (`Checked`: no `interleave`, no `unchecked`) |
| `MeshSyncProofs!OwnWritesKeptTheorem` | a node does not fall behind its own writes, where checks are in force |
| `MeshSyncProofs!NoOwnWriteSkippedTheorem` | a row behind the cursor of an address has reached the node at that address, in a `Dependable` mesh |
| `MeshSyncForward!CursorNeverBackTheorem` | an action property: cursors do not move back, where checks are in force |
| `MeshSyncQuiet!OverwritesOnlyOlderTheorem` | an action property: a table changes by a write of its node's services or to a newer version, where checks are in force |
| `MeshSyncQuiet!IInvTheorem` | `Spec => []IInv` for a `Dependable` mesh |
| `MeshSyncQuiet!QuietAgreesTheorem` | any number of nodes of a `Dependable` mesh that all know each other agree whenever no round would exchange a row |
| `MeshSyncQuiet!QuietSameTheorem` | they hold the same versions then, unless a row was written twice in one second |
| `HeartbeatProofs!TypeCorrect` | the state of the sweep is well formed |
| `HeartbeatProofs!BeatInTimeTheorem` | the bound on the time between two heartbeats |
| `HeartbeatProofs!ShownOnlineTheorem` | a node that runs undisturbed is online at its steady peers, if `Gap < OfflineAfter` |
| `CapabilityProofs!TypeCorrect` | the state of the capability registry is well formed |
| `CapabilityProofs!AnsweredInEffectTheorem` | what was answered with success is in effect |
| `CapabilityProofs!KeepsPromiseTheorem` | refinement: `CapabilityRegistry` implements `CapabilityPromise` |
| `CapabilityProofs!CoverageFirstTheorem` | a complete match comes before a single incomplete one |
| `PeersConfProofs!TypeCorrect` | the registry is well formed, and empty after a load that failed |
| `PeersConfProofs!OneIdentityTheorem` | one host is one peer, with what all its sections say |
| `PeersConfProofs!NamesFoundTheorem` | a peer is found under the names of its sections |
| `PeersConfProofs!RoundTripTheorem` | saving and loading loses nothing; every registry can be saved |
| `PeersConfProofs!OneSecretTheorem` | both readers of a file with one secret line agree |

The theorems state every invariant, action property and refinement that a passing run
checks. Two properties that hold in one run and are refuted in another are proved under
what makes the difference: `OverwritesOnlyOlder` without the interleaving of
`lww_race` and without failed checks, which break it alike, `ShownOnline` under the bound
that `beat_three` breaks.

### The invariant of `MeshSync`

None of the properties is inductive. The invariant is built in layers, each of
which is inductive together with the ones before it:

1. `IInvTypes`: types, and a request whose client waits belongs to a loop that
   has posted to that peer; one request for each loop. Without it an answer could be
   taken by a round it does not belong to.
2. `IInvCursor`: a round started no later than now, on a cursor it could
   have read; then `CursorNotAhead` follows from the cap in
   `compute_new_cursor`.
3. `IInvRowData`: the stamps a round has in hand were reached by rows of the node.
4. `IInvLww`: every version anywhere, at rest or under way, was written by its
   author, whose clock is past it; so an import of a node's own old version
   is refused there. This gives the refinement and `OwnWritesKept`. From here on the
   proofs need `Checked`: no check fails (`unchecked`) and nobody comes between a check
   and its insert (`interleave`); layers 1 to 3 do not.
5. `IInvPush`: of the node's own rows, those the new cursor could pass are at
   the peer or in the request the loop waits for. The proof needs `Dependable`: `Checked`,
   a write of the node does not share its second with the start of a round or a
   cursor (no `sameSecond`), and an answer means applied (no `refused`, no `reject`).
   The failed statements that `busy` stands for do no harm, since every one of them ends
   the round, keeps the old cursor or costs a full export; a failed check is none of
   them. `refused_import` and `same_second` show what happens without
   the assumption, `lww_race` what `interleave` does.
6. `IInvForward`: whatever a round read as its cursor, the rows it exported
   lead back to the stored one. This is why a failed read of the cursor costs a
   full export and never a cursor that moves back.
7. `IInvPull`: a node whose clock is behind may overwrite a row that came from a peer
   with an older stamp (`FellBack`). Nothing in the round remembers the version that is
   gone. What saves it is the cap in `compute_new_cursor`: the lost version is past the
   node's clock, so no cursor for its author can have passed it (`StillToPull`), and a round
   with that author that is under way started before it or has the version, or a newer
   one, still to apply (`Returns`). The author still has it, or a newer one, by `OwnWritesKept`.

`mesh_hub` checks `IInv` with TLC where one node writes; no row falls back there, since
that takes two writers with clocks that differ. Two such nodes with one row have over two
million states, which hold `IInv` and `QuietAgrees`; as the theorems cover that case, no
run is spent on it. `IInvTheorem` proves the conjunction.

`QuietAgrees` follows for any number of nodes and any clocks. In a quiet state no node is
behind what it has seen: the author could still give it the version (layer 7), so a round
would fetch it. The stamps of a row
are bounded, since a node's cursors have passed what every other node holds and no
cursor passes its clock; so some node holds a newest version, by `LeastNumber`. Its author
holds it too: by `OwnWritesKept` one as new, and by `OwnUntilNewer` its own. The author's
cursor for any other node has passed it, so by `NoOwnWriteSkipped` that node has
seen it, and by the first step it still holds one as new. The hypothesis
`AllKnown` says that every node has every other in its registry. A relay breaks the first
step (section 6).

`QuietSameTheorem` adds what ties do: equally new rows are equal ones if no two writes of
a row carry one stamp.

### The invariant of `Heartbeat`

`IInv == TypeOK /\ PlaceOK /\ BeatInTime`. `PlaceOK`: the address being tried is
one the peer has, no time is left between two calls, nothing is owed while the daemon is down. `Due(i)` is the longest time until the *i*-th entry of the
registry gets its next heartbeat. Every step of the loop keeps it or lowers it; a tick
lowers it by one while the wait grows by one; a stored heartbeat ends the wait when
`Due` is at most `Gap`; a fault of the node may raise `Due` up to `Gap`, and sets `calm`,
and with it the wait, to zero. `BeatInTimeTheorem` therefore assumes nothing of the limits or
the faults; `ShownOnlineTheorem` assumes `Prompt == Gap < OfflineAfter`, which the values
of the code meet for one peer (section 3). `beat_three` shows what happens with three.

### The invariant of `CapabilityRegistry`

`IInv == TypeOK /\ Lives /\ RowFromWriter /\ LaterWins`. `Lives`: what ended before
a call began is over for good, a new call has written nothing, and a registration
succeeds at the end of its list.
`RowFromWriter`: a row holds a word of the call that wrote it last. `LaterWins`: a call
that has passed its place on a row, and every call that succeeded on it, is followed there
only by calls that were not over when it began. `AnsweredInEffect` is its case for calls
that succeeded, and the refinement reads the legality of each row off the last two.

`CoverageFirst` is about one snapshot of the table. `RowsFinite` (a statement adds one row at
most) makes the cardinalities in the score numbers; then a row that offers all that is
required scores at least the number of required tags, and a single row that lacks one
scores less.

### The invariant of `PeersConf`

`IInv`: the file is a sequence of sections and the registry a finite map from names to
well-formed peers, empty after a load that failed. It is a type invariant; what the other
properties say is about the parser, and each is an induction over the sections read:

* `OneIdentity`, `NamesFound`: `Scanned(sections, i, r)` says what the registry holds after
  *i* sections, in terms of all of them. One section more is the first of its identity,
  a further one, `[mesh]`, or a failure.
* `RoundTrip`: reading the sections that `save` wrote, after *i* peers the registry is the
  saved one cut down to their names (`Back`). The names are canonical and different, so no
  section merges into another. `OrderExists` adds that a registry can be saved at all.
* `OneSecret`: `SecretRead` says that the parser has the one secret line as soon as it has
  read that far; `load_shared_secret` finds the same line.

### Left to TLC

* Liveness (`EventuallyAgree`, `HeardAgain`): the prover has no rules for fairness
  and `ENABLED`.
* `QuietAgrees` with a relay is not claimed: it is false (section 6).
* Nothing else. Induction over the sections of a file and over stamps is done without the
  library's theorems for it: `LeastNumbers` derives what is needed from the well-founded
  order of the natural numbers, as lemmas about sets.

## 5. What is not modelled

* **Columns.** A row is its stamp and author. That a NULL comes back as an
  empty string (`sync_apply.rs:286`) is therefore a hazard without a property.
* **Tables without `updated_at`.** Their imports always overwrite. Planned. Nor are rows
  modelled whose `updated_at` is NULL, which any import overwrites in the same way.
* **Deleted rows.** A synced table of the model only gains rows and versions. The sync has
  no deletions: a row that a service deletes is not deleted elsewhere, and may come back
  from a peer.
* **The schema** of the synced table is read without error, and the table has the same
  columns at every node. In the code a failed read of it (`detect_timestamp_column`) is
  taken for a table without stamps.
* **Sizes** of requests, and the limit on the body of one (section 3, fairness).
* **The order of a peer's addresses.** `resolve_best_addr` prefers Thunderbolt to LAN to
  Tailscale; since any of them may fail to answer, in `MeshSync` any of them may be chosen.
* **Signatures.** A request that fails verification is a request that fails.
  Rotation of the secret, and the copy a running node keeps of it, are planned.
* **The pool.** Its refusals are a hazard; its size is not modelled.
* **Time of local statements, and of `tailscale ip -4`**, which has no limit at all.
* **A sweep's registry** is constant in `Heartbeat`; the code reads it anew for each sweep.
* **A panic in a sweep** ends that sweep, is logged, and the loop goes on
  (`sync_loop.rs:25`); in `MeshSync` a crash covers what it does to the round under way.
* **The wake-up by IPC events**, counters of statistics, the injected entry of the
  local node in the status, logging, formatting.
* **The convergence check.** Nothing in the repository calls it, it writes only the
  node's own row, and nothing writes the rows it compares with. Its doc says that it
  warns of a peer that has diverged for more than five minutes; the code warns when
  the row of a peer with another checksum is older than that.
* **Role configuration, delegation progress, plan summary.** A single upsert or query each;
  what could go wrong is the order of calls made by programs outside the repository.
* **Metadata and `last_updated`** of a capability, which nothing reads back but the answer.
* Other components marked `not_modelled` in `PROJECT.json`, with the reason there.

## 6. Findings

Each is shown by the run of the same row; `PROJECT.json` quotes the sentence
the code disagrees with.

| Run | What the code does |
|---|---|
| `lww_race` | checks the stamp and writes the row in two transactions, so an older version can overwrite a newer one |
| `refused_import` | answers an import it could not start (no connection, or a `PRAGMA` that fails, `sync_apply.rs:171`) with status 200; the sender's cursor moves on |
| `same_second` | filters with a strict `>` on whole seconds: a row written in the second of the cursor is never sent |
| `beat_three` | sends heartbeats after the sync of each peer: with three slow peers a node counts as offline though all answered |
| `ready` | reads `consecutive_failures`, which nothing writes |

The models contain six more such behaviours that no run is spent on:

* A check whose `SELECT` fails counts as passed (`sync_apply.rs:122`, hazard `unchecked`):
  an older version replaces a newer one with no second writer involved, a node's own write
  included, and the replicas may stay different when nothing is left to exchange. If then a
  round also fails to read its cursor, it may export only older rows and move the cursor
  back. TLC finds each of these in the instance of `mesh_two` when `unchecked` (for the last,
  `busy` too) is added to its hazards; the theorems exclude it by name. It breaks the same
  sentence of the doc as `lww_race`.
* An import counts a row it could not insert (`sync_apply.rs:267`) and answers 200, so
  the sender's cursor passes that row too (hazard `reject`).
* Both halves of a round filter by one cursor, which pushed and fetched rows move
  alike: a row that comes to a node late, through a relay, is behind the cursor and is
  neither sent on nor fetched. The test that asks for rows older than the cursor to
  arrive is marked ignored (`src/crates/convergio-mesh/tests/e2e_sync_convergence.rs:143`).
* Equal stamps are refused on both sides, so two nodes that wrote the same row in
  the same second differ for ever. `QuietAgrees` and `EventuallyAgree` therefore
  speak of equally new rows, not of identical ones.
* A node recognises itself only by its Tailscale address; without one it visits
  itself. `beat_served` shows that this costs time and delays no peer past the bound;
  `mesh_hazards` and the theorems show that its rows and cursors stay in order.
* `add_peer` under a name that is not canonical is lost by the next save and load,
  and a file with two `shared_secret` lines gives its last one to heartbeats and its first
  one to every other request. `RoundTrip` and `OneSecret` exclude these two cases
  by their premises.

## 7. Plan

Done: rounds and cursors with several addresses and self-listed nodes, their proofs for
any clocks, the sweep in time with faults and its proofs, the registry file and its
proofs, the capability registry with its abstract specification and the proof of the
refinement.

The twelve runs each ask a question of their own; a module that is added takes a
question over from another run. Every safety property that a run finds true is proved.
Next, in this order:

1. Proofs: which of the refinement's steps survive `interleave` and `unchecked` (each overwrite
   by an older version traced to a held change or a failed check); `QuietAgrees` for registries that are not complete
   but leave each row to two nodes; that a sweep's bound `Gap` is the least one.
2. Tables without `updated_at`: a second kind of table in `MeshSync`, whose cursor never
   moves and whose imports always replace. Question: which of the properties are left?
3. `SharedSecret`: rotation of the secret while senders read the file for each
   request and verifiers keep the one they started with; the time window of a
   signature. Properties: requests between two nodes with the same file
   are accepted in the end; theorem on who can be rejected.
4. `ConnPool`: the connection a sweep holds across its requests, two nodes
   that wait for each other, and what the limit of the pool does to both.
5. `Delegation`: reports of steps that arrive late or twice.
