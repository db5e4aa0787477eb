------------------------------ MODULE MeshSync ------------------------------
(***************************************************************************)
(* Background row synchronisation between the daemons of a mesh (sync.rs,   *)
(* sync_loop.rs, sync_apply.rs, transport.rs and the import and export      *)
(* handlers of routes.rs).                                                  *)
(*                                                                          *)
(* Every node runs one blocking loop.  A sweep visits the active peers one  *)
(* after another, each under the first of its addresses that answers; a     *)
(* round with an address exports the local rows past the address's cursor,  *)
(* POSTs them, GETs the peer's rows past the same cursor, applies them one  *)
(* by one and moves the cursor.  A peer's import handler runs concurrently  *)
(* with its own loop and with other imports, and outlives the sender's      *)
(* timeout.                                                                 *)
(*                                                                          *)
(* Writes of the local services and the network are the environment.        *)
(***************************************************************************)
EXTENDS SyncApply, FiniteSets

CONSTANTS Addr,     \* the addresses in the registries, as host:port
          Host,     \* Host[a]: the node that listens there
          Peers,    \* Peers[n]: the active peers in n's registry, itself perhaps
          Skew,     \* Skew[n]: how far n's clock is ahead of the slowest
          Writers,  \* bound: the nodes whose services write
          MaxTime,  \* bound: the clocks stop here
          PostId,   \* bound: a node has no more POSTs in flight
          Hazards   \* which of the following may happen

\* "net"        an address does not answer, a request or a reply is lost,
\*              a client gives up while the server goes on
\* "crash"      a daemon stops and restarts on its database
\* "busy"       a statement of a round other than a check fails, or the pool has
\*              no connection for an export
\* "unchecked"  the SELECT of a check fails, and the change is inserted
\*              without a comparison
\* "refused"    the pool has no connection for an import
\* "reject"     an insert fails for one row (constraint, schema drift)
\* "interleave" another writer gets between the check and the insert of a row
\* "tailscale"  a node cannot find its own Tailscale address
\* "sameSecond" a local write in the second of the start of an open round or
\*              of a cursor
HazardKinds ==
  {"net", "crash", "busy", "unchecked", "refused", "reject", "interleave",
   "tailscale", "sameSecond"}

ASSUME HostAssumption == Host \in [Addr -> Node] /\ Nobody \notin Addr
ASSUME PeersAssumption == Peers \in [Node -> SUBSET Node]
ASSUME SkewAssumption == Skew \in [Node -> Nat]
ASSUME WritersAssumption == Writers \subseteq Node
ASSUME MaxTimeAssumption == MaxTime \in Nat
ASSUME HazardsAssumption == Hazards \subseteq HazardKinds

VARIABLES
  now,      \* the time on the slowest clock, in seconds
  db,       \* db[n][r]: the version of row r at node n
  cursor,   \* cursor[n][a]: last_synced of address a in n's _sync_meta
  pc,       \* pc[n]: where n's loop is
  queue,    \* queue[n]: peers the sweep has yet to visit
  round,    \* round[n]: the local variables of sync_table_with_peer
  posts,    \* POST /api/sync/import requests that are not over
  seen,     \* history: seen[n][r], the newest stamp row r ever had at n
  written   \* history: every change a local service ever made

vars == <<now, db, cursor, pc, queue, round, posts, seen, written>>

Clock(n) == now + Skew[n]

\* As in the code, the peer of a round is the address it is reached under.
Round == [peer : Addr, start : Nat, since : Nat, exported : Nat, applied : Nat,
          todo : SUBSET Change, held : SUBSET Change]
NoRound == [peer |-> Nobody, start |-> None, since |-> None, exported |-> None,
            applied |-> None, todo |-> {}, held |-> {}]

Post == [id : PostId, src : Node, dst : Node, at : {"sent", "applying"},
         todo : SUBSET Change, held : SUBSET Change, waiting : BOOLEAN]

-----------------------------------------------------------------------------
Init ==
  /\ now = 1
  /\ db = [n \in Node |-> [r \in Row |-> NoVersion]]
  /\ cursor = [n \in Node |-> [a \in Addr |-> None]]
  /\ pc = [n \in Node |-> "idle"]
  /\ queue = [n \in Node |-> {}]
  /\ round = [n \in Node |-> NoRound]
  /\ posts = {}
  /\ seen = [n \in Node |-> [r \in Row |-> None]]
  /\ written = {}

Tick == /\ now < MaxTime
        /\ now' = now + 1
        /\ UNCHANGED <<db, cursor, pc, queue, round, posts, seen, written>>

\* INSERT OR REPLACE of one row.
Store(n, c) ==
  /\ db' = [db EXCEPT ![n][c.row] = c.ver]
  /\ seen' = [seen EXCEPT ![n][c.row] = Later(@, c.ver.ts)]

\* n's clock has left the second of every cursor and of the open round.
NewSecond(n) ==
  /\ \A a \in Addr : cursor[n][a] < Clock(n)
  /\ pc[n] # "idle" => round[n].start < Clock(n)

\* A service of node n writes a row: updated_at = datetime('now').
LocalWrite(n, r) ==
  /\ n \in Writers
  /\ NewSecond(n) \/ "sameSecond" \in Hazards
  /\ LET c == [row |-> r, ver |-> [ts |-> Clock(n), by |-> n]]
     IN  /\ Store(n, c)
         /\ written' = written \cup {c}
  /\ UNCHANGED <<now, cursor, pc, queue, round, posts>>

-----------------------------------------------------------------------------
\* The loop of node n: the push half of a round.

Goto(n, label) == pc' = [pc EXCEPT ![n] = label]

EndRound(n) == /\ Goto(n, "idle")
               /\ round' = [round EXCEPT ![n] = NoRound]

BeginSweep(n) ==
  /\ pc[n] = "idle" /\ queue[n] = {}
  /\ Peers[n] # {}
  /\ queue' = [queue EXCEPT ![n] = Peers[n]]
  /\ UNCHANGED <<now, db, cursor, pc, round, posts, seen, written>>

\* resolve_best_addr finds no address that accepts a connection.
SkipPeer(n, p) ==
  /\ "net" \in Hazards
  /\ pc[n] = "idle" /\ p \in queue[n]
  /\ queue' = [queue EXCEPT ![n] = @ \ {p}]
  /\ UNCHANGED <<now, db, cursor, pc, round, posts, seen, written>>

\* A node that knows its own Tailscale address passes itself over.
SkipSelf(n) ==
  /\ pc[n] = "idle" /\ n \in queue[n]
  /\ queue' = [queue EXCEPT ![n] = @ \ {n}]
  /\ UNCHANGED <<now, db, cursor, pc, round, posts, seen, written>>

\* What the round reads as its cursor: a failed read counts as no cursor.
ReadCursor(n, a) ==
  {cursor[n][a]} \cup (IF "busy" \in Hazards THEN {None} ELSE {})

\* The network decides which of a peer's addresses accepts a connection.
\* round_start_at is captured before the cursor is read.
StartRound(n, a) ==
  /\ pc[n] = "idle" /\ Host[a] \in queue[n]
  /\ Host[a] = n => "tailscale" \in Hazards
  /\ queue' = [queue EXCEPT ![n] = @ \ {Host[a]}]
  /\ Goto(n, "export")
  /\ \E since \in ReadCursor(n, a) :
       round' = [round EXCEPT ![n] = [NoRound EXCEPT !.peer = a,
                                                    !.start = Clock(n),
                                                    !.since = since]]
  /\ UNCHANGED <<now, db, cursor, posts, seen, written>>

\* Nothing to push: the POST is skipped.
ExportNothing(n) ==
  /\ pc[n] = "export"
  /\ ChangesSince(db[n], round[n].since) = {}
  /\ Goto(n, "fetch")
  /\ UNCHANGED <<now, db, cursor, queue, round, posts, seen, written>>

ExportAndPost(n, id) ==
  /\ pc[n] = "export"
  /\ \A h \in posts : h.src = n => h.id # id
  /\ LET changes == ChangesSince(db[n], round[n].since)
     IN  /\ changes # {}
         /\ \E m \in {None} \cup {c.ver.ts : c \in changes} :
              /\ IsNewest(m, changes)
              /\ round' = [round EXCEPT ![n].exported = m]
         /\ posts' = posts \cup
              {[id |-> id, src |-> n, dst |-> Host[round[n].peer], at |-> "sent",
                todo |-> changes, held |-> {}, waiting |-> TRUE]}
  /\ Goto(n, "posted")
  /\ UNCHANGED <<now, db, cursor, queue, seen, written>>

ExportFails(n) ==
  /\ "busy" \in Hazards
  /\ pc[n] = "export"
  /\ EndRound(n)
  /\ UNCHANGED <<now, db, cursor, queue, posts, seen, written>>

\* Slip: the error of a lost request is logged, and the round goes on.
RequestLostIgnored(n, h) ==
  /\ "net" \in Hazards
  /\ h.src = n /\ h.waiting /\ h.at = "sent"
  /\ Goto(n, "fetch")
  /\ posts' = posts \ {h}
  /\ UNCHANGED <<now, db, cursor, queue, round, seen, written>>

\* The request never reached the peer.
RequestLost(n, h) ==
  /\ "net" \in Hazards
  /\ h.src = n /\ h.waiting /\ h.at = "sent"
  /\ EndRound(n)
  /\ posts' = posts \ {h}
  /\ UNCHANGED <<now, db, cursor, queue, seen, written>>

\* Slip: a timeout is taken for a late success.
SendTimesOutIgnored(n, h) ==
  /\ "net" \in Hazards
  /\ h.src = n /\ h.waiting
  /\ Goto(n, "fetch")
  /\ posts' = (posts \ {h}) \cup {[h EXCEPT !.waiting = FALSE]}
  /\ UNCHANGED <<now, db, cursor, queue, round, seen, written>>

\* Ten seconds pass, or the reply is lost: the round is over, the request not.
SendTimesOut(n, h) ==
  /\ "net" \in Hazards
  /\ h.src = n /\ h.waiting
  /\ EndRound(n)
  /\ posts' = (posts \ {h}) \cup {[h EXCEPT !.waiting = FALSE]}
  /\ UNCHANGED <<now, db, cursor, queue, seen, written>>

\* The peer went down with the connection.
ConnectionLost(n) ==
  /\ pc[n] = "posted"
  /\ \A h \in posts : ~(h.src = n /\ h.waiting)
  /\ EndRound(n)
  /\ UNCHANGED <<now, db, cursor, queue, posts, seen, written>>

-----------------------------------------------------------------------------
\* One iteration of the loop of apply_changes_inner at node n, for change c.

\* The local row is as new, or the insert fails: the change is only counted.
SkipChange(n, c) ==
  /\ ~Newer(c, db[n]) \/ "reject" \in Hazards
  /\ UNCHANGED <<db, seen>>

\* The check lets the change through.  A SELECT that fails counts as no local
\* row, and there is nothing to compare with.
Passes(n, c) == Newer(c, db[n]) \/ "unchecked" \in Hazards

\* Nobody came between the check and the insert.
AdoptChange(n, c) == /\ Passes(n, c)
                     /\ "interleave" \notin Hazards
                     /\ Store(n, c)

\* The check has passed; the insert is a statement of its own.
DecideChange(n, c) == /\ Passes(n, c)
                      /\ "interleave" \in Hazards
                      /\ UNCHANGED <<db, seen>>

-----------------------------------------------------------------------------
\* The import handler of node h.dst, for request h.

Progress(h, g) == posts' = (posts \ {h}) \cup {g}

Arrive(h) ==
  /\ h.at = "sent"
  /\ Progress(h, [h EXCEPT !.at = "applying"])
  /\ UNCHANGED <<now, db, cursor, pc, queue, round, seen, written>>

\* No pooled connection: an error object, with status 200.
ImportRefused(h) ==
  /\ "refused" \in Hazards
  /\ h.at = "sent"
  /\ Progress(h, [h EXCEPT !.at = "applying", !.todo = {}])
  /\ UNCHANGED <<now, db, cursor, pc, queue, round, seen, written>>

\* The changes are applied one at a time.
Importing(h, c) == h.at = "applying" /\ h.held = {} /\ c \in h.todo

ImportSkip(h, c) ==
  /\ Importing(h, c)
  /\ SkipChange(h.dst, c)
  /\ Progress(h, [h EXCEPT !.todo = @ \ {c}])
  /\ UNCHANGED <<now, cursor, pc, queue, round, written>>

ImportAdopt(h, c) ==
  /\ Importing(h, c)
  /\ AdoptChange(h.dst, c)
  /\ Progress(h, [h EXCEPT !.todo = @ \ {c}])
  /\ UNCHANGED <<now, cursor, pc, queue, round, written>>

ImportDecide(h, c) ==
  /\ Importing(h, c)
  /\ DecideChange(h.dst, c)
  /\ Progress(h, [h EXCEPT !.todo = @ \ {c}, !.held = {c}])
  /\ UNCHANGED <<now, cursor, pc, queue, round, written>>

ImportInsert(h, c) ==
  /\ h.at = "applying" /\ c \in h.held
  /\ Store(h.dst, c)
  /\ Progress(h, [h EXCEPT !.held = {}])
  /\ UNCHANGED <<now, cursor, pc, queue, round, written>>

\* The handler is done; its reply counts for a client that still waits.
ImportReply(h) ==
  /\ h.at = "applying" /\ h.todo = {} /\ h.held = {}
  /\ posts' = posts \ {h}
  /\ pc' = IF h.waiting THEN [pc EXCEPT ![h.src] = "fetch"] ELSE pc
  /\ UNCHANGED <<now, db, cursor, queue, round, seen, written>>

-----------------------------------------------------------------------------
\* The loop of node n: the pull half of a round.

\* GET /api/sync/export, with the cursor the push used.
Fetch(n) ==
  /\ pc[n] = "fetch"
  /\ round' = [round EXCEPT ![n].todo = ChangesSince(db[Host[round[n].peer]],
                                                    round[n].since)]
  /\ Goto(n, "apply")
  /\ UNCHANGED <<now, db, cursor, queue, posts, seen, written>>

\* The request fails, or the reply holds no list of changes.
FetchFails(n) ==
  /\ Hazards \cap {"net", "busy"} # {}
  /\ pc[n] = "fetch"
  /\ EndRound(n)
  /\ UNCHANGED <<now, db, cursor, queue, posts, seen, written>>

Pulling(n, c) == pc[n] = "apply" /\ round[n].held = {} /\ c \in round[n].todo

PullSkip(n, c) ==
  /\ Pulling(n, c)
  /\ SkipChange(n, c)
  /\ round' = [round EXCEPT ![n].todo = @ \ {c}]
  /\ UNCHANGED <<now, cursor, pc, queue, posts, written>>

PullAdopt(n, c) ==
  /\ Pulling(n, c)
  /\ AdoptChange(n, c)
  /\ round' = [round EXCEPT ![n].todo = @ \ {c},
                            ![n].applied = Later(@, c.ver.ts)]
  /\ UNCHANGED <<now, cursor, pc, queue, posts, written>>

PullDecide(n, c) ==
  /\ Pulling(n, c)
  /\ DecideChange(n, c)
  /\ round' = [round EXCEPT ![n].todo = @ \ {c}, ![n].held = {c}]
  /\ UNCHANGED <<now, cursor, pc, queue, posts, written>>

PullInsert(n, c) ==
  /\ pc[n] = "apply" /\ c \in round[n].held
  /\ Store(n, c)
  /\ round' = [round EXCEPT ![n].held = {},
                            ![n].applied = Later(@, c.ver.ts)]
  /\ UNCHANGED <<now, cursor, pc, queue, posts, written>>

Applied(n) == pc[n] = "apply" /\ round[n].todo = {} /\ round[n].held = {}

NextCursor(n) == ComputeNewCursor(round[n].since, round[n].exported,
                                  round[n].applied, round[n].start)

FinishRound(n) ==
  /\ Applied(n)
  /\ cursor' = [cursor EXCEPT ![n][round[n].peer] = NextCursor(n)]
  /\ EndRound(n)
  /\ UNCHANGED <<now, db, queue, posts, seen, written>>

\* The upsert of the cursor fails: only a warning.
FinishUnsaved(n) ==
  /\ "busy" \in Hazards
  /\ Applied(n)
  /\ EndRound(n)
  /\ UNCHANGED <<now, db, cursor, queue, posts, seen, written>>

-----------------------------------------------------------------------------
\* Slip: the restarted loop takes the half-done round for its own.
CrashKeepsRound(n) ==
  /\ "crash" \in Hazards
  /\ Goto(n, "idle")
  /\ queue' = [queue EXCEPT ![n] = {}]
  /\ posts' = {IF h.src = n THEN [h EXCEPT !.waiting = FALSE] ELSE h :
                 h \in {g \in posts : g.dst # n}}
  /\ UNCHANGED <<now, db, cursor, round, seen, written>>

\* Rows and cursors are in the database; the loop and open requests are not.
Crash(n) ==
  /\ "crash" \in Hazards
  /\ EndRound(n)
  /\ queue' = [queue EXCEPT ![n] = {}]
  /\ posts' = {IF h.src = n THEN [h EXCEPT !.waiting = FALSE] ELSE h :
                 h \in {g \in posts : g.dst # n}}
  /\ UNCHANGED <<now, db, cursor, seen, written>>

PushStep(n) ==
  \/ BeginSweep(n)
  \/ SkipSelf(n)
  \/ \E p \in Peers[n] : SkipPeer(n, p)
  \/ \E a \in Addr : StartRound(n, a)
  \/ ExportNothing(n) \/ ExportFails(n)
  \/ \E id \in PostId : ExportAndPost(n, id)
  \/ \E h \in posts : RequestLost(n, h) \/ SendTimesOut(n, h)
  \/ ConnectionLost(n)

ImportStep(h) ==
  \/ Arrive(h) \/ ImportRefused(h) \/ ImportReply(h)
  \/ \E c \in h.todo : \/ ImportSkip(h, c)
                       \/ ImportAdopt(h, c)
                       \/ ImportDecide(h, c)
  \/ \E c \in h.held : ImportInsert(h, c)

PullStep(n) ==
  \/ Fetch(n) \/ FetchFails(n)
  \/ \E c \in round[n].todo : \/ PullSkip(n, c)
                              \/ PullAdopt(n, c)
                              \/ PullDecide(n, c)
  \/ \E c \in round[n].held : PullInsert(n, c)
  \/ FinishRound(n) \/ FinishUnsaved(n)

Next ==
  \/ Tick
  \/ \E n \in Node : \/ \E r \in Row : LocalWrite(n, r)
                      \/ PushStep(n)
                      \/ PullStep(n)
                      \/ Crash(n)
  \/ \E h \in posts : ImportStep(h)

Spec == Init /\ [][Next]_vars

-----------------------------------------------------------------------------
\* Fairness.  The loop and the handlers run on live threads, so each of their
\* steps is weakly fair.  A link may fail any number of times, but an address
\* that is tried for ever is reached and a request that is sent for ever
\* arrives: strong fairness of StartRound and Arrive.  Every request has a
\* handler of its own.
LoopFairness(n) ==
  /\ WF_vars(BeginSweep(n))
  /\ WF_vars(ExportNothing(n))
  /\ WF_vars(\E id \in PostId : ExportAndPost(n, id))
  /\ WF_vars(ConnectionLost(n))
  /\ WF_vars(PullStep(n))
LinkFairness(n, p) ==
  /\ SF_vars(\/ p = n /\ SkipSelf(n)
             \/ \E a \in Addr : Host[a] = p /\ StartRound(n, a))
  /\ SF_vars(\E h \in posts : h.src = n /\ h.dst = p /\ Arrive(h))
HandlerFairness(n, id) ==
  WF_vars(\E h \in posts : h.src = n /\ h.id = id /\ h.at = "applying" /\ ImportStep(h))

FairSpec == /\ Spec
            /\ \A n \in Node : LoopFairness(n)
            /\ \A n \in Node, id \in PostId : HandlerFairness(n, id)
            /\ \A n \in Node : \A p \in Peers[n] : LinkFairness(n, p)

-----------------------------------------------------------------------------
\* The types of the state: what the loop holds of a peer exists exactly while
\* a round is open, and only changes with a real version travel.
TypeOK ==
  /\ now \in Stamp
  /\ db \in [Node -> [Row -> Version \cup {NoVersion}]]
  /\ cursor \in [Node -> [Addr -> Nat]]
  /\ pc \in [Node -> {"idle", "export", "posted", "fetch", "apply"}]
  /\ queue \in [Node -> SUBSET Node]
  /\ round \in [Node -> Round \cup {NoRound}]
  /\ posts \subseteq Post
  /\ seen \in [Node -> [Row -> Nat]]
  /\ written \subseteq Change
  /\ \A n \in Node : round[n] \in Round <=> pc[n] # "idle"

\* A row stamped in the future by a peer with a fast clock does not poison the
\* cursor (sync_cursor.rs, rule 2): a cursor never passes its node's own clock,
\* or that node's next writes would never be exported.
CursorNotAhead == \A n \in Node, a \in Addr : cursor[n][a] <= Clock(n)

\* The cursor follows row data, never the wall clock alone (sync_cursor.rs,
\* rule 1): some row the node holds or held is at least as new as the cursor.
CursorFromRowData ==
  \A n \in Node, a \in Addr :
    cursor[n][a] # None => \E r \in Row : seen[n][r] >= cursor[n][a]

\* Nobody else's import takes a node back behind its own writes: the row a
\* service reads is at least as new as what it wrote last (LWW, sync_apply.rs).
OwnWritesKept ==
  \A c \in written : c.ver.ts <= db[c.ver.by][c.row].ts

\* A cursor never moves backwards (sync_cursor.rs, rule 3), not even after a
\* round that failed to read it and exported everything: the rows the node
\* holds are always enough to bring it back to where it was.
CursorNeverBack ==
  [][\A n \in Node, a \in Addr : cursor'[n][a] >= cursor[n][a]]_vars

\* A node's own write that its cursor for an address has passed did reach the
\* node at that address (sync.rs: the cursor must not advance over rows the peer
\* has not seen, as they would never be exported to it again), whatever other
\* addresses the peer was reached under before or since.
NoOwnWriteSkipped ==
  \A n \in Node, a \in Addr, r \in Row :
    db[n][r].by = n /\ db[n][r].ts <= cursor[n][a] => seen[Host[a]][r] >= db[n][r].ts

\* Nothing is under way, and a node has an address for each of its peers under
\* which no round would exchange a row.
Quiet ==
  /\ posts = {}
  /\ \A n \in Node : pc[n] = "idle"
  /\ \A n \in Node : \A p \in Peers[n] \ {n} :
       \E a \in Addr : /\ Host[a] = p
                      /\ \A r \in Row : db[n][r].ts <= cursor[n][a] /\ db[p][r].ts <= cursor[n][a]

\* When the mesh has nothing left to exchange, linked nodes hold equally new
\* rows: the cursors never hide a row that one of them is missing.
QuietAgrees ==
  Quiet => \A n \in Node : \A p \in Peers[n], r \in Row : db[n][r].ts = db[p][r].ts

\* A row changes only by a write of the node's own services or to a strictly
\* newer version (doc of apply_changes, sync_apply.rs).
OverwritesOnlyOlder ==
  [][\A n \in Node, r \in Row :
       db'[n][r] # db[n][r] => \/ db'[n][r] = [ts |-> Clock(n), by |-> n]
                               \/ db'[n][r].ts > db[n][r].ts]_vars

\* Rounds, cursors and messages implement last-writer-wins replication.
Lww == INSTANCE LwwReplication
ImplementsLww == Lww!Spec

\* Once the services stop writing, linked nodes come to hold equally new rows
\* and stay so, whatever the network does short of failing for ever.
EventuallyAgree ==
  <>[](\A n \in Node : \A p \in Peers[n], r \in Row : db[n][r].ts = db[p][r].ts)
=============================================================================
