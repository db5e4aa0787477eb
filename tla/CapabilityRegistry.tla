------------------------- MODULE CapabilityRegistry -------------------------
(***************************************************************************)
(* The registry of node capabilities: the handlers of capability_routes.rs  *)
(* over the statements of capability_registry.rs and the table              *)
(* node_capabilities of schema.rs.                                          *)
(*                                                                          *)
(* Handlers run beside each other, each on a pooled connection of its own.  *)
(* A registration is one INSERT ... ON CONFLICT per list entry, each its    *)
(* own transaction; a removal is one DELETE; a read is one SELECT.  A       *)
(* handler never waits, so only a crash can cut it short.                   *)
(***************************************************************************)
EXTENDS CapabilityTypes

CONSTANTS Call,   \* the calls of the three handlers that write or may fail to
          NoCall

ASSUME NoCallAssumption == NoCall \notin Call

VARIABLES
  row,     \* row[p][k]: the row of node_capabilities, or NoRow
  phase,   \* phase[c]: "new", "open", "ok", "error" or "lost" in a crash
  job,     \* job[c]: the request, as decoded by axum
  next,    \* next[c]: the list entry register_capabilities has come to
  answer,  \* the answer being given to a reader, if any, after the table it
           \* was read from
  writer,  \* history: the call whose statement last changed the row
  before   \* history: before[c] are the calls that had ended when c began

vars == <<row, phase, job, next, answer, writer, before>>

Request == [op : {"register"}, peer : Peer, list : Lists]
             \cup [op : {"remove"}, peer : Peer]

NoRequest == [op |-> "none"]

Ended == {c \in Call : phase[c] \in {"ok", "error", "lost"}}

Init ==
  /\ row = [p \in Peer |-> [k \in Cap |-> NoRow]]
  /\ phase = [c \in Call |-> "new"]
  /\ job = [c \in Call |-> NoRequest]
  /\ next = [c \in Call |-> 1]
  /\ answer = <<>>
  /\ writer = [p \in Peer |-> [k \in Cap |-> NoCall]]
  /\ before = [c \in Call |-> {}]

\* A request reaches its handler, which asks the pool for a connection.
Arrive(c, r, outcome) ==
  /\ phase[c] = "new"
  /\ phase' = [phase EXCEPT ![c] = outcome]
  /\ job' = [job EXCEPT ![c] = r]
  /\ before' = [before EXCEPT ![c] = Ended]
  /\ UNCHANGED <<row, next, writer>> /\ answer' = <<>>

Connected(c, r) == Arrive(c, r, "open")

\* No connection: an error object, with status 200.
Refused(c, r) == Arrive(c, r, "error")

Answer(c, outcome) == /\ phase[c] = "open"
                      /\ phase' = [phase EXCEPT ![c] = outcome]

-----------------------------------------------------------------------------
Registering(c) == phase[c] = "open" /\ job[c].op = "register"

\* Slip: an entry whose name is there already is ignored.
UpsertNew(c) ==
  /\ Registering(c) /\ next[c] <= Len(job[c].list)
  /\ LET entry == job[c].list[next[c]]
     IN IF row[job[c].peer][entry.name] = NoRow
          THEN /\ row' = [row EXCEPT ![job[c].peer][entry.name] = entry]
               /\ writer' = [writer EXCEPT ![job[c].peer][entry.name] = c]
          ELSE UNCHANGED <<row, writer>>
  /\ next' = [next EXCEPT ![c] = @ + 1]
  /\ UNCHANGED <<phase, job, before>> /\ answer' = <<>>

\* Slip: every second entry is left out.
UpsertOther(c) ==
  /\ Registering(c) /\ next[c] <= Len(job[c].list)
  /\ LET entry == job[c].list[next[c]]
     IN /\ row' = [row EXCEPT ![job[c].peer][entry.name] = entry]
        /\ writer' = [writer EXCEPT ![job[c].peer][entry.name] = c]
  /\ next' = [next EXCEPT ![c] = @ + 2]
  /\ UNCHANGED <<phase, job, before>> /\ answer' = <<>>

\* The row of the entry's name is inserted, or replaced as a whole.
Upsert(c) ==
  /\ Registering(c) /\ next[c] <= Len(job[c].list)
  /\ LET entry == job[c].list[next[c]]
     IN /\ row' = [row EXCEPT ![job[c].peer][entry.name] = entry]
        /\ writer' = [writer EXCEPT ![job[c].peer][entry.name] = c]
  /\ next' = [next EXCEPT ![c] = @ + 1]
  /\ UNCHANGED <<phase, job, before>> /\ answer' = <<>>

Registered(c) ==
  /\ Registering(c) /\ next[c] > Len(job[c].list)
  /\ Answer(c, "ok")
  /\ UNCHANGED <<row, job, next, writer, before>> /\ answer' = <<>>

\* Slip: an entry that cannot be written is passed over.
UpsertSkips(c) ==
  /\ Registering(c) /\ next[c] <= Len(job[c].list)
  /\ next' = [next EXCEPT ![c] = @ + 1]
  /\ UNCHANGED <<row, phase, job, writer, before>> /\ answer' = <<>>

\* The first statement that fails ends the call; what came before it stays.
UpsertFails(c) ==
  /\ Registering(c) /\ next[c] <= Len(job[c].list)
  /\ Answer(c, "error")
  /\ UNCHANGED <<row, job, next, writer, before>> /\ answer' = <<>>

Removing(c) == phase[c] = "open" /\ job[c].op = "remove"

Remove(c) ==
  /\ Removing(c)
  /\ row' = [row EXCEPT ![job[c].peer] = [k \in Cap |-> NoRow]]
  /\ writer' = [writer EXCEPT ![job[c].peer] = [k \in Cap |-> c]]
  /\ Answer(c, "ok")
  /\ UNCHANGED <<job, next, before>> /\ answer' = <<>>

RemoveFails(c) ==
  /\ Removing(c)
  /\ Answer(c, "error")
  /\ UNCHANGED <<row, job, next, writer, before>> /\ answer' = <<>>

-----------------------------------------------------------------------------
Select(said) == /\ answer = <<>> /\ answer' = <<row, said>>
                /\ UNCHANGED <<row, phase, job, next, writer, before>>

GetPeer(p) == Select(<<"peer", Rows(row, p)>>)

ListAll == Select(<<"all", Grouped(row)>>)

\* Without required tags the answer is empty, as Ranked has it.
QueryPeers(q) == \E r \in Ranked(row, q) : Select(<<"query", r>>)

\* The reader has its answer.
Delivered == /\ answer # <<>> /\ answer' = <<>>
             /\ UNCHANGED <<row, phase, job, next, writer, before>>

\* The daemon dies; the table stays, no call is answered.
Crash ==
  /\ \E c \in Call : phase[c] = "open"
  /\ phase' = [c \in Call |-> IF phase[c] = "open" THEN "lost" ELSE phase[c]]
  /\ UNCHANGED <<row, job, next, writer, before>> /\ answer' = <<>>

Handle(c) ==
  \/ \E r \in Request : Connected(c, r) \/ Refused(c, r)
  \/ Upsert(c) \/ Registered(c) \/ UpsertFails(c)
  \/ Remove(c) \/ RemoveFails(c)

Read == \/ \E p \in Peer : GetPeer(p)
        \/ ListAll
        \/ \E q \in Queries : QueryPeers(q)

Next == (\E c \in Call : Handle(c)) \/ Read \/ Delivered \/ Crash

Spec == Init /\ [][Next]_vars

-----------------------------------------------------------------------------
\* The types of the state: a call that has begun has a request, and its list
\* is not left behind.
TypeOK ==
  /\ row \in View
  /\ phase \in [Call -> {"new", "open", "ok", "error", "lost"}]
  /\ job \in [Call -> Request \cup {NoRequest}]
  /\ \A c \in Call : phase[c] = "new" <=> job[c] = NoRequest
  /\ next \in [Call -> Nat \ {0}]
  /\ \A c \in Call : job[c].op = "register" => next[c] <= Len(job[c].list) + 1
  /\ writer \in [Peer -> [Cap -> Call \cup {NoCall}]]
  /\ before \in [Call -> SUBSET Call]

\* The entries of a call that name capability k of peer p.
Naming(c, p, k) ==
  IF job[c].op = "register" /\ job[c].peer = p
    THEN {i \in DOMAIN job[c].list : job[c].list[i].name = k} ELSE {}

\* Whether a call that succeeded says something of the row.
Settles(c, p, k) ==
  /\ phase[c] = "ok"
  /\ \/ Naming(c, p, k) # {}
     \/ job[c].op = "remove" /\ job[c].peer = p

\* An answer of success is in effect: the row was last changed by that call, or
\* by one that was not over when the call began.  A registration does not bring
\* a removed row back, and a removal does not spare one (capability_routes.rs).
AnsweredInEffect ==
  \A p \in Peer, k \in Cap, c \in Call :
    Settles(c, p, k) => writer[p][k] \notin before[c] \cup {NoCall}

\* A peer one of whose capabilities offers all that is required is not ranked
\* below one that has a single capability to offer, and that lacks something
\* (query_capable_peers).
CoverageFirst ==
  \A q \in Queries : \A r \in Ranked(row, q) : \A i, j \in DOMAIN r :
    LET covers(p) == \E k \in Matching(row, q, p) : Matched(q, k) = DOMAIN q.required
    IN covers(r[j].peer) /\ ~covers(r[i].peer)
         /\ Cardinality(Matching(row, q, r[i].peer)) = 1 => j < i

\* The handlers keep what CapabilityPromise promises the clients, who cannot
\* tell a call that failed from one lost in a crash.
Promise == INSTANCE CapabilityPromise WITH
  state <- [c \in Call |-> IF phase[c] \in {"error", "lost"} THEN "failed" ELSE phase[c]],
  asked <- job,
  earlier <- before,
  shown <- answer

KeepsPromise == Promise!Spec
=============================================================================
