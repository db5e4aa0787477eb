----------------------------- MODULE Heartbeat -----------------------------
(***************************************************************************)
(* How the mesh learns that a node is alive (sync_loop.rs, transport.rs,    *)
(* the heartbeat and readiness handlers of routes.rs).                      *)
(*                                                                          *)
(* The loop of one node, Me, in time.  It sleeps, then visits the peers of  *)
(* its registry one after another: it looks for an address that accepts a   *)
(* connection, syncs every table, saves statistics and only then sends the  *)
(* peer a heartbeat.  A peer shows Me as online while the last heartbeat it *)
(* stored is younger than OfflineAfter.                                     *)
(*                                                                          *)
(* Every blocking call has a limit; `left` is what is left of it, and time  *)
(* does not pass it.  Local statements take no time.                        *)
(***************************************************************************)
EXTENDS Integers, Sequences

CONSTANTS Me, Peer,
          Registry,       \* the active peers in the order of their names
          Addrs,          \* Addrs[p]: how many addresses peers.conf has for p
          MaxAddrs,       \* how many it can have
          Tables,         \* the number of SYNC_TABLES
          Interval,       \* the sleep between two sweeps
          ConnectLimit,   \* timeout of one connection attempt
          RequestLimit,   \* timeout of one import or export request, and again
                          \* of reading the body of an answer
          BeatLimit,      \* timeout of a heartbeat and of reading its rejection
          OfflineAfter,   \* age at which a stored heartbeat counts as offline
          MaxFailures,    \* failures at which the node is no longer ready
          Steady,         \* peers that answer every request within its limit
          Faults          \* what may go wrong besides the other peers

\* "crash"     the daemon stops and starts again
\* "busy"      the registry cannot be read or the pool has no connection
\* "tailscale" the local Tailscale address cannot be found
FaultKinds == {"crash", "busy", "tailscale"}

ASSUME MeAssumption == Me \notin Peer
ASSUME RegistryAssumption == Registry \in Seq(Peer \cup {Me})
ASSUME AddrsAssumption ==
         MaxAddrs \in Nat /\ Addrs \in [Peer \cup {Me} -> 1 .. MaxAddrs]
ASSUME TablesAssumption == Tables \in Nat \ {0}
ASSUME LimitsAssumption ==
         /\ Interval \in Nat /\ ConnectLimit \in Nat /\ RequestLimit \in Nat
         /\ BeatLimit \in Nat /\ OfflineAfter \in Nat /\ MaxFailures \in Nat
ASSUME SteadyAssumption == Steady \subseteq Peer /\ Faults \subseteq FaultKinds

VARIABLES
  at,        \* where the loop is
  left,      \* the time left for the blocking call it is in
  pos,       \* the place in the registry that the sweep has come to
  addr,      \* the address being tried
  table,     \* the table being synced
  answered,  \* whether a round of this visit succeeded
  age,       \* age[p]: time since p stored a heartbeat, up to OfflineAfter
  failures,  \* failures[p]: consecutive_failures in mesh_sync_stats
  missed,    \* history: visits to p in a row without a round that succeeded
  calm       \* history: time the loop has run since its last own fault,
             \* up to OfflineAfter

vars == <<at, left, pos, addr, table, answered, age, failures, missed, calm>>

Init ==
  /\ at = "sleep" /\ left = Interval
  /\ pos = 1 /\ addr = 1 /\ table = 1 /\ answered = FALSE
  /\ age = [p \in Peer |-> OfflineAfter]
  /\ failures = [p \in Peer |-> 0]
  /\ missed = [p \in Peer |-> 0]
  /\ calm = 0

Older(a) == IF a < OfflineAfter THEN a + 1 ELSE a

Tick ==
  /\ left > 0 \/ at = "down"
  /\ left' = IF at = "down" THEN left ELSE left - 1
  /\ age' = [p \in Peer |-> Older(age[p])]
  /\ calm' = IF at = "down" THEN calm ELSE Older(calm)
  /\ UNCHANGED <<at, pos, addr, table, answered, failures, missed>>

Current == Registry[pos]

\* Whether a request to the current peer may go unanswered.
Unsteady == Current \notin Steady

Call(label, limit) == at' = label /\ left' = limit

Sleep == Call("sleep", Interval)

-----------------------------------------------------------------------------
\* The registry is read anew for every sweep.
WakeUp ==
  /\ at = "sleep" /\ left = 0
  /\ Call("next", 0)
  /\ pos' = 1
  /\ UNCHANGED <<addr, table, answered, age, failures, missed, calm>>

\* No registry or no connection: nobody is visited, nobody gets a heartbeat.
SweepFails ==
  /\ "busy" \in Faults
  /\ at = "sleep" /\ left = 0
  /\ Sleep
  /\ calm' = 0
  /\ UNCHANGED <<pos, addr, table, answered, age, failures, missed>>

SkipSelf ==
  /\ at = "next" /\ pos <= Len(Registry)
  /\ Current = Me
  /\ pos' = pos + 1
  /\ UNCHANGED <<at, left, addr, table, answered, age, failures, missed, calm>>

\* A node that cannot tell its own address takes itself for a peer.
Visit ==
  /\ at = "next" /\ pos <= Len(Registry)
  /\ Current # Me \/ "tailscale" \in Faults
  /\ Call("connect", ConnectLimit)
  /\ addr' = 1
  /\ UNCHANGED <<pos, table, answered, age, failures, missed, calm>>

SweepEnds ==
  /\ at = "next" /\ pos > Len(Registry)
  /\ Sleep
  /\ UNCHANGED <<pos, addr, table, answered, age, failures, missed, calm>>

LeavePeer == /\ Call("next", 0)
             /\ pos' = pos + 1

\* The peer counts as missed when no round of the visit succeeded.
Count(ok) == missed' = IF Current \in Peer
                         THEN [missed EXCEPT ![Current] =
                                 IF ok THEN 0 ELSE IF @ < MaxFailures THEN @ + 1 ELSE @]
                         ELSE missed

-----------------------------------------------------------------------------
\* resolve_best_addr: the first address that accepts a connection.
Connected ==
  /\ at = "connect"
  /\ Call("push", RequestLimit)
  /\ table' = 1 /\ answered' = FALSE
  /\ UNCHANGED <<pos, addr, age, failures, missed, calm>>

\* Slip: the next attempt is with the same address.
SameAddress ==
  /\ at = "connect" /\ Unsteady
  /\ addr < Addrs[Current]
  /\ Call("connect", ConnectLimit)
  /\ UNCHANGED <<pos, addr, table, answered, age, failures, missed, calm>>

NextAddress ==
  /\ at = "connect" /\ Unsteady
  /\ addr < Addrs[Current]
  /\ Call("connect", ConnectLimit)
  /\ addr' = addr + 1
  /\ UNCHANGED <<pos, table, answered, age, failures, missed, calm>>

\* Slip: after the last address it starts again with the first.
TryAgain ==
  /\ at = "connect" /\ Unsteady
  /\ addr = Addrs[Current]
  /\ Call("connect", ConnectLimit)
  /\ addr' = 1
  /\ UNCHANGED <<pos, table, answered, age, failures, missed, calm>>

\* No address answers: the peer is skipped, its statistics are left alone.
Unreachable ==
  /\ at = "connect" /\ Unsteady
  /\ addr = Addrs[Current]
  /\ LeavePeer
  /\ Count(FALSE)
  /\ UNCHANGED <<addr, table, answered, age, failures, calm>>

-----------------------------------------------------------------------------
\* sync_table_with_peer for one table after another, a failed one included.

\* The POST succeeds, or there is nothing to push.  Of its answer only the status
\* is read; the GET has its limit for the answer and again for the body.
Pushed ==
  /\ at = "push"
  /\ Call("pull", 2 * RequestLimit)
  /\ UNCHANGED <<pos, addr, table, answered, age, failures, missed, calm>>

\* Slip: one table too many.
NextTableOver ==
  IF table <= Tables
    THEN Call("push", RequestLimit) /\ table' = table + 1
    ELSE Call("stats", 0) /\ UNCHANGED table

NextTable ==
  IF table < Tables
    THEN Call("push", RequestLimit) /\ table' = table + 1
    ELSE Call("stats", 0) /\ UNCHANGED table

Pulled ==
  /\ at = "pull"
  /\ answered' = TRUE
  /\ NextTable
  /\ UNCHANGED <<pos, addr, age, failures, missed, calm>>

\* Slip: a failed round is tried again at once.
RoundRetried ==
  /\ at \in {"push", "pull"} /\ Unsteady
  /\ Call("push", RequestLimit)
  /\ UNCHANGED <<pos, addr, table, answered, age, failures, missed, calm>>

\* The request fails or times out: the round returns (0, 0, 0).
RoundFails ==
  /\ at \in {"push", "pull"} /\ Unsteady
  /\ NextTable
  /\ UNCHANGED <<pos, addr, answered, age, failures, missed, calm>>

\* update_mesh_sync_stats: sums and times, never consecutive_failures.
UpdateStats ==
  /\ at = "stats"
  /\ Count(answered)
  /\ Call("beat", BeatLimit)
  /\ UNCHANGED <<pos, addr, table, answered, age, failures, calm>>

-----------------------------------------------------------------------------
\* handle_heartbeat stores the receiver's own time.
BeatStored ==
  /\ at = "beat"
  /\ age' = IF Current \in Peer THEN [age EXCEPT ![Current] = 0] ELSE age
  /\ LeavePeer
  /\ UNCHANGED <<addr, table, answered, failures, missed, calm>>

\* Not delivered, rejected, or answered with an error: only a log line.
BeatLost ==
  /\ at = "beat" /\ Unsteady
  /\ LeavePeer
  /\ UNCHANGED <<addr, table, answered, age, failures, missed, calm>>

-----------------------------------------------------------------------------
Stop ==
  /\ "crash" \in Faults
  /\ Call("down", 0)
  /\ calm' = 0
  /\ UNCHANGED <<pos, addr, table, answered, age, failures, missed>>

\* on_start spawns the loop, which sleeps first.
Start ==
  /\ at = "down"
  /\ Sleep
  /\ UNCHANGED <<pos, addr, table, answered, age, failures, missed, calm>>

Loop ==
  \/ WakeUp \/ SweepFails \/ SkipSelf \/ Visit \/ SweepEnds
  \/ Connected \/ NextAddress \/ Unreachable
  \/ Pushed \/ Pulled \/ RoundFails \/ UpdateStats
  \/ BeatStored \/ BeatLost

Next == Tick \/ Loop \/ Stop \/ Start

Spec == Init /\ [][Next]_vars

\* Time passes and every call returns by the end of its limit; the loop runs
\* on a thread of its own.  The registry and the pool may fail a sweep any
\* number of times, but not for ever.
FairSpec == Spec /\ WF_vars(Tick) /\ WF_vars(Loop) /\ SF_vars(WakeUp)

-----------------------------------------------------------------------------
Visiting == at \in {"connect", "push", "pull", "stats", "beat"}

\* The types of the state: the sweep stays inside the registry it iterates over
\* and the tables of SYNC_TABLES, and a visit always has a peer.
TypeOK ==
  /\ at \in {"down", "sleep", "next", "connect", "push", "pull", "stats", "beat"}
  /\ left \in Nat
  /\ pos \in 1 .. Len(Registry) + 1
  /\ Visiting => pos <= Len(Registry)
  /\ addr \in Nat /\ table \in 1 .. Tables /\ answered \in BOOLEAN
  /\ age \in [Peer -> 0 .. OfflineAfter]
  /\ failures \in [Peer -> Nat] /\ missed \in [Peer -> 0 .. MaxFailures]
  /\ calm \in 0 .. OfflineAfter

Online(p) == age[p] < OfflineAfter

\* The peers of the registry whose link never fails.
Served == {p \in Steady : \E i \in DOMAIN Registry : Registry[i] = p}

\* A node that has run for OfflineAfter since it last crashed, or lost a sweep
\* by its own fault, is shown as online by every peer whose link never fails,
\* however badly the other peers of its sweeps behave (run_sync_round).
ShownOnline == calm = OfflineAfter => \A p \in Served : Online(p)

\* The longest a visit can take, and the longest time between two heartbeats
\* to the same peer.
VisitLimit == MaxAddrs * ConnectLimit + Tables * (3 * RequestLimit) + BeatLimit
Gap == Interval + Len(Registry) * VisitLimit

\* What the visit under way can still take; all of it before it begins.
Rest ==
  CASE at = "connect" -> left + (Addrs[Current] - addr) * ConnectLimit
                           + Tables * (3 * RequestLimit) + BeatLimit
    [] at = "push" -> left + 2 * RequestLimit + (Tables - table) * (3 * RequestLimit) + BeatLimit
    [] at = "pull" -> left + (Tables - table) * (3 * RequestLimit) + BeatLimit
    [] at = "stats" -> BeatLimit
    [] at = "beat" -> left
    [] OTHER -> VisitLimit

\* The i-th entry of the registry gets its next heartbeat within this time,
\* once the daemon runs.
Due(i) ==
  IF at = "down" THEN Interval + i * VisitLimit
  ELSE IF at = "sleep" THEN left + i * VisitLimit
  ELSE IF pos <= i THEN Rest + (i - pos) * VisitLimit
  ELSE Rest + (Len(Registry) - pos) * VisitLimit + Interval + i * VisitLimit

\* How long the loop has owed p a heartbeat: since the last one it stored, or
\* since the loop lost its place by a fault of its own.
Waiting(p) == IF age[p] < calm THEN age[p] ELSE calm

\* The time a steady peer has waited for a heartbeat and the time until it gets
\* the next add up to no more than Gap, after a restart or a lost sweep too:
\* why a short registry keeps nodes online.
BeatInTime ==
  \A p \in Served :
    \E i \in DOMAIN Registry : Registry[i] = p /\ Waiting(p) + Due(i) <= Gap

\* Whatever the others do, a peer with a good link is sent heartbeats for
\* ever: no peer of the registry starves the ones after it.
HeardAgain == \A p \in Steady : []<>(age[p] = 0 \/ at = "down")

\* handle_node_readiness: MAX(consecutive_failures) < 5.
SyncHealthy == \A p \in Peer : failures[p] < MaxFailures

\* A node that calls its sync healthy has not missed a peer too many times in
\* a row (readiness handler, routes.rs).
HealthyMeansSynced == SyncHealthy => \A p \in Peer : missed[p] < MaxFailures
=============================================================================
