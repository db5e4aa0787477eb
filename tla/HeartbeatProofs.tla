-------------------------- MODULE HeartbeatProofs --------------------------
(***************************************************************************)
(* Proofs about Heartbeat: the state is well formed, and with a registry    *)
(* short enough for its longest sweep to end in time, every steady peer     *)
(* shows the node as online soon after its last own fault and until the     *)
(* next one, whatever the limits, the faults and the other peers.           *)
(***************************************************************************)
EXTENDS Heartbeat, TLAPS

\* The longest time between two heartbeats is below the age that counts as
\* offline.
Prompt == Gap < OfflineAfter

\* The address being tried is one the peer has, the steps between two blocking
\* calls take no time, and while the daemon is down nothing is owed to anybody.
PlaceOK == /\ at = "connect" => addr \in 1 .. Addrs[Current]
           /\ at \in {"next", "stats"} => left = 0
           /\ at = "down" => calm = 0

IInv == TypeOK /\ PlaceOK /\ BeatInTime

-----------------------------------------------------------------------------
\* Types.

\* The registry has a length, and its entries are peers or the node itself.
LEMMA RegistryType == /\ Len(Registry) \in Nat
                      /\ DOMAIN Registry = 1 .. Len(Registry)
                      /\ \A i \in 1 .. Len(Registry) : Registry[i] \in Peer \cup {Me}
  BY RegistryAssumption DEF RegistryAssumption

\* What the assumptions say of the numbers.
LEMMA Numbers ==
  /\ Tables \in Nat /\ Tables >= 1
  /\ Interval \in Nat /\ ConnectLimit \in Nat /\ RequestLimit \in Nat
  /\ BeatLimit \in Nat /\ OfflineAfter \in Nat /\ MaxFailures \in Nat
  /\ MaxAddrs \in Nat
  /\ \A p \in Peer \cup {Me} : Addrs[p] \in 1 .. MaxAddrs
  BY TablesAssumption, LimitsAssumption, AddrsAssumption
     DEF TablesAssumption, LimitsAssumption, AddrsAssumption

\* The type invariant, with its companion, holds initially.
LEMMA InitType == Init => TypeOK /\ PlaceOK
<1> SUFFICES ASSUME Init PROVE TypeOK /\ PlaceOK
  OBVIOUS
<1>1. answered \in BOOLEAN
  BY DEF Init
<1> QED
  BY <1>1, RegistryType, Numbers DEF Init, TypeOK, PlaceOK, Visiting

\* Every step keeps the types and the place of the sweep in the registry.
LEMMA NextType == TypeOK /\ PlaceOK /\ [Next]_vars => TypeOK' /\ PlaceOK'
<1> SUFFICES ASSUME TypeOK, PlaceOK, [Next]_vars PROVE TypeOK' /\ PlaceOK'
  OBVIOUS
<1> USE RegistryType, Numbers DEF TypeOK, PlaceOK, Visiting
<1>1. CASE Tick
  BY <1>1 DEF Tick, Older, Current
<1>2. CASE WakeUp
  BY <1>2 DEF WakeUp, Call
<1>3. CASE SweepFails
  BY <1>3 DEF SweepFails, Sleep, Call
<1>4. CASE SkipSelf
  BY <1>4 DEF SkipSelf
<1>5. CASE Visit
  BY <1>5 DEF Visit, Call, Current
<1>6. CASE SweepEnds
  BY <1>6 DEF SweepEnds, Sleep, Call
<1>7. CASE Connected
  <2>1. answered' \in BOOLEAN
    BY <1>7 DEF Connected
  <2> QED
    BY <1>7, <2>1 DEF Connected, Call
<1>8. CASE NextAddress
  <2>1. Current \in Peer \cup {Me} /\ Current' = Current
    BY <1>8 DEF NextAddress, Current
  <2>2. addr + 1 \in 1 .. Addrs[Current]
    BY <1>8, <2>1 DEF NextAddress
  <2> QED
    BY <1>8, <2>1, <2>2 DEF NextAddress, Call
<1>9. CASE Unreachable
  <2>1. missed' \in [Peer -> 0 .. MaxFailures]
    BY <1>9 DEF Unreachable, Count
  <2>2. at' = "next" /\ left' = 0 /\ pos' = pos + 1 /\ pos <= Len(Registry)
    BY <1>9 DEF Unreachable, LeavePeer, Call
  <2> QED
    BY <1>9, <2>1, <2>2 DEF Unreachable
<1>10. CASE Pushed
  BY <1>10 DEF Pushed, Call
<1>11. CASE Pulled
  BY <1>11 DEF Pulled, NextTable, Call
<1>12. CASE RoundFails
  BY <1>12 DEF RoundFails, NextTable, Call
<1>13. CASE UpdateStats
  <2>1. missed' \in [Peer -> 0 .. MaxFailures]
    BY <1>13 DEF UpdateStats, Count
  <2> QED
    BY <1>13, <2>1 DEF UpdateStats, Call
<1>14. CASE BeatStored
  BY <1>14 DEF BeatStored, LeavePeer, Call
<1>15. CASE BeatLost
  BY <1>15 DEF BeatLost, LeavePeer, Call
<1>16. CASE Stop
  BY <1>16 DEF Stop, Call
<1>17. CASE Start
  BY <1>17 DEF Start, Sleep, Call
<1>18. CASE UNCHANGED vars
  BY <1>18 DEF vars, Current
<1> QED
  BY <1>1, <1>2, <1>3, <1>4, <1>5, <1>6, <1>7, <1>8, <1>9, <1>10, <1>11,
     <1>12, <1>13, <1>14, <1>15, <1>16, <1>17, <1>18 DEF Next, Loop

\* The state of the loop is well formed: a peer is under way exactly while the
\* sweep is inside the registry, ages stay within their cap.
THEOREM TypeCorrect == Spec => []TypeOK
<1>1. Init => TypeOK /\ PlaceOK
  BY InitType
<1>2. TypeOK /\ PlaceOK /\ [Next]_vars => TypeOK' /\ PlaceOK'
  BY NextType
<1> QED
  BY <1>1, <1>2, PTL DEF Spec

-----------------------------------------------------------------------------
\* Arithmetic.  VisitLimit is a sum of products; what follows needs no more of
\* it than that it is a number and what a visit spends of it.

\* Arithmetic: the product of natural numbers is one.
LEMMA Product == \A a, b \in Nat : a * b \in Nat
  OBVIOUS

\* Arithmetic: one factor less.
LEMMA Distribute == \A a, v \in Int : (a - 1) * v = a * v - v
  OBVIOUS

\* Arithmetic: a product grows with its factor.
LEMMA Monotone == \A a, b, v \in Nat : a <= b => a * v <= b * v
<1> SUFFICES ASSUME NEW a \in Nat, NEW b \in Nat, NEW v \in Nat, a <= b
             PROVE a * v <= b * v
  OBVIOUS
<1>1. (b - a) * v \in Nat
  BY Product
<1>2. (b - a) * v = b * v - a * v
  OBVIOUS
<1>3. a * v \in Nat /\ b * v \in Nat
  BY Product
<1> QED
  BY <1>1, <1>2, <1>3

\* The limits of a visit and of a sweep are natural numbers.
LEMMA LimitTypes == VisitLimit \in Nat /\ Gap \in Nat
<1>1. VisitLimit \in Nat
  <2>1. MaxAddrs * ConnectLimit \in Nat
    BY Product, Numbers
  <2>2. 3 * RequestLimit \in Nat
    BY Numbers
  <2>3. Tables * (3 * RequestLimit) \in Nat
    BY <2>2, Product, Numbers
  <2> QED
    BY <2>1, <2>3, Numbers DEF VisitLimit
<1>2. Len(Registry) * VisitLimit \in Nat
  BY <1>1, Product, RegistryType
<1> QED
  BY <1>1, <1>2, Numbers DEF Gap

\* What is left of a visit is a number, and no more than VisitLimit when the
\* visit begins.
LEMMA RestType == TypeOK /\ PlaceOK => Rest \in Nat
<1> SUFFICES ASSUME TypeOK, PlaceOK PROVE Rest \in Nat
  OBVIOUS
<1> DEFINE w == (Tables - table) * (3 * RequestLimit)
           x == Tables * (3 * RequestLimit)
           y == (Addrs[Current] - addr) * ConnectLimit
<1>1. w \in Nat
  <2>1. Tables - table \in Nat /\ 3 * RequestLimit \in Nat
    BY Numbers DEF TypeOK
  <2> QED
    BY <2>1, Product
<1>2. x \in Nat
  <2>1. 3 * RequestLimit \in Nat
    BY Numbers
  <2> QED
    BY <2>1, Product, Numbers
<1>3. ASSUME at = "connect" PROVE y \in Nat
  <2>1. addr \in 1 .. Addrs[Current] /\ Current \in Peer \cup {Me}
    BY <1>3, RegistryType DEF TypeOK, PlaceOK, Visiting, Current
  <2>2. Addrs[Current] - addr \in Nat
    BY <2>1, Numbers
  <2> QED
    BY <2>2, Product, Numbers
<1>4. left \in Nat
  BY DEF TypeOK
<1>5. Rest = CASE at = "connect" -> left + y + x + BeatLimit
               [] at = "push" -> left + 2 * RequestLimit + w + BeatLimit
               [] at = "pull" -> left + w + BeatLimit
               [] at = "stats" -> BeatLimit
               [] at = "beat" -> left
               [] OTHER -> VisitLimit
  BY DEF Rest
<1> HIDE DEF w, x, y
<1>6. CASE at = "connect"
  BY <1>2, <1>3, <1>4, <1>5, <1>6, Numbers
<1>7. CASE at = "push"
  BY <1>1, <1>4, <1>5, <1>7, Numbers
<1>8. CASE at = "pull"
  BY <1>1, <1>4, <1>5, <1>8, Numbers
<1>9. CASE at = "stats"
  BY <1>5, <1>9, Numbers
<1>10. CASE at = "beat"
  BY <1>4, <1>5, <1>10, Numbers
<1>11. CASE at \in {"down", "sleep", "next"}
  BY <1>5, <1>11, LimitTypes
<1> QED
  BY <1>6, <1>7, <1>8, <1>9, <1>10, <1>11 DEF TypeOK

\* The same of the next state.
LEMMA RestTypeNext == TypeOK' /\ PlaceOK' => Rest' \in Nat
<1>1. (TypeOK /\ PlaceOK => Rest \in Nat)'
  BY RestType, PTL
<1> QED
  BY <1>1

-----------------------------------------------------------------------------
\* How Due changes.

\* The time until a heartbeat is a natural number.
LEMMA DueType == TypeOK /\ PlaceOK => \A i \in DOMAIN Registry : Due(i) \in Nat
<1> SUFFICES ASSUME TypeOK, PlaceOK, NEW i \in DOMAIN Registry PROVE Due(i) \in Nat
  OBVIOUS
<1>1. VisitLimit \in Nat /\ Rest \in Nat /\ i \in Nat \ {0} /\ left \in Nat
      /\ Len(Registry) \in Nat /\ Interval \in Nat /\ pos \in 1 .. Len(Registry) + 1
  BY LimitTypes, RestType, RegistryType, Numbers DEF TypeOK
<1>2. i * VisitLimit \in Nat
  BY <1>1, Product
<1>3. CASE at \in {"down", "sleep"}
  BY <1>1, <1>2, <1>3 DEF Due
<1>4. CASE at \notin {"down", "sleep"} /\ pos <= i
  <2>1. i - pos \in Nat
    BY <1>1, <1>4
  <2>2. (i - pos) * VisitLimit \in Nat
    BY <1>1, <2>1, Product
  <2>3. Due(i) = Rest + (i - pos) * VisitLimit
    BY <1>4 DEF Due
  <2> QED
    BY <1>1, <2>2, <2>3
<1>5. CASE at \notin {"down", "sleep"} /\ ~(pos <= i)
  <2> DEFINE p == (Len(Registry) - pos) * VisitLimit
             q == i * VisitLimit
  <2>1. Due(i) = Rest + p + Interval + q
    BY <1>5 DEF Due
  <2>2. p \in Int /\ p >= -VisitLimit
    <3>1. CASE pos <= Len(Registry)
      <4>1. Len(Registry) - pos \in Nat
        BY <1>1, <3>1
      <4>2. p \in Nat
        BY <1>1, <4>1, Product
      <4> QED
        BY <1>1, <4>2
    <3>2. CASE pos = Len(Registry) + 1
      <4>1. Len(Registry) - pos = -1
        BY <1>1, <3>2
      <4>2. p = -VisitLimit
        BY <1>1, <4>1
      <4> QED
        BY <1>1, <4>2
    <3> QED
      BY <1>1, <3>1, <3>2
  <2>3. q \in Nat /\ q >= VisitLimit
    <3>1. 1 * VisitLimit <= i * VisitLimit
      BY <1>1, Monotone
    <3> QED
      BY <1>1, <1>2, <3>1
  <2> HIDE DEF p, q
  <2> QED
    BY <1>1, <2>1, <2>2, <2>3
<1> QED
  BY <1>3, <1>4, <1>5

\* The same of the next state.
LEMMA DueTypeNext == TypeOK' /\ PlaceOK' => \A i \in DOMAIN Registry : Due(i)' \in Nat
<1>1. (TypeOK /\ PlaceOK => \A i \in DOMAIN Registry : Due(i) \in Nat)'
  BY DueType, PTL
<1> QED
  BY <1>1

\* Inside a visit: what is left of it does not grow.
LEMMA StayDue ==
  ASSUME TypeOK, PlaceOK, TypeOK', PlaceOK', NEW i \in DOMAIN Registry,
         pos' = pos, at \notin {"down", "sleep"}, at' \notin {"down", "sleep"},
         Rest' <= Rest
  PROVE  Due(i)' <= Due(i)
<1>1. VisitLimit \in Int /\ Rest \in Int /\ Rest' \in Int /\ i \in Int /\ pos \in Int
      /\ Len(Registry) \in Int /\ Interval \in Int
  BY LimitTypes, RestType, RestTypeNext, RegistryType, Numbers DEF TypeOK
<1>2. \A a \in Int : a * VisitLimit \in Int
  BY <1>1
<1> QED
  BY <1>1, <1>2 DEF Due

\* From one entry to the next: every entry but the one left comes nearer.
LEMMA LeaveDue ==
  ASSUME TypeOK, PlaceOK, NEW i \in DOMAIN Registry, i # pos, pos \in DOMAIN Registry,
         pos' = pos + 1, at \notin {"down", "sleep"}, at' = "next"
  PROVE  Due(i)' <= Due(i)
<1>1. VisitLimit \in Int /\ Rest \in Int /\ Rest >= 0 /\ i \in Int /\ pos \in Int
      /\ Len(Registry) \in Int /\ Interval \in Int
  BY LimitTypes, RestType, RegistryType, Numbers DEF TypeOK
<1>2. Rest' = VisitLimit
  BY DEF Rest
<1>3. /\ (i - (pos + 1)) * VisitLimit = (i - pos) * VisitLimit - VisitLimit
      /\ (Len(Registry) - (pos + 1)) * VisitLimit = (Len(Registry) - pos) * VisitLimit - VisitLimit
  <2>1. \A a \in Int : (a - (pos + 1)) * VisitLimit = (a - pos) * VisitLimit - VisitLimit
    <3> SUFFICES ASSUME NEW a \in Int
                 PROVE  (a - (pos + 1)) * VisitLimit = (a - pos) * VisitLimit - VisitLimit
      OBVIOUS
    <3>1. a - pos \in Int /\ a - (pos + 1) = (a - pos) - 1
      BY <1>1
    <3>2. ((a - pos) - 1) * VisitLimit = (a - pos) * VisitLimit - VisitLimit
      BY <1>1, <3>1, Distribute
    <3> QED
      BY <3>1, <3>2
  <2> QED
    BY <1>1, <2>1
<1>4. \A a \in Int : a * VisitLimit \in Int
  BY <1>1
<1>5. CASE pos + 1 <= i
  <2> DEFINE p == (i - pos) * VisitLimit
  <2>1. Due(i)' = VisitLimit + (p - VisitLimit)
    BY <1>1, <1>2, <1>3, <1>5 DEF Due
  <2>2. Due(i) = Rest + p
    BY <1>1, <1>5 DEF Due
  <2>3. p \in Int
    BY <1>1
  <2> HIDE DEF p
  <2> QED
    BY <1>1, <2>1, <2>2, <2>3
<1>6. CASE i < pos
  <2> DEFINE p == (Len(Registry) - pos) * VisitLimit
             q == i * VisitLimit
  <2>1. Due(i)' = VisitLimit + (p - VisitLimit) + Interval + q
    BY <1>1, <1>2, <1>3, <1>6 DEF Due
  <2>2. Due(i) = Rest + p + Interval + q
    BY <1>1, <1>6 DEF Due
  <2>3. p \in Int /\ q \in Int
    BY <1>1
  <2> HIDE DEF p, q
  <2> QED
    BY <1>1, <2>1, <2>2, <2>3
<1> QED
  BY <1>1, <1>5, <1>6

\* What a peer has waited is a number.
LEMMA WaitingType == TypeOK => \A p \in Peer : Waiting(p) \in Nat
  BY Numbers DEF TypeOK, Waiting

\* The same of the next state.
LEMMA WaitingTypeNext == TypeOK' => \A p \in Peer : Waiting(p)' \in Nat
<1>1. (TypeOK => \A p \in Peer : Waiting(p) \in Nat)'
  BY WaitingType, PTL
<1> QED
  BY <1>1

\* A served peer is a peer.
LEMMA ServedType == Served \subseteq Peer /\ Served \subseteq Steady
  BY SteadyAssumption DEF Served, SteadyAssumption

\* A step that lets nobody wait longer and brings no heartbeat further away.
LEMMA Keep ==
  ASSUME TypeOK, PlaceOK, TypeOK', PlaceOK', BeatInTime,
         \A p \in Served : Waiting(p)' <= Waiting(p),
         \A i \in DOMAIN Registry : Registry[i] \in Steady => Due(i)' <= Due(i)
  PROVE  BeatInTime'
<1> SUFFICES ASSUME NEW p \in Served
             PROVE  \E i \in DOMAIN Registry : Registry[i] = p /\ Waiting(p)' + Due(i)' <= Gap
  BY DEF BeatInTime, Served
<1>1. PICK i \in DOMAIN Registry : Registry[i] = p /\ Waiting(p) + Due(i) <= Gap
  BY DEF BeatInTime
<1>2. /\ Waiting(p) \in Int /\ Waiting(p)' \in Int
      /\ Due(i) \in Int /\ Due(i)' \in Int /\ Gap \in Int
  BY DueType, DueTypeNext, WaitingType, WaitingTypeNext, ServedType, LimitTypes
<1>3. Due(i)' <= Due(i) /\ Waiting(p)' <= Waiting(p)
  BY <1>1, ServedType
<1> QED
  BY <1>1, <1>2, <1>3

\* From the start of the loop no heartbeat is further away than Gap.
LEMMA FromStart == \A i \in DOMAIN Registry : Interval + i * VisitLimit <= Gap
<1> SUFFICES ASSUME NEW i \in DOMAIN Registry PROVE Interval + i * VisitLimit <= Gap
  OBVIOUS
<1>1. i \in Nat /\ Len(Registry) \in Nat /\ i <= Len(Registry) /\ VisitLimit \in Nat
  BY RegistryType, LimitTypes
<1>2. i * VisitLimit <= Len(Registry) * VisitLimit
  BY <1>1, Monotone
<1>3. i * VisitLimit \in Nat /\ Len(Registry) * VisitLimit \in Nat
  BY <1>1, Product
<1> QED
  BY <1>2, <1>3, Numbers DEF Gap

\* A fault of the node itself: everybody starts to wait anew.
LEMMA FaultKeeps ==
  ASSUME TypeOK', calm' = 0,
         \A i \in DOMAIN Registry : Due(i)' = Interval + i * VisitLimit
  PROVE  BeatInTime'
<1> SUFFICES ASSUME NEW p \in Served
             PROVE  \E i \in DOMAIN Registry : Registry[i] = p /\ Waiting(p)' + Due(i)' <= Gap
  BY DEF BeatInTime, Served
<1>1. PICK i \in DOMAIN Registry : Registry[i] = p
  BY DEF Served
<1>2. Waiting(p)' = 0
  <2>1. age'[p] \in Nat
    BY ServedType, Numbers DEF TypeOK
  <2> QED
    BY <2>1 DEF Waiting
<1>3. Due(i)' <= Gap /\ Due(i)' \in Int
  <2>1. i * VisitLimit \in Int
    BY RegistryType, LimitTypes
  <2> QED
    BY <2>1, FromStart, Numbers
<1> QED
  BY <1>1, <1>2, <1>3

-----------------------------------------------------------------------------
\* What each step of a visit does to what is left of it.

\* Beginning a visit takes no time from it.
LEMMA VisitRest == ASSUME TypeOK, PlaceOK, Visit PROVE Rest' <= Rest
<1> DEFINE x == Tables * (3 * RequestLimit)
           y == (Addrs[Current] - 1) * ConnectLimit
           z == MaxAddrs * ConnectLimit
<1>1. Current' = Current /\ Current \in Peer \cup {Me}
  BY RegistryType DEF TypeOK, Visit, Current
<1>2. Rest = z + x + BeatLimit
  BY DEF Visit, Rest, VisitLimit
<1>3. Rest' = ConnectLimit + y + x + BeatLimit
  BY <1>1 DEF Visit, Call, Rest
<1>4. ConnectLimit + y <= z /\ y \in Int /\ z \in Int
  <2>1. Addrs[Current] \in Nat /\ MaxAddrs \in Nat /\ ConnectLimit \in Nat
        /\ Addrs[Current] <= MaxAddrs
    BY <1>1, Numbers
  <2>2. Addrs[Current] * ConnectLimit <= z
    BY <2>1, Monotone
  <2>3. y = Addrs[Current] * ConnectLimit - ConnectLimit
    BY <2>1, Distribute
  <2>4. Addrs[Current] * ConnectLimit \in Int /\ z \in Int
    BY <2>1, Product
  <2> HIDE DEF y, z
  <2> QED
    BY <2>1, <2>2, <2>3, <2>4
<1>5. x \in Int
  BY Numbers
<1> HIDE DEF x, y, z
<1> QED
  BY <1>2, <1>3, <1>4, <1>5, Numbers

\* Another address: its attempt was accounted for.
LEMMA NextAddressRest == ASSUME TypeOK, PlaceOK, NextAddress PROVE Rest' <= Rest
<1> DEFINE x == Tables * (3 * RequestLimit)
           y == (Addrs[Current] - addr) * ConnectLimit
<1>1. Current' = Current /\ Current \in Peer \cup {Me}
  BY RegistryType DEF TypeOK, Visiting, NextAddress, Current
<1>2. Rest = left + y + x + BeatLimit
  BY DEF NextAddress, Rest
<1>3. Rest' = ConnectLimit + (Addrs[Current] - (addr + 1)) * ConnectLimit + x + BeatLimit
  BY <1>1 DEF NextAddress, Call, Rest
<1>4. (Addrs[Current] - (addr + 1)) * ConnectLimit = y - ConnectLimit
  <2>1. Addrs[Current] \in Int /\ addr \in Int /\ ConnectLimit \in Int
    BY <1>1, Numbers DEF TypeOK
  <2>2. Addrs[Current] - (addr + 1) = (Addrs[Current] - addr) - 1 /\ Addrs[Current] - addr \in Int
    BY <2>1
  <2> QED
    BY <2>1, <2>2, Distribute
<1>5. x \in Int /\ y \in Int /\ left \in Nat
  BY <1>1, Numbers DEF TypeOK
<1> HIDE DEF x, y
<1> QED
  BY <1>2, <1>3, <1>4, <1>5, Numbers

\* The attempts at the other addresses are spared.
LEMMA ConnectedRest == ASSUME TypeOK, PlaceOK, Connected PROVE Rest' <= Rest
<1> DEFINE x == Tables * (3 * RequestLimit)
           y == (Addrs[Current] - addr) * ConnectLimit
<1>1. addr \in 1 .. Addrs[Current] /\ Current \in Peer \cup {Me}
  BY RegistryType DEF TypeOK, PlaceOK, Visiting, Connected, Current
<1>2. Rest = left + y + x + BeatLimit
  BY DEF Connected, Rest
<1>3. Rest' = RequestLimit + 2 * RequestLimit + (Tables - 1) * (3 * RequestLimit) + BeatLimit
  BY DEF Connected, Call, Rest
<1>4. (Tables - 1) * (3 * RequestLimit) = x - 3 * RequestLimit
  <2>1. Tables \in Int /\ 3 * RequestLimit \in Int
    BY Numbers
  <2> QED
    BY <2>1, Distribute
<1>5. x \in Int /\ y \in Nat /\ left \in Nat
  <2>1. Addrs[Current] - addr \in Nat
    BY <1>1, Numbers
  <2>2. y \in Nat
    BY <2>1, Product, Numbers
  <2> QED
    BY <2>2, Numbers DEF TypeOK
<1> HIDE DEF x, y
<1> QED
  BY <1>2, <1>3, <1>4, <1>5, Numbers

\* The pull of a round was accounted for.
LEMMA PushedRest == ASSUME TypeOK, PlaceOK, Pushed PROVE Rest' <= Rest
<1> DEFINE w == (Tables - table) * (3 * RequestLimit)
<1>1. Rest = left + 2 * RequestLimit + w + BeatLimit
  BY DEF Pushed, Rest
<1>2. Rest' = 2 * RequestLimit + w + BeatLimit
  BY DEF Pushed, Call, Rest
<1>3. w \in Int /\ left \in Nat
  BY Numbers DEF TypeOK
<1> HIDE DEF w
<1> QED
  BY <1>1, <1>2, <1>3, Numbers

\* The rounds of the other tables were accounted for.
LEMMA NextTableRest ==
  ASSUME TypeOK, PlaceOK, at \in {"push", "pull"}, NextTable PROVE Rest' <= Rest
<1> DEFINE w == (Tables - table) * (3 * RequestLimit)
<1>1. Rest >= w + BeatLimit
  <2>1. w \in Int /\ left \in Nat
    BY Numbers DEF TypeOK
  <2>2. Rest = IF at = "push" THEN left + 2 * RequestLimit + w + BeatLimit
                              ELSE left + w + BeatLimit
    BY DEF Rest
  <2> HIDE DEF w
  <2> QED
    BY <2>1, <2>2, Numbers
<1>2. w \in Nat /\ Rest \in Int
  <2>1. Tables - table \in Nat /\ 3 * RequestLimit \in Nat
    BY Numbers DEF TypeOK
  <2>2. w \in Nat
    BY <2>1, Product
  <2> QED
    BY <2>2, RestType
<1>3. CASE table < Tables
  <2>1. Rest' = RequestLimit + 2 * RequestLimit + (Tables - (table + 1)) * (3 * RequestLimit) + BeatLimit
    BY <1>3 DEF NextTable, Call, Rest
  <2>2. (Tables - (table + 1)) * (3 * RequestLimit) = w - 3 * RequestLimit
    <3>1. Tables - (table + 1) = (Tables - table) - 1 /\ Tables - table \in Int
          /\ 3 * RequestLimit \in Int
      BY Numbers DEF TypeOK
    <3> QED
      BY <3>1, Distribute
  <2> HIDE DEF w
  <2> QED
    BY <1>1, <1>2, <2>1, <2>2, Numbers
<1>4. CASE ~(table < Tables)
  <2>1. Rest' = BeatLimit
    BY <1>4 DEF NextTable, Call, Rest
  <2> HIDE DEF w
  <2> QED
    BY <1>1, <1>2, <2>1, Numbers
<1> QED
  BY <1>3, <1>4

\* A unit of time brings every heartbeat nearer by one.
LEMMA TickDue ==
  ASSUME TypeOK, PlaceOK, at # "down", Tick, NEW i \in DOMAIN Registry
  PROVE  Due(i)' = Due(i) - 1
<1> DEFINE p == (i - pos) * VisitLimit
           n == (Len(Registry) - pos) * VisitLimit
           q == i * VisitLimit
           w == (Tables - table) * (3 * RequestLimit)
           x == Tables * (3 * RequestLimit)
           y == (Addrs[Current] - addr) * ConnectLimit
<1>1. /\ left > 0 /\ left' = left - 1 /\ left \in Nat
      /\ at' = at /\ pos' = pos /\ addr' = addr /\ table' = table /\ Current' = Current
      /\ at \notin {"down", "next", "stats"}
  BY DEF Tick, TypeOK, PlaceOK, Current
<1>2. p \in Int /\ n \in Int /\ q \in Int /\ w \in Int /\ x \in Int
  BY LimitTypes, RegistryType, Numbers DEF TypeOK
<1>3. at = "connect" => y \in Int
  BY RegistryType, Numbers DEF TypeOK, PlaceOK, Visiting, Current
<1>4. CASE at = "sleep"
  <2>1. Due(i) = left + q /\ Due(i)' = left' + q
    BY <1>1, <1>4 DEF Due
  <2> HIDE DEF q
  <2> QED
    BY <1>1, <1>2, <2>1
<1>5. CASE at \in {"connect", "push", "pull", "beat"}
  <2>1. Rest' = Rest - 1 /\ Rest \in Int
    <3>1. CASE at = "connect"
      <4>1. Rest = left + y + x + BeatLimit /\ Rest' = left' + y + x + BeatLimit
        BY <1>1, <3>1 DEF Rest
      <4>2. y \in Int
        BY <1>3, <3>1
      <4> HIDE DEF x, y
      <4> QED
        BY <1>1, <1>2, <4>1, <4>2, Numbers
    <3>2. CASE at = "push"
      <4>1. /\ Rest = left + 2 * RequestLimit + w + BeatLimit
            /\ Rest' = left' + 2 * RequestLimit + w + BeatLimit
        BY <1>1, <3>2 DEF Rest
      <4> HIDE DEF w
      <4> QED
        BY <1>1, <1>2, <4>1, Numbers
    <3>3. CASE at = "pull"
      <4>1. Rest = left + w + BeatLimit /\ Rest' = left' + w + BeatLimit
        BY <1>1, <3>3 DEF Rest
      <4> HIDE DEF w
      <4> QED
        BY <1>1, <1>2, <4>1, Numbers
    <3>4. CASE at = "beat"
      BY <1>1, <3>4 DEF Rest
    <3> QED
      BY <1>5, <3>1, <3>2, <3>3, <3>4
  <2>2. CASE pos <= i
    <3>1. Due(i) = Rest + p /\ Due(i)' = Rest' + p
      BY <1>1, <1>5, <2>2 DEF Due
    <3> HIDE DEF p
    <3> QED
      BY <1>2, <2>1, <3>1
  <2>3. CASE ~(pos <= i)
    <3>1. Due(i) = Rest + n + Interval + q /\ Due(i)' = Rest' + n + Interval + q
      BY <1>1, <1>5, <2>3 DEF Due
    <3> HIDE DEF n, q
    <3> QED
      BY <1>2, <2>1, <3>1, Numbers
  <2> QED
    BY <2>2, <2>3
<1> QED
  BY <1>1, <1>4, <1>5 DEF TypeOK

\* A sweep that begins is no further from its entries than the sleep was.
LEMMA WakeUpDue ==
  ASSUME TypeOK, PlaceOK, WakeUp, NEW i \in DOMAIN Registry
  PROVE  Due(i)' <= Due(i)
<1>1. VisitLimit \in Int /\ i \in Int /\ i >= 1
  BY LimitTypes, RegistryType
<1>2. Due(i) = 0 + i * VisitLimit
  BY DEF WakeUp, Due
<1>3. Rest' = VisitLimit
  BY DEF WakeUp, Call, Rest
<1>4. Due(i)' = VisitLimit + (i - 1) * VisitLimit
  BY <1>1, <1>3 DEF WakeUp, Call, Due
<1>5. (i - 1) * VisitLimit = i * VisitLimit - VisitLimit /\ i * VisitLimit \in Int
  BY <1>1, Distribute
<1> DEFINE q == i * VisitLimit
<1> HIDE DEF q
<1>6. Due(i) = 0 + q /\ Due(i)' = VisitLimit + (q - VisitLimit) /\ q \in Int
  BY <1>2, <1>4, <1>5 DEF q
<1> QED
  BY <1>1, <1>6

\* The sleep after a sweep was accounted for.
LEMMA SweepEndsDue ==
  ASSUME TypeOK, PlaceOK, SweepEnds, NEW i \in DOMAIN Registry
  PROVE  Due(i)' <= Due(i)
<1>1. VisitLimit \in Int /\ i \in Int /\ Len(Registry) \in Int /\ pos = Len(Registry) + 1
      /\ ~(pos <= i) /\ Interval \in Int
  BY LimitTypes, RegistryType, Numbers DEF SweepEnds, TypeOK
<1>2. Rest = VisitLimit
  BY DEF SweepEnds, Rest
<1>3. Due(i)' = Interval + i * VisitLimit
  BY DEF SweepEnds, Sleep, Call, Due
<1>4. Due(i) = VisitLimit + (Len(Registry) - pos) * VisitLimit + Interval + i * VisitLimit
  BY <1>1, <1>2 DEF SweepEnds, Due
<1>5. (Len(Registry) - pos) * VisitLimit = -VisitLimit
  <2>1. Len(Registry) - pos = -1
    BY <1>1
  <2> QED
    BY <1>1, <2>1
<1> DEFINE q == i * VisitLimit
<1>6. q \in Int
  BY <1>1
<1> HIDE DEF q
<1>7. Due(i)' = Interval + q /\ Due(i) = VisitLimit + (-VisitLimit) + Interval + q
  BY <1>3, <1>4, <1>5 DEF q
<1> QED
  BY <1>1, <1>6, <1>7

\* A peer that has just stored a heartbeat gets the next one in time.
LEMMA BeatStoredDue ==
  ASSUME TypeOK, PlaceOK, BeatStored, NEW i \in DOMAIN Registry, i = pos
  PROVE  Due(i)' = Gap
<1> DEFINE a == Len(Registry) * VisitLimit
           q == i * VisitLimit
<1>1. VisitLimit \in Int /\ Len(Registry) \in Int /\ i \in Int /\ Interval \in Int
  BY LimitTypes, RegistryType, Numbers DEF TypeOK
<1>2. Rest' = VisitLimit
  BY DEF BeatStored, LeavePeer, Call, Rest
<1>3. Due(i)' = VisitLimit + (Len(Registry) - (i + 1)) * VisitLimit + Interval + q
  BY <1>1, <1>2 DEF BeatStored, LeavePeer, Call, Due
<1>4. (Len(Registry) - (i + 1)) * VisitLimit = a - q - VisitLimit
  BY <1>1
<1>5. a \in Int /\ q \in Int
  BY <1>1
<1>6. Gap = Interval + a
  BY DEF Gap
<1> HIDE DEF a, q
<1> QED
  BY <1>1, <1>3, <1>4, <1>5, <1>6

-----------------------------------------------------------------------------
\* The invariant.

\* The loop has just begun initially.
LEMMA InitHolds == Init => IInv
<1> SUFFICES ASSUME Init PROVE IInv
  OBVIOUS
<1>1. TypeOK /\ PlaceOK
  BY InitType
<1>2. BeatInTime
  <2> SUFFICES ASSUME NEW p \in Served
               PROVE  \E i \in DOMAIN Registry : Registry[i] = p /\ Waiting(p) + Due(i) <= Gap
    BY DEF BeatInTime
  <2>1. PICK i \in DOMAIN Registry : Registry[i] = p
    BY DEF Served
  <2>2. Waiting(p) = 0
    <3>1. age[p] \in Nat /\ calm = 0
      BY <1>1, ServedType, Numbers DEF Init, TypeOK
    <3> QED
      BY <3>1 DEF Waiting
  <2>3. Due(i) <= Gap /\ Due(i) \in Int
    <3>1. Due(i) = Interval + i * VisitLimit
      BY DEF Init, Due
    <3>2. i * VisitLimit \in Int
      BY RegistryType, LimitTypes
    <3> QED
      BY <3>1, <3>2, FromStart, Numbers
  <2> QED
    BY <2>1, <2>2, <2>3, LimitTypes
<1> QED
  BY <1>1, <1>2 DEF IInv

\* A step whose target is not a steady peer, or that is inside a visit, or
\* between two sweeps, brings no heartbeat further away.
LEMMA StepKeeps ==
  ASSUME TypeOK, PlaceOK, TypeOK', PlaceOK', BeatInTime,
         \/ WakeUp \/ SkipSelf \/ Visit \/ SweepEnds \/ Connected \/ NextAddress
         \/ Unreachable \/ Pushed \/ Pulled \/ RoundFails \/ UpdateStats \/ BeatLost
  PROVE  BeatInTime'
<1>1. \A p \in Served : Waiting(p)' <= Waiting(p)
  <2>1. age' = age /\ calm' = calm
    BY DEF WakeUp, SkipSelf, Visit, SweepEnds, Connected, NextAddress, Unreachable,
           Pushed, Pulled, RoundFails, UpdateStats, BeatLost
  <2>2. \A p \in Served : Waiting(p)' = Waiting(p) /\ Waiting(p) \in Nat
    BY <2>1, WaitingType, ServedType DEF Waiting
  <2> QED
    BY <2>2
<1>2. SUFFICES ASSUME NEW i \in DOMAIN Registry, Registry[i] \in Steady
               PROVE  Due(i)' <= Due(i)
  BY <1>1, Keep
<1>3. CASE WakeUp
  BY <1>3, WakeUpDue
<1>4. CASE SweepEnds
  BY <1>4, SweepEndsDue
<1>5. CASE SkipSelf \/ Unreachable \/ BeatLost
  <2>1. Current \notin Steady
    BY <1>5, SteadyAssumption, MeAssumption
       DEF SkipSelf, Unreachable, BeatLost, Unsteady, SteadyAssumption, MeAssumption
  <2>2. i # pos
    BY <1>2, <2>1 DEF Current
  <2>3. pos \in DOMAIN Registry
    <3>1. pos \in 1 .. Len(Registry) + 1 /\ (Visiting => pos <= Len(Registry))
      BY DEF TypeOK
    <3>2. pos <= Len(Registry)
      BY <1>5, <3>1 DEF SkipSelf, Unreachable, BeatLost, Visiting
    <3> QED
      BY <3>1, <3>2, RegistryType
  <2>4. pos' = pos + 1 /\ at \notin {"down", "sleep"} /\ at' = "next"
    BY <1>5 DEF SkipSelf, Unreachable, BeatLost, LeavePeer, Call
  <2> QED
    BY <2>2, <2>3, <2>4, LeaveDue
<1>6. CASE Visit \/ Connected \/ NextAddress \/ Pushed \/ Pulled \/ RoundFails \/ UpdateStats
  <2>1. pos' = pos /\ at \notin {"down", "sleep"} /\ at' \notin {"down", "sleep"}
    BY <1>6 DEF Visit, Connected, NextAddress, Pushed, Pulled, RoundFails, NextTable,
                UpdateStats, Call
  <2>2. Rest' <= Rest
    <3>1. CASE Visit
      BY <3>1, VisitRest
    <3>2. CASE Connected
      BY <3>2, ConnectedRest
    <3>3. CASE NextAddress
      BY <3>3, NextAddressRest
    <3>4. CASE Pushed
      BY <3>4, PushedRest
    <3>5. CASE Pulled \/ RoundFails
      <4>1. at \in {"push", "pull"} /\ NextTable
        BY <3>5 DEF Pulled, RoundFails
      <4> QED
        BY <4>1, NextTableRest
    <3>6. CASE UpdateStats
      <4>1. Rest = BeatLimit /\ Rest' = BeatLimit
        BY <3>6 DEF UpdateStats, Call, Rest
      <4> QED
        BY <4>1, Numbers
    <3> QED
      BY <1>6, <3>1, <3>2, <3>3, <3>4, <3>5, <3>6
  <2> QED
    BY <2>1, <2>2, StayDue
<1> QED
  BY <1>3, <1>4, <1>5, <1>6

\* A unit of time: what a peer has waited grows by as much as the next
\* heartbeat comes nearer.
LEMMA TickKeeps == ASSUME IInv, TypeOK', PlaceOK', Tick PROVE BeatInTime'
<1>1. CASE at = "down"
  <2>1. calm = 0 /\ calm' = 0 /\ at' = at
    BY <1>1 DEF IInv, PlaceOK, Tick
  <2>2. \A i \in DOMAIN Registry : Due(i)' = Interval + i * VisitLimit
    BY <1>1, <2>1 DEF Due
  <2> QED
    BY <2>1, <2>2, FaultKeeps
<1>2. CASE at # "down"
  <2> SUFFICES ASSUME NEW p \in Served
               PROVE  \E i \in DOMAIN Registry : Registry[i] = p /\ Waiting(p)' + Due(i)' <= Gap
    BY DEF BeatInTime, Served
  <2>1. PICK i \in DOMAIN Registry : Registry[i] = p /\ Waiting(p) + Due(i) <= Gap
    BY DEF IInv, BeatInTime
  <2>2. Due(i)' = Due(i) - 1 /\ Due(i) \in Nat
    BY <1>2, TickDue, DueType DEF IInv
  <2>3. Waiting(p)' <= Waiting(p) + 1
    <3>1. age[p] \in Nat /\ calm \in Nat
      BY ServedType, Numbers DEF IInv, TypeOK
    <3>2. age'[p] = Older(age[p]) /\ calm' = Older(calm)
      BY <1>2, ServedType DEF Tick
    <3> QED
      BY <3>1, <3>2, Numbers DEF Older, Waiting
  <2>4. Waiting(p) \in Nat /\ Waiting(p)' \in Nat /\ Gap \in Nat
    BY WaitingType, WaitingTypeNext, ServedType, LimitTypes DEF IInv
  <2> QED
    BY <2>1, <2>2, <2>3, <2>4
<1> QED
  BY <1>1, <1>2

\* A heartbeat stored: its receiver starts afresh, the others come nearer.
LEMMA BeatStoredKeeps == ASSUME IInv, TypeOK', PlaceOK', BeatStored PROVE BeatInTime'
<1>1. pos \in DOMAIN Registry /\ pos' = pos + 1 /\ at \notin {"down", "sleep"} /\ at' = "next"
  BY RegistryType DEF IInv, TypeOK, Visiting, BeatStored, LeavePeer, Call
<1> SUFFICES ASSUME NEW p \in Served
             PROVE  \E i \in DOMAIN Registry : Registry[i] = p /\ Waiting(p)' + Due(i)' <= Gap
  BY DEF BeatInTime, Served
<1>2. /\ p \in Peer /\ age \in [Peer -> 0 .. OfflineAfter] /\ calm \in Nat /\ calm' = calm
      /\ Gap \in Nat /\ OfflineAfter \in Nat
  BY ServedType, LimitTypes, Numbers DEF IInv, TypeOK, BeatStored
<1>3. CASE p = Current
  <2>1. age'[p] = 0
    BY <1>2, <1>3 DEF BeatStored
  <2>2. Waiting(p)' = 0
    BY <1>2, <2>1 DEF Waiting
  <2>3. PICK i \in DOMAIN Registry : i = pos
    BY <1>1
  <2>4. Due(i)' = Gap
    BY <2>3, BeatStoredDue DEF IInv
  <2>5. Registry[i] = p
    BY <1>3, <2>3 DEF Current
  <2> QED
    BY <1>2, <2>2, <2>4, <2>5
<1>4. CASE p # Current
  <2>1. Waiting(p)' = Waiting(p)
    <3>1. age'[p] = age[p]
      BY <1>2, <1>4 DEF BeatStored
    <3> QED
      BY <1>2, <3>1 DEF Waiting
  <2>2. PICK i \in DOMAIN Registry : Registry[i] = p /\ Waiting(p) + Due(i) <= Gap
    BY DEF IInv, BeatInTime
  <2>3. Due(i)' <= Due(i)
    <3>1. i # pos
      BY <1>4, <2>2 DEF Current
    <3> QED
      BY <1>1, <3>1, LeaveDue DEF IInv
  <2>4. Due(i) \in Nat /\ Due(i)' \in Nat /\ Waiting(p) \in Nat
    BY <1>2, DueType, DueTypeNext, WaitingType DEF IInv
  <2> QED
    BY <1>2, <2>1, <2>2, <2>3, <2>4
<1> QED
  BY <1>3, <1>4

\* A sweep that fails, a stop and a start.
LEMMA OwnFaultKeeps ==
  ASSUME IInv, TypeOK', SweepFails \/ Stop \/ Start PROVE BeatInTime'
<1>1. calm' = 0
  BY DEF SweepFails, Stop, Start, IInv, PlaceOK
<1>2. at' = "down" \/ (at' = "sleep" /\ left' = Interval)
  BY DEF SweepFails, Stop, Start, Sleep, Call
<1>3. \A i \in DOMAIN Registry : Due(i)' = Interval + i * VisitLimit
  BY <1>2 DEF Due
<1> QED
  BY <1>1, <1>3, FaultKeeps

\* Every step.
LEMMA StepHolds == IInv /\ [Next]_vars => IInv'
<1> SUFFICES ASSUME IInv, [Next]_vars PROVE IInv'
  OBVIOUS
<1>1. TypeOK' /\ PlaceOK'
  BY NextType DEF IInv
<1>2. BeatInTime'
  <2>1. CASE Tick
    BY <1>1, <2>1, TickKeeps
  <2>2. CASE BeatStored
    BY <1>1, <2>2, BeatStoredKeeps
  <2>3. CASE \/ WakeUp \/ SkipSelf \/ Visit \/ SweepEnds \/ Connected \/ NextAddress
             \/ Unreachable \/ Pushed \/ Pulled \/ RoundFails \/ UpdateStats \/ BeatLost
    BY <1>1, <2>3, StepKeeps DEF IInv
  <2>4. CASE SweepFails \/ Stop \/ Start
    BY <1>1, <2>4, OwnFaultKeeps
  <2>5. CASE UNCHANGED vars
    <3>1. /\ age' = age /\ calm' = calm
          /\ \A i \in DOMAIN Registry : Due(i)' = Due(i)
      BY <2>5 DEF vars, Due, Rest, Current
    <3> QED
      BY <3>1 DEF IInv, BeatInTime, Waiting
  <2> QED
    BY <2>1, <2>2, <2>3, <2>4, <2>5 DEF Next, Loop
<1> QED
  BY <1>1, <1>2 DEF IInv

\* A node that has run long enough has nobody waiting that long.
LEMMA ShownHolds == IInv /\ Prompt => ShownOnline
<1> SUFFICES ASSUME IInv, Prompt, calm = OfflineAfter, NEW p \in Served
             PROVE  age[p] < OfflineAfter
  BY DEF ShownOnline, Online
<1>1. PICK i \in DOMAIN Registry : Waiting(p) + Due(i) <= Gap
  BY DEF IInv, BeatInTime
<1>2. Due(i) \in Nat /\ Waiting(p) \in Nat /\ age[p] \in Nat /\ Gap \in Nat
  BY DueType, WaitingType, ServedType, LimitTypes, Numbers DEF IInv, TypeOK
<1>3. Waiting(p) < OfflineAfter
  BY <1>1, <1>2, Numbers DEF Prompt
<1> QED
  BY <1>2, <1>3, Numbers DEF Waiting

\* For any registry, addresses, tables and limits, and whatever goes wrong at
\* the node or at the other peers: the time a steady peer has waited for a
\* heartbeat and the time until the next never add up to more than Gap (the
\* visits of sync_loop.rs, in the order of the registry).
THEOREM BeatInTimeTheorem == Spec => []BeatInTime
<1>1. Init => IInv
  BY InitHolds
<1>2. IInv /\ [Next]_vars => IInv'
  BY StepHolds
<1>3. IInv => BeatInTime
  BY DEF IInv
<1> QED
  BY <1>1, <1>2, <1>3, PTL DEF Spec

\* If the longest sweep leaves less than OfflineAfter between two heartbeats, a
\* node that has run for OfflineAfter since its last own fault is shown as
\* online by every peer whose link never fails.
THEOREM ShownOnlineTheorem == ASSUME Prompt PROVE Spec => []ShownOnline
<1>1. Init => IInv
  BY InitHolds
<1>2. IInv /\ [Next]_vars => IInv'
  BY StepHolds
<1>3. IInv => ShownOnline
  BY ShownHolds
<1> QED
  BY <1>1, <1>2, <1>3, PTL DEF Spec
=============================================================================
