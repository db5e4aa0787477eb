-------------------------- MODULE CapabilityProofs --------------------------
(***************************************************************************)
(* Proofs about CapabilityRegistry: types, that an answer of success is in  *)
(* effect, that the handlers keep CapabilityPromise, and how peers are      *)
(* ranked, for any number of calls, peers, capabilities and lists.          *)
(***************************************************************************)
EXTENDS CapabilityRegistry, FiniteSetTheorems, TLAPS

\* The entries of a call that were written to the row.
Written(c, p, k) == {i \in Naming(c, p, k) : i < next[c]}

Removed(c, p) == phase[c] = "ok" /\ job[c].op = "remove" /\ job[c].peer = p

\* The row is what its writer last wrote there.
RowFromWriter ==
  \A p \in Peer, k \in Cap :
    LET w == writer[p][k]
    IN /\ w = NoCall => row[p][k] = NoRow
       /\ w # NoCall =>
            \/ Removed(w, p) /\ row[p][k] = NoRow
            \/ \E i \in Written(w, p, k) :
                 /\ row[p][k] = job[w].list[i]
                 /\ \A j \in Written(w, p, k) : j <= i

\* No call that was over when c began has the last word on a row c wrote.
LaterWins ==
  \A p \in Peer, k \in Cap, c \in Call :
    Removed(c, p) \/ Written(c, p, k) # {}
      => writer[p][k] \notin before[c] \cup {NoCall}

\* A call ends for good, and a registration succeeds at the end of its list.
Lives ==
  \A c \in Call :
    /\ before[c] \subseteq Ended
    /\ phase[c] = "new" => next[c] = 1
    /\ phase[c] = "ok" /\ job[c].op = "register" => next[c] = Len(job[c].list) + 1

IInv == TypeOK /\ Lives /\ RowFromWriter /\ LaterWins

-----------------------------------------------------------------------------
\* The lists of the requests.
LEMMA ListType ==
  ASSUME TypeOK, NEW c \in Call, job[c].op = "register"
  PROVE  /\ phase[c] # "new" /\ job[c].peer \in Peer
         /\ job[c].list \in Seq(Declaration)
         /\ Len(job[c].list) \in Nat /\ DOMAIN job[c].list = 1 .. Len(job[c].list)
         /\ next[c] \in Nat \ {0} /\ next[c] <= Len(job[c].list) + 1
         /\ \A i \in DOMAIN job[c].list : /\ job[c].list[i] \in Declaration
                                          /\ job[c].list[i].name \in Cap
<1>1. job[c] \in Request \cup {NoRequest} /\ job[c] # NoRequest
  BY DEF TypeOK, NoRequest
<1>2. phase[c] # "new"
  BY <1>1 DEF TypeOK
<1>3. job[c] \in [op : {"register"}, peer : Peer, list : Lists]
  BY <1>1 DEF Request
<1>4. job[c].list \in Seq(Declaration) /\ job[c].peer \in Peer
  BY <1>3, ListsAssumption DEF ListsAssumption
<1>5. \A i \in DOMAIN job[c].list : job[c].list[i] \in Declaration
  BY <1>4
<1> QED
  BY <1>2, <1>4, <1>5 DEF TypeOK, Declaration

\* The peer of a removal.
LEMMA RemoveType ==
  ASSUME TypeOK, NEW c \in Call, job[c].op = "remove"
  PROVE  phase[c] # "new" /\ job[c].peer \in Peer
<1>1. job[c] \in Request \cup {NoRequest} /\ job[c] # NoRequest
  BY DEF TypeOK, NoRequest
<1> QED
  BY <1>1 DEF TypeOK, Request

\* A request is none of nothing.
LEMMA RequestType == \A r \in Request : r # NoRequest /\ r.op \in {"register", "remove"}
  BY DEF Request, NoRequest

\* What a step does to the phases, and hence to the calls that are over.
LEMMA EndedGrows ==
  ASSUME TypeOK, NEW c \in Call, phase[c] = "open", NEW o \in {"ok", "error"},
         phase' = [phase EXCEPT ![c] = o]
  PROVE  /\ Ended' = Ended \cup {c} /\ c \notin Ended
         /\ phase' \in [Call -> {"new", "open", "ok", "error", "lost"}]
         /\ \A d \in Call : phase'[d] = "new" <=> phase[d] = "new"
  BY DEF TypeOK, Ended

\* The types, and the course of a call, hold initially.
LEMMA InitTypes == Init => TypeOK /\ Lives
<1> SUFFICES ASSUME Init PROVE TypeOK /\ Lives
  OBVIOUS
<1>1. NoRequest.op = "none"
  BY DEF NoRequest
<1>2. job \in [Call -> Request \cup {NoRequest}] /\ \A c \in Call : job[c] = NoRequest
  BY DEF Init
<1>3. row \in View /\ writer \in [Peer -> [Cap -> Call \cup {NoCall}]]
  BY DEF Init, View
<1>4. /\ phase \in [Call -> {"new", "open", "ok", "error", "lost"}]
      /\ \A c \in Call : phase[c] = "new" /\ next[c] = 1 /\ before[c] = {}
      /\ next \in [Call -> Nat \ {0}] /\ before \in [Call -> SUBSET Call]
  BY DEF Init
<1>5. TypeOK
  BY <1>1, <1>2, <1>3, <1>4 DEF TypeOK
<1> QED
  BY <1>4, <1>5 DEF Lives

\* The arrival of a request.
LEMMA ArriveTypes ==
  ASSUME TypeOK, Lives, NEW c \in Call, NEW r \in Request,
         NEW o \in {"open", "error"}, Arrive(c, r, o)
  PROVE  TypeOK' /\ Lives'
<1>1. /\ row' = row /\ writer' = writer /\ next' = next /\ next[c] = 1
      /\ \A d \in Call : d # c => job'[d] = job[d] /\ phase'[d] = phase[d]
                                  /\ before'[d] = before[d]
      /\ job'[c] = r /\ phase'[c] = o /\ before'[c] = Ended
  BY DEF Arrive, TypeOK, Lives
<1>2. /\ job' \in [Call -> Request \cup {NoRequest}]
      /\ phase' \in [Call -> {"new", "open", "ok", "error", "lost"}]
      /\ before' \in [Call -> SUBSET Call]
  BY DEF Arrive, TypeOK, Ended
<1>3. \A d \in Call : phase'[d] = "new" <=> job'[d] = NoRequest
  BY <1>1, RequestType DEF TypeOK
<1>4. \A d \in Call : job'[d].op = "register" => next'[d] <= Len(job'[d].list) + 1
  <2> SUFFICES ASSUME NEW d \in Call, job'[d].op = "register"
               PROVE  next[d] <= Len(job'[d].list) + 1
    BY <1>1
  <2>1. CASE d # c
    BY <1>1, <2>1 DEF TypeOK
  <2>2. CASE d = c
    <3>1. r \in [op : {"register"}, peer : Peer, list : Lists]
      BY <1>1, <2>2 DEF Request
    <3>2. Len(r.list) \in Nat
      BY <3>1, ListsAssumption DEF ListsAssumption
    <3> QED
      BY <1>1, <2>2, <3>2
  <2> QED
    BY <2>1, <2>2
<1>5. TypeOK'
  BY <1>1, <1>2, <1>3, <1>4 DEF TypeOK
<1>6. Ended \subseteq Ended'
  BY <1>1 DEF Ended, Arrive
<1>7. Lives'
  BY <1>1, <1>6 DEF Lives
<1> QED
  BY <1>5, <1>7

\* The entry a registration has come to.
LEMMA EntryType ==
  ASSUME TypeOK, NEW c \in Call, Registering(c), next[c] <= Len(job[c].list)
  PROVE  /\ next[c] \in DOMAIN job[c].list /\ next[c] \in Nat \ {0}
         /\ job[c].list[next[c]] \in Declaration
         /\ job[c].list[next[c]].name \in Cap
         /\ job[c].peer \in Peer /\ Len(job[c].list) \in Nat
  BY ListType DEF Registering

\* A row written.
LEMMA UpsertTypes == ASSUME TypeOK, Lives, NEW c \in Call, Upsert(c) PROVE TypeOK' /\ Lives'
<1> DEFINE e == job[c].list[next[c]]
           p == job[c].peer
<1>1. /\ e \in Declaration /\ e.name \in Cap /\ p \in Peer /\ phase[c] = "open"
      /\ next[c] \in Nat \ {0} /\ next[c] <= Len(job[c].list) /\ Len(job[c].list) \in Nat
  BY EntryType DEF Upsert, Registering
<1>2. /\ row' = [row EXCEPT ![p][e.name] = e] /\ writer' = [writer EXCEPT ![p][e.name] = c]
      /\ next' = [next EXCEPT ![c] = @ + 1]
      /\ phase' = phase /\ job' = job /\ before' = before
  BY DEF Upsert
<1> HIDE DEF e, p
<1>3. row' \in View /\ writer' \in [Peer -> [Cap -> Call \cup {NoCall}]]
  BY <1>1, <1>2 DEF TypeOK, View
<1>4. /\ next' \in [Call -> Nat \ {0}] /\ next'[c] = next[c] + 1
      /\ \A d \in Call : d # c => next'[d] = next[d]
  BY <1>1, <1>2 DEF TypeOK
<1>5. \A d \in Call : job'[d].op = "register" => next'[d] <= Len(job'[d].list) + 1
  BY <1>1, <1>2, <1>4 DEF TypeOK
<1>6. TypeOK'
  <2>1. /\ phase' \in [Call -> {"new", "open", "ok", "error", "lost"}]
        /\ job' \in [Call -> Request \cup {NoRequest}]
        /\ \A d \in Call : phase'[d] = "new" <=> job'[d] = NoRequest
        /\ before' \in [Call -> SUBSET Call]
    BY <1>2 DEF TypeOK
  <2> QED
    BY <1>3, <1>4, <1>5, <2>1 DEF TypeOK
<1>7. Lives'
  BY <1>1, <1>2, <1>4 DEF Lives, Ended
<1> QED
  BY <1>6, <1>7

\* A call answered, with its last statement done or failed.
LEMMA AnswerTypes ==
  ASSUME TypeOK, Lives, NEW c \in Call, NEW o \in {"ok", "error"}, Answer(c, o),
         UNCHANGED <<job, next, before>>,
         row' \in View, writer' \in [Peer -> [Cap -> Call \cup {NoCall}]],
         o = "ok" /\ job[c].op = "register" => next[c] > Len(job[c].list)
  PROVE  TypeOK' /\ Lives'
<1>1. phase[c] = "open" /\ phase' = [phase EXCEPT ![c] = o]
  BY DEF Answer
<1>2. /\ Ended' = Ended \cup {c}
      /\ phase' \in [Call -> {"new", "open", "ok", "error", "lost"}]
      /\ \A d \in Call : phase'[d] = "new" <=> phase[d] = "new"
  BY <1>1, EndedGrows
<1>3. TypeOK'
  BY <1>2 DEF TypeOK
<1>4. \A d \in Call : phase'[d] = "ok" /\ job[d].op = "register" => next[d] = Len(job[d].list) + 1
  <2> SUFFICES ASSUME NEW d \in Call, phase'[d] = "ok", job[d].op = "register"
               PROVE  next[d] = Len(job[d].list) + 1
    OBVIOUS
  <2>1. CASE d # c
    BY <1>1, <2>1 DEF TypeOK, Lives
  <2>2. CASE d = c
    <3>1. next[c] > Len(job[c].list)
      BY <1>1, <2>2 DEF TypeOK
    <3> QED
      BY <2>2, <3>1, ListType
  <2> QED
    BY <2>1, <2>2
<1>5. Lives'
  BY <1>2, <1>4 DEF Lives
<1> QED
  BY <1>3, <1>5

\* Every step keeps the types and the course of the calls.
LEMMA NextTypes == TypeOK /\ Lives /\ [Next]_vars => TypeOK' /\ Lives'
<1> SUFFICES ASSUME TypeOK, Lives, [Next]_vars PROVE TypeOK' /\ Lives'
  OBVIOUS
<1>1. ASSUME NEW c \in Call, NEW r \in Request, Connected(c, r) \/ Refused(c, r)
      PROVE  TypeOK' /\ Lives'
  BY <1>1, ArriveTypes DEF Connected, Refused
<1>2. ASSUME NEW c \in Call, Upsert(c) PROVE TypeOK' /\ Lives'
  BY <1>2, UpsertTypes
<1>3. ASSUME NEW c \in Call, Registered(c) \/ UpsertFails(c) \/ RemoveFails(c)
      PROVE  TypeOK' /\ Lives'
  <2>1. row' \in View /\ writer' \in [Peer -> [Cap -> Call \cup {NoCall}]]
    BY <1>3 DEF Registered, UpsertFails, RemoveFails, TypeOK
  <2> QED
    BY <1>3, <2>1, AnswerTypes DEF Registered, UpsertFails, RemoveFails, Removing
<1>4. ASSUME NEW c \in Call, Remove(c) PROVE TypeOK' /\ Lives'
  <2>1. job[c].peer \in Peer
    BY <1>4, RemoveType DEF Remove, Removing
  <2>2. row' \in View /\ writer' \in [Peer -> [Cap -> Call \cup {NoCall}]]
    BY <1>4, <2>1 DEF Remove, TypeOK, View
  <2> QED
    BY <1>4, <2>2, AnswerTypes DEF Remove, Removing
<1>5. CASE Read \/ Delivered \/ UNCHANGED vars
  <2>1. UNCHANGED <<row, phase, job, next, writer, before>>
    BY <1>5 DEF Read, GetPeer, ListAll, QueryPeers, Select, Delivered, vars
  <2> QED
    BY <2>1 DEF TypeOK, Lives, Ended
<1>6. CASE Crash
  <2>1. /\ UNCHANGED <<row, job, next, writer, before>>
        /\ phase' = [c \in Call |-> IF phase[c] = "open" THEN "lost" ELSE phase[c]]
    BY <1>6 DEF Crash
  <2>2. /\ phase' \in [Call -> {"new", "open", "ok", "error", "lost"}]
        /\ \A c \in Call : /\ phase'[c] = "new" <=> phase[c] = "new"
                           /\ phase'[c] = "ok" <=> phase[c] = "ok"
        /\ Ended \subseteq Ended'
    BY <2>1 DEF TypeOK, Ended
  <2>3. TypeOK'
    BY <2>1, <2>2 DEF TypeOK
  <2>4. Lives'
    BY <2>1, <2>2 DEF Lives
  <2> QED
    BY <2>3, <2>4
<1> QED
  BY <1>1, <1>2, <1>3, <1>4, <1>5, <1>6 DEF Next, Handle

\* The state is well formed: every call that has begun has its request, every
\* row is a declaration or missing.
THEOREM TypeCorrect == Spec => []TypeOK
<1>1. Init => TypeOK /\ Lives
  BY InitTypes
<1>2. TypeOK /\ Lives /\ [Next]_vars => TypeOK' /\ Lives'
  BY NextTypes
<1> QED
  BY <1>1, <1>2, PTL DEF Spec

-----------------------------------------------------------------------------
\* The rows and their writers.

\* The rows hold initially.
LEMMA InitRows == Init => RowFromWriter /\ LaterWins
<1> SUFFICES ASSUME Init PROVE RowFromWriter /\ LaterWins
  OBVIOUS
<1>1. \A p \in Peer, k \in Cap : row[p][k] = NoRow /\ writer[p][k] = NoCall
  BY DEF Init
<1>2. \A p \in Peer, k \in Cap, c \in Call : ~Removed(c, p) /\ Written(c, p, k) = {}
  BY DEF Init, NoRequest, Removed, Written, Naming
<1> QED
  BY <1>1, <1>2 DEF RowFromWriter, LaterWins

\* A step that writes no row, and after which every call has written what it
\* had written before.
LEMMA RowsKept ==
  ASSUME row' = row, writer' = writer, before' = before, RowFromWriter, LaterWins,
         \A c \in Call, p \in Peer, k \in Cap :
            /\ Written(c, p, k)' = Written(c, p, k)
            /\ Removed(c, p)' <=> Removed(c, p),
         job' = job, writer \in [Peer -> [Cap -> Call \cup {NoCall}]]
  PROVE  RowFromWriter' /\ LaterWins'
<1>1. RowFromWriter'
  <2> SUFFICES ASSUME NEW p \in Peer, NEW k \in Cap, NEW w, w = writer[p][k]
               PROVE  /\ w = NoCall => row[p][k] = NoRow
                      /\ w # NoCall =>
                           \/ Removed(w, p)' /\ row[p][k] = NoRow
                           \/ \E i \in Written(w, p, k)' :
                                /\ row[p][k] = job[w].list[i]
                                /\ \A j \in Written(w, p, k)' : j <= i
    BY DEF RowFromWriter
  <2>1. w \in Call \cup {NoCall}
    OBVIOUS
  <2>2. CASE w = NoCall
    BY <2>2, NoCallAssumption DEF RowFromWriter
  <2>3. CASE w \in Call
    <3>1. Written(w, p, k)' = Written(w, p, k) /\ (Removed(w, p)' <=> Removed(w, p))
      BY <2>3
    <3>2. w # NoCall
      BY <2>3, NoCallAssumption DEF NoCallAssumption
    <3>3. \/ Removed(w, p) /\ row[p][k] = NoRow
          \/ \E i \in Written(w, p, k) :
               /\ row[p][k] = job[w].list[i]
               /\ \A j \in Written(w, p, k) : j <= i
      BY <3>2 DEF RowFromWriter
    <3> QED
      BY <3>1, <3>2, <3>3
  <2> QED
    BY <2>1, <2>2, <2>3
<1>2. LaterWins'
  <2> SUFFICES ASSUME NEW p \in Peer, NEW k \in Cap, NEW c \in Call,
                      Removed(c, p)' \/ Written(c, p, k)' # {}
               PROVE  writer[p][k] \notin before[c] \cup {NoCall}
    BY DEF LaterWins
  <2>1. Removed(c, p) \/ Written(c, p, k) # {}
    OBVIOUS
  <2> QED
    BY <2>1 DEF LaterWins
<1> QED
  BY <1>1, <1>2

\* A call that has just arrived has written nothing.
LEMMA ArriveRows ==
  ASSUME IInv, NEW c \in Call, NEW r \in Request, NEW o \in {"open", "error"},
         Arrive(c, r, o)
  PROVE  RowFromWriter' /\ LaterWins'
<1> USE DEF IInv
<1>1. /\ row' = row /\ writer' = writer /\ next' = next /\ next[c] = 1
      /\ phase[c] = "new" /\ job[c] = NoRequest /\ phase'[c] = o
      /\ \A d \in Call : d # c => job'[d] = job[d] /\ phase'[d] = phase[d]
                                  /\ before'[d] = before[d]
  BY DEF Arrive, TypeOK, Lives
<1>2. \A p \in Peer, k \in Cap : /\ Written(c, p, k) = {} /\ ~Removed(c, p)
                                 /\ Written(c, p, k)' = {} /\ ~Removed(c, p)'
  <2> SUFFICES ASSUME NEW p \in Peer, NEW k \in Cap
               PROVE  /\ Written(c, p, k) = {} /\ ~Removed(c, p)
                      /\ Written(c, p, k)' = {} /\ ~Removed(c, p)'
    OBVIOUS
  <2>1. Naming(c, p, k) = {}
    BY <1>1 DEF Naming, NoRequest
  <2>2. Written(c, p, k) = {} /\ ~Removed(c, p) /\ ~Removed(c, p)'
    BY <1>1, <2>1 DEF Written, Removed, NoRequest
  <2>3. \A i \in Naming(c, p, k)' : i \in Nat \ {0}
    <3>1. CASE job'[c].op = "register"
      <4>1. (job[c].op = "register" => DOMAIN job[c].list = 1 .. Len(job[c].list)
                                       /\ Len(job[c].list) \in Nat)'
        <5>1. job'[c] = r
          BY DEF Arrive, TypeOK
        <5>2. r \in [op : {"register"}, peer : Peer, list : Lists]
          BY <3>1, <5>1 DEF Request
        <5>3. r.list \in Seq(Declaration)
          BY <5>2, ListsAssumption DEF ListsAssumption
        <5> QED
          BY <5>1, <5>3
      <4> QED
        BY <3>1, <4>1 DEF Naming
    <3>2. CASE job'[c].op # "register"
      BY <3>2 DEF Naming
    <3> QED
      BY <3>1, <3>2
  <2>4. Written(c, p, k)' = {}
    BY <1>1, <2>3 DEF Written
  <2> QED
    BY <2>2, <2>4
<1>3. \A d \in Call, p \in Peer, k \in Cap : d # c =>
        /\ Written(d, p, k)' = Written(d, p, k) /\ (Removed(d, p)' <=> Removed(d, p))
  BY <1>1 DEF Written, Naming, Removed
<1>4. \A p \in Peer, k \in Cap : writer[p][k] # c
  <2> SUFFICES ASSUME NEW p \in Peer, NEW k \in Cap, writer[p][k] = c PROVE FALSE
    OBVIOUS
  <2>1. c # NoCall
    BY NoCallAssumption DEF NoCallAssumption
  <2> QED
    BY <1>2, <2>1 DEF RowFromWriter
<1>5. RowFromWriter'
  <2> SUFFICES ASSUME NEW p \in Peer, NEW k \in Cap, NEW w, w = writer[p][k]
               PROVE  /\ w = NoCall => row[p][k] = NoRow
                      /\ w # NoCall =>
                           \/ Removed(w, p)' /\ row[p][k] = NoRow
                           \/ \E i \in Written(w, p, k)' :
                                /\ row[p][k] = job'[w].list[i]
                                /\ \A j \in Written(w, p, k)' : j <= i
    BY <1>1 DEF RowFromWriter
  <2>1. w \in Call \cup {NoCall} /\ w # c
    BY <1>4 DEF TypeOK
  <2>2. w = NoCall => row[p][k] = NoRow
    BY DEF RowFromWriter
  <2>3. ASSUME w # NoCall
        PROVE  \/ Removed(w, p) /\ row[p][k] = NoRow
               \/ \E i \in Written(w, p, k) :
                    /\ row[p][k] = job[w].list[i]
                    /\ \A j \in Written(w, p, k) : j <= i
    BY <2>3 DEF RowFromWriter
  <2> QED
    BY <1>1, <1>3, <2>1, <2>2, <2>3
<1>6. LaterWins'
  <2> SUFFICES ASSUME NEW p \in Peer, NEW k \in Cap, NEW d \in Call,
                      Removed(d, p)' \/ Written(d, p, k)' # {}
               PROVE  writer[p][k] \notin before'[d] \cup {NoCall}
    BY <1>1 DEF LaterWins
  <2>1. d # c
    BY <1>2
  <2>2. Removed(d, p) \/ Written(d, p, k) # {}
    BY <1>3, <2>1
  <2> QED
    BY <1>1, <2>1, <2>2 DEF LaterWins
<1> QED
  BY <1>5, <1>6

\* The rows written so far are entries of the call's list.
LEMMA WrittenType ==
  ASSUME TypeOK, NEW c \in Call, NEW p \in Peer, NEW k \in Cap
  PROVE  \A i \in Written(c, p, k) :
           /\ job[c].op = "register" /\ job[c].peer = p
           /\ i \in Nat \ {0} /\ i < next[c] /\ job[c].list[i].name = k
<1> SUFFICES ASSUME NEW i \in Written(c, p, k)
             PROVE  /\ job[c].op = "register" /\ job[c].peer = p
                    /\ i \in Nat \ {0} /\ i < next[c] /\ job[c].list[i].name = k
  OBVIOUS
<1>1. i \in Naming(c, p, k) /\ i < next[c]
  BY DEF Written
<1>2. /\ job[c].op = "register" /\ job[c].peer = p
      /\ i \in DOMAIN job[c].list /\ job[c].list[i].name = k
  BY <1>1 DEF Naming
<1> QED
  BY <1>1, <1>2, ListType

\* The entry just written is the last word of its call, and its call was not
\* over when any other began.
LEMMA UpsertRows ==
  ASSUME IInv, NEW c \in Call, Upsert(c) PROVE RowFromWriter' /\ LaterWins'
<1> USE DEF IInv
<1> SUFFICES ASSUME NEW n, n = next[c], NEW e, e = job[c].list[n], NEW p, p = job[c].peer
             PROVE  RowFromWriter' /\ LaterWins'
  OBVIOUS
<1>1. /\ e \in Declaration /\ e.name \in Cap /\ p \in Peer /\ phase[c] = "open"
      /\ n \in Nat \ {0} /\ n \in DOMAIN job[c].list /\ job[c].op = "register"
  BY EntryType DEF Upsert, Registering
<1>2. /\ row' = [row EXCEPT ![p][e.name] = e] /\ writer' = [writer EXCEPT ![p][e.name] = c]
      /\ next' = [next EXCEPT ![c] = @ + 1]
      /\ phase' = phase /\ job' = job /\ before' = before
  BY DEF Upsert
<1>3. n \in Naming(c, p, e.name)
  BY <1>1 DEF Naming
<1>4. \A d \in Call, q \in Peer, k \in Cap :
        /\ Naming(d, q, k)' = Naming(d, q, k) /\ (Removed(d, q)' <=> Removed(d, q))
  BY <1>2 DEF Naming, Removed
<1>5. \A d \in Call, q \in Peer, k \in Cap :
        ~(d = c /\ q = p /\ k = e.name) => Written(d, q, k)' = Written(d, q, k)
  <2> SUFFICES ASSUME NEW d \in Call, NEW q \in Peer, NEW k \in Cap,
                      ~(d = c /\ q = p /\ k = e.name)
               PROVE  Written(d, q, k)' = Written(d, q, k)
    OBVIOUS
  <2>1. CASE d # c
    <3>1. next'[d] = next[d]
      BY <1>2, <2>1 DEF TypeOK
    <3> QED
      BY <1>4, <3>1 DEF Written
  <2>2. CASE d = c
    <3>1. next'[c] = n + 1
      BY <1>2 DEF TypeOK
    <3>2. \A i \in Naming(c, q, k) : i \in Nat /\ i # n
      <4> SUFFICES ASSUME NEW i \in Naming(c, q, k) PROVE i \in Nat /\ i # n
        OBVIOUS
      <4>1. q = p /\ i \in DOMAIN job[c].list /\ job[c].list[i].name = k
        BY DEF Naming
      <4> QED
        BY <1>1, <2>2, <4>1, ListType
    <3>3. \A i \in Naming(c, q, k) : i < n + 1 <=> i < n
      BY <1>1, <3>2
    <3> QED
      BY <1>4, <2>2, <3>1, <3>3 DEF Written
  <2> QED
    BY <2>1, <2>2
<1>6. n \in Written(c, p, e.name)' /\ \A i \in Written(c, p, e.name)' : i <= n
  <2>1. next'[c] = n + 1
    BY <1>2 DEF TypeOK
  <2>2. \A i \in Naming(c, p, e.name) : i \in Nat
    BY <1>1, ListType DEF Naming
  <2>3. Naming(c, p, e.name)' = Naming(c, p, e.name)
    BY <1>1, <1>4
  <2>4. \A i : i \in Written(c, p, e.name)' <=> i \in Naming(c, p, e.name) /\ i < n + 1
    BY <2>1, <2>3 DEF Written
  <2>5. n < n + 1 /\ \A i \in Nat : i < n + 1 => i <= n
    BY <1>1
  <2> HIDE DEF IInv
  <2> QED
    BY <1>3, <2>2, <2>4, <2>5
<1>7. /\ row'[p][e.name] = e /\ writer'[p][e.name] = c
      /\ \A q \in Peer, k \in Cap : ~(q = p /\ k = e.name) =>
           row'[q][k] = row[q][k] /\ writer'[q][k] = writer[q][k]
  BY <1>1, <1>2 DEF TypeOK, View
<1>8. RowFromWriter'
  <2> SUFFICES ASSUME NEW q \in Peer, NEW k \in Cap, NEW w, w = writer'[q][k]
               PROVE  /\ w = NoCall => row'[q][k] = NoRow
                      /\ w # NoCall =>
                           \/ Removed(w, q)' /\ row'[q][k] = NoRow
                           \/ \E i \in Written(w, q, k)' :
                                /\ row'[q][k] = job[w].list[i]
                                /\ \A j \in Written(w, q, k)' : j <= i
    BY <1>2 DEF RowFromWriter
  <2>1. CASE q = p /\ k = e.name
    <3>1. w = c /\ w # NoCall
      BY <1>7, <2>1, NoCallAssumption DEF NoCallAssumption
    <3>2. row'[q][k] = job[w].list[n]
      BY <1>2, <1>7, <2>1, <3>1
    <3> QED
      BY <1>6, <2>1, <3>1, <3>2
  <2>2. CASE ~(q = p /\ k = e.name)
    <3>1. row'[q][k] = row[q][k] /\ w = writer[q][k] /\ w \in Call \cup {NoCall}
      BY <1>7, <2>2 DEF TypeOK
    <3>2. w = NoCall => row[q][k] = NoRow
      BY <3>1 DEF RowFromWriter
    <3>3. ASSUME w # NoCall
          PROVE  \/ Removed(w, q) /\ row[q][k] = NoRow
                 \/ \E i \in Written(w, q, k) :
                      /\ row[q][k] = job[w].list[i]
                      /\ \A j \in Written(w, q, k) : j <= i
      BY <3>1, <3>3 DEF RowFromWriter
    <3>4. w \in Call => /\ Written(w, q, k)' = Written(w, q, k)
                        /\ (Removed(w, q)' <=> Removed(w, q))
      BY <1>4, <1>5, <2>2
    <3> QED
      BY <3>1, <3>2, <3>3, <3>4
  <2> QED
    BY <2>1, <2>2
<1>9. LaterWins'
  <2> SUFFICES ASSUME NEW q \in Peer, NEW k \in Cap, NEW d \in Call,
                      Removed(d, q)' \/ Written(d, q, k)' # {}
               PROVE  writer'[q][k] \notin before[d] \cup {NoCall}
    BY <1>2 DEF LaterWins
  <2>1. CASE q = p /\ k = e.name
    <3>1. c \notin before[d] /\ c # NoCall
      BY <1>1, NoCallAssumption DEF Lives, Ended, NoCallAssumption
    <3> QED
      BY <1>7, <2>1, <3>1
  <2>2. CASE ~(q = p /\ k = e.name)
    <3>1. Removed(d, q) \/ Written(d, q, k) # {}
      BY <1>4, <1>5, <2>2
    <3> QED
      BY <1>7, <2>2, <3>1 DEF LaterWins
  <2> QED
    BY <2>1, <2>2
<1> QED
  BY <1>8, <1>9

\* A removal has the last word on every row of its peer.
LEMMA RemoveRows ==
  ASSUME IInv, NEW c \in Call, Remove(c) PROVE RowFromWriter' /\ LaterWins'
<1> USE DEF IInv
<1> SUFFICES ASSUME NEW p, p = job[c].peer PROVE RowFromWriter' /\ LaterWins'
  OBVIOUS
<1>1. phase[c] = "open" /\ job[c].op = "remove" /\ p \in Peer /\ c # NoCall
  BY RemoveType, NoCallAssumption DEF Remove, Removing, NoCallAssumption
<1>2. /\ row' = [row EXCEPT ![p] = [k \in Cap |-> NoRow]]
      /\ writer' = [writer EXCEPT ![p] = [k \in Cap |-> c]]
      /\ phase' = [phase EXCEPT ![c] = "ok"]
      /\ job' = job /\ next' = next /\ before' = before
  BY DEF Remove, Answer
<1>3. \A d \in Call, q \in Peer, k \in Cap :
        /\ Written(d, q, k)' = Written(d, q, k)
        /\ Removed(d, q) => Removed(d, q)'
        /\ Removed(d, q)' => Removed(d, q) \/ q = p
  BY <1>1, <1>2 DEF Written, Naming, Removed, TypeOK
<1>4. Removed(c, p)'
  BY <1>1, <1>2 DEF Removed, TypeOK
<1>5. /\ \A k \in Cap : row'[p][k] = NoRow /\ writer'[p][k] = c
      /\ \A q \in Peer, k \in Cap : q # p =>
           row'[q][k] = row[q][k] /\ writer'[q][k] = writer[q][k]
  BY <1>1, <1>2 DEF TypeOK, View
<1>6. RowFromWriter'
  <2> SUFFICES ASSUME NEW q \in Peer, NEW k \in Cap, NEW w, w = writer'[q][k]
               PROVE  /\ w = NoCall => row'[q][k] = NoRow
                      /\ w # NoCall =>
                           \/ Removed(w, q)' /\ row'[q][k] = NoRow
                           \/ \E i \in Written(w, q, k)' :
                                /\ row'[q][k] = job[w].list[i]
                                /\ \A j \in Written(w, q, k)' : j <= i
    BY <1>2 DEF RowFromWriter
  <2>1. CASE q = p
    BY <1>1, <1>4, <1>5, <2>1
  <2>2. CASE q # p
    <3>1. row'[q][k] = row[q][k] /\ w = writer[q][k] /\ w \in Call \cup {NoCall}
      BY <1>5, <2>2 DEF TypeOK
    <3>2. w = NoCall => row[q][k] = NoRow
      BY <3>1 DEF RowFromWriter
    <3>3. ASSUME w # NoCall
          PROVE  \/ Removed(w, q) /\ row[q][k] = NoRow
                 \/ \E i \in Written(w, q, k) :
                      /\ row[q][k] = job[w].list[i]
                      /\ \A j \in Written(w, q, k) : j <= i
      BY <3>1, <3>3 DEF RowFromWriter
    <3> QED
      BY <1>3, <3>1, <3>2, <3>3
  <2> QED
    BY <2>1, <2>2
<1>7. LaterWins'
  <2> SUFFICES ASSUME NEW q \in Peer, NEW k \in Cap, NEW d \in Call,
                      Removed(d, q)' \/ Written(d, q, k)' # {}
               PROVE  writer'[q][k] \notin before[d] \cup {NoCall}
    BY <1>2 DEF LaterWins
  <2>1. CASE q = p
    <3>1. c \notin before[d]
      BY <1>1 DEF Lives, Ended
    <3> QED
      BY <1>1, <1>5, <2>1, <3>1
  <2>2. CASE q # p
    <3>1. Removed(d, q) \/ Written(d, q, k) # {}
      BY <1>3, <2>2
    <3> QED
      BY <1>5, <2>2, <3>1 DEF LaterWins
  <2> QED
    BY <2>1, <2>2
<1> QED
  BY <1>6, <1>7

\* Every step.
LEMMA NextHolds == IInv /\ [Next]_vars => IInv'
<1> SUFFICES ASSUME IInv, [Next]_vars PROVE IInv'
  OBVIOUS
<1>1. TypeOK' /\ Lives'
  BY NextTypes DEF IInv
<1>2. ASSUME NEW c \in Call, NEW r \in Request, Connected(c, r) \/ Refused(c, r)
      PROVE  RowFromWriter' /\ LaterWins'
  BY <1>2, ArriveRows DEF Connected, Refused
<1>3. ASSUME NEW c \in Call, Upsert(c) PROVE RowFromWriter' /\ LaterWins'
  BY <1>3, UpsertRows
<1>4. ASSUME NEW c \in Call, Remove(c) PROVE RowFromWriter' /\ LaterWins'
  BY <1>4, RemoveRows
<1>5. ASSUME NEW c \in Call, Registered(c) \/ UpsertFails(c) \/ RemoveFails(c)
      PROVE  RowFromWriter' /\ LaterWins'
  <2>1. /\ row' = row /\ job' = job /\ next' = next /\ writer' = writer /\ before' = before
        /\ phase[c] = "open"
        /\ \/ phase' = [phase EXCEPT ![c] = "error"]
           \/ phase' = [phase EXCEPT ![c] = "ok"] /\ job[c].op = "register"
    BY <1>5 DEF Registered, Registering, UpsertFails, RemoveFails, Answer
  <2>2. \A d \in Call, p \in Peer, k \in Cap :
          Written(d, p, k)' = Written(d, p, k) /\ (Removed(d, p)' <=> Removed(d, p))
    BY <2>1 DEF IInv, TypeOK, Written, Naming, Removed
  <2>3. RowFromWriter /\ LaterWins /\ writer \in [Peer -> [Cap -> Call \cup {NoCall}]]
    BY DEF IInv, TypeOK
  <2> QED
    BY <2>1, <2>2, <2>3, RowsKept
<1>6. ASSUME Read \/ Delivered \/ UNCHANGED vars PROVE RowFromWriter' /\ LaterWins'
  <2>1. /\ row' = row /\ job' = job /\ next' = next /\ writer' = writer /\ before' = before
        /\ phase' = phase
    BY <1>6 DEF Read, GetPeer, ListAll, QueryPeers, Select, Delivered, vars
  <2>2. \A d \in Call, p \in Peer, k \in Cap :
          Written(d, p, k)' = Written(d, p, k) /\ (Removed(d, p)' <=> Removed(d, p))
    BY <2>1 DEF Written, Naming, Removed
  <2>3. RowFromWriter /\ LaterWins /\ writer \in [Peer -> [Cap -> Call \cup {NoCall}]]
    BY DEF IInv, TypeOK
  <2> QED
    BY <2>1, <2>2, <2>3, RowsKept
<1>7. ASSUME Crash PROVE RowFromWriter' /\ LaterWins'
  <2>1. /\ row' = row /\ job' = job /\ next' = next /\ writer' = writer /\ before' = before
        /\ phase' = [c \in Call |-> IF phase[c] = "open" THEN "lost" ELSE phase[c]]
    BY <1>7 DEF Crash
  <2>2. \A d \in Call, p \in Peer, k \in Cap :
          Written(d, p, k)' = Written(d, p, k) /\ (Removed(d, p)' <=> Removed(d, p))
    BY <2>1 DEF Written, Naming, Removed
  <2>3. RowFromWriter /\ LaterWins /\ writer \in [Peer -> [Cap -> Call \cup {NoCall}]]
    BY DEF IInv, TypeOK
  <2> QED
    BY <2>1, <2>2, <2>3, RowsKept
<1> QED
  BY <1>1, <1>2, <1>3, <1>4, <1>5, <1>6, <1>7 DEF Next, Handle, IInv

\* A call that succeeded has written what it names, or removed it.
LEMMA SettledWritten ==
  ASSUME IInv, NEW c \in Call, NEW p \in Peer, NEW k \in Cap, Settles(c, p, k)
  PROVE  Removed(c, p) \/ Written(c, p, k) # {}
<1>1. CASE job[c].op = "remove" /\ job[c].peer = p
  BY <1>1 DEF Settles, Removed
<1>2. CASE Naming(c, p, k) # {}
  <2>1. PICK i \in Naming(c, p, k) : TRUE
    BY <1>2
  <2>2. job[c].op = "register" /\ i \in DOMAIN job[c].list
    BY DEF Naming
  <2>3. next[c] = Len(job[c].list) + 1
    BY <2>2 DEF Settles, IInv, Lives
  <2>4. i < next[c]
    BY <2>2, <2>3, ListType DEF IInv
  <2> QED
    BY <2>1, <2>4 DEF Written
<1> QED
  BY <1>1, <1>2 DEF Settles

\* An answer of success is in effect, for any number of calls that register,
\* remove, fail and are cut off by crashes in any order (capability_routes.rs).
THEOREM AnsweredInEffectTheorem == Spec => []AnsweredInEffect
<1>1. Init => IInv
  BY InitTypes, InitRows DEF IInv
<1>2. IInv /\ [Next]_vars => IInv'
  BY NextHolds
<1>3. IInv => AnsweredInEffect
  BY SettledWritten DEF IInv, LaterWins, AnsweredInEffect
<1> QED
  BY <1>1, <1>2, <1>3, PTL DEF Spec

-----------------------------------------------------------------------------
\* The promise kept: the client's view of a call, and of the table.

Told(c) == IF phase[c] \in {"error", "lost"} THEN "failed" ELSE phase[c]

\* The operators of the promise and of the registry say the same.
LEMMA SameRequests ==
  /\ Promise!Request = Request /\ Promise!NoRequest = NoRequest /\ Promise!View = View
<1>1. Promise!Request = Request /\ Promise!NoRequest = NoRequest
  BY DEF Promise!Request, Request, Promise!NoRequest, NoRequest
<1>2. Promise!View = View
  BY DEF Promise!View, View, Promise!Declaration, Declaration
<1> QED
  BY <1>1, <1>2

\* A call is over for the promise exactly when it has ended in the registry.
LEMMA SameOver == TypeOK => Promise!Over = Ended
<1>1. TypeOK => \A c \in Call : Told(c) \in {"ok", "failed"} <=> phase[c] \in {"ok", "error", "lost"}
  BY DEF TypeOK, Told
<1> QED
  BY <1>1 DEF Promise!Over, Ended, Told

\* Every answer the registry computes is one the promise allows for that table.
LEMMA SameAnswers ==
  ASSUME NEW v
  PROVE  /\ \A p \in Peer : <<"peer", Rows(v, p)>> \in Promise!Answers(v)
         /\ <<"all", Grouped(v)>> \in Promise!Answers(v)
         /\ \A q \in Queries : \A r \in Ranked(v, q) : <<"query", r>> \in Promise!Answers(v)
<1>1. \A p : Promise!Rows(v, p) = Rows(v, p)
  BY DEF Promise!Rows, Rows
<1>2. Promise!Grouped(v) = Grouped(v)
  BY DEF Promise!Grouped, Grouped, Promise!Rows, Rows
<1>3. \A q : Promise!Ranked(v, q) = Ranked(v, q)
  BY DEF Promise!Ranked, Ranked, Promise!Entry, Entry, Promise!Score, Score,
         Promise!Matching, Matching, Promise!Matched, Matched, Promise!Rows, Rows,
         Promise!Cardinality, Cardinality
<1> QED
  BY <1>1, <1>2, <1>3 DEF Promise!Answers

\* A call that succeeded and concerns the row began before the last writer of
\* the row was over.
LEMMA NotOverruled ==
  ASSUME IInv, NEW p \in Peer, NEW k \in Cap, NEW d \in Call, phase[d] = "ok",
         Promise!Concerns(job[d], p, k)
  PROVE  writer[p][k] \notin before[d] \cup {NoCall}
<1>1. job[d] \in Request
  BY DEF IInv, TypeOK
<1>2. job[d].op \in {"register", "remove"}
  BY <1>1, RequestType
<1>3. Settles(d, p, k)
  BY <1>2 DEF Promise!Concerns, Promise!Places, Settles, Naming
<1>4. Removed(d, p) \/ Written(d, p, k) # {}
  BY <1>3, SettledWritten
<1> QED
  BY <1>4 DEF IInv, LaterWins

\* What the row holds is a word of its last writer.
LEMMA WriterWord ==
  ASSUME IInv, NEW p \in Peer, NEW k \in Cap, NEW w \in Call, w = writer[p][k]
  PROVE  /\ phase[w] # "new" /\ Promise!Concerns(job[w], p, k)
         /\ row[p][k] \in Promise!Words(w, k)
<1>1. w # NoCall
  BY NoCallAssumption DEF NoCallAssumption
<1>2. \/ Removed(w, p) /\ row[p][k] = NoRow
      \/ \E i \in Written(w, p, k) :
           /\ row[p][k] = job[w].list[i]
           /\ \A j \in Written(w, p, k) : j <= i
  BY <1>1 DEF IInv, RowFromWriter
<1>3. CASE Removed(w, p) /\ row[p][k] = NoRow
  BY <1>3 DEF Removed, Promise!Concerns, Promise!Words
<1>4. CASE \E i \in Written(w, p, k) :
             /\ row[p][k] = job[w].list[i]
             /\ \A j \in Written(w, p, k) : j <= i
  <2>1. PICK i \in Written(w, p, k) : /\ row[p][k] = job[w].list[i]
                                      /\ \A j \in Written(w, p, k) : j <= i
    BY <1>4
  <2>2. /\ job[w].op = "register" /\ job[w].peer = p /\ i \in Naming(w, p, k)
    BY <2>1, WrittenType DEF IInv, Written
  <2>3. Naming(w, p, k) = Promise!Places(job[w], k)
    BY <2>2 DEF Naming, Promise!Places
  <2>4. phase[w] # "new"
    BY <2>2, ListType DEF IInv
  <2>5. ASSUME phase[w] = "ok" PROVE \A j \in Naming(w, p, k) : j <= i
    <3>1. next[w] = Len(job[w].list) + 1
      BY <2>2, <2>5 DEF IInv, Lives
    <3>2. \A j \in Naming(w, p, k) : j \in DOMAIN job[w].list
      BY DEF Naming
    <3>3. \A j \in Naming(w, p, k) : j < next[w]
      BY <2>2, <3>1, <3>2, ListType DEF IInv
    <3> QED
      BY <2>1, <3>3 DEF Written
  <2>6. Told(w) = "ok" => phase[w] = "ok"
    BY DEF Told
  <2>7. row[p][k] \in Promise!Words(w, k)
    BY <2>1, <2>2, <2>3, <2>5, <2>6 DEF Promise!Words, Told
  <2> QED
    BY <2>2, <2>3, <2>4, <2>7 DEF Promise!Concerns
<1> QED
  BY <1>2, <1>3, <1>4

\* A reader is shown legal rows.
LEMMA RowLegal == IInv => Promise!LegalView(row)
<1> SUFFICES ASSUME IInv PROVE Promise!LegalView(row)
  OBVIOUS
<1> SUFFICES ASSUME NEW p \in Peer, NEW k \in Cap PROVE row[p][k] \in Promise!Legal(p, k)
  BY SameRequests DEF Promise!LegalView, IInv, TypeOK
<1> DEFINE calls == {c \in Promise!Begun : Promise!Concerns(job[c], p, k)}
<1>1. \A c : c \in calls <=> c \in Call /\ phase[c] # "new" /\ Promise!Concerns(job[c], p, k)
  BY DEF Promise!Begun
<1>2. \A c \in Call : Told(c) = "ok" <=> phase[c] = "ok"
  BY DEF Told
<1>3. \A d \in calls : Told(d) = "ok" => writer[p][k] \notin before[d] \cup {NoCall}
  BY <1>1, <1>2, NotOverruled
<1>4. writer[p][k] \in Call \cup {NoCall}
  BY DEF IInv, TypeOK
<1>5. CASE writer[p][k] = NoCall
  <2>1. row[p][k] = NoRow
    BY <1>5 DEF IInv, RowFromWriter
  <2>2. \A d \in calls : [c \in Call |-> Told(c)][d] # "ok"
    BY <1>1, <1>3, <1>5
  <2>3. NoRow \in {n \in {NoRow} : \A d \in calls : [c \in Call |-> Told(c)][d] # "ok"}
    BY <2>2
  <2> QED
    BY <2>1, <2>3 DEF Promise!Legal, Told
<1>6. CASE writer[p][k] \in Call
  <2> SUFFICES ASSUME NEW w \in Call, w = writer[p][k] PROVE row[p][k] \in Promise!Legal(p, k)
    BY <1>6
  <2>1. w \in calls /\ row[p][k] \in Promise!Words(w, k)
    BY <1>1, WriterWord
  <2>2. ~\E d \in calls : Promise!Overrules(d, w)
    BY <1>1, <1>3 DEF Promise!Overrules, Told
  <2> QED
    BY <2>1, <2>2 DEF Promise!Legal
<1> QED
  BY <1>4, <1>5, <1>6

\* The initial states of the registry are initial states of the promise.
LEMMA PromiseInit == Init => Promise!Init
<1> SUFFICES ASSUME Init PROVE Promise!Init
  OBVIOUS
<1>1. /\ \A c \in Call : phase[c] = "new"
      /\ job = [c \in Call |-> NoRequest] /\ before = [c \in Call |-> {}] /\ answer = <<>>
  BY DEF Init
<1>2. [c \in Call |-> Told(c)] = [c \in Call |-> "new"]
  BY <1>1 DEF Told
<1> QED
  BY <1>1, <1>2, SameRequests DEF Promise!Init, Told

\* The arrival of a request begins a call, or fails it on the spot.
LEMMA PromiseBegin ==
  ASSUME TypeOK, NEW c \in Call, NEW r \in Request,
         Connected(c, r) \/ Refused(c, r)
  PROVE  Promise!Begin(c, r, "open") \/ Promise!Begin(c, r, "failed")
<1> SUFFICES ASSUME NEW o \in {"open", "error"}, Arrive(c, r, o),
                    NEW s, s = IF o = "error" THEN "failed" ELSE o
             PROVE  Promise!Begin(c, r, s)
  BY DEF Connected, Refused
<1>1. phase[c] = "new" /\ phase' = [phase EXCEPT ![c] = o]
  BY DEF Arrive
<1>2. [d \in Call |-> Told(d)]' = [[d \in Call |-> Told(d)] EXCEPT ![c] = s]
  BY <1>1 DEF Told, TypeOK
<1>3. [d \in Call |-> Told(d)][c] = "new"
  BY <1>1 DEF Told
<1>4. /\ job' = [job EXCEPT ![c] = r] /\ before' = [before EXCEPT ![c] = Promise!Over]
      /\ answer' = <<>>
  BY SameOver DEF Arrive
<1> QED
  BY <1>2, <1>3, <1>4 DEF Promise!Begin, Told

\* An answer of success.
LEMMA PromiseSucceed ==
  ASSUME TypeOK, NEW c \in Call, Registered(c) \/ Remove(c) PROVE Promise!Succeed(c)
<1>1. /\ phase[c] = "open" /\ phase' = [phase EXCEPT ![c] = "ok"]
      /\ UNCHANGED <<job, before>> /\ answer' = <<>>
  BY DEF Registered, Remove, Answer
<1>2. [d \in Call |-> Told(d)]' = [[d \in Call |-> Told(d)] EXCEPT ![c] = "ok"]
  BY <1>1 DEF Told, TypeOK
<1>3. [d \in Call |-> Told(d)][c] = "open"
  BY <1>1 DEF Told
<1> QED
  BY <1>1, <1>2, <1>3 DEF Promise!Succeed, Told

\* A statement that fails, and a crash.
LEMMA PromiseFail ==
  ASSUME TypeOK, NEW C \in SUBSET Call, \A c \in C : phase[c] = "open",
         NEW o \in {"error", "lost"},
         phase' = [c \in Call |-> IF c \in C THEN o ELSE phase[c]],
         UNCHANGED <<job, before>>, answer' = <<>>
  PROVE  Promise!Fail(C)
<1>1. \A c \in C : [d \in Call |-> Told(d)][c] = "open"
  BY DEF Told
<1>2. [d \in Call |-> Told(d)]'
        = [c \in Call |-> IF c \in C THEN "failed" ELSE [d \in Call |-> Told(d)][c]]
  BY DEF Told
<1> QED
  BY <1>1, <1>2 DEF Promise!Fail, Told

\* A read.
LEMMA PromiseShow == ASSUME IInv, Read PROVE Promise!Show
<1>1. PICK said \in Promise!Answers(row) : Select(said)
  <2>1. ASSUME NEW p \in Peer, GetPeer(p)
        PROVE  \E said \in Promise!Answers(row) : Select(said)
    BY <2>1, SameAnswers DEF GetPeer
  <2>2. ASSUME ListAll PROVE \E said \in Promise!Answers(row) : Select(said)
    BY <2>2, SameAnswers DEF ListAll
  <2>3. ASSUME NEW q \in Queries, QueryPeers(q)
        PROVE  \E said \in Promise!Answers(row) : Select(said)
    BY <2>3, SameAnswers DEF QueryPeers
  <2> QED
    BY <2>1, <2>2, <2>3 DEF Read
<1>2. answer' = <<row, said>> /\ UNCHANGED <<phase, job, before>>
  BY <1>1 DEF Select
<1>3. answer' # <<>> /\ answer'[1] = row /\ answer'[2] = said
  BY <1>2
<1>4. Promise!LegalView(row)
  BY RowLegal
<1> QED
  BY <1>1, <1>2, <1>3, <1>4 DEF Promise!Show

\* Every step of the registry is one of the promise, or changes nothing of it.
LEMMA PromiseNext == IInv /\ [Next]_vars => [Promise!Next]_Promise!promiseVars
<1> SUFFICES ASSUME IInv, [Next]_vars PROVE [Promise!Next]_Promise!promiseVars
  OBVIOUS
<1>1. ASSUME NEW c \in Call, NEW r \in Request, Connected(c, r) \/ Refused(c, r)
      PROVE  Promise!Next
  BY <1>1, PromiseBegin, SameRequests DEF IInv, Promise!Next
<1>2. ASSUME NEW c \in Call, Registered(c) \/ Remove(c) PROVE Promise!Next
  BY <1>2, PromiseSucceed DEF IInv, Promise!Next
<1>3. ASSUME NEW c \in Call, UpsertFails(c) \/ RemoveFails(c) PROVE Promise!Next
  <2>1. /\ phase[c] = "open" /\ phase' = [phase EXCEPT ![c] = "error"]
        /\ UNCHANGED <<job, before>> /\ answer' = <<>>
    BY <1>3 DEF UpsertFails, RemoveFails, Answer
  <2>2. phase' = [d \in Call |-> IF d \in {c} THEN "error" ELSE phase[d]]
    BY <2>1 DEF IInv, TypeOK
  <2>3. Promise!Fail({c})
    BY <2>1, <2>2, PromiseFail DEF IInv
  <2> QED
    BY <2>3 DEF Promise!Next
<1>4. ASSUME Crash PROVE Promise!Next
  <2> SUFFICES ASSUME NEW C, C = {c \in Call : phase[c] = "open"} PROVE Promise!Next
    OBVIOUS
  <2>1. C \in SUBSET Call /\ \A c \in C : phase[c] = "open"
    OBVIOUS
  <2>2. /\ phase' = [c \in Call |-> IF c \in C THEN "lost" ELSE phase[c]]
        /\ UNCHANGED <<job, before>> /\ answer' = <<>>
    BY <1>4 DEF Crash
  <2>3. Promise!Fail(C)
    BY <2>1, <2>2, PromiseFail DEF IInv
  <2> QED
    BY <2>1, <2>3 DEF Promise!Next
<1>5. ASSUME NEW c \in Call, Upsert(c) PROVE Promise!Next
  BY <1>5 DEF Upsert, Promise!Next, Promise!Forget
<1>6. ASSUME Delivered PROVE Promise!Next
  BY <1>6 DEF Delivered, Promise!Next, Promise!Forget
<1>7. ASSUME Read PROVE Promise!Next
  BY <1>7, PromiseShow DEF Promise!Next
<1>8. ASSUME UNCHANGED vars PROVE UNCHANGED Promise!promiseVars
  BY <1>8 DEF vars, Promise!promiseVars
<1> QED
  BY <1>1, <1>2, <1>3, <1>4, <1>5, <1>6, <1>7, <1>8 DEF Next, Handle

\* Whatever calls run beside each other, fail half way or are cut off by a
\* crash, a reader is shown only declarations that nobody overruled
\* (capability_routes.rs, capability_registry.rs).
THEOREM KeepsPromiseTheorem == Spec => KeepsPromise
<1>1. Init => IInv
  BY InitTypes, InitRows DEF IInv
<1>2. IInv /\ [Next]_vars => IInv'
  BY NextHolds
<1> QED
  BY <1>1, <1>2, PromiseInit, PromiseNext, PTL DEF Spec, KeepsPromise, Promise!Spec

-----------------------------------------------------------------------------
\* The order of the answers to a query.

\* However many capabilities there may be, a peer has finitely many rows.
RowsFinite == \A p \in Peer : IsFiniteSet(Rows(row, p))

\* Initially there are no rows.
LEMMA InitFinite == Init => RowsFinite
<1> SUFFICES ASSUME Init, NEW p \in Peer PROVE Rows(row, p) = {}
  BY FS_EmptySet DEF RowsFinite
<1> QED BY DEF Init, Rows

\* A statement adds one row at most.
LEMMA NextFinite == TypeOK /\ RowsFinite /\ [Next]_vars => RowsFinite'
<1> SUFFICES ASSUME TypeOK, RowsFinite, [Next]_vars PROVE RowsFinite'
  OBVIOUS
<1>1. CASE row' = row
  BY <1>1 DEF RowsFinite, Rows
<1>2. ASSUME NEW c \in Call, Upsert(c) PROVE RowsFinite'
  <2> DEFINE entry == job[c].list[next[c]]
             q == job[c].peer
  <2>1. q \in Peer /\ entry.name \in Cap
    BY <1>2, ListType DEF Upsert, Registering
  <2>2. row' = [row EXCEPT ![q][entry.name] = entry]
    BY <1>2 DEF Upsert
  <2> HIDE DEF entry, q
  <2>3. \A p \in Peer : Rows(row', p) \subseteq Rows(row, p) \cup {entry}
    BY <2>1, <2>2 DEF Rows, TypeOK, View
  <2> SUFFICES ASSUME NEW p \in Peer PROVE IsFiniteSet(Rows(row', p))
    BY DEF RowsFinite
  <2>4. IsFiniteSet(Rows(row, p) \cup {entry})
    BY FS_AddElement DEF RowsFinite
  <2> QED BY <2>3, <2>4, FS_Subset
<1>3. ASSUME NEW c \in Call, Remove(c) PROVE RowsFinite'
  <2>1. row' = [row EXCEPT ![job[c].peer] = [k \in Cap |-> NoRow]]
    BY <1>3 DEF Remove
  <2> SUFFICES ASSUME NEW p \in Peer PROVE IsFiniteSet(Rows(row', p))
    BY DEF RowsFinite
  <2>2. Rows(row', p) = Rows(row, p) \/ Rows(row', p) = {}
    BY <2>1 DEF Rows, TypeOK, View
  <2> QED BY <2>2, FS_EmptySet DEF RowsFinite
<1>4. \/ row' = row
      \/ \E c \in Call : Upsert(c) \/ Remove(c)
  BY DEF Next, Handle, Connected, Refused, Arrive, Registered, UpsertFails, RemoveFails,
         Read, GetPeer, ListAll, QueryPeers, Select, Delivered, Crash, vars
<1> QED BY <1>1, <1>2, <1>3, <1>4

\* The places of the required tags.
LEMMA RequiredType ==
  ASSUME NEW q \in Queries
  PROVE  /\ IsFiniteSet(DOMAIN q.required) /\ Cardinality(DOMAIN q.required) \in Nat
<1>1. q.required \in Seq(Tag)
  BY QueriesAssumption DEF QueriesAssumption, Query
<1>2. DOMAIN q.required = 1 .. Len(q.required) /\ Len(q.required) \in Nat
  BY <1>1
<1>3. IsFiniteSet(DOMAIN q.required)
  BY <1>2, FS_Interval
<1> QED BY <1>3, FS_CardinalityType

\* The pairs of a place and a row that offers the tag there.
Offers(q, p) == {pair \in (DOMAIN q.required) \X Matching(row, q, p) :
                   pair[1] \in Matched(q, pair[2])}

\* They are finitely many.
LEMMA OffersFinite ==
  ASSUME RowsFinite, NEW q \in Queries, NEW p \in Peer
  PROVE  /\ IsFiniteSet(Matching(row, q, p)) /\ IsFiniteSet(Offers(q, p))
         /\ Score(row, q, p) = Cardinality(Offers(q, p)) /\ Score(row, q, p) \in Nat
<1>1. Matching(row, q, p) \subseteq Rows(row, p)
  BY DEF Matching
<1>2. IsFiniteSet(Matching(row, q, p))
  BY <1>1, FS_Subset DEF RowsFinite
<1>3. IsFiniteSet((DOMAIN q.required) \X Matching(row, q, p))
  BY <1>2, RequiredType, FS_Product
<1>4. Offers(q, p) \subseteq (DOMAIN q.required) \X Matching(row, q, p)
  BY DEF Offers
<1>5. IsFiniteSet(Offers(q, p))
  BY <1>3, <1>4, FS_Subset
<1> QED BY <1>2, <1>5, FS_CardinalityType DEF Score, Offers

\* A row that offers all that is required brings its peer at least one point for
\* each of the tags.
LEMMA CoveringScore ==
  ASSUME RowsFinite, NEW q \in Queries, NEW p \in Peer,
         NEW k \in Matching(row, q, p), Matched(q, k) = DOMAIN q.required
  PROVE  Score(row, q, p) >= Cardinality(DOMAIN q.required)
<1> DEFINE f == [i \in DOMAIN q.required |-> <<i, k>>]
<1>1. f \in [DOMAIN q.required -> Offers(q, p)]
  BY DEF Offers
<1>2. f \in Injection(DOMAIN q.required, Offers(q, p))
  BY <1>1 DEF Injection, IsInjective
<1>3. Cardinality(DOMAIN q.required) <= Cardinality(Offers(q, p))
  <2> HIDE DEF f
  <2> QED BY <1>2, OffersFinite, FS_Injection
<1> QED BY <1>3, OffersFinite, RequiredType

\* A single row that lacks something brings less.
LEMMA LackingScore ==
  ASSUME RowsFinite, NEW q \in Queries, NEW p \in Peer,
         Cardinality(Matching(row, q, p)) = 1,
         ~\E k \in Matching(row, q, p) : Matched(q, k) = DOMAIN q.required
  PROVE  Score(row, q, p) < Cardinality(DOMAIN q.required)
<1>1. PICK k : Matching(row, q, p) = {k}
  BY OffersFinite, FS_Singleton
<1>2. Matched(q, k) \subseteq DOMAIN q.required /\ Matched(q, k) # DOMAIN q.required
  BY <1>1 DEF Matched
<1>3. /\ IsFiniteSet(Matched(q, k)) /\ Cardinality(Matched(q, k)) \in Nat
      /\ Cardinality(Matched(q, k)) < Cardinality(DOMAIN q.required)
  <2>1. /\ IsFiniteSet(Matched(q, k))
        /\ Cardinality(Matched(q, k)) <= Cardinality(DOMAIN q.required)
        /\ Cardinality(DOMAIN q.required) # Cardinality(Matched(q, k))
    BY <1>2, RequiredType, FS_Subset
  <2> QED BY <2>1, RequiredType, FS_CardinalityType
<1> DEFINE f == [pair \in Offers(q, p) |-> pair[1]]
<1>4. \A pair \in Offers(q, p) : pair[1] \in Matched(q, k) /\ pair = <<pair[1], k>>
  BY <1>1 DEF Offers
<1>5. f \in Injection(Offers(q, p), Matched(q, k))
  BY <1>4 DEF Injection, IsInjective
<1>6. Cardinality(Offers(q, p)) <= Cardinality(Matched(q, k))
  <2> HIDE DEF f
  <2> QED BY <1>3, <1>5, FS_Injection
<1> QED BY <1>3, <1>6, OffersFinite, RequiredType

\* Whatever is in the table, and in whichever order a hash map yields equal
\* scores, a peer one of whose capabilities offers all that is required comes
\* before one with a single capability that lacks something
\* (query_capable_peers).
THEOREM CoverageFirstTheorem == Spec => []CoverageFirst
<1>1. ASSUME RowsFinite PROVE CoverageFirst
  <2> SUFFICES ASSUME NEW q \in Queries, NEW r \in Ranked(row, q),
                      NEW i \in DOMAIN r, NEW j \in DOMAIN r,
                      NEW k \in Matching(row, q, r[j].peer),
                      Matched(q, k) = DOMAIN q.required,
                      ~\E x \in Matching(row, q, r[i].peer) : Matched(q, x) = DOMAIN q.required,
                      Cardinality(Matching(row, q, r[i].peer)) = 1
               PROVE  j < i
    BY DEF CoverageFirst
  <2> DEFINE found == {p \in Peer : Matching(row, q, p) # {}}
  <2>1. PICK s \in [1 .. Cardinality(found) -> found] :
          /\ r = [x \in DOMAIN s |-> Entry(row, q, s[x])]
          /\ \A x, y \in DOMAIN s : x < y => Score(row, q, s[x]) >= Score(row, q, s[y])
    BY DEF Ranked
  <2>2. /\ i \in 1 .. Cardinality(found) /\ j \in 1 .. Cardinality(found)
        /\ i \in DOMAIN s /\ j \in DOMAIN s /\ s[i] \in Peer /\ s[j] \in Peer
        /\ r[i].peer = s[i] /\ r[j].peer = s[j]
    BY <2>1 DEF Entry
  <2>3. Score(row, q, s[i]) < Score(row, q, s[j])
    <3>1. /\ Score(row, q, s[j]) >= Cardinality(DOMAIN q.required)
          /\ Score(row, q, s[i]) < Cardinality(DOMAIN q.required)
      BY <1>1, <2>2, CoveringScore, LackingScore
    <3> QED BY <1>1, <2>2, <3>1, OffersFinite, RequiredType
  <2>4. /\ Score(row, q, s[i]) \in Nat /\ Score(row, q, s[j]) \in Nat
    BY <1>1, <2>2, OffersFinite
  <2>5. i \in Int /\ j \in Int
    BY <2>2
  <2>6. ASSUME i < j PROVE FALSE
    <3>1. Score(row, q, s[i]) >= Score(row, q, s[j])
      BY <2>1, <2>2, <2>6
    <3> QED BY <2>3, <2>4, <3>1
  <2>7. ASSUME i = j PROVE FALSE
    <3>1. Score(row, q, s[i]) = Score(row, q, s[j])
      BY <2>7
    <3> QED BY <2>3, <2>4, <3>1
  <2> QED BY <2>5, <2>6, <2>7
<1>2. TypeOK /\ RowsFinite /\ [Next]_vars => RowsFinite'
  BY NextFinite
<1> QED BY <1>1, <1>2, TypeCorrect, InitFinite, PTL DEF Spec
=============================================================================
