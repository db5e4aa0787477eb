--------------------------- MODULE MeshSyncProofs ---------------------------
(***************************************************************************)
(* Proofs of the safety of MeshSync for every mesh, registry, clock skew    *)
(* and bound, and for the hazards each theorem names.                       *)
(***************************************************************************)
EXTENDS MeshSyncInv, TLAPS

\* Every change exported is a change with a real version.
LEMMA ExportedChanges ==
  ASSUME NEW rows \in [Row -> Version \cup {NoVersion}], NEW since \in Nat
  PROVE  ChangesSince(rows, since) \subseteq Change
BY DEF ChangesSince, Change, Version, NoVersion, None, Stamp

\* The next cursor is a time.
LEMMA NextCursorType ==
  ASSUME NEW prev \in Nat, NEW exported \in Nat, NEW applied \in Nat, NEW start \in Nat
  PROVE  ComputeNewCursor(prev, exported, applied, start) \in Nat
BY DEF ComputeNewCursor, Later, Earlier

\* Storing a change leaves the tables and what was seen of them well typed.
LEMMA StoreType ==
  ASSUME TypeOK, NEW n \in Node, NEW c \in Change, Store(n, c)
  PROVE  /\ db' \in [Node -> [Row -> Version \cup {NoVersion}]]
         /\ seen' \in [Node -> [Row -> Nat]]
<1>1. c.row \in Row /\ c.ver \in Version /\ c.ver.ts \in Nat
  BY DEF Change, Version, Stamp
<1>2. Later(seen[n][c.row], c.ver.ts) \in Nat
  BY <1>1 DEF TypeOK, Later
<1> QED BY <1>1, <1>2 DEF TypeOK, Store

-----------------------------------------------------------------------------
(* Types.                                                                   *)

\* Moving one cursor leaves the cursors well typed.
LEMMA OneCursorType ==
  ASSUME NEW f \in [Node -> [Addr -> Nat]], NEW n \in Node, NEW a \in Addr, NEW v \in Nat
  PROVE  [f EXCEPT ![n][a] = v] \in [Node -> [Addr -> Nat]]
OBVIOUS

\* Initially everything has its type and nobody waits.
LEMMA TypesInit == Init => IInvTypes
BY HostAssumption DEF Init, IInvTypes, TypeOK, WaitingOK, NoVersion, NoRound, Round, None, Stamp

\* The end of a round leaves the types and the waiting clients in order, if
\* no client of that loop still waits.
LEMMA EndRoundTypes ==
  ASSUME IInvTypes, NEW n \in Node, EndRound(n),
         UNCHANGED <<now, db, cursor, seen, written>>,
         queue' \in [Node -> SUBSET Node],
         posts' \subseteq Post,
         \A g \in posts' : g.waiting => g \in posts /\ g.src # n
  PROVE  IInvTypes'
<1>1. TypeOK'
  BY HostAssumption DEF EndRound, Goto, IInvTypes, TypeOK, NoRound, Round
<1>2. \A g \in posts' : g.waiting => pc'[g.src] = pc[g.src] /\ round'[g.src] = round[g.src]
  BY DEF EndRound, Goto, IInvTypes, TypeOK, Post
<1> QED BY <1>1, <1>2 DEF IInvTypes, WaitingOK

\* Progress of a request leaves its client waiting as before.
LEMMA ProgressWaiting ==
  ASSUME WaitingOK, NEW h \in posts, NEW g, Progress(h, g), UNCHANGED <<pc, round>>,
         g.src = h.src, g.dst = h.dst, g.waiting = h.waiting
  PROVE  WaitingOK'
BY DEF WaitingOK, Progress

\* Every step keeps the types, and replies stay for loops that wait.
LEMMA TypesStep == IInvTypes /\ [Next]_vars => IInvTypes'
<1> SUFFICES ASSUME IInvTypes, [Next]_vars PROVE IInvTypes'
  OBVIOUS
<1> USE DEF IInvTypes
<1>1. CASE Tick
  BY <1>1 DEF Tick, TypeOK, WaitingOK, Stamp, None
<1>2. ASSUME NEW n \in Node, NEW r \in Row, LocalWrite(n, r) PROVE IInvTypes'
  <2> DEFINE c == [row |-> r, ver |-> [ts |-> Clock(n), by |-> n]]
  <2>1. c \in Change
    BY SkewAssumption DEF Clock, TypeOK, Change, Version, Stamp, None
  <2>2. Store(n, c) /\ written' = written \cup {c}
    BY <1>2 DEF LocalWrite
  <2>3. TypeOK'
    BY <1>2, <2>1, <2>2, StoreType DEF LocalWrite, TypeOK
  <2> QED BY <1>2, <2>3 DEF LocalWrite, WaitingOK
<1>3. ASSUME NEW n \in Node, PushStep(n) PROVE IInvTypes'
  <2>1. CASE BeginSweep(n)
    BY <2>1, PeersAssumption DEF BeginSweep, TypeOK, WaitingOK
  <2>2. ASSUME NEW p \in Peers[n], SkipPeer(n, p) PROVE IInvTypes'
    BY <2>2 DEF SkipPeer, TypeOK, WaitingOK
  <2>10. CASE SkipSelf(n)
    BY <2>10 DEF SkipSelf, TypeOK, WaitingOK
  <2>3. ASSUME NEW a \in Addr, StartRound(n, a) PROVE IInvTypes'
    <3>1. Clock(n) \in Nat /\ cursor[n][a] \in Nat
      BY SkewAssumption DEF Clock, TypeOK, Stamp
    <3>2. round'[n] \in Round
      <4>1. PICK since \in ReadCursor(n, a) :
              round'[n] = [NoRound EXCEPT !.peer = a, !.start = Clock(n), !.since = since]
        BY <2>3 DEF StartRound, TypeOK
      <4>2. since \in Nat
        BY <3>1 DEF ReadCursor, None
      <4>3. round'[n] = [peer |-> a, start |-> Clock(n), since |-> since, exported |-> None,
                         applied |-> None, todo |-> {}, held |-> {}]
        BY <4>1 DEF NoRound
      <4> QED BY <3>1, <4>2, <4>3 DEF Round, None
    <3>3. TypeOK'
      BY <2>3, <3>2 DEF StartRound, Goto, TypeOK
    <3>4. \A g \in posts : g.waiting => /\ round'[g.src] = round[g.src]
                                       /\ pc'[g.src] = pc[g.src]
      BY <2>3 DEF StartRound, Goto, TypeOK, WaitingOK, Post
    <3> QED BY <2>3, <3>3, <3>4 DEF StartRound, WaitingOK
  <2>4. CASE ExportNothing(n)
    <3>1. TypeOK'
      BY <2>4 DEF ExportNothing, Goto, TypeOK
    <3>2. \A g \in posts : g.waiting => pc'[g.src] = pc[g.src]
      BY <2>4 DEF ExportNothing, Goto, TypeOK, WaitingOK, Post
    <3> QED BY <2>4, <3>1, <3>2 DEF ExportNothing, WaitingOK
  <2>5. ASSUME NEW id \in PostId, ExportAndPost(n, id) PROVE IInvTypes'
    <3> DEFINE changes == ChangesSince(db[n], round[n].since)
               h == [id |-> id, src |-> n, dst |-> Host[round[n].peer], at |-> "sent",
                     todo |-> changes, held |-> {}, waiting |-> TRUE]
    <3>1. round[n] \in Round
      BY <2>5 DEF ExportAndPost, TypeOK
    <3>2. changes \subseteq Change
      BY <3>1, ExportedChanges DEF TypeOK, Round
    <3>3. h \in Post
      BY <3>1, <3>2, HostAssumption DEF Post, Round
    <3>4. PICK m \in {None} \cup {c.ver.ts : c \in changes} :
            round' = [round EXCEPT ![n].exported = m]
      BY <2>5 DEF ExportAndPost
    <3>5. m \in Nat
      BY <3>2 DEF Change, Version, Stamp, None
    <3>6. round' \in [Node -> Round \cup {NoRound}] /\ round'[n] \in Round
      <4>1. [round[n] EXCEPT !.exported = m] \in Round
        BY <3>1, <3>5 DEF Round
      <4> QED BY <3>4, <4>1 DEF TypeOK
    <3>7. posts' = posts \cup {h}
      BY <2>5 DEF ExportAndPost
    <3>8. TypeOK'
      BY <2>5, <3>3, <3>4, <3>6, <3>7 DEF ExportAndPost, Goto, TypeOK
    <3>9. \A g \in posts : g.waiting => g.src # n
      BY <2>5 DEF ExportAndPost, WaitingOK
    <3>10. \A g \in posts : g.waiting => round'[g.src] = round[g.src] /\ pc'[g.src] = pc[g.src]
      BY <2>5, <3>4, <3>9 DEF ExportAndPost, Goto, TypeOK, Post
    <3>11. h.src = n /\ h.dst = Host[round'[n].peer] /\ pc'[n] = "posted"
      BY <2>5, <3>1, <3>4 DEF ExportAndPost, Goto, TypeOK, Round
    <3>12. ASSUME NEW g \in posts', g.waiting
           PROVE  /\ pc'[g.src] = "posted" /\ Host[round'[g.src].peer] = g.dst
                  /\ \A f \in posts' : f.waiting /\ f.src = g.src => f = g
      <4>1. CASE g = h
        BY <3>7, <3>9, <3>11, <4>1
      <4>2. CASE g \in posts
        BY <3>7, <3>9, <3>10, <3>11, <3>12, <4>2 DEF WaitingOK
      <4> QED BY <3>7, <4>1, <4>2
    <3> QED BY <3>8, <3>12 DEF WaitingOK
  <2>6. CASE ExportFails(n)
    BY <2>6, EndRoundTypes DEF ExportFails, TypeOK, WaitingOK
  <2>7. ASSUME NEW h \in posts, RequestLost(n, h) PROVE IInvTypes'
    BY <2>7, EndRoundTypes DEF RequestLost, TypeOK, WaitingOK
  <2>8. ASSUME NEW h \in posts, SendTimesOut(n, h) PROVE IInvTypes'
    <3>1. [h EXCEPT !.waiting = FALSE] \in Post
      BY DEF TypeOK, Post
    <3>2. posts' \subseteq Post
      BY <2>8, <3>1 DEF SendTimesOut, TypeOK
    <3>3. \A g \in posts' : g.waiting => g \in posts \ {h}
      BY <2>8 DEF SendTimesOut, TypeOK, Post
    <3>4. \A g \in posts' : g.waiting => g \in posts /\ g.src # n
      BY <2>8, <3>3 DEF SendTimesOut, WaitingOK
    <3> QED BY <2>8, <3>2, <3>4, EndRoundTypes DEF SendTimesOut, TypeOK
  <2>9. CASE ConnectionLost(n)
    BY <2>9, EndRoundTypes DEF ConnectionLost, TypeOK, WaitingOK
  <2> QED BY <1>3, <2>1, <2>2, <2>3, <2>4, <2>5, <2>6, <2>7, <2>8, <2>9, <2>10 DEF PushStep
<1>4. ASSUME NEW h \in posts, ImportStep(h) PROVE IInvTypes'
  <2> h \in Post /\ h.todo \subseteq Change /\ h.held \subseteq Change /\ h.dst \in Node
    BY DEF TypeOK, Post
  <2>1. CASE Arrive(h)
    <3> DEFINE g == [h EXCEPT !.at = "applying"]
    <3>1. g \in Post /\ g.src = h.src /\ g.dst = h.dst /\ g.waiting = h.waiting
      BY DEF Post
    <3> HIDE DEF g
    <3> QED BY <2>1, <3>1, ProgressWaiting DEF Arrive, Progress, TypeOK, g
  <2>2. CASE ImportRefused(h)
    <3> DEFINE g == [h EXCEPT !.at = "applying", !.todo = {}]
    <3>1. g \in Post /\ g.src = h.src /\ g.dst = h.dst /\ g.waiting = h.waiting
      BY DEF Post
    <3> QED BY <2>2, <3>1, ProgressWaiting DEF ImportRefused, Progress, TypeOK
  <2>3. ASSUME NEW c \in h.todo, ImportSkip(h, c) PROVE IInvTypes'
    <3> DEFINE g == [h EXCEPT !.todo = @ \ {c}]
    <3>1. g \in Post /\ g.src = h.src /\ g.dst = h.dst /\ g.waiting = h.waiting
      BY DEF Post
    <3> QED BY <2>3, <3>1, ProgressWaiting DEF ImportSkip, SkipChange, Progress, TypeOK
  <2>4. ASSUME NEW c \in h.todo, ImportAdopt(h, c) PROVE IInvTypes'
    <3> DEFINE g == [h EXCEPT !.todo = @ \ {c}]
    <3>1. g \in Post /\ g.src = h.src /\ g.dst = h.dst /\ g.waiting = h.waiting
      BY DEF Post
    <3>2. /\ db' \in [Node -> [Row -> Version \cup {NoVersion}]]
          /\ seen' \in [Node -> [Row -> Nat]]
      BY <2>4, StoreType DEF ImportAdopt, AdoptChange
    <3> QED BY <2>4, <3>1, <3>2, ProgressWaiting DEF ImportAdopt, Progress, TypeOK
  <2>5. ASSUME NEW c \in h.todo, ImportDecide(h, c) PROVE IInvTypes'
    <3> DEFINE g == [h EXCEPT !.todo = @ \ {c}, !.held = {c}]
    <3>1. g \in Post /\ g.src = h.src /\ g.dst = h.dst /\ g.waiting = h.waiting
      BY DEF Post
    <3> QED BY <2>5, <3>1, ProgressWaiting DEF ImportDecide, DecideChange, Progress, TypeOK
  <2>6. ASSUME NEW c \in h.held, ImportInsert(h, c) PROVE IInvTypes'
    <3> DEFINE g == [h EXCEPT !.held = {}]
    <3>1. g \in Post /\ g.src = h.src /\ g.dst = h.dst /\ g.waiting = h.waiting
      BY DEF Post
    <3>2. /\ db' \in [Node -> [Row -> Version \cup {NoVersion}]]
          /\ seen' \in [Node -> [Row -> Nat]]
      BY <2>6, StoreType DEF ImportInsert
    <3> QED BY <2>6, <3>1, <3>2, ProgressWaiting DEF ImportInsert, Progress, TypeOK
  <2>7. CASE ImportReply(h)
    <3>1. \A g \in posts' : g.waiting => pc'[g.src] = pc[g.src]
      BY <2>7 DEF ImportReply, TypeOK, WaitingOK, Post
    <3>2. WaitingOK'
      BY <2>7, <3>1 DEF ImportReply, WaitingOK
    <3>3. h.waiting => pc[h.src] # "idle"
      BY DEF WaitingOK
    <3>4. /\ pc' \in [Node -> {"idle", "export", "posted", "fetch", "apply"}]
          /\ \A n \in Node : pc'[n] # "idle" <=> pc[n] # "idle"
      BY <2>7, <3>3 DEF ImportReply, TypeOK, Post
    <3> QED BY <2>7, <3>2, <3>4 DEF ImportReply, TypeOK
  <2> QED BY <1>4, <2>1, <2>2, <2>3, <2>4, <2>5, <2>6, <2>7 DEF ImportStep
<1>5. ASSUME NEW n \in Node, PullStep(n) PROVE IInvTypes'
  <2>0. pc[n] # "idle" => round[n] \in Round
    BY DEF TypeOK
  <2>1. CASE Fetch(n)
    <3>1. pc[n] = "fetch" /\ round[n] \in Round
      BY <2>0, <2>1 DEF Fetch
    <3>2. ChangesSince(db[Host[round[n].peer]], round[n].since) \subseteq Change
      <4>1. Host[round[n].peer] \in Node /\ round[n].since \in Nat
        BY <3>1, HostAssumption DEF Round
      <4> QED BY <4>1, ExportedChanges DEF TypeOK
    <3>3. round' \in [Node -> Round \cup {NoRound}] /\ round'[n] \in Round
      BY <2>1, <3>1, <3>2 DEF Fetch, TypeOK, Round
    <3>4. TypeOK'
      BY <2>1, <3>1, <3>3 DEF Fetch, Goto, TypeOK
    <3>5. \A g \in posts : g.waiting => /\ round'[g.src] = round[g.src]
                                       /\ pc'[g.src] = pc[g.src]
      BY <2>1 DEF Fetch, Goto, TypeOK, WaitingOK, Post
    <3> QED BY <2>1, <3>4, <3>5 DEF Fetch, WaitingOK
  <2>2. CASE FetchFails(n)
    BY <2>2, EndRoundTypes DEF FetchFails, TypeOK, WaitingOK
  <2>3. ASSUME NEW c \in round[n].todo, PullSkip(n, c) PROVE IInvTypes'
    <3>1. pc[n] = "apply" /\ round[n] \in Round
      BY <2>0, <2>3 DEF PullSkip, Pulling
    <3>2. round' \in [Node -> Round \cup {NoRound}] /\ round'[n] \in Round
      <4> DEFINE after == [round[n] EXCEPT !.todo = @ \ {c}]
      <4>1. after \in Round
        BY <3>1 DEF Round
      <4>2. round' = [round EXCEPT ![n] = after]
        BY <2>3 DEF PullSkip
      <4> QED BY <4>1, <4>2 DEF TypeOK
    <3>3. TypeOK'
      BY <2>3, <3>1, <3>2 DEF PullSkip, SkipChange, TypeOK
    <3>4. \A g \in posts : g.waiting => round'[g.src] = round[g.src]
      BY <2>3, <3>1 DEF PullSkip, TypeOK, WaitingOK, Post
    <3> QED BY <2>3, <3>3, <3>4 DEF PullSkip, WaitingOK
  <2>4. ASSUME NEW c \in round[n].todo, PullAdopt(n, c) PROVE IInvTypes'
    <3>1. pc[n] = "apply" /\ round[n] \in Round /\ c \in Change /\ c.ver.ts \in Nat
      BY <2>0, <2>4 DEF PullAdopt, Pulling, Round, Change, Version, Stamp
    <3>2. Later(round[n].applied, c.ver.ts) \in Nat
      BY <3>1 DEF Later, Round
    <3>3. round' \in [Node -> Round \cup {NoRound}] /\ round'[n] \in Round
      <4> DEFINE after == [round[n] EXCEPT !.todo = @ \ {c}, !.applied = Later(@, c.ver.ts)]
      <4>1. after \in Round
        BY <3>1, <3>2 DEF Round
      <4>2. round' = [round EXCEPT ![n] = after]
        BY <2>4 DEF PullAdopt
      <4> QED BY <4>1, <4>2 DEF TypeOK
    <3>4. /\ db' \in [Node -> [Row -> Version \cup {NoVersion}]]
          /\ seen' \in [Node -> [Row -> Nat]]
      BY <2>4, <3>1, StoreType DEF PullAdopt, AdoptChange
    <3>5. TypeOK'
      BY <2>4, <3>1, <3>3, <3>4 DEF PullAdopt, TypeOK
    <3>6. \A g \in posts : g.waiting => round'[g.src] = round[g.src]
      BY <2>4, <3>1 DEF PullAdopt, TypeOK, WaitingOK, Post
    <3> QED BY <2>4, <3>5, <3>6 DEF PullAdopt, WaitingOK
  <2>5. ASSUME NEW c \in round[n].todo, PullDecide(n, c) PROVE IInvTypes'
    <3>1. pc[n] = "apply" /\ round[n] \in Round /\ c \in Change
      BY <2>0, <2>5 DEF PullDecide, Pulling, Round
    <3>2. round' \in [Node -> Round \cup {NoRound}] /\ round'[n] \in Round
      <4>1. [round[n] EXCEPT !.todo = @ \ {c}, !.held = {c}] \in Round
        BY <3>1 DEF Round
      <4>2. round' = [round EXCEPT ![n] = [round[n] EXCEPT !.todo = @ \ {c}, !.held = {c}]]
        BY <2>5, <3>1 DEF PullDecide, TypeOK, Round
      <4> QED BY <4>1, <4>2 DEF TypeOK
    <3>3. TypeOK'
      BY <2>5, <3>1, <3>2 DEF PullDecide, DecideChange, TypeOK
    <3>4. \A g \in posts : g.waiting => round'[g.src] = round[g.src]
      BY <2>5, <3>1 DEF PullDecide, TypeOK, WaitingOK, Post
    <3> QED BY <2>5, <3>3, <3>4 DEF PullDecide, WaitingOK
  <2>6. ASSUME NEW c \in round[n].held, PullInsert(n, c) PROVE IInvTypes'
    <3>1. pc[n] = "apply" /\ round[n] \in Round /\ c \in Change /\ c.ver.ts \in Nat
      BY <2>0, <2>6 DEF PullInsert, Round, Change, Version, Stamp
    <3>2. Later(round[n].applied, c.ver.ts) \in Nat
      BY <3>1 DEF Later, Round
    <3>3. round' \in [Node -> Round \cup {NoRound}] /\ round'[n] \in Round
      <4> DEFINE after == [round[n] EXCEPT !.held = {}, !.applied = Later(@, c.ver.ts)]
      <4>1. after \in Round
        BY <3>1, <3>2 DEF Round
      <4>2. round' = [round EXCEPT ![n] = after]
        BY <2>6 DEF PullInsert
      <4> QED BY <4>1, <4>2 DEF TypeOK
    <3>4. /\ db' \in [Node -> [Row -> Version \cup {NoVersion}]]
          /\ seen' \in [Node -> [Row -> Nat]]
      BY <2>6, <3>1, StoreType DEF PullInsert
    <3>5. TypeOK'
      BY <2>6, <3>1, <3>3, <3>4 DEF PullInsert, TypeOK
    <3>6. \A g \in posts : g.waiting => round'[g.src] = round[g.src]
      BY <2>6, <3>1 DEF PullInsert, TypeOK, WaitingOK, Post
    <3> QED BY <2>6, <3>5, <3>6 DEF PullInsert, WaitingOK
  <2>7. CASE FinishRound(n)
    <3>1. pc[n] = "apply" /\ round[n] \in Round
      BY <2>0, <2>7 DEF FinishRound, Applied
    <3>2. NextCursor(n) \in Nat
      BY <3>1, NextCursorType DEF NextCursor, Round
    <3>3. cursor' \in [Node -> [Addr -> Nat]]
      <4>1. round[n].peer \in Addr
        BY <3>1 DEF Round
      <4>2. cursor' = [cursor EXCEPT ![n][round[n].peer] = NextCursor(n)]
        BY <2>7 DEF FinishRound
      <4>3. cursor \in [Node -> [Addr -> Nat]]
        BY DEF TypeOK
      <4> QED BY <3>2, <4>1, <4>2, <4>3, OneCursorType
    <3>4. TypeOK'
      <4>1. UNCHANGED <<now, db, queue, posts, seen, written>>
        BY <2>7 DEF FinishRound
      <4>2. /\ round' = [round EXCEPT ![n] = NoRound]
            /\ pc' = [pc EXCEPT ![n] = "idle"]
        BY <2>7 DEF FinishRound, EndRound, Goto
      <4>3. NoRound \notin Round
        BY HostAssumption DEF NoRound, Round
      <4>4. /\ round' \in [Node -> Round \cup {NoRound}]
            /\ pc' \in [Node -> {"idle", "export", "posted", "fetch", "apply"}]
            /\ \A m \in Node : round'[m] \in Round <=> pc'[m] # "idle"
        BY <4>2, <4>3 DEF TypeOK
      <4> QED BY <3>3, <4>1, <4>4 DEF TypeOK
    <3>5. \A g \in posts : g.waiting => /\ round'[g.src] = round[g.src]
                                       /\ pc'[g.src] = pc[g.src]
      BY <2>7, <3>1 DEF FinishRound, EndRound, Goto, TypeOK, WaitingOK, Post
    <3> QED BY <2>7, <3>4, <3>5 DEF FinishRound, WaitingOK
  <2>8. CASE FinishUnsaved(n)
    BY <2>8, EndRoundTypes DEF FinishUnsaved, Applied, TypeOK, WaitingOK
  <2> QED BY <1>5, <2>1, <2>2, <2>3, <2>4, <2>5, <2>6, <2>7, <2>8 DEF PullStep
<1>6. ASSUME NEW n \in Node, Crash(n) PROVE IInvTypes'
  <2>1. \A h \in posts : [h EXCEPT !.waiting = FALSE] \in Post
    BY DEF TypeOK, Post
  <2>2. posts' \subseteq Post
    BY <1>6, <2>1 DEF Crash, TypeOK
  <2>3. \A g \in posts' : g.waiting => g \in posts /\ g.src # n
    BY <1>6 DEF Crash, TypeOK, Post
  <2> QED BY <1>6, <2>2, <2>3, EndRoundTypes DEF Crash, TypeOK
<1>7. CASE UNCHANGED vars
  BY <1>7 DEF vars, TypeOK, WaitingOK
<1> QED BY <1>1, <1>2, <1>3, <1>4, <1>5, <1>6, <1>7 DEF Next

\* Every state has its types: only changes with a real version travel, a round
\* has its local variables exactly while it is open, and a reply that a client
\* waits for finds that client in the middle of its POST.
THEOREM TypesTheorem == Spec => []IInvTypes
BY TypesInit, TypesStep, PTL DEF Spec

\* Every reachable state is well formed, and a round exists exactly while the
\* loop is in one (the local variables of sync_table_with_peer).
THEOREM TypeCorrect == Spec => []TypeOK
<1>1. IInvTypes => TypeOK
  BY DEF IInvTypes
<1> QED BY <1>1, TypesTheorem, PTL

-----------------------------------------------------------------------------
(* Cursors and clocks.                                                      *)

\* The next cursor is past neither the previous one nor the round's start.
LEMMA NextCursorBound ==
  ASSUME NEW prev \in Nat, NEW exported \in Nat, NEW applied \in Nat, NEW start \in Nat,
         NEW bound \in Nat, prev <= bound, start <= bound
  PROVE  ComputeNewCursor(prev, exported, applied, start) <= bound
BY DEF ComputeNewCursor, Later, Earlier

\* What a step keeps of the rounds that stay open.
LEMMA RoundFrame ==
  ASSUME IInvCursor, UNCHANGED <<now, cursor>>,
         \A n \in Node : pc'[n] # "idle" => /\ pc[n] # "idle"
                                           /\ round'[n].start = round[n].start
                                           /\ round'[n].since = round[n].since
                                           /\ round'[n].peer = round[n].peer
  PROVE  IInvCursor'
BY DEF IInvCursor, RoundOK, ReadCursor, CursorNotAhead, Clock

\* Initially there are no cursors and no rounds.
LEMMA CursorInit == Init => IInvCursor
BY SkewAssumption DEF Init, IInvCursor, RoundOK, ReadCursor, CursorNotAhead, Clock, None

\* Every step keeps cursors and round starts behind the node's clock.
LEMMA CursorStep == IInvTypes /\ IInvCursor /\ [Next]_vars => IInvCursor'
<1> SUFFICES ASSUME IInvTypes, IInvCursor, [Next]_vars PROVE IInvCursor'
  OBVIOUS
<1> USE DEF IInvTypes
<1>0. \A n \in Node : round[n] \in Round <=> pc[n] # "idle"
  BY DEF TypeOK
<1>1. CASE Tick
  BY <1>1, <1>0, SkewAssumption
     DEF Tick, IInvCursor, RoundOK, ReadCursor, CursorNotAhead, Clock, TypeOK, Stamp, Round
<1>2. ASSUME NEW n \in Node, NEW r \in Row, LocalWrite(n, r) PROVE IInvCursor'
  BY <1>2, RoundFrame DEF LocalWrite
<1>3. ASSUME NEW n \in Node, PushStep(n) PROVE IInvCursor'
  <2>1. CASE BeginSweep(n)
    BY <2>1, RoundFrame DEF BeginSweep
  <2>2. ASSUME NEW p \in Peers[n], SkipPeer(n, p) PROVE IInvCursor'
    BY <2>2, RoundFrame DEF SkipPeer
  <2>10. CASE SkipSelf(n)
    BY <2>10, RoundFrame DEF SkipSelf
  <2>3. ASSUME NEW a \in Addr, StartRound(n, a) PROVE IInvCursor'
    <3>1. round'[n].start = Clock(n) /\ round'[n].peer = a /\ round'[n].since \in ReadCursor(n, a)
      BY <2>3 DEF StartRound, TypeOK, NoRound
    <3>2. \A m \in Node \ {n} : round'[m] = round[m] /\ pc'[m] = pc[m]
      BY <2>3 DEF StartRound, Goto, TypeOK
    <3>3. Clock(n) \in Nat
      BY SkewAssumption DEF Clock, TypeOK, Stamp
    <3> QED BY <2>3, <3>1, <3>2, <3>3 DEF StartRound, IInvCursor, RoundOK, ReadCursor, CursorNotAhead, Clock
  <2>4. CASE ExportNothing(n)
    BY <2>4, RoundFrame DEF ExportNothing, Goto, TypeOK
  <2>5. ASSUME NEW id \in PostId, ExportAndPost(n, id) PROVE IInvCursor'
    BY <2>5, <1>0, RoundFrame DEF ExportAndPost, Goto, TypeOK, Round
  <2>6. CASE ExportFails(n)
    BY <2>6, RoundFrame DEF ExportFails, EndRound, Goto, TypeOK
  <2>7. ASSUME NEW h \in posts, RequestLost(n, h) PROVE IInvCursor'
    BY <2>7, RoundFrame DEF RequestLost, EndRound, Goto, TypeOK
  <2>8. ASSUME NEW h \in posts, SendTimesOut(n, h) PROVE IInvCursor'
    BY <2>8, RoundFrame DEF SendTimesOut, EndRound, Goto, TypeOK
  <2>9. CASE ConnectionLost(n)
    BY <2>9, RoundFrame DEF ConnectionLost, EndRound, Goto, TypeOK
  <2> QED BY <1>3, <2>1, <2>2, <2>3, <2>4, <2>5, <2>6, <2>7, <2>8, <2>9, <2>10 DEF PushStep
<1>4. ASSUME NEW h \in posts, ImportStep(h) PROVE IInvCursor'
  <2>1. CASE ImportReply(h)
    <3>1. h.waiting => pc[h.src] = "posted"
      BY DEF WaitingOK
    <3>2. \A n \in Node : pc'[n] # "idle" => pc[n] # "idle"
      BY <2>1, <3>1 DEF ImportReply, TypeOK
    <3> QED BY <2>1, <3>2, RoundFrame DEF ImportReply
  <2>2. CASE ~ImportReply(h)
    <3>1. UNCHANGED <<now, cursor, pc, round>>
      BY <1>4, <2>2 DEF ImportStep, Arrive, ImportRefused, ImportSkip, ImportAdopt,
                        ImportDecide, ImportInsert
    <3> QED BY <3>1, RoundFrame
  <2> QED BY <2>1, <2>2
<1>5. ASSUME NEW n \in Node, PullStep(n) PROVE IInvCursor'
  <2>1. CASE Fetch(n)
    BY <2>1, <1>0, RoundFrame DEF Fetch, Goto, TypeOK, Round
  <2>2. CASE FetchFails(n)
    BY <2>2, RoundFrame DEF FetchFails, EndRound, Goto, TypeOK
  <2>3. ASSUME NEW c \in round[n].todo, PullSkip(n, c) PROVE IInvCursor'
    BY <2>3, <1>0, RoundFrame DEF PullSkip, Pulling, TypeOK, Round
  <2>4. ASSUME NEW c \in round[n].todo, PullAdopt(n, c) PROVE IInvCursor'
    BY <2>4, <1>0, RoundFrame DEF PullAdopt, Pulling, TypeOK, Round
  <2>5. ASSUME NEW c \in round[n].todo, PullDecide(n, c) PROVE IInvCursor'
    BY <2>5, <1>0, RoundFrame DEF PullDecide, Pulling, TypeOK, Round
  <2>6. ASSUME NEW c \in round[n].held, PullInsert(n, c) PROVE IInvCursor'
    BY <2>6, <1>0, RoundFrame DEF PullInsert, TypeOK, Round
  <2>7. CASE FinishRound(n)
    <3> DEFINE p == round[n].peer
    <3>1. round[n] \in Round /\ p \in Addr /\ Clock(n) \in Nat
      <4>1. round[n] \in Round
        BY <1>0, <2>7 DEF FinishRound, Applied
      <4>2. Clock(n) \in Nat
        BY SkewAssumption DEF Clock, TypeOK, Stamp
      <4> QED BY <4>1, <4>2 DEF Round
    <3>2. NextCursor(n) <= Clock(n)
      <4>1. round[n].start <= Clock(n) /\ round[n].since <= Clock(n)
        BY <2>7, <3>1 DEF FinishRound, Applied, IInvCursor, RoundOK, ReadCursor, None, CursorNotAhead
      <4> QED BY <3>1, <4>1, NextCursorBound DEF NextCursor, Round
    <3>3. CursorNotAhead'
      BY <2>7, <3>1, <3>2 DEF FinishRound, IInvCursor, CursorNotAhead, Clock, TypeOK
    <3>4. /\ pc'[n] = "idle"
          /\ \A m \in Node \ {n} : /\ pc'[m] = pc[m] /\ round'[m] = round[m]
                                  /\ cursor'[m] = cursor[m]
      BY <2>7 DEF FinishRound, EndRound, Goto, TypeOK
    <3>5. RoundOK'
      BY <2>7, <3>4 DEF FinishRound, IInvCursor, RoundOK, ReadCursor, Clock
    <3> QED BY <3>3, <3>5 DEF IInvCursor
  <2>8. CASE FinishUnsaved(n)
    BY <2>8, RoundFrame DEF FinishUnsaved, EndRound, Goto, TypeOK
  <2> QED BY <1>5, <2>1, <2>2, <2>3, <2>4, <2>5, <2>6, <2>7, <2>8 DEF PullStep
<1>6. ASSUME NEW n \in Node, Crash(n) PROVE IInvCursor'
  BY <1>6, RoundFrame DEF Crash, EndRound, Goto, TypeOK
<1>7. CASE UNCHANGED vars
  BY <1>7, RoundFrame DEF vars
<1> QED BY <1>1, <1>2, <1>3, <1>4, <1>5, <1>6, <1>7 DEF Next

\* Whatever goes wrong, and however fast a peer's clock is, no cursor is ahead
\* of the clock of the node that keeps it.
THEOREM CursorNotAheadTheorem == Spec => [](CursorNotAhead /\ RoundOK)
<1>1. IInvCursor => CursorNotAhead /\ RoundOK
  BY DEF IInvCursor
<1> QED BY <1>1, TypesTheorem, CursorInit, CursorStep, PTL DEF Spec

-----------------------------------------------------------------------------
(* Last writer wins.  No other writer gets between a check and its insert,  *)
(* and no check fails.                                                      *)

Checked == Hazards \cap {"interleave", "unchecked"} = {}

\* Where checks are in force, adopting a change takes a newer one, and none
\* waits between its check and its insert.
LEMMA CheckedAdopts ==
  ASSUME Checked
  PROVE  \A n, c : /\ AdoptChange(n, c) <=> Newer(c, db[n]) /\ Store(n, c)
                  /\ ~DecideChange(n, c)
BY DEF Checked, AdoptChange, DecideChange, Passes

\* What is exported of rows with a known author was written.
LEMMA ExportedWritten ==
  ASSUME IInvTypes, Provenance, NEW n \in Node, NEW since \in Nat
  PROVE  ChangesSince(db[n], since) \subseteq written
<1>1. \A r \in Row : db[n][r].ts > since => db[n][r].ts # None
  BY DEF IInvTypes, TypeOK, Version, NoVersion, Stamp, None
<1> QED BY <1>1 DEF ChangesSince, Provenance

\* Nothing is held, and all that is under way after a step was written.
UnderWayWritten ==
  /\ \A n \in Node : round'[n].todo \subseteq written /\ round'[n].held = {}
  /\ \A h \in posts' : h.todo \subseteq written /\ h.held = {}

\* A step that touches no table and sends only known changes keeps the layer.
LEMMA LwwFrame ==
  ASSUME IInvLww, UNCHANGED <<now, db, written>>, UnderWayWritten
  PROVE  IInvLww' /\ UNCHANGED <<db, written>>
BY DEF IInvLww, Provenance, StampsInPast, NothingHeld, OwnWritesKept, UnderWayWritten, Clock

\* Adopting a strictly newer change is a step of the abstract specification.
LEMMA LwwAdopt ==
  ASSUME Checked, IInvTypes, IInvLww,
         NEW n \in Node, NEW c \in written, AdoptChange(n, c),
         UNCHANGED <<now, written>>, UnderWayWritten
  PROVE  IInvLww' /\ Lww!Adopt(n, c)
<1>1. /\ c \in Change /\ c.row \in Row /\ c.ver \in Version /\ c.ver.ts \in Nat
      /\ c = [row |-> c.row, ver |-> c.ver]
  BY DEF IInvTypes, TypeOK, Change, Version, Stamp
<1>2. /\ c.ver.ts > db[n][c.row].ts
      /\ db' = [db EXCEPT ![n][c.row] = c.ver]
  BY CheckedAdopts DEF Store, Newer
<1>3. \A m \in Node, r \in Row :
        db'[m][r] = IF m = n /\ r = c.row THEN c.ver ELSE db[m][r]
  BY <1>1, <1>2 DEF IInvTypes, TypeOK
<1>4. Lww!Adopt(n, c)
  BY <1>2 DEF Lww!Adopt, Lww!Put
<1>5. Provenance'
  BY <1>1, <1>3 DEF IInvLww, Provenance, UnderWayWritten
<1>6. \A w \in written : /\ w.row \in Row /\ w.ver.by \in Node /\ w.ver.ts \in Nat
                        /\ db[w.ver.by][w.row].ts \in Nat
  BY DEF IInvTypes, TypeOK, Change, Version, NoVersion, Stamp, None
<1>7. OwnWritesKept'
  BY <1>1, <1>2, <1>3, <1>6 DEF IInvLww, OwnWritesKept
<1> QED BY <1>4, <1>5, <1>7 DEF IInvLww, StampsInPast, NothingHeld, UnderWayWritten, Clock

\* The initial states are initial states of the abstract specification.
LEMMA LwwInit == Init => IInvLww /\ Lww!Init
BY DEF Init, IInvLww, Provenance, StampsInPast, NothingHeld, OwnWritesKept, NoVersion,
       NoRound, None, Lww!Init, Lww!NoVersion, Lww!None

\* Every step is one of the abstract specification, or none at all there.
LEMMA LwwStep ==
  ASSUME Checked
  PROVE  IInvTypes /\ IInvLww /\ [Next]_vars => IInvLww' /\ [Lww!Next]_Lww!lwwVars
<1> SUFFICES ASSUME IInvTypes, IInvLww, [Next]_vars
             PROVE  IInvLww' /\ [Lww!Next]_Lww!lwwVars
  OBVIOUS
<1> DEFINE Goal == IInvLww' /\ [Lww!Next]_Lww!lwwVars
<1>0. /\ \A n \in Node : round[n].todo \subseteq written /\ round[n].held = {}
      /\ \A h \in posts : h.todo \subseteq written /\ h.held = {}
  BY DEF IInvLww, Provenance, NothingHeld
<1>a. ASSUME UNCHANGED <<now, db, written>>, UnderWayWritten PROVE Goal
  BY <1>a, LwwFrame DEF Lww!lwwVars
<1>b. ASSUME NEW n \in Node, NEW c \in written, AdoptChange(n, c),
             UNCHANGED <<now, written>>, UnderWayWritten
      PROVE  Goal
  BY <1>b, LwwAdopt DEF Lww!Next
<1>c. ASSUME NEW n \in Node, EndRound(n), UNCHANGED <<now, db, written>>,
             \A g \in posts' : g.todo \subseteq written /\ g.held = {}
      PROVE  Goal
  <2>1. UnderWayWritten
    BY <1>0, <1>c DEF UnderWayWritten, EndRound, IInvTypes, TypeOK, NoRound
  <2> QED BY <1>a, <1>c, <2>1
<1>d. ASSUME NEW n \in Node, round[n] \in Round
      PROVE  /\ round[n].since \in Nat /\ round[n].peer \in Addr
  BY <1>d DEF Round
<1>1. CASE Tick
  <2>1. /\ IInvLww'
        /\ UNCHANGED <<db, written>>
    BY <1>1, SkewAssumption DEF Tick, IInvLww, Provenance, StampsInPast, NothingHeld,
       OwnWritesKept, Clock, IInvTypes, TypeOK, Change, Version, Stamp
  <2> QED BY <2>1 DEF Lww!lwwVars
<1>2. ASSUME NEW n \in Node, NEW r \in Row, LocalWrite(n, r) PROVE Goal
  <2> DEFINE c == [row |-> r, ver |-> [ts |-> Clock(n), by |-> n]]
  <2>1. Clock(n) \in Stamp /\ c \in Change
    BY SkewAssumption DEF Clock, IInvTypes, TypeOK, Stamp, None, Change, Version
  <2>2. db' = [db EXCEPT ![n][r] = c.ver] /\ written' = written \cup {c}
    BY <1>2 DEF LocalWrite, Store
  <2>3. \A m \in Node, q \in Row :
          db'[m][q] = IF m = n /\ q = r THEN c.ver ELSE db[m][q]
    BY <2>2 DEF IInvTypes, TypeOK
  <2>4. \A w \in written : w.ver.by = n => w.ver.ts <= Clock(n)
    BY DEF IInvLww, StampsInPast
  <2>5. Lww!Write(n, r)
    <3>1. db'[n][r] = c.ver /\ c = [row |-> r, ver |-> c.ver] /\ c.row = r
      BY <2>3
    <3>2. c.ver \in [ts : Lww!Stamp, by : {n}] /\ c.ver.ts = Clock(n)
      BY <2>1 DEF Lww!Stamp, Lww!None, Stamp, None
    <3> HIDE DEF c
    <3> QED BY <2>2, <2>4, <3>1, <3>2 DEF Lww!Write, Lww!Put
  <2>6. Provenance'
    BY <1>2, <1>0, <2>2, <2>3 DEF LocalWrite, IInvLww, Provenance
  <2>7. StampsInPast'
    BY <1>2, <2>1, <2>2 DEF LocalWrite, IInvLww, StampsInPast, Clock, Stamp
  <2>8. NothingHeld'
    BY <1>2 DEF LocalWrite, IInvLww, NothingHeld
  <2>9. \A w \in written : w.row \in Row /\ w.ver.by \in Node
    BY DEF IInvTypes, TypeOK, Change, Version
  <2>10. OwnWritesKept'
    BY <2>1, <2>2, <2>3, <2>4, <2>9 DEF IInvLww, OwnWritesKept, Stamp
  <2> QED BY <2>5, <2>6, <2>7, <2>8, <2>10 DEF IInvLww, Lww!Next
<1>3. ASSUME NEW n \in Node, PushStep(n) PROVE Goal
  <2>1. CASE BeginSweep(n)
    BY <1>0, <1>a, <2>1 DEF BeginSweep, UnderWayWritten
  <2>2. ASSUME NEW p \in Peers[n], SkipPeer(n, p) PROVE Goal
    BY <1>0, <1>a, <2>2 DEF SkipPeer, UnderWayWritten
  <2>10. CASE SkipSelf(n)
    BY <1>0, <1>a, <2>10 DEF SkipSelf, UnderWayWritten
  <2>3. ASSUME NEW a \in Addr, StartRound(n, a) PROVE Goal
    <3>1. UnderWayWritten
      BY <1>0, <2>3 DEF StartRound, UnderWayWritten, IInvTypes, TypeOK, NoRound
    <3> QED BY <1>a, <2>3, <3>1 DEF StartRound
  <2>4. CASE ExportNothing(n)
    BY <1>0, <1>a, <2>4 DEF ExportNothing, UnderWayWritten
  <2>5. ASSUME NEW id \in PostId, ExportAndPost(n, id) PROVE Goal
    <3>1. round[n] \in Round
      BY <2>5 DEF ExportAndPost, IInvTypes, TypeOK
    <3>2. ChangesSince(db[n], round[n].since) \subseteq written
      BY <1>d, <3>1, ExportedWritten DEF IInvLww
    <3>3. \A h \in posts' : h.todo \subseteq written /\ h.held = {}
      BY <1>0, <2>5, <3>2 DEF ExportAndPost
    <3>4. \A m \in Node : round'[m].todo = round[m].todo /\ round'[m].held = round[m].held
      BY <2>5, <3>1 DEF ExportAndPost, IInvTypes, TypeOK, Round
    <3>5. UnderWayWritten
      BY <1>0, <3>3, <3>4 DEF UnderWayWritten
    <3> QED BY <1>a, <2>5, <3>5 DEF ExportAndPost
  <2>6. CASE ExportFails(n)
    BY <1>0, <1>c, <2>6 DEF ExportFails
  <2>7. ASSUME NEW h \in posts, RequestLost(n, h) PROVE Goal
    BY <1>0, <1>c, <2>7 DEF RequestLost
  <2>8. ASSUME NEW h \in posts, SendTimesOut(n, h) PROVE Goal
    <3>1. \A g \in posts' : g.todo \subseteq written /\ g.held = {}
      BY <1>0, <2>8 DEF SendTimesOut, IInvTypes, TypeOK, Post
    <3> QED BY <1>c, <2>8, <3>1 DEF SendTimesOut
  <2>9. CASE ConnectionLost(n)
    BY <1>0, <1>c, <2>9 DEF ConnectionLost
  <2> QED BY <1>3, <2>1, <2>2, <2>3, <2>4, <2>5, <2>6, <2>7, <2>8, <2>9, <2>10 DEF PushStep
<1>4. ASSUME NEW h \in posts, ImportStep(h) PROVE Goal
  <2>0. h \in Post /\ h.dst \in Node
    BY DEF IInvTypes, TypeOK, Post
  <2>1. CASE Arrive(h)
    <3>1. UnderWayWritten
      BY <1>0, <2>0, <2>1 DEF Arrive, Progress, UnderWayWritten, Post
    <3> QED BY <1>a, <2>1, <3>1 DEF Arrive
  <2>2. CASE ImportRefused(h)
    <3>1. UnderWayWritten
      BY <1>0, <2>0, <2>2 DEF ImportRefused, Progress, UnderWayWritten, Post
    <3> QED BY <1>a, <2>2, <3>1 DEF ImportRefused
  <2>3. ASSUME NEW c \in h.todo, ImportSkip(h, c) PROVE Goal
    <3>1. UnderWayWritten
      BY <1>0, <2>0, <2>3 DEF ImportSkip, Progress, UnderWayWritten, Post
    <3> QED BY <1>a, <2>3, <3>1 DEF ImportSkip, SkipChange
  <2>4. ASSUME NEW c \in h.todo, ImportAdopt(h, c) PROVE Goal
    <3>1. UnderWayWritten
      BY <1>0, <2>0, <2>4 DEF ImportAdopt, Progress, UnderWayWritten, Post
    <3> QED BY <1>0, <1>b, <2>0, <2>4, <3>1 DEF ImportAdopt
  <2>5. ASSUME NEW c \in h.todo, ImportDecide(h, c) PROVE Goal
    BY <2>5, CheckedAdopts DEF ImportDecide
  <2>6. ASSUME NEW c \in h.held, ImportInsert(h, c) PROVE Goal
    BY <1>0
  <2>7. CASE ImportReply(h)
    <3>1. UnderWayWritten
      BY <1>0, <2>7 DEF ImportReply, UnderWayWritten
    <3> QED BY <1>a, <2>7, <3>1 DEF ImportReply
  <2> QED BY <1>4, <2>1, <2>2, <2>3, <2>4, <2>5, <2>6, <2>7 DEF ImportStep
<1>5. ASSUME NEW n \in Node, PullStep(n) PROVE Goal
  <2>1. CASE Fetch(n)
    <3>1. round[n] \in Round
      BY <2>1 DEF Fetch, IInvTypes, TypeOK
    <3>2. ChangesSince(db[Host[round[n].peer]], round[n].since) \subseteq written
      <4>1. Host[round[n].peer] \in Node
        BY <1>d, <3>1, HostAssumption
      <4> QED BY <1>d, <3>1, <4>1, ExportedWritten DEF IInvLww
    <3>3. \A m \in Node : round'[m].todo \subseteq written /\ round'[m].held = {}
      BY <1>0, <2>1, <3>1, <3>2 DEF Fetch, IInvTypes, TypeOK, Round
    <3>4. UnderWayWritten
      BY <1>0, <2>1, <3>3 DEF Fetch, UnderWayWritten
    <3> QED BY <1>a, <2>1, <3>4 DEF Fetch
  <2>2. CASE FetchFails(n)
    BY <1>0, <1>c, <2>2 DEF FetchFails
  <2>3. ASSUME NEW c \in round[n].todo, PullSkip(n, c) PROVE Goal
    <3>1. round[n] \in Round
      BY <2>3 DEF PullSkip, Pulling, IInvTypes, TypeOK
    <3>2. \A m \in Node : round'[m].todo \subseteq written /\ round'[m].held = {}
      BY <1>0, <2>3, <3>1 DEF PullSkip, IInvTypes, TypeOK, Round
    <3> QED BY <1>0, <1>a, <2>3, <3>2 DEF PullSkip, SkipChange, UnderWayWritten
  <2>4. ASSUME NEW c \in round[n].todo, PullAdopt(n, c) PROVE Goal
    <3>1. round[n] \in Round
      BY <2>4 DEF PullAdopt, Pulling, IInvTypes, TypeOK
    <3>2. \A m \in Node : round'[m].todo \subseteq written /\ round'[m].held = {}
      BY <1>0, <2>4, <3>1 DEF PullAdopt, IInvTypes, TypeOK, Round
    <3>3. UnderWayWritten
      BY <1>0, <2>4, <3>2 DEF PullAdopt, UnderWayWritten
    <3> QED BY <1>0, <1>b, <2>4, <3>3 DEF PullAdopt
  <2>5. ASSUME NEW c \in round[n].todo, PullDecide(n, c) PROVE Goal
    BY <2>5, CheckedAdopts DEF PullDecide
  <2>6. ASSUME NEW c \in round[n].held, PullInsert(n, c) PROVE Goal
    BY <1>0
  <2>7. CASE FinishRound(n)
    BY <1>0, <1>c, <2>7 DEF FinishRound
  <2>8. CASE FinishUnsaved(n)
    BY <1>0, <1>c, <2>8 DEF FinishUnsaved
  <2> QED BY <1>5, <2>1, <2>2, <2>3, <2>4, <2>5, <2>6, <2>7, <2>8 DEF PullStep
<1>6. ASSUME NEW n \in Node, Crash(n) PROVE Goal
  <2>1. \A g \in posts' : g.todo \subseteq written /\ g.held = {}
    BY <1>0, <1>6 DEF Crash, IInvTypes, TypeOK, Post
  <2> QED BY <1>c, <1>6, <2>1 DEF Crash
<1>7. CASE UNCHANGED vars
  BY <1>0, <1>a, <1>7 DEF vars, UnderWayWritten
<1> QED BY <1>1, <1>2, <1>3, <1>4, <1>5, <1>6, <1>7 DEF Next

\* Rounds, cursors and messages implement last-writer-wins replication, with
\* any loss, crash, busy database or rejected row, unless the check of a row
\* fails or another writer gets between the check and the insert.
THEOREM LwwTheorem ==
  ASSUME Checked
  PROVE  Spec => ImplementsLww
<1>1. IInvTypes /\ IInvLww /\ [Next]_vars => IInvLww' /\ [Lww!Next]_Lww!lwwVars
  BY LwwStep
<1> QED BY <1>1, TypesTheorem, LwwInit, PTL DEF Spec, ImplementsLww, Lww!Spec

\* Where checks are in force, a node never falls back behind its own writes.
THEOREM OwnWritesKeptTheorem ==
  ASSUME Checked
  PROVE  Spec => []OwnWritesKept
<1>1. IInvTypes /\ IInvLww /\ [Next]_vars => IInvLww'
  BY LwwStep
<1>2. IInvLww => OwnWritesKept
  BY DEF IInvLww
<1> QED BY <1>1, <1>2, TypesTheorem, LwwInit, PTL DEF Spec

-----------------------------------------------------------------------------
(* What a node has seen of a row.                                           *)

\* The only change to a table is one row stored.
LEMMA NextStores ==
  ASSUME IInvTypes, [Next]_vars
  PROVE  \/ UNCHANGED <<db, seen>>
         \/ \E n \in Node, c \in Change : Store(n, c)
<1> USE DEF IInvTypes
<1>1. ASSUME NEW n \in Node, NEW r \in Row, LocalWrite(n, r)
      PROVE  \E c \in Change : Store(n, c)
  <2>1. Clock(n) \in Stamp
    BY SkewAssumption DEF Clock, TypeOK, Stamp, None
  <2> QED BY <1>1, <2>1 DEF LocalWrite, Change, Version
<1>2. ASSUME NEW n \in Node, PushStep(n) PROVE UNCHANGED <<db, seen>>
  BY <1>2 DEF PushStep, BeginSweep, SkipPeer, SkipSelf, StartRound, ExportNothing, ExportAndPost,
              ExportFails, RequestLost, SendTimesOut, ConnectionLost
<1>3. ASSUME NEW h \in posts, ImportStep(h)
      PROVE  UNCHANGED <<db, seen>> \/ \E c \in Change : Store(h.dst, c)
  <2>1. h.todo \subseteq Change /\ h.held \subseteq Change
    BY DEF TypeOK, Post
  <2> QED BY <1>3, <2>1 DEF ImportStep, Arrive, ImportRefused, ImportSkip, ImportAdopt,
             ImportDecide, ImportInsert, ImportReply, SkipChange, AdoptChange, DecideChange
<1>4. ASSUME NEW n \in Node, PullStep(n)
      PROVE  UNCHANGED <<db, seen>> \/ \E c \in Change : Store(n, c)
  <2>1. round[n].todo \subseteq Change /\ round[n].held \subseteq Change
    <3>1. CASE round[n] \in Round
      BY <3>1 DEF Round
    <3>2. CASE round[n] = NoRound
      BY <3>2 DEF NoRound
    <3> QED BY <3>1, <3>2 DEF TypeOK
  <2> QED BY <1>4, <2>1 DEF PullStep, Fetch, FetchFails, PullSkip, PullAdopt, PullDecide,
             PullInsert, FinishRound, FinishUnsaved, SkipChange, AdoptChange, DecideChange
<1>5. ASSUME NEW h \in posts PROVE h.dst \in Node
  BY DEF TypeOK, Post
<1> QED BY <1>1, <1>2, <1>3, <1>4, <1>5 DEF Next, Tick, Crash, vars

\* The newest stamp seen of a row only grows, and is reached by the row stored.
LEMMA StoreSeen ==
  ASSUME IInvTypes, NEW n \in Node, NEW c \in Change, Store(n, c)
  PROVE  /\ seen'[n][c.row] >= c.ver.ts
         /\ \A m \in Node, r \in Row :
              /\ seen'[m][r] \in Nat /\ seen'[m][r] >= seen[m][r]
              /\ m = n /\ r = c.row => db'[m][r] = c.ver
              /\ m # n \/ r # c.row => db'[m][r] = db[m][r] /\ seen'[m][r] = seen[m][r]
<1>1. c.row \in Row /\ c.ver.ts \in Nat
  BY DEF Change, Version, Stamp
<1> QED BY <1>1 DEF Store, IInvTypes, TypeOK, Later

\* What was seen of a row stays at least as new as the row.
LEMMA SeenStep ==
  IInvTypes /\ SeenOK /\ [Next]_vars =>
    SeenOK' /\ \A n \in Node, r \in Row : seen'[n][r] \in Nat /\ seen'[n][r] >= seen[n][r]
<1> SUFFICES ASSUME IInvTypes, SeenOK, [Next]_vars
             PROVE  SeenOK' /\ \A n \in Node, r \in Row :
                                 seen'[n][r] \in Nat /\ seen'[n][r] >= seen[n][r]
  OBVIOUS
<1>1. \A n \in Node, r \in Row : seen[n][r] \in Nat
  BY DEF IInvTypes, TypeOK
<1>2. CASE UNCHANGED <<db, seen>>
  BY <1>1, <1>2 DEF SeenOK
<1>3. ASSUME NEW n \in Node, NEW c \in Change, Store(n, c)
      PROVE  SeenOK' /\ \A m \in Node, r \in Row :
                          seen'[m][r] \in Nat /\ seen'[m][r] >= seen[m][r]
  BY <1>3, StoreSeen DEF SeenOK
<1> QED BY <1>2, <1>3, NextStores

\* Initially nothing was seen.
LEMMA SeenInit == Init => SeenOK
BY DEF Init, SeenOK, NoVersion, None

-----------------------------------------------------------------------------
(* The cursor follows row data.                                             *)

\* A cursor that moves does not pass both stamps it is computed from.
LEMMA NextCursorReached ==
  ASSUME NEW prev \in Nat, NEW exported \in Nat, NEW applied \in Nat, NEW start \in Nat,
         NEW next, next = ComputeNewCursor(prev, exported, applied, start)
  PROVE  \/ next = prev
         \/ exported # None /\ next <= exported
         \/ applied # None /\ next <= applied
BY DEF ComputeNewCursor, Later, Earlier, None

\* What was reached stays reached.
LEMMA ReachedStays ==
  ASSUME IInvTypes, SeenOK, [Next]_vars, NEW n \in Node, NEW s \in Nat, Reached(n, s)
  PROVE  Reached(n, s)'
<1>1. \A r \in Row : /\ seen[n][r] \in Nat
                    /\ seen'[n][r] \in Nat /\ seen'[n][r] >= seen[n][r]
  BY SeenStep DEF IInvTypes, TypeOK
<1> QED BY <1>1 DEF Reached

\* Initially there is no stamp to account for.
LEMMA RowDataInit == Init => StampsReached /\ CursorFromRowData
BY DEF Init, StampsReached, Reached, CursorFromRowData, NoRound, None

\* A round in which neither stamp moves, or that ends, keeps its stamps reached.
LEMMA RowDataFrame ==
  ASSUME IInvTypes, SeenOK, StampsReached, CursorFromRowData, [Next]_vars,
         UNCHANGED cursor,
         \A n \in Node : \/ round'[n].exported = None /\ round'[n].applied = None
                       \/ /\ round'[n].exported = round[n].exported
                          /\ round'[n].applied = round[n].applied
  PROVE  StampsReached' /\ CursorFromRowData'
<1>1. \A n \in Node : /\ round[n].exported \in Nat /\ round[n].applied \in Nat
                     /\ \A a \in Addr : cursor[n][a] \in Nat
  BY DEF IInvTypes, TypeOK, Round, NoRound, None
<1>2. \A n \in Node : Reached(n, round[n].exported)' /\ Reached(n, round[n].applied)'
  <2> SUFFICES ASSUME NEW n \in Node
               PROVE  Reached(n, round[n].exported)' /\ Reached(n, round[n].applied)'
    OBVIOUS
  <2>1. CASE round'[n].exported = None /\ round'[n].applied = None
    BY <2>1 DEF Reached
  <2>2. CASE /\ round'[n].exported = round[n].exported
             /\ round'[n].applied = round[n].applied
    <3> DEFINE x == round[n].exported
               y == round[n].applied
    <3>1. \A r \in Row : /\ seen[n][r] \in Nat
                        /\ seen'[n][r] \in Nat /\ seen'[n][r] >= seen[n][r]
      BY SeenStep DEF IInvTypes, TypeOK
    <3> QED BY <1>1, <2>2, <3>1 DEF StampsReached, Reached
  <2> QED BY <2>1, <2>2
<1>3. CursorFromRowData'
  <2>1. \A n \in Node, r \in Row : /\ seen[n][r] \in Nat
                      /\ seen'[n][r] \in Nat /\ seen'[n][r] >= seen[n][r]
    BY SeenStep DEF IInvTypes, TypeOK
  <2> QED BY <1>1, <2>1 DEF CursorFromRowData
<1> QED BY <1>2, <1>3 DEF StampsReached

\* Every step keeps cursors and stamps in hand within what the rows have reached.
LEMMA RowDataStep ==
  IInvTypes /\ RoundOK /\ IInvRowData /\ [Next]_vars => IInvRowData'
<1> SUFFICES ASSUME IInvTypes, RoundOK, IInvRowData, [Next]_vars PROVE IInvRowData'
  OBVIOUS
<1> DEFINE Goal == StampsReached' /\ CursorFromRowData'
<1> USE DEF IInvRowData
<1>0. SUFFICES Goal
  BY SeenStep
<1>a. ASSUME NEW n \in Node, EndRound(n), UNCHANGED cursor PROVE Goal
  BY <1>a, RowDataFrame DEF EndRound, IInvTypes, TypeOK, NoRound
<1>b. \A n \in Node, r \in Row : /\ seen[n][r] \in Nat
                               /\ seen'[n][r] \in Nat /\ seen'[n][r] >= seen[n][r]
  BY SeenStep DEF IInvTypes, TypeOK
<1>c. \A n \in Node : pc[n] # "idle" => round[n] \in Round
  BY DEF IInvTypes, TypeOK
\* A change stored by the round itself raises `applied` to what it reached.
<1>d. ASSUME NEW n \in Node, NEW c \in Change, Store(n, c), UNCHANGED cursor,
             round[n] \in Round,
             \A m \in Node : round'[m].exported = round[m].exported,
             \A m \in Node \ {n} : round'[m].applied = round[m].applied,
             round'[n].applied = Later(round[n].applied, c.ver.ts)
      PROVE  Goal
  <2>1. c.row \in Row /\ c.ver.ts \in Nat /\ seen'[n][c.row] >= c.ver.ts
    BY <1>d, StoreSeen DEF Change, Version, Stamp
  <2>2. \A m \in Node : Reached(m, round[m].exported) /\ Reached(m, round[m].applied)
    BY DEF StampsReached
  <2>3. \A m \in Node : round[m].exported \in Nat /\ round[m].applied \in Nat
    BY DEF IInvTypes, TypeOK, Round, NoRound, None
  <2>4. StampsReached'
    BY <1>b, <1>d, <2>1, <2>2, <2>3 DEF StampsReached, Reached, Later
  <2>5. \A m \in Node, a \in Addr : cursor[m][a] \in Nat
    BY DEF IInvTypes, TypeOK
  <2>6. CursorFromRowData'
    BY <1>b, <1>d, <2>5 DEF CursorFromRowData
  <2> QED BY <2>4, <2>6
<1>1. CASE Tick
  BY <1>1, RowDataFrame DEF Tick
<1>2. ASSUME NEW n \in Node, NEW r \in Row, LocalWrite(n, r) PROVE Goal
  BY <1>2, RowDataFrame DEF LocalWrite
<1>3. ASSUME NEW n \in Node, PushStep(n) PROVE Goal
  <2>1. CASE BeginSweep(n)
    BY <2>1, RowDataFrame DEF BeginSweep
  <2>2. ASSUME NEW p \in Peers[n], SkipPeer(n, p) PROVE Goal
    BY <2>2, RowDataFrame DEF SkipPeer
  <2>10. CASE SkipSelf(n)
    BY <2>10, RowDataFrame DEF SkipSelf
  <2>3. ASSUME NEW a \in Addr, StartRound(n, a) PROVE Goal
    BY <2>3, RowDataFrame DEF StartRound, NoRound, IInvTypes, TypeOK
  <2>4. CASE ExportNothing(n)
    BY <2>4, RowDataFrame DEF ExportNothing
  <2>5. ASSUME NEW id \in PostId, ExportAndPost(n, id) PROVE Goal
    <3> DEFINE changes == ChangesSince(db[n], round[n].since)
    <3>1. PICK m \in {None} \cup {c.ver.ts : c \in changes} :
            round' = [round EXCEPT ![n].exported = m]
      BY <2>5 DEF ExportAndPost
    <3>2. /\ round[n] \in Round
          /\ \A k \in Node \ {n} : round'[k] = round[k]
          /\ round'[n].exported = m /\ round'[n].applied = round[n].applied
      BY <1>c, <2>5, <3>1 DEF ExportAndPost, IInvTypes, TypeOK, Round
    <3>3. Reached(n, m)
      BY DEF ChangesSince, Reached, SeenOK
    <3>4. UNCHANGED <<cursor, seen>>
      BY <2>5 DEF ExportAndPost
    <3> QED BY <3>2, <3>3, <3>4 DEF StampsReached, Reached, CursorFromRowData
  <2>6. CASE ExportFails(n)
    BY <1>a, <2>6 DEF ExportFails
  <2>7. ASSUME NEW h \in posts, RequestLost(n, h) PROVE Goal
    BY <1>a, <2>7 DEF RequestLost
  <2>8. ASSUME NEW h \in posts, SendTimesOut(n, h) PROVE Goal
    BY <1>a, <2>8 DEF SendTimesOut
  <2>9. CASE ConnectionLost(n)
    BY <1>a, <2>9 DEF ConnectionLost
  <2> QED BY <1>3, <2>1, <2>2, <2>3, <2>4, <2>5, <2>6, <2>7, <2>8, <2>9, <2>10 DEF PushStep
<1>4. ASSUME NEW h \in posts, ImportStep(h) PROVE Goal
  <2>1. UNCHANGED <<cursor, round>>
    BY <1>4 DEF ImportStep, Arrive, ImportRefused, ImportSkip, ImportAdopt,
                ImportDecide, ImportInsert, ImportReply
  <2> QED BY <2>1, RowDataFrame
<1>5. ASSUME NEW n \in Node, PullStep(n) PROVE Goal
  <2>1. CASE Fetch(n)
    BY <1>c, <2>1, RowDataFrame DEF Fetch, IInvTypes, TypeOK, Round
  <2>2. CASE FetchFails(n)
    BY <1>a, <2>2 DEF FetchFails
  <2>3. ASSUME NEW c \in round[n].todo, PullSkip(n, c) PROVE Goal
    BY <1>c, <2>3, RowDataFrame DEF PullSkip, Pulling, IInvTypes, TypeOK, Round
  <2>4. ASSUME NEW c \in round[n].todo, PullAdopt(n, c) PROVE Goal
    <3>1. round[n] \in Round /\ c \in Change /\ Store(n, c)
      BY <1>c, <2>4 DEF PullAdopt, AdoptChange, Pulling, Round
    <3>2. /\ \A m \in Node : round'[m].exported = round[m].exported
          /\ \A m \in Node \ {n} : round'[m].applied = round[m].applied
          /\ round'[n].applied = Later(round[n].applied, c.ver.ts)
      BY <2>4, <3>1 DEF PullAdopt, IInvTypes, TypeOK, Round
    <3> QED BY <1>d, <2>4, <3>1, <3>2 DEF PullAdopt
  <2>5. ASSUME NEW c \in round[n].todo, PullDecide(n, c) PROVE Goal
    BY <1>c, <2>5, RowDataFrame DEF PullDecide, Pulling, IInvTypes, TypeOK, Round
  <2>6. ASSUME NEW c \in round[n].held, PullInsert(n, c) PROVE Goal
    <3>1. round[n] \in Round /\ c \in Change /\ Store(n, c)
      BY <1>c, <2>6 DEF PullInsert, Round
    <3>2. /\ \A m \in Node : round'[m].exported = round[m].exported
          /\ \A m \in Node \ {n} : round'[m].applied = round[m].applied
          /\ round'[n].applied = Later(round[n].applied, c.ver.ts)
      BY <2>6, <3>1 DEF PullInsert, IInvTypes, TypeOK, Round
    <3> QED BY <1>d, <2>6, <3>1, <3>2 DEF PullInsert
  <2>7. CASE FinishRound(n)
    <3> DEFINE p == round[n].peer
    <3>1. round[n] \in Round /\ UNCHANGED seen
      BY <1>c, <2>7 DEF FinishRound, Applied
    <3>2. \/ NextCursor(n) \in {cursor[n][p], None}
          \/ round[n].exported # None /\ NextCursor(n) <= round[n].exported
          \/ round[n].applied # None /\ NextCursor(n) <= round[n].applied
      <4>1. round[n].since \in {cursor[n][p], None}
        BY <2>7 DEF FinishRound, Applied, RoundOK, ReadCursor
      <4> QED BY <3>1, <4>1, NextCursorReached DEF NextCursor, Round
    <3>3. NextCursor(n) \in Nat
      BY <3>1, NextCursorType DEF NextCursor, Round
    <3>4. NextCursor(n) # None => \E r \in Row : seen[n][r] >= NextCursor(n)
      BY <1>b, <3>1, <3>2, <3>3 DEF StampsReached, Reached, CursorFromRowData, Round
    <3>5. CursorFromRowData'
      BY <2>7, <3>1, <3>4 DEF FinishRound, CursorFromRowData, IInvTypes, TypeOK
    <3>6. StampsReached'
      BY <2>7, <3>1 DEF FinishRound, EndRound, StampsReached, Reached, IInvTypes, TypeOK, NoRound
    <3> QED BY <3>5, <3>6
  <2>8. CASE FinishUnsaved(n)
    BY <1>a, <2>8 DEF FinishUnsaved
  <2> QED BY <1>5, <2>1, <2>2, <2>3, <2>4, <2>5, <2>6, <2>7, <2>8 DEF PullStep
<1>6. ASSUME NEW n \in Node, Crash(n) PROVE Goal
  BY <1>a, <1>6 DEF Crash
<1>7. CASE UNCHANGED vars
  BY <1>7, RowDataFrame DEF vars
<1> QED BY <1>1, <1>2, <1>3, <1>4, <1>5, <1>6, <1>7 DEF Next

\* Whatever goes wrong, a cursor that was ever set is not past everything its
\* node has seen: it never follows the wall clock alone.
THEOREM CursorFromRowDataTheorem == Spec => []CursorFromRowData
<1>1. IInvCursor => RoundOK
  BY DEF IInvCursor
<1>2. Init => IInvRowData
  BY SeenInit, RowDataInit DEF IInvRowData
<1>3. IInvRowData => CursorFromRowData
  BY DEF IInvRowData
<1> QED BY <1>1, <1>2, <1>3, TypesTheorem, CursorInit, CursorStep, RowDataStep, PTL DEF Spec

-----------------------------------------------------------------------------
(* Delivery of a node's own writes.  Requests and replies may be lost and   *)
(* daemons may crash, but what a handler acknowledges it has applied.       *)

Dependable == Checked /\ Hazards \cap {"refused", "reject", "sameSecond"} = {}

\* A node's own version of a row after a step that is not a write of its own is
\* the one it had before: an import never brings it back one of its own.
LEMMA OwnRowsStay ==
  ASSUME Checked, IInvTypes, IInvLww,
         NEW n \in Node, NEW c \in written, AdoptChange(n, c),
         NEW m \in Node, NEW r \in Row, db'[m][r].by = m
  PROVE  db'[m][r] = db[m][r]
<1>1. c \in Change /\ c.row \in Row /\ c.ver.ts \in Nat /\ db[n][c.row].ts \in Nat
  BY DEF IInvTypes, TypeOK, Change, Version, NoVersion, Stamp, None
<1>2. m # n \/ r # c.row => db'[m][r] = db[m][r]
  BY <1>1, StoreSeen DEF AdoptChange
<1>3. m = n /\ r = c.row => FALSE
  BY <1>1, CheckedAdopts, StoreSeen DEF Newer, IInvLww, OwnWritesKept
<1> QED BY <1>2, <1>3

\* Steps that leave cursors and loops alone, and store at most one change that
\* was under way, keep the invariant if no request forgets an undelivered row.
LEMMA PushFrame ==
  ASSUME IInvTypes, IInvPush, [Next]_vars, UNCHANGED cursor,
         \A m \in Node, r \in Row : db'[m][r].by = m => db'[m][r] = db[m][r],
         \A m \in Node : pc'[m] \in {"posted", "fetch", "apply"} =>
                         /\ pc[m] \in {"posted", "fetch", "apply"}
                         /\ pc[m] = "posted" <=> pc'[m] = "posted"
                         /\ round'[m].start = round[m].start
                         /\ round'[m].since = round[m].since
                         /\ round'[m].peer = round[m].peer,
         \A g \in posts' : g.waiting =>
           \E h \in posts : /\ h.waiting /\ h.src = g.src /\ h.dst = g.dst
                           /\ \A c \in h.todo : c \in g.todo \/ seen'[h.dst][c.row] >= c.ver.ts
  PROVE  IInvPush'
<1>1. /\ SeenOK'
      /\ \A n \in Node, r \in Row : /\ seen[n][r] \in Nat /\ seen'[n][r] \in Nat
                                   /\ seen'[n][r] >= seen[n][r]
  BY SeenStep DEF IInvPush, IInvTypes, TypeOK
<1>2. \A a \in Addr : Host[a] \in Node
  BY HostAssumption
<1>3. \A n \in Node, r \in Row : db[n][r].ts \in Nat
  BY DEF IInvTypes, TypeOK, Version, NoVersion, Stamp, None
<1>4. NoOwnWriteSkipped'
  BY <1>1, <1>2, <1>3 DEF IInvPush, NoOwnWriteSkipped
<1>5. ASSUME NEW n \in Node, NEW r \in Row,
             pc'[n] \in {"posted", "fetch", "apply"},
             db'[n][r].by = n,
             round'[n].since < db'[n][r].ts,
             db'[n][r].ts <= round'[n].start
      PROVE  Delivered(n, r)'
  <2> DEFINE p == Host[round[n].peer]
             c == [row |-> r, ver |-> db[n][r]]
  <2>1. /\ pc[n] \in {"posted", "fetch", "apply"}
        /\ pc[n] = "posted" <=> pc'[n] = "posted"
        /\ round'[n].peer = round[n].peer /\ db'[n][r] = db[n][r]
        /\ Delivered(n, r)
    BY <1>5 DEF IInvPush, PushedOK
  <2>2. round[n] \in Round /\ p \in Node
    BY <1>2, <1>5, <2>1 DEF IInvTypes, TypeOK, Round
  <2>3. CASE ~(seen'[p][r] >= db[n][r].ts)
    <3>1. pc[n] = "posted" /\ \A h \in posts : h.src = n /\ h.waiting => c \in h.todo
      BY <1>1, <1>3, <2>1, <2>2, <2>3 DEF Delivered
    <3>2. ASSUME NEW g \in posts', g.src = n, g.waiting PROVE c \in g.todo
      <4>1. PICK h \in posts :
              /\ h.waiting /\ h.src = n /\ h.dst = g.dst
              /\ \A d \in h.todo : d \in g.todo \/ seen'[h.dst][d.row] >= d.ver.ts
        BY <3>2
      <4>2. h.dst = p
        BY <4>1 DEF IInvTypes, WaitingOK
      <4> QED BY <2>3, <3>1, <4>1, <4>2
    <3> QED BY <2>1, <3>1, <3>2 DEF Delivered
  <2>4. CASE seen'[p][r] >= db[n][r].ts
    BY <2>1, <2>4 DEF Delivered
  <2> QED BY <2>3, <2>4
<1> QED BY <1>1, <1>4, <1>5 DEF IInvPush, PushedOK

\* Initially there is nothing to deliver.
LEMMA PushInit == Init => IInvPush
<1> SUFFICES ASSUME Init PROVE IInvPush
  OBVIOUS
<1>1. NoOwnWriteSkipped
  BY HostAssumption DEF Init, NoOwnWriteSkipped, NoVersion, None
<1> QED BY <1>1, SeenInit DEF Init, IInvPush, PushedOK

\* Every step keeps own rows within reach of a cursor delivered, or on their way.
LEMMA PushStepInv ==
  ASSUME Dependable
  PROVE  IInvTypes /\ IInvCursor /\ IInvLww /\ IInvPush /\ [Next]_vars => IInvPush'
<1> SUFFICES ASSUME IInvTypes, IInvCursor, IInvLww, IInvPush, [Next]_vars PROVE IInvPush'
  OBVIOUS
<1>h. /\ Checked /\ "refused" \notin Hazards
      /\ "reject" \notin Hazards /\ "sameSecond" \notin Hazards
  BY DEF Dependable
<1>c. \A n \in Node : pc[n] # "idle" => round[n] \in Round
  BY DEF IInvTypes, TypeOK
<1>s. /\ SeenOK'
      /\ \A n \in Node, r \in Row : /\ seen[n][r] \in Nat /\ seen'[n][r] \in Nat
                                   /\ seen'[n][r] >= seen[n][r] /\ db[n][r].ts \in Nat
  BY SeenStep DEF IInvPush, IInvTypes, TypeOK, Version, NoVersion, Stamp, None
\* A round that ends with its cursor as it was.
<1>a. ASSUME NEW n \in Node, EndRound(n), UNCHANGED <<cursor, db, seen>>,
             \A g \in posts' : g.waiting => g \in posts
      PROVE  IInvPush'
  BY <1>a, PushFrame DEF EndRound, Goto, IInvTypes, TypeOK
<1>1. CASE Tick
  BY <1>1, PushFrame DEF Tick
<1>2. ASSUME NEW n \in Node, NEW r \in Row, LocalWrite(n, r) PROVE IInvPush'
  <2> DEFINE c == [row |-> r, ver |-> [ts |-> Clock(n), by |-> n]]
  <2>1. c \in Change /\ Clock(n) \in Nat
    BY SkewAssumption DEF Clock, IInvTypes, TypeOK, Change, Version, Stamp, None
  <2>2. Store(n, c) /\ NewSecond(n) /\ UNCHANGED <<cursor, pc, round, posts>>
    BY <1>2, <1>h DEF LocalWrite
  <2>3. /\ db'[n][r] = c.ver /\ seen'[n][r] >= Clock(n)
        /\ \A m \in Node, q \in Row : m # n \/ q # r => /\ db'[m][q] = db[m][q]
                                                    /\ seen'[m][q] = seen[m][q]
    BY <2>1, <2>2, StoreSeen
  <2>4. NoOwnWriteSkipped'
    <3>1. \A a \in Addr : cursor[n][a] < Clock(n) /\ cursor[n][a] \in Nat
      BY <2>2 DEF NewSecond, IInvTypes, TypeOK
    <3>2. \A m \in Node, q \in Row : ~(m = n /\ q = r) =>
             \A a \in Addr :
               db'[m][q].by = m /\ db'[m][q].ts <= cursor[m][a] =>
                 /\ Host[a] \in Node /\ seen[Host[a]][q] >= db'[m][q].ts
                 /\ db'[m][q] = db[m][q]
      BY <2>3, HostAssumption DEF IInvPush, NoOwnWriteSkipped
    <3>3. \A m \in Node, q \in Row : ~(m = n /\ q = r) =>
             \A a \in Addr :
               db'[m][q].by = m /\ db'[m][q].ts <= cursor[m][a] =>
                 seen'[Host[a]][q] >= db'[m][q].ts
      BY <1>s, <3>2
    <3>4. \A a \in Addr : ~(db'[n][r].ts <= cursor[n][a])
      BY <2>1, <2>3, <3>1
    <3> QED BY <2>2, <3>3, <3>4 DEF NoOwnWriteSkipped
  <2>5. PushedOK'
    <3> SUFFICES ASSUME NEW m \in Node, NEW q \in Row,
                        pc[m] \in {"posted", "fetch", "apply"},
                        db'[m][q].by = m,
                        round[m].since < db'[m][q].ts,
                        db'[m][q].ts <= round[m].start
                 PROVE  Delivered(m, q)'
      BY <2>2 DEF PushedOK
    <3> DEFINE p == Host[round[m].peer]
    <3>1. round[m].start \in Nat /\ p \in Node
      BY <1>c, HostAssumption DEF Round
    <3>2. ~(m = n /\ q = r)
      BY <2>1, <2>2, <2>3, <3>1 DEF NewSecond
    <3>3. db'[m][q] = db[m][q]
      BY <2>3, <3>2
    <3>4. Delivered(m, q)
      BY <3>3 DEF IInvPush, PushedOK
    <3>5. seen[p][q] >= db[m][q].ts => seen'[p][q] >= db[m][q].ts
      BY <1>s, <3>1
    <3> QED BY <2>2, <3>3, <3>4, <3>5 DEF Delivered
  <2> QED BY <1>s, <2>4, <2>5 DEF IInvPush
<1>3. ASSUME NEW n \in Node, PushStep(n) PROVE IInvPush'
  <2>1. CASE BeginSweep(n)
    BY <2>1, PushFrame DEF BeginSweep
  <2>2. ASSUME NEW p \in Peers[n], SkipPeer(n, p) PROVE IInvPush'
    BY <2>2, PushFrame DEF SkipPeer
  <2>10. CASE SkipSelf(n)
    BY <2>10, PushFrame DEF SkipSelf
  <2>3. ASSUME NEW a \in Addr, StartRound(n, a) PROVE IInvPush'
    BY <2>3, PushFrame DEF StartRound, Goto, IInvTypes, TypeOK
  <2>4. CASE ExportNothing(n)
    <3>1. /\ UNCHANGED <<db, seen, cursor, round, posts>>
          /\ pc'[n] = "fetch" /\ \A m \in Node \ {n} : pc'[m] = pc[m]
      BY <2>4 DEF ExportNothing, Goto, IInvTypes, TypeOK
    <3>2. \A r \in Row : ~(db[n][r].ts > round[n].since)
      BY <2>4 DEF ExportNothing, ChangesSince
    <3>3. round[n].since \in Nat
      BY <1>c, <2>4 DEF ExportNothing, Round
    <3>4. PushedOK'
      BY <1>s, <3>1, <3>2, <3>3 DEF IInvPush, PushedOK, Delivered
    <3> QED BY <1>s, <3>1, <3>4 DEF IInvPush, NoOwnWriteSkipped
  <2>5. ASSUME NEW id \in PostId, ExportAndPost(n, id) PROVE IInvPush'
    <3> DEFINE changes == ChangesSince(db[n], round[n].since)
               h == [id |-> id, src |-> n, dst |-> Host[round[n].peer], at |-> "sent",
                     todo |-> changes, held |-> {}, waiting |-> TRUE]
    <3>1. /\ UNCHANGED <<db, seen, cursor>> /\ posts' = posts \cup {h}
          /\ pc'[n] = "posted" /\ \A m \in Node \ {n} : pc'[m] = pc[m]
      BY <2>5 DEF ExportAndPost, Goto, IInvTypes, TypeOK
    <3>2. \A m \in Node : /\ round'[m].peer = round[m].peer
                         /\ round'[m].since = round[m].since
                         /\ round'[m].start = round[m].start
      BY <1>c, <2>5 DEF ExportAndPost, IInvTypes, TypeOK, Round
    <3>3. \A r \in Row : db[n][r].ts > round[n].since =>
                        [row |-> r, ver |-> db[n][r]] \in h.todo
      BY DEF ChangesSince
    <3>4. \A g \in posts : g.waiting => g.src # n
      BY <2>5 DEF ExportAndPost, IInvTypes, WaitingOK
    <3>5. h.src = n
      OBVIOUS
    <3>6. round[n].since \in Nat
      BY <1>c, <2>5 DEF ExportAndPost, Round
    <3> HIDE DEF h
    <3>7. ASSUME NEW m \in Node, NEW r \in Row,
                 pc'[m] \in {"posted", "fetch", "apply"},
                 db'[m][r].by = m,
                 round'[m].since < db'[m][r].ts,
                 db'[m][r].ts <= round'[m].start
          PROVE  Delivered(m, r)'
      <4>1. CASE m = n
        <5>1. [row |-> r, ver |-> db[n][r]] \in h.todo
          BY <1>s, <3>1, <3>2, <3>3, <3>6, <3>7, <4>1
        <5>2. \A g \in posts' : g.src = n /\ g.waiting => g = h
          BY <3>1, <3>4
        <5> QED BY <3>1, <4>1, <5>1, <5>2 DEF Delivered
      <4>2. CASE m # n
        <5>1. Delivered(m, r)
          BY <3>1, <3>2, <3>7, <4>2 DEF IInvPush, PushedOK
        <5> QED BY <3>1, <3>2, <3>5, <4>2, <5>1 DEF Delivered
      <4> QED BY <4>1, <4>2
    <3> QED BY <1>s, <3>1, <3>7 DEF IInvPush, PushedOK, NoOwnWriteSkipped
  <2>6. CASE ExportFails(n)
    BY <1>a, <2>6 DEF ExportFails
  <2>7. ASSUME NEW h \in posts, RequestLost(n, h) PROVE IInvPush'
    BY <1>a, <2>7 DEF RequestLost
  <2>8. ASSUME NEW h \in posts, SendTimesOut(n, h) PROVE IInvPush'
    <3>1. \A g \in posts' : g.waiting => g \in posts
      BY <2>8 DEF SendTimesOut, IInvTypes, TypeOK, Post
    <3> QED BY <1>a, <2>8, <3>1 DEF SendTimesOut
  <2>9. CASE ConnectionLost(n)
    BY <1>a, <2>9 DEF ConnectionLost
  <2> QED BY <1>3, <2>1, <2>2, <2>3, <2>4, <2>5, <2>6, <2>7, <2>8, <2>9, <2>10 DEF PushStep
<1>4. ASSUME NEW h \in posts, ImportStep(h) PROVE IInvPush'
  <2>0. /\ h \in Post /\ h.dst \in Node /\ h.src \in Node
        /\ \A c \in h.todo : c \in Change /\ c.row \in Row /\ c.ver.ts \in Nat
    BY DEF IInvTypes, TypeOK, Post, Change, Version, Stamp
  <2>1. CASE Arrive(h)
    <3>1. [h EXCEPT !.at = "applying"].todo = h.todo
      BY <2>0 DEF Post
    <3> QED BY <2>0, <2>1, <3>1, PushFrame DEF Arrive, Progress, Post
  <2>2. CASE ImportRefused(h)
    BY <1>h, <2>2 DEF ImportRefused
  <2>3. ASSUME NEW c \in h.todo, ImportSkip(h, c) PROVE IInvPush'
    <3> DEFINE g == [h EXCEPT !.todo = @ \ {c}]
    <3>1. g.todo = h.todo \ {c} /\ g.src = h.src /\ g.dst = h.dst /\ g.waiting = h.waiting
      BY <2>0 DEF Post
    <3>2. posts' = (posts \ {h}) \cup {g} /\ UNCHANGED <<db, seen, cursor, pc, round>>
      BY <2>3 DEF ImportSkip, SkipChange, Progress
    <3>3. seen'[h.dst][c.row] >= c.ver.ts
      BY <1>h, <1>s, <2>0, <2>3 DEF ImportSkip, SkipChange, Newer, IInvPush, SeenOK
    <3> HIDE DEF g
    <3> QED BY <3>1, <3>2, <3>3, PushFrame
  <2>4. ASSUME NEW c \in h.todo, ImportAdopt(h, c) PROVE IInvPush'
    <3> DEFINE g == [h EXCEPT !.todo = @ \ {c}]
    <3>1. g.todo = h.todo \ {c} /\ g.src = h.src /\ g.dst = h.dst /\ g.waiting = h.waiting
      BY <2>0 DEF Post
    <3>2. posts' = (posts \ {h}) \cup {g} /\ UNCHANGED <<cursor, pc, round>>
      BY <2>4 DEF ImportAdopt, Progress
    <3>3. AdoptChange(h.dst, c) /\ c \in written
      BY <2>4 DEF ImportAdopt, IInvLww, Provenance
    <3>4. seen'[h.dst][c.row] >= c.ver.ts
      BY <2>0, <3>3, StoreSeen DEF AdoptChange
    <3>5. \A m \in Node, r \in Row : db'[m][r].by = m => db'[m][r] = db[m][r]
      BY <1>h, <2>0, <3>3, OwnRowsStay
    <3> HIDE DEF g
    <3> QED BY <3>1, <3>2, <3>4, <3>5, PushFrame
  <2>5. ASSUME NEW c \in h.todo, ImportDecide(h, c) PROVE IInvPush'
    BY <1>h, <2>5, CheckedAdopts DEF ImportDecide
  <2>6. ASSUME NEW c \in h.held, ImportInsert(h, c) PROVE IInvPush'
    BY DEF IInvLww, NothingHeld
  <2>7. CASE ImportReply(h)
    <3>1. /\ UNCHANGED <<db, seen, cursor, round>> /\ posts' = posts \ {h} /\ h.todo = {}
          /\ \A m \in Node : pc'[m] = IF h.waiting /\ m = h.src THEN "fetch" ELSE pc[m]
      BY <2>7 DEF ImportReply, IInvTypes, TypeOK
    <3>2. h.waiting => pc[h.src] = "posted" /\ Host[round[h.src].peer] = h.dst
      BY DEF IInvTypes, WaitingOK
    <3>3. ASSUME NEW m \in Node, NEW r \in Row,
                 pc'[m] \in {"posted", "fetch", "apply"},
                 db'[m][r].by = m,
                 round'[m].since < db'[m][r].ts,
                 db'[m][r].ts <= round'[m].start
          PROVE  Delivered(m, r)'
      <4>1. Delivered(m, r)
        BY <3>1, <3>2, <3>3 DEF IInvPush, PushedOK
      <4> QED BY <3>1, <3>2, <4>1 DEF Delivered
    <3> QED BY <1>s, <3>1, <3>3 DEF IInvPush, PushedOK, NoOwnWriteSkipped
  <2> QED BY <1>4, <2>1, <2>2, <2>3, <2>4, <2>5, <2>6, <2>7 DEF ImportStep
<1>5. ASSUME NEW n \in Node, PullStep(n) PROVE IInvPush'
  <2>1. CASE Fetch(n)
    BY <1>c, <2>1, PushFrame DEF Fetch, Goto, IInvTypes, TypeOK, Round
  <2>2. CASE FetchFails(n)
    BY <1>a, <2>2 DEF FetchFails
  <2>3. ASSUME NEW c \in round[n].todo, PullSkip(n, c) PROVE IInvPush'
    BY <1>c, <2>3, PushFrame DEF PullSkip, SkipChange, Pulling, IInvTypes, TypeOK, Round
  <2>4. ASSUME NEW c \in round[n].todo, PullAdopt(n, c) PROVE IInvPush'
    <3>1. round[n] \in Round /\ AdoptChange(n, c) /\ c \in written
      BY <1>c, <2>4 DEF PullAdopt, Pulling, IInvLww, Provenance
    <3>2. \A m \in Node, r \in Row : db'[m][r].by = m => db'[m][r] = db[m][r]
      BY <1>h, <3>1, OwnRowsStay
    <3>3. \A m \in Node : /\ round'[m].peer = round[m].peer
                         /\ round'[m].since = round[m].since
                         /\ round'[m].start = round[m].start
      BY <2>4, <3>1 DEF PullAdopt, IInvTypes, TypeOK, Round
    <3>4. UNCHANGED <<cursor, pc, posts>>
      BY <2>4 DEF PullAdopt
    <3>5. \A g \in posts' : g.waiting =>
            \E h \in posts : /\ h.waiting /\ h.src = g.src /\ h.dst = g.dst
                            /\ \A d \in h.todo : d \in g.todo
      BY <3>4
    <3> QED BY <3>2, <3>3, <3>4, <3>5, PushFrame
  <2>5. ASSUME NEW c \in round[n].todo, PullDecide(n, c) PROVE IInvPush'
    BY <1>h, <2>5, CheckedAdopts DEF PullDecide
  <2>6. ASSUME NEW c \in round[n].held, PullInsert(n, c) PROVE IInvPush'
    BY DEF IInvLww, NothingHeld
  <2>7. CASE FinishRound(n)
    <3>1. /\ UNCHANGED <<db, seen, posts>> /\ round[n] \in Round /\ pc[n] = "apply"
          /\ pc'[n] = "idle"
          /\ \A m \in Node \ {n} : pc'[m] = pc[m] /\ round'[m] = round[m]
          /\ \A m \in Node, a \in Addr :
               cursor'[m][a] = IF m = n /\ a = round[n].peer THEN NextCursor(n)
                                                             ELSE cursor[m][a]
      BY <1>c, <2>7 DEF FinishRound, Applied, EndRound, Goto, IInvTypes, TypeOK
    <3>2. PushedOK'
      BY <3>1 DEF IInvPush, PushedOK, Delivered
    <3>3. /\ round[n].since \in Nat /\ round[n].start \in Nat
          /\ round[n].exported \in Nat /\ round[n].applied \in Nat
          /\ round[n].since <= cursor[n][round[n].peer]
          /\ cursor[n][round[n].peer] \in Nat
      <4>1. round[n].peer \in Addr /\ cursor[n][round[n].peer] \in Nat
        BY <3>1 DEF Round, IInvTypes, TypeOK
      <4>2. round[n].since \in ReadCursor(n, round[n].peer)
        BY <3>1 DEF IInvCursor, RoundOK
      <4>3. round[n].since <= cursor[n][round[n].peer]
        BY <4>1, <4>2 DEF ReadCursor, None
      <4> QED BY <3>1, <4>1, <4>3 DEF Round
    <3>4. NextCursor(n) <= round[n].since \/ NextCursor(n) <= round[n].start
      BY <3>3 DEF NextCursor, ComputeNewCursor, Later, Earlier
    <3>5. NextCursor(n) \in Nat
      BY <3>3, NextCursorType DEF NextCursor
    <3>6. ASSUME NEW r \in Row, db[n][r].by = n, db[n][r].ts <= NextCursor(n)
          PROVE  seen[Host[round[n].peer]][r] >= db[n][r].ts
      <4>1. CASE db[n][r].ts <= round[n].since
        <5>1. db[n][r].ts <= cursor[n][round[n].peer]
          BY <1>s, <3>3, <4>1
        <5> QED BY <3>1, <3>6, <5>1 DEF IInvPush, NoOwnWriteSkipped, Round
      <4>2. CASE ~(db[n][r].ts <= round[n].since)
        <5>1. db[n][r].ts <= round[n].start /\ round[n].since < db[n][r].ts
          BY <1>s, <3>3, <3>4, <3>5, <3>6, <4>2
        <5> QED BY <3>1, <3>6, <5>1 DEF IInvPush, PushedOK, Delivered
      <4> QED BY <4>1, <4>2
    <3>7. NoOwnWriteSkipped'
      BY <3>1, <3>6 DEF IInvPush, NoOwnWriteSkipped
    <3> QED BY <1>s, <3>2, <3>7 DEF IInvPush
  <2>8. CASE FinishUnsaved(n)
    BY <1>a, <2>8 DEF FinishUnsaved
  <2> QED BY <1>5, <2>1, <2>2, <2>3, <2>4, <2>5, <2>6, <2>7, <2>8 DEF PullStep
<1>6. ASSUME NEW n \in Node, Crash(n) PROVE IInvPush'
  <2>1. \A g \in posts' : g.waiting => g \in posts
    BY <1>6 DEF Crash, IInvTypes, TypeOK, Post
  <2> QED BY <1>a, <1>6, <2>1 DEF Crash
<1>7. CASE UNCHANGED vars
  BY <1>7, PushFrame DEF vars
<1> QED BY <1>1, <1>2, <1>3, <1>4, <1>5, <1>6, <1>7 DEF Next

\* In a Dependable mesh, with any loss, any delay, any crash, any clock skew and
\* any failed statement but a check: when a cursor has passed a node's own write,
\* the node at the cursor's address has got it, or something newer.
THEOREM NoOwnWriteSkippedTheorem ==
  ASSUME Dependable
  PROVE  Spec => []NoOwnWriteSkipped
<1>1. Checked
  BY DEF Dependable
<1>2. IInvTypes /\ IInvLww /\ [Next]_vars => IInvLww'
  BY <1>1, LwwStep
<1>3. IInvTypes /\ IInvCursor /\ IInvLww /\ IInvPush /\ [Next]_vars => IInvPush'
  BY PushStepInv
<1>4. IInvPush => NoOwnWriteSkipped
  BY DEF IInvPush
<1> QED BY <1>2, <1>3, <1>4, TypesTheorem, CursorInit, CursorStep, LwwInit, PushInit, PTL
        DEF Spec
=============================================================================
