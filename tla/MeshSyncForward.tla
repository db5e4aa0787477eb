-------------------------- MODULE MeshSyncForward ---------------------------
(***************************************************************************)
(* Cursors never move backwards: proof of CursorNeverBack.                  *)
(***************************************************************************)
EXTENDS MeshSyncProofs

\* A stored row is newer than the one it replaces, or stamped this second.
LEMMA StoredNewer ==
  ASSUME Checked, IInvTypes, NothingHeld, [Next]_vars,
         NEW n \in Node, NEW r \in Row
  PROVE  /\ db[n][r].ts \in Nat /\ db'[n][r].ts \in Nat
         /\ db'[n][r].ts >= db[n][r].ts \/ db'[n][r].ts = Clock(n)
<1> USE DEF IInvTypes
<1>0. /\ \A m \in Node, q \in Row : db[m][q].ts \in Nat
      /\ db \in [Node -> [Row -> Version \cup {NoVersion}]]
      /\ Clock(n) \in Nat
  BY SkewAssumption DEF TypeOK, Version, NoVersion, Stamp, None, Clock
<1>1. ASSUME NEW m \in Node, NEW c \in Change, Store(m, c),
             Newer(c, db[m]) \/ c.ver.ts = Clock(m)
      PROVE  /\ db'[n][r].ts \in Nat
             /\ db'[n][r].ts >= db[n][r].ts \/ db'[n][r].ts = Clock(n)
  <2>1. c.row \in Row /\ c.ver.ts \in Nat
    BY DEF Change, Version, Stamp
  <2> QED BY <1>0, <1>1, <2>1, StoreSeen DEF Newer
<1>2. ASSUME NEW m \in Node, NEW q \in Row, LocalWrite(m, q)
      PROVE  \E c \in Change : Store(m, c) /\ c.ver.ts = Clock(m)
  <2> DEFINE c == [row |-> q, ver |-> [ts |-> Clock(m), by |-> m]]
  <2>1. Clock(m) \in Stamp
    BY SkewAssumption DEF Clock, TypeOK, Stamp, None
  <2>2. c \in Change /\ c.ver.ts = Clock(m)
    BY <2>1 DEF Change, Version
  <2>3. Store(m, c)
    BY <1>2 DEF LocalWrite
  <2> HIDE DEF c
  <2> QED BY <2>2, <2>3
<1>3. ASSUME NEW m \in Node, PushStep(m) PROVE UNCHANGED db
  BY <1>3 DEF PushStep, BeginSweep, SkipPeer, SkipSelf, StartRound, ExportNothing, ExportAndPost,
              ExportFails, RequestLost, SendTimesOut, ConnectionLost
<1>4. ASSUME NEW h \in posts, ImportStep(h)
      PROVE  UNCHANGED db \/ \E c \in Change : Store(h.dst, c) /\ Newer(c, db[h.dst])
  <2>1. h.todo \subseteq Change /\ h.held = {}
    BY DEF TypeOK, Post, NothingHeld
  <2> QED BY <1>4, <2>1, CheckedAdopts DEF ImportStep, Arrive, ImportRefused, ImportSkip, ImportAdopt,
             ImportDecide, ImportReply, SkipChange
<1>5. ASSUME NEW m \in Node, PullStep(m)
      PROVE  UNCHANGED db \/ \E c \in Change : Store(m, c) /\ Newer(c, db[m])
  <2>1. round[m].todo \subseteq Change /\ round[m].held = {}
    <3>1. CASE round[m] \in Round
      BY <3>1 DEF Round, NothingHeld
    <3>2. CASE round[m] = NoRound
      BY <3>2 DEF NoRound
    <3> QED BY <3>1, <3>2 DEF TypeOK
  <2> QED BY <1>5, <2>1, CheckedAdopts DEF PullStep, Fetch, FetchFails, PullSkip, PullAdopt, PullDecide,
             FinishRound, FinishUnsaved, SkipChange
<1>6. ASSUME NEW h \in posts PROVE h.dst \in Node
  BY DEF TypeOK, Post
<1>7. CASE UNCHANGED db
  BY <1>0, <1>7
<1>8. \/ UNCHANGED db
      \/ \E m \in Node, c \in Change : Store(m, c) /\ (Newer(c, db[m]) \/ c.ver.ts = Clock(m))
  BY <1>2, <1>3, <1>4, <1>5, <1>6 DEF Next, Tick, Crash, vars
<1> QED BY <1>0, <1>1, <1>7, <1>8

\* A stamp that is not in the future and that a row backs stays backed.
LEMMA BackedStays ==
  ASSUME Checked, IInvTypes, NothingHeld, [Next]_vars,
         NEW n \in Node, NEW s \in Nat, s <= Clock(n), Backed(n, s)
  PROVE  s # None => \E r \in Row : db'[n][r].ts >= s
<1> SUFFICES ASSUME s # None PROVE \E r \in Row : db'[n][r].ts >= s
  OBVIOUS
<1>1. PICK r \in Row : db[n][r].ts >= s
  BY DEF Backed
<1>2. Clock(n) \in Nat
  BY SkewAssumption DEF Clock, IInvTypes, TypeOK, Stamp
<1> QED BY <1>1, <1>2, StoredNewer

\* The stamps of an open round are in the past.
LEMMA RoundStamps ==
  ASSUME IInvTypes, IInvCursor, NEW n \in Node, pc[n] # "idle"
  PROVE  /\ round[n] \in Round /\ round[n].peer \in Addr
         /\ round[n].since \in Nat /\ round[n].start \in Nat
         /\ round[n].exported \in Nat /\ round[n].applied \in Nat
         /\ Earlier(round[n].exported, round[n].start) \in Nat
         /\ Earlier(round[n].applied, round[n].start) \in Nat
         /\ Earlier(round[n].exported, round[n].start) <= Clock(n)
         /\ Earlier(round[n].applied, round[n].start) <= Clock(n)
<1>1. round[n] \in Round
  BY DEF IInvTypes, TypeOK
<1>2. round[n].start <= Clock(n) /\ Clock(n) \in Nat
  BY SkewAssumption DEF IInvCursor, RoundOK, Clock, IInvTypes, TypeOK, Stamp
<1> QED BY <1>1, <1>2 DEF Round, Earlier

\* The part of the invariant about cursors, when no cursor moves.
LEMMA CursorsBacked ==
  ASSUME Checked, IInvTypes, IInvCursor, NothingHeld, IInvForward,
         [Next]_vars, UNCHANGED cursor
  PROVE  \A n \in Node, a \in Addr : Backed(n, cursor[n][a])'
<1> SUFFICES ASSUME NEW n \in Node, NEW a \in Addr PROVE Backed(n, cursor[n][a])'
  OBVIOUS
<1>1. cursor[n][a] \in Nat /\ cursor[n][a] <= Clock(n) /\ Backed(n, cursor[n][a])
  BY DEF IInvTypes, TypeOK, IInvCursor, CursorNotAhead, IInvForward
<1>2. cursor[n][a] # None => \E r \in Row : db'[n][r].ts >= cursor[n][a]
  BY <1>1, BackedStays
<1> QED BY <1>2 DEF Backed

\* The part about a round that keeps what it has in hand.
LEMMA RoundForwardStays ==
  ASSUME Checked, IInvTypes, IInvCursor, NothingHeld, IInvForward,
         [Next]_vars, UNCHANGED cursor,
         NEW n \in Node,
         pc'[n] # "idle" => /\ pc[n] # "idle"
                            /\ pc[n] = "export" => pc'[n] = "export"
                            /\ round'[n].peer = round[n].peer
                            /\ round'[n].start = round[n].start
                            /\ round'[n].since = round[n].since
                            /\ round'[n].exported = round[n].exported
                            /\ round'[n].applied = round[n].applied
  PROVE  RoundForward(n)'
<1> SUFFICES ASSUME pc'[n] # "idle" PROVE RoundForward(n)'
  BY DEF RoundForward
<1> DEFINE x == Earlier(round[n].exported, round[n].start)
           y == Earlier(round[n].applied, round[n].start)
<1>1. x \in Nat /\ y \in Nat /\ x <= Clock(n) /\ y <= Clock(n)
  BY RoundStamps
<1>2. Backed(n, x) /\ Backed(n, y)
  BY DEF IInvForward, RoundForward
<1>3. /\ Earlier(round[n].exported, round[n].start)' = x
      /\ Earlier(round[n].applied, round[n].start)' = y
  BY DEF Earlier
<1> HIDE DEF x, y
<1>4. /\ x # None => \E r \in Row : db'[n][r].ts >= x
      /\ y # None => \E r \in Row : db'[n][r].ts >= y
  BY <1>1, <1>2, BackedStays
<1>5. /\ Backed(n, Earlier(round[n].exported, round[n].start))'
      /\ Backed(n, Earlier(round[n].applied, round[n].start))'
  BY <1>3, <1>4 DEF Backed
<1>6. /\ cursor[n][round[n].peer] <= round[n].start
      /\ pc[n] # "export" => cursor[n][round[n].peer] <= Later(round[n].since, x)
  BY DEF IInvForward, RoundForward, x
<1>7. cursor'[n][round'[n].peer] <= round'[n].start
  BY <1>6
<1>8. pc'[n] # "export" => cursor'[n][round'[n].peer]
                             <= Later(round[n].since, Earlier(round[n].exported, round[n].start))'
  BY <1>3, <1>6 DEF Later
<1> QED BY <1>5, <1>7, <1>8 DEF RoundForward

\* Steps that change no cursor, and leave rounds alone or end them.
LEMMA ForwardFrame ==
  ASSUME Checked, IInvTypes, IInvCursor, NothingHeld, IInvForward,
         [Next]_vars, UNCHANGED cursor,
         \A n \in Node : pc'[n] # "idle" =>
                            /\ pc[n] # "idle"
                            /\ pc[n] = "export" => pc'[n] = "export"
                            /\ round'[n].peer = round[n].peer
                            /\ round'[n].start = round[n].start
                            /\ round'[n].since = round[n].since
                            /\ round'[n].exported = round[n].exported
                            /\ round'[n].applied = round[n].applied
  PROVE  IInvForward'
<1>1. \A n \in Node : RoundForward(n)'
  BY RoundForwardStays
<1> QED BY <1>1, CursorsBacked DEF IInvForward

\* One round changes, and no cursor.
LEMMA ForwardOne ==
  ASSUME Checked, IInvTypes, IInvCursor, NothingHeld, IInvForward,
         [Next]_vars, UNCHANGED cursor, NEW n \in Node,
         \A m \in Node \ {n} : pc'[m] = pc[m] /\ round'[m] = round[m],
         RoundForward(n)'
  PROVE  IInvForward'
<1>1. \A m \in Node \ {n} : RoundForward(m)'
  BY RoundForwardStays
<1> QED BY <1>1, CursorsBacked DEF IInvForward

\* Initially there is no cursor to lead back to.
LEMMA ForwardInit == Init => IInvForward
BY DEF Init, IInvForward, RoundForward, Backed, None

\* Reading no cursor at all, a round still exports enough to lead back to it.
LEMMA ExportLeadsBack ==
  ASSUME IInvTypes, IInvCursor, IInvForward, NEW n \in Node, pc[n] = "export",
         NEW m \in Nat, IsNewest(m, ChangesSince(db[n], round[n].since))
  PROVE  /\ m # None => \E r \in Row : db[n][r].ts = m
         /\ cursor[n][round[n].peer] <= Later(round[n].since, Earlier(m, round[n].start))
<1> DEFINE changes == ChangesSince(db[n], round[n].since)
           p == round[n].peer
           k == cursor[n][p]
<1>1. /\ p \in Addr /\ round[n].since \in Nat /\ round[n].start \in Nat
  BY RoundStamps
<1>2. k \in Nat /\ k <= round[n].start /\ Backed(n, k)
  BY <1>1 DEF IInvTypes, TypeOK, IInvForward, RoundForward
<1>3. round[n].since = k \/ round[n].since = None
  BY DEF IInvCursor, RoundOK, ReadCursor
<1>4. \A r \in Row : db[n][r].ts \in Nat
  BY DEF IInvTypes, TypeOK, Version, NoVersion, Stamp, None
<1>5. ASSUME NEW r \in Row, db[n][r].ts > round[n].since PROVE db[n][r].ts <= m
  <2> DEFINE c == [row |-> r, ver |-> db[n][r]]
  <2>1. c \in ChangesSince(db[n], round[n].since)
    BY <1>5 DEF ChangesSince
  <2>2. \A d \in ChangesSince(db[n], round[n].since) : d.ver.ts <= m
    BY DEF IsNewest
  <2>3. c.ver.ts <= m
    BY <2>1, <2>2
  <2> QED BY <2>3
<1>6. m # None => \E r \in Row : db[n][r].ts = m
  BY DEF IsNewest, ChangesSince
<1> HIDE DEF p, k
<1> DEFINE next == Later(round[n].since, Earlier(m, round[n].start))
<1>7. ASSUME round[n].since = k PROVE k <= next
  BY <1>1, <1>2, <1>7 DEF Later, Earlier
<1>8. ASSUME round[n].since = None, k # None PROVE k <= next
  <2>1. PICK r \in Row : db[n][r].ts >= k
    BY <1>2, <1>8 DEF Backed
  <2>2. db[n][r].ts \in Nat /\ db[n][r].ts > round[n].since
    BY <1>2, <1>4, <1>8, <2>1 DEF None
  <2>3. m >= k
    BY <1>2, <1>5, <2>1, <2>2
  <2> QED BY <1>1, <1>2, <1>8, <2>3 DEF Later, Earlier, None
<1>9. k <= next
  BY <1>3, <1>7, <1>8
<1> QED BY <1>6, <1>9 DEF k, p

\* The next cursor is backed and not behind the one it replaces.
LEMMA NextCursorForward ==
  ASSUME IInvTypes, IInvCursor, IInvForward, NEW n \in Node, pc[n] = "apply"
  PROVE  /\ NextCursor(n) \in Nat
         /\ cursor[n][round[n].peer] <= NextCursor(n)
         /\ Backed(n, NextCursor(n))
<1> DEFINE k == cursor[n][round[n].peer]
           x == round[n].exported
           y == round[n].applied
           b == round[n].start
<1>1. /\ x \in Nat /\ y \in Nat /\ b \in Nat /\ k \in Nat /\ round[n].since \in Nat
      /\ round[n].peer \in Addr
  BY RoundStamps DEF IInvTypes, TypeOK
<1>2. NextCursor(n) \in Nat
  BY <1>1, NextCursorType DEF NextCursor
<1>3. /\ Backed(n, k) /\ Backed(n, Earlier(x, b)) /\ Backed(n, Earlier(y, b))
      /\ k <= Later(round[n].since, Earlier(x, b))
  BY <1>1 DEF IInvForward, RoundForward
<1>4. round[n].since = k \/ round[n].since = None
  BY DEF IInvCursor, RoundOK, ReadCursor
<1>5. NextCursor(n) = ComputeNewCursor(round[n].since, x, y, b)
  BY DEF NextCursor
<1> HIDE DEF k, x, y, b
<1>6. k <= NextCursor(n)
  BY <1>1, <1>3, <1>5 DEF ComputeNewCursor, Later, Earlier, None
<1>7. NextCursor(n) \in {k, None, Earlier(x, b), Earlier(y, b)}
  BY <1>1, <1>4, <1>5 DEF ComputeNewCursor, Later, Earlier
<1>8. Backed(n, None)
  BY DEF Backed
<1> QED BY <1>2, <1>3, <1>6, <1>7, <1>8 DEF k

\* Every step keeps the rows of a node in pace with its cursors.
LEMMA ForwardStep ==
  ASSUME Checked,
         IInvTypes, IInvCursor, NothingHeld, IInvForward, [Next]_vars
  PROVE  IInvForward' /\ \A n \in Node, a \in Addr : cursor'[n][a] >= cursor[n][a]
<1> DEFINE Goal == IInvForward' /\ \A n \in Node, a \in Addr : cursor'[n][a] >= cursor[n][a]
<1>a. \A n \in Node, a \in Addr : cursor[n][a] \in Nat
  BY DEF IInvTypes, TypeOK
<1>b. UNCHANGED cursor => \A n \in Node, a \in Addr : cursor'[n][a] >= cursor[n][a]
  BY <1>a
<1>c. ASSUME NEW n \in Node, pc[n] # "idle"
      PROVE  round[n] \in Round /\ round[n].peer \in Addr
  BY <1>c, RoundStamps
<1>1. CASE Tick
  BY <1>1, <1>b, ForwardFrame DEF Tick
<1>2. ASSUME NEW n \in Node, NEW r \in Row, LocalWrite(n, r) PROVE Goal
  BY <1>2, <1>b, ForwardFrame DEF LocalWrite
<1>3. ASSUME NEW n \in Node, PushStep(n) PROVE Goal
  <2>0. UNCHANGED cursor
    BY <1>3 DEF PushStep, BeginSweep, SkipPeer, SkipSelf, StartRound, ExportNothing, ExportAndPost,
                ExportFails, RequestLost, SendTimesOut, ConnectionLost
  <2>1. CASE BeginSweep(n)
    BY <2>0, <2>1, <1>b, ForwardFrame DEF BeginSweep
  <2>2. ASSUME NEW p \in Peers[n], SkipPeer(n, p) PROVE Goal
    BY <2>0, <2>2, <1>b, ForwardFrame DEF SkipPeer
  <2>10. CASE SkipSelf(n)
    BY <2>0, <2>10, <1>b, ForwardFrame DEF SkipSelf
  <2>3. ASSUME NEW a \in Addr, StartRound(n, a) PROVE Goal
    <3>1. /\ round'[n].peer = a /\ round'[n].start = Clock(n)
          /\ round'[n].exported = None /\ round'[n].applied = None
          /\ pc'[n] = "export"
      BY <2>3 DEF StartRound, Goto, IInvTypes, TypeOK, NoRound
    <3>2. \A m \in Node \ {n} : pc'[m] = pc[m] /\ round'[m] = round[m]
      BY <2>3 DEF StartRound, Goto, IInvTypes, TypeOK
    <3>3. cursor'[n][a] <= Clock(n) /\ Clock(n) \in Nat
      BY <2>0, SkewAssumption
         DEF IInvCursor, CursorNotAhead, Clock, IInvTypes, TypeOK, Stamp
    <3>4. RoundForward(n)'
      BY <3>1, <3>3 DEF RoundForward, Backed, Earlier, None
    <3> QED BY <2>0, <3>2, <3>4, <1>b, ForwardOne
  <2>4. CASE ExportNothing(n)
    <3>1. /\ pc[n] = "export" /\ round' = round
          /\ pc'[n] = "fetch"
          /\ \A m \in Node \ {n} : pc'[m] = pc[m]
      BY <2>4 DEF ExportNothing, Goto, IInvTypes, TypeOK
    <3>2. IsNewest(None, ChangesSince(db[n], round[n].since))
      BY <2>4 DEF ExportNothing, IsNewest
    <3>3. cursor[n][round[n].peer] <= Later(round[n].since, Earlier(None, round[n].start))
      BY <3>1, <3>2, ExportLeadsBack DEF None
    <3>4. cursor[n][round[n].peer]
            <= Later(round[n].since, Earlier(round[n].exported, round[n].start))
      BY <3>1, <3>3, RoundStamps DEF Later, Earlier, None, IInvTypes, TypeOK
    <3>5. RoundForward(n)'
      <4> DEFINE x == Earlier(round[n].exported, round[n].start)
                 y == Earlier(round[n].applied, round[n].start)
      <4>1. /\ Earlier(round[n].exported, round[n].start)' = x
            /\ Earlier(round[n].applied, round[n].start)' = y
            /\ Later(round[n].since, x)' = Later(round[n].since, x)
        BY <3>1 DEF Later, Earlier
      <4>2. /\ Backed(n, x) /\ Backed(n, y)
            /\ cursor[n][round[n].peer] <= round[n].start
        BY <3>1 DEF IInvForward, RoundForward
      <4>3. UNCHANGED db
        BY <2>4 DEF ExportNothing
      <4> HIDE DEF x, y
      <4>4. /\ Backed(n, Earlier(round[n].exported, round[n].start))'
            /\ Backed(n, Earlier(round[n].applied, round[n].start))'
        BY <4>1, <4>2, <4>3 DEF Backed
      <4>5. cursor'[n][round'[n].peer] <= Later(round[n].since, Earlier(round[n].exported, round[n].start))'
        BY <2>0, <3>1, <3>4 DEF Later, Earlier
      <4> QED BY <2>0, <3>1, <4>2, <4>4, <4>5 DEF RoundForward
    <3> QED BY <2>0, <3>1, <3>5, <1>b, ForwardOne
  <2>5. ASSUME NEW id \in PostId, ExportAndPost(n, id) PROVE Goal
    <3> DEFINE changes == ChangesSince(db[n], round[n].since)
    <3>1. PICK m \in {None} \cup {c.ver.ts : c \in changes} :
            IsNewest(m, changes) /\ round' = [round EXCEPT ![n].exported = m]
      BY <2>5 DEF ExportAndPost
    <3>2. /\ pc[n] = "export" /\ pc'[n] = "posted" /\ UNCHANGED db
          /\ \A k \in Node \ {n} : pc'[k] = pc[k]
      BY <2>5 DEF ExportAndPost, Goto, IInvTypes, TypeOK
    <3>3. round[n] \in Round /\ round[n].start \in Nat
      BY <3>2, RoundStamps
    <3>4. /\ round'[n].exported = m /\ round'[n].peer = round[n].peer
          /\ round'[n].start = round[n].start /\ round'[n].since = round[n].since
          /\ round'[n].applied = round[n].applied
          /\ \A k \in Node \ {n} : round'[k] = round[k]
      BY <3>1, <3>3 DEF Round, IInvTypes, TypeOK
    <3>5. m \in Nat
      <4>1. \A r \in Row : db[n][r].ts \in Nat
        BY DEF IInvTypes, TypeOK, Version, NoVersion, Stamp, None
      <4> QED BY <3>1, <4>1 DEF ChangesSince, None
    <3>6. /\ m # None => \E r \in Row : db[n][r].ts = m
          /\ cursor[n][round[n].peer] <= Later(round[n].since, Earlier(m, round[n].start))
      BY <3>1, <3>2, <3>5, ExportLeadsBack
    <3>7. RoundForward(n)'
      <4> DEFINE x == Earlier(m, round[n].start)
                 y == Earlier(round[n].applied, round[n].start)
      <4>1. /\ Earlier(round[n].exported, round[n].start)' = x
            /\ Earlier(round[n].applied, round[n].start)' = y
        BY <3>4 DEF Earlier
      <4>2. /\ Backed(n, y)
            /\ cursor[n][round[n].peer] <= round[n].start
        BY <3>2 DEF IInvForward, RoundForward
      <4>3. Backed(n, x)
        BY <3>3, <3>5, <3>6 DEF Backed, Earlier, None
      <4>4. cursor'[n][round'[n].peer] <= Later(round[n].since, Earlier(round[n].exported, round[n].start))'
        BY <2>0, <3>4, <3>6 DEF Later, Earlier
      <4> HIDE DEF x, y
      <4>5. /\ Backed(n, Earlier(round[n].exported, round[n].start))'
            /\ Backed(n, Earlier(round[n].applied, round[n].start))'
        BY <3>2, <4>1, <4>2, <4>3 DEF Backed
      <4> QED BY <2>0, <3>4, <4>2, <4>4, <4>5 DEF RoundForward
    <3> QED BY <2>0, <3>2, <3>4, <3>7, <1>b, ForwardOne
  <2>6. CASE ExportFails(n)
    BY <2>0, <2>6, <1>b, ForwardFrame DEF ExportFails, EndRound, Goto, IInvTypes, TypeOK
  <2>7. ASSUME NEW h \in posts, RequestLost(n, h) PROVE Goal
    BY <2>0, <2>7, <1>b, ForwardFrame DEF RequestLost, EndRound, Goto, IInvTypes, TypeOK
  <2>8. ASSUME NEW h \in posts, SendTimesOut(n, h) PROVE Goal
    BY <2>0, <2>8, <1>b, ForwardFrame DEF SendTimesOut, EndRound, Goto, IInvTypes, TypeOK
  <2>9. CASE ConnectionLost(n)
    BY <2>0, <2>9, <1>b, ForwardFrame DEF ConnectionLost, EndRound, Goto, IInvTypes, TypeOK
  <2> QED BY <1>3, <2>1, <2>2, <2>3, <2>4, <2>5, <2>6, <2>7, <2>8, <2>9, <2>10 DEF PushStep
<1>4. ASSUME NEW h \in posts, ImportStep(h) PROVE Goal
  <2>1. CASE ImportReply(h)
    <3>1. h.waiting => pc[h.src] = "posted"
      BY DEF IInvTypes, WaitingOK
    <3>2. \A n \in Node : pc'[n] = pc[n] \/ (pc'[n] = "fetch" /\ pc[n] = "posted")
      BY <2>1, <3>1 DEF ImportReply, IInvTypes, TypeOK
    <3> QED BY <2>1, <3>2, <1>b, ForwardFrame DEF ImportReply
  <2>2. CASE ~ImportReply(h)
    <3>1. UNCHANGED <<now, cursor, pc, round>>
      BY <1>4, <2>2 DEF ImportStep, Arrive, ImportRefused, ImportSkip, ImportAdopt,
                        ImportDecide, ImportInsert
    <3> QED BY <3>1, <1>b, ForwardFrame
  <2> QED BY <2>1, <2>2
<1>5. ASSUME NEW n \in Node, PullStep(n) PROVE Goal
  <2>1. CASE Fetch(n)
    BY <2>1, <1>b, <1>c, ForwardFrame DEF Fetch, Goto, IInvTypes, TypeOK, Round
  <2>2. CASE FetchFails(n)
    BY <2>2, <1>b, ForwardFrame DEF FetchFails, EndRound, Goto, IInvTypes, TypeOK
  <2>3. ASSUME NEW c \in round[n].todo, PullSkip(n, c) PROVE Goal
    BY <2>3, <1>b, <1>c, ForwardFrame DEF PullSkip, Pulling, IInvTypes, TypeOK, Round
  <2>4. ASSUME NEW c \in round[n].todo, PullAdopt(n, c) PROVE Goal
    <3>1. /\ pc[n] = "apply" /\ pc' = pc /\ UNCHANGED cursor
          /\ c \in Change /\ c.row \in Row /\ c.ver.ts \in Nat /\ round[n] \in Round
      BY <2>4, <1>c DEF PullAdopt, Pulling, Round, Change, Version, Stamp
    <3>2. /\ round'[n].peer = round[n].peer /\ round'[n].start = round[n].start
          /\ round'[n].since = round[n].since /\ round'[n].exported = round[n].exported
          /\ round'[n].applied = Later(round[n].applied, c.ver.ts)
          /\ \A k \in Node \ {n} : round'[k] = round[k]
      <4>1. round' = [round EXCEPT ![n].todo = @ \ {c},
                                   ![n].applied = Later(@, c.ver.ts)]
        BY <2>4 DEF PullAdopt
      <4> QED BY <3>1, <4>1 DEF Round, IInvTypes, TypeOK
    <3>3. db'[n][c.row].ts = c.ver.ts
      BY <2>4, <3>1, StoreSeen DEF PullAdopt, AdoptChange
    <3>4. RoundForward(n)'
      <4> DEFINE x == Earlier(round[n].exported, round[n].start)
                 y == Earlier(round[n].applied, round[n].start)
                 z == Earlier(Later(round[n].applied, c.ver.ts), round[n].start)
      <4>1. /\ Earlier(round[n].exported, round[n].start)' = x
            /\ Earlier(round[n].applied, round[n].start)' = z
        BY <3>2 DEF Earlier
      <4>2. /\ x \in Nat /\ y \in Nat /\ x <= Clock(n) /\ y <= Clock(n)
            /\ round[n].applied \in Nat /\ round[n].start \in Nat
        BY <3>1, RoundStamps
      <4>3. /\ Backed(n, x) /\ Backed(n, y)
            /\ cursor[n][round[n].peer] <= round[n].start
            /\ cursor[n][round[n].peer] <= Later(round[n].since, x)
        BY <3>1 DEF IInvForward, RoundForward
      <4>4. z = y \/ z <= c.ver.ts
        BY <3>1, <4>2 DEF Later, Earlier
      <4>5. cursor'[n][round'[n].peer] <= Later(round[n].since, Earlier(round[n].exported, round[n].start))'
        BY <3>1, <3>2, <4>3 DEF Later, Earlier
      <4> HIDE DEF x, y, z
      <4>6. /\ x # None => \E r \in Row : db'[n][r].ts >= x
            /\ y # None => \E r \in Row : db'[n][r].ts >= y
        BY <4>2, <4>3, BackedStays
      <4>7. z # None => \E r \in Row : db'[n][r].ts >= z
        BY <3>1, <3>3, <4>4, <4>6
      <4>8. /\ Backed(n, Earlier(round[n].exported, round[n].start))'
            /\ Backed(n, Earlier(round[n].applied, round[n].start))'
        BY <4>1, <4>6, <4>7 DEF Backed
      <4> QED BY <3>1, <3>2, <4>3, <4>5, <4>8 DEF RoundForward
    <3> QED BY <3>1, <3>2, <3>4, <1>b, ForwardOne
  <2>5. ASSUME NEW c \in round[n].todo, PullDecide(n, c) PROVE Goal
    BY <2>5, CheckedAdopts DEF PullDecide
  <2>6. ASSUME NEW c \in round[n].held, PullInsert(n, c) PROVE Goal
    BY <2>6 DEF NothingHeld
  <2>7. CASE FinishRound(n)
    <3> DEFINE p == round[n].peer
               next == NextCursor(n)
    <3>1. pc[n] = "apply" /\ p \in Addr /\ UNCHANGED db
      BY <2>7, <1>c DEF FinishRound, Applied
    <3>2. next \in Nat /\ cursor[n][p] <= next /\ Backed(n, next)
      BY <3>1, NextCursorForward
    <3>3. cursor' = [cursor EXCEPT ![n][p] = next]
      BY <2>7 DEF FinishRound
    <3>4. /\ pc'[n] = "idle"
          /\ \A m \in Node \ {n} : pc'[m] = pc[m] /\ round'[m] = round[m]
      BY <2>7 DEF FinishRound, EndRound, Goto, IInvTypes, TypeOK
    <3> HIDE DEF p, next
    <3>5. \A m \in Node, q \in Addr :
            cursor'[m][q] = IF m = n /\ q = p THEN next ELSE cursor[m][q]
      <4>1. cursor \in [Node -> [Addr -> Nat]]
        BY DEF IInvTypes, TypeOK
      <4> QED BY <3>1, <3>3, <4>1
    <3>6. \A m \in Node, q \in Addr : cursor'[m][q] >= cursor[m][q]
      BY <1>a, <3>2, <3>5
    <3>7. \A m \in Node, q \in Addr : Backed(m, cursor[m][q])'
      <4>1. \A m \in Node, q \in Addr : Backed(m, cursor[m][q])
        BY DEF IInvForward
      <4> QED BY <3>1, <3>2, <3>5, <4>1 DEF Backed
    <3>8. RoundForward(n)'
      BY <3>4 DEF RoundForward
    <3>9. ASSUME NEW m \in Node \ {n} PROVE RoundForward(m)'
      <4> SUFFICES ASSUME pc'[m] # "idle" PROVE RoundForward(m)'
        BY DEF RoundForward
      <4>1. pc'[m] = pc[m] /\ round'[m] = round[m] /\ RoundForward(m)
        BY <3>4 DEF IInvForward
      <4>2. round[m].peer \in Addr
        BY <4>1, <1>c
      <4>3. cursor'[m][round[m].peer] = cursor[m][round[m].peer]
        BY <3>5, <4>2
      <4> QED BY <3>1, <4>1, <4>3 DEF RoundForward, Backed, Later, Earlier
    <3> QED BY <3>6, <3>7, <3>8, <3>9 DEF IInvForward
  <2>8. CASE FinishUnsaved(n)
    BY <2>8, <1>b, ForwardFrame DEF FinishUnsaved, EndRound, Goto, IInvTypes, TypeOK
  <2> QED BY <1>5, <2>1, <2>2, <2>3, <2>4, <2>5, <2>6, <2>7, <2>8 DEF PullStep
<1>6. ASSUME NEW n \in Node, Crash(n) PROVE Goal
  BY <1>6, <1>b, ForwardFrame DEF Crash, EndRound, Goto, IInvTypes, TypeOK
<1>7. CASE UNCHANGED vars
  BY <1>7, <1>b, ForwardFrame DEF vars
<1> QED BY <1>1, <1>2, <1>3, <1>4, <1>5, <1>6, <1>7 DEF Next

\* A cursor never moves backwards, even when rounds read no cursor where there
\* is one, stop anywhere, or run against clocks that disagree, as long as no
\* check of a row fails and no other writer comes between it and the insert.
THEOREM CursorNeverBackTheorem ==
  ASSUME Checked
  PROVE  Spec => CursorNeverBack
<1>1. IInvTypes /\ IInvLww /\ [Next]_vars => IInvLww'
  BY LwwStep
<1>2. IInvTypes /\ IInvCursor /\ IInvLww /\ IInvForward /\ [Next]_vars => IInvForward'
  BY ForwardStep DEF IInvLww
<1>3. IInvTypes /\ IInvCursor /\ IInvLww /\ IInvForward /\ [Next]_vars =>
        [\A n \in Node, a \in Addr : cursor'[n][a] >= cursor[n][a]]_vars
  BY ForwardStep DEF IInvLww
<1> QED BY <1>1, <1>2, <1>3, TypesTheorem, CursorInit, CursorStep, LwwInit, ForwardInit, PTL
        DEF Spec, CursorNeverBack
=============================================================================
