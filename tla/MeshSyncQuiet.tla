--------------------------- MODULE MeshSyncQuiet ----------------------------
(***************************************************************************)
(* The inductive invariant of the mesh as a whole, and what follows when    *)
(* nothing is left to exchange: proof of QuietAgrees for any number of      *)
(* nodes that all know each other, whatever their clocks show.              *)
(***************************************************************************)
EXTENDS MeshSyncForward, LeastNumbers

\* Stamps of rows are natural numbers, and so is what was seen of them.
LEMMA RowStamps ==
  ASSUME IInvTypes
  PROVE  /\ \A n \in Node, r \in Row : db[n][r].ts \in Nat /\ seen[n][r] \in Nat
         /\ \A n \in Node : Clock(n) \in Nat
         /\ \A c \in written : /\ c \in Change /\ c.row \in Row
                               /\ c.ver.by \in Node /\ c.ver.ts \in Nat
BY SkewAssumption
   DEF IInvTypes, TypeOK, Version, NoVersion, Stamp, None, Clock, Change

-----------------------------------------------------------------------------
(* How tables change when no check fails and nothing comes between it and   *)
(* the insert.                                                              *)

\* A table changes by a write of a service or by adopting a newer version.
LEMMA NextAdopts ==
  ASSUME Checked, IInvTypes, IInvLww, [Next]_vars
  PROVE  \/ UNCHANGED <<db, seen, written>>
         \/ \E n \in Node, r \in Row : LocalWrite(n, r)
         \/ \E n \in Node, c \in written :
              AdoptChange(n, c) /\ UNCHANGED <<cursor, pc, written>>
<1> DEFINE Goal == \/ UNCHANGED <<db, seen, written>>
                   \/ \E n \in Node, c \in written :
                        AdoptChange(n, c) /\ UNCHANGED <<cursor, pc, written>>
<1>0. /\ \A n \in Node : round[n].todo \subseteq written /\ round[n].held = {}
      /\ \A h \in posts : h.todo \subseteq written /\ h.held = {} /\ h.dst \in Node
  BY DEF IInvLww, Provenance, NothingHeld, IInvTypes, TypeOK, Post
<1>1. ASSUME NEW n \in Node, PushStep(n) PROVE Goal
  BY <1>1 DEF PushStep, BeginSweep, SkipPeer, SkipSelf, StartRound, ExportNothing, ExportAndPost,
              ExportFails, RequestLost, SendTimesOut, ConnectionLost
<1>2. ASSUME NEW h \in posts, ImportStep(h) PROVE Goal
  BY <1>0, <1>2, CheckedAdopts DEF ImportStep, Arrive, ImportRefused, ImportSkip, ImportAdopt,
             ImportDecide, ImportInsert, ImportReply, SkipChange
<1>3. ASSUME NEW n \in Node, PullStep(n) PROVE Goal
  BY <1>0, <1>3, CheckedAdopts DEF PullStep, Fetch, FetchFails, PullSkip, PullAdopt, PullDecide,
             PullInsert, FinishRound, FinishUnsaved, SkipChange
<1> HIDE DEF Goal
<1>4. \/ Goal \/ \E n \in Node, r \in Row : LocalWrite(n, r)
      \/ UNCHANGED <<db, seen, written>>
  BY <1>1, <1>2, <1>3 DEF Next, Tick, Crash, vars
<1> QED BY <1>4 DEF Goal

\* A write stores a change that it adds to what was written.
LEMMA LocalWriteStores ==
  ASSUME IInvTypes, NEW n \in Node, NEW r \in Row, LocalWrite(n, r)
  PROVE  \E c \in Change : /\ c.row = r /\ c.ver.by = n /\ c.ver.ts = Clock(n)
                           /\ Store(n, c) /\ written' = written \cup {c}
<1> DEFINE c == [row |-> r, ver |-> [ts |-> Clock(n), by |-> n]]
<1>1. Clock(n) \in Stamp
  BY SkewAssumption DEF Clock, IInvTypes, TypeOK, Stamp, None
<1>2. c \in Change /\ c.row = r /\ c.ver.by = n /\ c.ver.ts = Clock(n)
  BY <1>1 DEF Change, Version
<1>3. Store(n, c) /\ written' = written \cup {c}
  BY DEF LocalWrite
<1> HIDE DEF c
<1> QED BY <1>2, <1>3

\* A row stored is a write of the node's own, or newer than the one before.
LEMMA StoresOnlyNewer ==
  ASSUME Checked, IInvTypes, IInvLww, [Next]_vars
  PROVE  \A n \in Node, r \in Row :
           db'[n][r] # db[n][r] => \/ db'[n][r] = [ts |-> Clock(n), by |-> n]
                                   \/ db'[n][r].ts > db[n][r].ts
<1> DEFINE Older == \A n \in Node, r \in Row :
             db'[n][r] # db[n][r] => \/ db'[n][r] = [ts |-> Clock(n), by |-> n]
                                     \/ db'[n][r].ts > db[n][r].ts
<1>1. CASE UNCHANGED <<db, seen, written>>
  BY <1>1
<1>2. ASSUME NEW n \in Node, NEW r \in Row, LocalWrite(n, r) PROVE Older
  <2>1. PICK c \in Change : /\ c.row = r /\ c.ver.by = n /\ c.ver.ts = Clock(n)
                            /\ Store(n, c)
    BY <1>2, LocalWriteStores
  <2>2. c.ver = [ts |-> Clock(n), by |-> n]
    BY <2>1 DEF Change, Version
  <2> QED BY <2>1, <2>2, StoreSeen
<1>3. ASSUME NEW n \in Node, NEW c \in written, AdoptChange(n, c) PROVE Older
  <2>1. c \in Change
    BY RowStamps
  <2> QED BY <1>3, <2>1, CheckedAdopts, StoreSeen DEF Newer
<1> QED BY <1>1, <1>2, <1>3, NextAdopts

\* A row changes only by a write of its node's services, stamped with its clock,
\* or to a strictly newer version, whatever is lost or cut short, unless the
\* check fails or another writer gets between it and the insert (doc of
\* apply_changes, sync_apply.rs).
THEOREM OverwritesOnlyOlderTheorem ==
  ASSUME Checked
  PROVE  Spec => OverwritesOnlyOlder
<1>1. IInvTypes /\ IInvLww /\ [Next]_vars => IInvLww'
  BY LwwStep
<1>2. IInvTypes /\ IInvLww /\ [Next]_vars =>
        [\A n \in Node, r \in Row :
           db'[n][r] # db[n][r] => \/ db'[n][r] = [ts |-> Clock(n), by |-> n]
                                   \/ db'[n][r].ts > db[n][r].ts]_vars
  BY StoresOnlyNewer
<1> QED BY <1>1, <1>2, TypesTheorem, LwwInit, PTL DEF Spec, OverwritesOnlyOlder

-----------------------------------------------------------------------------
(* What a node has overwritten with an older stamp, because its clock is    *)
(* behind, can still be had from whoever wrote it.                          *)

\* Initially nothing was seen, and nothing was written.
LEMMA PullInit == Init => IInvPull
BY DEF Init, IInvPull, SeenWritten, OwnUntilNewer, StillToPull, FellBack, NoVersion, None

\* What a node has seen of a row was written.
LEMMA SeenWrittenStep ==
  ASSUME Checked, IInvTypes, IInvLww, SeenWritten, [Next]_vars
  PROVE  SeenWritten'
<1>1. ASSUME NEW n \in Node, NEW c \in Change, Store(n, c), c \in written',
             written \subseteq written'
      PROVE  SeenWritten'
  <2>1. c.row \in Row /\ c.ver.ts \in Nat
    BY DEF Change, Version, Stamp
  <2>2. seen'[n][c.row] = Later(seen[n][c.row], c.ver.ts)
    BY <1>1, <2>1 DEF Store, IInvTypes, TypeOK
  <2>3. \A m \in Node, r \in Row : m # n \/ r # c.row => seen'[m][r] = seen[m][r]
    BY <1>1, StoreSeen
  <2> QED BY <1>1, <2>2, <2>3 DEF SeenWritten, Later
<1>2. CASE UNCHANGED <<db, seen, written>>
  BY <1>2 DEF SeenWritten
<1>3. ASSUME NEW n \in Node, NEW r \in Row, LocalWrite(n, r) PROVE SeenWritten'
  BY <1>1, <1>3, LocalWriteStores
<1>4. ASSUME NEW n \in Node, NEW c \in written, AdoptChange(n, c), UNCHANGED written
      PROVE  SeenWritten'
  BY <1>1, <1>4, RowStamps DEF AdoptChange
<1> QED BY <1>2, <1>3, <1>4, NextAdopts

\* Only a newer version takes the place of a node's own.
LEMMA OwnUntilNewerStep ==
  ASSUME Checked, IInvTypes, IInvLww, OwnUntilNewer, [Next]_vars
  PROVE  OwnUntilNewer'
<1>1. CASE UNCHANGED <<db, seen, written>>
  BY <1>1 DEF OwnUntilNewer
<1>2. ASSUME NEW n \in Node, NEW r \in Row, LocalWrite(n, r) PROVE OwnUntilNewer'
  <2>1. PICK c \in Change : /\ c.row = r /\ c.ver.by = n /\ Store(n, c)
                            /\ written' = written \cup {c}
    BY <1>2, LocalWriteStores
  <2>2. /\ db'[n][r].by = n
        /\ \A m \in Node, q \in Row : m # n \/ q # r => db'[m][q] = db[m][q]
    BY <2>1, StoreSeen
  <2> QED BY <2>1, <2>2, RowStamps DEF OwnUntilNewer
<1>3. ASSUME NEW n \in Node, NEW c \in written, AdoptChange(n, c), UNCHANGED written
      PROVE  OwnUntilNewer'
  <2>1. /\ c \in Change /\ Store(n, c) /\ c.ver.ts \in Nat
        /\ c.ver.ts > db[n][c.row].ts
    BY <1>3, CheckedAdopts, RowStamps DEF Newer
  <2>2. \A m \in Node, q \in Row :
          /\ m = n /\ q = c.row => db'[m][q] = c.ver
          /\ m # n \/ q # c.row => db'[m][q] = db[m][q]
    BY <2>1, StoreSeen
  <2>3. \A w \in written : w.ver.by = n /\ w.row = c.row => w.ver.ts # c.ver.ts
    BY <2>1, RowStamps DEF IInvLww, OwnWritesKept
  <2> QED BY <1>3, <2>2, <2>3, RowStamps DEF OwnUntilNewer
<1> QED BY <1>1, <1>2, <1>3, NextAdopts

\* Steps that make no row fall back, move no cursor, and let an open round drop
\* only what is not newer than the row.
LEMMA StillToPullFrame ==
  ASSUME IInvTypes, StillToPull, written \subseteq written', UNCHANGED cursor,
         \A n \in Node, r \in Row :
           FellBack(n, r)' => FellBack(n, r) /\ seen'[n][r] = seen[n][r],
         \A n \in Node : pc'[n] = "apply" =>
           /\ pc[n] = "apply"
           /\ round'[n].peer = round[n].peer /\ round'[n].start = round[n].start
           /\ \A d \in round[n].todo :
                d \in round'[n].todo \/ d.ver.ts <= db'[n][d.row].ts,
         \A n \in Node, r \in Row : db'[n][r].ts \in Nat
  PROVE  StillToPull'
<1> SUFFICES ASSUME NEW n \in Node, NEW r \in Row, FellBack(n, r)'
             PROVE  \E c \in written' :
                      /\ c.row = r /\ c.ver.ts = seen'[n][r]
                      /\ \A a \in Addr : Host[a] = c.ver.by => cursor'[n][a] < seen'[n][r]
                      /\ Returns(n, r, c.ver.by)'
  BY DEF StillToPull
<1>1. /\ FellBack(n, r) /\ seen'[n][r] = seen[n][r] /\ seen[n][r] \in Nat
      /\ db'[n][r].ts < seen[n][r] /\ db'[n][r].ts \in Nat
  BY RowStamps DEF FellBack
<1>2. PICK c \in written :
        /\ c.row = r /\ c.ver.ts = seen[n][r]
        /\ \A a \in Addr : Host[a] = c.ver.by => cursor[n][a] < seen[n][r]
        /\ Returns(n, r, c.ver.by)
  BY <1>1 DEF StillToPull
<1>3. Returns(n, r, c.ver.by)'
  <2> SUFFICES ASSUME pc'[n] = "apply", Host[round'[n].peer] = c.ver.by,
                      ~(round'[n].start < seen[n][r])
               PROVE  \E d \in round'[n].todo : d.row = r /\ d.ver.ts >= seen[n][r]
    BY <1>1 DEF Returns
  <2>1. /\ pc[n] = "apply"
        /\ round'[n].peer = round[n].peer /\ round'[n].start = round[n].start
    OBVIOUS
  <2>2. PICK d \in round[n].todo : d.row = r /\ d.ver.ts >= seen[n][r]
    BY <1>2, <2>1 DEF Returns
  <2>3. d.ver.ts \in Nat
    BY <2>1, <2>2 DEF IInvTypes, TypeOK, Round, Change, Version, Stamp
  <2>4. d \in round'[n].todo
    BY <1>1, <2>2, <2>3
  <2> QED BY <2>2, <2>4
<1> QED BY <1>1, <1>2, <1>3

\* What a round fetches from whoever wrote the lost version is as new as that.
LEMMA FetchBrings ==
  ASSUME IInvTypes, IInvCursor, OwnWritesKept, StillToPull,
         NEW n \in Node, Fetch(n)
  PROVE  StillToPull'
<1>1. /\ round[n] \in Round /\ pc[n] = "fetch"
      /\ UNCHANGED <<db, seen, written, cursor>>
      /\ round' = [round EXCEPT ![n].todo = ChangesSince(db[Host[round[n].peer]],
                                                        round[n].since)]
      /\ pc' = [pc EXCEPT ![n] = "apply"]
  BY DEF Fetch, Goto, IInvTypes, TypeOK
<1>2. /\ \A m \in Node \ {n} : round'[m] = round[m] /\ pc'[m] = pc[m]
      /\ round'[n].peer = round[n].peer
      /\ round'[n].todo = ChangesSince(db[Host[round[n].peer]], round[n].since)
  BY <1>1 DEF IInvTypes, TypeOK, Round
<1> SUFFICES ASSUME NEW m \in Node, NEW r \in Row, FellBack(m, r)
             PROVE  \E c \in written :
                      /\ c.row = r /\ c.ver.ts = seen[m][r]
                      /\ \A a \in Addr : Host[a] = c.ver.by => cursor[m][a] < seen[m][r]
                      /\ Returns(m, r, c.ver.by)'
  BY <1>1 DEF StillToPull, FellBack
<1>3. PICK c \in written :
        /\ c.row = r /\ c.ver.ts = seen[m][r]
        /\ \A a \in Addr : Host[a] = c.ver.by => cursor[m][a] < seen[m][r]
        /\ Returns(m, r, c.ver.by)
  BY DEF StillToPull
<1>4. CASE m # n
  BY <1>1, <1>2, <1>3, <1>4 DEF Returns
<1>5. CASE m = n /\ Host[round[n].peer] = c.ver.by
  <2> DEFINE p == c.ver.by
             d == [row |-> r, ver |-> db[p][r]]
  <2>1. /\ p \in Node /\ round[n].peer \in Addr /\ round[n].since \in Nat
        /\ db[n][r].ts \in Nat /\ seen[n][r] \in Nat /\ db[p][r].ts \in Nat
        /\ db[n][r].ts < seen[n][r]
    BY <1>1, <1>5, RowStamps DEF Round, FellBack
  <2>2. db[p][r].ts >= seen[n][r]
    BY <1>3, <1>5, <2>1 DEF OwnWritesKept
  <2>3. round[n].since < seen[n][r]
    <3>1. round[n].since = cursor[n][round[n].peer] \/ round[n].since = None
      BY <1>1 DEF IInvCursor, RoundOK, ReadCursor
    <3> QED BY <1>3, <1>5, <2>1, <3>1 DEF None
  <2>4. d \in ChangesSince(db[p], round[n].since)
    BY <2>1, <2>2, <2>3 DEF ChangesSince
  <2>5. d \in round'[n].todo /\ d.row = r /\ d.ver.ts >= seen[n][r]
    BY <1>2, <1>5, <2>2, <2>4
  <2> HIDE DEF d
  <2> QED BY <1>1, <1>3, <1>5, <2>5 DEF Returns
<1>6. CASE m = n /\ Host[round[n].peer] # c.ver.by
  BY <1>2, <1>3, <1>6 DEF Returns
<1> QED BY <1>4, <1>5, <1>6

\* A round that is over without having brought the lost version leaves its
\* cursor behind that version.
LEMMA FinishStaysBehind ==
  ASSUME IInvTypes, IInvCursor, StillToPull, NEW n \in Node, FinishRound(n)
  PROVE  StillToPull'
<1>1. /\ round[n] \in Round /\ pc[n] = "apply" /\ round[n].todo = {}
      /\ UNCHANGED <<db, seen, written>>
      /\ cursor' = [cursor EXCEPT ![n][round[n].peer] = NextCursor(n)]
  BY DEF FinishRound, Applied, IInvTypes, TypeOK
<1>2. /\ \A m \in Node \ {n} : round'[m] = round[m] /\ pc'[m] = pc[m]
      /\ pc'[n] = "idle"
      /\ \A m \in Node, a \in Addr :
           cursor'[m][a] = IF m = n /\ a = round[n].peer THEN NextCursor(n) ELSE cursor[m][a]
  BY <1>1 DEF FinishRound, EndRound, Goto, IInvTypes, TypeOK
<1> SUFFICES ASSUME NEW m \in Node, NEW r \in Row, FellBack(m, r)
             PROVE  \E c \in written :
                      /\ c.row = r /\ c.ver.ts = seen[m][r]
                      /\ \A a \in Addr : Host[a] = c.ver.by => cursor'[m][a] < seen[m][r]
                      /\ Returns(m, r, c.ver.by)'
  BY <1>1 DEF StillToPull, FellBack
<1>3. PICK c \in written :
        /\ c.row = r /\ c.ver.ts = seen[m][r]
        /\ \A a \in Addr : Host[a] = c.ver.by => cursor[m][a] < seen[m][r]
        /\ Returns(m, r, c.ver.by)
  BY DEF StillToPull
<1>4. Returns(m, r, c.ver.by)'
  BY <1>1, <1>2, <1>3 DEF Returns
<1>5. ASSUME m = n, Host[round[n].peer] = c.ver.by PROVE NextCursor(n) < seen[n][r]
  <2>1. /\ round[n].since \in Nat /\ round[n].exported \in Nat /\ round[n].applied \in Nat
        /\ round[n].start \in Nat /\ round[n].peer \in Addr
        /\ seen[n][r] \in Nat /\ db[n][r].ts \in Nat /\ db[n][r].ts < seen[n][r]
    BY <1>1, <1>5, RowStamps DEF Round, FellBack
  <2>2. round[n].start < seen[n][r]
    BY <1>1, <1>3, <1>5 DEF Returns
  <2>3. round[n].since < seen[n][r]
    <3>1. round[n].since = cursor[n][round[n].peer] \/ round[n].since = None
      BY <1>1 DEF IInvCursor, RoundOK, ReadCursor
    <3> QED BY <1>3, <1>5, <2>1, <3>1 DEF None
  <2>4. seen[n][r] - 1 \in Nat /\ round[n].since <= seen[n][r] - 1
        /\ round[n].start <= seen[n][r] - 1
    BY <2>1, <2>2, <2>3
  <2>5. NextCursor(n) <= seen[n][r] - 1 /\ NextCursor(n) \in Nat
    BY <2>1, <2>4, NextCursorBound, NextCursorType DEF NextCursor
  <2> QED BY <2>1, <2>5
<1>6. ASSUME NEW a \in Addr, Host[a] = c.ver.by PROVE cursor'[m][a] < seen[m][r]
  BY <1>2, <1>3, <1>5, <1>6
<1> QED BY <1>3, <1>4, <1>6

\* Every step leaves what has fallen back within reach of its node's rounds.
LEMMA StillToPullStep ==
  ASSUME Dependable, IInvTypes, IInvCursor, IInvLww, SeenOK, IInvPull, [Next]_vars
  PROVE  StillToPull'
<1>h. /\ Checked /\ "reject" \notin Hazards
      /\ "sameSecond" \notin Hazards
  BY DEF Dependable
<1>r. /\ \A n \in Node, r \in Row : db[n][r].ts \in Nat /\ seen[n][r] \in Nat
      /\ \A n \in Node, r \in Row : db'[n][r].ts \in Nat /\ seen'[n][r] \in Nat
      /\ \A n \in Node : Clock(n) \in Nat
      /\ \A c \in written : /\ c \in Change /\ c.row \in Row
                            /\ c.ver.by \in Node /\ c.ver.ts \in Nat
  <2>1. IInvTypes'
    BY TypesStep
  <2>2. \A n \in Node, r \in Row : db'[n][r].ts \in Nat /\ seen'[n][r] \in Nat
    BY <2>1 DEF IInvTypes, TypeOK, Version, NoVersion, Stamp, None
  <2> QED BY <2>2, RowStamps
<1>t. SeenWritten /\ StillToPull
  BY DEF IInvPull
<1>c. \A n \in Node : pc[n] # "idle" => round[n] \in Round
  BY DEF IInvTypes, TypeOK
\* No table changes, and a round drops only what is not newer than the row.
<1>a. ASSUME UNCHANGED <<db, seen, written, cursor>>,
             \A n \in Node : pc'[n] = "apply" =>
               /\ pc[n] = "apply"
               /\ round'[n].peer = round[n].peer /\ round'[n].start = round[n].start
               /\ \A d \in round[n].todo :
                    d \in round'[n].todo \/ d.ver.ts <= db[n][d.row].ts
      PROVE  StillToPull'
  <2>1. \A n \in Node, r \in Row :
          FellBack(n, r)' => FellBack(n, r) /\ seen'[n][r] = seen[n][r]
    BY <1>a DEF FellBack
  <2> QED BY <1>a, <1>r, <1>t, <2>1, StillToPullFrame
\* An adopted change makes no row fall back.
<1>b. ASSUME NEW n \in Node, NEW c \in written, AdoptChange(n, c),
             UNCHANGED <<cursor, pc, written>>,
             \A m \in Node : pc[m] = "apply" =>
               /\ round'[m].peer = round[m].peer /\ round'[m].start = round[m].start
               /\ \A d \in round[m].todo : d \in round'[m].todo \/ (m = n /\ d = c)
      PROVE  StillToPull'
  <2>1. c \in Change /\ c.row \in Row /\ Store(n, c) /\ c.ver.ts > db[n][c.row].ts
    BY <1>b, <1>h, <1>r, CheckedAdopts DEF Newer
  <2>2. /\ db'[n][c.row] = c.ver
        /\ seen'[n][c.row] = Later(seen[n][c.row], c.ver.ts)
        /\ \A m \in Node, q \in Row :
             m # n \/ q # c.row => db'[m][q] = db[m][q] /\ seen'[m][q] = seen[m][q]
    <3>1. seen'[n][c.row] = Later(seen[n][c.row], c.ver.ts)
      BY <2>1 DEF Store, IInvTypes, TypeOK
    <3> QED BY <2>1, <3>1, StoreSeen
  <2>3. ASSUME NEW m \in Node, NEW q \in Row, FellBack(m, q)'
        PROVE  FellBack(m, q) /\ seen'[m][q] = seen[m][q]
    <3>1. db'[m][q].ts < seen'[m][q]
      BY <2>3 DEF FellBack
    <3> QED BY <1>r, <2>1, <2>2, <3>1 DEF FellBack, Later
  <2>4. \A m \in Node : pc'[m] = "apply" =>
          /\ pc[m] = "apply"
          /\ round'[m].peer = round[m].peer /\ round'[m].start = round[m].start
          /\ \A d \in round[m].todo :
               d \in round'[m].todo \/ d.ver.ts <= db'[m][d.row].ts
    BY <1>b, <1>r, <2>2
  <2> QED BY <1>b, <1>r, <1>t, <2>3, <2>4, StillToPullFrame
\* A round that ends with its cursor as it was.
<1>d. ASSUME NEW n \in Node, EndRound(n), UNCHANGED <<db, seen, written, cursor>>
      PROVE  StillToPull'
  <2>1. \A m \in Node : pc'[m] = "apply" => pc[m] = "apply" /\ round'[m] = round[m]
    BY <1>d DEF EndRound, Goto, IInvTypes, TypeOK
  <2> QED BY <1>a, <1>d, <2>1
<1>1. CASE Tick
  BY <1>1, <1>a DEF Tick
<1>2. ASSUME NEW n \in Node, NEW r \in Row, LocalWrite(n, r) PROVE StillToPull'
  <2>1. PICK c \in Change : /\ c.row = r /\ c.ver.by = n /\ c.ver.ts = Clock(n)
                            /\ Store(n, c) /\ written' = written \cup {c}
    BY <1>2, LocalWriteStores
  <2>2. NewSecond(n) /\ UNCHANGED <<cursor, pc, round>>
    BY <1>2, <1>h DEF LocalWrite
  <2>3. /\ db'[n][r].ts = Clock(n)
        /\ seen'[n][r] = Later(seen[n][r], Clock(n))
        /\ \A m \in Node, q \in Row :
             m # n \/ q # r => db'[m][q] = db[m][q] /\ seen'[m][q] = seen[m][q]
    <3>1. seen'[n][r] = Later(seen[n][r], Clock(n))
      BY <2>1 DEF Store, IInvTypes, TypeOK
    <3> QED BY <2>1, <3>1, StoreSeen
  <2> SUFFICES ASSUME NEW m \in Node, NEW q \in Row, FellBack(m, q)'
               PROVE  \E w \in written' :
                        /\ w.row = q /\ w.ver.ts = seen'[m][q]
                        /\ \A a \in Addr : Host[a] = w.ver.by => cursor'[m][a] < seen'[m][q]
                        /\ Returns(m, q, w.ver.by)'
    BY DEF StillToPull
  <2>4. db'[m][q].ts < seen'[m][q]
    BY DEF FellBack
  <2>5. CASE m # n \/ q # r
    <3>1. FellBack(m, q) /\ seen'[m][q] = seen[m][q]
      BY <2>3, <2>4, <2>5 DEF FellBack
    <3>2. PICK w \in written :
            /\ w.row = q /\ w.ver.ts = seen[m][q]
            /\ \A a \in Addr : Host[a] = w.ver.by => cursor[m][a] < seen[m][q]
            /\ Returns(m, q, w.ver.by)
      BY <1>t, <3>1 DEF StillToPull
    <3>3. Returns(m, q, w.ver.by)'
      BY <2>2, <3>1, <3>2 DEF Returns
    <3> QED BY <2>1, <2>2, <3>1, <3>2, <3>3
  <2>6. CASE m = n /\ q = r
    <3>1. seen'[n][r] = seen[n][r] /\ Clock(n) < seen[n][r]
      BY <1>r, <2>3, <2>4, <2>6 DEF Later
    <3>2. seen[n][r] # None
      BY <1>r, <3>1 DEF None
    <3>3. PICK w \in written : w.row = r /\ w.ver.ts = seen[n][r]
      BY <1>t, <3>2 DEF SeenWritten
    <3>4. \A a \in Addr : cursor[n][a] \in Nat /\ cursor[n][a] < Clock(n)
      BY <2>2 DEF NewSecond, IInvTypes, TypeOK
    <3>5. \A a \in Addr : cursor'[n][a] < seen'[n][r]
      BY <1>r, <2>2, <3>1, <3>4
    <3>6. pc[n] # "idle" => round[n].start < seen[n][r]
      BY <1>c, <1>r, <2>2, <3>1 DEF NewSecond, Round
    <3>7. Returns(n, r, w.ver.by)'
      BY <2>2, <3>1, <3>6 DEF Returns
    <3> QED BY <2>1, <2>6, <3>1, <3>3, <3>5, <3>7
  <2> QED BY <2>5, <2>6
<1>3. ASSUME NEW n \in Node, PushStep(n) PROVE StillToPull'
  <2>1. CASE BeginSweep(n)
    BY <2>1, <1>a DEF BeginSweep
  <2>2. ASSUME NEW p \in Peers[n], SkipPeer(n, p) PROVE StillToPull'
    BY <2>2, <1>a DEF SkipPeer
  <2>3. CASE SkipSelf(n)
    BY <2>3, <1>a DEF SkipSelf
  <2>4. ASSUME NEW a \in Addr, StartRound(n, a) PROVE StillToPull'
    BY <2>4, <1>a DEF StartRound, Goto, IInvTypes, TypeOK
  <2>5. CASE ExportNothing(n)
    BY <2>5, <1>a DEF ExportNothing, Goto, IInvTypes, TypeOK
  <2>6. ASSUME NEW id \in PostId, ExportAndPost(n, id) PROVE StillToPull'
    BY <2>6, <1>a DEF ExportAndPost, Goto, IInvTypes, TypeOK
  <2>7. CASE ExportFails(n)
    BY <2>7, <1>d DEF ExportFails
  <2>8. ASSUME NEW h \in posts, RequestLost(n, h) PROVE StillToPull'
    BY <2>8, <1>d DEF RequestLost
  <2>9. ASSUME NEW h \in posts, SendTimesOut(n, h) PROVE StillToPull'
    BY <2>9, <1>d DEF SendTimesOut
  <2>10. CASE ConnectionLost(n)
    BY <2>10, <1>d DEF ConnectionLost
  <2> QED BY <1>3, <2>1, <2>2, <2>3, <2>4, <2>5, <2>6, <2>7, <2>8, <2>9, <2>10 DEF PushStep
<1>4. ASSUME NEW h \in posts, ImportStep(h) PROVE StillToPull'
  <2>0. h.todo \subseteq written /\ h.held = {} /\ h.dst \in Node
    BY DEF IInvLww, Provenance, NothingHeld, IInvTypes, TypeOK, Post
  <2>1. CASE Arrive(h) \/ ImportRefused(h)
    BY <2>1, <1>a DEF Arrive, ImportRefused
  <2>2. CASE ImportReply(h)
    <3>1. \A m \in Node : pc'[m] = "apply" => pc[m] = "apply"
      BY <2>2 DEF ImportReply, IInvTypes, TypeOK
    <3> QED BY <2>2, <3>1, <1>a DEF ImportReply
  <2>3. ASSUME NEW c \in h.todo, ImportSkip(h, c) PROVE StillToPull'
    BY <2>3, <1>a DEF ImportSkip, SkipChange
  <2>4. ASSUME NEW c \in h.todo, ImportAdopt(h, c) PROVE StillToPull'
    BY <2>0, <2>4, <1>b DEF ImportAdopt
  <2>5. ASSUME NEW c \in h.todo, ImportDecide(h, c) PROVE StillToPull'
    BY <1>h, <2>5, CheckedAdopts DEF ImportDecide
  <2>6. ASSUME NEW c \in h.held, ImportInsert(h, c) PROVE StillToPull'
    BY <2>0, <2>6
  <2> QED BY <1>4, <2>1, <2>2, <2>3, <2>4, <2>5, <2>6 DEF ImportStep
<1>5. ASSUME NEW n \in Node, PullStep(n) PROVE StillToPull'
  <2>0. round[n].todo \subseteq written /\ round[n].held = {}
    BY DEF IInvLww, Provenance, NothingHeld
  <2>1. CASE Fetch(n)
    BY <2>1, <1>r, <1>t, FetchBrings DEF IInvLww
  <2>2. CASE FetchFails(n)
    BY <2>2, <1>d DEF FetchFails
  <2>3. ASSUME NEW c \in round[n].todo, PullSkip(n, c) PROVE StillToPull'
    <3>1. round[n] \in Round /\ c.ver.ts <= db[n][c.row].ts
      BY <1>c, <1>h, <1>r, <2>0, <2>3 DEF PullSkip, Pulling, SkipChange, Newer
    <3>2. round' = [round EXCEPT ![n].todo = @ \ {c}] /\ UNCHANGED <<db, seen, written, cursor, pc>>
      BY <2>3 DEF PullSkip, SkipChange
    <3>3. /\ \A m \in Node \ {n} : round'[m] = round[m]
          /\ round'[n].peer = round[n].peer /\ round'[n].start = round[n].start
          /\ round'[n].todo = round[n].todo \ {c}
      BY <3>1, <3>2 DEF IInvTypes, TypeOK, Round
    <3> QED BY <3>1, <3>2, <3>3, <1>a
  <2>4. ASSUME NEW c \in round[n].todo, PullAdopt(n, c) PROVE StillToPull'
    <3>1. round[n] \in Round /\ AdoptChange(n, c) /\ c \in written
      BY <1>c, <2>0, <2>4 DEF PullAdopt, Pulling
    <3>2. /\ round' = [round EXCEPT ![n].todo = @ \ {c},
                                    ![n].applied = Later(@, c.ver.ts)]
          /\ UNCHANGED <<written, cursor, pc>>
      BY <2>4 DEF PullAdopt
    <3>3. /\ \A m \in Node \ {n} : round'[m] = round[m]
          /\ round'[n].peer = round[n].peer /\ round'[n].start = round[n].start
          /\ round'[n].todo = round[n].todo \ {c}
      BY <3>1, <3>2 DEF IInvTypes, TypeOK, Round
    <3> QED BY <3>1, <3>2, <3>3, <1>b
  <2>5. ASSUME NEW c \in round[n].todo, PullDecide(n, c) PROVE StillToPull'
    BY <1>h, <2>5, CheckedAdopts DEF PullDecide
  <2>6. ASSUME NEW c \in round[n].held, PullInsert(n, c) PROVE StillToPull'
    BY <2>0, <2>6
  <2>7. CASE FinishRound(n)
    BY <2>7, <1>t, FinishStaysBehind
  <2>8. CASE FinishUnsaved(n)
    BY <2>8, <1>d DEF FinishUnsaved
  <2> QED BY <1>5, <2>1, <2>2, <2>3, <2>4, <2>5, <2>6, <2>7, <2>8 DEF PullStep
<1>6. ASSUME NEW n \in Node, Crash(n) PROVE StillToPull'
  BY <1>6, <1>d DEF Crash
<1>7. CASE UNCHANGED vars
  BY <1>7, <1>a DEF vars
<1> QED BY <1>1, <1>2, <1>3, <1>4, <1>5, <1>6, <1>7 DEF Next

\* Every step leaves lost versions within reach, and a node's own where they are
\* until a newer one comes.
LEMMA PullStepInv ==
  ASSUME Dependable
  PROVE  IInvTypes /\ IInvCursor /\ IInvLww /\ IInvPush /\ IInvPull /\ [Next]_vars => IInvPull'
<1>1. Checked
  BY DEF Dependable
<1> QED BY <1>1, SeenWrittenStep, OwnUntilNewerStep, StillToPullStep DEF IInvPull, IInvPush

\* In a mesh in which a handler has applied what it acknowledges, checks are in
\* force and no two writers meet in a row or in a second, every cursor can be trusted at every step
\* of every round: the invariant all other results are read off.
THEOREM IInvTheorem ==
  ASSUME Dependable
  PROVE  Spec => []IInv
<1>h. Checked
  BY DEF Dependable
<1>1. IInvTypes /\ IInvLww /\ [Next]_vars => IInvLww'
  BY <1>h, LwwStep
<1>2. IInvTypes /\ IInvCursor /\ IInvRowData /\ [Next]_vars => IInvRowData'
  BY RowDataStep DEF IInvCursor
<1>3. IInvTypes /\ IInvCursor /\ IInvLww /\ IInvPush /\ [Next]_vars => IInvPush'
  BY PushStepInv
<1>4. IInvTypes /\ IInvCursor /\ IInvLww /\ IInvForward /\ [Next]_vars => IInvForward'
  BY <1>h, ForwardStep DEF IInvLww
<1>5. IInvTypes /\ IInvCursor /\ IInvLww /\ IInvPush /\ IInvPull /\ [Next]_vars => IInvPull'
  BY PullStepInv
<1>6. IInv /\ [Next]_vars => IInv'
  BY <1>1, <1>2, <1>3, <1>4, <1>5, TypesStep, CursorStep DEF IInv
<1>7. Init => IInv
  BY TypesInit, CursorInit, SeenInit, RowDataInit, LwwInit, PushInit, ForwardInit, PullInit
     DEF IInv, IInvRowData
<1> QED BY <1>6, <1>7, PTL DEF Spec

-----------------------------------------------------------------------------
(* Nothing left to exchange.                                                *)

\* Every node has every other in its registry.
AllKnown == \A n \in Node : Node \ {n} \subseteq Peers[n]

\* When nothing is left to exchange, nobody has lost a version to an older one:
\* its author would still have it to give.
LEMMA QuietHoldsNewest ==
  ASSUME AllKnown, IInvTypes, OwnWritesKept, StillToPull, Quiet,
         NEW n \in Node, NEW r \in Row
  PROVE  db[n][r].ts >= seen[n][r]
<1>1. db[n][r].ts \in Nat /\ seen[n][r] \in Nat
  BY RowStamps
<1>2. ASSUME FellBack(n, r) PROVE FALSE
  <2>1. PICK c \in written :
          /\ c.row = r /\ c.ver.ts = seen[n][r]
          /\ \A a \in Addr : Host[a] = c.ver.by => cursor[n][a] < seen[n][r]
    BY <1>2 DEF StillToPull
  <2> DEFINE p == c.ver.by
  <2>2. p \in Node /\ db[p][r].ts \in Nat /\ seen[n][r] <= db[p][r].ts
    BY <2>1, RowStamps DEF OwnWritesKept
  <2>3. p # n
    BY <1>1, <1>2, <2>2 DEF FellBack
  <2>4. PICK a \in Addr : Host[a] = p /\ db[p][r].ts <= cursor[n][a]
    BY <2>2, <2>3 DEF Quiet, AllKnown
  <2>5. cursor[n][a] \in Nat /\ cursor[n][a] < seen[n][r]
    BY <2>1, <2>4 DEF IInvTypes, TypeOK
  <2> QED BY <1>1, <2>2, <2>4, <2>5
<1> QED BY <1>1, <1>2 DEF FellBack

\* When nothing is left to exchange, what a node wrote itself every other node
\* holds, or something newer.
LEMMA QuietDelivered ==
  ASSUME AllKnown, IInvTypes, OwnWritesKept, NoOwnWriteSkipped, StillToPull, Quiet,
         NEW q \in Node, NEW n \in Node, NEW r \in Row, db[q][r].by = q
  PROVE  db[n][r].ts >= db[q][r].ts
<1>1. db[n][r].ts \in Nat /\ seen[n][r] \in Nat /\ db[q][r].ts \in Nat
  BY RowStamps
<1>2. CASE n = q
  BY <1>1, <1>2
<1>3. CASE n # q
  <2>1. PICK a \in Addr : Host[a] = n /\ db[q][r].ts <= cursor[q][a]
    BY <1>3 DEF Quiet, AllKnown
  <2>2. seen[n][r] >= db[q][r].ts
    BY <2>1 DEF NoOwnWriteSkipped
  <2>3. db[n][r].ts >= seen[n][r]
    BY QuietHoldsNewest
  <2> QED BY <1>1, <2>2, <2>3
<1> QED BY <1>2, <1>3

\* Some node holds a version of the row no other version in the mesh is newer than.
LEMMA NewestVersion ==
  ASSUME AllKnown, IInvTypes, CursorNotAhead, Quiet, NEW n \in Node, NEW r \in Row
  PROVE  \E q \in Node : \A p \in Node : db[p][r].ts <= db[q][r].ts
<1> DEFINE top == Clock(n) + db[n][r].ts
           behind(q) == top - db[q][r].ts
           T == {behind(q) : q \in Node}
<1>1. \A q \in Node : db[q][r].ts \in Nat
  BY RowStamps
<1>2. top \in Nat /\ Clock(n) \in Nat
  BY <1>1, RowStamps
<1>3. ASSUME NEW q \in Node PROVE db[q][r].ts <= top
  <2>1. CASE q = n
    BY <1>1, <1>2, <2>1
  <2>2. CASE q # n
    <3>1. PICK a \in Addr : db[q][r].ts <= cursor[n][a]
      BY <2>2 DEF Quiet, AllKnown
    <3>2. cursor[n][a] \in Nat /\ cursor[n][a] <= Clock(n)
      BY DEF IInvTypes, TypeOK, CursorNotAhead
    <3> QED BY <1>1, <1>2, <3>1, <3>2
  <2> QED BY <2>1, <2>2
<1>4. T \subseteq Nat /\ T # {}
  BY <1>1, <1>2, <1>3
<1>5. PICK k \in T : \A m \in T : k <= m
  <2> HIDE DEF T
  <2> QED BY <1>4, LeastNumber
<1>6. PICK q \in Node : k = behind(q)
  BY <1>5
<1>7. \A p \in Node : behind(q) <= behind(p)
  BY <1>5, <1>6
<1> QED BY <1>1, <1>2, <1>7

\* In a mesh of any size in which every node has every other in its registry,
\* whatever was lost, delayed or cut short before and however far the clocks are
\* apart: when no round would exchange a row, all nodes hold equally new rows
\* (sync.rs, one cursor for the push and the pull).
THEOREM QuietAgreesTheorem ==
  ASSUME Dependable, AllKnown
  PROVE  Spec => []QuietAgrees
<1>1. ASSUME IInv PROVE QuietAgrees
  <2> USE <1>1 DEF IInv
  <2> SUFFICES ASSUME Quiet, NEW m \in Node, NEW p \in Peers[m], NEW r \in Row
               PROVE  db[m][r].ts = db[p][r].ts
    BY DEF QuietAgrees
  <2>0. p \in Node
    BY PeersAssumption
  <2>a. \A n \in Node : db[n][r].ts \in Nat
    BY RowStamps
  <2>i. /\ OwnWritesKept /\ Provenance /\ NoOwnWriteSkipped /\ CursorNotAhead
        /\ OwnUntilNewer /\ StillToPull
    BY DEF IInvLww, IInvPush, IInvCursor, IInvPull
  <2>1. PICK q \in Node : \A n \in Node : db[n][r].ts <= db[q][r].ts
    BY <2>i, NewestVersion
  <2>2. ASSUME NEW n \in Node PROVE db[n][r].ts = db[q][r].ts
    <3>1. CASE db[q][r].ts = None
      BY <2>a, <2>1, <3>1 DEF None
    <3>2. CASE db[q][r].ts # None
      <4> DEFINE w == [row |-> r, ver |-> db[q][r]]
                 author == db[q][r].by
      <4>1. w \in written /\ author \in Node
        BY <2>i, <3>2, RowStamps DEF Provenance
      <4>2. db[author][r].ts = db[q][r].ts
        BY <2>a, <2>i, <2>1, <4>1 DEF OwnWritesKept
      <4>3. db[author][r].by = author
        BY <2>i, <4>1, <4>2 DEF OwnUntilNewer
      <4>4. db[n][r].ts >= db[author][r].ts
        BY <2>i, <4>1, <4>3, QuietDelivered
      <4> QED BY <2>a, <2>1, <4>1, <4>2, <4>4
    <3> QED BY <3>1, <3>2
  <2> QED BY <2>0, <2>2
<1> QED BY <1>1, IInvTheorem, PTL

\* No two writes of a row carry the same stamp.
StampsUnique ==
  \A c, d \in written : c.row = d.row /\ c.ver.ts = d.ver.ts => c = d

\* In a mesh that is Dependable, two writes of a row in one second are all that
\* can leave such nodes with different rows: where stamps tell the writes of a row apart, nodes that
\* have nothing left to exchange hold the same versions (the strict comparison
\* of apply_changes, sync_apply.rs).
THEOREM QuietSameTheorem ==
  ASSUME Dependable, AllKnown
  PROVE  Spec => [](Quiet /\ StampsUnique =>
                      \A n, p \in Node, r \in Row : db[n][r] = db[p][r])
<1>1. ASSUME IInv, QuietAgrees, Quiet, StampsUnique,
             NEW n \in Node, NEW p \in Node, NEW r \in Row
      PROVE  db[n][r] = db[p][r]
  <2>0. IInvTypes /\ Provenance
    BY <1>1 DEF IInv, IInvLww
  <2>1. db[n][r].ts = db[p][r].ts
    <3>1. CASE n = p
      BY <3>1
    <3>2. CASE n # p
      BY <1>1, <3>2 DEF AllKnown, QuietAgrees
    <3> QED BY <3>1, <3>2
  <2>2. CASE db[n][r].ts = None
    <3>1. ASSUME NEW v \in Version \cup {NoVersion}, v.ts = None PROVE v = NoVersion
      BY <3>1 DEF Version, NoVersion, Stamp, None
    <3>2. db[n][r] \in Version \cup {NoVersion} /\ db[p][r] \in Version \cup {NoVersion}
      BY <2>0 DEF IInvTypes, TypeOK
    <3> QED BY <2>1, <2>2, <3>1, <3>2
  <2>3. CASE db[n][r].ts # None
    <3> DEFINE c == [row |-> r, ver |-> db[n][r]]
               d == [row |-> r, ver |-> db[p][r]]
    <3>1. c \in written /\ d \in written
      BY <2>0, <2>1, <2>3 DEF Provenance
    <3>2. c.row = d.row /\ c.ver.ts = d.ver.ts
      BY <2>1
    <3>3. c = d
      <4> HIDE DEF c, d
      <4> QED BY <1>1, <3>1, <3>2 DEF StampsUnique
    <3>4. c.ver = d.ver
      BY <3>3
    <3> QED BY <3>4
  <2> QED BY <2>2, <2>3
<1>2. IInv /\ QuietAgrees =>
        (Quiet /\ StampsUnique => \A n, p \in Node, r \in Row : db[n][r] = db[p][r])
  BY <1>1
<1> QED BY <1>2, IInvTheorem, QuietAgreesTheorem, PTL
=============================================================================
