---------------------------- MODULE MeshSyncInv -----------------------------
(***************************************************************************)
(* The inductive invariants behind the properties of MeshSync.  Each layer  *)
(* is inductive together with the layers before it.                         *)
(***************************************************************************)
EXTENDS MeshSync

\* A client that waits for a reply is a loop that has posted, and waits for
\* one reply only.
WaitingOK ==
  \A h \in posts : h.waiting =>
    /\ pc[h.src] = "posted"
    /\ Host[round[h.src].peer] = h.dst
    /\ \A g \in posts : g.waiting /\ g.src = h.src => g = h

\* The state has its types, and replies are for loops that wait.
IInvTypes == TypeOK /\ WaitingOK

\* A round started in the past and runs on the cursor it could have read.
RoundOK ==
  \A n \in Node : pc[n] # "idle" =>
    /\ round[n].start <= Clock(n)
    /\ round[n].since \in ReadCursor(n, round[n].peer)

\* No cursor is ahead of its node's clock, nor is a round's start.
IInvCursor == RoundOK /\ CursorNotAhead

\* Nothing is older than what was seen of it.
SeenOK == \A n \in Node, r \in Row : seen[n][r] >= db[n][r].ts

\* A stamp the node had in hand: None, or one its rows have reached.
Reached(n, s) == s # None => \E r \in Row : seen[n][r] >= s

\* The stamps a cursor is computed from were reached by the node's rows.
StampsReached ==
  \A n \in Node : /\ Reached(n, round[n].exported)
                  /\ Reached(n, round[n].applied)

IInvRowData == SeenOK /\ StampsReached /\ CursorFromRowData

\* Every version anywhere, at rest or under way, was written by its author.
Provenance ==
  /\ \A n \in Node, r \in Row :
       db[n][r].ts # None => [row |-> r, ver |-> db[n][r]] \in written
  /\ \A n \in Node : round[n].todo \subseteq written
  /\ \A h \in posts : h.todo \subseteq written

\* Authors stamp with their own clock, which only moves forward.
StampsInPast == \A c \in written : c.ver.ts <= Clock(c.ver.by)

\* Without interleaving no change waits between its check and its insert.
NothingHeld == /\ \A n \in Node : round[n].held = {}
               /\ \A h \in posts : h.held = {}

\* What makes an import of a node's own old version a no-op there.
IInvLww == Provenance /\ StampsInPast /\ NothingHeld /\ OwnWritesKept

\* Of the rows a node wrote itself, those in reach of the new cursor have got
\* to the peer, or are in the request the loop waits for.
Delivered(n, r) ==
  \/ seen[Host[round[n].peer]][r] >= db[n][r].ts
  \/ /\ pc[n] = "posted"
     /\ \A h \in posts : h.src = n /\ h.waiting =>
          [row |-> r, ver |-> db[n][r]] \in h.todo

PushedOK ==
  \A n \in Node, r \in Row :
    /\ pc[n] \in {"posted", "fetch", "apply"}
    /\ db[n][r].by = n
    /\ round[n].since < db[n][r].ts
    /\ db[n][r].ts <= round[n].start
    => Delivered(n, r)

\* No row a node wrote is between its cursor and what its peer has.
IInvPush == SeenOK /\ PushedOK /\ NoOwnWriteSkipped

\* Some row of n is at least as new as the stamp s.
Backed(n, s) == s # None => \E r \in Row : db[n][r].ts >= s

\* Whatever a round read as its cursor, what it has in hand after the export
\* leads back to the cursor it will replace.
RoundForward(n) ==
  pc[n] # "idle" =>
    /\ cursor[n][round[n].peer] <= round[n].start
    /\ Backed(n, Earlier(round[n].exported, round[n].start))
    /\ Backed(n, Earlier(round[n].applied, round[n].start))
    /\ pc[n] # "export" =>
         cursor[n][round[n].peer] <=
           Later(round[n].since, Earlier(round[n].exported, round[n].start))

\* The rows of a node keep pace with its cursors.
IInvForward ==
  /\ \A n \in Node, a \in Addr : Backed(n, cursor[n][a])
  /\ \A n \in Node : RoundForward(n)

\* A node whose clock is behind has overwritten a row with an older stamp.
FellBack(n, r) == db[n][r].ts < seen[n][r]

\* A round of n with p that is open will bring row r back, or not move the
\* cursor that far.
Returns(n, r, p) ==
  pc[n] # "idle" /\ Host[round[n].peer] = p =>
    \/ round[n].start < seen[n][r]
    \/ pc[n] # "apply"
    \/ \E c \in round[n].todo : c.row = r /\ c.ver.ts >= seen[n][r]

\* Whoever wrote the version that was overwritten is not done with: the cursors
\* for it are still behind that version.
StillToPull ==
  \A n \in Node, r \in Row : FellBack(n, r) =>
    \E c \in written :
      /\ c.row = r /\ c.ver.ts = seen[n][r]
      /\ \A a \in Addr : Host[a] = c.ver.by => cursor[n][a] < seen[n][r]
      /\ Returns(n, r, c.ver.by)

\* What a node has seen of a row is a version that was written.
SeenWritten ==
  \A n \in Node, r \in Row : seen[n][r] # None =>
    \E c \in written : c.row = r /\ c.ver.ts = seen[n][r]

\* Only a newer version takes the place of a node's own.
OwnUntilNewer ==
  \A c \in written :
    c.ver.ts = db[c.ver.by][c.row].ts => db[c.ver.by][c.row].by = c.ver.by

\* A version no node may hold any more can still be had from its author.
IInvPull == SeenWritten /\ OwnUntilNewer /\ StillToPull

\* The inductive invariant of a mesh in which what a handler acknowledges it has
\* applied, and no two writers meet in a row or in a second: every cursor can be
\* trusted at every step of every round.
IInv == /\ IInvTypes /\ IInvCursor /\ IInvRowData /\ IInvLww
        /\ IInvPush /\ IInvForward /\ IInvPull
=============================================================================
