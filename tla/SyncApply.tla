----------------------------- MODULE SyncApply -----------------------------
(***************************************************************************)
(* The pure part of row replication (sync_apply.rs, sync_cursor.rs): what   *)
(* a node exports, when an imported change wins over the local row, and     *)
(* where the cursor of a peer moves after a round.                          *)
(*                                                                          *)
(* One replicated table.  A row's content is abstracted to its version: the *)
(* `updated_at` stamp, in seconds, and the node whose write it was.         *)
(***************************************************************************)
EXTENDS Integers

CONSTANTS Node,     \* the daemons of the mesh
          Row,      \* primary keys of the table
          Nobody    \* the author of a row that does not exist

ASSUME NobodyAssumption == Nobody \notin Node

None == 0           \* no stamp: below every stamp, like Option::None
Stamp == Nat \ {None}

Version == [ts : Stamp, by : Node]
NoVersion == [ts |-> None, by |-> Nobody]

\* A SyncChange on the wire: the row's key and its version.
Change == [row : Row, ver : Version]

Later(s, t) == IF s >= t THEN s ELSE t
Earlier(s, t) == IF s < t THEN s ELSE t

-----------------------------------------------------------------------------
\* Plausible slips in the definitions that follow.

NewerOrEqual(c, rows) == c.ver.ts >= rows[c.row].ts

AlwaysNewer(c, rows) == TRUE

UncappedCursor(prev, exported, applied, start) ==
  Later(prev, Later(exported, applied))

ForgetsCursor(prev, exported, applied, start) ==
  Earlier(Later(exported, applied), start)

WallClockCursor(prev, exported, applied, start) == Later(prev, start)

-----------------------------------------------------------------------------
\* The rows stamped strictly after `since`; all of them when there is no cursor.
ChangesSince(rows, since) ==
  {[row |-> r, ver |-> rows[r]] : r \in {q \in Row : rows[q].ts > since}}

\* Last writer wins: a change replaces the local row if it is strictly newer.
Newer(c, rows) == c.ver.ts > rows[c.row].ts

\* `m` is the newest stamp among the changes, None if there are none.
IsNewest(m, changes) ==
  /\ m \in {None} \cup {c.ver.ts : c \in changes}
  /\ \A c \in changes : c.ver.ts <= m

\* The newest stamp that crossed the wire, but not later than the start of
\* the round and not earlier than the previous cursor.
ComputeNewCursor(prev, exported, applied, start) ==
  LET candidate == Later(exported, applied)
  IN  IF candidate = None THEN prev ELSE Later(prev, Earlier(candidate, start))
=============================================================================
