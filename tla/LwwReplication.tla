-------------------------- MODULE LwwReplication ---------------------------
(***************************************************************************)
(* What row replication promises, with no rounds, cursors or messages: a    *)
(* replica changes a row only by a write of its own node, or by adopting a  *)
(* version some node wrote that is strictly newer than the one it holds.    *)
(* A node's own write never carries an older stamp than its earlier ones.   *)
(***************************************************************************)
EXTENDS SyncApply

VARIABLES db,       \* db[n][r]: the version of row r at node n
          written   \* every change a node ever made to its own replica

lwwVars == <<db, written>>

Init == /\ db = [n \in Node |-> [r \in Row |-> NoVersion]]
        /\ written = {}

Put(n, c) == db' = [db EXCEPT ![n][c.row] = c.ver]

Write(n, r) ==
  LET c == [row |-> r, ver |-> db'[n][r]]
  IN  /\ Put(n, c)
      /\ c.ver \in [ts : Stamp, by : {n}]
      /\ \A w \in written : w.ver.by = n => w.ver.ts <= c.ver.ts
      /\ written' = written \cup {c}

Adopt(n, c) ==
  /\ c \in written
  /\ c.ver.ts > db[n][c.row].ts
  /\ Put(n, c)
  /\ UNCHANGED written

Next == \E n \in Node : \/ \E r \in Row : Write(n, r)
                        \/ \E c \in written : Adopt(n, c)

Spec == Init /\ [][Next]_lwwVars
=============================================================================
