------------------------- MODULE CapabilityPromise -------------------------
(***************************************************************************)
(* What a client of the capability registry may rely on, told by the calls  *)
(* and their answers alone: there is no table.                              *)
(*                                                                          *)
(* A declaration a reader is shown comes from a call that nobody overruled: *)
(* a call is overruled by one that began after it had ended, that says      *)
(* something of the same capability, and that was answered with success.    *)
(* Of a call answered with success the last word on a capability counts; of *)
(* one that failed, or is under way, any word it contains, or none.         *)
(***************************************************************************)
EXTENDS CapabilityTypes

CONSTANTS Call

VARIABLES
  state,    \* state[c]: "new", "open", "ok" or "failed"
  asked,    \* asked[c]: the request of a call that is no longer new
  earlier,  \* earlier[c]: the calls that had ended when c began
  shown     \* the table a reader was shown and what it is told of it, if any

promiseVars == <<state, asked, earlier, shown>>

Request == [op : {"register"}, peer : Peer, list : Lists]
             \cup [op : {"remove"}, peer : Peer]

NoRequest == [op |-> "none"]

Begun == {c \in Call : state[c] # "new"}
Over == {c \in Call : state[c] \in {"ok", "failed"}}

\* The places at which a registration declares capability k.
Places(r, k) == {i \in DOMAIN r.list : r.list[i].name = k}

\* Whether a request says anything of capability k of peer p.
Concerns(r, p, k) == /\ r.peer = p
                     /\ r.op = "register" => Places(r, k) # {}

\* What a call may have left in the row of capability k.
Words(c, k) ==
  IF asked[c].op = "remove" THEN {NoRow}
  ELSE {asked[c].list[i] :
          i \in {i \in Places(asked[c], k) :
                   state[c] = "ok" => \A j \in Places(asked[c], k) : j <= i}}

Overrules(d, c) == state[d] = "ok" /\ c \in earlier[d]

\* The words of the calls on the row that nobody overruled; nothing, as long as
\* no call on the row has succeeded.
Legal(p, k) ==
  LET calls == {c \in Begun : Concerns(asked[c], p, k)}
  IN (UNION {Words(c, k) : c \in {c \in calls : ~\E d \in calls : Overrules(d, c)}})
       \cup {w \in {NoRow} : \A d \in calls : state[d] # "ok"}

LegalView(view) == /\ view \in View
                   /\ \A p \in Peer, k \in Cap : view[p][k] \in Legal(p, k)

-----------------------------------------------------------------------------
Init ==
  /\ state = [c \in Call |-> "new"]
  /\ asked = [c \in Call |-> NoRequest]
  /\ earlier = [c \in Call |-> {}]
  /\ shown = <<>>

Begin(c, r, s) ==
  /\ state[c] = "new"
  /\ state' = [state EXCEPT ![c] = s]
  /\ asked' = [asked EXCEPT ![c] = r]
  /\ earlier' = [earlier EXCEPT ![c] = Over]
  /\ shown' = <<>>

Succeed(c) ==
  /\ state[c] = "open"
  /\ state' = [state EXCEPT ![c] = "ok"]
  /\ UNCHANGED <<asked, earlier>> /\ shown' = <<>>

\* Any number of open calls at once: a crash ends them all.
Fail(C) ==
  /\ \A c \in C : state[c] = "open"
  /\ state' = [c \in Call |-> IF c \in C THEN "failed" ELSE state[c]]
  /\ UNCHANGED <<asked, earlier>> /\ shown' = <<>>

\* A reader is shown a table made of legal rows.
Show ==
  /\ shown' # <<>>
  /\ LegalView(shown'[1]) /\ shown'[2] \in Answers(shown'[1])
  /\ UNCHANGED <<state, asked, earlier>>

\* The reader has its answer; nothing else happens.
Forget == UNCHANGED <<state, asked, earlier>> /\ shown' = <<>>

Next ==
  \/ \E c \in Call : \/ \E r \in Request : Begin(c, r, "open") \/ Begin(c, r, "failed")
                     \/ Succeed(c)
  \/ \E C \in SUBSET Call : Fail(C)
  \/ Forget
  \/ Show

Spec == Init /\ [][Next]_promiseVars
=============================================================================
