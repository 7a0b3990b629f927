---------------------------- MODULE SelectionLine ----------------------------
(***************************************************************************)
(* What the strategy center promises its users: everyone who joined has    *)
(* one selection and at most one that is to follow it; a selection is only *)
(* ever replaced by the one that follows it, together with everything its  *)
(* user is shown; what was replaced or given up never comes back.          *)
(***************************************************************************)
EXTENDS Naturals

CONSTANTS
  Users,
  Ids,     \* selections
  Rows     \* what a user can be shown

VARIABLES
  current, \* the selection of every user, 0 before the first
  next,    \* the one that is to follow it, or 0
  past,    \* the ones that were replaced or given up
  view     \* what every user is shown

lvars == <<current, next, past, view>>

Init ==
  /\ current = [u \in Users |-> 0]
  /\ next = [u \in Users |-> 0]
  /\ past = {}
  /\ view \in [Users -> Rows]

New(r) == r \notin past /\ \A u \in Users : r # current[u] /\ r # next[u]

Join(u, r) ==
  /\ current[u] = 0 /\ New(r)
  /\ current' = [current EXCEPT ![u] = r]
  /\ UNCHANGED <<next, past, view>>

Follow(u, r) ==
  /\ current[u] # 0 /\ next[u] = 0 /\ New(r)
  /\ next' = [next EXCEPT ![u] = r]
  /\ UNCHANGED <<current, past, view>>

GiveUp(u) ==
  /\ next[u] # 0
  /\ past' = past \cup {next[u]}
  /\ next' = [next EXCEPT ![u] = 0]
  /\ UNCHANGED <<current, view>>

Replace(u) ==
  /\ next[u] # 0
  /\ past' = past \cup {current[u]}
  /\ current' = [current EXCEPT ![u] = next[u]]
  /\ next' = [next EXCEPT ![u] = 0]
  /\ \E rows \in Rows : view' = [view EXCEPT ![u] = rows]

Refresh(u) ==
  /\ current[u] # 0
  /\ \E rows \in Rows : view' = [view EXCEPT ![u] = rows]
  /\ UNCHANGED <<current, next, past>>

Next ==
  \E u \in Users :
    \/ \E r \in Ids : Join(u, r) \/ Follow(u, r)
    \/ GiveUp(u) \/ Replace(u) \/ Refresh(u)

Spec == Init /\ [][Next]_lvars
=============================================================================
