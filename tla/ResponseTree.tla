---------------------------- MODULE ResponseTree ----------------------------
(***************************************************************************)
(* What the store of responses promises whoever continues one: responses   *)
(* form a tree that only grows.  A response is added once, whole, under a  *)
(* response that is there or under none; it is never changed, and never    *)
(* taken away.                                                             *)
(***************************************************************************)
EXTENDS Integers

CONSTANTS
  Ids,    \* names of responses, positive integers; 0 stands for no response
  Items   \* what a response may consist of

VARIABLE tree   \* the responses there are, each with the one it continues

Node(n) == n.prev \in DOMAIN tree \cup {0} /\ n.items \in Items

Init ==
  /\ DOMAIN tree \subseteq Ids
  /\ \A i \in DOMAIN tree : Node(tree[i])

Add(i) ==
  /\ i \notin DOMAIN tree
  /\ DOMAIN tree' = DOMAIN tree \cup {i}
  /\ \A j \in DOMAIN tree : tree'[j] = tree[j]
  /\ Node(tree'[i])

Next == \E i \in Ids : Add(i)

Spec == Init /\ [][Next]_tree
=============================================================================
