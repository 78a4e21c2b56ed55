------------------------------ MODULE AVLTree ------------------------------
(***************************************************************************)
(* Trees/AVL/AVL.c: a search tree that means to be an AVL tree.  A tree is *)
(* Nil or a node with its stored height, its key and its two subtrees; an  *)
(* operation of the C code on a pointer to a root is a function from the   *)
(* tree before to the tree after.  Following a null pointer gives Crash.   *)
(***************************************************************************)
EXTENDS Integers, FiniteSets

CONSTANTS Nil,      \* the null pointer
          Crash,    \* what is left after following one
          Nothing,  \* no key, or no value
          Keys,     \* bound: the keys used
          MaxNodes  \* bound: nodes in the tree

VARIABLES tree,     \* *root
          crashed,  \* the process has died following a null pointer
          answer    \* the last call, its key, and the result: found or done, or not

vars == <<tree, crashed, answer>>

Reply(call, data, ok) == [call |-> call, key |-> data, value |-> Nothing, ok |-> ok]

Init == tree = Nil /\ crashed = FALSE /\ answer = Reply("clear", Nothing, TRUE)

Node(h, d, l, r) == [height |-> h, data |-> d, left |-> l, right |-> r]

getheight(t) == IF t = Nil THEN 0 ELSE t.height

(* Something has crashed at the tree or just below it. *)
Broken(t) == t = Crash \/ (t # Nil /\ (t.left = Crash \/ t.right = Crash))

left_rotateForgets(t) ==     \* fault: the inner subtree is not handed over
  IF t = Nil \/ Broken(t) \/ t.right = Nil THEN Crash
  ELSE [t.right EXCEPT !.left = [t EXCEPT !.right = Nil]]

left_rotate(t) ==
  IF t = Nil \/ Broken(t) \/ t.right = Nil THEN Crash
  ELSE [t.right EXCEPT !.left = [t EXCEPT !.right = t.right.left]]

right_rotate(t) ==
  IF t = Nil \/ Broken(t) \/ t.left = Nil THEN Crash
  ELSE [t.left EXCEPT !.right = [t EXCEPT !.left = t.left.right]]

(* The last assignment of insert_node: the larger height, without the node *)
(* itself.                                                                 *)
InsertedHeight(t) ==
  LET l == getheight(t.left) r == getheight(t.right)
  IN  [t EXCEPT !.height = IF l > r THEN l ELSE r]

(* That of remove_node.  The macro MAX has no parentheses around its body, *)
(* so that + 1 belongs to its second branch only.                          *)
RemovedHeight(t) ==
  LET l == getheight(t.left) r == getheight(t.right)
  IN  [t EXCEPT !.height = IF l > r THEN l ELSE r + 1]

(* Rebalancing after an insertion on the right and on the left. *)
InsertedRight(t, data) ==
  IF getheight(t.right) - getheight(t.left) # 2 THEN t
  ELSE IF t.right.data < data THEN left_rotate(t)
  ELSE left_rotate([t EXCEPT !.right = right_rotate(t.right)])

InsertedLeft(t, data) ==
  IF getheight(t.left) - getheight(t.right) # 2 THEN t
  ELSE IF t.left.data > data THEN right_rotate(t)
  ELSE right_rotate([t EXCEPT !.right = left_rotate(t.right)])

RECURSIVE insert_node(_, _)
insert_node(t, data) ==
  IF t = Nil THEN Node(1, data, Nil, Nil)
  ELSE IF t.data < data
  THEN LET u == [t EXCEPT !.right = insert_node(t.right, data)]
           v == IF Broken(u) THEN Crash ELSE InsertedRight(u, data)
       IN  IF Broken(v) THEN Crash ELSE InsertedHeight(v)
  ELSE LET u == [t EXCEPT !.left = insert_node(t.left, data)]
           v == IF Broken(u) THEN Crash ELSE InsertedLeft(u, data)
       IN  IF Broken(v) THEN Crash ELSE InsertedHeight(v)

RECURSIVE findmin(_)
findmin(t) == IF t.left = Nil THEN t.data ELSE findmin(t.left)

(* Rebalancing after a removal on the right and on the left. *)
RemovedRight(t) ==
  IF getheight(t.left) - getheight(t.right) # 2 THEN t
  ELSE IF getheight(t.left.left) >= getheight(t.left.right) THEN right_rotate(t)
  ELSE right_rotate([t EXCEPT !.left = left_rotate(t.left)])

RemovedLeft(t) ==
  IF getheight(t.right) - getheight(t.left) # 2 THEN t
  ELSE IF getheight(t.right.right) >= getheight(t.right.left) THEN left_rotate(t)
  ELSE left_rotate([t EXCEPT !.right = right_rotate(t.right)])

RECURSIVE find(_, _)
find(t, data) ==
  t # Nil /\ (t.data = data \/ find(IF t.data < data THEN t.right ELSE t.left, data))

(* For a key that find finds; otherwise nothing changes. *)
RECURSIVE remove_node(_, _)
remove_node(t, data) ==
  IF t.data = data /\ (t.left = Nil \/ t.right = Nil)
  THEN IF t.left = Nil THEN t.right ELSE t.left
  ELSE LET key == IF t.data = data THEN findmin(t.right) ELSE data
           u == IF t.data <= data
                THEN [t EXCEPT !.data = IF t.data = data THEN key ELSE @,
                               !.right = remove_node(t.right, key)]
                ELSE [t EXCEPT !.left = remove_node(t.left, data)]
           v == IF Broken(u) THEN Crash
                ELSE IF t.data <= data THEN RemovedRight(u) ELSE RemovedLeft(u)
       IN  IF Broken(v) THEN Crash ELSE RemovedHeight(v)

RECURSIVE Elements(_)
Elements(t) ==
  IF t = Nil THEN {} ELSE Elements(t.left) \cup {t.data} \cup Elements(t.right)

-----------------------------------------------------------------------------
(* One call, which either returns or follows a null pointer. *)
Call(t, reply) ==
  /\ ~crashed
  /\ IF t = Crash
     THEN crashed' = TRUE /\ UNCHANGED <<tree, answer>>
     ELSE tree' = t /\ answer' = reply /\ UNCHANGED crashed

Insert(data) ==
  /\ Cardinality(Elements(tree)) < MaxNodes
  /\ IF find(tree, data) THEN Call(tree, Reply("insert", data, FALSE))
     ELSE Call(insert_node(tree, data), Reply("insert", data, TRUE))

(* malloc gives nothing: -1, as for a key that is there, and no change. *)
InsertFails(data) == Call(tree, Reply("refuse", data, FALSE))

Remove(data) ==
  IF find(tree, data) THEN Call(remove_node(tree, data), Reply("delete", data, TRUE))
  ELSE Call(tree, Reply("delete", data, FALSE))

Find(data) == Call(tree, Reply("find", data, find(tree, data)))

destroy == Call(Nil, Reply("clear", Nothing, TRUE))

Next ==
  \/ \E data \in Keys : Insert(data) \/ InsertFails(data) \/ Remove(data) \/ Find(data)
  \/ destroy

Spec == Init /\ [][Next]_vars

-----------------------------------------------------------------------------
(* Properties. *)

(* However wrong the stored heights are and whatever rotations they cause, *)
(* the tree stays a search tree: up to a crash it answers each call, for   *)
(* the key of the call, like a set of the keys inserted and not removed    *)
(* since, and a failed insertion is one that nobody made.                  *)
Set == INSTANCE Dictionary WITH Values <- {Nothing},
                                map <- [k \in Elements(tree) |-> Nothing]
RefinesSet == Set!Spec

(* No call follows a null pointer.  insert_node does: in the case of a     *)
(* left child with an inner insertion it rotates the right child.          *)
NeverCrashes == ~crashed
=============================================================================
