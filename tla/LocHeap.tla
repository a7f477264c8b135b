------------------------------ MODULE LocHeap ------------------------------
(* The heap of LocHeap.cpp: a binary tree that pushes into its smaller     *)
(* side and never rebalances.  A tree is <<>> or a sequence of one node;   *)
(* time[x] ranks x, the sooner the higher.                                 *)
EXTENDS Naturals, Sequences, FiniteSets

OutRanks(time, x, y) == time[x] < time[y]

Leaf(x)  == <<[data |-> x, size |-> 1, left |-> <<>>, right |-> <<>>]>>

SizeOf(tree) == IF tree = <<>> THEN 0 ELSE tree[1].size

RECURSIVE Members(_)
Members(tree) ==
  IF tree = <<>> THEN {}
  ELSE {tree[1].data} \cup Members(tree[1].left) \cup Members(tree[1].right)

(* The tops of t in a sequence of at most one.                             *)
Peek(tree) == [i \in 1 .. Len(tree) |-> tree[i].data]

(* A bug to catch: the node comes to rest below without a comparison.      *)
RECURSIVE PushUnranked(_, _, _)
PushUnranked(time, tree, x) ==
  IF tree = <<>> THEN Leaf(x)
  ELSE LET top  == tree[1]
           side == IF SizeOf(top.left) <= SizeOf(top.right)
                   THEN "left" ELSE "right"
       IN <<[top EXCEPT !.size = @ + 1,
                        ![side] = PushUnranked(time, @, x)]>>

(* The datum that ranks lower goes on into the left side while that is     *)
(* empty, then into the right side, then into the smaller one.             *)
RECURSIVE Push(_, _, _)
Push(time, tree, x) ==
  IF tree = <<>> THEN Leaf(x)
  ELSE LET top   == tree[1]
           swaps == OutRanks(time, x, top.data)
           down  == IF swaps THEN top.data ELSE x
           side  == IF SizeOf(top.left) <= SizeOf(top.right) \/ top.left = <<>>
                    THEN IF top.left # <<>> /\ top.right = <<>>
                         THEN "right" ELSE "left"
                    ELSE "right"
       IN <<[top EXCEPT !.data  = IF swaps THEN x ELSE @,
                        !.size  = @ + 1,
                        ![side] = Push(time, @, down)]>>

(* The side whose top follows.                                             *)
Successor(time, top) ==
  CASE top.left = <<>>  -> "right"
    [] top.right = <<>> -> "left"
    [] OTHER -> IF OutRanks(time, top.left[1].data, top.right[1].data)
                THEN "left" ELSE "right"

(* Without its top: each node on the way down takes its successor's datum, *)
(* and the leaf at the end goes.                                           *)
RECURSIVE Pop(_, _)
Pop(time, tree) ==
  LET top == tree[1] IN
  IF top.left = <<>> /\ top.right = <<>> THEN <<>>
  ELSE LET side == Successor(time, top)
       IN <<[top EXCEPT !.data  = top[side][1].data,
                        !.size  = @ - 1,
                        ![side] = Pop(time, @)]>>

(* A bug to catch: a search that expects a datum above its equals.         *)
RECURSIVE RemoveAboveEquals(_, _, _)
RemoveAboveEquals(time, tree, x) ==
  IF tree = <<>> THEN <<>>
  ELSE LET top == tree[1] IN
       IF top.data = x THEN Pop(time, tree)
       ELSE IF x \notin Members(tree) \/ time[x] <= time[top.data] THEN tree
       ELSE LET side == IF x \in Members(top.left) THEN "left" ELSE "right"
            IN <<[top EXCEPT !.size = @ - 1,
                             ![side] = RemoveAboveEquals(time, @, x)]>>

(* The node is sought in the left side first, and not below a datum that   *)
(* it outranks.                                                            *)
RECURSIVE Remove(_, _, _)
Remove(time, tree, x) ==
  IF tree = <<>> THEN <<>>
  ELSE LET top  == tree[1]
           left == Remove(time, top.left, x)
           side == IF left # top.left THEN "left" ELSE "right"
           rest == IF side = "left" THEN left ELSE Remove(time, top.right, x)
       IN CASE top.data = x -> Pop(time, tree)
            [] OutRanks(time, x, top.data) -> tree
            [] OTHER -> IF rest = top[side] THEN tree
                        ELSE <<[top EXCEPT !.size = @ - 1, ![side] = rest]>>

(* What the heap's own unit-test hook checks.                              *)
RECURSIVE CheckNodes(_, _)
CheckNodes(time, tree) ==
  tree # <<>> =>
    LET top == tree[1] IN
    /\ top.size = 1 + SizeOf(top.left) + SizeOf(top.right)
    /\ \A side \in {"left", "right"} :
         /\ top[side] # <<>> => ~OutRanks(time, top[side][1].data, top.data)
         /\ CheckNodes(time, top[side])

RECURSIVE Pushed(_, _)
Pushed(time, n) ==
  IF n = 0 THEN <<>> ELSE Push(time, Pushed(time, n - 1), n)

RECURSIVE Drained(_, _)
Drained(time, tree) ==
  IF tree = <<>> THEN <<>>
  ELSE Peek(tree) \o Drained(time, Pop(time, tree))

(* The reference: whatever was pushed comes out once each, the sooner the  *)
(* earlier, and without whatever was removed in between.                   *)
Sorts(time, tree, members) ==
  LET out == Drained(time, tree) IN
  /\ CheckNodes(time, tree)
  /\ Len(out) = Cardinality(members)
  /\ {out[i] : i \in DOMAIN out} = members
  /\ \A i, j \in DOMAIN out : i < j => time[out[i]] <= time[out[j]]

IsPriorityQueue(time) ==
  LET all  == DOMAIN time
      tree == Pushed(time, Len(time))
  IN /\ Sorts(time, tree, all)
     /\ \A x \in all :
          LET rest == Remove(time, tree, x)
          IN Sorts(time, rest, all \ {x}) /\ Remove(time, rest, x) = rest
=============================================================================
