------------------------------- MODULE RbTree -------------------------------
(***************************************************************************)
(* The red-black tree of rb.c as table.h uses it: rb_replace for every     *)
(* offer, rb_delete right after it when the offer's volume is 0.           *)
(*                                                                         *)
(* An item never leaves its node, so a node is named by its price.  The    *)
(* code's two mirrored halves of each rebalancing are one action here: d   *)
(* is the side (0 left, 1 right) it is about, 1 - d the other one.  The    *)
(* stack of ancestors that the code keeps in pa[] and da[] is a sequence   *)
(* whose last entry is pa[k - 1], da[k - 1].                               *)
(*                                                                         *)
(* The search and what follows it up to the rebalancing loop is one step;  *)
(* so is each turn of the loop, except that the turn of a deletion which   *)
(* goes on after a rotation is continued in the next step: the conditions  *)
(* the code does not test again come out the same.                         *)
(***************************************************************************)
EXTENDS Integers, Sequences, FiniteSets, SequencesExt, Functions

CONSTANTS
  Prices,         (* the keys                                                *)
  Volumes,        (* what is stored with them; 0 asks for the deletion       *)
  RB_MAX_HEIGHT   (* entries of pa[] and da[]                                *)

ASSUME PricesAssumption ==
  /\ Prices \subseteq Nat \ {0}
  /\ Volumes \subseteq Nat

VARIABLES
  link,    (* rb_link of the nodes in memory, and the root as Anchor's link 0  *)
  color,   (* rb_color of the nodes                                          *)
  data,    (* the volume of the item in each node                            *)
  doing,   (* the loop that runs: "probe", "delete", or "nothing"            *)
  stack,   (* pa[] and da[] of that loop                                     *)
  removed  (* the node a deletion has unlinked and not freed yet, or NULL    *)

vars == <<link, color, data, doing, stack, removed>>

NULL == 0
Anchor == -1 (* &tree->rb_root, seen as a node with one link                 *)
Sides == {0, 1}
Nil == [d \in Sides |-> NULL]

Red(n) == n # NULL /\ color[n] = "red"

pa(j) == stack[Len(stack) + 1 - j].node   (* pa[k - j] of the code           *)
da(j) == stack[Len(stack) + 1 - j].side

(* rb_compare, then the direction.                                         *)
Direction(price, node) == IF price > node THEN 1 ELSE 0

(* From link to link, at each node in the direction dir, up to the first   *)
(* link to one of ends.  There are no more turns than there are nodes.     *)
To(l) == link[l.node][l.side]
Walk(from, dir, ends) ==
  LET turn == [l \in [node : DOMAIN link, side : Sides] |->
                 [node |-> To(l), side |-> dir[To(l)]]]
      at[k \in Nat] == IF k = 0 THEN from ELSE turn[at[k - 1]]
      turns == CHOOSE m \in 0 .. Cardinality(DOMAIN data) :
                 /\ To(at[m]) \in ends
                 /\ \A i \in 0 .. m - 1 : To(at[i]) \notin ends
  IN [k \in 1 .. turns + 1 |-> at[k - 1]]

Found(path) == To(Last(path))
RootLink == [node |-> Anchor, side |-> 0]

(* The search of rb_probe and rb_delete: the links to where price belongs. *)
Search(price) ==
  Walk(RootLink, [n \in DOMAIN data |-> Direction(price, n)], {NULL, price})

(* Mistake: the child that rises takes the wrong one of its links along.   *)
Rotate_Crossed(l, parent, side, x, d) ==
  LET y == l[x][d] IN
  [l EXCEPT ![x][d] = l[y][d], ![y][1 - d] = x, ![parent][side] = y]

(* The child of x on side d rises into the place of x below parent.        *)
Rotate(l, parent, side, x, d) ==
  LET y == l[x][d] IN
  [l EXCEPT ![x][d] = l[y][1 - d], ![y][1 - d] = x, ![parent][side] = y]
-----------------------------------------------------------------------------
Init ==
  /\ link = [n \in {Anchor} |-> Nil]
  /\ color = << >> /\ data = << >>
  /\ doing = "nothing" /\ stack = << >> /\ removed = NULL

(* table.h deletes the item it has just put in, before anything else.      *)
ToDelete == {n \in DOMAIN data : data[n] = 0}

(* rb_replace of a price in the tree: the caller frees the old item.       *)
Replace(price, volume) ==
  /\ doing = "nothing" /\ ToDelete = {}
  /\ Found(Search(price)) = price
  /\ data' = [data EXCEPT ![price] = volume]
  /\ UNCHANGED <<link, color, doing, stack, removed>>

(* rb_replace of a new price: rb_probe up to its loop.                     *)
Probe(price, volume) ==
  LET path == Search(price) IN
  /\ doing = "nothing" /\ ToDelete = {}
  /\ Found(path) = NULL
  /\ link' = [n \in DOMAIN link \cup {price} |->
       IF n = price THEN Nil
       ELSE IF n = Last(path).node THEN [link[n] EXCEPT ![Last(path).side] = price]
       ELSE link[n]]
  /\ color' = [n \in DOMAIN color \cup {price} |->
       IF n = price THEN "red" ELSE color[n]]
  /\ data' = [n \in DOMAIN data \cup {price} |->
       IF n = price THEN volume ELSE data[n]]
  /\ doing' = "probe" /\ stack' = path
  /\ UNCHANGED removed

(* Mistake: the loop starts one level too deep.                            *)
ParentRed_Deeper == Len(stack) >= 4 /\ Red(pa(1))

(* The condition of rb_probe's loop.                                       *)
ParentRed == Len(stack) >= 3 /\ Red(pa(1))
Uncle == link[pa(2)][1 - da(2)]

(* Mistake: the grandparent stays black.                                   *)
ProbeRecolor_BlackGrandparent ==
  /\ doing = "probe" /\ ParentRed /\ Red(Uncle)
  /\ color' = [color EXCEPT ![pa(1)] = "black", ![Uncle] = "black"]
  /\ stack' = SubSeq(stack, 1, Len(stack) - 2)
  /\ UNCHANGED <<link, data, doing, removed>>

ProbeRecolor ==
  /\ doing = "probe" /\ ParentRed /\ Red(Uncle)
  /\ color' = [color EXCEPT ![pa(1)] = "black", ![Uncle] = "black", ![pa(2)] = "red"]
  /\ stack' = SubSeq(stack, 1, Len(stack) - 2)
  /\ UNCHANGED <<link, data, doing, removed>>

(* The turn that ends the loop by "break", and the root's colour after it. *)
ProbeRotate ==
  LET d == da(2)
      straight ==
        IF da(1) = d THEN link ELSE Rotate(link, pa(2), d, pa(1), 1 - d)
      y == straight[pa(2)][d]
      painted == [color EXCEPT ![pa(2)] = "red", ![y] = "black"]
  IN /\ doing = "probe" /\ ParentRed /\ ~Red(Uncle)
     /\ link' = Rotate(straight, pa(3), da(3), pa(2), d)
     /\ color' = [painted EXCEPT ![link'[Anchor][0]] = "black"]
     /\ doing' = "nothing" /\ stack' = << >>
     /\ UNCHANGED <<data, removed>>

(* The condition is false: only the root's colour is left to do.           *)
ProbeDone ==
  /\ doing = "probe" /\ ~ParentRed
  /\ color' = [color EXCEPT ![link[Anchor][0]] = "black"]
  /\ doing' = "nothing" /\ stack' = << >>
  /\ UNCHANGED <<link, data, removed>>
-----------------------------------------------------------------------------
(* From the right link of p down the left links, to the successor of p.    *)
Descent(p) ==
  Walk([node |-> p, side |-> 1], [n \in DOMAIN data |-> 0], {NULL})

(* Mistake: the successor forgets the left subtree, if it is p's child.    *)
Successor_LosesLeft(p) ==
  LET descent == Descent(p)
      s == Last(descent).node
  IN IF Len(descent) = 2 THEN link
     ELSE LET r == descent[Len(descent) - 1].node IN
          [link EXCEPT ![s] = link[p], ![r][0] = link[s][1]]

(* The links after the successor s of p, the leftmost node of its right    *)
(* subtree, took over p's subtrees.                                        *)
Successor(p) ==
  LET descent == Descent(p)
      s == Last(descent).node
  IN IF Len(descent) = 2 THEN [link EXCEPT ![s][0] = link[p][0]]
     ELSE LET r == descent[Len(descent) - 1].node IN
          [link EXCEPT ![s] = link[p], ![r][0] = link[s][1]]

(* Mistake: the successor keeps its own colour.                            *)
Swapped_Not(p, s) == color

(* The successor takes over p's colour, and p its.                         *)
Swapped(p, s) == [color EXCEPT ![p] = color[s], ![s] = color[p]]

(* The last lines of rb_delete.                                            *)
Freed(f, p) == Restrict(f, DOMAIN f \ {p})

(* rb_delete up to its loop: find p, put its successor in its place, and   *)
(* when the colour that is missing there is red, nothing is left to do.    *)
Unlink(p) ==
  LET path == Search(p)
      top == Last(path)
      descent == Descent(p)
      alone == link[p][1] = NULL
      s == IF alone THEN link[p][0] ELSE Last(descent).node
      links == IF alone THEN link ELSE Successor(p)
      unlinked == [links EXCEPT ![top.node][top.side] = s]
      painted == IF alone THEN color ELSE Swapped(p, s)
      below == IF alone THEN << >>
               ELSE <<[node |-> s, side |-> 1]>> \o SubSeq(descent, 2, Len(descent) - 1)
  IN /\ doing = "nothing" /\ p \in ToDelete
     /\ IF painted[p] = "red"
        THEN /\ link' = Freed(unlinked, p)
             /\ color' = Freed(painted, p)
             /\ data' = Freed(data, p)
             /\ UNCHANGED <<doing, stack, removed>>
        ELSE /\ link' = unlinked
             /\ color' = painted
             /\ doing' = "delete"
             /\ stack' = path \o below
             /\ removed' = p
             /\ UNCHANGED data

(* One black node is missing on every path through x, the node below the   *)
(* last link of the stack; w is its sibling.                               *)
x == link[pa(1)][da(1)]
w == link[pa(1)][1 - da(1)]
Missing == doing = "delete" /\ ~Red(x) /\ Len(stack) >= 2

(* The code follows w without a test: with NULL it would stop here.        *)
Turn == Missing /\ w # NULL

(* Mistake: the item stays when its node goes.                             *)
Finish_KeepsItem(l, c) ==
  /\ link' = Freed(l, removed) /\ color' = Freed(c, removed) /\ data' = data
  /\ doing' = "nothing" /\ stack' = << >> /\ removed' = NULL

Finish(l, c) ==
  /\ link' = Freed(l, removed)
  /\ color' = Freed(c, removed)
  /\ data' = Freed(data, removed)
  /\ doing' = "nothing" /\ stack' = << >> /\ removed' = NULL

DeleteDone ==
  /\ doing = "delete" /\ ~Missing
  /\ Finish(link, IF Red(x) THEN [color EXCEPT ![x] = "black"] ELSE color)

(* w is red: rotate it up, so that x gets a black sibling.                 *)
DeleteRedSibling ==
  /\ Turn /\ Red(w)
  /\ color' = [color EXCEPT ![w] = "black", ![pa(1)] = "red"]
  /\ link' = Rotate(link, pa(2), da(2), pa(1), 1 - da(1))
  /\ stack' = Front(stack) \o <<[node |-> w, side |-> da(1)], Last(stack)>>
  /\ UNCHANGED <<data, doing, removed>>

(* Mistake: one is still missing where it was.                             *)
DeleteRecolor_Stays ==
  /\ Turn /\ ~Red(w) /\ \A d \in Sides : ~Red(link[w][d])
  /\ color' = [color EXCEPT ![w] = "red"]
  /\ UNCHANGED <<link, data, doing, stack, removed>>

(* w and its children are black: it gives up its colour, and one is now    *)
(* missing one level higher.                                               *)
DeleteRecolor ==
  /\ Turn /\ ~Red(w) /\ \A d \in Sides : ~Red(link[w][d])
  /\ color' = [color EXCEPT ![w] = "red"]
  /\ stack' = Front(stack)
  /\ UNCHANGED <<link, data, doing, removed>>

(* Only the child of w on the side of x is red: it becomes the sibling.    *)
DeleteRedNephew ==
  LET d == da(1)
      y == link[w][d]
  IN /\ Turn /\ ~Red(w) /\ Red(y) /\ ~Red(link[w][1 - d])
     /\ color' = [color EXCEPT ![y] = "black", ![w] = "red"]
     /\ link' = Rotate(link, pa(1), 1 - d, w, d)
     /\ UNCHANGED <<data, doing, stack, removed>>

(* The far child of w is red: rotate w up, and the missing one is there.   *)
DeleteRotate ==
  LET d == da(1)
      far == link[w][1 - d]
  IN /\ Turn /\ ~Red(w) /\ Red(far)
     /\ Finish(Rotate(link, pa(2), da(2), pa(1), 1 - d),
               [color EXCEPT ![w] = color[pa(1)], ![pa(1)] = "black",
                             ![far] = "black"])

Rebalance ==
  \/ ProbeRecolor \/ ProbeRotate \/ ProbeDone
  \/ DeleteDone \/ DeleteRedSibling \/ DeleteRecolor
  \/ DeleteRedNephew \/ DeleteRotate

Next ==
  \/ \E p \in Prices, v \in Volumes : Replace(p, v) \/ Probe(p, v)
  \/ \E p \in ToDelete : Unlink(p)
  \/ Rebalance

Spec == Init /\ [][Next]_vars

(* One thread runs an operation to its end: it holds the order flag.       *)
FairSpec == Spec /\ WF_vars(Rebalance)
-----------------------------------------------------------------------------
Root == link[Anchor][0]

(* The nodes below a link to n, n included.                                *)
Below ==
  LET below[n \in DOMAIN data \cup {NULL}] ==
        IF n = NULL THEN {} ELSE {n} \cup below[link[n][0]] \cup below[link[n][1]]
  IN below

Nodes == Below[Root]

(* In a deletion one black node is missing at the last link of the stack.  *)
Lacks(n, d) ==
  IF doing = "delete" /\ Last(stack) = [node |-> n, side |-> d] THEN 1 ELSE 0
Black(n) == IF color[n] = "black" THEN 1 ELSE 0

(* Black nodes on the leftmost path from n down, with the missing one.     *)
BlackHeight ==
  LET height[n \in DOMAIN data \cup {NULL}] ==
        IF n = NULL THEN 0 ELSE height[link[n][0]] + Lacks(n, 0) + Black(n)
  IN height

(* The nodes that the tree should have.                                    *)
Tree == DOMAIN data \ {removed}

TypeOK ==
  /\ link \in [DOMAIN data \cup {Anchor} -> [Sides -> DOMAIN data \cup {NULL}]]
  /\ color \in [DOMAIN data -> {"red", "black"}]
  /\ data \in [DOMAIN data -> Volumes]
  /\ DOMAIN data \subseteq Prices /\ IsFiniteSet(DOMAIN data)
  /\ doing \in {"nothing", "probe", "delete"}
  /\ stack \in Seq([node : DOMAIN link, side : Sides])
  /\ stack = << >> <=> doing = "nothing"
  /\ removed \in DOMAIN data \cup {NULL}

(* sub[n] is what is below n: smaller prices on the left, greater ones on  *)
(* the right, and all of the tree's nodes below the root.                  *)
Subtrees(sub) ==
  /\ sub[NULL] = {} /\ sub[Root] = Tree
  /\ \A n \in Tree :
       /\ sub[n] \subseteq Tree
       /\ sub[n] = {n} \cup sub[link[n][0]] \cup sub[link[n][1]]
       /\ \A m \in sub[link[n][0]] : m < n
       /\ \A m \in sub[link[n][1]] : n < m

(* The nodes are in the order of the prices at every step of every         *)
(* rebalancing, so a search goes the right way (rb.c:105, 244), and no     *)
(* node is lost or kept: the tree has exactly the nodes in memory.         *)
Sorted == Subtrees(Below)

(* A red node has black children, and the root is black.  During an        *)
(* operation the only exceptions are at the link on top of the stack: the  *)
(* node below it may be red like its parent, and in a deletion like its    *)
(* child (it is painted black next).  The loops of rb.c:124 and rb.c:310   *)
(* go on with exactly that pair.                                           *)
RedRule ==
  \A n \in Tree \cup {Anchor}, d \in Sides :
    (n = Anchor \/ Red(n)) /\ Red(link[n][d]) =>
      \/ doing # "nothing" /\ Last(stack) = [node |-> n, side |-> d]
      \/ doing = "delete" /\ n = x

(* All paths from n down have height[n] black nodes; in a deletion, one    *)
(* less where its stack ends and nowhere else.                             *)
Balanced(height) ==
  /\ height[NULL] = 0
  /\ \A n \in Tree :
       /\ height[n] \in Nat
       /\ \A d \in Sides :
            height[n] = height[link[n][d]] + Lacks(n, d) + Black(n)

BlackRule == Balanced(BlackHeight)

(* The sibling that a deletion follows untested (rb.c:320, 374) is there.  *)
SiblingExists == Missing => w # NULL

(* The stack of ancestors fits its arrays, and it is no longer than twice  *)
(* the logarithm of the number of nodes: the 48 entries the code has       *)
(* (rb.h:56) are enough for 2^23 offers.                                   *)
StackFits ==
  /\ Len(stack) <= RB_MAX_HEIGHT
  /\ stack # << >> =>
       2 ^ ((Len(stack) - 1) \div 2) <= Cardinality(DOMAIN data) + 1

(* No rebalancing goes on forever or follows a null sibling (rb.c:124,     *)
(* 310, 322): every operation comes to its end.                            *)
OperationEnds == doing # "nothing" ~> doing = "nothing"
-----------------------------------------------------------------------------
(* What a rebalancing relies on, besides order and colours: no node has    *)
(* two parents, and the stack is the path of links from the root to where  *)
(* the work is.                                                            *)
OneParent ==
  \A n, m \in Tree \cup {Anchor}, d, e \in Sides :
    link[n][d] = link[m][e] /\ link[n][d] # NULL => n = m /\ d = e

StackIsPath ==
  /\ stack # << >> => stack[1] = RootLink
  /\ \A i \in 1 .. Len(stack) : stack[i].node \in Tree \cup {Anchor}
  /\ \A i \in 1 .. Len(stack) - 1 :
       link[stack[i].node][stack[i].side] = stack[i + 1].node
  /\ doing = "probe" => Found(stack) # NULL /\ Red(Found(stack))
  /\ removed = NULL <=> doing # "delete"

NoLinkToRemoved ==
  \A n \in DOMAIN link, d \in Sides : link[n][d] \in Tree \cup {NULL}

Linked ==
  link[Anchor][1] = NULL /\ NoLinkToRemoved /\ OneParent /\ StackIsPath

IInv == TypeOK /\ Linked /\ Sorted /\ RedRule /\ BlackRule

(* rb_t_first and rb_t_last: the ends of the outermost links.              *)
Outermost(d) ==
  LET end[n \in DOMAIN data] == IF link[n][d] = NULL THEN n ELSE end[link[n][d]]
  IN end[Root]
Ends == IF Root = NULL THEN {} ELSE {Outermost(0), Outermost(1)}

(* The tree is the function of prices that table.h takes it for.           *)
Abstract == INSTANCE PriceTree WITH
  tree <- [n \in Nodes |-> data[n]], ends <- Ends

ImplementsPriceTree == Abstract!Spec
=============================================================================
