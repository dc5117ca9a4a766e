------------------------------ MODULE VizScenes ------------------------------
(***************************************************************************)
(* What an animation script means (packages/algorithmator/src): the layout *)
(* each step implies, replayed from the first step, for the figures with   *)
(* slots and tokens (moves.ts, engine.ts), the binary trees (tree-render)  *)
(* and the B-trees (btree-render).  Coordinates and captions are left out: *)
(* a layout says what is drawn and where it hangs.                         *)
(*                                                                         *)
(* Scenes is every script of LastIndex + 1 steps the command languages     *)
(* allow over these tokens and nodes.  A grid comes from a formula, which  *)
(* gives each item its slot; a row from a list of moves.                   *)
(***************************************************************************)
EXTENDS Figure, Sequences, SequencesExt

CONSTANTS
  Items,      \* the tokens of a row in the order they are given, all different
  Keys,       \* the tokens of a grid, as many as there are steps
  Nodes,      \* ids of tree nodes, 1 .. n, used in this order
  Nil

ASSUME NilAssumption == Nil \notin DOMAIN Items \cup Nodes

ASSUME ItemsAssumption == Items \in Seq(Range(Items)) /\ IsInjective(Items)

Slots == DOMAIN Items
Tokens == Range(Items) \cup Range(Keys)

Prefix(steps, i) == SubSeq(steps, 1, i + 1)

-----------------------------------------------------------------------------
(* Slots and tokens *)

Commands ==
  [op : {"swap"}, i : Slots, j : Slots] \cup [op : {"mark"}, i : Slots]
  \cup [op : {"move"}, token : Range(Items), slot : Slots]
  \cup [op : {"remove"}, token : Range(Items)]

\* mutant: a swap does not change the array the next one reads
SwapFrozen(c, i, j) == [c EXCEPT !.steps = Append(@, [op |-> "swap", a |-> c.a[i], b |-> c.a[j]])]
Swap(c, i, j) ==
  [a |-> [c.a EXCEPT ![i] = c.a[j], ![j] = c.a[i]],
   steps |-> Append(c.steps, [op |-> "swap", a |-> c.a[i], b |-> c.a[j]])]

Compile(c, cmd) ==
  CASE cmd.op = "swap" -> IF cmd.i = cmd.j THEN c ELSE Swap(c, cmd.i, cmd.j)
    [] cmd.op = "mark" -> [c EXCEPT !.steps = Append(@, [op |-> "mark", slot |-> cmd.i])]
    [] OTHER -> [c EXCEPT !.steps = Append(@, cmd)]

Placed == [i \in Slots |-> [op |-> "place", token |-> Items[i], slot |-> i]]

(* compileMoves: every item in its place, then the commands, simulated on *)
(* the array "a" to know which tokens a swap exchanges.                   *)
CompileMoves(cmds) == FoldLeft(Compile, [a |-> Items, steps |-> Placed], cmds)

ApplyStep(at, s) ==
  CASE s.op \in {"place", "move"} -> [at EXCEPT ![s.token] = s.slot]
    [] s.op = "swap" -> IF Nil \in {at[s.a], at[s.b]} THEN at
                        ELSE [at EXCEPT ![s.a] = at[s.b], ![s.b] = at[s.a]]
    [] s.op = "remove" -> [at EXCEPT ![s.token] = Nil]
    [] OTHER -> at

(* Which slot each token is in once the steps up to i are replayed. *)
TokensAt(steps, i) == FoldLeft(ApplyStep, [t \in Tokens |-> Nil], Prefix(steps, i))

Introduce(order, s) ==
  CASE s.op \in {"place", "move"} /\ ~Contains(order, s.token) -> Append(order, s.token)
    [] s.op = "remove" -> Remove(order, s.token)
    [] OTHER -> order

(* The order in which tokenSlot holds its tokens. *)
TokenOrder(steps, i) == FoldLeft(Introduce, <<>>, Prefix(steps, i))

-----------------------------------------------------------------------------
(* Binary trees *)

Sides == {"left", "right"}
Other(side) == IF side = "left" THEN "right" ELSE "left"

EmptyTree ==
  [in |-> {}, root |-> Nil, up |-> [n \in Nodes |-> Nil],
   kid |-> [s \in Sides |-> [n \in Nodes |-> Nil]]]

(* Child c takes the place n has under its parent, or at the root. *)
Relinked(t, n, c) ==
  [s \in Sides |-> [m \in Nodes |-> IF m = t.up[n] /\ t.kid[s][m] = n THEN c ELSE t.kid[s][m]]]
RootAfter(t, n, c) == IF t.up[n] = Nil THEN c ELSE t.root

InsertNode(t, n, p, side) ==
  [in |-> t.in \cup {n},
   root |-> IF p = Nil THEN n ELSE t.root,
   up |-> [t.up EXCEPT ![n] = p],
   kid |-> [s \in Sides |-> [m \in Nodes |->
     IF m = n THEN Nil ELSE IF m = p /\ s = side THEN n ELSE t.kid[s][m]]]]

(* rotate-left, rotate-right: y, the child on the other side, comes up. *)
Rotate(t, x, side) ==
  LET y == t.kid[Other(side)][x]
      inner == t.kid[side][y] IN
  IF y = Nil THEN t ELSE
  [t EXCEPT !.root = RootAfter(t, x, y),
            !.up = [n \in Nodes |-> CASE n = x -> y [] n = y -> t.up[x] [] n = inner -> x [] OTHER -> t.up[n]],
            !.kid = [Relinked(t, x, y) EXCEPT ![Other(side)][x] = inner, ![side][y] = x]]

RemoveNode(t, n) ==
  LET c == IF t.kid["left"][n] # Nil THEN t.kid["left"][n] ELSE t.kid["right"][n] IN
  [in |-> t.in \ {n}, root |-> RootAfter(t, n, c),
   up |-> [m \in Nodes |-> IF m = c THEN t.up[n] ELSE t.up[m]], kid |-> Relinked(t, n, c)]

ApplyTree(t, s) ==
  CASE s.op = "insert" -> InsertNode(t, s.id, s.parent, s.side)
    [] s.op = "rotate" -> Rotate(t, s.id, s.side)
    [] s.op = "remove" -> RemoveNode(t, s.id)
    [] OTHER -> t

TreeAt(steps, i) == FoldLeft(ApplyTree, EmptyTree, Prefix(steps, i))

(* computeLayout gives a place, in this order, to every node found from *)
(* the root.                                                            *)
InOrder(t) ==
  LET Of[n \in Nodes \cup {Nil}] ==
        IF n = Nil THEN <<>>
        ELSE Of[t.kid["left"][n]] \o <<n>> \o Of[t.kid["right"][n]]
  IN Of[t.root]

TreeDrawn(t) == ToSet(InOrder(t))

-----------------------------------------------------------------------------
(* B-trees: a node step restates a node, whose children name it as parent. *)

EmptyBTree == [order |-> <<>>, up |-> [n \in Nodes |-> Nil]]

ApplyBTree(b, s) ==
  CASE s.op = "node" -> [order |-> IF Contains(b.order, s.id) THEN b.order ELSE Append(b.order, s.id),
                         up |-> [b.up EXCEPT ![s.id] = s.parent]]
    [] s.op = "remove" -> [b EXCEPT !.order = Remove(@, s.id)]
    [] OTHER -> b

BTreeAt(steps, i) == FoldLeft(ApplyBTree, EmptyBTree, Prefix(steps, i))

(* findRootId takes the first node without a parent. *)
FirstRoot(b) == SelectInSeq(b.order, LAMBDA n : b.up[n] = Nil)
Children(b, n) == {c \in ToSet(b.order) : b.up[c] = n}

Below(b, n) ==
  LET Of[m \in Nodes] == {m} \cup UNION {Of[c] : c \in Children(b, m)}
  IN Of[n]

BTreeDrawn(b) == IF FirstRoot(b) = 0 THEN {} ELSE Below(b, b.order[FirstRoot(b)])

-----------------------------------------------------------------------------
(* Every script of a length, without the steps that change no layout of a  *)
(* tree (mark, recolor) and the swap of a position with itself, which      *)
(* compiles to no step.                                                    *)

Length == LastIndex + 1
NextNew(used) == {n \in Nodes \ used : \A m \in Nodes \ used : n <= m}

TreeSteps(t) ==
  {s \in [op : {"insert"}, id : NextNew(t.in), parent : t.in \cup {Nil}, side : Sides] :
     IF t.in = {} THEN s.side = "left"
     ELSE s.parent # Nil /\ t.kid[s.side][s.parent] = Nil}
  \cup [op : {"rotate"}, id : t.in, side : Sides]
  \cup [op : {"remove"}, id : {n \in t.in : \E s \in Sides : t.kid[s][n] = Nil}]

TreeScripts[k \in 0 .. Length] ==
  IF k = 0 THEN {<<>>}
  ELSE UNION {{Append(f, s) : s \in TreeSteps(TreeAt(f, k - 2))} : f \in TreeScripts[k - 1]}

(* A parent is declared before its children and never one of its own. *)
BTreeSteps(b) ==
  LET in == ToSet(b.order) IN
  {s \in [op : {"node"}, id : in \cup NextNew(in), parent : in \cup {Nil}] :
     s.parent = Nil \/ s.id \notin in \/ s.parent \notin Below(b, s.id)}
  \cup [op : {"remove"}, id : in]

BTreeScripts[k \in 0 .. Length] ==
  IF k = 0 THEN {<<>>}
  ELSE UNION {{Append(f, s) : s \in BTreeSteps(BTreeAt(f, k - 2))} : f \in BTreeScripts[k - 1]}

PlaceEach(slotOf) == [k \in 1 .. Length |-> [op |-> "place", token |-> Keys[k], slot |-> slotOf[k]]]

MoveScripts ==
  {cmds \in [1 .. Length - Len(Items) -> Commands] :
     \A k \in DOMAIN cmds : cmds[k].op = "swap" => cmds[k].i < cmds[k].j}

Scene(kind, cmds, steps) == [kind |-> kind, cmds |-> cmds, steps |-> steps]

Scenes ==
  {Scene("grid", <<>>, PlaceEach(slotOf)) : slotOf \in [1 .. Length -> Slots]}
  \cup {Scene("row", cmds, CompileMoves(cmds).steps) : cmds \in MoveScripts}
  \cup {Scene("tree", <<>>, steps) : steps \in TreeScripts[Length]}
  \cup {Scene("btree", <<>>, steps) : steps \in BTreeScripts[Length]}
=============================================================================
