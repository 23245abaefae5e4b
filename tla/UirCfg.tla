------------------------------- MODULE UirCfg -------------------------------
(***************************************************************************)
(* build_cfg() of OmniTrace (src/uir/cfg.cpp): from the branch targets of  *)
(* a function's blocks to the immediate dominators, the immediate          *)
(* post-dominators, and the reconvergence point and thread frontier of a   *)
(* divergent branch.                                                       *)
(*                                                                         *)
(* compute_idom() runs twice, on the graph and on its reverse with a       *)
(* virtual exit; one step of the module is one turn of one of its loops.   *)
(***************************************************************************)
EXTENDS Integers, Sequences, SequencesExt, FiniteSets

CONSTANTS
  N,        \* blocks of the function, block 1 its entry
  Targets   \* what terminators may name: sequences of at most two blocks

Blocks == 1 .. N

ASSUME CfgAssumption == N \in Nat \ {0} /\ Targets \subseteq Seq(Blocks)

VARIABLES
  succ,      \* block -> targets of its terminator, in order
  walk,      \* "forward", "reverse" or "done"
  stack,     \* depth-first search: <<node, next child>> pairs
  seen,      \* ... the nodes pushed so far
  post,      \* ... the nodes left, in postorder
  idom,      \* the working tree; None until a node has a parent
  sweep,     \* the rest of the reverse postorder in this sweep
  visit,     \* the node whose parent is computed (b), the predecessors not looked at
             \* yet, the two fingers of intersect(): its a, and newidom
  changed,   \* whether this sweep changed a parent
  trees      \* the trees of the walks that are over

vars == <<succ, walk, stack, seen, post, idom, sweep, visit, changed, trees>>

Exit == N + 1    \* the virtual exit of the reverse graph
None == 0

-----------------------------------------------------------------------------
(* Blocks pushed in the order of their numbers. *)
InOrder(S) == [k \in 1 .. Cardinality(S) |-> CHOOSE b \in S : Cardinality({a \in S : a < b}) = k - 1]

(* A predecessor that names a block twice is listed once: the second turn  *)
(* of the loop over predecessors would find it joined.                     *)
Preds(b) == InOrder({p \in Blocks : b \in ToSet(succ[p])})

Exits == InOrder({b \in Blocks : succ[b] = << >>})

(* Edges of the graph compute_idom() works on. *)
Out(n) ==
  IF walk = "forward" THEN succ[n]
  ELSE IF n = Exit THEN Exits ELSE Preds(n)

In(n) ==
  IF walk = "forward" THEN Preds(n)
  ELSE IF n = Exit THEN << >>
  ELSE IF succ[n] = << >> THEN <<Exit>> ELSE succ[n]

Root == IF walk = "forward" THEN 1 ELSE Exit
Nodes == IF walk = "forward" THEN Blocks ELSE 1 .. Exit

(* The postorder number; None for a node the search did not reach. *)
Number(n) == IF n \in ToSet(post) THEN CHOOSE i \in DOMAIN post : post[i] = n ELSE None

-----------------------------------------------------------------------------
Idle == [node |-> None, rest |-> << >>, finger |-> None, parent |-> None]

Init ==
  /\ succ \in [Blocks -> Targets]
  /\ walk = "forward"
  /\ stack = << <<1, 1>> >> /\ seen = {1} /\ post = << >>
  /\ idom = [n \in Blocks |-> IF n = 1 THEN 1 ELSE None]
  /\ sweep = << >> /\ visit = Idle /\ changed = TRUE
  /\ trees = [forward |-> << >>, reverse |-> << >>]

Top == Last(stack)

IsNew(s) == s \notin seen

(* The search looks at the next child of the node on top. *)
Descend ==
  /\ stack # << >> /\ Top[2] <= Len(Out(Top[1]))
  /\ LET s == Out(Top[1])[Top[2]]
         turned == [stack EXCEPT ![Len(stack)] = <<Top[1], Top[2] + 1>>]
     IN  /\ stack' = IF IsNew(s) THEN Append(turned, <<s, 1>>) ELSE turned
         /\ seen' = seen \cup {s}
  /\ UNCHANGED <<succ, walk, post, idom, sweep, visit, changed, trees>>

(* ... and leaves it when it has no more; after the last the sweeps start. *)
Leave ==
  /\ stack # << >> /\ Top[2] > Len(Out(Top[1]))
  /\ post' = Append(post, Top[1])
  /\ stack' = Front(stack)
  /\ UNCHANGED <<succ, walk, seen, idom, sweep, visit, changed, trees>>

SweepOver == stack = << >> /\ sweep = << >> /\ visit = Idle

(* while (changed): another sweep in reverse postorder. *)
StartSweep ==
  /\ walk # "done" /\ SweepOver /\ changed
  /\ sweep' = Reverse(post) /\ changed' = FALSE
  /\ UNCHANGED <<succ, walk, stack, seen, post, idom, visit, trees>>

(* The next node of the sweep; the root keeps itself. *)
VisitNode ==
  /\ sweep # << >> /\ visit = Idle
  /\ visit' = IF Head(sweep) = Root THEN Idle
              ELSE [Idle EXCEPT !.node = Head(sweep), !.rest = In(Head(sweep))]
  /\ sweep' = Tail(sweep)
  /\ UNCHANGED <<succ, walk, stack, seen, post, idom, changed, trees>>

Fingers == visit.node # None /\ visit.finger # visit.parent
Looking == visit.node # None /\ visit.finger = visit.parent

Processed(p) == Number(p) # None /\ idom[p] # None

(* Mutant: the last processed predecessor is the parent. *)
JoinedLast(p) == [visit EXCEPT !.rest = Tail(@), !.finger = p, !.parent = p]

(* A first processed predecessor is the candidate; intersect() starts on   *)
(* each further one.                                                       *)
Joined(p) ==
  [visit EXCEPT !.rest = Tail(@), !.finger = p, !.parent = IF @ = None THEN p ELSE @]

LookAtPred ==
  /\ Looking /\ visit.rest # << >>
  /\ LET p == Head(visit.rest)
     IN  visit' = IF Processed(p) THEN Joined(p) ELSE [visit EXCEPT !.rest = Tail(@)]
  /\ UNCHANGED <<succ, walk, stack, seen, post, idom, sweep, changed, trees>>

(* Mutant: the climb ends with its first move. *)
ClimbedOnce ==
  LET low == IF Number(visit.finger) < Number(visit.parent) THEN visit.finger ELSE visit.parent
  IN  [visit EXCEPT !.finger = idom[low], !.parent = idom[low]]

(* The finger with the smaller number moves up. *)
Climbed ==
  IF Number(visit.finger) < Number(visit.parent)
  THEN [visit EXCEPT !.finger = idom[@]]
  ELSE [visit EXCEPT !.parent = idom[@]]

Climb ==
  /\ Fingers
  /\ visit' = Climbed
  /\ UNCHANGED <<succ, walk, stack, seen, post, idom, sweep, changed, trees>>

(* Mutant: a parent counts as changed whenever it is computed. *)
ParentChangesAlways(b, p) == p # None

ParentChanges(b, p) == p # None /\ idom[b] # p

SetParent ==
  /\ Looking /\ visit.rest = << >>
  /\ IF ParentChanges(visit.node, visit.parent)
       THEN idom' = [idom EXCEPT ![visit.node] = visit.parent] /\ changed' = TRUE
       ELSE UNCHANGED <<idom, changed>>
  /\ visit' = Idle
  /\ UNCHANGED <<succ, walk, stack, seen, post, sweep, trees>>

Settled == SweepOver /\ ~changed

(* The forward tree is g.idom; the reverse walk starts at the virtual exit.*)
EndForward ==
  /\ walk = "forward" /\ Settled
  /\ walk' = "reverse" /\ trees' = [trees EXCEPT !.forward = idom]
  /\ stack' = << <<Exit, 1>> >> /\ seen' = {Exit} /\ post' = << >>
  /\ idom' = [n \in 1 .. Exit |-> IF n = Exit THEN Exit ELSE None]
  /\ changed' = TRUE
  /\ UNCHANGED <<succ, sweep, visit>>

(* g.ipdom keeps no parent where it is the virtual exit. *)
EndReverse ==
  /\ walk = "reverse" /\ Settled
  /\ walk' = "done"
  /\ trees' = [trees EXCEPT !.reverse =
       [b \in Blocks |-> IF idom[b] = Exit THEN None ELSE idom[b]]]
  /\ UNCHANGED <<succ, stack, seen, post, idom, sweep, visit, changed>>

Next ==
  \/ Descend \/ Leave
  \/ StartSweep \/ VisitNode \/ LookAtPred \/ Climb \/ SetParent
  \/ EndForward \/ EndReverse

(* build_cfg() runs to its end. *)
Spec == Init /\ [][Next]_vars /\ WF_vars(Next)

-----------------------------------------------------------------------------
(* Queries on the finished CFG *)

Closed(S, avoid) == \A x \in S : ToSet(succ[x]) \ avoid \subseteq S

(* The blocks on the paths that start in a set and avoid another: the least *)
(* set with the starts that no other edge leaves.                          *)
Reach(from, avoid) ==
  {x \in Blocks : \A S \in SUBSET Blocks : from \ avoid \subseteq S /\ Closed(S, avoid) => x \in S}

(* Mutant: the walk up ends at the parent. *)
UpOnce(tree, b) == {b, tree[b]} \ {None}

(* The blocks on the way from a block up a tree: dominates(a, b) looks for *)
(* a on the way up idom from a reached b, post_dominates(a, b) on the way  *)
(* up ipdom.                                                               *)
Up(tree, b) ==
  {x \in Blocks : \A S \in SUBSET Blocks :
     b \in S /\ (\A n \in S : tree[n] # None => tree[n] \in S) => x \in S}

Reconvergence(b) == trees.reverse[b]

(* Mutant: the frontier runs on past the reconvergence point. *)
ThreadFrontierPast(b) == Reach(ToSet(succ[b]), {}) \ {Reconvergence(b)}

(* The blocks reached from the branch before its reconvergence point.      *)
ThreadFrontier(b) == Reach(ToSet(succ[b]), {Reconvergence(b)})

-----------------------------------------------------------------------------
(* What the trees have to be, from the paths of the graph. *)
Reached == Reach({1}, {})
Ending == {b \in Blocks : \E e \in ToSet(Exits) : e \in Reach({b}, {})}

Dom(a, b) == b \in Reached /\ b \notin Reach({1}, {a})
PostDom(a, b) == b \in Ending /\ \A e \in ToSet(Exits) : e \notin Reach({b}, {a})

TypeOK ==
  /\ succ \in [Blocks -> Targets] /\ walk \in {"forward", "reverse", "done"}
  /\ seen \subseteq 1 .. Exit /\ ToSet(post) \subseteq seen
  /\ Cardinality(ToSet(post)) = Len(post)
  /\ \A n \in DOMAIN idom : idom[n] = None \/ idom[n] \in seen

(* The climb of intersect() ends: a parent always has a greater postorder  *)
(* number than its child, in every sweep.                                  *)
ParentsAbove ==
  stack = << >> =>
    \A n \in DOMAIN idom : idom[n] # None /\ n # Root => Number(n) < Number(idom[n])

(* idom[b] is the strict dominator of b that every other one dominates,    *)
(* and is left out exactly for blocks no path reaches.                     *)
IsIdom(tree) ==
  \A b \in Blocks \ {1} :
    IF b \notin Reached THEN tree[b] = None
    ELSE /\ Dom(tree[b], b) /\ tree[b] # b
         /\ \A a \in Blocks \ {b} : Dom(a, b) => Dom(a, tree[b])

(* ipdom[b] is the strict post-dominator of b nearest to it; a block has   *)
(* none exactly if it has no strict post-dominator or cannot end.          *)
IsIpdom(tree) ==
  \A b \in Blocks :
    LET strict == {a \in Blocks \ {b} : PostDom(a, b)}
    IN  IF strict = {} THEN tree[b] = None
        ELSE tree[b] \in strict /\ \A a \in strict : PostDom(a, tree[b])

(* Both runs of compute_idom give the tree that path enumeration gives, on *)
(* every graph.                                                            *)
TreesExact == walk = "done" => IsIdom(trees.forward) /\ IsIpdom(trees.reverse)

UpIsDom(tree) == \A b \in Reached : Up(tree, b) = {a \in Blocks : Dom(a, b)}

UpIsPostDom(tree) == \A b \in Ending : Up(tree, b) = {a \in Blocks : PostDom(a, b)}

(* dominates() and post_dominates() answer what the paths say, for every   *)
(* block that is reached and every block that can end.                     *)
QueriesExact ==
  walk = "done" => UpIsDom(trees.forward) /\ UpIsPostDom(trees.reverse)

(* The lanes of a divergent branch do reconverge: no block of its thread   *)
(* frontier reaches an exit past its reconvergence point.                  *)
FrontierReconverges ==
  walk = "done" => \A b \in Blocks :
    Reconvergence(b) # None =>
      /\ Reconvergence(b) \notin ThreadFrontier(b)
      /\ \A f \in ThreadFrontier(b) :
           f \in Ending => PostDom(Reconvergence(b), f)

(* build_cfg() returns, on every graph, irreducible ones and endless loops *)
(* included.                                                               *)
Terminates == <>(walk = "done")
=============================================================================
