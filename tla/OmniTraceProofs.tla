-------------------------- MODULE OmniTraceProofs --------------------------
(***************************************************************************)
(* Proofs about the two parts of OmniTrace that are modelled.              *)
(*                                                                         *)
(* UirCfg: for every number of blocks and every graph, build_cfg() finds   *)
(* the immediate dominators and post-dominators, and the thread frontier   *)
(* of a branch reconverges.                                                *)
(*                                                                         *)
(* TraceCodec, TraceCapture: for every program without loops, region of    *)
(* interest, number of lanes, mask, warp size and width of the values, a   *)
(* decoded column is the one that was encoded, the taps stay where they    *)
(* belong however often the pass runs, and a history that is rebuilt from  *)
(* a file is the true one.                                                 *)
(***************************************************************************)
EXTENDS UirCfg, TraceCapture, FiniteSetTheorems, WellFoundedInduction, TLAPS

Before == {p \in Nat \X Nat : p[1] < p[2]}

(* Induction over a set of numbers: it holds every number if it holds 0    *)
(* and the successor of each of its members.                               *)
LEMMA Induction ==
  ASSUME NEW S, 0 \in S, \A n \in Nat : n \in S => n + 1 \in S
  PROVE  Nat \subseteq S
<1> SUFFICES ASSUME Nat \ S # {} PROVE FALSE
  OBVIOUS
<1>1. OpToRel(<, Nat) = Before
  BY DEF OpToRel, Before
<1>2. IsWellFoundedOn(Before, Nat)
  BY <1>1, NatLessThanWellFounded
<1>3. PICK m \in Nat \ S : \A n \in Nat \ S : <<n, m>> \notin Before
  BY <1>2, WFMin
<1>4. m - 1 \in Nat /\ m - 1 \in S
  <2>1. m # 0 /\ m \in Nat
    BY <1>3
  <2>2. m - 1 \in Nat /\ m - 1 < m
    BY <2>1
  <2>3. m - 1 \notin S => <<m - 1, m>> \in Before
    BY <2>1, <2>2 DEF Before
  <2> QED BY <1>3, <2>2, <2>3
<1>5. (m - 1) + 1 = m
  BY <1>3
<1> QED BY <1>3, <1>4, <1>5

(* Blocks in the order of their numbers: all of a set, and nothing else. *)
LEMMA InOrderIs ==
  ASSUME NEW S, S \subseteq Blocks
  PROVE  InOrder(S) \in Seq(S) /\ ToSet(InOrder(S)) = S
<1> DEFINE n == Cardinality(S)
           Less(b) == {a \in S : a < b}
           f == [b \in S |-> Cardinality(Less(b)) + 1]
<1>1. IsFiniteSet(S) /\ n \in Nat /\ S \subseteq Int
  <2>1. N \in Int /\ 1 \in Int
    BY CfgAssumption
  <2>2. IsFiniteSet(Blocks) /\ Blocks \subseteq Int
    BY <2>1, FS_Interval DEF Blocks
  <2> QED BY <2>2, FS_Subset, FS_CardinalityType
<1>2. ASSUME NEW b \in S
      PROVE  IsFiniteSet(Less(b)) /\ Cardinality(Less(b)) \in 0 .. n - 1
  <2>1. Less(b) \subseteq S \ {b}
    BY <1>1
  <2>2. IsFiniteSet(S \ {b}) /\ Cardinality(S \ {b}) = n - 1
    BY <1>1, FS_RemoveElement
  <2>3. IsFiniteSet(Less(b)) /\ Cardinality(Less(b)) <= n - 1
    BY <2>1, <2>2, FS_Subset
  <2>4. Cardinality(Less(b)) \in Nat
    BY <2>3, FS_CardinalityType
  <2> QED BY <1>1, <2>3, <2>4
<1>3. ASSUME NEW b \in S, NEW c \in S, b < c
      PROVE  Cardinality(Less(b)) < Cardinality(Less(c))
  <2>1. Less(b) \cup {b} \subseteq Less(c) /\ b \notin Less(b)
    <3>1. b \in Int /\ c \in Int /\ \A a \in S : a \in Int
      BY <1>1
    <3>2. \A a \in S : a < b => a < c
      BY <1>3, <3>1
    <3>3. b \notin Less(b)
      BY <3>1
    <3>4. \A a \in Less(b) : a \in Less(c)
      BY <3>2
    <3>5. b \in Less(c)
      BY <1>3
    <3> HIDE DEF Less
    <3> QED BY <3>3, <3>4, <3>5
  <2>2. IsFiniteSet(Less(b) \cup {b}) /\ Cardinality(Less(b) \cup {b}) = Cardinality(Less(b)) + 1
    BY <1>2, <2>1, FS_AddElement
  <2>3. Cardinality(Less(b) \cup {b}) <= Cardinality(Less(c))
    BY <1>2, <2>1, FS_Subset
  <2>4. Cardinality(Less(b)) \in Nat /\ Cardinality(Less(c)) \in Nat
    BY <1>2, FS_CardinalityType
  <2> HIDE DEF Less
  <2> QED BY <2>2, <2>3, <2>4
<1>4. f \in Injection(S, 1 .. n)
  <2>1. f \in [S -> 1 .. n]
    <3>1. \A b \in S : Cardinality(Less(b)) + 1 \in 1 .. n
      <4> HIDE DEF Less, n
      <4> QED BY <1>1, <1>2
    <3> HIDE DEF Less, n
    <3> QED BY <3>1
  <2>2. ASSUME NEW b \in S, NEW c \in S, f[b] = f[c] PROVE b = c
    <3>1. Cardinality(Less(b)) = Cardinality(Less(c))
      <4>1. Cardinality(Less(b)) \in Nat /\ Cardinality(Less(c)) \in Nat
        BY <1>2, FS_CardinalityType
      <4> HIDE DEF Less
      <4> QED BY <2>2, <4>1
    <3>2. ~(b < c) /\ ~(c < b)
      <4>1. Cardinality(Less(b)) \in Nat
        BY <1>2, FS_CardinalityType
      <4> HIDE DEF Less
      <4> QED BY <1>3, <3>1, <4>1
    <3> QED BY <1>1, <3>2
  <2> HIDE DEF f
  <2> QED BY <2>1, <2>2 DEF Injection, IsInjective
<1>5. f \in Surjection(S, 1 .. n)
  <2>1. IsFiniteSet(1 .. n) /\ Cardinality(1 .. n) = n
    <3> HIDE DEF n
    <3>1. 1 \in Int /\ n \in Int
      BY <1>1
    <3>2. IsFiniteSet(1 .. n) /\ Cardinality(1 .. n) = IF 1 > n THEN 0 ELSE n - 1 + 1
      BY <3>1, FS_Interval
    <3> QED BY <1>1, <3>2
  <2> HIDE DEF f
  <2> QED BY <1>4, <2>1, FS_Injection
<1> DEFINE s == InOrder(S)
           At(k, b) == Cardinality(Less(b)) = k - 1
<1>6. s = [k \in 1 .. n |-> CHOOSE b \in S : At(k, b)]
  BY DEF InOrder
<1>7. ASSUME NEW k \in 1 .. n PROVE s[k] \in S /\ At(k, s[k])
  <2>1. PICK b \in S : f[b] = k
    BY <1>5 DEF Surjection
  <2>2. At(k, b)
    <3>1. Cardinality(Less(b)) \in Nat /\ k \in Nat
      BY <1>2, FS_CardinalityType
    <3> HIDE DEF Less
    <3> QED BY <2>1, <3>1
  <2>3. s[k] = CHOOSE c \in S : At(k, c)
    <3> HIDE DEF At, s
    <3> QED BY <1>6
  <2> HIDE DEF At, s
  <2> QED BY <2>2, <2>3
<1>8. s \in Seq(S) /\ DOMAIN s = 1 .. n
  <2>1. s \in [1 .. n -> S]
    <3> HIDE DEF s, At, n
    <3>1. DOMAIN s = 1 .. n /\ s = [k \in 1 .. n |-> s[k]]
      BY <1>6
    <3> QED BY <1>7, <3>1
  <2> HIDE DEF s, n
  <2> QED BY <1>1, <2>1
<1>9. ASSUME NEW b \in S PROVE \E k \in 1 .. n : s[k] = b
  <2>1. f[b] \in 1 .. n /\ f[b] = Cardinality(Less(b)) + 1
    BY <1>4 DEF Injection
  <2>2. s[f[b]] \in S /\ At(f[b], s[f[b]])
    <3> HIDE DEF f, s, At
    <3> QED BY <1>7, <2>1
  <2>3. f[s[f[b]]] = f[b]
    <3>1. f[s[f[b]]] = Cardinality(Less(s[f[b]])) + 1
      BY <2>2
    <3>2. f[b] \in Nat
      BY <2>1
    <3> HIDE DEF f, s, Less
    <3> QED BY <2>2, <3>1, <3>2
  <2>4. s[f[b]] = b
    <3> HIDE DEF f, s
    <3> QED BY <1>4, <2>2, <2>3 DEF Injection, IsInjective
  <2> QED BY <2>1, <2>4
<1> HIDE DEF s
<1>10. ToSet(s) = S
  <2>1. ToSet(s) = {s[k] : k \in 1 .. n}
    BY <1>8 DEF ToSet
  <2> QED BY <1>7, <1>9, <2>1
<1> QED BY <1>8, <1>10 DEF s

-----------------------------------------------------------------------------
(* The graph of the walk that runs. *)
Graph == succ \in [Blocks -> Seq(Blocks)] /\ walk \in {"forward", "reverse"}

To(n) == ToSet(Out(n))
From(n) == ToSet(In(n))

LEMMA ToSetOf ==
  ASSUME NEW S, NEW s \in Seq(S)
  PROVE  ToSet(s) \subseteq S /\ (ToSet(s) = {} <=> s = << >>)
  BY DEF ToSet

LEMMA GraphFacts ==
  ASSUME Graph
  PROVE  /\ Nodes \subseteq Nat \ {None} /\ Root \in Nodes /\ None \notin Nodes
         /\ \A n \in Nodes : /\ Out(n) \in Seq(Nodes) /\ In(n) \in Seq(Nodes)
                             /\ To(n) \subseteq Nodes /\ From(n) \subseteq Nodes
         /\ \A p, n \in Nodes : p \in From(n) <=> n \in To(p)
<1>1. N \in Nat \ {0}
  BY CfgAssumption
<1>2. Nodes \subseteq Nat \ {None} /\ Root \in Nodes /\ None \notin Nodes /\ Blocks \subseteq Nodes
      /\ Exit \notin Blocks
  BY <1>1 DEF Graph, Nodes, Root, Blocks, Exit, None
<1> DEFINE P(b) == {p \in Blocks : b \in ToSet(succ[p])}
           E == {b \in Blocks : succ[b] = << >>}
<1>3. ASSUME NEW b
      PROVE  Preds(b) \in Seq(Blocks) /\ ToSet(Preds(b)) = P(b)
  <2>1. P(b) \subseteq Blocks
    OBVIOUS
  <2>2. InOrder(P(b)) \in Seq(P(b)) /\ ToSet(InOrder(P(b))) = P(b)
    <3> HIDE DEF P
    <3> QED BY <2>1, InOrderIs
  <2>3. InOrder(P(b)) \in Seq(Blocks)
    <3> HIDE DEF P
    <3> QED BY <2>1, <2>2
  <2> QED BY <2>2, <2>3 DEF Preds
<1>4. Exits \in Seq(Blocks) /\ ToSet(Exits) = E
  <2>1. E \subseteq Blocks
    OBVIOUS
  <2>2. InOrder(E) \in Seq(E) /\ ToSet(InOrder(E)) = E
    <3> HIDE DEF E
    <3> QED BY <2>1, InOrderIs
  <2>3. InOrder(E) \in Seq(Blocks)
    <3> HIDE DEF E
    <3> QED BY <2>1, <2>2
  <2> QED BY <2>2, <2>3 DEF Exits
<1>5. \A b \in Blocks : succ[b] \in Seq(Blocks) /\ ToSet(succ[b]) \subseteq Blocks
                        /\ (ToSet(succ[b]) = {} <=> succ[b] = << >>)
  BY ToSetOf DEF Graph
<1> HIDE DEF P, E
<1>6. CASE walk = "forward"
  <2>1. Nodes = Blocks /\ \A n : Out(n) = succ[n] /\ In(n) = Preds(n)
    BY <1>6 DEF Nodes, Out, In
  <2>2. \A n \in Nodes : /\ Out(n) \in Seq(Nodes) /\ In(n) \in Seq(Nodes)
                         /\ To(n) \subseteq Nodes /\ From(n) \subseteq Nodes
    BY <1>3, <1>5, <2>1 DEF To, From, P
  <2>3. \A p, n \in Nodes : p \in From(n) <=> n \in To(p)
    BY <1>3, <2>1 DEF To, From, P
  <2> QED BY <1>2, <2>2, <2>3
<1>7. CASE walk = "reverse"
  <2>1. Nodes = 1 .. Exit /\ Nodes = Blocks \cup {Exit}
    BY <1>1, <1>7 DEF Nodes, Blocks, Exit
  <2>2. /\ Out(Exit) = Exits /\ In(Exit) = << >>
        /\ \A n \in Blocks : /\ Out(n) = Preds(n)
                             /\ In(n) = IF succ[n] = << >> THEN <<Exit>> ELSE succ[n]
    BY <1>2, <1>7 DEF Out, In
  <2>3. Seq(Blocks) \subseteq Seq(Nodes) /\ <<Exit>> \in Seq(Nodes) /\ << >> \in Seq(Nodes)
    BY <2>1
  <2>4. ToSet(<<Exit>>) = {Exit} /\ ToSet(<< >>) = {}
    BY DEF ToSet
  <2>5. /\ To(Exit) = E /\ From(Exit) = {}
        /\ \A n \in Blocks : /\ To(n) = P(n)
                             /\ From(n) = IF succ[n] = << >> THEN {Exit} ELSE ToSet(succ[n])
    BY <1>3, <1>4, <2>2, <2>4 DEF To, From
  <2>6. \A n \in Nodes : Out(n) \in Seq(Nodes) /\ In(n) \in Seq(Nodes)
    BY <1>3, <1>4, <1>5, <2>1, <2>2, <2>3
  <2>7. \A n \in Nodes : To(n) \subseteq Nodes /\ From(n) \subseteq Nodes
    BY <2>6, ToSetOf DEF To, From
  <2>8. ASSUME NEW p \in Nodes, NEW n \in Nodes PROVE p \in From(n) <=> n \in To(p)
    <3>1. CASE n = Exit
      BY <1>2, <2>1, <2>5, <3>1 DEF P, E
    <3>2. CASE n \in Blocks /\ p = Exit
      BY <1>2, <1>5, <2>1, <2>5, <3>2 DEF E
    <3>3. CASE n \in Blocks /\ p \in Blocks
      <4>1. n \in To(p) <=> p \in ToSet(succ[n])
        BY <2>5, <3>3 DEF P
      <4>2. CASE succ[n] = << >>
        BY <1>2, <1>5, <2>5, <3>3, <4>1, <4>2
      <4>3. CASE succ[n] # << >>
        BY <2>5, <3>3, <4>1, <4>3
      <4> QED BY <4>2, <4>3
    <3> QED BY <2>1, <3>1, <3>2, <3>3
  <2> QED BY <1>2, <2>6, <2>7, <2>8
<1> QED BY <1>6, <1>7 DEF Graph

-----------------------------------------------------------------------------
(* What the walk reaches from its root on paths that avoid a set, and      *)
(* dominance in the graph of the walk.                                     *)
ClosedOn(S, A) == \A x \in S : To(x) \ A \subseteq S

Avoiding(A) ==
  {x \in Nodes : \A S \in SUBSET Nodes : {Root} \ A \subseteq S /\ ClosedOn(S, A) => x \in S}

Got == Avoiding({})
Doms(a, b) == b \in Got /\ b \notin Avoiding({a})

LEMMA AvoidingFacts ==
  ASSUME Graph, NEW A
  PROVE  /\ Avoiding(A) \subseteq Nodes
         /\ Root \notin A => Root \in Avoiding(A)
         /\ \A x \in Avoiding(A) : \A y \in To(x) : y \notin A => y \in Avoiding(A)
         /\ \A x \in Avoiding(A) : x \notin A
         /\ Avoiding(A) \subseteq Got
<1>1. Root \in Nodes /\ \A n \in Nodes : To(n) \subseteq Nodes
  BY GraphFacts
<1>2. Avoiding(A) \subseteq Nodes
  BY DEF Avoiding
<1>3. Root \notin A => Root \in Avoiding(A)
  BY <1>1 DEF Avoiding
<1>4. ASSUME NEW x \in Avoiding(A), NEW y \in To(x), y \notin A PROVE y \in Avoiding(A)
  <2>1. x \in Nodes /\ y \in Nodes
    BY <1>1, <1>2
  <2>2. ASSUME NEW S \in SUBSET Nodes, {Root} \ A \subseteq S, ClosedOn(S, A) PROVE y \in S
    <3>1. x \in S
      BY <2>2 DEF Avoiding
    <3> QED BY <1>4, <2>2, <3>1 DEF ClosedOn
  <2> QED BY <2>1, <2>2 DEF Avoiding
<1>5. ASSUME NEW x \in Avoiding(A) PROVE x \notin A
  <2>1. Nodes \ A \in SUBSET Nodes /\ {Root} \ A \subseteq Nodes \ A /\ ClosedOn(Nodes \ A, A)
    BY <1>1 DEF ClosedOn
  <2> QED BY <2>1 DEF Avoiding
<1>6. ASSUME NEW x \in Avoiding(A) PROVE x \in Got
  <2>1. ASSUME NEW S \in SUBSET Nodes, {Root} \ {} \subseteq S, ClosedOn(S, {}) PROVE x \in S
    <3>1. {Root} \ A \subseteq S /\ ClosedOn(S, A)
      BY <2>1 DEF ClosedOn
    <3> QED BY <3>1 DEF Avoiding
  <2> QED BY <1>2, <2>1 DEF Got, Avoiding
<1> QED BY <1>2, <1>3, <1>4, <1>5, <1>6

(* A set that no edge leaves holds all that is reached. *)
LEMMA AvoidingLeast ==
  ASSUME NEW A, NEW S, {Root} \ A \subseteq S, \A x \in S \cap Nodes : (To(x) \cap Nodes) \ A \subseteq S,
         Graph
  PROVE  Avoiding(A) \subseteq S
<1>1. \A n \in Nodes : To(n) \subseteq Nodes
  BY GraphFacts
<1>2. S \cap Nodes \in SUBSET Nodes /\ {Root} \ A \subseteq S \cap Nodes /\ ClosedOn(S \cap Nodes, A)
  BY <1>1, GraphFacts DEF ClosedOn
<1> QED BY <1>2 DEF Avoiding

LEMMA GotFacts ==
  ASSUME Graph
  PROVE  /\ Got \subseteq Nodes /\ Root \in Got
         /\ \A x \in Got : To(x) \subseteq Got
  BY AvoidingFacts DEF Got

LEMMA DomsFacts ==
  ASSUME Graph
  PROVE  /\ \A b \in Got : Doms(b, b) /\ Doms(Root, b)
         /\ \A a : Doms(a, Root) => a = Root
         /\ \A a, b : Doms(a, b) => a \in Got /\ b \in Got
         /\ \A a : \A n : \A p \in Got : Doms(a, n) /\ a # n /\ n \in To(p) => Doms(a, p)
<1>1. \A b \in Got : Doms(b, b)
  BY AvoidingFacts DEF Doms
<1>2. Avoiding({Root}) \subseteq {}
  BY AvoidingLeast
<1>3. \A b \in Got : Doms(Root, b)
  BY <1>2 DEF Doms
<1>4. \A a : Doms(a, Root) => a = Root
  BY AvoidingFacts DEF Doms
<1>5. ASSUME NEW a, NEW n, NEW p \in Got, Doms(a, n), a # n, n \in To(p) PROVE Doms(a, p)
  BY <1>5, AvoidingFacts DEF Doms
<1>6. ASSUME NEW a, NEW b, Doms(a, b) PROVE a \in Got
  <2> SUFFICES ASSUME a \notin Got PROVE FALSE
    OBVIOUS
  <2>1. Root \in Avoiding({a})
    BY AvoidingFacts, GotFacts
  <2>2. \A x \in Avoiding({a}) : \A y \in To(x) : y \in Avoiding({a})
    BY AvoidingFacts, GotFacts
  <2>3. Got \subseteq Avoiding({a})
    <3> DEFINE S == Avoiding({a})
    <3>1. {Root} \ {} \subseteq S /\ \A x \in S \cap Nodes : (To(x) \cap Nodes) \ {} \subseteq S
      BY <2>1, <2>2
    <3> HIDE DEF S
    <3>2. Avoiding({}) \subseteq S
      BY <3>1, AvoidingLeast
    <3> QED BY <3>2 DEF Got, S
  <2> QED BY <1>6, <2>3 DEF Doms
<1>7. \A a, b : Doms(a, b) => b \in Got
  BY DEF Doms
<1> QED BY <1>1, <1>3, <1>4, <1>5, <1>6, <1>7

-----------------------------------------------------------------------------
(* a is on the way from x up the tree: in every set with x that holds the  *)
(* parents of its members.                                                 *)
Anc(a, x) == \A S \in SUBSET Nodes : x \in S /\ (\A n \in S : idom[n] \in S) => a \in S

LEMMA AncFacts ==
  /\ \A x : Anc(x, x)
  /\ \A a, x : Anc(a, x) => Anc(idom[a], x)
  /\ \A a, y, x : Anc(a, y) /\ Anc(y, x) => Anc(a, x)
  /\ \A a : \A x \in Nodes : Anc(a, x) /\ a # x => Anc(a, idom[x])
<1>1. ASSUME NEW a, NEW x \in Nodes, Anc(a, x), a # x PROVE Anc(a, idom[x])
  <2> SUFFICES ASSUME NEW S \in SUBSET Nodes, idom[x] \in S, \A n \in S : idom[n] \in S
               PROVE  a \in S
    BY DEF Anc
  <2>1. S \cup {x} \in SUBSET Nodes /\ \A n \in S \cup {x} : idom[n] \in S \cup {x}
    OBVIOUS
  <2>2. a \in S \cup {x}
    BY <1>1, <2>1 DEF Anc
  <2> QED BY <1>1, <2>2
<1> QED BY <1>1 DEF Anc

-----------------------------------------------------------------------------
(* The search: what is on the stack is a path of the graph from the root,  *)
(* and what was left came to it on an edge from a node that is left later. *)
OnStack == {stack[i][1] : i \in 1 .. Len(stack)}

StackOK ==
  /\ stack \in Seq(Nodes \X (Nat \ {0}))
  /\ \A i \in 1 .. Len(stack) :
       /\ stack[i][2] <= Len(Out(stack[i][1])) + 1
       /\ \A c \in 1 .. stack[i][2] - 1 : Out(stack[i][1])[c] \in seen
       /\ IF i = 1 THEN stack[i][1] = Root ELSE stack[i][1] \in To(stack[i - 1][1])
  /\ \A i, j \in 1 .. Len(stack) : stack[i][1] = stack[j][1] => i = j

LeftLater(i, p) == p \in OnStack \/ \E j \in 1 .. Len(post) : i < j /\ post[j] = p

PostOK ==
  /\ post \in Seq(Nodes)
  /\ \A i, j \in 1 .. Len(post) : post[i] = post[j] => i = j
  /\ \A i \in 1 .. Len(post) : /\ post[i] \notin OnStack
                               /\ To(post[i]) \subseteq seen
                               /\ post[i] # Root => \E p \in seen : post[i] \in To(p) /\ LeftLater(i, p)

SeenOK ==
  /\ seen = OnStack \cup {post[i] : i \in 1 .. Len(post)}
  /\ Root \in seen /\ seen \subseteq Got

Searching == StackOK /\ PostOK /\ SeenOK

(* While the search runs no node but the root has a parent. *)
Unswept ==
  /\ sweep = << >> /\ visit = Idle /\ changed = TRUE
  /\ \A n \in Nodes \ {Root} : idom[n] = None

(* Nothing about the graph changes in a step of a walk. *)
LEMMA SameGraph ==
  ASSUME succ' = succ, walk' = walk
  PROVE  /\ Nodes' = Nodes /\ Root' = Root /\ (Graph' <=> Graph)
         /\ \A n : Out(n)' = Out(n) /\ In(n)' = In(n) /\ To(n)' = To(n) /\ From(n)' = From(n)
         /\ \A A : Avoiding(A)' = Avoiding(A)
         /\ Got' = Got
         /\ \A a, b : Doms(a, b)' <=> Doms(a, b)
<1>1. Nodes' = Nodes /\ Root' = Root /\ (Graph' <=> Graph)
  BY DEF Nodes, Root, Graph
<1>2. \A b : Preds(b)' = Preds(b)
  BY DEF Preds
<1>3. Exits' = Exits
  BY DEF Exits
<1>4. \A n : Out(n)' = Out(n) /\ In(n)' = In(n)
  BY <1>2, <1>3 DEF Out, In
<1>5. \A n : To(n)' = To(n) /\ From(n)' = From(n)
  BY <1>4 DEF To, From
<1>6. \A S, A : ClosedOn(S, A)' <=> ClosedOn(S, A)
  BY <1>5 DEF ClosedOn
<1>7. ASSUME NEW A PROVE Avoiding(A)' = Avoiding(A)
  BY <1>1, <1>6 DEF Avoiding
<1>8. Got' = Got
  BY <1>7 DEF Got
<1>9. \A a, b : Doms(a, b)' <=> Doms(a, b)
  BY <1>7, <1>8 DEF Doms
<1> QED BY <1>1, <1>4, <1>5, <1>7, <1>8, <1>9

(* The node on top of the stack and its next child. *)
LEMMA TopFacts ==
  ASSUME Graph, StackOK, stack # << >>
  PROVE  /\ Len(stack) \in Nat \ {0} /\ Top = stack[Len(stack)]
         /\ Top[1] \in Nodes /\ Top[2] \in Nat \ {0} /\ Top = <<Top[1], Top[2]>>
         /\ Top[1] \in OnStack
         /\ Len(Out(Top[1])) \in Nat
         /\ Top[2] <= Len(Out(Top[1])) + 1
<1>1. Len(stack) \in Nat \ {0} /\ stack[Len(stack)] \in Nodes \X (Nat \ {0})
  BY DEF StackOK
<1>2. Top = stack[Len(stack)]
  BY DEF Top, Last
<1>3. Out(Top[1]) \in Seq(Nodes)
  BY <1>1, <1>2, GraphFacts
<1> QED BY <1>1, <1>2, <1>3 DEF StackOK, OnStack

LEMMA DescendSearches ==
  ASSUME Graph, Searching, Descend
  PROVE  Searching'
<1> DEFINE n == Len(stack)
           t == Top[1]
           k == Top[2]
           s == Out(t)[k]
           turned == [stack EXCEPT ![Len(stack)] = <<Top[1], Top[2] + 1>>]
<1> USE DEF Searching
<1>1. /\ stack # << >> /\ k <= Len(Out(t)) /\ seen' = seen \cup {s} /\ post' = post
      /\ stack' = IF IsNew(s) THEN Append(turned, <<s, 1>>) ELSE turned
      /\ succ' = succ /\ walk' = walk
  BY DEF Descend
<1>2. /\ n \in Nat \ {0} /\ Top = stack[n] /\ t \in Nodes /\ k \in Nat \ {0} /\ Top = <<t, k>>
      /\ t \in OnStack /\ Len(Out(t)) \in Nat
  BY <1>1, TopFacts
<1>3. s \in Nodes /\ s \in To(t)
  <2>1. Out(t) \in Seq(Nodes) /\ k \in 1 .. Len(Out(t))
    BY <1>1, <1>2, GraphFacts
  <2> QED BY <2>1 DEF To, ToSet
<1>4. /\ turned \in Seq(Nodes \X (Nat \ {0})) /\ Len(turned) = n /\ turned[n] = <<t, k + 1>>
      /\ \A i \in 1 .. n : i # n => turned[i] = stack[i]
  <2>1. <<t, k + 1>> \in Nodes \X (Nat \ {0})
    BY <1>2
  <2>2. stack \in Seq(Nodes \X (Nat \ {0})) /\ n \in 1 .. Len(stack)
    BY <1>2 DEF StackOK
  <2> HIDE DEF t, k
  <2> QED BY <2>1, <2>2 DEF t, k
<1> HIDE DEF turned
<1>5. \A i \in 1 .. n : turned[i][1] = stack[i][1]
  BY <1>2, <1>4
<1>6. s \in seen' /\ seen \subseteq seen'
  BY <1>1
<1>7. Nodes' = Nodes /\ Root' = Root /\ Got' = Got /\ \A x : Out(x)' = Out(x) /\ To(x)' = To(x)
  BY <1>1, SameGraph
<1> HIDE DEF s
<1>8. \A i \in 1 .. n :
        /\ turned[i][2] <= Len(Out(turned[i][1])) + 1
        /\ \A c \in 1 .. turned[i][2] - 1 : Out(turned[i][1])[c] \in seen'
        /\ IF i = 1 THEN turned[i][1] = Root ELSE turned[i][1] \in To(turned[i - 1][1])
  <2> SUFFICES ASSUME NEW i \in 1 .. n
               PROVE  /\ turned[i][2] <= Len(Out(turned[i][1])) + 1
                      /\ \A c \in 1 .. turned[i][2] - 1 : Out(turned[i][1])[c] \in seen'
                      /\ IF i = 1 THEN turned[i][1] = Root ELSE turned[i][1] \in To(turned[i - 1][1])
    OBVIOUS
  <2>1. IF i = 1 THEN turned[i][1] = Root ELSE turned[i][1] \in To(turned[i - 1][1])
    <3>1. i # 1 => i - 1 \in 1 .. n
      BY <1>2
    <3>2. IF i = 1 THEN stack[i][1] = Root ELSE stack[i][1] \in To(stack[i - 1][1])
      BY DEF StackOK
    <3> QED BY <1>5, <3>1, <3>2
  <2>2. /\ stack[i][2] <= Len(Out(stack[i][1])) + 1
        /\ \A c \in 1 .. stack[i][2] - 1 : Out(stack[i][1])[c] \in seen
    BY DEF StackOK
  <2>3. CASE i # n
    BY <1>4, <1>6, <2>1, <2>2, <2>3
  <2>4. CASE i = n
    <3>1. turned[i][1] = t /\ turned[i][2] = k + 1 /\ stack[i][1] = t /\ stack[i][2] = k
      BY <1>2, <1>4, <2>4
    <3>2. ASSUME NEW c \in 1 .. k PROVE Out(t)[c] \in seen'
      <4>1. CASE c = k
        BY <1>6, <4>1 DEF s
      <4>2. CASE c # k
        <5>1. c \in 1 .. k - 1
          BY <1>2, <4>2
        <5> QED BY <1>6, <2>2, <3>1, <5>1
      <4> QED BY <4>1, <4>2
    <3>3. (k + 1) - 1 = k /\ k + 1 <= Len(Out(t)) + 1
      BY <1>1, <1>2
    <3> QED BY <2>1, <3>1, <3>2, <3>3
  <2> QED BY <2>3, <2>4
<1>9. s \in Got
  <2>1. t \in Got
    BY <1>2 DEF SeenOK
  <2> QED BY <1>3, <2>1, GotFacts
<1>10. Root \in seen' /\ seen' \subseteq Got
  BY <1>1, <1>9 DEF SeenOK, s
<1>11. /\ \A i, j \in 1 .. n : turned[i][1] = turned[j][1] => i = j
       /\ OnStack = {turned[i][1] : i \in 1 .. n}
  <2>1. OnStack = {stack[i][1] : i \in 1 .. n}
    BY DEF OnStack
  <2>2. \A i, j \in 1 .. n : stack[i][1] = stack[j][1] => i = j
    BY DEF StackOK
  <2> HIDE DEF n
  <2> QED BY <1>5, <2>1, <2>2
<1>12. CASE ~IsNew(s)
  <2>1. stack' = turned /\ seen' = seen
    BY <1>1, <1>12 DEF IsNew, s
  <2>2. OnStack' = OnStack
    <3>1. OnStack' = {stack'[i][1] : i \in 1 .. Len(stack')}
      BY DEF OnStack
    <3> QED BY <1>4, <1>11, <2>1, <3>1
  <2>3. StackOK'
    BY <1>4, <1>7, <1>8, <1>11, <2>1 DEF StackOK
  <2>4. PostOK'
    BY <1>1, <1>7, <2>1, <2>2 DEF PostOK, LeftLater
  <2>5. SeenOK'
    BY <1>1, <1>7, <2>1, <2>2 DEF SeenOK
  <2> QED BY <2>3, <2>4, <2>5
<1>13. CASE IsNew(s)
  <2>1. stack' = Append(turned, <<s, 1>>) /\ s \notin seen
    BY <1>1, <1>13 DEF IsNew, s
  <2>2. /\ stack' \in Seq(Nodes \X (Nat \ {0})) /\ Len(stack') = n + 1
        /\ stack'[n + 1] = <<s, 1>> /\ \A i \in 1 .. n : stack'[i] = turned[i]
    <3>1. <<s, 1>> \in Nodes \X (Nat \ {0})
      BY <1>3
    <3> QED BY <1>2, <1>4, <2>1, <3>1
  <2>3. \A i \in 1 .. Len(stack') : i \in 1 .. n \/ i = n + 1
    BY <1>2, <2>2
  <2>4. OnStack' = OnStack \cup {s}
    <3>1. OnStack' = {stack'[i][1] : i \in 1 .. Len(stack')}
      BY DEF OnStack
    <3>2. 1 .. Len(stack') = (1 .. n) \cup {n + 1}
      BY <1>2, <2>2
    <3>3. \A i \in 1 .. n : stack'[i][1] = turned[i][1]
      BY <2>2
    <3>4. stack'[n + 1][1] = s
      BY <2>2
    <3> HIDE DEF n
    <3> QED BY <1>11, <3>1, <3>2, <3>3, <3>4
  <2>5. s \notin OnStack /\ \A i \in 1 .. Len(post) : post[i] # s
    BY <2>1 DEF SeenOK
  <2>6. StackOK'
    <3>1. ASSUME NEW i \in 1 .. Len(stack')
          PROVE  /\ stack'[i][2] <= Len(Out(stack'[i][1])) + 1
                 /\ \A c \in 1 .. stack'[i][2] - 1 : Out(stack'[i][1])[c] \in seen'
                 /\ IF i = 1 THEN stack'[i][1] = Root ELSE stack'[i][1] \in To(stack'[i - 1][1])
      <4>1. CASE i \in 1 .. n
        <5>1. i # 1 => i - 1 \in 1 .. n
          BY <1>2, <4>1
        <5> QED BY <1>8, <2>2, <4>1, <5>1
      <4>2. CASE i = n + 1
        <5>1. stack'[i][1] = s /\ stack'[i][2] = 1 /\ i # 1 /\ i - 1 = n
          BY <1>2, <2>2, <4>2
        <5>2. stack'[n][1] = t
          BY <1>2, <1>4, <2>2
        <5>3. Len(Out(s)) \in Nat
          BY <1>3, GraphFacts
        <5>4. 1 .. 1 - 1 = {}
          OBVIOUS
        <5> QED BY <1>3, <5>1, <5>2, <5>3, <5>4
      <4> QED BY <2>3, <4>1, <4>2
    <3>2. ASSUME NEW i \in 1 .. Len(stack'), NEW j \in 1 .. Len(stack'), stack'[i][1] = stack'[j][1]
          PROVE  i = j
      <4>1. \A m \in 1 .. n : stack'[m][1] = turned[m][1] /\ stack'[m][1] # s
        BY <1>11, <2>2, <2>5
      <4>2. stack'[n + 1][1] = s
        BY <2>2
      <4> QED BY <1>11, <2>3, <3>2, <4>1, <4>2
    <3> QED BY <1>7, <2>2, <3>1, <3>2 DEF StackOK
  <2>7. PostOK'
    <3>1. ASSUME NEW i \in 1 .. Len(post), NEW p, LeftLater(i, p) PROVE LeftLater(i, p)'
      BY <1>1, <2>4, <3>1 DEF LeftLater
    <3>2. ASSUME NEW i \in 1 .. Len(post)
          PROVE  /\ post[i] \notin OnStack' /\ To(post[i]) \subseteq seen'
                 /\ post[i] # Root => \E p \in seen' : post[i] \in To(p) /\ LeftLater(i, p)'
      <4>1. post[i] \notin OnStack /\ To(post[i]) \subseteq seen
        BY DEF PostOK
      <4>2. post[i] \notin OnStack' /\ To(post[i]) \subseteq seen'
        BY <1>6, <2>4, <2>5, <4>1
      <4>3. ASSUME post[i] # Root
            PROVE  \E p \in seen' : post[i] \in To(p) /\ LeftLater(i, p)'
        <5>1. PICK p \in seen : post[i] \in To(p) /\ LeftLater(i, p)
          BY <4>3 DEF PostOK
        <5> QED BY <1>6, <1>7, <3>1, <5>1
      <4> QED BY <1>7, <4>2, <4>3
    <3>3. post' \in Seq(Nodes') /\ \A i, j \in 1 .. Len(post') : post'[i] = post'[j] => i = j
      BY <1>1, <1>7 DEF PostOK
    <3>4. \A i \in 1 .. Len(post') :
            /\ post'[i] \notin OnStack' /\ To(post'[i]) \subseteq seen'
            /\ post'[i] # Root => \E p \in seen' : post'[i] \in To(p) /\ LeftLater(i, p)'
      BY <1>1, <3>2
    <3> QED BY <1>7, <3>3, <3>4 DEF PostOK
  <2>8. SeenOK'
    BY <1>1, <1>7, <1>10, <2>4 DEF SeenOK, s
  <2> QED BY <2>6, <2>7, <2>8
<1> QED BY <1>12, <1>13

LEMMA LeaveSearches ==
  ASSUME Graph, Searching, Leave
  PROVE  Searching'
<1> DEFINE n == Len(stack)
           m == Len(post)
           t == Top[1]
<1> USE DEF Searching
<1>1. /\ stack # << >> /\ Top[2] > Len(Out(t)) /\ post' = Append(post, t) /\ stack' = Front(stack)
      /\ seen' = seen /\ succ' = succ /\ walk' = walk
  BY DEF Leave
<1>2. /\ n \in Nat \ {0} /\ Top = stack[n] /\ t \in Nodes /\ Top[2] \in Nat \ {0}
      /\ t \in OnStack /\ Len(Out(t)) \in Nat /\ Top[2] <= Len(Out(t)) + 1
  BY <1>1, TopFacts
<1>3. /\ stack' \in Seq(Nodes \X (Nat \ {0})) /\ Len(stack') = n - 1
      /\ \A i \in 1 .. n - 1 : stack'[i] = stack[i]
  <2>1. stack \in Seq(Nodes \X (Nat \ {0})) /\ n \in Nat \ {0} /\ stack' = SubSeq(stack, 1, n - 1)
    BY <1>1, <1>2 DEF StackOK, Front
  <2>2. Len(stack) = n
    OBVIOUS
  <2> HIDE DEF n
  <2> QED BY <2>1, <2>2
<1>4. /\ post' \in Seq(Nodes) /\ Len(post') = m + 1 /\ post'[m + 1] = t /\ m \in Nat
      /\ \A i \in 1 .. m : post'[i] = post[i]
  <2>1. post \in Seq(Nodes)
    BY DEF PostOK
  <2> HIDE DEF t
  <2> QED BY <1>1, <1>2, <2>1
<1>5. Nodes' = Nodes /\ Root' = Root /\ Got' = Got /\ \A x : Out(x)' = Out(x) /\ To(x)' = To(x)
  BY <1>1, SameGraph
<1>6. OnStack' = OnStack \ {t}
  <2>1. OnStack' = {stack'[i][1] : i \in 1 .. n - 1} /\ OnStack = {stack[i][1] : i \in 1 .. n}
    BY <1>3 DEF OnStack
  <2>2. OnStack' = {stack[i][1] : i \in 1 .. n - 1}
    <3> HIDE DEF n
    <3> QED BY <1>3, <2>1
  <2>3. \A i \in 1 .. n - 1 : i \in 1 .. n /\ i # n
    BY <1>2
  <2>4. \A i \in 1 .. n - 1 : stack[i][1] # t
    <3>1. n \in 1 .. n
      BY <1>2
    <3> QED BY <1>2, <2>3, <3>1 DEF StackOK
  <2>5. \A i \in 1 .. n : i = n \/ i \in 1 .. n - 1
    BY <1>2
  <2>6. stack[n][1] = t
    BY <1>2
  <2>7. n \in 1 .. n
    BY <1>2
  <2> HIDE DEF n, t
  <2>8. ASSUME NEW x \in OnStack' PROVE x \in OnStack \ {t}
    BY <2>1, <2>2, <2>3, <2>4
  <2>9. ASSUME NEW x \in OnStack \ {t} PROVE x \in OnStack'
    <3>1. PICK i \in 1 .. n : x = stack[i][1]
      BY <2>1
    <3>2. i # n
      BY <2>6, <3>1
    <3> QED BY <2>2, <2>5, <3>1, <3>2
  <2> QED BY <2>8, <2>9
<1>7. StackOK'
  <2>1. ASSUME NEW i \in 1 .. n - 1
        PROVE  /\ stack'[i][2] <= Len(Out(stack'[i][1])) + 1
               /\ \A c \in 1 .. stack'[i][2] - 1 : Out(stack'[i][1])[c] \in seen
               /\ IF i = 1 THEN stack'[i][1] = Root ELSE stack'[i][1] \in To(stack'[i - 1][1])
    <3>1. i \in 1 .. n /\ (i # 1 => i - 1 \in 1 .. n - 1)
      BY <1>2
    <3> QED BY <1>3, <3>1 DEF StackOK
  <2>2. \A i \in 1 .. n - 1 : i \in 1 .. n
    BY <1>2
  <2>3. \A i, j \in 1 .. n - 1 : stack'[i][1] = stack'[j][1] => i = j
    BY <1>3, <2>2 DEF StackOK
  <2> HIDE DEF n
  <2> QED BY <1>1, <1>3, <1>5, <2>1, <2>3 DEF StackOK
<1>8. To(t) \subseteq seen
  <2>1. Out(t) \in Seq(Nodes)
    BY <1>2, GraphFacts
  <2>2. n \in 1 .. Len(stack) /\ stack[n][1] = t /\ stack[n][2] = Top[2]
    BY <1>2
  <2>3. Top[2] = Len(Out(t)) + 1
    BY <1>1, <1>2
  <2>4. \A c \in 1 .. Top[2] - 1 : Out(t)[c] \in seen
    BY <2>2 DEF StackOK
  <2>5. \A c \in 1 .. Len(Out(t)) : Out(t)[c] \in seen
    BY <1>2, <2>3, <2>4
  <2> QED BY <2>1, <2>5 DEF To, ToSet
<1>9. \A i \in 1 .. m : post[i] # t
  BY <1>2 DEF PostOK
<1>10. \A i \in 1 .. Len(post') : i \in 1 .. m \/ i = m + 1
  BY <1>4
<1>11. ASSUME NEW i \in 1 .. m, NEW p, LeftLater(i, p) PROVE LeftLater(i, p)'
  <2>1. m + 1 \in 1 .. Len(post') /\ i < m + 1 /\ i \in 1 .. Len(post')
    BY <1>4
  <2>2. CASE p = t
    BY <1>4, <2>1, <2>2 DEF LeftLater
  <2>3. CASE p # t
    <3>1. CASE p \in OnStack
      BY <1>6, <2>3, <3>1 DEF LeftLater
    <3>2. CASE \E j \in 1 .. m : i < j /\ post[j] = p
      <4>1. PICK j \in 1 .. m : i < j /\ post[j] = p
        BY <3>2
      <4>2. j \in 1 .. Len(post') /\ post'[j] = p
        BY <1>4, <4>1
      <4> QED BY <4>1, <4>2 DEF LeftLater
    <3> QED BY <1>11, <3>1, <3>2 DEF LeftLater
  <2> QED BY <2>2, <2>3
<1>12. PostOK'
  <2>1. ASSUME NEW i \in 1 .. Len(post')
        PROVE  /\ post'[i] \notin OnStack' /\ To(post'[i]) \subseteq seen
               /\ post'[i] # Root => \E p \in seen : post'[i] \in To(p) /\ LeftLater(i, p)'
    <3>1. CASE i \in 1 .. m
      <4>1. /\ post[i] \notin OnStack /\ To(post[i]) \subseteq seen
            /\ post[i] # Root => \E p \in seen : post[i] \in To(p) /\ LeftLater(i, p)
        BY <3>1 DEF PostOK
      <4> QED BY <1>4, <1>6, <1>11, <3>1, <4>1
    <3>2. CASE i = m + 1
      <4>1. post'[i] = t /\ t \notin OnStack'
        BY <1>4, <1>6, <3>2
      <4>2. ASSUME t # Root
            PROVE  \E p \in seen : t \in To(p) /\ LeftLater(i, p)'
        <5>1. n # 1 /\ t \in To(stack[n - 1][1])
          BY <1>2, <4>2 DEF StackOK
        <5>2. n - 1 \in 1 .. Len(stack') /\ stack'[n - 1] = stack[n - 1]
          <6>1. n \in Nat /\ n # 0 /\ n # 1
            BY <1>2, <5>1
          <6>2. Len(stack') = n - 1 /\ \A k \in 1 .. n - 1 : stack'[k] = stack[k]
            BY <1>3
          <6> HIDE DEF n
          <6>3. n - 1 \in 1 .. n - 1
            BY <6>1
          <6> QED BY <6>2, <6>3
        <5>3. stack[n - 1][1] \in OnStack'
          BY <5>2 DEF OnStack
        <5>4. stack[n - 1][1] \in seen
          BY <1>6, <5>3 DEF SeenOK
        <5> QED BY <5>1, <5>3, <5>4 DEF LeftLater
      <4> QED BY <1>8, <4>1, <4>2
    <3> QED BY <1>10, <3>1, <3>2
  <2>2. ASSUME NEW i \in 1 .. Len(post'), NEW j \in 1 .. Len(post'), post'[i] = post'[j]
        PROVE  i = j
    <3>1. \A k, l \in 1 .. m : post[k] = post[l] => k = l
      BY DEF PostOK
    <3> QED BY <1>4, <1>9, <1>10, <2>2, <3>1
  <2> QED BY <1>1, <1>4, <1>5, <2>1, <2>2 DEF PostOK
<1>13. SeenOK'
  <2>1. {post'[i] : i \in 1 .. Len(post')} = {post[i] : i \in 1 .. m} \cup {t}
    <3>1. m + 1 \in 1 .. Len(post') /\ \A i \in 1 .. m : i \in 1 .. Len(post')
      BY <1>4
    <3> HIDE DEF m, t
    <3> QED BY <1>4, <1>10, <3>1
  <2>2. seen = OnStack' \cup {post'[i] : i \in 1 .. Len(post')}
    <3> HIDE DEF t
    <3> QED BY <1>2, <1>6, <2>1 DEF SeenOK
  <2> QED BY <1>1, <1>5, <2>2 DEF SeenOK
<1> QED BY <1>7, <1>12, <1>13

-----------------------------------------------------------------------------
(* The search is over: what it reached is numbered, the root last, and     *)
(* each node has an edge from one with a greater number.                   *)
LEMMA Searched ==
  ASSUME Graph, Searching, stack = << >>
  PROVE  /\ post \in Seq(Nodes) /\ Len(post) \in Nat \ {0}
         /\ \A n \in Got : Number(n) \in 1 .. Len(post) /\ post[Number(n)] = n
         /\ \A n : n \notin Got => Number(n) = None
         /\ \A i \in 1 .. Len(post) : post[i] \in Got /\ Number(post[i]) = i
         /\ \A n \in Got \ {Root} : \E p \in Got : n \in To(p) /\ Number(n) < Number(p)
         /\ Number(Root) = Len(post)
<1> USE DEF Searching
<1>1. OnStack = {} /\ post \in Seq(Nodes) /\ Len(post) \in Nat
  <2>1. 1 .. Len(stack) = {}
    OBVIOUS
  <2> QED BY <2>1 DEF OnStack, PostOK
<1>2. seen = ToSet(post) /\ DOMAIN post = 1 .. Len(post)
  BY <1>1 DEF SeenOK, ToSet
<1>3. ASSUME NEW x \in seen, NEW y \in To(x) PROVE y \in seen
  <2>1. PICK i \in 1 .. Len(post) : post[i] = x
    BY <1>1 DEF SeenOK
  <2> QED BY <1>3, <2>1 DEF PostOK
<1>4. seen = Got
  <2>1. Got \subseteq seen
    <3>1. {Root} \ {} \subseteq seen /\ \A x \in seen \cap Nodes : (To(x) \cap Nodes) \ {} \subseteq seen
      BY <1>3 DEF SeenOK
    <3> QED BY <3>1, AvoidingLeast DEF Got
  <2> QED BY <2>1 DEF SeenOK
<1>5. ASSUME NEW n \in Got PROVE Number(n) \in 1 .. Len(post) /\ post[Number(n)] = n
  <2>1. n \in ToSet(post) /\ \E i \in DOMAIN post : post[i] = n
    BY <1>2, <1>4, <1>5 DEF ToSet
  <2>2. Number(n) = CHOOSE i \in DOMAIN post : post[i] = n
    BY <2>1 DEF Number
  <2> QED BY <1>2, <2>1, <2>2
<1>6. ASSUME NEW n, n \notin Got PROVE Number(n) = None
  BY <1>2, <1>4, <1>6 DEF Number
<1>7. ASSUME NEW i \in 1 .. Len(post) PROVE post[i] \in Got /\ Number(post[i]) = i
  <2>1. post[i] \in Got
    BY <1>4 DEF SeenOK
  <2> QED BY <1>5, <2>1 DEF PostOK
<1>8. ASSUME NEW n \in Got \ {Root} PROVE \E p \in Got : n \in To(p) /\ Number(n) < Number(p)
  <2>1. Number(n) \in 1 .. Len(post) /\ post[Number(n)] = n
    BY <1>5
  <2>2. PICK p \in seen : n \in To(p) /\ LeftLater(Number(n), p)
    BY <2>1 DEF PostOK
  <2>3. PICK j \in 1 .. Len(post) : Number(n) < j /\ post[j] = p
    BY <1>1, <2>2 DEF LeftLater
  <2> QED BY <1>4, <1>7, <2>2, <2>3
<1>9. Number(Root) = Len(post) /\ Len(post) # 0
  <2>1. Root \in Got
    BY GotFacts
  <2>2. Number(Root) \in 1 .. Len(post)
    BY <1>5, <2>1
  <2>3. Len(post) \in 1 .. Len(post)
    BY <1>1, <2>2
  <2>4. post[Len(post)] \in Got /\ Number(post[Len(post)]) = Len(post)
    BY <1>7, <2>3
  <2>5. post[Len(post)] = Root
    <3> SUFFICES ASSUME post[Len(post)] # Root PROVE FALSE
      OBVIOUS
    <3>1. PICK p \in Got : Number(post[Len(post)]) < Number(p)
      BY <1>8, <2>4
    <3>2. Number(p) \in 1 .. Len(post)
      BY <1>5
    <3> QED BY <1>1, <2>4, <3>1, <3>2
  <2> QED BY <2>2, <2>4, <2>5
<1> QED BY <1>1, <1>5, <1>6, <1>7, <1>8, <1>9

(* What dominates a node is left after it. *)
LEMMA DomsNumber ==
  ASSUME Graph, Searching, stack = << >>, NEW a, NEW b, Doms(a, b)
  PROVE  Number(b) <= Number(a)
<1> DEFINE A == Avoiding({a})
           S == {k \in Nat : \A n \in Got :
                   Number(n) > Number(a) /\ Number(n) + k > Len(post) => n \in A}
<1>1. a \in Got /\ b \in Got /\ b \notin A
  BY DomsFacts DEF Doms
<1>2. /\ Len(post) \in Nat \ {0} /\ \A n \in Got : Number(n) \in 1 .. Len(post)
      /\ Number(Root) = Len(post)
      /\ \A n \in Got \ {Root} : \E p \in Got : n \in To(p) /\ Number(n) < Number(p)
  BY Searched
<1>3. 0 \in S
  BY <1>2
<1>4. ASSUME NEW k \in Nat, k \in S PROVE k + 1 \in S
  <2> SUFFICES ASSUME NEW n \in Got, Number(n) > Number(a), Number(n) + (k + 1) > Len(post)
               PROVE  n \in A
    <3> HIDE DEF A
    <3> QED BY k + 1 \in Nat
  <2>1. n # a
    BY <1>1, <1>2
  <2>2. CASE n = Root
    BY <2>1, <2>2, AvoidingFacts
  <2>3. CASE n # Root
    <3>1. PICK p \in Got : n \in To(p) /\ Number(n) < Number(p)
      BY <1>2, <2>3
    <3>2. Number(p) > Number(a) /\ Number(p) + k > Len(post)
      <4>1. Number(p) \in Nat /\ Number(n) \in Nat /\ Number(a) \in Nat
        BY <1>1, <1>2
      <4> QED BY <1>2, <3>1, <4>1
    <3>3. p \in A
      BY <1>4, <3>2
    <3> QED BY <2>1, <3>1, <3>3, AvoidingFacts
  <2> QED BY <2>2, <2>3
<1>5. Len(post) \in S
  <2> HIDE DEF S
  <2> QED BY <1>2, <1>3, <1>4, Induction
<1>6. Number(b) \in 1 .. Len(post) /\ Number(a) \in 1 .. Len(post)
  BY <1>1, <1>2
<1>7. Number(b) + Len(post) > Len(post)
  BY <1>2, <1>6
<1>8. ~(Number(b) > Number(a))
  BY <1>1, <1>5, <1>7
<1> HIDE DEF A, S
<1> QED BY <1>6, <1>8

-----------------------------------------------------------------------------
(* The tree: a parent has a parent and a greater number, and every strict  *)
(* dominator of a node dominates its parent.                               *)
Tree ==
  /\ idom \in [Nodes -> Nodes \cup {None}] /\ idom[Root] = Root
  /\ \A n \in Nodes : idom[n] # None => idom[idom[n]] # None
  /\ \A n \in Nodes \ {Root} : idom[n] # None =>
       /\ stack = << >> /\ n \in Got /\ Number(n) < Number(idom[n])
       /\ \A a : Doms(a, n) /\ a # n => Doms(a, idom[n])

(* The sweep has passed a node. *)
Visited(n) == n \in Got /\ Len(sweep) < Number(n) /\ n # visit.node

(* A sweep runs down the numbers. What it passed has a parent, and while   *)
(* it changed none, one that is above all predecessors.                    *)
Sweeping ==
  /\ changed \in BOOLEAN /\ sweep \in Seq(Nodes) /\ Len(sweep) <= Len(post)
  /\ \A i \in 1 .. Len(sweep) : sweep[i] = post[Len(sweep) + 1 - i]
  /\ sweep # << >> \/ visit # Idle \/ ~changed => \A n : Visited(n) => idom[n] # None
  /\ ~changed => \A n : Visited(n) /\ n # Root =>
       \A p \in From(n) : idom[p] # None => Anc(idom[n], p)

(* At a node, both fingers are under all of its strict dominators, and one *)
(* of them is above each predecessor looked at.                            *)
Visiting ==
  visit # Idle =>
    /\ stack = << >>
    /\ visit \in [node : Got \ {Root}, rest : Seq(Nodes),
                  finger : Nodes \cup {None}, parent : Nodes \cup {None}]
    /\ Number(visit.node) = Len(sweep) + 1
    /\ ToSet(visit.rest) \subseteq From(visit.node)
    /\ visit.finger = None <=> visit.parent = None
    /\ visit.finger # None => idom[visit.finger] # None /\ idom[visit.parent] # None
    /\ \A a : Doms(a, visit.node) /\ a # visit.node /\ visit.finger # None =>
                Doms(a, visit.finger) /\ Doms(a, visit.parent)
    /\ \A p \in From(visit.node) : idom[p] # None =>
         \/ p \in ToSet(visit.rest)
         \/ visit.parent # None /\ (Anc(visit.finger, p) \/ Anc(visit.parent, p))

Walking ==
  Graph /\ Searching /\ (stack # << >> => Unswept) /\ Tree /\ Sweeping /\ Visiting

LEMMA SameOrder ==
  ASSUME post' = post
  PROVE  \A n : Number(n)' = Number(n)
  BY DEF Number

LEMMA SameTree ==
  ASSUME succ' = succ, walk' = walk, idom' = idom
  PROVE  \A a, x : Anc(a, x)' <=> Anc(a, x)
<1>1. Nodes' = Nodes
  BY SameGraph
<1> QED BY <1>1 DEF Anc

(* A node with a parent was reached. *)
LEMMA ParentedReached ==
  ASSUME Graph, Tree
  PROVE  \A n \in Nodes : idom[n] # None => n \in Got /\ idom[n] \in Nodes /\ idom[n] \in Got
<1>1. Root \in Nodes /\ None \notin Nodes /\ Root \in Got
  BY GraphFacts, GotFacts
<1>2. \A n \in Nodes : idom[n] # None => n \in Got /\ idom[n] \in Nodes
  BY <1>1 DEF Tree
<1>3. \A n \in Nodes : idom[n] # None => idom[idom[n]] # None
  BY DEF Tree
<1> QED BY <1>2, <1>3

(* Ancestors have parents and greater numbers. *)
LEMMA AncNumber ==
  ASSUME Graph, Searching, stack = << >>, Tree, NEW a, NEW x \in Nodes, idom[x] # None, Anc(a, x)
  PROVE  a \in Nodes /\ idom[a] # None /\ Number(x) <= Number(a)
<1> DEFINE S == {n \in Nodes : idom[n] # None /\ Number(x) <= Number(n)}
<1>1. \A n \in Nodes : idom[n] # None => Number(n) \in Nat /\ idom[n] \in Nodes
  BY ParentedReached, Searched
<1>2. x \in S
  BY <1>1
<1>3. ASSUME NEW n \in S PROVE idom[n] \in S
  <2>1. n \in Nodes /\ idom[n] # None /\ Number(x) <= Number(n) /\ idom[n] \in Nodes
    BY <1>1
  <2>2. idom[idom[n]] # None
    BY <2>1 DEF Tree
  <2>3. CASE n = Root
    BY <2>1, <2>3 DEF Tree
  <2>4. CASE n # Root
    <3>1. Number(n) < Number(idom[n])
      BY <2>1, <2>4 DEF Tree
    <3>2. Number(x) \in Nat /\ Number(n) \in Nat /\ Number(idom[n]) \in Nat
      BY <1>1, <2>1, <2>2
    <3> QED BY <2>1, <2>2, <3>1, <3>2
  <2> QED BY <2>3, <2>4
<1>4. a \in S
  <2>1. S \in SUBSET Nodes
    OBVIOUS
  <2> HIDE DEF S
  <2> QED BY <1>2, <1>3, <2>1 DEF Anc
<1> QED BY <1>4

-----------------------------------------------------------------------------
(* Before the sweeps there is nothing to know of the tree. *)
LEMMA NothingSwept ==
  Graph /\ Searching /\ Unswept /\ idom \in [Nodes -> Nodes \cup {None}] /\ idom[Root] = Root
    => Walking
<1> SUFFICES ASSUME Graph, Searching, Unswept, idom \in [Nodes -> Nodes \cup {None}], idom[Root] = Root
             PROVE  Walking
  OBVIOUS
<1>1. Root \in Nodes /\ None \notin Nodes
  BY GraphFacts
<1>2. Tree
  <2>1. \A n \in Nodes : idom[n] # None => n = Root
    BY DEF Unswept
  <2> QED BY <1>1, <2>1 DEF Tree
<1>3. Sweeping
  <2>1. sweep \in Seq(Nodes) /\ Len(sweep) = 0 /\ changed = TRUE /\ visit = Idle /\ sweep = << >>
    BY DEF Unswept
  <2>2. Len(post) \in Nat
    BY DEF Searching, PostOK
  <2>3. 1 .. Len(sweep) = {}
    BY <2>1
  <2> QED BY <2>1, <2>2, <2>3 DEF Sweeping
<1>4. Visiting
  BY DEF Unswept, Visiting
<1> QED BY <1>2, <1>3, <1>4 DEF Walking

LEMMA SearchSteps ==
  ASSUME Walking, Descend \/ Leave
  PROVE  Walking'
<1>1. stack # << >> /\ succ' = succ /\ walk' = walk /\ idom' = idom /\ sweep' = sweep /\ visit' = visit
      /\ changed' = changed
  BY DEF Descend, Leave
<1>2. Searching'
  BY DescendSearches, LeaveSearches DEF Walking
<1>3. Nodes' = Nodes /\ Root' = Root /\ Graph'
  BY <1>1, SameGraph DEF Walking
<1>4. Unswept /\ idom \in [Nodes -> Nodes \cup {None}] /\ idom[Root] = Root
  BY <1>1 DEF Walking, Tree
<1>5. Unswept'
  BY <1>1, <1>3, <1>4 DEF Unswept
<1>6. (idom \in [Nodes -> Nodes \cup {None}])' /\ (idom[Root] = Root)'
  BY <1>1, <1>3, <1>4
<1>7. (Graph /\ Searching /\ Unswept /\ idom \in [Nodes -> Nodes \cup {None}] /\ idom[Root] = Root)'
      => Walking'
  BY NothingSwept, PTL
<1> QED BY <1>2, <1>3, <1>5, <1>6, <1>7

LEMMA SameSearch ==
  ASSUME succ' = succ, walk' = walk, stack' = stack, seen' = seen, post' = post
  PROVE  (Graph' <=> Graph) /\ (Searching' <=> Searching)
<1>1. Nodes' = Nodes /\ Root' = Root /\ (Graph' <=> Graph) /\ Got' = Got
      /\ \A n : Out(n)' = Out(n) /\ To(n)' = To(n)
  BY SameGraph
<1>2. OnStack' = OnStack
  BY DEF OnStack
<1>3. \A i, p : LeftLater(i, p)' <=> LeftLater(i, p)
  BY <1>2 DEF LeftLater
<1>4. StackOK' <=> StackOK
  BY <1>1 DEF StackOK
<1>5. PostOK' <=> PostOK
  BY <1>1, <1>2, <1>3 DEF PostOK
<1>6. SeenOK' <=> SeenOK
  BY <1>1, <1>2 DEF SeenOK
<1> QED BY <1>1, <1>4, <1>5, <1>6 DEF Searching

LEMMA SameWalk ==
  ASSUME succ' = succ, walk' = walk, stack' = stack, seen' = seen, post' = post, idom' = idom
  PROVE  (Graph' <=> Graph) /\ (Searching' <=> Searching) /\ (Tree' <=> Tree)
<1>1. Nodes' = Nodes /\ Root' = Root /\ Got' = Got /\ (\A a, b : Doms(a, b)' <=> Doms(a, b))
  BY SameGraph
<1>2. \A n : Number(n)' = Number(n)
  BY SameOrder
<1>3. Tree' <=> Tree
  BY <1>1, <1>2 DEF Tree
<1> QED BY <1>3, SameSearch

(* Where the walk is between two of its steps, after the search. *)
LEMMA SweepFacts ==
  ASSUME Walking, stack = << >>
  PROVE  /\ Root \in Nodes /\ Root \in Got /\ None \notin Nodes /\ Got \subseteq Nodes
         /\ Len(post) \in Nat \ {0} /\ Number(Root) = Len(post)
         /\ \A n \in Got : Number(n) \in 1 .. Len(post) /\ post[Number(n)] = n
         /\ \A m, n \in Got : Number(m) = Number(n) => m = n
         /\ \A n \in Nodes : idom[n] # None => n \in Got /\ idom[n] \in Got
         /\ Len(sweep) \in Nat
<1>1. \A n \in Got : Number(n) \in 1 .. Len(post) /\ post[Number(n)] = n
  BY Searched DEF Walking
<1>2. \A m, n \in Got : Number(m) = Number(n) => m = n
  BY <1>1
<1>3. Root \in Nodes /\ None \notin Nodes
  BY GraphFacts DEF Walking
<1>4. Root \in Got /\ Got \subseteq Nodes
  BY GotFacts DEF Walking
<1>5. Len(post) \in Nat \ {0} /\ Number(Root) = Len(post)
  BY Searched DEF Walking
<1>6. \A n \in Nodes : idom[n] # None => n \in Got /\ idom[n] \in Got
  BY ParentedReached DEF Walking
<1>7. Len(sweep) \in Nat
  BY DEF Walking, Sweeping
<1> QED BY <1>1, <1>2, <1>3, <1>4, <1>5, <1>6, <1>7

LEMMA StartSweepWalks ==
  ASSUME Walking, StartSweep
  PROVE  Walking'
<1>1. /\ stack = << >> /\ visit = Idle /\ sweep' = Reverse(post) /\ changed' = FALSE
      /\ succ' = succ /\ walk' = walk /\ stack' = stack /\ seen' = seen /\ post' = post
      /\ idom' = idom /\ visit' = visit
  BY DEF StartSweep, SweepOver
<1>2. Graph' /\ Searching' /\ Tree'
  BY <1>1, SameWalk DEF Walking
<1>3. /\ post \in Seq(Nodes) /\ \A n \in Got : Number(n) \in 1 .. Len(post)
      /\ Nodes' = Nodes /\ Got' = Got /\ \A n : Number(n)' = Number(n)
  BY <1>1, Searched, SameGraph, SameOrder DEF Walking
<1>4. /\ sweep' \in Seq(Nodes) /\ Len(sweep') = Len(post)
      /\ \A i \in 1 .. Len(post) : sweep'[i] = post[Len(post) + 1 - i]
  BY <1>1, <1>3 DEF Reverse
<1>5. \A n : ~Visited(n)'
  <2> SUFFICES ASSUME NEW n, n \in Got, Len(sweep') < Number(n) PROVE FALSE
    BY <1>3 DEF Visited
  <2>1. Number(n) \in 1 .. Len(post) /\ Len(post) \in Nat
    BY <1>3
  <2> QED BY <1>4, <2>1
<1>6. Sweeping'
  <2>1. Len(sweep') <= Len(post')
    BY <1>1, <1>3, <1>4
  <2>2. \A i \in 1 .. Len(sweep') : sweep'[i] = post'[Len(sweep') + 1 - i]
    BY <1>1, <1>4
  <2>3. sweep' \in Seq(Nodes') /\ changed' \in BOOLEAN
    BY <1>1, <1>3, <1>4
  <2> QED BY <1>5, <2>1, <2>2, <2>3 DEF Sweeping
<1>7. Visiting'
  BY <1>1 DEF Visiting
<1> QED BY <1>1, <1>2, <1>6, <1>7 DEF Walking

LEMMA VisitNodeWalks ==
  ASSUME Walking, VisitNode
  PROVE  Walking'
<1> DEFINE h == Head(sweep)
           m == Len(sweep)
<1>1. /\ sweep # << >> /\ visit = Idle /\ sweep' = Tail(sweep)
      /\ visit' = IF h = Root THEN Idle ELSE [Idle EXCEPT !.node = h, !.rest = In(h)]
      /\ succ' = succ /\ walk' = walk /\ stack' = stack /\ seen' = seen /\ post' = post
      /\ idom' = idom /\ changed' = changed
  BY DEF VisitNode
<1>2. stack = << >>
  BY <1>1 DEF Walking, Unswept
<1>3. Graph' /\ Searching' /\ Tree'
  BY <1>1, SameWalk DEF Walking
<1>4. /\ Nodes' = Nodes /\ Root' = Root /\ Got' = Got
      /\ \A n : Number(n)' = Number(n) /\ From(n)' = From(n)
      /\ \A a, x : Anc(a, x)' <=> Anc(a, x)
      /\ \A a, b : Doms(a, b)' <=> Doms(a, b)
  BY <1>1, SameGraph, SameOrder, SameTree
<1>5. /\ sweep \in Seq(Nodes) /\ m \in Nat \ {0} /\ m <= Len(post) /\ Len(post) \in Nat
      /\ h = post[m] /\ h \in Got /\ Number(h) = m /\ h # None
  <2>1. sweep \in Seq(Nodes) /\ m \in Nat \ {0} /\ m <= Len(post) /\ Len(post) \in Nat
    BY <1>1, <1>2, Searched DEF Walking, Sweeping
  <2>2. h = sweep[1] /\ 1 \in 1 .. Len(sweep) /\ Len(sweep) + 1 - 1 = m
    BY <1>1, <2>1
  <2>3. h = post[m] /\ m \in 1 .. Len(post)
    BY <2>1, <2>2 DEF Walking, Sweeping
  <2>4. h \in Got /\ Number(h) = m
    BY <1>2, <2>3, Searched DEF Walking
  <2>5. h # None
    BY <1>2, <2>4, SweepFacts
  <2> QED BY <2>1, <2>3, <2>4, <2>5
<1>6. /\ sweep' \in Seq(Nodes) /\ Len(sweep') = m - 1
      /\ \A i \in 1 .. m - 1 : sweep'[i] = post[(m - 1) + 1 - i]
  <2>1. sweep' \in Seq(Nodes) /\ Len(sweep') = m - 1 /\ \A i \in 1 .. m - 1 : sweep'[i] = sweep[i + 1]
    BY <1>1, <1>5
  <2>2. ASSUME NEW i \in 1 .. m - 1 PROVE sweep'[i] = post[(m - 1) + 1 - i]
    <3>1. i + 1 \in 1 .. Len(sweep) /\ Len(sweep) + 1 - (i + 1) = (m - 1) + 1 - i
      BY <1>5
    <3> QED BY <2>1, <3>1 DEF Walking, Sweeping
  <2> QED BY <2>1, <2>2
<1>7. ASSUME NEW n, Visited(n)' PROVE Visited(n) \/ n = Root
  <2>1. n \in Got /\ m - 1 < Number(n) /\ n # visit'.node
    BY <1>4, <1>6, <1>7 DEF Visited
  <2>2. Number(n) \in Nat /\ n # None
    BY <1>2, <2>1, SweepFacts
  <2>3. visit.node = None
    BY <1>1 DEF Idle
  <2>4. CASE m < Number(n)
    BY <2>1, <2>2, <2>3, <2>4 DEF Visited
  <2>5. CASE Number(n) = m
    <3>1. n = h
      BY <1>2, <1>5, <2>1, <2>5, SweepFacts
    <3>2. h # Root => visit'.node = h
      BY <1>1 DEF Idle
    <3> QED BY <2>1, <3>1, <3>2
  <2> QED BY <1>5, <2>1, <2>2, <2>4, <2>5
<1>8. Sweeping'
  <2>1. Len(sweep') <= Len(post') /\ \A i \in 1 .. Len(sweep') : sweep'[i] = post'[Len(sweep') + 1 - i]
    BY <1>1, <1>5, <1>6
  <2>2. ASSUME NEW n, Visited(n)' PROVE idom[n] # None
    <3>1. CASE n = Root
      BY <3>1, GraphFacts DEF Walking, Tree
    <3>2. CASE n # Root
      BY <1>1, <1>7, <2>2, <3>2 DEF Walking, Sweeping
    <3> QED BY <3>1, <3>2
  <2>3. ASSUME ~changed, NEW n, Visited(n)', n # Root, NEW p \in From(n), idom[p] # None
        PROVE  Anc(idom[n], p)
    BY <1>7, <2>3 DEF Walking, Sweeping
  <2>4. (~changed => \A n : Visited(n) /\ n # Root =>
            \A p \in From(n) : idom[p] # None => Anc(idom[n], p))'
    BY <1>1, <1>4, <2>3
  <2>5. changed' \in BOOLEAN
    BY <1>1 DEF Walking, Sweeping
  <2>6. \A n : Visited(n)' => idom'[n] # None
    BY <1>1, <2>2
  <2>7. sweep' \in Seq(Nodes')
    BY <1>4, <1>6
  <2> QED BY <2>1, <2>4, <2>5, <2>6, <2>7 DEF Sweeping
<1>9. Visiting'
  <2>1. CASE h = Root
    BY <1>1, <2>1 DEF Visiting
  <2>2. CASE h # Root
    <3>1. visit' = [node |-> h, rest |-> In(h), finger |-> None, parent |-> None]
      BY <1>1, <2>2 DEF Idle
    <3>2. In(h) \in Seq(Nodes) /\ ToSet(In(h)) = From(h) /\ h \in Nodes
      BY <1>5, GraphFacts, GotFacts DEF From, Walking
    <3>3. Number(h) = Len(sweep') + 1
      BY <1>5, <1>6
    <3>4. /\ visit' \in [node : Got \ {Root}, rest : Seq(Nodes),
                         finger : Nodes \cup {None}, parent : Nodes \cup {None}]
          /\ visit'.finger = None /\ visit'.parent = None /\ visit'.node = h
          /\ ToSet(visit'.rest) = From(h)
      BY <1>5, <2>2, <3>1, <3>2
    <3> QED BY <1>1, <1>2, <1>4, <3>3, <3>4 DEF Visiting
  <2> QED BY <2>1, <2>2
<1> QED BY <1>1, <1>2, <1>3, <1>8, <1>9 DEF Walking

(* At a node, the facts a step of its visit starts from. *)
LEMMA VisitFacts ==
  ASSUME Walking, visit.node # None
  PROVE  /\ visit # Idle /\ stack = << >>
         /\ visit.node \in Got /\ visit.node # Root /\ visit.node \in Nodes
         /\ visit = [node |-> visit.node, rest |-> visit.rest,
                     finger |-> visit.finger, parent |-> visit.parent]
         /\ visit.rest \in Seq(Nodes)
         /\ visit.finger \in Nodes \cup {None} /\ visit.parent \in Nodes \cup {None}
<1>1. visit # Idle
  BY DEF Idle
<1>2. /\ stack = << >>
      /\ visit \in [node : Got \ {Root}, rest : Seq(Nodes),
                    finger : Nodes \cup {None}, parent : Nodes \cup {None}]
  BY <1>1 DEF Walking, Visiting
<1>3. visit.node \in Got \ {Root}
  BY <1>2
<1>4. Got \subseteq Nodes
  BY GotFacts DEF Walking
<1> QED BY <1>1, <1>2, <1>3, <1>4

(* A step that changes no more than the rest and the fingers of a visit.   *)
LEMMA VisitSteps ==
  ASSUME Walking, visit.node # None,
         succ' = succ, walk' = walk, stack' = stack, seen' = seen, post' = post, idom' = idom,
         sweep' = sweep, changed' = changed, visit'.node = visit.node,
         visit'.rest \in Seq(Nodes), visit'.finger \in Nodes \cup {None},
         visit'.parent \in Nodes \cup {None},
         visit' = [node |-> visit'.node, rest |-> visit'.rest,
                   finger |-> visit'.finger, parent |-> visit'.parent],
         ToSet(visit'.rest) \subseteq ToSet(visit.rest),
         visit'.finger = None <=> visit'.parent = None,
         visit'.finger # None => idom[visit'.finger] # None /\ idom[visit'.parent] # None,
         \A a : Doms(a, visit.node) /\ a # visit.node /\ visit'.finger # None =>
                  Doms(a, visit'.finger) /\ Doms(a, visit'.parent),
         \A p \in From(visit.node) : idom[p] # None =>
           \/ p \in ToSet(visit'.rest)
           \/ visit'.parent # None /\ (Anc(visit'.finger, p) \/ Anc(visit'.parent, p))
  PROVE  Walking'
<1> DEFINE v == visit.node
<1>1. Graph' /\ Searching' /\ Tree'
  BY SameWalk DEF Walking
<1>2. /\ Nodes' = Nodes /\ Root' = Root /\ Got' = Got
      /\ \A n : Number(n)' = Number(n) /\ From(n)' = From(n)
      /\ \A a, x : Anc(a, x)' <=> Anc(a, x)
      /\ \A a, b : Doms(a, b)' <=> Doms(a, b)
  BY SameGraph, SameOrder, SameTree
<1>3. visit # Idle /\ stack = << >> /\ v \in Got \ {Root}
  BY VisitFacts
<1>4. Sweeping'
  <2>1. \A n : Visited(n)' <=> Visited(n)
    BY <1>2 DEF Visited
  <2>2. (sweep # << >> \/ visit # Idle \/ ~changed => \A n : Visited(n) => idom[n] # None)'
    BY <1>3, <2>1 DEF Walking, Sweeping
  <2>3. (~changed => \A n : Visited(n) /\ n # Root =>
           \A p \in From(n) : idom[p] # None => Anc(idom[n], p))'
    BY <1>2, <2>1 DEF Walking, Sweeping
  <2> QED BY <1>2, <2>2, <2>3 DEF Walking, Sweeping
<1>5. Visiting'
  <2>1. visit' \in [node : Got \ {Root}, rest : Seq(Nodes),
                    finger : Nodes \cup {None}, parent : Nodes \cup {None}]
    BY <1>3
  <2>2. Number(v) = Len(sweep) + 1
    BY <1>3 DEF Walking, Visiting
  <2>3. ToSet(visit'.rest) \subseteq From(v)
    BY <1>3 DEF Walking, Visiting
  <2> QED BY <1>2, <1>3, <2>1, <2>2, <2>3 DEF Visiting
<1> QED BY <1>1, <1>3, <1>4, <1>5 DEF Walking

LEMMA LookAtPredWalks ==
  ASSUME Walking, LookAtPred
  PROVE  Walking'
<1> DEFINE v == visit.node
           p == Head(visit.rest)
<1>1. /\ v # None /\ visit.finger = visit.parent /\ visit.rest # << >>
      /\ visit' = IF Processed(p) THEN Joined(p) ELSE [visit EXCEPT !.rest = Tail(@)]
      /\ succ' = succ /\ walk' = walk /\ stack' = stack /\ seen' = seen /\ post' = post
      /\ idom' = idom /\ sweep' = sweep /\ changed' = changed
  BY DEF LookAtPred, Looking
<1>2. /\ visit # Idle /\ stack = << >> /\ v \in Got /\ v # Root /\ v \in Nodes
      /\ visit = [node |-> v, rest |-> visit.rest, finger |-> visit.finger, parent |-> visit.parent]
      /\ visit.rest \in Seq(Nodes)
      /\ visit.finger \in Nodes \cup {None} /\ visit.parent \in Nodes \cup {None}
  BY <1>1, VisitFacts
<1>3. /\ p \in From(v) /\ p \in Nodes /\ Tail(visit.rest) \in Seq(Nodes)
      /\ ToSet(visit.rest) = {p} \cup ToSet(Tail(visit.rest))
  <2>1. p \in Nodes /\ Tail(visit.rest) \in Seq(Nodes)
    BY <1>1, <1>2
  <2>2. ToSet(visit.rest) = {p} \cup ToSet(Tail(visit.rest))
    <3> DEFINE s == visit.rest
    <3>1. s \in Seq(Nodes) /\ s # << >>
      BY <1>1, <1>2
    <3> HIDE DEF s
    <3>2. /\ Len(s) \in Nat \ {0} /\ DOMAIN s = 1 .. Len(s) /\ DOMAIN Tail(s) = 1 .. Len(s) - 1
          /\ \A i \in 1 .. Len(s) - 1 : Tail(s)[i] = s[i + 1]
          /\ Head(s) = s[1]
      BY <3>1
    <3>3. \A i \in 1 .. Len(s) : i = 1 \/ (i - 1 \in 1 .. Len(s) - 1 /\ s[i] = Tail(s)[i - 1])
      BY <3>2
    <3>4. 1 \in 1 .. Len(s) /\ \A i \in 1 .. Len(s) - 1 : i + 1 \in 1 .. Len(s)
      BY <3>2
    <3> DEFINE t == Tail(s)
    <3>5. DOMAIN t = 1 .. Len(s) - 1 /\ \A i \in 1 .. Len(s) - 1 : t[i] \in ToSet(s)
      BY <3>2, <3>4 DEF ToSet
    <3>6. ASSUME NEW x \in ToSet(s) PROVE x = Head(s) \/ x \in ToSet(t)
      <4>1. PICK i \in 1 .. Len(s) : x = s[i]
        BY <3>2 DEF ToSet
      <4>2. CASE i = 1
        BY <3>2, <4>1, <4>2
      <4>3. CASE i # 1
        <5>1. i - 1 \in DOMAIN t /\ x = t[i - 1]
          BY <3>3, <3>5, <4>1, <4>3
        <5> HIDE DEF t
        <5> QED BY <5>1 DEF ToSet
      <4> QED BY <4>2, <4>3
    <3>7. Head(s) \in ToSet(s) /\ ToSet(t) \subseteq ToSet(s)
      BY <3>2, <3>4, <3>5 DEF ToSet
    <3>8. ToSet(s) = {Head(s)} \cup ToSet(Tail(s))
      BY <3>6, <3>7
    <3> QED BY <3>8 DEF s
  <2>3. ToSet(visit.rest) \subseteq From(v)
    BY <1>2 DEF Walking, Visiting
  <2> QED BY <2>1, <2>2, <2>3
<1>4. \A q \in From(v) : idom[q] # None =>
        q \in ToSet(visit.rest) \/ (visit.parent # None /\ Anc(visit.parent, q))
  BY <1>1, <1>2 DEF Walking, Visiting
<1>5. Root \in Nodes /\ None \notin Nodes
  BY <1>2, SweepFacts
<1>6. CASE Processed(p)
  <2>1. idom[p] # None
    BY <1>6 DEF Processed
  <2>2. p \in Got /\ v \in To(p)
    <3>1. p \in Got
      BY <1>2, <1>3, <2>1, SweepFacts
    <3>2. v \in To(p)
      BY <1>2, <1>3, GraphFacts DEF Walking
    <3> QED BY <3>1, <3>2
  <2> DEFINE q == IF visit.parent = None THEN p ELSE visit.parent
  <2>3. visit' = [node |-> v, rest |-> Tail(visit.rest), finger |-> p, parent |-> q]
    BY <1>1, <1>2, <1>6 DEF Joined
  <2>4. q \in Nodes /\ idom[q] # None
    BY <1>1, <1>2, <1>3, <2>1 DEF Walking, Visiting
  <2>5. \A a : Doms(a, v) /\ a # v => Doms(a, p)
    BY <2>2, DomsFacts DEF Walking
  <2>6. \A a : Doms(a, v) /\ a # v => Doms(a, q)
    BY <1>1, <1>2, <2>5 DEF Walking, Visiting
  <2>7. \A r \in From(v) : idom[r] # None =>
          r \in ToSet(Tail(visit.rest)) \/ (Anc(p, r) \/ Anc(q, r))
    BY <1>3, <1>4, AncFacts
  <2>8. p # None /\ q # None
    BY <1>3, <1>5, <2>4
  <2> HIDE DEF q, p
  <2>9. /\ visit'.node = v /\ visit'.rest = Tail(visit.rest) /\ visit'.finger = p /\ visit'.parent = q
        /\ visit' = [node |-> visit'.node, rest |-> visit'.rest,
                     finger |-> visit'.finger, parent |-> visit'.parent]
    BY <2>3
  <2> QED BY <1>1, <1>2, <1>3, <2>1, <2>4, <2>5, <2>6, <2>7, <2>8, <2>9, VisitSteps
<1>7. CASE ~Processed(p)
  <2>1. visit' = [node |-> v, rest |-> Tail(visit.rest), finger |-> visit.finger, parent |-> visit.parent]
    BY <1>1, <1>2, <1>7
  <2>2. /\ visit'.node = v /\ visit'.rest = Tail(visit.rest) /\ visit'.finger = visit.finger
        /\ visit'.parent = visit.parent
        /\ visit' = [node |-> visit'.node, rest |-> visit'.rest,
                     finger |-> visit'.finger, parent |-> visit'.parent]
    BY <2>1
  <2>3. idom[p] = None
    <3> SUFFICES ASSUME idom[p] # None PROVE FALSE
      OBVIOUS
    <3>1. p \in Got
      BY <1>2, <1>3, SweepFacts
    <3>2. Number(p) \in 1 .. Len(post) /\ Number(p) # 0
      BY <1>2, <3>1, SweepFacts
    <3> QED BY <1>7, <3>2 DEF Processed, None
  <2>4. /\ visit.finger = None <=> visit.parent = None
        /\ visit.finger # None => idom[visit.finger] # None /\ idom[visit.parent] # None
        /\ \A a : Doms(a, v) /\ a # v /\ visit.finger # None => Doms(a, visit.finger) /\ Doms(a, visit.parent)
    BY <1>2 DEF Walking, Visiting
  <2>5. \A r \in From(v) : idom[r] # None =>
          r \in ToSet(Tail(visit.rest)) \/ (visit.parent # None /\ Anc(visit.parent, r))
    BY <1>3, <1>4, <2>3
  <2> HIDE DEF p
  <2> QED BY <1>1, <1>2, <1>3, <2>2, <2>4, <2>5, VisitSteps
<1> QED BY <1>6, <1>7

(* A finger that is below the other one has a parent, and still is under   *)
(* all strict dominators of the node.                                      *)
LEMMA FingerMoves ==
  ASSUME Walking, stack = << >>, NEW v,
         NEW f \in Nodes, NEW g \in Nodes, idom[f] # None, idom[g] # None, Number(f) < Number(g),
         \A a : Doms(a, v) /\ a # v => Doms(a, f) /\ Doms(a, g)
  PROVE  /\ idom[f] \in Nodes /\ idom[idom[f]] # None
         /\ \A a : Doms(a, v) /\ a # v => Doms(a, idom[f])
<1>1. f \in Got /\ g \in Got /\ idom[f] \in Got /\ Got \subseteq Nodes
  BY SweepFacts
<1>2. Number(f) \in 1 .. Len(post) /\ Number(g) \in 1 .. Len(post) /\ Number(Root) = Len(post)
      /\ Len(post) \in Nat
  BY <1>1, SweepFacts
<1>3. f # Root
  BY <1>2
<1>4. idom[idom[f]] # None /\ \A a : Doms(a, f) /\ a # f => Doms(a, idom[f])
  BY <1>3 DEF Walking, Tree
<1>5. ~Doms(f, g)
  <2> SUFFICES ASSUME Doms(f, g) PROVE FALSE
    OBVIOUS
  <2>1. Number(g) <= Number(f)
    BY DomsNumber DEF Walking
  <2> QED BY <1>2, <2>1
<1>6. ASSUME NEW a, Doms(a, v), a # v PROVE Doms(a, idom[f])
  <2>1. Doms(a, f) /\ Doms(a, g)
    BY <1>6
  <2>2. a # f
    BY <1>5, <2>1
  <2> QED BY <1>4, <2>1, <2>2
<1> QED BY <1>1, <1>4, <1>6

LEMMA ClimbWalks ==
  ASSUME Walking, Climb
  PROVE  Walking'
<1> DEFINE v == visit.node
           f == visit.finger
           g == visit.parent
<1>1. /\ v # None /\ f # g
      /\ visit' = Climbed
      /\ succ' = succ /\ walk' = walk /\ stack' = stack /\ seen' = seen /\ post' = post
      /\ idom' = idom /\ sweep' = sweep /\ changed' = changed
  BY DEF Climb, Fingers
<1>2. /\ visit # Idle /\ stack = << >>
      /\ visit = [node |-> v, rest |-> visit.rest, finger |-> f, parent |-> g]
      /\ visit.rest \in Seq(Nodes) /\ f \in Nodes \cup {None} /\ g \in Nodes \cup {None}
  BY <1>1, VisitFacts
<1>3. f \in Nodes /\ g \in Nodes /\ f # None /\ g # None /\ idom[f] # None /\ idom[g] # None
      /\ None \notin Nodes
  <2>1. /\ f = None <=> g = None
        /\ f # None => idom[f] # None /\ idom[g] # None
    BY <1>2 DEF Walking, Visiting
  <2>2. None \notin Nodes
    BY <1>2, SweepFacts
  <2> QED BY <1>1, <1>2, <2>1, <2>2
<1>4. /\ \A a : Doms(a, v) /\ a # v => Doms(a, f) /\ Doms(a, g)
      /\ \A p \in From(v) : idom[p] # None => p \in ToSet(visit.rest) \/ (Anc(f, p) \/ Anc(g, p))
  <2>1. \A a : Doms(a, v) /\ a # v => Doms(a, f) /\ Doms(a, g)
    BY <1>2, <1>3 DEF Walking, Visiting
  <2>2. \A p \in From(v) : idom[p] # None => p \in ToSet(visit.rest) \/ (Anc(f, p) \/ Anc(g, p))
    BY <1>2, <1>3 DEF Walking, Visiting
  <2> QED BY <2>1, <2>2
<1>5. CASE Number(f) < Number(g)
  <2>1. /\ idom[f] \in Nodes /\ idom[idom[f]] # None
        /\ \A a : Doms(a, v) /\ a # v => Doms(a, idom[f])
    BY <1>2, <1>3, <1>4, <1>5, FingerMoves
  <2>2. visit' = [node |-> v, rest |-> visit.rest, finger |-> idom[f], parent |-> g]
    BY <1>1, <1>2, <1>5 DEF Climbed
  <2>3. /\ visit'.node = v /\ visit'.rest = visit.rest /\ visit'.finger = idom[f] /\ visit'.parent = g
        /\ visit' = [node |-> visit'.node, rest |-> visit'.rest,
                     finger |-> visit'.finger, parent |-> visit'.parent]
    BY <2>2
  <2>4. \A p \in From(v) : idom[p] # None => p \in ToSet(visit.rest) \/ (Anc(idom[f], p) \/ Anc(g, p))
    BY <1>4, AncFacts
  <2> QED BY <1>1, <1>2, <1>3, <1>4, <2>1, <2>3, <2>4, VisitSteps
<1>6. CASE ~(Number(f) < Number(g))
  <2>1. Number(g) < Number(f)
    <3>1. f \in Got /\ g \in Got
      BY <1>2, <1>3, SweepFacts
    <3>2. Number(f) \in 1 .. Len(post) /\ Number(g) \in 1 .. Len(post) /\ Number(f) # Number(g)
      BY <1>1, <1>2, <3>1, SweepFacts
    <3> QED BY <1>6, <3>2
  <2>2. /\ idom[g] \in Nodes /\ idom[idom[g]] # None
        /\ \A a : Doms(a, v) /\ a # v => Doms(a, idom[g])
    BY <1>2, <1>3, <1>4, <2>1, FingerMoves
  <2>3. visit' = [node |-> v, rest |-> visit.rest, finger |-> f, parent |-> idom[g]]
    BY <1>1, <1>2, <1>6 DEF Climbed
  <2>4. /\ visit'.node = v /\ visit'.rest = visit.rest /\ visit'.finger = f /\ visit'.parent = idom[g]
        /\ visit' = [node |-> visit'.node, rest |-> visit'.rest,
                     finger |-> visit'.finger, parent |-> visit'.parent]
    BY <2>3
  <2>5. \A p \in From(v) : idom[p] # None => p \in ToSet(visit.rest) \/ (Anc(f, p) \/ Anc(idom[g], p))
    BY <1>4, AncFacts
  <2> QED BY <1>1, <1>2, <1>3, <1>4, <2>2, <2>4, <2>5, VisitSteps
<1> QED BY <1>5, <1>6

(* All predecessors looked at, the parent is above each that has a parent, *)
(* and there is one: the node the search came from.                        *)
LEMMA ParentFound ==
  ASSUME Walking, Looking, visit.rest = << >>
  PROVE  /\ visit.parent \in Nodes /\ idom[visit.parent] # None
         /\ Number(visit.node) < Number(visit.parent)
         /\ \A p \in From(visit.node) : idom[p] # None => Anc(visit.parent, p)
         /\ \A a : Doms(a, visit.node) /\ a # visit.node => Doms(a, visit.parent)
<1> DEFINE v == visit.node
           q == visit.parent
<1>1. v # None /\ visit.finger = q
  BY DEF Looking
<1>2. visit # Idle /\ stack = << >> /\ v \in Got /\ v # Root /\ v \in Nodes /\ q \in Nodes \cup {None}
  BY <1>1, VisitFacts
<1>3. ToSet(visit.rest) = {}
  BY DEF ToSet
<1>4. \A p \in From(v) : idom[p] # None => q # None /\ Anc(q, p)
  BY <1>1, <1>2, <1>3 DEF Walking, Visiting
<1>5. PICK t \in Got : v \in To(t) /\ Number(v) < Number(t)
  BY <1>2, Searched DEF Walking
<1>6. t \in Nodes /\ t \in From(v)
  <2>1. t \in Nodes
    BY <1>2, SweepFacts
  <2> QED BY <1>2, <1>5, <2>1, GraphFacts DEF Walking
<1>7. Number(v) \in Nat /\ Number(t) \in Nat /\ Number(v) = Len(sweep) + 1 /\ Len(sweep) \in Nat
  <2>1. Number(v) \in Nat /\ Number(t) \in Nat /\ Len(sweep) \in Nat
    BY <1>2, <1>5, SweepFacts
  <2>2. Number(v) = Len(sweep) + 1
    BY <1>2 DEF Walking, Visiting
  <2> QED BY <2>1, <2>2
<1>8. Visited(t)
  BY <1>5, <1>7 DEF Visited
<1>9. idom[t] # None
  BY <1>2, <1>8 DEF Walking, Sweeping
<1>10. q # None /\ Anc(q, t)
  BY <1>4, <1>6, <1>9
<1>11. q \in Nodes /\ idom[q] # None /\ Number(t) <= Number(q)
  BY <1>2, <1>6, <1>9, <1>10, AncNumber DEF Walking
<1>12. Number(v) < Number(q)
  <2>1. Number(q) \in Nat
    BY <1>2, <1>11, SweepFacts
  <2> QED BY <1>5, <1>7, <1>11, <2>1
<1>13. \A a : Doms(a, v) /\ a # v => Doms(a, q)
  BY <1>1, <1>2, <1>10 DEF Walking, Visiting
<1> QED BY <1>4, <1>11, <1>12, <1>13

LEMMA SetParentWalks ==
  ASSUME Walking, SetParent
  PROVE  Walking'
<1> DEFINE v == visit.node
           q == visit.parent
<1>1. /\ v # None /\ Looking /\ visit.rest = << >> /\ visit' = Idle
      /\ IF ParentChanges(v, q) THEN idom' = [idom EXCEPT ![v] = q] /\ changed' = TRUE
                                ELSE idom' = idom /\ changed' = changed
      /\ succ' = succ /\ walk' = walk /\ stack' = stack /\ seen' = seen /\ post' = post /\ sweep' = sweep
  BY DEF SetParent, Looking
<1>2. /\ visit # Idle /\ stack = << >> /\ v \in Got /\ v # Root /\ v \in Nodes
  BY <1>1, VisitFacts
<1>3. /\ q \in Nodes /\ idom[q] # None /\ Number(v) < Number(q)
      /\ \A p \in From(v) : idom[p] # None => Anc(q, p)
      /\ \A a : Doms(a, v) /\ a # v => Doms(a, q)
  BY <1>1, ParentFound
<1>4. Graph' /\ Searching'
  BY <1>1, SameSearch DEF Walking
<1>5. /\ Nodes' = Nodes /\ Root' = Root /\ Got' = Got
      /\ \A n : Number(n)' = Number(n) /\ From(n)' = From(n)
      /\ \A a, b : Doms(a, b)' <=> Doms(a, b)
  BY <1>1, SameGraph, SameOrder
<1>6. Root \in Nodes /\ None \notin Nodes /\ Got \subseteq Nodes /\ q # v
  <2>1. Root \in Nodes /\ None \notin Nodes /\ Got \subseteq Nodes
    BY <1>2, SweepFacts
  <2>2. q \in Got
    BY <1>2, <1>3, SweepFacts
  <2>3. Number(v) \in Nat /\ Number(q) \in Nat
    BY <1>2, <2>2, SweepFacts
  <2> QED BY <1>3, <2>1, <2>3
<1>7. idom \in [Nodes -> Nodes \cup {None}]
  BY DEF Walking, Tree
<1>8. idom'[v] = q /\ (\A n \in Nodes : n # v => idom'[n] = idom[n])
      /\ idom' \in [Nodes -> Nodes \cup {None}]
  <2>1. CASE ParentChanges(v, q)
    BY <1>1, <1>2, <1>3, <1>7, <2>1
  <2>2. CASE ~ParentChanges(v, q)
    BY <1>1, <1>2, <1>3, <1>6, <1>7, <2>2 DEF ParentChanges
  <2> QED BY <2>1, <2>2
<1> HIDE DEF v, q
<1>9. Tree'
  <2>1. idom'[Root] = Root
    BY <1>2, <1>6, <1>8 DEF Walking, Tree
  <2>2. ASSUME NEW n \in Nodes, idom'[n] # None PROVE idom'[idom'[n]] # None
    <3>1. CASE n = v
      BY <1>3, <1>6, <1>8, <3>1
    <3>2. CASE n # v
      <4>1. idom'[n] = idom[n] /\ idom[n] # None
        BY <1>8, <2>2, <3>2
      <4>2. idom[idom[n]] # None /\ idom[n] \in Nodes
        BY <1>7, <4>1 DEF Walking, Tree
      <4>3. CASE idom[n] = v
        BY <1>3, <1>6, <1>8, <4>1, <4>3
      <4>4. CASE idom[n] # v
        BY <1>8, <4>1, <4>2, <4>4
      <4> QED BY <4>3, <4>4
    <3> QED BY <3>1, <3>2
  <2>3. ASSUME NEW n \in Nodes \ {Root}, idom'[n] # None
        PROVE  /\ n \in Got /\ Number(n) < Number(idom'[n])
               /\ \A a : Doms(a, n) /\ a # n => Doms(a, idom'[n])
    <3>1. CASE n = v
      BY <1>2, <1>3, <1>8, <3>1
    <3>2. CASE n # v
      BY <1>8, <2>3, <3>2 DEF Walking, Tree
    <3> QED BY <3>1, <3>2
  <2>4. \A n : Number(idom'[n]) = Number(idom[n])'
    BY <1>5
  <2> QED BY <1>1, <1>2, <1>5, <1>8, <2>1, <2>2, <2>3, <2>4 DEF Tree
<1>10. \A n : Visited(n)' /\ n # v => Visited(n)
  BY <1>1, <1>5 DEF Visited, v
<1>11. ASSUME NEW n, Visited(n)' PROVE idom'[n] # None /\ n \in Nodes
  <2>1. n \in Nodes
    BY <1>5, <1>6, <1>11 DEF Visited
  <2>2. CASE n = v
    BY <1>2, <1>3, <1>6, <1>8, <2>2
  <2>3. CASE n # v
    BY <1>2, <1>8, <1>10, <1>11, <2>1, <2>3 DEF Walking, Sweeping
  <2> QED BY <2>1, <2>2, <2>3
<1>12. ASSUME ~changed', NEW n, Visited(n)', n # Root, NEW p \in From(n), idom'[p] # None
       PROVE  Anc(idom[n], p)'
  <2>1. idom' = idom /\ changed' = changed
    BY <1>1, <1>12
  <2>2. \A a, x : Anc(a, x)' <=> Anc(a, x)
    BY <1>1, <2>1, SameTree
  <2>3. Anc(idom[n], p)
    <3>1. CASE n = v
      BY <1>3, <1>8, <1>12, <2>1, <3>1
    <3>2. CASE n # v
      BY <1>10, <1>12, <2>1, <3>2 DEF Walking, Sweeping
    <3> QED BY <3>1, <3>2
  <2> QED BY <2>1, <2>2, <2>3
<1>13. Sweeping'
  <2>1. /\ (sweep # << >> \/ visit # Idle \/ ~changed => \A n : Visited(n) => idom[n] # None)'
        /\ (~changed => \A n : Visited(n) /\ n # Root =>
             \A p \in From(n) : idom[p] # None => Anc(idom[n], p))'
    BY <1>5, <1>11, <1>12
  <2>2. changed' \in BOOLEAN
    BY <1>1 DEF Walking, Sweeping
  <2> QED BY <1>1, <1>5, <2>1, <2>2 DEF Walking, Sweeping
<1>14. Visiting'
  BY <1>1 DEF Visiting
<1> QED BY <1>1, <1>2, <1>4, <1>9, <1>13, <1>14 DEF Walking

-----------------------------------------------------------------------------
(* A walk that settled: the tree holds the immediate dominators of its     *)
(* graph.                                                                  *)
LEMMA SettledIsExact ==
  ASSUME Walking, Settled
  PROVE  \A b \in Nodes \ {Root} :
           IF b \notin Got THEN idom[b] = None
           ELSE /\ Doms(idom[b], b) /\ idom[b] # b
                /\ \A a : Doms(a, b) /\ a # b => Doms(a, idom[b])
<1>1. stack = << >> /\ sweep = << >> /\ visit = Idle /\ ~changed
  BY DEF Settled, SweepOver
<1>2. /\ Root \in Nodes /\ Root \in Got /\ None \notin Nodes /\ Got \subseteq Nodes
      /\ Len(post) \in Nat
      /\ \A n \in Got : Number(n) \in 1 .. Len(post)
      /\ \A n \in Nodes : idom[n] # None => n \in Got /\ idom[n] \in Got
  BY <1>1, SweepFacts
<1>3. ASSUME NEW n \in Got PROVE Visited(n)
  <2>1. visit.node = None /\ Len(sweep) = 0
    BY <1>1 DEF Idle
  <2>2. 0 < Number(n) /\ n # None
    BY <1>2
  <2> QED BY <2>1, <2>2 DEF Visited
<1>4. \A n \in Got : idom[n] # None
  BY <1>1, <1>3 DEF Walking, Sweeping
<1>5. \A n \in Got \ {Root} : \A p \in From(n) : idom[p] # None => Anc(idom[n], p)
  BY <1>1, <1>3 DEF Walking, Sweeping
<1>6. \A n \in Got \ {Root} : Number(n) < Number(idom[n]) /\ \A a : Doms(a, n) /\ a # n => Doms(a, idom[n])
  BY <1>2, <1>4 DEF Walking, Tree
<1>7. \A d : Anc(d, Root) => d = Root
  <2>1. {Root} \in SUBSET Nodes /\ \A n \in {Root} : idom[n] \in {Root}
    BY <1>2 DEF Walking, Tree
  <2> QED BY <2>1 DEF Anc
<1>8. ASSUME NEW b \in Got \ {Root} PROVE Doms(idom[b], b)
  <2> DEFINE d == idom[b]
             S == {x \in Got : ~Anc(d, x)}
  <2>1. Anc(d, b)
    BY AncFacts
  <2>2. {Root} \ {d} \subseteq S
    BY <1>2, <1>7
  <2>3. ASSUME NEW x \in S, NEW y \in To(x), y # d PROVE y \in S
    <3>1. x \in Got /\ y \in Got /\ x \in Nodes /\ y \in Nodes
      BY <1>2, GotFacts DEF Walking
    <3>2. SUFFICES ASSUME Anc(d, y) PROVE FALSE
      BY <3>1
    <3>3. y # Root
      BY <1>7, <2>3, <3>2
    <3>4. Anc(d, idom[y])
      BY <2>3, <3>1, <3>2, AncFacts
    <3>5. x \in From(y)
      BY <3>1, GraphFacts DEF Walking
    <3>6. Anc(idom[y], x)
      BY <1>4, <1>5, <3>1, <3>3, <3>5
    <3>7. Anc(d, x)
      <4> HIDE DEF d
      <4> QED BY <3>4, <3>6, AncFacts
    <3> QED BY <3>7
  <2>4. Avoiding({d}) \subseteq S
    <3>1. \A x \in S \cap Nodes : (To(x) \cap Nodes) \ {d} \subseteq S
      BY <2>3
    <3> HIDE DEF S, d
    <3> QED BY <2>2, <3>1, AvoidingLeast DEF Walking
  <2>5. b \notin Avoiding({d})
    BY <2>1, <2>4
  <2> QED BY <2>5 DEF Doms
<1>9. \A b \in Nodes : b \notin Got => idom[b] = None
  BY <1>2
<1>10. \A b \in Got \ {Root} : idom[b] # b
  <2> SUFFICES ASSUME NEW b \in Got \ {Root}, idom[b] = b PROVE FALSE
    OBVIOUS
  <2>1. Number(b) \in Nat /\ Number(b) < Number(b)
    BY <1>2, <1>6
  <2> QED BY <2>1
<1> QED BY <1>6, <1>8, <1>9, <1>10

-----------------------------------------------------------------------------
(* Dominance is transitive. *)
LEMMA DomsOrder ==
  ASSUME Graph, NEW a, NEW x, NEW b, Doms(a, x), Doms(x, b)
  PROVE  Doms(a, b)
<1> DEFINE A == Avoiding({a})
           X == Avoiding({x})
<1>1. x \notin A /\ b \in Got /\ b \notin X
  BY DEF Doms
<1>2. CASE x = a
  BY <1>2
<1>3. CASE x # a
  <2>1. A \subseteq Nodes /\ (Root # a => Root \in A) /\ \A y \in A : \A z \in To(y) : z # a => z \in A
    BY AvoidingFacts
  <2>2. (Root # x => Root \in X) /\ \A y \in X : \A z \in To(y) : z # x => z \in X
    BY AvoidingFacts
  <2> DEFINE S == A \cap X
  <2>3. {Root} \ {a} \subseteq S
    BY <1>1, <2>1, <2>2
  <2>4. \A y \in S \cap Nodes : (To(y) \cap Nodes) \ {a} \subseteq S
    BY <1>1, <2>1, <2>2
  <2>5. A \subseteq S
    <3> HIDE DEF S
    <3> QED BY <2>3, <2>4, AvoidingLeast
  <2>6. b \notin A
    BY <1>1, <2>5
  <2> QED BY <1>1, <2>6 DEF Doms
<1> QED BY <1>2, <1>3

(* The way up a settled tree passes the dominators of a node, and no other *)
(* nodes.                                                                  *)
LEMMA AncIsDoms ==
  ASSUME Walking, Settled, NEW a \in Nodes, NEW b \in Got
  PROVE  Anc(a, b) <=> Doms(a, b)
<1>1. stack = << >> /\ Graph
  BY DEF Settled, SweepOver, Walking
<1>2. /\ Root \in Got /\ Got \subseteq Nodes /\ Len(post) \in Nat
      /\ \A n \in Got : Number(n) \in 1 .. Len(post)
      /\ idom[Root] = Root /\ None \notin Nodes
  BY <1>1, SweepFacts DEF Walking, Tree
<1>3. \A x \in Got \ {Root} : Doms(idom[x], x) /\ \A d : Doms(d, x) /\ d # x => Doms(d, idom[x])
  BY <1>2, SettledIsExact
<1>4. \A x \in Got \ {Root} : idom[x] \in Got /\ Number(x) < Number(idom[x])
  <2>1. \A x \in Got \ {Root} : idom[x] \in Got
    BY <1>1, <1>3, DomsFacts
  <2> QED BY <1>2, <2>1 DEF Walking, Tree
<1>5. ASSUME Anc(a, b) PROVE Doms(a, b)
  <2> DEFINE S == {x \in Got : Doms(x, b)}
  <2>1. b \in S
    BY <1>1, DomsFacts
  <2>2. ASSUME NEW x \in S PROVE idom[x] \in S
    <3>1. CASE x = Root
      BY <1>2, <3>1
    <3>2. CASE x # Root
      BY <1>1, <1>3, <1>4, <3>2, DomsOrder
    <3> QED BY <3>1, <3>2
  <2>3. S \in SUBSET Nodes
    BY <1>2
  <2>4. a \in S
    <3> HIDE DEF S
    <3> QED BY <1>5, <2>1, <2>2, <2>3 DEF Anc
  <2> QED BY <2>4
<1>6. ASSUME Doms(a, b) PROVE Anc(a, b)
  <2> SUFFICES ASSUME NEW S \in SUBSET Nodes, b \in S, \A n \in S : idom[n] \in S, a \notin S
               PROVE  FALSE
    BY DEF Anc
  <2> DEFINE T == {x \in S : Doms(a, x)}
             I == {k \in Nat : \A x \in T : Number(x) + k <= Len(post)}
  <2>1. \A x \in T : x \in Got
    BY <1>1, DomsFacts
  <2>2. \A x \in T : x # Root
    BY <1>1, DomsFacts
  <2>3. \A x \in T : idom[x] \in T
    BY <1>3, <2>1, <2>2
  <2>4. 0 \in I
    BY <1>2, <2>1
  <2>5. ASSUME NEW k \in Nat, k \in I PROVE k + 1 \in I
    <3>1. ASSUME NEW x \in T PROVE Number(x) + (k + 1) <= Len(post)
      <4>1. Number(x) \in Nat /\ Number(idom[x]) \in Nat
        BY <1>2, <1>4, <2>1, <2>2
      <4>2. Number(x) < Number(idom[x])
        BY <1>4, <2>1, <2>2
      <4>3. Number(idom[x]) + k <= Len(post)
        BY <2>3, <2>5
      <4> QED BY <1>2, <4>1, <4>2, <4>3
    <3>2. k + 1 \in Nat
      OBVIOUS
    <3> HIDE DEF T
    <3> QED BY <3>1, <3>2
  <2>6. Len(post) \in I
    <3> HIDE DEF I
    <3> QED BY <1>2, <2>4, <2>5, Induction
  <2>7. b \in T
    BY <1>6
  <2>8. Number(b) + Len(post) <= Len(post) /\ Number(b) \in 1 .. Len(post)
    BY <1>2, <2>6, <2>7
  <2> QED BY <1>2, <2>8
<1> QED BY <1>5, <1>6

-----------------------------------------------------------------------------
(* Paths of the graph itself. *)
Branches == succ \in [Blocks -> Seq(Blocks)]

LEMMA ReachFacts ==
  ASSUME Branches, NEW F \in SUBSET Blocks, NEW A
  PROVE  /\ Reach(F, A) \subseteq Blocks
         /\ F \ A \subseteq Reach(F, A)
         /\ \A x \in Reach(F, A) : \A y \in ToSet(succ[x]) : y \notin A => y \in Reach(F, A)
         /\ \A x \in Reach(F, A) : x \notin A
<1>1. \A x \in Blocks : ToSet(succ[x]) \subseteq Blocks
  BY ToSetOf DEF Branches
<1>2. Reach(F, A) \subseteq Blocks
  BY DEF Reach
<1>3. F \ A \subseteq Reach(F, A)
  BY DEF Reach
<1>4. ASSUME NEW x \in Reach(F, A), NEW y \in ToSet(succ[x]), y \notin A PROVE y \in Reach(F, A)
  <2>1. x \in Blocks /\ y \in Blocks
    BY <1>1, <1>2
  <2>2. ASSUME NEW S \in SUBSET Blocks, F \ A \subseteq S, Closed(S, A) PROVE y \in S
    <3>1. x \in S
      BY <2>2 DEF Reach
    <3> QED BY <1>4, <2>2, <3>1 DEF Closed
  <2> QED BY <2>1, <2>2 DEF Reach
<1>5. ASSUME NEW x \in Reach(F, A) PROVE x \notin A
  <2>1. Blocks \ A \in SUBSET Blocks /\ F \ A \subseteq Blocks \ A /\ Closed(Blocks \ A, A)
    BY <1>1 DEF Closed
  <2> QED BY <2>1 DEF Reach
<1> QED BY <1>2, <1>3, <1>4, <1>5

LEMMA ReachLeast ==
  ASSUME NEW F, NEW A, NEW S \in SUBSET Blocks, F \ A \subseteq S,
         \A x \in S : \A y \in ToSet(succ[x]) : y \notin A => y \in S
  PROVE  Reach(F, A) \subseteq S
<1>1. Closed(S, A)
  BY DEF Closed
<1> QED BY <1>1 DEF Reach

(* A path to a block goes on as one from it. *)
LEMMA ReachOn ==
  ASSUME Branches, NEW F \in SUBSET Blocks, NEW A, NEW x \in Reach(F, A)
  PROVE  Reach({x}, A) \subseteq Reach(F, A)
<1>1. Reach(F, A) \in SUBSET Blocks /\ {x} \ A \subseteq Reach(F, A)
      /\ \A z \in Reach(F, A) : \A y \in ToSet(succ[z]) : y \notin A => y \in Reach(F, A)
  BY ReachFacts
<1> QED BY <1>1, ReachLeast

LEMMA SamePaths ==
  ASSUME succ' = succ
  PROVE  \A t : /\ (IsIdom(t)' <=> IsIdom(t)) /\ (IsIpdom(t)' <=> IsIpdom(t))
                /\ (UpIsDom(t)' <=> UpIsDom(t)) /\ (UpIsPostDom(t)' <=> UpIsPostDom(t))
<1>1. \A S, A : Closed(S, A)' <=> Closed(S, A)
  BY DEF Closed
<1>2. \A F, A : Reach(F, A)' = Reach(F, A)
  BY <1>1 DEF Reach
<1>3. Exits' = Exits
  BY DEF Exits
<1>4. Reached' = Reached /\ Ending' = Ending
  BY <1>2, <1>3 DEF Reached, Ending
<1>5. \A a, b : (Dom(a, b)' <=> Dom(a, b)) /\ (PostDom(a, b)' <=> PostDom(a, b))
  BY <1>2, <1>3, <1>4 DEF Dom, PostDom
<1> QED BY <1>4, <1>5 DEF IsIdom, IsIpdom, UpIsDom, UpIsPostDom

(* The forward walk takes the paths of the graph. *)
LEMMA ForwardDoms ==
  ASSUME walk = "forward"
  PROVE  Got = Reached /\ \A a, b : Doms(a, b) <=> Dom(a, b)
<1>1. Nodes = Blocks /\ Root = 1 /\ \A n : To(n) = ToSet(succ[n])
  BY DEF Nodes, Root, To, Out
<1>2. \A S, A : ClosedOn(S, A) <=> Closed(S, A)
  BY <1>1 DEF ClosedOn, Closed
<1>3. \A A : Avoiding(A) = Reach({1}, A)
  BY <1>1, <1>2 DEF Avoiding, Reach
<1> QED BY <1>3 DEF Got, Reached, Doms, Dom

LEMMA ForwardExact ==
  ASSUME Walking, Settled, walk = "forward"
  PROVE  IsIdom(idom)
<1>1. Nodes = Blocks /\ Root = 1
  BY DEF Nodes, Root
<1>2. \A b \in Nodes \ {Root} :
        IF b \notin Got THEN idom[b] = None
        ELSE /\ Doms(idom[b], b) /\ idom[b] # b
             /\ \A a : Doms(a, b) /\ a # b => Doms(a, idom[b])
  BY SettledIsExact
<1> QED BY <1>1, <1>2, ForwardDoms DEF IsIdom

(* The reverse walk takes them backwards from the blocks without a target. *)
LEMMA ReverseDoms ==
  ASSUME Branches, walk = "reverse"
  PROVE  /\ \A b \in Blocks : b \in Got <=> b \in Ending
         /\ \A a, b \in Blocks : Doms(a, b) <=> PostDom(a, b)
<1> DEFINE Leads(b, A) == \E e \in ToSet(Exits) : e \in Reach({b}, A)
<1>1. Graph /\ N \in Nat \ {0}
  BY CfgAssumption DEF Graph, Branches
<1>2. Nodes = Blocks \cup {Exit} /\ Root = Exit /\ Exit \notin Blocks
  BY <1>1 DEF Nodes, Root, Blocks, Exit
<1>3. To(Exit) = ToSet(Exits) /\ ToSet(Exits) \subseteq Blocks
  <2>1. {b \in Blocks : succ[b] = << >>} \subseteq Blocks
    OBVIOUS
  <2>2. ToSet(Exits) = {b \in Blocks : succ[b] = << >>}
    BY <2>1, InOrderIs DEF Exits
  <2>3. walk # "forward"
    OBVIOUS
  <2>4. To(Exit) = ToSet(Exits)
    BY <2>3 DEF To, Out
  <2> QED BY <2>2, <2>4
<1>4. ASSUME NEW b \in Blocks, NEW p PROVE p \in To(b) <=> p \in Blocks /\ b \in ToSet(succ[p])
  <2>1. {q \in Blocks : b \in ToSet(succ[q])} \subseteq Blocks
    OBVIOUS
  <2>2. ToSet(Preds(b)) = {q \in Blocks : b \in ToSet(succ[q])}
    BY <2>1, InOrderIs DEF Preds
  <2>3. walk # "forward" /\ b # Exit
    BY <1>2
  <2>4. To(b) = ToSet(Preds(b))
    BY <2>3 DEF To, Out
  <2> QED BY <2>2, <2>4
<1>5. \A x \in Blocks : ToSet(succ[x]) \subseteq Blocks
  BY ToSetOf DEF Branches
<1>6. ASSUME NEW A \in SUBSET Blocks, NEW b \in Avoiding(A), b \in Blocks PROVE Leads(b, A)
  <2> DEFINE S == {Exit} \cup {x \in Blocks : Leads(x, A)}
  <2>1. ASSUME NEW x \in S, NEW y \in To(x), y \notin A PROVE y \in S
    <3>1. CASE x = Exit
      <4>1. y \in ToSet(Exits) /\ y \in Blocks
        BY <1>3, <2>1, <3>1
      <4>2. y \in Reach({y}, A)
        BY <2>1, <4>1, ReachFacts
      <4> QED BY <4>1, <4>2
    <3>2. CASE x \in Blocks /\ Leads(x, A)
      <4>1. y \in Blocks /\ x \in ToSet(succ[y])
        BY <1>4, <2>1, <3>2
      <4>2. PICK e \in ToSet(Exits) : e \in Reach({x}, A)
        BY <3>2
      <4>3. x \notin A
        <5> SUFFICES ASSUME x \in A PROVE FALSE
          OBVIOUS
        <5>1. {x} \ A \subseteq {} /\ {} \in SUBSET Blocks
          OBVIOUS
        <5>2. Reach({x}, A) \subseteq {}
          BY <5>1, ReachLeast
        <5> QED BY <4>2, <5>2
      <4>4. y \in Reach({y}, A)
        BY <2>1, <4>1, ReachFacts
      <4>5. x \in Reach({y}, A)
        BY <4>1, <4>3, <4>4, ReachFacts
      <4>6. e \in Reach({y}, A)
        BY <4>1, <4>2, <4>5, ReachOn
      <4> QED BY <4>1, <4>2, <4>6
    <3> HIDE DEF Leads
    <3> QED BY <3>1, <3>2
  <2>2. {Root} \ A \subseteq S
    BY <1>2
  <2>3. Avoiding(A) \subseteq S
    <3>1. \A x \in S \cap Nodes : (To(x) \cap Nodes) \ A \subseteq S
      BY <2>1
    <3> HIDE DEF S
    <3> QED BY <1>1, <2>2, <3>1, AvoidingLeast
  <2>4. b # Exit
    BY <1>2, <1>6
  <2> HIDE DEF Leads
  <2> QED BY <1>6, <2>3, <2>4
<1>7. ASSUME NEW A \in SUBSET Blocks, NEW b \in Blocks, Leads(b, A) PROVE b \in Avoiding(A)
  <2> SUFFICES ASSUME b \notin Avoiding(A) PROVE FALSE
    OBVIOUS
  <2> DEFINE S == Blocks \ (Avoiding(A) \cup A)
  <2>1. PICK e \in ToSet(Exits) : e \in Reach({b}, A)
    BY <1>7
  <2>2. e \in To(Exit) /\ e \notin A /\ Exit \in Avoiding(A)
    BY <1>1, <1>2, <1>3, <2>1, ReachFacts, AvoidingFacts
  <2>3. e \in Avoiding(A)
    BY <1>1, <2>2, AvoidingFacts
  <2>4. ASSUME NEW x \in S, NEW y \in ToSet(succ[x]), y \notin A PROVE y \in S
    <3>1. x \in Blocks /\ y \in Blocks /\ x \in To(y)
      BY <1>4, <1>5
    <3>2. y \notin Avoiding(A)
      BY <1>1, <3>1, AvoidingFacts
    <3> QED BY <2>4, <3>1, <3>2
  <2>5. Reach({b}, A) \subseteq S
    <3>1. S \in SUBSET Blocks /\ {b} \ A \subseteq S
      OBVIOUS
    <3> HIDE DEF S
    <3> QED BY <2>4, <3>1, ReachLeast
  <2> QED BY <2>1, <2>3, <2>5
<1>8. \A b \in Blocks : b \in Got <=> b \in Ending
  <2>1. \A b \in Blocks : b \in Got <=> Leads(b, {})
    <3> HIDE DEF Leads
    <3> QED BY <1>6, <1>7 DEF Got
  <2> QED BY <2>1 DEF Ending
<1>9. ASSUME NEW a \in Blocks, NEW b \in Blocks PROVE Doms(a, b) <=> PostDom(a, b)
  <2>1. b \in Avoiding({a}) <=> Leads(b, {a})
    <3> HIDE DEF Leads
    <3> QED BY <1>6, <1>7
  <2> QED BY <1>8, <2>1 DEF Doms, PostDom
<1> QED BY <1>8, <1>9

LEMMA ReverseExact ==
  ASSUME Walking, Settled, walk = "reverse"
  PROVE  IsIpdom([b \in Blocks |-> IF idom[b] = Exit THEN None ELSE idom[b]])
<1> DEFINE tree == [b \in Blocks |-> IF idom[b] = Exit THEN None ELSE idom[b]]
<1>1. Branches /\ N \in Nat \ {0} /\ Graph
  BY CfgAssumption DEF Walking, Graph, Branches
<1>2. Nodes = Blocks \cup {Exit} /\ Root = Exit /\ Exit \notin Blocks /\ None # Exit /\ None \notin Blocks
  BY <1>1 DEF Nodes, Root, Blocks, Exit, None
<1>3. \A b \in Blocks :
        IF b \notin Got THEN idom[b] = None
        ELSE /\ Doms(idom[b], b) /\ idom[b] # b
             /\ \A a : Doms(a, b) /\ a # b => Doms(a, idom[b])
  BY <1>2, SettledIsExact
<1> DEFINE strict(b) == {a \in Blocks \ {b} : PostDom(a, b)}
<1>4. \A b \in Blocks : strict(b) = {a \in Blocks \ {b} : Doms(a, b)}
  BY <1>1, ReverseDoms
<1>5. ASSUME NEW b \in Blocks
      PROVE  IF strict(b) = {} THEN tree[b] = None
             ELSE tree[b] \in strict(b) /\ \A a \in strict(b) : PostDom(a, tree[b])
  <2>1. tree[b] = IF idom[b] = Exit THEN None ELSE idom[b]
    OBVIOUS
  <2> HIDE DEF tree, strict
  <2>2. CASE b \notin Got
    <3>1. strict(b) = {}
      BY <1>4, <2>2 DEF Doms
    <3> QED BY <1>2, <1>3, <2>1, <2>2, <3>1
  <2>3. CASE b \in Got /\ idom[b] = Exit
    <3>1. ASSUME NEW a \in strict(b) PROVE FALSE
      <4>1. a \in Blocks /\ Doms(a, Exit)
        BY <1>3, <1>4, <2>3
      <4> QED BY <1>1, <1>2, <4>1, DomsFacts
    <3> QED BY <2>1, <2>3, <3>1
  <2>4. CASE b \in Got /\ idom[b] # Exit
    <3>1. idom[b] \in Blocks
      BY <1>1, <1>2, <1>3, <2>4, DomsFacts, GotFacts
    <3>2. idom[b] \in strict(b) /\ tree[b] = idom[b]
      BY <1>3, <1>4, <2>1, <2>4, <3>1
    <3>3. \A a \in strict(b) : PostDom(a, idom[b])
      BY <1>1, <1>3, <1>4, <2>4, <3>1, ReverseDoms
    <3> QED BY <3>2, <3>3
  <2> QED BY <2>2, <2>3, <2>4
<1> HIDE DEF tree
<1>6. IsIpdom(tree)
  BY <1>5 DEF IsIpdom
<1> QED BY <1>6 DEF tree

(* The queries on the forward tree. *)
LEMMA ForwardUp ==
  ASSUME Walking, Settled, walk = "forward"
  PROVE  UpIsDom(idom)
<1>1. Nodes = Blocks /\ stack = << >>
  BY DEF Nodes, Settled, SweepOver
<1>2. Got \subseteq Nodes /\ None \notin Nodes /\ \A n \in Got : idom[n] \in Got
  <2>1. Got \subseteq Nodes /\ None \notin Nodes
    BY <1>1, SweepFacts
  <2>2. ASSUME NEW n \in Got PROVE idom[n] \in Got
    <3>1. CASE n = Root
      BY <2>2, <3>1 DEF Walking, Tree
    <3>2. CASE n # Root
      BY <2>1, <3>2, SettledIsExact, DomsFacts DEF Walking
    <3> QED BY <3>1, <3>2
  <2> QED BY <2>1, <2>2
<1>3. ASSUME NEW b \in Got, NEW x \in Blocks PROVE x \in Up(idom, b) <=> Anc(x, b)
  <2>1. ASSUME x \in Up(idom, b), NEW S \in SUBSET Nodes, b \in S, \A n \in S : idom[n] \in S
        PROVE  x \in S
    BY <1>1, <2>1 DEF Up
  <2>2. ASSUME Anc(x, b), NEW S \in SUBSET Blocks, b \in S,
               \A n \in S : idom[n] # None => idom[n] \in S
        PROVE  x \in S
    <3>1. S \cap Got \in SUBSET Nodes /\ b \in S \cap Got /\ \A n \in S \cap Got : idom[n] \in S \cap Got
      BY <1>2, <2>2
    <3> QED BY <2>2, <3>1 DEF Anc
  <2>3. x \in Up(idom, b) => Anc(x, b)
    BY <2>1 DEF Anc
  <2>4. Anc(x, b) => x \in Up(idom, b)
    BY <2>2 DEF Up
  <2> QED BY <2>3, <2>4
<1>4. \A b : Up(idom, b) \subseteq Blocks
  BY DEF Up
<1>5. ASSUME NEW b \in Got PROVE Up(idom, b) = {a \in Blocks : Dom(a, b)}
  <2>1. \A x \in Blocks : x \in Up(idom, b) <=> Dom(x, b)
    BY <1>1, <1>3, AncIsDoms, ForwardDoms
  <2> QED BY <1>4, <2>1
<1> QED BY <1>5, ForwardDoms DEF UpIsDom

(* ... and on the reverse tree, where the virtual exit is cut off. *)
LEMMA ReverseUp ==
  ASSUME Walking, Settled, walk = "reverse"
  PROVE  UpIsPostDom([b \in Blocks |-> IF idom[b] = Exit THEN None ELSE idom[b]])
<1> DEFINE tree == [b \in Blocks |-> IF idom[b] = Exit THEN None ELSE idom[b]]
<1>1. Branches /\ N \in Nat \ {0} /\ Graph /\ stack = << >>
  BY CfgAssumption DEF Walking, Graph, Branches, Settled, SweepOver
<1>2. Nodes = Blocks \cup {Exit} /\ Root = Exit /\ Exit \notin Blocks
  BY <1>1 DEF Nodes, Root, Blocks, Exit
<1>3. Got \subseteq Nodes /\ None \notin Nodes /\ idom[Exit] = Exit /\ \A n \in Got : idom[n] \in Got
  <2>1. Got \subseteq Nodes /\ None \notin Nodes /\ idom[Root] = Root
    BY <1>1, SweepFacts DEF Walking, Tree
  <2>2. ASSUME NEW n \in Got PROVE idom[n] \in Got
    <3>1. CASE n = Root
      BY <2>1, <2>2, <3>1
    <3>2. CASE n # Root
      BY <2>1, <3>2, SettledIsExact, DomsFacts DEF Walking
    <3> QED BY <3>1, <3>2
  <2> QED BY <1>2, <2>1, <2>2
<1>4. \A n \in Blocks : tree[n] = IF idom[n] = Exit THEN None ELSE idom[n]
  OBVIOUS
<1> HIDE DEF tree
<1>5. ASSUME NEW b \in Got \cap Blocks, NEW x \in Blocks PROVE x \in Up(tree, b) <=> Anc(x, b)
  <2>1. ASSUME x \in Up(tree, b), NEW S \in SUBSET Nodes, b \in S, \A n \in S : idom[n] \in S
        PROVE  x \in S
    <3> DEFINE R == S \cap Blocks
    <3>1. R \in SUBSET Blocks /\ b \in R
      BY <1>5, <2>1
    <3>2. ASSUME NEW n \in R, tree[n] # None PROVE tree[n] \in R
      <4>1. tree[n] = idom[n] /\ idom[n] # Exit /\ idom[n] \in S
        BY <1>4, <2>1, <3>2
      <4> QED BY <1>2, <4>1
    <3> HIDE DEF R
    <3>3. x \in R
      BY <2>1, <3>1, <3>2 DEF Up
    <3> QED BY <3>3 DEF R
  <2>2. ASSUME Anc(x, b), NEW S \in SUBSET Blocks, b \in S,
               \A n \in S : tree[n] # None => tree[n] \in S
        PROVE  x \in S
    <3> DEFINE R == (S \cap Got) \cup {Exit}
    <3>1. R \in SUBSET Nodes /\ b \in R
      BY <1>2, <1>5, <2>2
    <3>2. ASSUME NEW n \in R PROVE idom[n] \in R
      <4>1. CASE n = Exit
        BY <1>3, <4>1
      <4>2. CASE n \in S \cap Got
        <5>1. idom[n] \in Got /\ idom[n] # None
          BY <1>3, <4>2
        <5>2. CASE idom[n] = Exit
          BY <5>2
        <5>3. CASE idom[n] # Exit
          <6>1. tree[n] = idom[n]
            BY <1>4, <4>2, <5>3
          <6> QED BY <2>2, <4>2, <5>1, <6>1
        <5> QED BY <5>2, <5>3
      <4> QED BY <4>1, <4>2
    <3> HIDE DEF R
    <3>3. x \in R
      BY <2>2, <3>1, <3>2 DEF Anc
    <3> QED BY <1>2, <3>3 DEF R
  <2>3. x \in Up(tree, b) => Anc(x, b)
    BY <2>1 DEF Anc
  <2>4. Anc(x, b) => x \in Up(tree, b)
    BY <2>2 DEF Up
  <2> QED BY <2>3, <2>4
<1>6. \A b : Up(tree, b) \subseteq Blocks
  BY DEF Up
<1>7. ASSUME NEW b \in Ending PROVE Up(tree, b) = {a \in Blocks : PostDom(a, b)}
  <2>1. b \in Got \cap Blocks
    BY <1>1, <1>7, ReverseDoms DEF Ending
  <2>2. \A x \in Blocks : x \in Up(tree, b) <=> PostDom(x, b)
    BY <1>1, <1>2, <1>5, <2>1, AncIsDoms, ReverseDoms
  <2> QED BY <1>6, <2>2
<1>8. UpIsPostDom(tree)
  BY <1>7 DEF UpIsPostDom
<1> QED BY <1>8 DEF tree

-----------------------------------------------------------------------------
(* Where a walk starts. *)
Fresh ==
  /\ Graph
  /\ stack = << <<Root, 1>> >> /\ seen = {Root} /\ post = << >>
  /\ idom = [n \in Nodes |-> IF n = Root THEN Root ELSE None]
  /\ sweep = << >> /\ visit = Idle /\ changed = TRUE

LEMMA FreshWalks == Fresh => Walking
<1> SUFFICES ASSUME Fresh PROVE Walking
  OBVIOUS
<1>1. /\ Graph /\ stack = << <<Root, 1>> >> /\ seen = {Root} /\ post = << >>
      /\ idom = [n \in Nodes |-> IF n = Root THEN Root ELSE None]
      /\ sweep = << >> /\ visit = Idle /\ changed = TRUE
  BY DEF Fresh
<1>2. Root \in Nodes /\ Root \in Got /\ Len(Out(Root)) \in Nat
  BY <1>1, GraphFacts, GotFacts
<1>3. Len(stack) = 1 /\ stack[1][1] = Root /\ stack[1][2] = 1 /\ \A i \in 1 .. Len(stack) : i = 1
  BY <1>1
<1>4. OnStack = {Root}
  BY <1>3 DEF OnStack
<1>5. StackOK
  <2>1. stack \in Seq(Nodes \X (Nat \ {0}))
    BY <1>1, <1>2
  <2>2. 1 .. 1 - 1 = {}
    OBVIOUS
  <2> QED BY <1>2, <1>3, <2>1, <2>2 DEF StackOK
<1>6. Len(post) = 0 /\ 1 .. Len(post) = {} /\ post \in Seq(Nodes)
  BY <1>1
<1>7. PostOK
  BY <1>6 DEF PostOK
<1>8. SeenOK
  BY <1>1, <1>2, <1>4, <1>6 DEF SeenOK
<1>9. Unswept
  BY <1>1 DEF Unswept
<1>10. idom \in [Nodes -> Nodes \cup {None}] /\ idom[Root] = Root
  BY <1>1, <1>2
<1> QED BY <1>1, <1>5, <1>7, <1>8, <1>9, <1>10, NothingSwept DEF Searching

(* What a walk implies of its state. *)
LEMMA WalkingTypes ==
  Walking /\ succ \in [Blocks -> Targets] => TypeOK /\ ParentsAbove
<1> SUFFICES ASSUME Walking, succ \in [Blocks -> Targets] PROVE TypeOK /\ ParentsAbove
  OBVIOUS
<1>1. N \in Nat \ {0} /\ Graph
  BY CfgAssumption DEF Walking
<1>2. Got \subseteq Nodes /\ Nodes \subseteq 1 .. Exit /\ None \notin Nodes /\ Root \in Nodes
  <2>1. Nodes \subseteq 1 .. Exit
    BY <1>1 DEF Nodes, Blocks, Exit
  <2> QED BY <1>1, <2>1, GraphFacts, GotFacts
<1>3. DOMAIN idom = Nodes
  BY DEF Walking, Tree
<1>4. post \in Seq(Nodes) /\ ToSet(post) = {post[i] : i \in 1 .. Len(post)} /\ ToSet(post) \subseteq seen
      /\ seen \subseteq Got /\ Len(post) \in Nat
  BY DEF Walking, Searching, PostOK, SeenOK, ToSet
<1>5. Cardinality(ToSet(post)) = Len(post)
  <2> DEFINE f == [i \in 1 .. Len(post) |-> post[i]]
  <2>1. \A i, j \in 1 .. Len(post) : post[i] = post[j] => i = j
    BY DEF Walking, Searching, PostOK
  <2>2. f \in Bijection(1 .. Len(post), ToSet(post))
    BY <1>4, <2>1 DEF Bijection, Injection, Surjection, IsInjective
  <2>3. ExistsBijection(1 .. Len(post), ToSet(post))
    BY <2>2 DEF ExistsBijection
  <2>4. IsFiniteSet(1 .. Len(post)) /\ Cardinality(1 .. Len(post)) = Len(post)
    <3>1. 1 \in Int /\ Len(post) \in Int
      BY <1>4
    <3>2. IsFiniteSet(1 .. Len(post))
          /\ Cardinality(1 .. Len(post)) = IF 1 > Len(post) THEN 0 ELSE Len(post) - 1 + 1
      BY <3>1, FS_Interval
    <3> QED BY <1>4, <3>2
  <2> QED BY <2>3, <2>4, FS_Bijection
<1>6. ASSUME NEW n \in DOMAIN idom PROVE idom[n] = None \/ idom[n] \in seen
  <2>1. CASE stack # << >>
    <3>1. n = Root \/ idom[n] = None
      BY <1>3, <2>1 DEF Walking, Unswept
    <3>2. idom[Root] = Root /\ Root \in seen
      BY DEF Walking, Tree, Searching, SeenOK
    <3> QED BY <3>1, <3>2
  <2>2. CASE stack = << >>
    <3>1. SUFFICES ASSUME idom[n] # None PROVE idom[n] \in seen
      OBVIOUS
    <3>2. idom[n] \in Got
      BY <1>3, <2>2, <3>1, SweepFacts
    <3>3. Number(idom[n]) \in 1 .. Len(post) /\ post[Number(idom[n])] = idom[n]
      BY <2>2, <3>2, SweepFacts
    <3>4. idom[n] \in ToSet(post)
      BY <1>4, <3>3
    <3> QED BY <1>4, <3>4
  <2> QED BY <2>1, <2>2
<1>7. TypeOK
  BY <1>1, <1>2, <1>4, <1>5, <1>6 DEF TypeOK, Graph
<1>8. ParentsAbove
  BY <1>3 DEF ParentsAbove, Walking, Tree
<1> QED BY <1>7, <1>8

-----------------------------------------------------------------------------
(* The inductive invariant: what the running walk keeps, and the trees of  *)
(* the walks that are over.                                                *)
CfgInv ==
  /\ succ \in [Blocks -> Targets] /\ walk \in {"forward", "reverse", "done"}
  /\ TypeOK /\ ParentsAbove
  /\ IF walk = "done" THEN SweepOver ELSE Walking
  /\ walk # "forward" => IsIdom(trees.forward) /\ UpIsDom(trees.forward)
  /\ walk = "done" => IsIpdom(trees.reverse) /\ UpIsPostDom(trees.reverse)
  /\ DOMAIN trees = {"forward", "reverse"}

LEMMA CfgInit == Init => CfgInv
<1> SUFFICES ASSUME Init PROVE CfgInv
  OBVIOUS
<1>1. succ \in [Blocks -> Targets] /\ walk = "forward" /\ DOMAIN trees = {"forward", "reverse"}
  BY DEF Init
<1>2. Graph
  BY <1>1, CfgAssumption DEF Graph
<1>3. Nodes = Blocks /\ Root = 1
  BY <1>1 DEF Nodes, Root
<1>4. Fresh
  BY <1>2, <1>3 DEF Init, Fresh
<1>5. Walking /\ TypeOK /\ ParentsAbove
  BY <1>1, <1>4, FreshWalks, WalkingTypes
<1> QED BY <1>1, <1>5 DEF CfgInv

LEMMA CfgStep == CfgInv /\ [Next]_vars => CfgInv'
<1> SUFFICES ASSUME CfgInv, [Next]_vars PROVE CfgInv'
  OBVIOUS
<1>1. /\ succ \in [Blocks -> Targets] /\ walk \in {"forward", "reverse", "done"}
      /\ TypeOK /\ ParentsAbove
      /\ IF walk = "done" THEN SweepOver ELSE Walking
      /\ walk # "forward" => IsIdom(trees.forward) /\ UpIsDom(trees.forward)
      /\ walk = "done" => IsIpdom(trees.reverse) /\ UpIsPostDom(trees.reverse)
      /\ DOMAIN trees = {"forward", "reverse"}
  BY DEF CfgInv
<1>2. Branches
  BY <1>1, CfgAssumption DEF Branches
<1>3. (Walking /\ succ \in [Blocks -> Targets])' => (TypeOK /\ ParentsAbove)'
  BY WalkingTypes, PTL
<1>4. CASE Descend \/ Leave \/ StartSweep \/ VisitNode \/ LookAtPred \/ Climb \/ SetParent
  <2>1. succ' = succ /\ walk' = walk /\ trees' = trees
    BY <1>4 DEF Descend, Leave, StartSweep, VisitNode, LookAtPred, Climb, SetParent
  <2>2. walk # "done"
    <3> SUFFICES ASSUME walk = "done" PROVE FALSE
      OBVIOUS
    <3>1. stack = << >> /\ sweep = << >> /\ visit = Idle /\ visit.node = None
      BY <1>1 DEF SweepOver, Idle
    <3> QED BY <1>4, <3>1 DEF Descend, Leave, StartSweep, VisitNode, LookAtPred, Climb, SetParent,
                              Looking, Fingers
  <2>3. Walking'
    BY <1>1, <1>4, <2>2, SearchSteps, StartSweepWalks, VisitNodeWalks, LookAtPredWalks, ClimbWalks,
       SetParentWalks
  <2>4. TypeOK' /\ ParentsAbove'
    BY <1>1, <1>3, <2>1, <2>3
  <2>5. (IsIdom(trees.forward)' <=> IsIdom(trees.forward))
        /\ (UpIsDom(trees.forward)' <=> UpIsDom(trees.forward))
    BY <2>1, SamePaths
  <2> QED BY <1>1, <2>1, <2>2, <2>3, <2>4, <2>5 DEF CfgInv
<1>5. CASE EndForward
  <2>1. /\ walk = "forward" /\ Settled /\ walk' = "reverse" /\ succ' = succ
        /\ trees' = [trees EXCEPT !.forward = idom]
        /\ stack' = << <<Exit, 1>> >> /\ seen' = {Exit} /\ post' = << >>
        /\ idom' = [n \in 1 .. Exit |-> IF n = Exit THEN Exit ELSE None]
        /\ changed' = TRUE /\ sweep' = << >> /\ visit' = Idle
    BY <1>5 DEF EndForward, Settled, SweepOver
  <2>2. trees'.forward = idom /\ DOMAIN trees' = {"forward", "reverse"}
    BY <1>1, <2>1
  <2>3. IsIdom(idom) /\ UpIsDom(idom)
    BY <1>1, <2>1, ForwardExact, ForwardUp
  <2>4. IsIdom(trees.forward)' /\ UpIsDom(trees.forward)'
    BY <2>1, <2>2, <2>3, SamePaths
  <2>5. Graph' /\ Root' = Exit /\ Nodes' = 1 .. Exit
    BY <1>2, <2>1 DEF Graph, Branches, Root, Nodes
  <2>6. Fresh'
    BY <2>1, <2>5 DEF Fresh
  <2>7. Fresh' => Walking'
    BY FreshWalks, PTL
  <2>8. TypeOK' /\ ParentsAbove'
    BY <1>1, <1>3, <2>1, <2>6, <2>7
  <2> QED BY <1>1, <2>1, <2>2, <2>4, <2>6, <2>7, <2>8 DEF CfgInv
<1>6. CASE EndReverse
  <2> DEFINE tree == [b \in Blocks |-> IF idom[b] = Exit THEN None ELSE idom[b]]
  <2>1. /\ walk = "reverse" /\ Settled /\ walk' = "done" /\ succ' = succ
        /\ trees' = [trees EXCEPT !.reverse = tree]
        /\ stack' = stack /\ seen' = seen /\ post' = post /\ idom' = idom
        /\ changed' = changed /\ sweep' = sweep /\ visit' = visit
    BY <1>6 DEF EndReverse
  <2>2. IsIpdom(tree) /\ UpIsPostDom(tree)
    BY <1>1, <2>1, ReverseExact, ReverseUp
  <2> HIDE DEF tree
  <2>3. trees'.forward = trees.forward /\ trees'.reverse = tree /\ DOMAIN trees' = {"forward", "reverse"}
    BY <1>1, <2>1
  <2>4. /\ IsIdom(trees.forward)' /\ UpIsDom(trees.forward)'
        /\ IsIpdom(trees.reverse)' /\ UpIsPostDom(trees.reverse)'
    BY <1>1, <2>1, <2>2, <2>3, SamePaths
  <2>5. SweepOver'
    BY <2>1 DEF Settled, SweepOver
  <2>6. TypeOK'
    BY <1>1, <2>1 DEF TypeOK
  <2>7. ParentsAbove'
    <3>1. Root' = Root
      BY <2>1 DEF Root
    <3>2. \A n : Number(n)' = Number(n)
      BY <2>1, SameOrder
    <3> QED BY <1>1, <2>1, <3>1, <3>2 DEF ParentsAbove
  <2> QED BY <1>1, <2>1, <2>3, <2>4, <2>5, <2>6, <2>7 DEF CfgInv
<1>7. CASE UNCHANGED vars
  <2>1. /\ succ' = succ /\ walk' = walk /\ stack' = stack /\ seen' = seen /\ post' = post
        /\ idom' = idom /\ sweep' = sweep /\ visit' = visit /\ changed' = changed /\ trees' = trees
    BY <1>7 DEF vars
  <2>2. /\ IsIdom(trees.forward)' <=> IsIdom(trees.forward)
        /\ UpIsDom(trees.forward)' <=> UpIsDom(trees.forward)
        /\ IsIpdom(trees.reverse)' <=> IsIpdom(trees.reverse)
        /\ UpIsPostDom(trees.reverse)' <=> UpIsPostDom(trees.reverse)
    BY <2>1, SamePaths
  <2>3. Walking' <=> Walking
    BY <2>1, SameWalk, SameGraph, SameOrder, SameTree DEF Walking, Unswept, Sweeping, Visiting, Visited
  <2>4. TypeOK' /\ ParentsAbove'
    <3>1. Root' = Root
      BY <2>1 DEF Root
    <3>2. \A n : Number(n)' = Number(n)
      BY <2>1, SameOrder
    <3> QED BY <1>1, <2>1, <3>1, <3>2 DEF ParentsAbove, TypeOK
  <2>5. SweepOver' <=> SweepOver
    BY <2>1 DEF SweepOver
  <2> QED BY <1>1, <2>1, <2>2, <2>3, <2>4, <2>5 DEF CfgInv
<1> QED BY <1>4, <1>5, <1>6, <1>7 DEF Next

(* build_cfg() keeps its invariant, for every number of blocks, every kind *)
(* of terminator and every graph.                                          *)
THEOREM CfgSound == Spec => []CfgInv
  BY CfgInit, CfgStep, PTL DEF Spec

(* The climb of intersect() always ends: a parent has a greater postorder  *)
(* number than its child in every sweep (uir/cfg.cpp:28).                  *)
THEOREM ParentsStayAbove == Spec => []ParentsAbove
<1>1. CfgInv => ParentsAbove
  BY DEF CfgInv
<1> QED BY <1>1, CfgSound, PTL

(* The trees build_cfg() returns are the immediate dominators and post-    *)
(* dominators of the graph, whatever the graph (uir/cfg.cpp:51).           *)
THEOREM TreesAreExact == Spec => []TreesExact
<1>1. CfgInv => TreesExact
  BY DEF CfgInv, TreesExact
<1> QED BY <1>1, CfgSound, PTL

(* dominates() and post_dominates() answer for every reached block, and    *)
(* every block that can end, what the paths say (uir/cfg.cpp:88).          *)
THEOREM QueriesAreExact == Spec => []QueriesExact
<1>1. CfgInv => QueriesExact
  BY DEF CfgInv, QueriesExact
<1> QED BY <1>1, CfgSound, PTL

(* A path from the branch to its post-dominator goes on through the thread *)
(* frontier; so it is one no exit can be reached around.                   *)
LEMMA IpdomReconverges ==
  ASSUME Branches, NEW b \in Blocks, IsIpdom(trees.reverse), Reconvergence(b) # None
  PROVE  /\ Reconvergence(b) \notin ThreadFrontier(b)
         /\ \A f \in ThreadFrontier(b) : f \in Ending => PostDom(Reconvergence(b), f)
<1> DEFINE r == Reconvergence(b)
           A == {r}
<1>1. r \in Blocks \ {b} /\ PostDom(r, b)
  BY DEF IsIpdom, Reconvergence
<1>2. ToSet(succ[b]) \in SUBSET Blocks
  BY ToSetOf DEF Branches
<1>3. ThreadFrontier(b) = Reach(ToSet(succ[b]), A)
  BY DEF ThreadFrontier
<1> HIDE DEF r
<1>4. r \notin ThreadFrontier(b) /\ ThreadFrontier(b) \subseteq Blocks
  BY <1>2, <1>3, ReachFacts
<1>5. ThreadFrontier(b) \subseteq Reach({b}, A)
  <2>1. b \in Reach({b}, A)
    BY <1>1, ReachFacts
  <2>2. /\ Reach({b}, A) \in SUBSET Blocks /\ ToSet(succ[b]) \ A \subseteq Reach({b}, A)
        /\ \A x \in Reach({b}, A) : \A y \in ToSet(succ[x]) : y \notin A => y \in Reach({b}, A)
    BY <2>1, ReachFacts
  <2>3. Reach(ToSet(succ[b]), A) \subseteq Reach({b}, A)
    <3> DEFINE S == Reach({b}, A)
    <3> HIDE DEF S, A
    <3> QED BY <2>2, ReachLeast DEF S
  <2> QED BY <1>3, <2>3
<1>6. ASSUME NEW f \in ThreadFrontier(b), f \in Ending PROVE PostDom(r, f)
  <2> SUFFICES ASSUME NEW e \in ToSet(Exits), e \in Reach({f}, A) PROVE FALSE
    BY <1>6 DEF PostDom
  <2>1. e \in Reach({b}, A)
    BY <1>5, <1>6, ReachOn
  <2> QED BY <1>1, <2>1 DEF PostDom
<1> QED BY <1>4, <1>6 DEF r

(* The lanes of a divergent branch reconverge: no block of its thread      *)
(* frontier reaches an exit past its reconvergence point (uir/cfg.cpp:104).*)
THEOREM FrontiersReconverge == Spec => []FrontierReconverges
<1>1. CfgInv => FrontierReconverges
  <2> SUFFICES ASSUME CfgInv, walk = "done" PROVE FrontierReconverges
    BY DEF FrontierReconverges
  <2>1. Branches /\ IsIpdom(trees.reverse)
    BY CfgAssumption DEF CfgInv, Branches
  <2> QED BY <2>1, IpdomReconverges DEF FrontierReconverges
<1> QED BY <1>1, CfgSound, PTL

-----------------------------------------------------------------------------
(* Recursive functions and sequences                                       *)

LEMMA InductionAt ==
  ASSUME NEW M, 0 \in M, \A n \in Nat : n \in M => n + 1 \in M, NEW k \in Nat
  PROVE  k \in M
BY Induction

(* Functions that are recursive over 0 .. n have values. *)
Recurs(g, n, x0, F) == g = [k \in 0 .. n |-> IF k = 0 THEN x0 ELSE F[<<k, g[k - 1]>>]]

LEMMA Recursion ==
  ASSUME NEW D, NEW x0 \in D, NEW F \in [Nat \X D -> D], NEW n \in Nat
  PROVE  \E g \in [0 .. n -> D] : Recurs(g, n, x0, F)
<1> DEFINE Good(g, m) == /\ g \in [0 .. m -> D] /\ g[0] = x0
                         /\ \A k \in 1 .. m : g[k] = F[<<k, g[k - 1]>>]
           M == {m \in Nat : \E g : Good(g, m)}
<1>1. 0 \in M
  <2>1. Good([k \in 0 .. 0 |-> x0], 0)
    OBVIOUS
  <2> QED BY <2>1
<1>2. ASSUME NEW m \in Nat, m \in M PROVE m + 1 \in M
  <2>1. PICK g : Good(g, m)
    BY <1>2
  <2> DEFINE h == [k \in 0 .. m + 1 |-> IF k = m + 1 THEN F[<<k, g[m]>>] ELSE g[k]]
  <2>2. F[<<m + 1, g[m]>>] \in D
    <3>1. g[m] \in D
      BY <2>1
    <3> QED BY <3>1
  <2>3. h \in [0 .. m + 1 -> D] /\ h[0] = x0
    BY <2>1, <2>2
  <2>4. ASSUME NEW k \in 1 .. m + 1 PROVE h[k] = F[<<k, h[k - 1]>>]
    <3>1. CASE k = m + 1
      BY <3>1
    <3>2. CASE k # m + 1
      <4>1. k \in 1 .. m /\ k - 1 \in 0 .. m + 1 /\ k - 1 # m + 1 /\ k \in 0 .. m + 1
        BY <3>2
      <4>2. h[k] = g[k] /\ h[k - 1] = g[k - 1]
        BY <3>2, <4>1
      <4> QED BY <2>1, <4>1, <4>2
    <3> QED BY <3>1, <3>2
  <2> HIDE DEF h
  <2>5. Good(h, m + 1)
    BY <2>3, <2>4
  <2> QED BY <2>5
<1>3. n \in M
  <2> HIDE DEF M
  <2> QED BY <1>1, <1>2, InductionAt
<1>4. PICK g : Good(g, n)
  BY <1>3
<1> DEFINE G == [k \in 0 .. n |-> IF k = 0 THEN x0 ELSE F[<<k, g[k - 1]>>]]
<1>5. g \in [0 .. n -> D] /\ \A k \in 0 .. n : g[k] = G[k]
  BY <1>4
<1>6. g = G
  <2>1. g = [k \in 0 .. n |-> g[k]]
    BY <1>5
  <2>2. g = [k \in 0 .. n |-> G[k]]
    <3> HIDE DEF G
    <3> QED BY <1>5, <2>1
  <2> QED BY <2>2
<1> QED BY <1>5, <1>6 DEF Recurs

(* Functions that start alike and continue alike are alike. *)
ContinueAlike(f, g, n) == f[0] = g[0] /\ \A k \in 1 .. n : f[k - 1] = g[k - 1] => f[k] = g[k]

LEMMA SameRecursion ==
  ASSUME NEW n \in Nat, NEW f, NEW g, ContinueAlike(f, g, n)
  PROVE  \A k \in 0 .. n : f[k] = g[k]
<1> USE DEF ContinueAlike
<1> DEFINE M == {m \in Nat : m <= n => f[m] = g[m]}
<1>1. 0 \in M
  OBVIOUS
<1>2. ASSUME NEW m \in Nat, m \in M PROVE m + 1 \in M
  <2> SUFFICES ASSUME m + 1 <= n PROVE f[m + 1] = g[m + 1]
    OBVIOUS
  <2>1. m + 1 \in 1 .. n /\ (m + 1) - 1 = m /\ f[m] = g[m]
    BY <1>2
  <2> QED BY <2>1
<1>3. ASSUME NEW m \in Nat PROVE m \in M
  <2> HIDE DEF M
  <2> QED BY <1>1, <1>2, InductionAt
<1> QED BY <1>3

LEMMA LastOff ==
  ASSUME NEW T, NEW r \in Seq(T), NEW n \in Nat, Len(r) = n + 1
  PROVE  /\ SubSeq(r, 1, n) \in Seq(T) /\ Len(SubSeq(r, 1, n)) = n /\ r[n + 1] \in T
         /\ r = Append(SubSeq(r, 1, n), r[n + 1])
OBVIOUS

LEMMA ListIs ==
  ASSUME NEW T, NEW n \in Nat, NEW f \in [1 .. n -> T]
  PROVE  f \in Seq(T) /\ Len(f) = n /\ DOMAIN f = 1 .. n
OBVIOUS

LEMMA WiderSequence ==
  ASSUME NEW S, NEW T, S \subseteq T, NEW s \in Seq(S)
  PROVE  s \in Seq(T)
OBVIOUS

LEMMA AppendIs ==
  ASSUME NEW T, NEW r \in Seq(T), NEW x \in T
  PROVE  /\ Append(r, x) \in Seq(T) /\ Len(Append(r, x)) = Len(r) + 1 /\ Append(r, x) # << >>
         /\ Append(r, x)[Len(r) + 1] = x /\ \A k \in 1 .. Len(r) : Append(r, x)[k] = r[k]
         /\ Append(r, x) = r \o <<x>>
OBVIOUS

LEMMA ConcatIs ==
  ASSUME NEW T, NEW r \in Seq(T), NEW s \in Seq(T)
  PROVE  /\ r \o s \in Seq(T) /\ Len(r \o s) = Len(r) + Len(s)
         /\ \A k \in 1 .. Len(r) : (r \o s)[k] = r[k]
         /\ \A k \in 1 .. Len(s) : (r \o s)[Len(r) + k] = s[k]
OBVIOUS

LEMMA ConcatThree ==
  ASSUME NEW T, NEW r \in Seq(T), NEW s \in Seq(T), NEW t \in Seq(T)
  PROVE  r \o (s \o t) = (r \o s) \o t
OBVIOUS

LEMMA ConcatNothing ==
  ASSUME NEW T, NEW r \in Seq(T)
  PROVE  r \o << >> = r /\ << >> \o r = r
OBVIOUS

LEMMA SameSequence ==
  ASSUME NEW T, NEW U, NEW r \in Seq(T), NEW s \in Seq(U), Len(r) = Len(s),
         \A k \in 1 .. Len(r) : r[k] = s[k]
  PROVE  r = s
OBVIOUS

(* FlattenSeq joins from the left. *)
LEMMA FlattenIs ==
  ASSUME NEW S, NEW s \in Seq(Seq(S))
  PROVE  \E g \in [0 .. Len(s) -> Seq(S)] :
           /\ g[0] = << >> /\ \A k \in 1 .. Len(s) : g[k] = g[k - 1] \o s[k]
           /\ FlattenSeq(s) = g[Len(s)]
<1> DEFINE n == Len(s)
           F == [p \in Nat \X Seq(S) |-> IF p[1] \in 1 .. n THEN p[2] \o s[p[1]] ELSE << >>]
<1>1. n \in Nat /\ << >> \in Seq(S) /\ \A k \in 1 .. n : s[k] \in Seq(S)
  OBVIOUS
<1>2. F \in [Nat \X Seq(S) -> Seq(S)]
  <2> HIDE DEF n
  <2>1. ASSUME NEW p \in Nat \X Seq(S)
        PROVE  (IF p[1] \in 1 .. n THEN p[2] \o s[p[1]] ELSE << >>) \in Seq(S)
    <3>1. p[2] \in Seq(S)
      OBVIOUS
    <3> QED BY <1>1, <3>1, ConcatIs
  <2> QED BY <2>1
<1>3. PICK g \in [0 .. n -> Seq(S)] : g = [k \in 0 .. n |-> IF k = 0 THEN << >> ELSE F[<<k, g[k - 1]>>]]
  <2> DEFINE D == Seq(S)
  <2>1. << >> \in D /\ F \in [Nat \X D -> D]
    BY <1>1, <1>2
  <2> HIDE DEF F, n, D
  <2>2. \E g \in [0 .. n -> D] : Recurs(g, n, << >>, F)
    <3>1. n \in Nat /\ << >> \in D
      BY <1>1, <2>1
    <3> QED BY <2>1, <3>1, Recursion
  <2> QED BY <2>2 DEF D, Recurs
<1>4. g[0] = << >> /\ \A k \in 1 .. n : g[k] = g[k - 1] \o s[k]
  <2> HIDE DEF n
  <2>1. g[0] = << >>
    BY <1>1, <1>3
  <2>2. ASSUME NEW k \in 1 .. n PROVE g[k] = g[k - 1] \o s[k]
    <3>1. k \in 0 .. n /\ k # 0 /\ k - 1 \in 0 .. n /\ k \in Nat
      BY <1>1
    <3>2. g[k - 1] \in Seq(S) /\ g[k] = F[<<k, g[k - 1]>>]
      <4> HIDE DEF F
      <4> QED BY <1>3, <3>1
    <3> QED BY <3>1, <3>2
  <2> QED BY <2>1, <2>2
<1>5. FlattenSeq(s) = g[n]
  <2>1. CASE n = 0
    BY <1>4, <2>1 DEF FlattenSeq
  <2>2. CASE n # 0
    <3> DEFINE f == CHOOSE f : f = [j \in 1 .. Len(s) |-> IF j = 1 THEN s[j] ELSE f[j - 1] \o s[j]]
               h == [j \in 1 .. n |-> g[j]]
               H == [j \in 1 .. n |-> IF j = 1 THEN s[j] ELSE h[j - 1] \o s[j]]
    <3>1. ASSUME NEW j \in 1 .. n PROVE h[j] = IF j = 1 THEN s[j] ELSE h[j - 1] \o s[j]
      <4>1. CASE j = 1
        <5>0. s[j] \in Seq(S) /\ j - 1 = 0
          BY <1>1, <4>1
        <5>1. g[j] = << >> \o s[j]
          <6> HIDE DEF n
          <6> QED BY <1>4, <5>0
        <5> QED BY <4>1, <5>1, ConcatNothing
      <4>2. CASE j # 1
        <5>1. j - 1 \in 1 .. n
          BY <4>2
        <5>2. h[j - 1] = g[j - 1]
          BY <5>1
        <5> HIDE DEF n
        <5> QED BY <1>4, <4>2, <5>2
      <4> QED BY <4>1, <4>2
    <3>2. h = H
      <4>1. \A j \in 1 .. n : h[j] = H[j]
        <5> HIDE DEF h, n
        <5> QED BY <3>1
      <4>2. h = [j \in 1 .. n |-> h[j]]
        OBVIOUS
      <4> HIDE DEF h, n
      <4>3. h = [j \in 1 .. n |-> H[j]]
        <5> HIDE DEF H
        <5> QED BY <4>1, <4>2
      <4> QED BY <4>3
    <3>3. f = [j \in 1 .. n |-> IF j = 1 THEN s[j] ELSE f[j - 1] \o s[j]]
      <4> HIDE DEF h
      <4> QED BY <3>2
    <3>4. FlattenSeq(s) = f[n]
      BY <2>2 DEF FlattenSeq
    <3> HIDE DEF f
    <3> DEFINE f0 == [j \in 0 .. n |-> IF j = 0 THEN << >> ELSE f[j]]
    <3>5. ASSUME NEW k \in 1 .. n, f0[k - 1] = g[k - 1] PROVE f0[k] = g[k]
      <4>0. k \in 0 .. n /\ k # 0
        BY <1>1
      <4>1. f0[k] = f[k] /\ g[k] = g[k - 1] \o s[k]
        <5>1. f0[k] = f[k]
          BY <4>0
        <5> HIDE DEF n
        <5> QED BY <1>4, <5>1
      <4>2. CASE k = 1
        BY <1>1, <1>4, <3>3, <4>1, <4>2, ConcatNothing
      <4>3. CASE k # 1
        <5>1. k - 1 \in 0 .. n /\ k - 1 # 0
          BY <4>3
        <5>2. f0[k - 1] = f[k - 1]
          BY <5>1
        <5>3. f[k] = f[k - 1] \o s[k]
          BY <3>3, <4>3
        <5> HIDE DEF f0, n
        <5> QED BY <3>5, <4>1, <5>2, <5>3
      <4> QED BY <4>2, <4>3
    <3>6. f0[0] = g[0]
      BY <1>1, <1>4
    <3>7. \A k \in 0 .. n : f0[k] = g[k]
      <4> HIDE DEF f0, n
      <4>1. ContinueAlike(f0, g, n)
        BY <3>5, <3>6 DEF ContinueAlike
      <4> QED BY <1>1, <4>1, SameRecursion
    <3>8. f0[n] = f[n] /\ n \in 0 .. n
      BY <1>1, <2>2
    <3> HIDE DEF f0, n
    <3> QED BY <3>4, <3>7, <3>8
  <2> QED BY <2>1, <2>2
<1> QED BY <1>4, <1>5

LEMMA FlattenAppend ==
  ASSUME NEW S, NEW s \in Seq(Seq(S)), NEW x \in Seq(S)
  PROVE  /\ FlattenSeq(Append(s, x)) = FlattenSeq(s) \o x
         /\ FlattenSeq(s) \in Seq(S) /\ FlattenSeq(<< >>) = << >>
<1> DEFINE n == Len(s)
           t == Append(s, x)
<1>1. n \in Nat /\ t \in Seq(Seq(S)) /\ Len(t) = n + 1 /\ t[n + 1] = x /\ \A k \in 1 .. n : t[k] = s[k]
  OBVIOUS
<1> HIDE DEF t
<1>2. PICK g \in [0 .. n -> Seq(S)] : /\ g[0] = << >> /\ \A k \in 1 .. n : g[k] = g[k - 1] \o s[k]
                                      /\ FlattenSeq(s) = g[n]
  BY FlattenIs
<1>3. PICK h \in [0 .. Len(t) -> Seq(S)] :
         /\ h[0] = << >> /\ \A k \in 1 .. Len(t) : h[k] = h[k - 1] \o t[k]
         /\ FlattenSeq(t) = h[Len(t)]
  BY <1>1, FlattenIs
<1> HIDE DEF n
<1>4. \A k \in 1 .. n : k \in 1 .. n + 1
  BY <1>1
<1>5. \A k \in 0 .. n : h[k] = g[k]
  <2>1. \A k \in 1 .. n : h[k - 1] = g[k - 1] => h[k] = g[k]
    BY <1>1, <1>2, <1>3, <1>4
  <2>2. h[0] = g[0]
    BY <1>2, <1>3
  <2>3. ContinueAlike(h, g, n)
    BY <2>1, <2>2 DEF ContinueAlike
  <2>4. n \in Nat
    BY <1>1
  <2> QED BY <2>3, <2>4, SameRecursion
<1>6. n \in 0 .. n /\ n + 1 \in 1 .. n + 1 /\ (n + 1) - 1 = n
  BY <1>1
<1>7. h[n + 1] = h[n] \o x /\ g[n] \in Seq(S) /\ h[n] = g[n]
  BY <1>1, <1>2, <1>3, <1>5, <1>6
<1>8. FlattenSeq(<< >>) = << >>
  BY DEF FlattenSeq
<1> QED BY <1>1, <1>2, <1>3, <1>7, <1>8 DEF t

-----------------------------------------------------------------------------
(* Numbers and their bits                                                  *)

LEMMA DivMod ==
  ASSUME NEW a \in Nat, NEW p \in Nat \ {0}
  PROVE  a \div p \in Nat /\ a % p \in Nat /\ a % p < p /\ a = p * (a \div p) + (a % p)
<1>1. a \div p \in Nat
  OBVIOUS
<1>2. a % p \in 0 .. p - 1
  OBVIOUS
<1>3. a = p * (a \div p) + (a % p)
  OBVIOUS
<1> QED BY <1>1, <1>2, <1>3

LEMMA ProductNext ==
  ASSUME NEW a \in Int, NEW b \in Int, NEW c \in Int
  PROVE  a * (b + c) = a * b + a * c /\ (a + b) * c = a * c + b * c /\ a * b = b * a
OBVIOUS

LEMMA ProductGrows ==
  ASSUME NEW a \in Nat, NEW b \in Int, NEW c \in Int, b <= c
  PROVE  a * b <= a * c
OBVIOUS

LEMMA DivUnique ==
  ASSUME NEW a \in Nat, NEW p \in Nat \ {0}, NEW q \in Nat, NEW r \in Nat, a = p * q + r, r < p
  PROVE  a \div p = q /\ a % p = r
<1>1. /\ a \div p \in Nat /\ a % p \in Nat /\ a % p < p /\ a = p * (a \div p) + (a % p)
  BY DivMod
<1> DEFINE Q == a \div p
           R == a % p
<1> HIDE DEF Q, R
<1>2. Q \in Nat /\ R \in Nat /\ R < p /\ a = p * Q + R
  BY <1>1 DEF Q, R
<1>3. Q = q
  <2>1. CASE Q + 1 <= q
    <3>1. p * (Q + 1) <= p * q
      BY <1>2, <2>1, ProductGrows
    <3>2. p * (Q + 1) = p * Q + p
      BY <1>2, ProductNext
    <3> QED BY <1>2, <3>1, <3>2
  <2>2. CASE q + 1 <= Q
    <3>1. p * (q + 1) <= p * Q
      BY <1>2, <2>2, ProductGrows
    <3>2. p * (q + 1) = p * q + p
      BY <1>2, ProductNext
    <3> QED BY <1>2, <3>1, <3>2
  <2> QED BY <1>2, <2>1, <2>2
<1> QED BY <1>2, <1>3 DEF Q, R

LEMMA Halve ==
  ASSUME NEW q \in Nat
  PROVE  q \div 2 \in Nat /\ q % 2 \in {0, 1} /\ q = 2 * (q \div 2) + (q % 2)
<1>1. q \div 2 \in Nat /\ q % 2 \in Nat /\ q % 2 < 2 /\ q = 2 * (q \div 2) + (q % 2)
  BY DivMod
<1> QED BY <1>1

LEMMA ModDouble ==
  ASSUME NEW v \in Nat, NEW p \in Nat \ {0}
  PROVE  v % (2 * p) = IF (v \div p) % 2 = 1 THEN (v % p) + p ELSE v % p
<1> DEFINE Q == v \div p
           R == v % p
           H == Q \div 2
           B == Q % 2
<1>1. Q \in Nat /\ R \in Nat /\ R < p /\ v = p * Q + R
  BY DivMod
<1> HIDE DEF Q, R
<1>2. H \in Nat /\ B \in {0, 1} /\ Q = 2 * H + B
  BY <1>1, Halve
<1> HIDE DEF H, B
<1>3. p * Q = p * (2 * H) + p * B
  BY <1>2, ProductNext
<1>4. p * (2 * H) = (2 * p) * H
  BY <1>2
<1>5. p * B = IF B = 1 THEN p ELSE 0
  BY <1>2
<1> DEFINE S == IF B = 1 THEN R + p ELSE R
<1>6. S \in Nat /\ S < 2 * p
  BY <1>1, <1>2
<1>7. v = (2 * p) * H + S
  <2> DEFINE X == (2 * p) * H
  <2>1. X \in Int
    BY <1>2
  <2>2. p * Q = X + p * B
    BY <1>3, <1>4
  <2> HIDE DEF X
  <2>3. v = X + S
    <3> DEFINE Y == p * Q
               Z == p * B
    <3>1. Y = X + Z /\ v = Y + R /\ Z = IF B = 1 THEN p ELSE 0
      BY <1>1, <1>5, <2>2
    <3> HIDE DEF Y, Z
    <3> QED BY <1>1, <1>2, <2>1, <3>1
  <2> QED BY <2>3 DEF X
<1>8. v % (2 * p) = S
  <2> HIDE DEF S
  <2>1. 2 * p \in Nat \ {0}
    OBVIOUS
  <2> QED BY <1>2, <1>6, <1>7, <2>1, DivUnique
<1> QED BY <1>8 DEF Q, R, B, Q, S

LEMMA Pow2Is ==
  /\ Pow2 \in [Nat -> Nat \ {0}] /\ Pow2[0] = 1
  /\ \A k \in Nat : Pow2[k + 1] = 2 * Pow2[k]
<1> DEFINE D == Nat \ {0}
           F == [p \in Nat \X D |-> 2 * p[2]]
           Good(g, n) == g \in [0 .. n -> D] /\ Recurs(g, n, 1, F)
           P == [n \in Nat |-> (CHOOSE g : Good(g, n))[n]]
<1>1. ASSUME NEW n \in Nat PROVE \E g : Good(g, n)
  <2>1. 1 \in D /\ F \in [Nat \X D -> D]
    <3>1. ASSUME NEW p \in Nat \X D PROVE 2 * p[2] \in D
      OBVIOUS
    <3> QED BY <3>1
  <2> HIDE DEF F, D
  <2>2. \E g \in [0 .. n -> D] : Recurs(g, n, 1, F)
    BY <2>1, Recursion
  <2> QED BY <2>2
<1>2. ASSUME NEW n \in Nat, NEW g, Good(g, n)
      PROVE  g[0] = 1 /\ \A k \in 1 .. n : g[k] = 2 * g[k - 1] /\ g[k - 1] \in D
  <2>1. /\ g \in [0 .. n -> D]
        /\ g = [k \in 0 .. n |-> IF k = 0 THEN 1 ELSE F[<<k, g[k - 1]>>]]
    BY <1>2 DEF Recurs
  <2>2. g[0] = 1
    BY <2>1
  <2>3. ASSUME NEW k \in 1 .. n PROVE g[k] = 2 * g[k - 1] /\ g[k - 1] \in D
    <3>1. k \in 0 .. n /\ k # 0 /\ k - 1 \in 0 .. n /\ k \in Nat
      OBVIOUS
    <3>2. g[k - 1] \in D
      BY <2>1, <3>1
    <3>3. g[k] = F[<<k, g[k - 1]>>]
      <4> HIDE DEF F
      <4> QED BY <2>1, <3>1
    <3> QED BY <3>1, <3>2, <3>3
  <2> QED BY <2>2, <2>3
<1>3. ASSUME NEW n \in Nat, NEW m \in Nat, m <= n, NEW g, Good(g, n), NEW h, Good(h, m)
      PROVE  g[m] = h[m]
  <2>1. ContinueAlike(g, h, m)
    <3>1. g[0] = h[0]
      BY <1>2, <1>3
    <3>2. ASSUME NEW k \in 1 .. m, g[k - 1] = h[k - 1] PROVE g[k] = h[k]
      <4>1. k \in 1 .. n
        BY <1>3
      <4>2. g[k] = 2 * g[k - 1]
        BY <1>2, <1>3, <4>1
      <4>3. h[k] = 2 * h[k - 1]
        BY <1>2, <1>3
      <4> QED BY <3>2, <4>2, <4>3
    <3> QED BY <3>1, <3>2 DEF ContinueAlike
  <2>2. m \in 0 .. m
    OBVIOUS
  <2> QED BY <2>1, <2>2, SameRecursion
<1> DEFINE Q == [n \in Nat |-> IF n = 0 THEN 1 ELSE 2 * P[n - 1]]
<1>4. ASSUME NEW n \in Nat PROVE P[n] = Q[n] /\ P[n] \in D
  <2> DEFINE g == CHOOSE g : Good(g, n)
  <2>1. Good(g, n)
    BY <1>1
  <2>2. P[n] = g[n]
    OBVIOUS
  <2> HIDE DEF g
  <2>3. g[n] \in D
    BY <2>1
  <2>4. CASE n = 0
    <3>1. g[0] = 1
      <4> HIDE DEF Good
      <4> QED BY <1>2, <2>1
    <3>2. Q[n] = 1
      <4> HIDE DEF P
      <4> QED BY <2>4
    <3> HIDE DEF P, Q
    <3> QED BY <2>2, <2>4, <3>1, <3>2
  <2>5. CASE n # 0
    <3> DEFINE h == CHOOSE h : Good(h, n - 1)
    <3>1. n - 1 \in Nat /\ n - 1 <= n /\ n \in 1 .. n
      BY <2>5
    <3>2. Good(h, n - 1) /\ P[n - 1] = h[n - 1]
      BY <1>1, <3>1
    <3> HIDE DEF h, P
    <3>3. g[n - 1] = h[n - 1] /\ g[n] = 2 * g[n - 1]
      <4> HIDE DEF Good
      <4> QED BY <1>2, <1>3, <2>1, <3>1, <3>2
    <3> QED BY <2>2, <2>3, <2>5, <3>2, <3>3
  <2> QED BY <2>2, <2>3, <2>4, <2>5
<1>5. P = Q
  <2> HIDE DEF P, Q
  <2>1. P = [n \in Nat |-> P[n]] /\ Q = [n \in Nat |-> Q[n]]
    BY DEF P, Q
  <2> QED BY <1>4, <2>1
<1>6. Pow2 = [n \in Nat |-> IF n = 0 THEN 1 ELSE 2 * Pow2[n - 1]]
  <2> HIDE DEF P
  <2> QED BY <1>5 DEF Pow2
<1>7. /\ Pow2[0] = 1 /\ \A k \in Nat : Pow2[k + 1] = 2 * Pow2[k]
  <2>1. ASSUME NEW k \in Nat PROVE Pow2[k + 1] = 2 * Pow2[k]
    <3>1. k + 1 \in Nat /\ k + 1 # 0 /\ (k + 1) - 1 = k
      OBVIOUS
    <3> QED BY <1>6, <3>1
  <2>2. Pow2[0] = 1
    BY <1>6
  <2> QED BY <2>1, <2>2
<1>8. ASSUME NEW k \in Nat PROVE Pow2[k] \in D
  <2> DEFINE M == {m \in Nat : Pow2[m] \in D}
  <2>1. 0 \in M
    BY <1>7
  <2>2. \A m \in Nat : m \in M => m + 1 \in M
    BY <1>7
  <2> HIDE DEF M
  <2>3. k \in M
    BY <2>1, <2>2, InductionAt
  <2> QED BY <2>3 DEF M
<1>9. Pow2 \in [Nat -> Nat \ {0}]
  BY <1>6, <1>8
<1> QED BY <1>7, <1>9

LEMMA Pow2Before ==
  ASSUME NEW k \in Nat, k # 0
  PROVE  Pow2[k] = 2 * Pow2[k - 1] /\ Pow2[k - 1] \in Nat \ {0} /\ Pow2[k] \in Nat \ {0}
<1>1. k - 1 \in Nat /\ (k - 1) + 1 = k
  OBVIOUS
<1> QED BY <1>1, Pow2Is

(* What a number's bits make so far. *)
LowParts(b, n, low) ==
  /\ low \in [0 .. n -> Nat] /\ low[0] = 0
  /\ \A k \in 1 .. n : low[k] = IF b[k] = 1 THEN low[k - 1] + Pow2[k - 1] ELSE low[k - 1]

LEMMA NumeralIs ==
  ASSUME NEW n \in Nat, NEW b, Len(b) = n
  PROVE  \E low : LowParts(b, n, low) /\ Numeral(b) = low[n]
<1> DEFINE F == [p \in Nat \X Nat |->
                   IF p[1] \in 1 .. n /\ b[p[1]] = 1 THEN p[2] + Pow2[p[1] - 1] ELSE p[2]]
           Step(f) == [k \in 0 .. Len(b) |-> IF k = 0 THEN 0
                         ELSE IF b[k] = 1 THEN f[k - 1] + Pow2[k - 1] ELSE f[k - 1]]
<1>1. F \in [Nat \X Nat -> Nat]
  <2>1. ASSUME NEW p \in Nat \X Nat
        PROVE  (IF p[1] \in 1 .. n /\ b[p[1]] = 1 THEN p[2] + Pow2[p[1] - 1] ELSE p[2]) \in Nat
    <3>1. p[2] \in Nat
      OBVIOUS
    <3>2. p[1] \in 1 .. n => p[1] - 1 \in Nat
      OBVIOUS
    <3>3. p[1] \in 1 .. n => Pow2[p[1] - 1] \in Nat
      BY <3>2, Pow2Is
    <3> QED BY <3>1, <3>3
  <2> QED BY <2>1
<1>2. PICK g \in [0 .. n -> Nat] : Recurs(g, n, 0, F)
  <2> HIDE DEF F
  <2>1. 0 \in Nat
    OBVIOUS
  <2> QED BY <1>1, <2>1, Recursion
<1>3. g = Step(g)
  <2>1. ASSUME NEW k \in 1 .. n
        PROVE  F[<<k, g[k - 1]>>] = IF b[k] = 1 THEN g[k - 1] + Pow2[k - 1] ELSE g[k - 1]
    <3>1. k - 1 \in 0 .. n /\ k \in Nat
      OBVIOUS
    <3>2. g[k - 1] \in Nat
      BY <3>1
    <3> QED BY <3>1, <3>2
  <2>2. g = [k \in 0 .. n |-> IF k = 0 THEN 0 ELSE F[<<k, g[k - 1]>>]]
    BY <1>2 DEF Recurs
  <2> HIDE DEF F
  <2>3. \A k \in 0 .. n : k # 0 => k \in 1 .. n
    OBVIOUS
  <2> QED BY <2>1, <2>2, <2>3
<1> DEFINE f == CHOOSE f : f = Step(f)
<1>4. f = Step(f)
  <2> HIDE DEF Step
  <2> QED BY <1>3
<1>5. Numeral(b) = f[n]
  BY DEF Numeral
<1> HIDE DEF f
<1>6. f[0] = 0 /\ \A k \in 1 .. n : f[k] = IF b[k] = 1 THEN f[k - 1] + Pow2[k - 1] ELSE f[k - 1]
  <2>1. \A k \in 1 .. n : k \in 0 .. n /\ k # 0
    OBVIOUS
  <2>2. 0 \in 0 .. n
    OBVIOUS
  <2> QED BY <1>4, <2>1, <2>2
<1>7. g[0] = 0 /\ \A k \in 1 .. n : g[k] = IF b[k] = 1 THEN g[k - 1] + Pow2[k - 1] ELSE g[k - 1]
  <2>1. \A k \in 1 .. n : k \in 0 .. n /\ k # 0
    OBVIOUS
  <2>2. 0 \in 0 .. n
    OBVIOUS
  <2> QED BY <1>3, <2>1, <2>2
<1>8. f[n] = g[n]
  <2>1. ContinueAlike(f, g, n)
    BY <1>6, <1>7 DEF ContinueAlike
  <2>2. n \in 0 .. n
    OBVIOUS
  <2> QED BY <2>1, <2>2, SameRecursion
<1> QED BY <1>5, <1>7, <1>8 DEF LowParts

LEMMA LowBounded ==
  ASSUME NEW n \in Nat, NEW b, NEW low, LowParts(b, n, low)
  PROVE  \A k \in 0 .. n : low[k] \in Nat /\ low[k] < Pow2[k]
<1> DEFINE M == {m \in Nat : m <= n => low[m] \in Nat /\ low[m] < Pow2[m]}
<1>1. 0 \in M
  BY Pow2Is DEF LowParts
<1>2. ASSUME NEW m \in Nat, m \in M PROVE m + 1 \in M
  <2> SUFFICES ASSUME m + 1 <= n PROVE low[m + 1] \in Nat /\ low[m + 1] < Pow2[m + 1]
    OBVIOUS
  <2>1. m + 1 \in 1 .. n /\ (m + 1) - 1 = m /\ low[m] \in Nat /\ low[m] < Pow2[m]
    BY <1>2
  <2>2. low[m + 1] = IF b[m + 1] = 1 THEN low[m] + Pow2[m] ELSE low[m]
    BY <2>1 DEF LowParts
  <2>3. Pow2[m] \in Nat \ {0} /\ Pow2[m + 1] = 2 * Pow2[m]
    BY Pow2Is
  <2> QED BY <2>1, <2>2, <2>3
<1>3. ASSUME NEW m \in Nat PROVE m \in M
  <2> HIDE DEF M
  <2> QED BY <1>1, <1>2, InductionAt
<1> QED BY <1>3

LEMMA NumeralBounded ==
  ASSUME NEW n \in Nat, NEW b, Len(b) = n
  PROVE  Numeral(b) \in Nat /\ Numeral(b) < Pow2[n]
<1>1. PICK low : LowParts(b, n, low) /\ Numeral(b) = low[n]
  BY NumeralIs
<1>2. n \in 0 .. n
  OBVIOUS
<1> QED BY <1>1, <1>2, LowBounded

LEMMA NumeralInjective ==
  ASSUME NEW n \in Nat, NEW b \in [1 .. n -> {0, 1}], NEW c \in [1 .. n -> {0, 1}], Numeral(b) = Numeral(c)
  PROVE  b = c
<1>0. Len(b) = n /\ Len(c) = n
  BY ListIs
<1>1. PICK low : LowParts(b, n, low) /\ Numeral(b) = low[n]
  BY <1>0, NumeralIs
<1>2. PICK lov : LowParts(c, n, lov) /\ Numeral(c) = lov[n]
  BY <1>0, NumeralIs
<1> DEFINE M == {m \in Nat : m <= n /\ low[m] = lov[m] => \A k \in 1 .. m : b[k] = c[k]}
<1>3. 0 \in M
  OBVIOUS
<1>4. ASSUME NEW m \in Nat, m \in M PROVE m + 1 \in M
  <2> SUFFICES ASSUME m + 1 <= n, low[m + 1] = lov[m + 1] PROVE \A k \in 1 .. m + 1 : b[k] = c[k]
    OBVIOUS
  <2>1. m + 1 \in 1 .. n /\ (m + 1) - 1 = m /\ m \in 0 .. n /\ m <= n
    OBVIOUS
  <2>2. low[m + 1] = IF b[m + 1] = 1 THEN low[m] + Pow2[m] ELSE low[m]
    BY <1>1, <2>1 DEF LowParts
  <2>3. lov[m + 1] = IF c[m + 1] = 1 THEN lov[m] + Pow2[m] ELSE lov[m]
    BY <1>2, <2>1 DEF LowParts
  <2>4. low[m] \in Nat /\ low[m] < Pow2[m] /\ lov[m] \in Nat /\ lov[m] < Pow2[m] /\ Pow2[m] \in Nat
    BY <1>1, <1>2, <2>1, LowBounded, Pow2Is
  <2>5. b[m + 1] \in {0, 1} /\ c[m + 1] \in {0, 1}
    BY <2>1
  <2>6. b[m + 1] = c[m + 1] /\ low[m] = lov[m]
    <3> DEFINE x == low[m]
               y == lov[m]
               p == Pow2[m]
               u == b[m + 1]
               v == c[m + 1]
    <3>1. /\ x \in Nat /\ x < p /\ y \in Nat /\ y < p /\ p \in Nat /\ u \in {0, 1} /\ v \in {0, 1}
          /\ (IF u = 1 THEN x + p ELSE x) = IF v = 1 THEN y + p ELSE y
      BY <1>4, <2>2, <2>3, <2>4, <2>5
    <3> HIDE DEF x, y, p, u, v
    <3>2. u = v /\ x = y
      BY <3>1
    <3> QED BY <3>2 DEF x, y, u, v
  <2>7. \A k \in 1 .. m : b[k] = c[k]
    BY <1>4, <2>1, <2>6
  <2>8. \A k \in 1 .. m + 1 : k \in 1 .. m \/ k = m + 1
    OBVIOUS
  <2> QED BY <2>6, <2>7, <2>8
<1>5. n \in M
  <2> HIDE DEF M
  <2> QED BY <1>3, <1>4, InductionAt
<1>6. \A k \in 1 .. n : b[k] = c[k]
  <2>0. Numeral(b) = low[n] /\ Numeral(c) = lov[n]
    BY <1>1, <1>2
  <2>1. low[n] = lov[n]
    BY <2>0
  <2>2. n <= n
    OBVIOUS
  <2> QED BY <1>5, <2>1, <2>2
<1> QED BY <1>6

LEMMA BitsIs ==
  ASSUME NEW n \in Nat, NEW v \in Nat
  PROVE  /\ Bits(v, n) \in [1 .. n -> {0, 1}] /\ Len(Bits(v, n)) = n /\ Bits(v, n) \in Seq({0, 1})
         /\ \A k \in 1 .. n : Bits(v, n)[k] = (v \div Pow2[k - 1]) % 2
<1>1. ASSUME NEW k \in 1 .. n PROVE (v \div Pow2[k - 1]) % 2 \in {0, 1}
  <2>1. k - 1 \in Nat /\ Pow2[k - 1] \in Nat \ {0}
    BY Pow2Is
  <2>2. v \div Pow2[k - 1] \in Nat
    BY <2>1, DivMod
  <2> QED BY <2>2, Halve
<1>2. Bits(v, n) \in [1 .. n -> {0, 1}]
  BY <1>1 DEF Bits
<1>3. \A k \in 1 .. n : Bits(v, n)[k] = (v \div Pow2[k - 1]) % 2
  BY DEF Bits
<1> HIDE DEF Bits
<1> QED BY <1>2, <1>3, ListIs

(* A value that fits into n bits is the number of its n bits. *)
LEMMA NumeralOfBits ==
  ASSUME NEW n \in Nat, NEW v \in Nat, v < Pow2[n]
  PROVE  Numeral(Bits(v, n)) = v
<1> DEFINE b == Bits(v, n)
<1>1. Len(b) = n /\ \A k \in 1 .. n : b[k] = (v \div Pow2[k - 1]) % 2
  BY BitsIs
<1> HIDE DEF b
<1>2. PICK low : LowParts(b, n, low) /\ Numeral(b) = low[n]
  BY <1>1, NumeralIs
<1> DEFINE M == {m \in Nat : m <= n => low[m] = v % Pow2[m]}
<1>3. 0 \in M
  <2>1. Pow2[0] = 1 /\ v % 1 = 0
    BY Pow2Is
  <2>2. low[0] = 0
    BY <1>2 DEF LowParts
  <2> QED BY <2>1, <2>2
<1>4. ASSUME NEW m \in Nat, m \in M PROVE m + 1 \in M
  <2> SUFFICES ASSUME m + 1 <= n PROVE low[m + 1] = v % Pow2[m + 1]
    OBVIOUS
  <2>1. m + 1 \in 1 .. n /\ (m + 1) - 1 = m /\ low[m] = v % Pow2[m]
    BY <1>4
  <2>2. low[m + 1] = IF b[m + 1] = 1 THEN low[m] + Pow2[m] ELSE low[m]
    BY <1>2, <2>1 DEF LowParts
  <2>3. b[m + 1] = (v \div Pow2[m]) % 2
    BY <1>1, <2>1
  <2>4. Pow2[m] \in Nat \ {0} /\ Pow2[m + 1] = 2 * Pow2[m]
    BY Pow2Is
  <2>5. v % (2 * Pow2[m]) = IF (v \div Pow2[m]) % 2 = 1 THEN (v % Pow2[m]) + Pow2[m] ELSE v % Pow2[m]
    BY <2>4, ModDouble
  <2> QED BY <2>1, <2>2, <2>3, <2>4, <2>5
<1>5. n \in M
  <2> HIDE DEF M
  <2> QED BY <1>3, <1>4, InductionAt
<1>6. low[n] = v % Pow2[n]
  BY <1>5
<1>7. v % Pow2[n] = v
  <2>1. Pow2[n] \in Nat \ {0} /\ v = Pow2[n] * 0 + v
    BY Pow2Is
  <2> QED BY <2>1, DivUnique
<1> QED BY <1>2, <1>6, <1>7 DEF b

(* And n bits are the bits of their number. *)
LEMMA BitsOfNumeral ==
  ASSUME NEW n \in Nat, NEW b \in [1 .. n -> {0, 1}]
  PROVE  Bits(Numeral(b), n) = b
<1>1. Numeral(b) \in Nat /\ Numeral(b) < Pow2[n]
  BY ListIs, NumeralBounded
<1>2. Numeral(Bits(Numeral(b), n)) = Numeral(b) /\ Bits(Numeral(b), n) \in [1 .. n -> {0, 1}]
  BY <1>1, NumeralOfBits, BitsIs
<1> QED BY <1>2, NumeralInjective

LEMMA ValuesAre ==
  ASSUME NEW v
  PROVE  v \in Values <=> v \in Nat /\ v < Pow2[ValueBits]
<1>1. ValueBits \in Nat
  BY CodecAssumption
<1>2. Pow2[ValueBits] \in Nat \ {0}
  BY <1>1, Pow2Is
<1> QED BY <1>2 DEF Values

(* Taking the same base twice gives back the value. *)
LEMMA XorTwice ==
  ASSUME NEW v \in Values, NEW w \in Values
  PROVE  Xor(v, w) \in Values /\ Xor(Xor(v, w), w) = v
<1> DEFINE n == ValueBits
           c == [k \in 1 .. n |-> IF Bits(v, n)[k] = Bits(w, n)[k] THEN 0 ELSE 1]
           d == [k \in 1 .. n |-> IF Bits(Xor(v, w), n)[k] = Bits(w, n)[k] THEN 0 ELSE 1]
<1>1. n \in Nat /\ v \in Nat /\ w \in Nat /\ v < Pow2[n]
  BY CodecAssumption, ValuesAre
<1> HIDE DEF n
<1>2. Bits(v, n) \in [1 .. n -> {0, 1}] /\ Bits(w, n) \in [1 .. n -> {0, 1}]
  BY <1>1, BitsIs
<1>3. c \in [1 .. n -> {0, 1}]
  OBVIOUS
<1>4. Xor(v, w) = Numeral(c)
  BY DEF Xor, n
<1>5. Len(c) = n
  <2> HIDE DEF c
  <2> QED BY <1>1, <1>3, ListIs
<1>6. Xor(v, w) \in Nat /\ Xor(v, w) < Pow2[n] /\ Bits(Xor(v, w), n) = c
  <2> HIDE DEF c
  <2> QED BY <1>1, <1>3, <1>4, <1>5, NumeralBounded, BitsOfNumeral
<1>7. d = Bits(v, n)
  <2>1. ASSUME NEW k \in 1 .. n PROVE d[k] = Bits(v, n)[k]
    <3>1. Bits(v, n)[k] \in {0, 1} /\ Bits(w, n)[k] \in {0, 1}
      BY <1>2
    <3>2. d[k] = IF c[k] = Bits(w, n)[k] THEN 0 ELSE 1
      BY <1>6
    <3>3. c[k] = IF Bits(v, n)[k] = Bits(w, n)[k] THEN 0 ELSE 1
      OBVIOUS
    <3> HIDE DEF c, d
    <3> QED BY <3>1, <3>2, <3>3
  <2>2. d = [k \in 1 .. n |-> d[k]] /\ Bits(v, n) = [k \in 1 .. n |-> Bits(v, n)[k]]
    BY <1>2
  <2> HIDE DEF d
  <2> QED BY <2>1, <2>2
<1>8. Xor(Xor(v, w), w) = Numeral(d)
  BY DEF Xor, n
<1>9. Numeral(Bits(v, n)) = v
  BY <1>1, NumeralOfBits
<1>10. Xor(v, w) \in Values
  BY <1>6, ValuesAre DEF n
<1> QED BY <1>7, <1>8, <1>9, <1>10

LEMMA LeastOf ==
  ASSUME NEW S, S \subseteq Nat, S # {}
  PROVE  Min(S) \in S /\ \A y \in S : Min(S) <= y
<1>1. \E x \in S : \A y \in S : x <= y
  <2> SUFFICES ASSUME \A x \in S : \E y \in S : ~(x <= y) PROVE FALSE
    OBVIOUS
  <2> DEFINE M == {m \in Nat : \A x \in S : m <= x}
  <2>1. 0 \in M
    OBVIOUS
  <2>2. ASSUME NEW m \in Nat, m \in M PROVE m + 1 \in M
    <3>1. ASSUME NEW x \in S PROVE m + 1 <= x
      <4>1. PICK y \in S : ~(x <= y)
        OBVIOUS
      <4>2. m <= y /\ x \in Nat /\ y \in Nat
        BY <2>2
      <4> QED BY <4>1, <4>2
    <3> QED BY <3>1
  <2>3. \A m \in Nat : m \in M
    <3> HIDE DEF M
    <3> QED BY <2>1, <2>2, InductionAt
  <2>4. PICK x \in S : TRUE
    OBVIOUS
  <2>5. x \in Nat /\ x + 1 \in Nat /\ x + 1 <= x
    BY <2>3
  <2> QED BY <2>5
<1> QED BY <1>1 DEF Min

LEMMA MostOf ==
  ASSUME NEW S, NEW n \in Nat, S \subseteq 0 .. n, S # {}
  PROVE  Max(S) \in S /\ \A y \in S : y <= Max(S)
<1> DEFINE R == {n - x : x \in S}
<1>1. R \subseteq Nat /\ R # {}
  <2>1. PICK x \in S : TRUE
    OBVIOUS
  <2>2. n - x \in R
    BY <2>1
  <2>3. \A y \in S : n - y \in Nat
    OBVIOUS
  <2> QED BY <2>2, <2>3
<1>2. Min(R) \in R /\ \A y \in R : Min(R) <= y
  <2> HIDE DEF R
  <2> QED BY <1>1, LeastOf
<1>3. PICK x \in S : Min(R) = n - x
  BY <1>2
<1>4. \A y \in S : x >= y
  <2> SUFFICES ASSUME NEW y \in S PROVE x >= y
    OBVIOUS
  <2>1. n - y \in R
    OBVIOUS
  <2>2. n - x <= n - y
    <3> HIDE DEF R
    <3> QED BY <1>2, <1>3, <2>1
  <2> QED BY <2>2
<1>5. Max(S) \in S /\ \A y \in S : Max(S) >= y
  BY <1>4 DEF Max
<1> QED BY <1>5

(* A value fits into as many bits as its width says, and the width into its field. *)
LEMMA BitWidthIs ==
  ASSUME NEW v \in Values
  PROVE  /\ BitWidth(v) \in Nat /\ v < Pow2[BitWidth(v)] /\ BitWidth(v) < Pow2[WidthBits]
         /\ BitWidth(v) <= ValueBits
<1> DEFINE S == {b \in 0 .. ValueBits : v < Pow2[b]}
<1>1. ValueBits \in Nat /\ WidthBits \in Nat /\ Pow2[WidthBits] > ValueBits /\ Pow2[WidthBits] \in Nat
  BY CodecAssumption, Pow2Is
<1>2. ValueBits \in S /\ S \subseteq Nat
  BY <1>1, ValuesAre
<1>3. Min(S) \in S
  <2> HIDE DEF S
  <2> QED BY <1>2, LeastOf
<1> QED BY <1>1, <1>3 DEF BitWidth

-----------------------------------------------------------------------------
(* Joined and filtered sequences                                           *)

LEMMA SequencesAll ==
  ASSUME NEW T, NEW P, << >> \in P, \A s \in Seq(T) : \A x \in T : s \in P => Append(s, x) \in P
  PROVE  Seq(T) \subseteq P
<1> DEFINE M == {n \in Nat : \A s \in Seq(T) : Len(s) = n => s \in P}
<1>1. 0 \in M
  <2>1. \A s \in Seq(T) : Len(s) = 0 => s = << >>
    OBVIOUS
  <2> QED BY <2>1
<1>2. ASSUME NEW n \in Nat, n \in M PROVE n + 1 \in M
  <2> SUFFICES ASSUME NEW s \in Seq(T), Len(s) = n + 1 PROVE s \in P
    OBVIOUS
  <2> DEFINE q == SubSeq(s, 1, n)
             x == s[n + 1]
  <2>1. q \in Seq(T) /\ Len(q) = n /\ x \in T /\ s = Append(q, x)
    BY LastOff
  <2> HIDE DEF q, x
  <2>2. q \in P
    BY <1>2, <2>1
  <2> QED BY <2>1, <2>2
<1>3. ASSUME NEW n \in Nat PROVE n \in M
  <2> HIDE DEF M
  <2> QED BY <1>1, <1>2, InductionAt
<1>4. ASSUME NEW s \in Seq(T) PROVE s \in P
  <2>1. Len(s) \in Nat
    OBVIOUS
  <2> QED BY <1>3, <2>1
<1> QED BY <1>4

(* Where the parts of a joined sequence begin. *)
Offsets(s, off) ==
  /\ off \in [0 .. Len(s) -> Nat] /\ off[0] = 0
  /\ \A k \in 1 .. Len(s) : off[k] = off[k - 1] + Len(s[k])

JoinOf(all, s, off) ==
  /\ Len(all) = off[Len(s)]
  /\ \A k \in 1 .. Len(s) : off[k] <= Len(all) /\ \A j \in 1 .. Len(s[k]) : all[off[k - 1] + j] = s[k][j]

LEMMA FlattenAt ==
  ASSUME NEW S, NEW s \in Seq(Seq(S))
  PROVE  FlattenSeq(s) \in Seq(S) /\ \E off : Offsets(s, off) /\ JoinOf(FlattenSeq(s), s, off)
<1> DEFINE n == Len(s)
<1>1. PICK g \in [0 .. n -> Seq(S)] : /\ g[0] = << >> /\ \A k \in 1 .. n : g[k] = g[k - 1] \o s[k]
                                      /\ FlattenSeq(s) = g[n]
  BY FlattenIs
<1>2. n \in Nat /\ \A k \in 1 .. n : s[k] \in Seq(S)
  OBVIOUS
<1> DEFINE off == [k \in 0 .. n |-> Len(g[k])]
<1> HIDE DEF n
<1>3. \A k \in 0 .. n : g[k] \in Seq(S) /\ Len(g[k]) \in Nat
  BY <1>1
<1>4. ASSUME NEW k \in 1 .. n
      PROVE  /\ k \in 0 .. n /\ k - 1 \in 0 .. n /\ off[k] = off[k - 1] + Len(s[k]) /\ Len(s[k]) \in Nat
             /\ \A j \in 1 .. off[k - 1] : g[k][j] = g[k - 1][j]
             /\ \A j \in 1 .. Len(s[k]) : g[k][off[k - 1] + j] = s[k][j]
  <2>1. k \in 0 .. n /\ k - 1 \in 0 .. n
    BY <1>2
  <2>2. g[k - 1] \in Seq(S) /\ s[k] \in Seq(S) /\ g[k] = g[k - 1] \o s[k]
    BY <1>1, <1>2, <1>3, <2>1
  <2>3. off[k] = Len(g[k]) /\ off[k - 1] = Len(g[k - 1])
    BY <2>1
  <2> HIDE DEF off
  <2>4. Len(s[k]) \in Nat
    BY <2>2
  <2>5. /\ Len(g[k]) = Len(g[k - 1]) + Len(s[k])
        /\ \A j \in 1 .. Len(g[k - 1]) : g[k][j] = g[k - 1][j]
        /\ \A j \in 1 .. Len(s[k]) : g[k][Len(g[k - 1]) + j] = s[k][j]
    <3> DEFINE a == g[k - 1]
               b == s[k]
               c == g[k]
    <3>1. a \in Seq(S) /\ b \in Seq(S) /\ c = a \o b
      BY <2>2
    <3> HIDE DEF a, b, c
    <3>2. /\ Len(c) = Len(a) + Len(b) /\ \A j \in 1 .. Len(a) : c[j] = a[j]
          /\ \A j \in 1 .. Len(b) : c[Len(a) + j] = b[j]
      BY <3>1, ConcatIs
    <3> QED BY <3>2 DEF a, b, c
  <2> QED BY <2>1, <2>3, <2>4, <2>5
<1>5. Offsets(s, off)
  <2>1. off \in [0 .. n -> Nat] /\ off[0] = 0
    <3>1. 0 \in 0 .. n /\ Len(g[0]) = 0
      BY <1>1, <1>2
    <3> QED BY <1>3, <3>1
  <2> HIDE DEF off
  <2> QED BY <1>4, <2>1 DEF Offsets, n
<1> DEFINE M == {m \in Nat : m <= n => \A k \in 1 .. m : off[k] <= off[m] /\
                               \A j \in 1 .. Len(s[k]) : g[m][off[k - 1] + j] = s[k][j]}
<1>6. 0 \in M
  <2> HIDE DEF off
  <2>1. 1 .. 0 = {}
    OBVIOUS
  <2> QED BY <2>1
<1>7. ASSUME NEW m \in Nat, m \in M PROVE m + 1 \in M
  <2> HIDE DEF off
  <2> SUFFICES ASSUME m + 1 <= n, NEW k \in 1 .. m + 1
               PROVE  off[k] <= off[m + 1] /\ \A j \in 1 .. Len(s[k]) : g[m + 1][off[k - 1] + j] = s[k][j]
    OBVIOUS
  <2>1. m + 1 \in 1 .. n /\ (m + 1) - 1 = m
    BY <1>2
  <2>2. /\ off[m + 1] = off[m] + Len(s[m + 1]) /\ Len(s[m + 1]) \in Nat /\ m \in 0 .. n /\ m + 1 \in 0 .. n
        /\ \A j \in 1 .. off[m] : g[m + 1][j] = g[m][j]
        /\ \A j \in 1 .. Len(s[m + 1]) : g[m + 1][off[m] + j] = s[m + 1][j]
    BY <1>4, <2>1
  <2>3. off[m] \in Nat /\ off[m + 1] \in Nat
    BY <1>2, <1>3, <2>2 DEF off
  <2>4. CASE k = m + 1
    BY <2>1, <2>2, <2>3, <2>4
  <2>5. CASE k # m + 1
    <3>1. k \in 1 .. m /\ k \in 1 .. n
      BY <1>2, <2>1, <2>5
    <3>2. off[k] <= off[m] /\ \A j \in 1 .. Len(s[k]) : g[m][off[k - 1] + j] = s[k][j]
      <4>1. m <= n
        BY <1>2
      <4> QED BY <1>7, <3>1, <4>1
    <3>3. off[k] = off[k - 1] + Len(s[k]) /\ Len(s[k]) \in Nat /\ k - 1 \in 0 .. n /\ k \in 0 .. n
      BY <1>4, <3>1
    <3>4. off[k - 1] \in Nat /\ off[k] \in Nat
      BY <1>3, <3>3 DEF off
    <3>5. ASSUME NEW j \in 1 .. Len(s[k]) PROVE g[m + 1][off[k - 1] + j] = s[k][j]
      <4>1. off[k - 1] + j \in 1 .. off[m]
        <5> DEFINE u == off[k - 1]
                   v == off[k]
                   w == off[m]
                   l == Len(s[k])
        <5>1. v <= w /\ v = u + l /\ l \in Nat /\ j \in 1 .. l /\ u \in Nat /\ w \in Nat
          BY <2>3, <3>2, <3>3, <3>4
        <5> HIDE DEF u, v, w, l
        <5>2. u + j \in 1 .. w
          BY <5>1
        <5> QED BY <5>2 DEF u, w
      <4> QED BY <2>2, <3>2, <4>1
    <3> QED BY <2>2, <2>3, <3>2, <3>4, <3>5
  <2> QED BY <2>4, <2>5
<1>8. n \in M
  <2> HIDE DEF M
  <2> QED BY <1>2, <1>6, <1>7, InductionAt
<1>9. off[n] = Len(g[n]) /\ g[n] \in Seq(S)
  BY <1>2, <1>3
<1>10. JoinOf(g[n], s, off)
  <2> HIDE DEF off
  <2>1. \A k \in 1 .. n : off[k] <= off[n] /\ \A j \in 1 .. Len(s[k]) : g[n][off[k - 1] + j] = s[k][j]
    BY <1>8
  <2> QED BY <1>9, <2>1 DEF JoinOf, n
<1> HIDE DEF off
<1> QED BY <1>1, <1>5, <1>9, <1>10

LEMMA KeepAppend ==
  ASSUME NEW T, NEW S, NEW s \in Seq(T), NEW x \in T
  PROVE  /\ Keep(s, S) \in Seq(T) /\ Keep(<< >>, S) = << >>
         /\ Keep(Append(s, x), S) = IF x \in S THEN Append(Keep(s, S), x) ELSE Keep(s, S)
<1> DEFINE Step(r, f) == [k \in 0 .. Len(r) |-> IF k = 0 THEN << >>
                            ELSE IF r[k] \in S THEN Append(f[k - 1], r[k]) ELSE f[k - 1]]
           Kept(r, g) == /\ g \in [0 .. Len(r) -> Seq(T)] /\ g[0] = << >>
                         /\ \A k \in 1 .. Len(r) : g[k] = IF r[k] \in S THEN Append(g[k - 1], r[k]) ELSE g[k - 1]
<1>1. ASSUME NEW r \in Seq(T) PROVE \E g : Kept(r, g) /\ Keep(r, S) = g[Len(r)]
  <2> DEFINE n == Len(r)
             D == Seq(T)
             F == [p \in Nat \X D |-> IF p[1] \in 1 .. n /\ r[p[1]] \in S THEN Append(p[2], r[p[1]]) ELSE p[2]]
  <2>0. n \in Nat /\ << >> \in D /\ \A k \in 1 .. n : r[k] \in T
    OBVIOUS
  <2>1. F \in [Nat \X D -> D]
    <3>1. ASSUME NEW p \in Nat \X D
          PROVE  (IF p[1] \in 1 .. n /\ r[p[1]] \in S THEN Append(p[2], r[p[1]]) ELSE p[2]) \in D
      <4>1. p[2] \in Seq(T)
        OBVIOUS
      <4> HIDE DEF n
      <4> QED BY <2>0, <4>1, AppendIs
    <3> HIDE DEF n, D
    <3> QED BY <3>1
  <2>2. PICK g \in [0 .. n -> D] : Recurs(g, n, << >>, F)
    <3> HIDE DEF F, D, n
    <3>1. n \in Nat /\ << >> \in D
      BY <2>0
    <3> QED BY <2>1, <3>1, Recursion
  <2> HIDE DEF n
  <2>3. g[0] = << >> /\ \A k \in 1 .. n : g[k] = IF r[k] \in S THEN Append(g[k - 1], r[k]) ELSE g[k - 1]
    <3>1. g = [k \in 0 .. n |-> IF k = 0 THEN << >> ELSE F[<<k, g[k - 1]>>]]
      BY <2>2 DEF Recurs
    <3>2. g[0] = << >>
      <4> HIDE DEF F, D
      <4> QED BY <2>0, <3>1
    <3>3. ASSUME NEW k \in 1 .. n PROVE g[k] = IF r[k] \in S THEN Append(g[k - 1], r[k]) ELSE g[k - 1]
      <4>1. k \in 0 .. n /\ k # 0 /\ k - 1 \in 0 .. n /\ k \in Nat
        BY <2>0
      <4>2. g[k - 1] \in D /\ g[k] = F[<<k, g[k - 1]>>]
        <5> HIDE DEF F, D
        <5> QED BY <2>2, <3>1, <4>1
      <4> HIDE DEF D
      <4> QED BY <4>1, <4>2
    <3> QED BY <3>2, <3>3
  <2> DEFINE f == CHOOSE f : f = Step(r, f)
  <2>4. g = Step(r, g)
    <3>1. g = [k \in 0 .. n |-> g[k]]
      OBVIOUS
    <3>2. \A k \in 0 .. n : k # 0 => k \in 1 .. n
      BY <2>0
    <3> HIDE DEF F
    <3> QED BY <2>3, <3>1, <3>2 DEF n
  <2>5. f = Step(r, f)
    <3> HIDE DEF Step
    <3> QED BY <2>4
  <2>6. Keep(r, S) = f[n]
    BY DEF Keep, n
  <2> HIDE DEF f
  <2>7. ContinueAlike(f, g, n)
    <3>1. \A k \in 1 .. n : k \in 0 .. n /\ k # 0
      BY <2>0
    <3>2. f[0] = << >>
      BY <2>0, <2>5 DEF n
    <3>3. \A k \in 1 .. n : f[k] = IF r[k] \in S THEN Append(f[k - 1], r[k]) ELSE f[k - 1]
      BY <2>5, <3>1 DEF n
    <3> HIDE DEF F, D
    <3> QED BY <2>3, <3>2, <3>3 DEF ContinueAlike
  <2>8. f[n] = g[n]
    <3>1. n \in 0 .. n /\ n \in Nat
      BY <2>0
    <3> HIDE DEF F, D
    <3> QED BY <2>7, <3>1, SameRecursion
  <2> HIDE DEF F
  <2> QED BY <2>2, <2>3, <2>6, <2>8 DEF n
<1> DEFINE t == Append(s, x)
           n == Len(s)
<1>2. n \in Nat /\ t \in Seq(T) /\ Len(t) = n + 1 /\ t[n + 1] = x /\ \A k \in 1 .. n : t[k] = s[k]
  OBVIOUS
<1> HIDE DEF t
<1>3. PICK g : Kept(s, g) /\ Keep(s, S) = g[n]
  BY <1>1
<1>4. PICK h : Kept(t, h) /\ Keep(t, S) = h[n + 1]
  BY <1>1, <1>2
<1>5. h[n] = g[n]
  <2> HIDE DEF n
  <2>1. ContinueAlike(h, g, n)
    <3>1. h[0] = g[0]
      BY <1>3, <1>4
    <3>2. ASSUME NEW k \in 1 .. n, h[k - 1] = g[k - 1] PROVE h[k] = g[k]
      <4>1. k \in 1 .. n + 1 /\ t[k] = s[k]
        BY <1>2
      <4>2. h[k] = IF t[k] \in S THEN Append(h[k - 1], t[k]) ELSE h[k - 1]
        BY <1>2, <1>4, <4>1
      <4>3. g[k] = IF s[k] \in S THEN Append(g[k - 1], s[k]) ELSE g[k - 1]
        BY <1>3 DEF n
      <4> QED BY <3>2, <4>1, <4>2, <4>3
    <3> QED BY <3>1, <3>2 DEF ContinueAlike
  <2>2. n \in Nat /\ n \in 0 .. n
    BY <1>2
  <2> QED BY <2>1, <2>2, SameRecursion
<1>6. h[n + 1] = IF x \in S THEN Append(g[n], x) ELSE g[n]
  <2>1. n + 1 \in 1 .. n + 1 /\ (n + 1) - 1 = n
    BY <1>2
  <2>2. h[n + 1] = IF t[n + 1] \in S THEN Append(h[n], t[n + 1]) ELSE h[n]
    <3> HIDE DEF n
    <3> QED BY <1>2, <1>4, <2>1
  <2> HIDE DEF n
  <2> QED BY <1>2, <1>5, <2>2
<1>7. g[n] \in Seq(T)
  <2>1. n \in 0 .. n
    BY <1>2
  <2> QED BY <1>3, <2>1
<1>8. Keep(<< >>, S) = << >>
  <2>1. << >> \in Seq(T) /\ Len(<< >>) = 0
    OBVIOUS
  <2>2. PICK e : Kept(<< >>, e) /\ Keep(<< >>, S) = e[0]
    BY <1>1, <2>1
  <2> QED BY <2>2
<1> QED BY <1>3, <1>4, <1>6, <1>7, <1>8 DEF t

LEMMA KeepNothing == ASSUME NEW S PROVE Keep(<< >>, S) = << >>
<1>1. << >> \in Seq({1}) /\ 1 \in {1}
  OBVIOUS
<1> QED BY <1>1, KeepAppend

(* What is kept are the members of the set, in their order. *)
Picks(h, s, S) ==
  /\ h \in [1 .. Len(Keep(s, S)) -> 1 .. Len(s)]
  /\ \A i, j \in 1 .. Len(Keep(s, S)) : i < j => h[i] < h[j]
  /\ \A k \in 1 .. Len(Keep(s, S)) : Keep(s, S)[k] = s[h[k]] /\ s[h[k]] \in S
  /\ \A i \in 1 .. Len(s) : s[i] \in S => \E k \in 1 .. Len(Keep(s, S)) : h[k] = i

LEMMA KeepPicks ==
  ASSUME NEW T, NEW S, NEW s \in Seq(T)
  PROVE  \E h : Picks(h, s, S)
<1> DEFINE Picked(r, q, h) ==
             /\ h \in [1 .. Len(q) -> 1 .. Len(r)]
             /\ \A i, j \in 1 .. Len(q) : i < j => h[i] < h[j]
             /\ \A k \in 1 .. Len(q) : q[k] = r[h[k]] /\ r[h[k]] \in S
             /\ \A i \in 1 .. Len(r) : r[i] \in S => \E k \in 1 .. Len(q) : h[k] = i
           P == {r \in Seq(T) : \E h : Picked(r, Keep(r, S), h)}
<1>1. << >> \in P
  <2> DEFINE h == [k \in 1 .. 0 |-> 0]
  <2>1. Len(<< >>) = 0 /\ << >> \in Seq(T) /\ 1 .. 0 = {}
    OBVIOUS
  <2>2. h \in [1 .. 0 -> 1 .. 0]
    BY <2>1
  <2> HIDE DEF h
  <2>3. Picked(<< >>, << >>, h)
    BY <2>1, <2>2
  <2> HIDE DEF Picked
  <2>4. Keep(<< >>, S) = << >>
    BY KeepNothing
  <2> QED BY <2>1, <2>3, <2>4
<1>2. ASSUME NEW r \in Seq(T), NEW x \in T, r \in P PROVE Append(r, x) \in P
  <2> DEFINE q == Keep(r, S)
             t == Append(r, x)
             n == Len(r)
             m == Len(q)
  <2>1. PICK h : Picked(r, q, h)
    BY <1>2
  <2>2. q \in Seq(T) /\ Keep(t, S) = IF x \in S THEN Append(q, x) ELSE q
    BY KeepAppend
  <2>3. t \in Seq(T) /\ Len(t) = n + 1 /\ t[n + 1] = x /\ \A k \in 1 .. n : t[k] = r[k]
    BY AppendIs
  <2> HIDE DEF q, t
  <2>4. m \in Nat /\ n \in Nat
    BY <2>2
  <2>5. CASE x \notin S
    <3>1. Picked(t, q, h)
      <4>1. h \in [1 .. m -> 1 .. n + 1]
        BY <2>1, <2>4
      <4>2. \A k \in 1 .. m : h[k] \in 1 .. n /\ q[k] = t[h[k]] /\ t[h[k]] \in S
        BY <2>1, <2>3
      <4>3. ASSUME NEW i \in 1 .. n + 1, t[i] \in S PROVE \E k \in 1 .. m : h[k] = i
        <5>1. i # n + 1
          BY <2>3, <2>5, <4>3
        <5>2. i \in 1 .. n /\ r[i] \in S
          BY <2>3, <2>4, <4>3, <5>1
        <5> QED BY <2>1, <5>2
      <4> HIDE DEF n, m
      <4> QED BY <2>1, <2>3, <4>1, <4>2, <4>3 DEF m, n
    <3> HIDE DEF Picked
    <3>2. Keep(t, S) = q
      BY <2>2, <2>5
    <3> QED BY <2>3, <3>1, <3>2 DEF t
  <2>6. CASE x \in S
    <3> DEFINE a == Append(q, x)
               g == [k \in 1 .. m + 1 |-> IF k = m + 1 THEN n + 1 ELSE h[k]]
    <3>1. Len(a) = m + 1 /\ a[m + 1] = x /\ \A k \in 1 .. m : a[k] = q[k]
      BY <2>2, AppendIs
    <3> HIDE DEF a
    <3>2. g \in [1 .. m + 1 -> 1 .. n + 1]
      <4>1. \A k \in 1 .. m + 1 : k # m + 1 => k \in 1 .. m
        BY <2>4
      <4>2. \A k \in 1 .. m : h[k] \in 1 .. n
        BY <2>1
      <4> HIDE DEF n, m
      <4> QED BY <2>4, <4>1, <4>2
    <3>3. g[m + 1] = n + 1 /\ m + 1 \in 1 .. m + 1 /\ \A k \in 1 .. m : g[k] = h[k] /\ h[k] \in 1 .. n
      <4>1. m + 1 \in 1 .. m + 1 /\ \A k \in 1 .. m : k \in 1 .. m + 1 /\ k # m + 1
        BY <2>4
      <4>2. \A k \in 1 .. m : h[k] \in 1 .. n
        BY <2>1
      <4> HIDE DEF n, m
      <4> QED BY <4>1, <4>2
    <3> HIDE DEF g, n, m
    <3>4. \A k \in 1 .. m + 1 : k \in 1 .. m \/ k = m + 1
      BY <2>4
    <3>5. ASSUME NEW i \in 1 .. m + 1, NEW j \in 1 .. m + 1, i < j PROVE g[i] < g[j]
      <4>1. i \in 1 .. m
        BY <2>4, <3>5
      <4>2. CASE j \in 1 .. m
        BY <2>1, <3>3, <3>5, <4>1, <4>2 DEF m
      <4>3. CASE j = m + 1
        BY <2>4, <3>3, <4>1, <4>3
      <4> QED BY <3>4, <4>2, <4>3
    <3>6. ASSUME NEW k \in 1 .. m + 1 PROVE a[k] = t[g[k]] /\ t[g[k]] \in S
      <4>1. CASE k = m + 1
        BY <2>3, <2>6, <3>1, <3>3, <4>1 DEF n
      <4>2. CASE k \in 1 .. m
        <5>1. q[k] = r[h[k]] /\ r[h[k]] \in S
          BY <2>1, <4>2 DEF m
        <5>2. t[h[k]] = r[h[k]]
          BY <2>3, <3>3, <4>2 DEF n
        <5> QED BY <3>1, <3>3, <4>2, <5>1, <5>2
      <4> QED BY <3>4, <4>1, <4>2
    <3>7. ASSUME NEW i \in 1 .. n + 1, t[i] \in S PROVE \E k \in 1 .. m + 1 : g[k] = i
      <4>1. CASE i = n + 1
        BY <3>3, <4>1
      <4>2. CASE i # n + 1
        <5>1. i \in 1 .. n
          BY <2>4, <4>2
        <5>2. r[i] \in S
          BY <2>3, <3>7, <5>1 DEF n
        <5>3. PICK k \in 1 .. m : h[k] = i
          BY <2>1, <5>1, <5>2 DEF m, n
        <5>4. k \in 1 .. m + 1
          BY <2>4
        <5> QED BY <3>3, <5>3, <5>4
      <4> QED BY <4>1, <4>2
    <3>8. Picked(t, a, g)
      BY <2>3, <3>1, <3>2, <3>5, <3>6, <3>7 DEF n
    <3> HIDE DEF Picked
    <3>9. Keep(t, S) = a
      BY <2>2, <2>6 DEF a
    <3> QED BY <2>3, <3>8, <3>9 DEF t
  <2> HIDE DEF P
  <2> QED BY <2>5, <2>6 DEF t
<1>3. Seq(T) \subseteq P
  <2> HIDE DEF P
  <2> QED BY <1>1, <1>2, SequencesAll
<1>4. PICK h : Picked(s, Keep(s, S), h)
  BY <1>3
<1>5. Picks(h, s, S)
  BY <1>4 DEF Picks
<1> QED BY <1>5

LEMMA KeepType ==
  ASSUME NEW T, NEW S, NEW s \in Seq(T)
  PROVE  Keep(s, S) \in Seq(T) /\ Keep(s, S) \in Seq(T \cap S) /\ Keep(<< >>, S) = << >>
<1>1. PICK h : Picks(h, s, S)
  BY KeepPicks
<1>0. Keep(<< >>, S) = << >>
  BY KeepNothing
<1>2. Keep(s, S) \in Seq(T)
  <2>1. CASE T = {}
    <3>1. s = << >>
      BY <2>1
    <3>2. Keep(<< >>, S) = << >>
      BY KeepNothing
    <3> QED BY <3>1, <3>2
  <2>2. CASE T # {}
    BY <2>2, KeepAppend
  <2> QED BY <2>1, <2>2
<1> DEFINE q == Keep(s, S)
<1>3. ASSUME NEW k \in 1 .. Len(q) PROVE q[k] \in T \cap S
  <2>1. q[k] = s[h[k]] /\ s[h[k]] \in S /\ h[k] \in 1 .. Len(s)
    BY <1>1 DEF Picks
  <2>2. s[h[k]] \in T
    BY <2>1
  <2> QED BY <2>1, <2>2
<1>4. q \in Seq(T \cap S)
  <2> HIDE DEF q
  <2>1. Len(q) \in Nat /\ q = [k \in 1 .. Len(q) |-> q[k]]
    BY <1>2 DEF q
  <2>2. q \in [1 .. Len(q) -> T \cap S]
    BY <1>3, <2>1
  <2> QED BY <2>1, <2>2, ListIs
<1> QED BY <1>0, <1>2, <1>4

LEMMA KeepTwice ==
  ASSUME NEW T, NEW S, NEW R, NEW s \in Seq(T)
  PROVE  Keep(Keep(s, S), R) = Keep(s, S \cap R)
<1> DEFINE P == {r \in Seq(T) : Keep(Keep(r, S), R) = Keep(r, S \cap R)}
<1>1. << >> \in P
  <2>1. << >> \in Seq(T)
    OBVIOUS
  <2>2. Keep(<< >>, S) = << >> /\ Keep(<< >>, R) = << >> /\ Keep(<< >>, S \cap R) = << >>
    BY <2>1, KeepType
  <2> QED BY <2>1, <2>2
<1>2. ASSUME NEW r \in Seq(T), NEW x \in T, r \in P PROVE Append(r, x) \in P
  <2>1. Keep(r, S) \in Seq(T) /\ Append(r, x) \in Seq(T)
    BY KeepAppend, AppendIs
  <2>2. Keep(Append(r, x), S) = IF x \in S THEN Append(Keep(r, S), x) ELSE Keep(r, S)
    BY KeepAppend
  <2>3. Keep(Append(r, x), S \cap R) = IF x \in S \cap R THEN Append(Keep(r, S \cap R), x) ELSE Keep(r, S \cap R)
    BY KeepAppend
  <2>4. Keep(Append(Keep(r, S), x), R) =
          IF x \in R THEN Append(Keep(Keep(r, S), R), x) ELSE Keep(Keep(r, S), R)
    BY <2>1, KeepAppend
  <2>5. Keep(Keep(r, S), R) = Keep(r, S \cap R)
    BY <1>2
  <2>6. Keep(Keep(Append(r, x), S), R) = Keep(Append(r, x), S \cap R)
    <3>1. CASE x \in S
      <4>1. CASE x \in R
        BY <2>2, <2>3, <2>4, <2>5, <3>1, <4>1
      <4>2. CASE x \notin R
        BY <2>2, <2>3, <2>4, <2>5, <3>1, <4>2
      <4> QED BY <4>1, <4>2
    <3>2. CASE x \notin S
      BY <2>2, <2>3, <2>5, <3>2
    <3> QED BY <3>1, <3>2
  <2> QED BY <2>1, <2>6
<1>3. Seq(T) \subseteq P
  <2> HIDE DEF P
  <2> QED BY <1>1, <1>2, SequencesAll
<1> QED BY <1>3

LEMMA KeepSame ==
  ASSUME NEW T, NEW S, NEW R, NEW s \in Seq(T), \A i \in 1 .. Len(s) : s[i] \in S <=> s[i] \in R
  PROVE  Keep(s, S) = Keep(s, R)
<1> DEFINE U == {x \in T : x \in S <=> x \in R}
           P == {r \in Seq(U) : Keep(r, S) = Keep(r, R)}
<1>1. s \in Seq(U)
  <2>1. Len(s) \in Nat /\ s = [k \in 1 .. Len(s) |-> s[k]] /\ \A k \in 1 .. Len(s) : s[k] \in T
    OBVIOUS
  <2>2. s \in [1 .. Len(s) -> U]
    BY <2>1
  <2> HIDE DEF U
  <2> QED BY <2>1, <2>2, ListIs
<1>2. << >> \in P
  <2>1. << >> \in Seq(U)
    OBVIOUS
  <2> HIDE DEF U
  <2>2. Keep(<< >>, S) = << >> /\ Keep(<< >>, R) = << >>
    BY <2>1, KeepType
  <2> QED BY <2>1, <2>2
<1>3. ASSUME NEW r \in Seq(U), NEW x \in U, r \in P PROVE Append(r, x) \in P
  <2>1. x \in S <=> x \in R
    OBVIOUS
  <2> HIDE DEF U
  <2>2. /\ Keep(Append(r, x), S) = IF x \in S THEN Append(Keep(r, S), x) ELSE Keep(r, S)
        /\ Keep(Append(r, x), R) = IF x \in R THEN Append(Keep(r, R), x) ELSE Keep(r, R)
        /\ Append(r, x) \in Seq(U) /\ Keep(r, S) = Keep(r, R)
    BY <1>3, KeepAppend, AppendIs
  <2> QED BY <2>1, <2>2
<1>4. Seq(U) \subseteq P
  <2> HIDE DEF P, U
  <2> QED BY <1>2, <1>3, SequencesAll
<1> QED BY <1>1, <1>4

-----------------------------------------------------------------------------
(* The codec: what is decoded is what was encoded                          *)

(* The bits w are found in the stream from position at on. *)
Holds(body, at, w) == at + Len(w) <= Len(body) /\ \A j \in 1 .. Len(w) : body[at + j] = w[j]

LEMMA HoldsParts ==
  ASSUME NEW T, NEW u \in Seq(T), NEW w \in Seq(T), NEW body \in Seq(T), NEW at \in Nat,
         Holds(body, at, u \o w)
  PROVE  Holds(body, at, u) /\ Holds(body, at + Len(u), w)
<1>1. /\ Len(u \o w) = Len(u) + Len(w) /\ \A k \in 1 .. Len(u) : (u \o w)[k] = u[k]
      /\ \A k \in 1 .. Len(w) : (u \o w)[Len(u) + k] = w[k]
  BY ConcatIs
<1>2. Len(u) \in Nat /\ Len(w) \in Nat /\ Len(body) \in Nat
  OBVIOUS
<1> DEFINE c == u \o w
           m == Len(u)
           n == Len(w)
<1>3. /\ Len(c) = m + n
      /\ \A k \in 1 .. m : c[k] = u[k]
      /\ \A k \in 1 .. n : c[m + k] = w[k]
      /\ m \in Nat /\ n \in Nat /\ at + (m + n) <= Len(body) /\ \A j \in 1 .. m + n : body[at + j] = c[j]
  BY <1>1, <1>2 DEF Holds
<1> HIDE DEF c, m, n
<1>4. \A j \in 1 .. m : body[at + j] = u[j]
  <2> SUFFICES ASSUME NEW j \in 1 .. m PROVE body[at + j] = u[j]
    OBVIOUS
  <2>1. j \in 1 .. m + n
    BY <1>3
  <2> QED BY <1>3, <2>1
<1>5. \A j \in 1 .. n : body[(at + m) + j] = w[j]
  <2> SUFFICES ASSUME NEW j \in 1 .. n PROVE body[(at + m) + j] = w[j]
    OBVIOUS
  <2>1. m + j \in 1 .. m + n /\ (at + m) + j = at + (m + j)
    BY <1>3
  <2>2. c[m + j] = w[j]
    BY <1>3
  <2> DEFINE i == m + j
  <2>3. i \in 1 .. m + n
    BY <2>1
  <2> HIDE DEF i
  <2>4. body[at + i] = c[i]
    BY <1>3, <2>3
  <2> QED BY <2>1, <2>2, <2>4 DEF i
<1>6. at + m <= Len(body) /\ (at + m) + n <= Len(body)
  BY <1>2, <1>3
<1> QED BY <1>4, <1>5, <1>6 DEF Holds, m, n

LEMMA GetHeld ==
  ASSUME NEW body, NEW at \in Nat, NEW n \in Nat, NEW v \in Nat, v < Pow2[n], Len(body) \in Nat,
         Holds(body, at, Bits(v, n))
  PROVE  Get(body, at, n) = v
<1> DEFINE b == Bits(v, n)
           c == [k \in 1 .. n |-> IF at + k <= Len(body) THEN body[at + k] ELSE 0]
<1>1. b \in [1 .. n -> {0, 1}] /\ Len(b) = n
  BY BitsIs
<1>2. at + Len(b) <= Len(body) /\ \A j \in 1 .. Len(b) : body[at + j] = b[j]
  BY DEF Holds
<1> HIDE DEF b
<1>3. \A k \in 1 .. n : c[k] = b[k]
  BY <1>1, <1>2
<1>4. c = b
  <2>1. DOMAIN c = 1 .. n /\ c = [k \in DOMAIN c |-> c[k]]
    OBVIOUS
  <2> HIDE DEF c
  <2>2. c \in [1 .. n -> {0, 1}]
    BY <1>1, <1>3, <2>1
  <2> QED BY <1>1, <1>3, <2>2
<1>5. Get(body, at, n) = Numeral(c)
  BY DEF Get
<1> HIDE DEF c
<1> QED BY <1>4, <1>5, NumeralOfBits DEF b

(* Fields of n bits each. *)
LEMMA FieldsIs ==
  ASSUME NEW n \in Nat, NEW vs \in Seq(Nat)
  PROVE  /\ Fields(vs, n) \in Seq({0, 1}) /\ Len(Fields(vs, n)) = Len(vs) * n
         /\ \A k \in 1 .. Len(vs) : /\ (k - 1) * n + n <= Len(vs) * n /\ (k - 1) * n \in Nat
                                    /\ \A j \in 1 .. n : Fields(vs, n)[(k - 1) * n + j] = Bits(vs[k], n)[j]
<1> DEFINE m == Len(vs)
           s == [k \in DOMAIN vs |-> Bits(vs[k], n)]
<1>1. m \in Nat /\ DOMAIN vs = 1 .. m /\ \A k \in 1 .. m : vs[k] \in Nat
  OBVIOUS
<1>2. \A k \in 1 .. m : Bits(vs[k], n) \in Seq({0, 1}) /\ Len(Bits(vs[k], n)) = n
  BY <1>1, BitsIs
<1> HIDE DEF m
<1>3. s \in [1 .. m -> Seq({0, 1})]
  BY <1>1, <1>2
<1>4. \A k \in 1 .. m : s[k] = Bits(vs[k], n)
  BY <1>1
<1> HIDE DEF s
<1>5. s \in Seq(Seq({0, 1})) /\ Len(s) = m
  <2> DEFINE T == Seq({0, 1})
  <2>1. s \in [1 .. m -> T]
    BY <1>3
  <2> HIDE DEF T
  <2>2. s \in Seq(T) /\ Len(s) = m
    BY <1>1, <2>1, ListIs
  <2> QED BY <2>2 DEF T
<1>6. FlattenSeq(s) \in Seq({0, 1})
  BY <1>5, FlattenAt
<1>7. PICK off : Offsets(s, off) /\ JoinOf(FlattenSeq(s), s, off)
  BY <1>5, FlattenAt
<1>8. off[0] = 0 /\ \A k \in 1 .. m : off[k] = off[k - 1] + n
  BY <1>2, <1>4, <1>5, <1>7 DEF Offsets
<1>9. \A k \in 0 .. m : off[k] = k * n
  <2> DEFINE g == [k \in 0 .. m |-> k * n]
  <2>1. ContinueAlike(off, g, m)
    <3>1. off[0] = g[0]
      BY <1>1, <1>8
    <3>2. ASSUME NEW k \in 1 .. m, off[k - 1] = g[k - 1] PROVE off[k] = g[k]
      <4>1. k \in 0 .. m /\ k - 1 \in 0 .. m
        BY <1>1
      <4>2. g[k] = k * n /\ g[k - 1] = (k - 1) * n
        BY <4>1
      <4>3. k * n = (k - 1) * n + n
        OBVIOUS
      <4> HIDE DEF g
      <4> QED BY <1>8, <3>2, <4>2, <4>3
    <3> HIDE DEF g
    <3> QED BY <3>1, <3>2 DEF ContinueAlike
  <2>2. \A k \in 0 .. m : g[k] = k * n
    OBVIOUS
  <2> HIDE DEF g
  <2>3. \A k \in 0 .. m : off[k] = g[k]
    BY <1>1, <2>1, SameRecursion
  <2> QED BY <2>2, <2>3
<1>10. /\ Len(FlattenSeq(s)) = off[m]
       /\ \A k \in 1 .. m : off[k] <= Len(FlattenSeq(s)) /\ \A j \in 1 .. n : FlattenSeq(s)[off[k - 1] + j] = s[k][j]
  BY <1>2, <1>4, <1>5, <1>7 DEF JoinOf
<1>11. FlattenSeq(s) = Fields(vs, n)
  BY DEF Fields, s
<1>12. m \in 0 .. m /\ off[m] = m * n
  BY <1>1, <1>9
<1>13. ASSUME NEW k \in 1 .. m
       PROVE  /\ (k - 1) * n + n <= m * n /\ (k - 1) * n \in Nat
              /\ \A j \in 1 .. n : Fields(vs, n)[(k - 1) * n + j] = Bits(vs[k], n)[j]
  <2>1. k \in 0 .. m /\ k - 1 \in 0 .. m
    BY <1>1
  <2>2. off[k - 1] = (k - 1) * n /\ off[k] = k * n
    BY <1>9, <2>1
  <2>3. (k - 1) * n \in Nat /\ k * n = (k - 1) * n + n
    BY <1>1
  <2> QED BY <1>4, <1>10, <1>11, <1>12, <2>2, <2>3
<1> QED BY <1>6, <1>10, <1>11, <1>12, <1>13 DEF m

AllFit(vs, n) == \A k \in 1 .. Len(vs) : vs[k] < Pow2[n]

LEMMA FieldHeld ==
  ASSUME NEW body \in Seq({0, 1}), NEW at \in Nat, NEW n \in Nat, NEW vs \in Seq(Nat),
         AllFit(vs, n), Holds(body, at, Fields(vs, n))
  PROVE  \A k \in 1 .. Len(vs) : Get(body, at + (k - 1) * n, n) = vs[k]
<1> SUFFICES ASSUME NEW k \in 1 .. Len(vs) PROVE Get(body, at + (k - 1) * n, n) = vs[k]
  OBVIOUS
<1> DEFINE f == Fields(vs, n)
           a == (k - 1) * n
<1>1. /\ Len(f) = Len(vs) * n /\ a \in Nat /\ a + n <= Len(f)
      /\ \A j \in 1 .. n : f[a + j] = Bits(vs[k], n)[j]
  BY FieldsIs
<1>2. vs[k] \in Nat /\ vs[k] < Pow2[n] /\ Len(body) \in Nat
  BY DEF AllFit
<1>3. Len(Bits(vs[k], n)) = n
  BY <1>2, BitsIs
<1>4. at + Len(f) <= Len(body) /\ \A j \in 1 .. Len(f) : body[at + j] = f[j]
  BY DEF Holds
<1>5. Len(f) \in Nat
  BY FieldsIs
<1> HIDE DEF f, a
<1>6. (at + a) + n <= Len(body) /\ at + a \in Nat
  BY <1>1, <1>2, <1>4, <1>5
<1>7. ASSUME NEW j \in 1 .. n PROVE body[(at + a) + j] = Bits(vs[k], n)[j]
  <2>1. a + j \in 1 .. Len(f) /\ (at + a) + j = at + (a + j)
    BY <1>1, <1>5
  <2> QED BY <1>1, <1>4, <2>1
<1>8. Holds(body, at + a, Bits(vs[k], n))
  BY <1>3, <1>6, <1>7 DEF Holds
<1>9. Get(body, at + a, n) = vs[k]
  BY <1>2, <1>6, <1>8, GetHeld
<1> QED BY <1>9 DEF a

LEMMA BitHeld ==
  ASSUME NEW body \in Seq({0, 1}), NEW at \in Nat, NEW x \in {0, 1}, Holds(body, at, <<x>>)
  PROVE  Get(body, at, 1) = x
<1>1. Pow2[1] = 2 /\ Pow2[0] = 1
  <2>1. 0 + 1 = 1 /\ 2 * 1 = 2
    OBVIOUS
  <2> QED BY <2>1, Pow2Is
<1>2. Bits(x, 1) = <<x>>
  <2>1. ASSUME NEW j \in 1 .. 1 PROVE Bits(x, 1)[j] = x
    <3>1. j = 1 /\ j - 1 = 0
      OBVIOUS
    <3>2. Bits(x, 1)[j] = (x \div 1) % 2
      <4>1. 1 \in Nat /\ x \in Nat
        OBVIOUS
      <4>2. Bits(x, 1)[j] = (x \div Pow2[j - 1]) % 2
        BY <4>1, BitsIs
      <4> QED BY <1>1, <3>1, <4>2
    <3>3. (x \div 1) % 2 = x
      <4>1. x = 0 \/ x = 1
        OBVIOUS
      <4> QED BY <4>1
    <3> QED BY <3>2, <3>3
  <2>2. Bits(x, 1) \in [1 .. 1 -> {0, 1}]
    BY BitsIs
  <2> QED BY <2>1, <2>2
<1>3. x \in Nat /\ x < 2 /\ Len(body) \in Nat
  OBVIOUS
<1> QED BY <1>1, <1>2, <1>3, GetHeld

(* The parts of a coded warp. *)
BaseOf(k, vs) == IF vs = << >> THEN 0 ELSE IF k = F32 THEN vs[1] ELSE Min(Range(vs))
ResidualsOf(k, vs) == [i \in DOMAIN vs |-> Residual(k, vs[i], BaseOf(k, vs))]
BitsOf(k, vs) == BitWidth(Max(Range(ResidualsOf(k, vs)) \union {0}))
Bare(k, vs) == Len(vs) * ValueBits < ValueBits + WidthBits + Len(vs) * BitsOf(k, vs)

LEMMA WarpBitsIs ==
  ASSUME NEW k, NEW vs
  PROVE  WarpBits(k, vs) =
           IF Bare(k, vs) THEN <<1>> \o Fields(vs, ValueBits)
           ELSE <<0>> \o Bits(BaseOf(k, vs), ValueBits) \o Bits(BitsOf(k, vs), WidthBits)
                  \o Fields(ResidualsOf(k, vs), BitsOf(k, vs))
BY DEF WarpBits, Bare, BaseOf, ResidualsOf, BitsOf

LEMMA ResidualsAre ==
  ASSUME NEW k \in {U32, F32}, NEW vs \in Seq(Values)
  PROVE  /\ BaseOf(k, vs) \in Values
         /\ ResidualsOf(k, vs) \in Seq(Values) /\ Len(ResidualsOf(k, vs)) = Len(vs)
         /\ \A i \in 1 .. Len(vs) : ValueOf(k, ResidualsOf(k, vs)[i], BaseOf(k, vs)) = vs[i]
<1> DEFINE base == BaseOf(k, vs)
           r == ResidualsOf(k, vs)
           m == Len(vs)
<1>1. m \in Nat /\ DOMAIN vs = 1 .. m /\ \A i \in 1 .. m : vs[i] \in Values
  OBVIOUS
<1>2. 0 \in Values /\ Values \subseteq Nat
  <2>1. Pow2[ValueBits] \in Nat \ {0}
    BY CodecAssumption, Pow2Is
  <2> QED BY <2>1, ValuesAre
<1>3. vs # << >> => 1 \in 1 .. m
  BY <1>1
<1>4. vs # << >> => Min(Range(vs)) \in Range(vs) /\ \A i \in 1 .. m : Min(Range(vs)) <= vs[i]
  <2> SUFFICES ASSUME vs # << >>
               PROVE  Min(Range(vs)) \in Range(vs) /\ \A i \in 1 .. m : Min(Range(vs)) <= vs[i]
    OBVIOUS
  <2>1. \A i \in 1 .. m : vs[i] \in Range(vs)
    BY <1>1 DEF Range
  <2>2. Range(vs) \subseteq Nat
    BY <1>1, <1>2 DEF Range
  <2>3. Range(vs) # {}
    BY <1>3, <2>1
  <2>4. Min(Range(vs)) \in Range(vs) /\ \A y \in Range(vs) : Min(Range(vs)) <= y
    BY <2>2, <2>3, LeastOf
  <2> QED BY <2>1, <2>4
<1>5. base \in Values
  <2>1. CASE vs = << >>
    BY <1>2, <2>1 DEF BaseOf
  <2>2. CASE vs # << >> /\ k = F32
    BY <1>1, <1>3, <2>2 DEF BaseOf
  <2>3. CASE vs # << >> /\ k # F32
    <3>1. base = Min(Range(vs))
      BY <2>3 DEF BaseOf
    <3>2. \A y \in Range(vs) : y \in Values
      BY <1>1 DEF Range
    <3> QED BY <1>4, <2>3, <3>1, <3>2
  <2> QED BY <2>1, <2>2, <2>3
<1>6. ASSUME NEW i \in 1 .. m
      PROVE  Residual(k, vs[i], base) \in Values /\ ValueOf(k, Residual(k, vs[i], base), base) = vs[i]
  <2> HIDE DEF base
  <2>1. CASE k = F32
    BY <1>1, <1>5, <2>1, XorTwice DEF Residual, ValueOf
  <2>2. CASE k # F32
    <3>1. vs # << >>
      BY <1>1
    <3>2. base = Min(Range(vs))
      BY <2>2, <3>1 DEF BaseOf, base
    <3>3. base <= vs[i] /\ vs[i] \in Nat /\ base \in Nat /\ vs[i] < Pow2[ValueBits]
      BY <1>1, <1>2, <1>4, <1>5, <3>1, <3>2, ValuesAre
    <3>4. Residual(k, vs[i], base) = vs[i] - base
      BY <2>2 DEF Residual
    <3>5. Pow2[ValueBits] \in Nat \ {0}
      BY CodecAssumption, Pow2Is
    <3>6. vs[i] - base \in Values
      BY <3>3, <3>5, ValuesAre
    <3>7. ((vs[i] - base) + base) % Pow2[ValueBits] = vs[i]
      <4> DEFINE p == Pow2[ValueBits]
                 v == vs[i]
      <4>1. p \in Nat \ {0} /\ v \in Nat /\ v < p /\ base \in Nat
        BY <3>3, <3>5
      <4> HIDE DEF p, v
      <4>2. (v - base) + base = v /\ v = p * 0 + v
        BY <4>1
      <4>3. v % p = v
        BY <4>1, <4>2, DivUnique
      <4>4. ((v - base) + base) % p = v
        BY <4>2, <4>3
      <4> QED BY <4>4 DEF p, v
    <3> QED BY <2>2, <3>4, <3>6, <3>7 DEF ValueOf
  <2> QED BY <2>1, <2>2
<1>7. r \in [1 .. m -> Values] /\ \A i \in 1 .. m : r[i] = Residual(k, vs[i], base)
  <2> HIDE DEF base, m
  <2>1. r = [i \in 1 .. m |-> Residual(k, vs[i], base)]
    BY <1>1 DEF ResidualsOf, base
  <2> HIDE DEF r
  <2> QED BY <1>6, <2>1
<1> HIDE DEF r, base, m
<1>8. r \in Seq(Values) /\ Len(r) = m
  BY <1>1, <1>7, ListIs
<1> QED BY <1>5, <1>6, <1>7, <1>8 DEF r, base, m

LEMMA WidthFits ==
  ASSUME NEW k \in {U32, F32}, NEW vs \in Seq(Values)
  PROVE  /\ BitsOf(k, vs) \in Nat /\ BitsOf(k, vs) < Pow2[WidthBits]
         /\ \A i \in 1 .. Len(vs) : ResidualsOf(k, vs)[i] < Pow2[BitsOf(k, vs)]
<1> DEFINE r == ResidualsOf(k, vs)
           R == Range(r) \union {0}
           p == Pow2[ValueBits]
<1>1. r \in Seq(Values) /\ Len(r) = Len(vs)
  BY ResidualsAre
<1>2. p \in Nat \ {0} /\ Values \subseteq 0 .. p - 1 /\ 0 \in Values
  <2>1. p \in Nat \ {0}
    BY CodecAssumption, Pow2Is
  <2> QED BY <2>1 DEF Values
<1>3. \A i \in 1 .. Len(vs) : r[i] \in Range(r) /\ r[i] \in Values
  <2> HIDE DEF r
  <2>1. DOMAIN r = 1 .. Len(vs)
    BY <1>1
  <2> QED BY <1>1, <2>1 DEF Range
<1>4. \A y \in Range(r) : y \in Values
  <2> HIDE DEF r
  <2>1. DOMAIN r = 1 .. Len(r)
    BY <1>1
  <2> QED BY <1>1, <2>1 DEF Range
<1> HIDE DEF r, p
<1>5. R \subseteq 0 .. p - 1 /\ R # {} /\ R \subseteq Values /\ p - 1 \in Nat
  <2>1. R \subseteq Values
    BY <1>2, <1>4
  <2>2. 0 \in R /\ p - 1 \in Nat
    BY <1>2
  <2> HIDE DEF R
  <2> QED BY <1>2, <2>1, <2>2
<1>6. Max(R) \in R /\ \A y \in R : y <= Max(R)
  <2> HIDE DEF R
  <2> QED BY <1>5, MostOf
<1> DEFINE b == BitWidth(Max(R))
<1>7. b \in Nat /\ Max(R) < Pow2[b] /\ b < Pow2[WidthBits]
  <2> HIDE DEF R
  <2> QED BY <1>5, <1>6, BitWidthIs
<1>8. BitsOf(k, vs) = b
  BY DEF BitsOf, r
<1>9. ASSUME NEW i \in 1 .. Len(vs) PROVE r[i] < Pow2[b]
  <2>1. r[i] <= Max(R) /\ r[i] \in Nat /\ Max(R) \in Nat
    <3>1. r[i] \in R
      BY <1>3
    <3> HIDE DEF R
    <3>2. Max(R) \in 0 .. p - 1 /\ r[i] \in 0 .. p - 1 /\ r[i] <= Max(R)
      BY <1>5, <1>6, <3>1
    <3> QED BY <1>2, <3>2
  <2>2. Pow2[b] \in Nat
    BY <1>7, Pow2Is
  <2> HIDE DEF R, b
  <2> QED BY <1>7, <2>1, <2>2
<1> HIDE DEF b
<1> QED BY <1>7, <1>8, <1>9 DEF r

LEMMA WarpBitsType ==
  ASSUME NEW k \in {U32, F32}, NEW vs \in Seq(Values)
  PROVE  WarpBits(k, vs) \in Seq({0, 1})
<1>1. Values \subseteq Nat /\ vs \in Seq(Nat) /\ ResidualsOf(k, vs) \in Seq(Nat)
  <2>1. Values \subseteq Nat
    BY ValuesAre
  <2>2. ResidualsOf(k, vs) \in Seq(Values)
    BY ResidualsAre
  <2> QED BY <2>1, <2>2, WiderSequence
<1>2. ValueBits \in Nat /\ WidthBits \in Nat /\ BitsOf(k, vs) \in Nat /\ BaseOf(k, vs) \in Nat
  BY <1>1, CodecAssumption, ResidualsAre, WidthFits
<1> DEFINE S == Seq({0, 1})
           a == Fields(vs, ValueBits)
           b == Bits(BaseOf(k, vs), ValueBits)
           c == Bits(BitsOf(k, vs), WidthBits)
           d == Fields(ResidualsOf(k, vs), BitsOf(k, vs))
<1>3. a \in S /\ b \in S /\ c \in S /\ d \in S /\ <<0>> \in S /\ <<1>> \in S
  <2>1. a \in S /\ d \in S
    BY <1>1, <1>2, FieldsIs
  <2>2. b \in S /\ c \in S
    BY <1>2, BitsIs
  <2>3. <<0>> \in S /\ <<1>> \in S
    OBVIOUS
  <2> QED BY <2>1, <2>2, <2>3
<1>4. WarpBits(k, vs) = IF Bare(k, vs) THEN <<1>> \o a ELSE <<0>> \o b \o c \o d
  BY WarpBitsIs
<1> HIDE DEF a, b, c, d
<1>5. <<1>> \o a \in S /\ <<0>> \o b \o c \o d \in S
  BY <1>3, ConcatIs
<1> HIDE DEF S
<1>6. WarpBits(k, vs) \in S
  BY <1>4, <1>5
<1> QED BY <1>6 DEF S

Once(q) == \A i, j \in 1 .. Len(q) : q[i] = q[j] => i = j

(* d is the reader s at its next position, with the values vs of some lanes. *)
Reads(d, s, next, lanes, vs) ==
  /\ d = [at |-> next, bits |-> d.bits] /\ d.bits = [l \in DOMAIN s.bits |-> d.bits[l]]
  /\ \A l \in DOMAIN s.bits : l \notin Range(lanes) => d.bits[l] = s.bits[l]
  /\ \A i \in 1 .. Len(lanes) : lanes[i] \in DOMAIN s.bits => d.bits[lanes[i]] = vs[i]

(* One warp comes back: the reader moves behind it, and its lanes have     *)
(* their values.                                                           *)
LEMMA WarpRoundTrip ==
  ASSUME NEW k \in {U32, F32}, NEW vs \in Seq(Values), NEW body \in Seq({0, 1}),
         NEW lanes \in Seq(Nat), Len(lanes) = Len(vs),
         Once(lanes), NEW s, s.at \in Nat, Holds(body, s.at, WarpBits(k, vs))
  PROVE  Reads(DecodeWarp(k, body, lanes, s), s, s.at + Len(WarpBits(k, vs)), lanes, vs)
<1> DEFINE at == s.at
           n == Len(vs)
           w == WarpBits(k, vs)
           b == BitsOf(k, vs)
           base == BaseOf(k, vs)
           r == ResidualsOf(k, vs)
           raw == Get(body, at, 1) = 1
           gbase == Get(body, at + 1, ValueBits)
           gb == Get(body, at + 1 + ValueBits, WidthBits)
           first == IF raw THEN at + 1 ELSE at + 1 + ValueBits + WidthBits
           width == IF raw THEN ValueBits ELSE gb
           At(i) == Get(body, first + (i - 1) * width, width)
           Rank(l) == CHOOSE i \in DOMAIN lanes : lanes[i] = l
           bits == [l \in DOMAIN s.bits |->
                     IF l \notin Range(lanes) THEN s.bits[l]
                     ELSE IF raw THEN At(Rank(l)) ELSE ValueOf(k, At(Rank(l)), gbase)]
<1>1. DecodeWarp(k, body, lanes, s) = [at |-> first + Len(lanes) * width, bits |-> bits]
  BY DEF DecodeWarp
<1>2. /\ vs \in Seq(Nat) /\ r \in Seq(Nat) /\ Len(r) = n /\ base \in Nat /\ base < Pow2[ValueBits]
      /\ ValueBits \in Nat /\ WidthBits \in Nat /\ n \in Nat
  <2>1. Values \subseteq Nat
    BY ValuesAre
  <2>2. ResidualsOf(k, vs) \in Seq(Values) /\ base \in Values /\ Len(r) = n
    BY ResidualsAre
  <2>3. vs \in Seq(Nat) /\ r \in Seq(Nat) /\ base \in Nat /\ base < Pow2[ValueBits]
    BY <2>1, <2>2, ValuesAre
  <2>4. ValueBits \in Nat /\ WidthBits \in Nat /\ n \in Nat
    BY CodecAssumption
  <2> QED BY <2>2, <2>3, <2>4
<1>3. /\ b \in Nat /\ b < Pow2[WidthBits] /\ \A i \in 1 .. n : r[i] < Pow2[b]
      /\ \A i \in 1 .. n : ValueOf(k, r[i], base) = vs[i]
  BY ResidualsAre, WidthFits
<1>4. \A i \in 1 .. n : vs[i] < Pow2[ValueBits]
  BY ValuesAre
<1>5. at \in Nat /\ Len(body) \in Nat
  OBVIOUS
<1>6. \A i \in 1 .. n : lanes[i] \in Range(lanes) /\ Rank(lanes[i]) = i
  <2>1. DOMAIN lanes = 1 .. n
    OBVIOUS
  <2> SUFFICES ASSUME NEW i \in 1 .. n PROVE lanes[i] \in Range(lanes) /\ Rank(lanes[i]) = i
    OBVIOUS
  <2>2. lanes[i] \in Range(lanes)
    BY <2>1 DEF Range
  <2>3. \A j \in DOMAIN lanes : lanes[j] = lanes[i] => j = i
    BY <2>1 DEF Once
  <2> QED BY <2>1, <2>2, <2>3
<1>7. CASE Bare(k, vs)
  <2> DEFINE f == Fields(vs, ValueBits)
  <2>1. f \in Seq({0, 1}) /\ Len(f) = n * ValueBits /\ <<1>> \in Seq({0, 1}) /\ w = <<1>> \o f
    <3>1. f \in Seq({0, 1}) /\ Len(f) = n * ValueBits
      BY <1>2, FieldsIs
    <3>2. w = <<1>> \o f
      BY <1>7, WarpBitsIs
    <3>3. <<1>> \in Seq({0, 1})
      OBVIOUS
    <3> QED BY <3>1, <3>2, <3>3
  <2> HIDE DEF f
  <2>2. Holds(body, at, <<1>>) /\ Holds(body, at + 1, f) /\ Len(w) = 1 + Len(f)
    <3>1. Len(<<1>>) = 1
      OBVIOUS
    <3>2. Holds(body, at, <<1>> \o f)
      BY <2>1
    <3>3. Holds(body, at, <<1>>) /\ Holds(body, at + Len(<<1>>), f)
      BY <1>5, <2>1, <3>2, HoldsParts
    <3>4. Len(<<1>> \o f) = Len(<<1>>) + Len(f)
      BY <2>1, ConcatIs
    <3> QED BY <2>1, <3>1, <3>3, <3>4
  <2>3. raw
    BY <1>5, <2>2, BitHeld
  <2>4. first = at + 1 /\ width = ValueBits
    BY <2>3
  <2>5. ASSUME NEW i \in 1 .. n PROVE At(i) = vs[i]
    <3>1. Get(body, (at + 1) + (i - 1) * ValueBits, ValueBits) = vs[i]
      <4>1. at + 1 \in Nat
        BY <1>5
      <4>2. Holds(body, at + 1, Fields(vs, ValueBits))
        BY <2>2 DEF f
      <4> DEFINE a == at + 1
      <4>3. a \in Nat /\ Holds(body, a, Fields(vs, ValueBits))
        BY <4>1, <4>2
      <4>4. ValueBits \in Nat /\ vs \in Seq(Nat) /\ \A j \in 1 .. Len(vs) : vs[j] < Pow2[ValueBits]
        BY <1>2, <1>4
      <4> HIDE DEF a
      <4>5. Get(body, a + (i - 1) * ValueBits, ValueBits) = vs[i]
        <5>1. AllFit(vs, ValueBits)
          BY <4>4 DEF AllFit
        <5>2. \A j \in 1 .. Len(vs) : Get(body, a + (j - 1) * ValueBits, ValueBits) = vs[j]
          BY <4>3, <4>4, <5>1, FieldHeld
        <5> QED BY <5>2
      <4> QED BY <4>5 DEF a
    <3> HIDE DEF first, width
    <3> QED BY <2>4, <3>1
  <2>6. first + Len(lanes) * width = at + Len(w)
    <3>1. Len(lanes) * width = Len(f)
      <4> HIDE DEF first, width
      <4> QED BY <2>1, <2>4
    <3>2. Len(f) \in Nat
      BY <2>1
    <3> DEFINE x == Len(lanes) * width
    <3>3. x = Len(f)
      BY <3>1
    <3> HIDE DEF first, width, at, w, x
    <3>4. first + x = at + Len(w)
      BY <1>5, <2>2, <2>4, <3>2, <3>3
    <3> QED BY <3>4 DEF x
  <2>7. \A i \in 1 .. n : lanes[i] \in DOMAIN s.bits => bits[lanes[i]] = vs[i]
    <3> HIDE DEF At, Rank, raw
    <3> QED BY <1>6, <2>3, <2>5
  <2>8. bits = [l \in DOMAIN s.bits |-> bits[l]] /\ \A l \in DOMAIN s.bits : l \notin Range(lanes) => bits[l] = s.bits[l]
    OBVIOUS
  <2> HIDE DEF bits, first, width, w
  <2> DEFINE d == DecodeWarp(k, body, lanes, s)
             next == first + Len(lanes) * width
  <2>20. d = [at |-> next, bits |-> bits]
    BY <1>1
  <2> HIDE DEF d, next
  <2>21. d.bits = bits /\ d = [at |-> next, bits |-> d.bits]
    BY <2>20
  <2>22. next = s.at + Len(WarpBits(k, vs))
    BY <2>6 DEF next, w
  <2>23. Reads(d, s, next, lanes, vs)
    BY <2>21, <2>7, <2>8 DEF Reads
  <2> QED BY <2>22, <2>23 DEF d
<1>8. CASE ~Bare(k, vs)
  <2> DEFINE u == Bits(base, ValueBits)
             v == Bits(b, WidthBits)
             f == Fields(r, b)
             D == {0, 1}
             S == Seq(D)
  <2>1. f \in S /\ Len(f) = n * b
    BY <1>2, <1>3, FieldsIs
  <2>2. u \in S /\ Len(u) = ValueBits /\ v \in S /\ Len(v) = WidthBits
    BY <1>2, <1>3, BitsIs
  <2>3. w = <<0>> \o u \o v \o f
    BY <1>8, WarpBitsIs
  <2>4. <<0>> \in S /\ Len(<<0>>) = 1
    OBVIOUS
  <2> HIDE DEF u, v, f, S, w, base, b, r
  <2>5. /\ <<0>> \o u \in S /\ Len(<<0>> \o u) = 1 + ValueBits
        /\ <<0>> \o u \o v \in S /\ Len(<<0>> \o u \o v) = 1 + ValueBits + WidthBits
        /\ Len(w) = 1 + ValueBits + WidthBits + Len(f)
    <3>1. <<0>> \o u \in S /\ Len(<<0>> \o u) = 1 + ValueBits
      <4> HIDE DEF D
      <4>1. <<0>> \in Seq(D) /\ u \in Seq(D)
        BY <2>2, <2>4 DEF S
      <4> DEFINE z == <<0>>
      <4> HIDE DEF z
      <4>2. z \o u \in Seq(D) /\ Len(z \o u) = Len(z) + Len(u)
        BY <4>1, ConcatIs DEF z
      <4> QED BY <2>2, <2>4, <4>2 DEF S, z
    <3>2. <<0>> \o u \o v \in S /\ Len(<<0>> \o u \o v) = 1 + ValueBits + WidthBits
      <4> DEFINE a == <<0>> \o u
      <4>1. a \in S /\ Len(a) = 1 + ValueBits
        BY <3>1
      <4> HIDE DEF a
      <4>2. a \o v \in S /\ Len(a \o v) = Len(a) + Len(v)
        <5> HIDE DEF D
        <5> QED BY <2>2, <4>1, ConcatIs DEF S
      <4>3. Len(a \o v) = 1 + ValueBits + WidthBits
        BY <2>2, <4>1, <4>2
      <4> QED BY <4>2, <4>3 DEF a
    <3>3. Len(w) = 1 + ValueBits + WidthBits + Len(f)
      <4> DEFINE a == <<0>> \o u \o v
      <4>1. a \in S /\ Len(a) = 1 + ValueBits + WidthBits /\ w = a \o f
        BY <2>3, <3>2
      <4> HIDE DEF a
      <4>2. Len(a \o f) = Len(a) + Len(f)
        <5> HIDE DEF D
        <5>1. f \in Seq(D) /\ a \in Seq(D)
          BY <2>1, <4>1 DEF S
        <5> QED BY <5>1, ConcatIs
      <4> QED BY <4>1, <4>2
    <3> QED BY <3>1, <3>2, <3>3
  <2>6. Holds(body, at, <<0>> \o u \o v) /\ Holds(body, at + (1 + ValueBits + WidthBits), f)
    <3>1. Holds(body, at, <<0>> \o u \o v \o f)
      BY <2>3 DEF w
    <3>2. Holds(body, at, <<0>> \o u \o v) /\ Holds(body, at + Len(<<0>> \o u \o v), f)
      BY <1>5, <2>1, <2>5, <3>1, HoldsParts DEF S
    <3> QED BY <2>5, <3>2
  <2>7. Holds(body, at, <<0>> \o u) /\ Holds(body, at + (1 + ValueBits), v)
    <3>1. Holds(body, at, <<0>> \o u) /\ Holds(body, at + Len(<<0>> \o u), v)
      BY <1>5, <2>2, <2>5, <2>6, HoldsParts DEF S
    <3> QED BY <2>5, <3>1
  <2>8. Holds(body, at, <<0>>) /\ Holds(body, at + 1, u)
    <3>1. Holds(body, at, <<0>>) /\ Holds(body, at + Len(<<0>>), u)
      BY <1>5, <2>2, <2>4, <2>7, HoldsParts DEF S
    <3> QED BY <2>4, <3>1
  <2>9. ~raw
    BY <1>5, <2>8, BitHeld
  <2>10. gbase = base
    <3>1. at + 1 \in Nat
      BY <1>5
    <3> QED BY <1>2, <1>5, <2>8, <3>1, GetHeld DEF u
  <2>11. gb = b
    <3>1. at + (1 + ValueBits) \in Nat /\ at + (1 + ValueBits) = at + 1 + ValueBits
      BY <1>2, <1>5
    <3>2. Get(body, at + (1 + ValueBits), WidthBits) = b
      BY <1>2, <1>3, <1>5, <2>7, <3>1, GetHeld DEF v
    <3> HIDE DEF at
    <3> QED BY <3>1, <3>2
  <2>12. first = at + (1 + ValueBits + WidthBits) /\ width = b /\ first \in Nat
    <3>1. first = at + 1 + ValueBits + WidthBits /\ width = gb
      BY <2>9
    <3> HIDE DEF first, width, gb, at
    <3> QED BY <1>2, <1>5, <2>11, <3>1
  <2>13. ASSUME NEW i \in 1 .. n PROVE At(i) = r[i]
    <3>1. Get(body, first + (i - 1) * b, b) = r[i]
      <4>1. Holds(body, first, f)
        <5> HIDE DEF first
        <5> QED BY <2>6, <2>12
      <4>2. first \in Nat
        BY <2>12
      <4>3. Holds(body, first, Fields(r, b)) /\ i \in 1 .. Len(r) /\ \A j \in 1 .. Len(r) : r[j] < Pow2[b]
        BY <1>2, <1>3, <4>1 DEF f
      <4>4. b \in Nat /\ r \in Seq(Nat)
        BY <1>2, <1>3
      <4> HIDE DEF first
      <4>5. AllFit(r, b)
        BY <4>3 DEF AllFit
      <4>6. \A j \in 1 .. Len(r) : Get(body, first + (j - 1) * b, b) = r[j]
        BY <4>2, <4>3, <4>4, <4>5, FieldHeld
      <4> QED BY <4>3, <4>6
    <3> HIDE DEF first, width
    <3> QED BY <2>12, <3>1
  <2>14. first + Len(lanes) * width = at + Len(w)
    <3> HIDE DEF first, width, at
    <3> QED BY <1>2, <1>3, <1>5, <2>1, <2>5, <2>12
  <2>15. \A i \in 1 .. n : lanes[i] \in DOMAIN s.bits => bits[lanes[i]] = vs[i]
    <3> HIDE DEF At, Rank, raw, gbase
    <3> QED BY <1>3, <1>6, <2>9, <2>10, <2>13
  <2>16. bits = [l \in DOMAIN s.bits |-> bits[l]] /\ \A l \in DOMAIN s.bits : l \notin Range(lanes) => bits[l] = s.bits[l]
    OBVIOUS
  <2> HIDE DEF bits, first, width, w
  <2> DEFINE d == DecodeWarp(k, body, lanes, s)
             next == first + Len(lanes) * width
  <2>20. d = [at |-> next, bits |-> bits]
    BY <1>1
  <2> HIDE DEF d, next
  <2>21. d.bits = bits /\ d = [at |-> next, bits |-> d.bits]
    BY <2>20
  <2>22. next = s.at + Len(WarpBits(k, vs))
    BY <2>14 DEF next, w
  <2>23. Reads(d, s, next, lanes, vs)
    BY <2>21, <2>15, <2>16 DEF Reads
  <2> QED BY <2>22, <2>23 DEF d
<1> QED BY <1>7, <1>8

(* The warps cover the lanes. *)
LEMMA WarpsCover ==
  ASSUME NEW n \in Nat, NEW size \in Nat
  PROVE  /\ Warps(n, size) \in Nat /\ Width(size) \in Nat \ {0}
         /\ n <= Warps(n, size) * Width(size)
         /\ \A w \in 1 .. Warps(n, size) : (w - 1) * Width(size) \in Nat /\ (w - 1) * Width(size) < n
                                           /\ w * Width(size) = (w - 1) * Width(size) + Width(size)
<1> DEFINE W == Width(size)
           a == n + W - 1
           m == a \div W
           r == a % W
<1>1. W \in Nat \ {0}
  BY DEF Width
<1> HIDE DEF W
<1>2. a \in Nat
  BY <1>1
<1> HIDE DEF a
<1>3. m \in Nat /\ r \in Nat /\ r < W /\ a = W * m + r
  BY <1>1, <1>2, DivMod
<1>4. Warps(n, size) = m
  BY DEF Warps, W, a
<1> HIDE DEF m, r
<1>5. W * m = m * W /\ W * m \in Nat
  BY <1>1, <1>3
<1>6. n <= m * W
  <2> DEFINE p == W * m
  <2>1. p \in Nat /\ a = p + r /\ m * W = p
    BY <1>3, <1>5
  <2> HIDE DEF p
  <2> QED BY <1>1, <1>3, <2>1 DEF a
<1>7. ASSUME NEW w \in 1 .. m
      PROVE  (w - 1) * W \in Nat /\ (w - 1) * W < n /\ w * W = (w - 1) * W + W
  <2>1. w \in Nat /\ w - 1 \in Nat
    BY <1>3
  <2>2. (w - 1) * W \in Nat /\ w * W = (w - 1) * W + W
    BY <1>1, <2>1
  <2>3. W * w <= W * m /\ W * w = w * W
    BY <1>1, <1>3, <2>1, ProductGrows
  <2> DEFINE p == W * m
             q == w * W
             u == (w - 1) * W
  <2>4. p \in Nat /\ a = p + r /\ q <= p /\ q = u + W /\ u \in Nat
    BY <1>3, <1>5, <2>2, <2>3
  <2> HIDE DEF p, q, u
  <2>5. u < n
    BY <1>1, <1>3, <2>4 DEF a
  <2> QED BY <2>2, <2>5 DEF u
<1> QED BY <1>1, <1>3, <1>4, <1>6, <1>7 DEF W

(* A warp's lanes are its active ones, each once. *)
LEMMA WarpIs ==
  ASSUME NEW n \in Nat, NEW size \in Nat, NEW act, NEW w \in 1 .. Warps(n, size)
  PROVE  /\ Warp(n, size, act, w) \in Seq(Nat)
         /\ \A i, j \in 1 .. Len(Warp(n, size, act, w)) :
              Warp(n, size, act, w)[i] = Warp(n, size, act, w)[j] => i = j
         /\ \A i \in 1 .. Len(Warp(n, size, act, w)) :
              LET l == Warp(n, size, act, w)[i]
              IN  l \in 1 .. n /\ LaneActive(act, l) /\ l <= w * Width(size)
         /\ \A l \in 1 .. n : LaneActive(act, l) /\ (w - 1) * Width(size) < l /\ l <= w * Width(size)
              => \E i \in 1 .. Len(Warp(n, size, act, w)) : Warp(n, size, act, w)[i] = l
<1> DEFINE W == Width(size)
           first == (w - 1) * W
           last == Min({w * W, n})
           s == [k \in 1 .. last - first |-> first + k]
           S == {k \in 1 .. n : LaneActive(act, k)}
           q == Keep(s, S)
<1>1. Warp(n, size, act, w) = q
  BY DEF Warp
<1>2. first \in Nat /\ first < n /\ w * W = first + W /\ W \in Nat \ {0}
  BY WarpsCover
<1>3. last \in Nat /\ last <= w * W /\ last <= n /\ (last = w * W \/ last = n)
  <2> DEFINE R == {w * W, n}
  <2>1. R \subseteq Nat /\ R # {} /\ w * W \in R /\ n \in R
    <3> HIDE DEF W, first
    <3> QED BY <1>2
  <2>2. Min(R) \in R /\ \A y \in R : Min(R) <= y
    <3> HIDE DEF R
    <3> QED BY <2>1, LeastOf
  <2> HIDE DEF W
  <2> QED BY <2>1, <2>2
<1> HIDE DEF first, last
<1>4. last - first \in Nat
  <2>1. w * W \in Nat /\ first <= w * W
    BY <1>2
  <2> HIDE DEF W
  <2> QED BY <1>2, <1>3, <2>1
<1>5. s \in [1 .. last - first -> Nat] /\ \A k \in 1 .. last - first : s[k] = first + k
  BY <1>2
<1> HIDE DEF s
<1>6. s \in Seq(Nat) /\ Len(s) = last - first
  BY <1>4, <1>5, ListIs
<1>7. PICK h \in [1 .. Len(q) -> 1 .. Len(s)] :
           /\ \A i, j \in 1 .. Len(q) : i < j => h[i] < h[j]
           /\ \A k \in 1 .. Len(q) : q[k] = s[h[k]] /\ s[h[k]] \in S
           /\ \A i \in 1 .. Len(s) : s[i] \in S => \E k \in 1 .. Len(q) : h[k] = i
  <2> HIDE DEF S
  <2>1. PICK h : Picks(h, s, S)
    BY <1>6, KeepPicks
  <2> QED BY <2>1 DEF Picks
<1>8. q \in Seq(Nat) /\ Len(q) \in Nat
  <2> HIDE DEF S
  <2>1. q \in Seq(Nat)
    BY <1>6, KeepType
  <2> QED BY <2>1
<1> HIDE DEF q, S
<1>9. \A k \in 1 .. Len(q) : h[k] \in 1 .. last - first /\ q[k] = first + h[k] /\ q[k] \in S
  BY <1>5, <1>6, <1>7
<1>10. ASSUME NEW i \in 1 .. Len(q), NEW j \in 1 .. Len(q), q[i] = q[j] PROVE i = j
  <2>1. h[i] = h[j]
    BY <1>2, <1>4, <1>9, <1>10
  <2>2. h[i] \in Int /\ ~(i < j) /\ ~(j < i)
    <3>1. h[i] \in Int
      BY <1>4, <1>9
    <3> QED BY <1>7, <2>1, <3>1
  <2> QED BY <1>8, <2>2
<1>11. ASSUME NEW i \in 1 .. Len(q) PROVE q[i] \in 1 .. n /\ LaneActive(act, q[i]) /\ q[i] <= w * W
  <2>1. q[i] \in 1 .. n /\ LaneActive(act, q[i])
    BY <1>9 DEF S
  <2>2. h[i] \in 1 .. last - first /\ q[i] = first + h[i]
    BY <1>9
  <2>3. w * W \in Nat
    BY <1>2
  <2> HIDE DEF W
  <2> QED BY <1>2, <1>3, <1>4, <2>1, <2>2, <2>3
<1>12. ASSUME NEW l \in 1 .. n, LaneActive(act, l), first < l, l <= w * W
       PROVE  \E i \in 1 .. Len(q) : q[i] = l
  <2>1. l - first \in 1 .. last - first
    <3> DEFINE z == w * W
    <3>1. z \in Nat /\ l <= z /\ (last = z \/ last = n)
      BY <1>2, <1>3, <1>12
    <3> HIDE DEF z
    <3> QED BY <1>2, <1>3, <1>12, <3>1
  <2>2. s[l - first] = l
    BY <1>2, <1>5, <2>1
  <2>3. l \in S
    BY <1>12 DEF S
  <2>4. PICK k \in 1 .. Len(q) : h[k] = l - first
    BY <1>6, <1>7, <2>1, <2>2, <2>3
  <2>5. q[k] = l
    BY <1>7, <2>2, <2>4
  <2> QED BY <2>5
<1> QED BY <1>1, <1>8, <1>10, <1>11, <1>12 DEF first, W

(* flush fills up the last byte. *)
LEMMA FlushIs ==
  ASSUME NEW b \in Seq({0, 1})
  PROVE  /\ Flush(b) \in Seq({0, 1}) /\ Len(Flush(b)) = 8 * Bytes(Len(b)) /\ Bytes(Len(b)) \in Nat
         /\ Len(b) <= 8 * Bytes(Len(b)) /\ \A k \in 1 .. Len(b) : Flush(b)[k] = b[k]
         /\ Flush(<< >>) = << >>
<1> DEFINE m == Bytes(Len(b))
           D == {0, 1}
<1>1. Len(b) \in Nat /\ Len(b) + 7 \in Nat
  OBVIOUS
<1>2. m \in Nat /\ Len(b) <= 8 * m
  <2> DEFINE a == Len(b) + 7
             r == a % 8
  <2>1. a \in Nat /\ 8 \in Nat \ {0}
    BY <1>1
  <2> HIDE DEF a
  <2>2. m = a \div 8
    BY DEF Bytes, a
  <2>3. a \div 8 \in Nat /\ r \in Nat /\ r < 8 /\ a = 8 * (a \div 8) + r
    BY <2>1, DivMod
  <2> HIDE DEF m, r
  <2>4. m \in Nat /\ a = 8 * m + r
    BY <2>2, <2>3
  <2> QED BY <1>1, <2>3, <2>4 DEF a
<1> HIDE DEF m
<1> DEFINE z == [k \in 1 .. 8 * m - Len(b) |-> 0]
<1>3. z \in [1 .. 8 * m - Len(b) -> D] /\ 8 * m - Len(b) \in Nat
  BY <1>1, <1>2
<1>4. Flush(b) = b \o z
  BY DEF Flush, m
<1> HIDE DEF z, D
<1>5. z \in Seq(D) /\ Len(z) = 8 * m - Len(b)
  BY <1>3, ListIs
<1>6. b \in Seq(D)
  BY DEF D
<1>7. /\ b \o z \in Seq(D) /\ Len(b \o z) = Len(b) + Len(z)
      /\ \A k \in 1 .. Len(b) : (b \o z)[k] = b[k]
  BY <1>5, <1>6, ConcatIs
<1>8. Len(b \o z) = 8 * m
  BY <1>1, <1>2, <1>5, <1>7
<1>9. Flush(<< >>) = << >>
  <2> DEFINE e == [k \in 1 .. 8 * Bytes(Len(<< >>)) - Len(<< >>) |-> 0]
  <2>1. Flush(<< >>) = << >> \o e
    BY DEF Flush
  <2>2. Bytes(Len(<< >>)) = 0
    <3>1. Len(<< >>) = 0 /\ (0 + 7) \div 8 = 0
      OBVIOUS
    <3> QED BY <3>1 DEF Bytes
  <2>3. 1 .. 8 * Bytes(Len(<< >>)) - Len(<< >>) = {}
    BY <2>2
  <2>4. e = << >>
    BY <2>3
  <2> HIDE DEF e
  <2> QED BY <2>1, <2>4
<1> QED BY <1>2, <1>4, <1>7, <1>8, <1>9 DEF m, D

Stream(kd, sz, bs, act) ==
  [w \in 1 .. Warps(Len(bs), sz) |->
    WarpBits(kd, [i \in DOMAIN Warp(Len(bs), sz, act, w) |-> bs[Warp(Len(bs), sz, act, w)[i]]])]

Cells(kd, sz, bs, act) ==
  <<Magic, kd, sz, Len(bs), IF act = << >> THEN 1 ELSE 0>> \o Flush(act) \o Flush(FlattenSeq(Stream(kd, sz, bs, act)))

LEMMA EncodeIs ==
  ASSUME NEW kd, NEW sz, NEW bs, NEW act
  PROVE  encode([kind |-> kd, warp |-> sz, bits |-> bs, active |-> act]) = Cells(kd, sz, bs, act)
BY DEF encode, Cells, Stream

(* A lane's values after w warps are read. *)
ReadLanes(sz, bs, act, w) ==
  [l \in 1 .. Len(bs) |-> IF l <= w * Width(sz) /\ LaneActive(act, l) THEN bs[l] ELSE 0]

WarpReads(kd, sz, bs, act, w, s, body) ==
  /\ s.at \in Nat /\ s.bits = ReadLanes(sz, bs, act, w - 1)
  /\ Holds(body, s.at, Stream(kd, sz, bs, act)[w])
  => DecodeWarp(kd, body, Warp(Len(bs), sz, act, w), s) =
       [at   |-> s.at + Len(Stream(kd, sz, bs, act)[w]),
        bits |-> ReadLanes(sz, bs, act, w)]

LEMMA StreamIs ==
  ASSUME NEW kd \in {U32, F32}, NEW sz \in Nat, NEW bs \in Seq(Values), NEW act
  PROVE  /\ Stream(kd, sz, bs, act) \in Seq(Seq({0, 1})) /\ Len(Stream(kd, sz, bs, act)) = Warps(Len(bs), sz)
         /\ \A w \in 1 .. Warps(Len(bs), sz) : \A s : \A body \in Seq({0, 1}) :
              WarpReads(kd, sz, bs, act, w, s, body)
<1> DEFINE n == Len(bs)
           m == Warps(n, sz)
           L(w) == Warp(n, sz, act, w)
           vs(w) == [i \in DOMAIN L(w) |-> bs[L(w)[i]]]
           T == Stream(kd, sz, bs, act)
           W == Width(sz)
<1>1. n \in Nat
  OBVIOUS
<1>2. m \in Nat /\ \A w \in 1 .. m : /\ (w - 1) * W \in Nat /\ (w - 1) * W < n
                                     /\ w * W = (w - 1) * W + W /\ W \in Nat \ {0}
  BY <1>1, WarpsCover
<1> HIDE DEF m
<1>3. T = [w \in 1 .. m |-> WarpBits(kd, vs(w))]
  BY DEF Stream, m
<1>4. ASSUME NEW w \in 1 .. m
      PROVE  /\ L(w) \in Seq(Nat) /\ vs(w) \in Seq(Values) /\ Len(vs(w)) = Len(L(w))
             /\ \A i, j \in 1 .. Len(L(w)) : L(w)[i] = L(w)[j] => i = j
             /\ \A i \in 1 .. Len(L(w)) : /\ vs(w)[i] = bs[L(w)[i]] /\ L(w)[i] \in 1 .. n
                                          /\ LaneActive(act, L(w)[i]) /\ L(w)[i] <= w * W
             /\ \A l \in 1 .. n : LaneActive(act, l) /\ (w - 1) * W < l /\ l <= w * W
                  => \E i \in 1 .. Len(L(w)) : L(w)[i] = l
  <2> DEFINE q == L(w)
  <2>1. /\ q \in Seq(Nat)
        /\ \A i, j \in 1 .. Len(q) : q[i] = q[j] => i = j
        /\ \A i \in 1 .. Len(q) : q[i] \in 1 .. n /\ LaneActive(act, q[i]) /\ q[i] <= w * W
        /\ \A l \in 1 .. n : LaneActive(act, l) /\ (w - 1) * W < l /\ l <= w * W
             => \E i \in 1 .. Len(q) : q[i] = l
    <3>1. w \in 1 .. Warps(n, sz)
      BY DEF m
    <3> QED BY <1>1, <3>1, WarpIs
  <2>2. vs(w) = [i \in DOMAIN q |-> bs[q[i]]]
    OBVIOUS
  <2> HIDE DEF q
  <2>3. DOMAIN q = 1 .. Len(q) /\ Len(q) \in Nat
    BY <2>1
  <2> DEFINE v == [i \in DOMAIN q |-> bs[q[i]]]
  <2>4. v \in [1 .. Len(q) -> Values] /\ \A i \in 1 .. Len(q) : v[i] = bs[q[i]]
    BY <2>1, <2>3
  <2> HIDE DEF v
  <2>5. v \in Seq(Values) /\ Len(v) = Len(q)
    BY <2>3, <2>4, ListIs
  <2> QED BY <2>1, <2>2, <2>4, <2>5 DEF v, q
<1> HIDE DEF L, vs, T
<1>5. T \in [1 .. m -> Seq({0, 1})] /\ \A w \in 1 .. m : T[w] = WarpBits(kd, vs(w))
  <2>1. \A w \in 1 .. m : WarpBits(kd, vs(w)) \in Seq({0, 1})
    BY <1>4, WarpBitsType
  <2> QED BY <1>3, <2>1
<1>6. T \in Seq(Seq({0, 1})) /\ Len(T) = m
  <2> DEFINE D == Seq({0, 1})
  <2>1. T \in [1 .. m -> D]
    BY <1>5
  <2> HIDE DEF D
  <2>2. T \in Seq(D) /\ Len(T) = m
    BY <1>2, <2>1, ListIs
  <2> QED BY <2>2 DEF D
<1>7. ASSUME NEW w \in 1 .. m, NEW s, NEW body \in Seq({0, 1}), s.at \in Nat,
             s.bits = ReadLanes(sz, bs, act, w - 1), Holds(body, s.at, T[w])
      PROVE  DecodeWarp(kd, body, L(w), s) = [at |-> s.at + Len(T[w]), bits |-> ReadLanes(sz, bs, act, w)]
  <2> DEFINE d == DecodeWarp(kd, body, L(w), s)
             q == L(w)
             v == vs(w)
             x == ReadLanes(sz, bs, act, w - 1)
             y == ReadLanes(sz, bs, act, w)
  <2>1. T[w] = WarpBits(kd, v)
    BY <1>5
  <2>2. /\ q \in Seq(Nat) /\ v \in Seq(Values) /\ Len(q) = Len(v)
        /\ \A i, j \in 1 .. Len(q) : q[i] = q[j] => i = j
    BY <1>4
  <2>3. Holds(body, s.at, WarpBits(kd, v))
    BY <1>7, <2>1
  <2> HIDE DEF q, v
  <2>4. Reads(DecodeWarp(kd, body, q, s), s, s.at + Len(WarpBits(kd, v)), q, v)
    <3>1. Once(q)
      BY <2>2 DEF Once
    <3> QED BY <1>7, <2>2, <2>3, <3>1, WarpRoundTrip
  <2>5. d = DecodeWarp(kd, body, q, s)
    BY DEF q
  <2> HIDE DEF d
  <2>6. /\ d = [at |-> s.at + Len(T[w]), bits |-> d.bits] /\ d.bits = [l \in DOMAIN s.bits |-> d.bits[l]]
        /\ \A l \in DOMAIN s.bits : l \notin Range(q) => d.bits[l] = s.bits[l]
        /\ \A i \in 1 .. Len(q) : q[i] \in DOMAIN s.bits => d.bits[q[i]] = v[i]
    BY <2>1, <2>4, <2>5 DEF Reads
  <2>7. /\ DOMAIN s.bits = 1 .. n /\ DOMAIN y = 1 .. n /\ y = [l \in 1 .. n |-> y[l]]
        /\ \A l \in 1 .. n : s.bits[l] = IF l <= (w - 1) * W /\ LaneActive(act, l) THEN bs[l] ELSE 0
        /\ \A l \in 1 .. n : y[l] = IF l <= w * W /\ LaneActive(act, l) THEN bs[l] ELSE 0
    BY <1>7 DEF ReadLanes
  <2> HIDE DEF y
  <2>8. ASSUME NEW l \in 1 .. n PROVE d.bits[l] = y[l]
    <3>1. CASE l \in Range(q)
      <4>1. PICK i \in 1 .. Len(q) : l = q[i]
        <5>1. DOMAIN q = 1 .. Len(q)
          BY <2>2
        <5> QED BY <3>1, <5>1 DEF Range
      <4>2. v[i] = bs[q[i]] /\ q[i] \in 1 .. n /\ LaneActive(act, q[i]) /\ q[i] <= w * W
        BY <1>4 DEF q, v
      <4>3. d.bits[l] = bs[l]
        BY <2>6, <2>7, <4>1, <4>2
      <4>4. y[l] = bs[l]
        <5>1. l <= w * W /\ LaneActive(act, l)
          BY <4>1, <4>2
        <5> QED BY <2>7, <5>1
      <4> QED BY <4>3, <4>4
    <3>2. CASE l \notin Range(q)
      <4>1. d.bits[l] = s.bits[l]
        BY <2>6, <2>7, <3>2
      <4>2. ~(LaneActive(act, l) /\ (w - 1) * W < l /\ l <= w * W)
        <5> SUFFICES ASSUME LaneActive(act, l), (w - 1) * W < l, l <= w * W PROVE FALSE
          OBVIOUS
        <5>1. PICK i \in 1 .. Len(q) : q[i] = l
          BY <1>4 DEF q
        <5>2. DOMAIN q = 1 .. Len(q)
          BY <2>2
        <5> QED BY <3>2, <5>1, <5>2 DEF Range
      <4>3. (l <= (w - 1) * W /\ LaneActive(act, l)) <=> (l <= w * W /\ LaneActive(act, l))
        <5> DEFINE a == (w - 1) * W
                   b == w * W
        <5>1. a \in Nat /\ b = a + W /\ W \in Nat /\ ~(LaneActive(act, l) /\ a < l /\ l <= b)
          BY <1>2, <4>2
        <5> HIDE DEF a, b, W
        <5>2. (l <= a /\ LaneActive(act, l)) <=> (l <= b /\ LaneActive(act, l))
          BY <5>1
        <5> QED BY <5>2 DEF a, b
      <4> QED BY <2>7, <4>1, <4>3
    <3> QED BY <3>1, <3>2
  <2>9. d.bits = y
    <3>1. d.bits = [l \in 1 .. n |-> d.bits[l]]
      BY <2>6, <2>7
    <3> QED BY <2>7, <2>8, <3>1
  <2> QED BY <2>6, <2>9 DEF d, y
<1>8. ASSUME NEW w \in 1 .. m, NEW s, NEW body \in Seq({0, 1})
      PROVE  WarpReads(kd, sz, bs, act, w, s, body)
  <2> DEFINE d == DecodeWarp(kd, body, Warp(n, sz, act, w), s)
             e == [at |-> s.at + Len(Stream(kd, sz, bs, act)[w]), bits |-> ReadLanes(sz, bs, act, w)]
  <2>1. s.at \in Nat /\ s.bits = ReadLanes(sz, bs, act, w - 1) /\ Holds(body, s.at, Stream(kd, sz, bs, act)[w]) => d = e
    BY <1>7 DEF L, T
  <2> QED BY <2>1 DEF WarpReads
<1> QED BY <1>6, <1>8 DEF T, m

(* A column comes back as it was, but for the values of inactive lanes,    *)
(* which are not written.                                                  *)
THEOREM CodecExact ==
  ASSUME NEW kd \in {U32, F32}, NEW sz \in Nat, NEW bs \in Seq(Values), NEW act,
         act = << >> \/ (bs # << >> /\ act \in [1 .. Len(bs) -> {0, 1}])
  PROVE  decode(encode([kind |-> kd, warp |-> sz, bits |-> bs, active |-> act])) =
           [kind |-> kd, warp |-> sz, active |-> act,
            bits |-> [l \in 1 .. Len(bs) |-> IF LaneActive(act, l) THEN bs[l] ELSE 0]]
<1> DEFINE n == Len(bs)
           m == Warps(n, sz)
           T == Stream(kd, sz, bs, act)
           flat == FlattenSeq(T)
           fa == Flush(act)
           fb == Flush(flat)
           flag == IF act = << >> THEN 1 ELSE 0
           head == <<Magic, kd, sz, n, flag>>
           cells == head \o fa \o fb
           rest == SubSeq(cells, 6, Len(cells))
           active == IF cells[5] # 0 THEN << >> ELSE [k \in 1 .. n |-> Get(rest, k - 1, 1)]
           body == IF cells[5] # 0 THEN rest ELSE SubSeq(rest, 8 * Bytes(n) + 1, Len(rest))
<1>1. n \in Nat /\ m \in Nat /\ Width(sz) \in Nat /\ n <= m * Width(sz)
  <2>1. n \in Nat
    OBVIOUS
  <2> QED BY <2>1, WarpsCover
<1>2. T \in Seq(Seq({0, 1})) /\ Len(T) = m
  BY StreamIs
<1>3. flat \in Seq({0, 1})
  BY <1>2, FlattenAt
<1>4. PICK off : Offsets(T, off) /\ JoinOf(flat, T, off)
  BY <1>2, FlattenAt
<1>5. act \in Seq({0, 1}) /\ (act # << >> => Len(act) = n /\ n # 0)
  <2>1. CASE act = << >>
    BY <2>1
  <2>2. CASE act # << >>
    <3>1. act \in [1 .. n -> {0, 1}] /\ n # 0
      BY <2>2
    <3> HIDE DEF n
    <3> QED BY <1>1, <3>1, ListIs
  <2> QED BY <2>1, <2>2
<1>6. /\ fa \in Seq({0, 1}) /\ Len(fa) = 8 * Bytes(Len(act)) /\ \A k \in 1 .. Len(act) : fa[k] = act[k]
      /\ Len(act) <= Len(fa) /\ Len(fa) \in Nat
      /\ act = << >> => fa = << >>
  <2>1. /\ fa \in Seq({0, 1}) /\ Len(fa) = 8 * Bytes(Len(act)) /\ \A k \in 1 .. Len(act) : fa[k] = act[k]
        /\ Len(act) <= Len(fa)
    BY <1>5, FlushIs
  <2>2. act = << >> => fa = << >>
    <3>1. << >> \in Seq({0, 1})
      OBVIOUS
    <3> QED BY <3>1, FlushIs
  <2> HIDE DEF fa
  <2> QED BY <2>1, <2>2
<1>7. /\ fb \in Seq({0, 1}) /\ \A k \in 1 .. Len(flat) : fb[k] = flat[k]
      /\ Len(flat) <= Len(fb) /\ Len(fb) \in Nat
  BY <1>3, FlushIs
<1>8. encode([kind |-> kd, warp |-> sz, bits |-> bs, active |-> act]) = cells
  BY EncodeIs DEF Cells
<1> HIDE DEF fa, fb, flat, T, m
<1>9. /\ Len(cells) = 5 + (Len(fa) + Len(fb)) /\ cells[1] = Magic /\ cells[2] = kd /\ cells[3] = sz
      /\ cells[4] = n /\ cells[5] = flag /\ rest = fa \o fb
  <2> DEFINE D == {Magic, kd, sz, n, flag, 0, 1}
             all == fa \o fb
  <2>1. head \in Seq(D) /\ Len(head) = 5 /\ fa \in Seq(D) /\ fb \in Seq(D)
    <3>1. {0, 1} \subseteq D
      OBVIOUS
    <3>2. head \in Seq(D) /\ Len(head) = 5
      OBVIOUS
    <3> HIDE DEF D, head
    <3> QED BY <1>6, <1>7, <3>1, <3>2, WiderSequence
  <2>2. head[1] = Magic /\ head[2] = kd /\ head[3] = sz /\ head[4] = n /\ head[5] = flag
    OBVIOUS
  <2> HIDE DEF D, head, all
  <2>3. all \in Seq(D) /\ Len(all) = Len(fa) + Len(fb) /\ cells = head \o all
    BY <2>1, ConcatIs, ConcatThree DEF all
  <2>4. /\ cells \in Seq(D) /\ Len(cells) = 5 + Len(all) /\ \A k \in 1 .. 5 : cells[k] = head[k]
        /\ \A k \in 1 .. Len(all) : cells[5 + k] = all[k]
    <3> DEFINE z == head \o all
    <3>0. cells = z
      BY <2>3
    <3> HIDE DEF cells
    <3>1. z \in Seq(D) /\ Len(z) = Len(head) + Len(all)
      BY <2>1, <2>3, ConcatIs
    <3>5. head \in Seq(D) /\ all \in Seq(D)
      BY <2>1, <2>3
    <3>2. \A k \in 1 .. Len(head) : z[k] = head[k]
      BY <3>5, ConcatIs
    <3>3. \A k \in 1 .. Len(all) : z[Len(head) + k] = all[k]
      BY <3>5, ConcatIs
    <3> HIDE DEF z
    <3> QED BY <2>1, <3>0, <3>1, <3>2, <3>3
  <2>5. rest = all
    <3>1. Len(all) \in Nat /\ 6 <= Len(cells) + 1
      BY <2>3, <2>4
    <3>2. rest \in Seq(D) /\ Len(rest) = Len(all) /\ \A k \in 1 .. Len(all) : rest[k] = cells[5 + k]
      <4> HIDE DEF cells
      <4> QED BY <2>4, <3>1
    <3> HIDE DEF rest, cells
    <3> QED BY <2>3, <2>4, <3>2, SameSequence
  <2> HIDE DEF cells, rest
  <2>6. 1 \in 1 .. 5 /\ 2 \in 1 .. 5 /\ 3 \in 1 .. 5 /\ 4 \in 1 .. 5 /\ 5 \in 1 .. 5
    OBVIOUS
  <2>7. cells[1] = head[1] /\ cells[2] = head[2] /\ cells[3] = head[3] /\ cells[4] = head[4] /\ cells[5] = head[5]
    BY <2>4, <2>6
  <2>8. Len(cells) = 5 + (Len(fa) + Len(fb)) /\ rest = fa \o fb
    BY <2>3, <2>4, <2>5 DEF all
  <2> QED BY <2>2, <2>7, <2>8
<1> HIDE DEF cells, rest
<1>10. active = act /\ body = fb
  <2>1. CASE act = << >>
    <3>1. cells[5] = 1 /\ fa = << >>
      BY <1>6, <1>9, <2>1
    <3>2. rest = fb
      BY <1>7, <1>9, <3>1, ConcatNothing
    <3> QED BY <2>1, <3>1, <3>2
  <2>2. CASE act # << >>
    <3>1. cells[5] = 0 /\ Len(act) = n /\ Len(fa) = 8 * Bytes(n)
      BY <1>5, <1>6, <1>9, <2>2
    <3>2. /\ rest \in Seq({0, 1}) /\ Len(rest) = Len(fa) + Len(fb)
          /\ \A k \in 1 .. Len(fa) : rest[k] = fa[k]
          /\ \A k \in 1 .. Len(fb) : rest[Len(fa) + k] = fb[k]
      <4> DEFINE D == {0, 1}
                 e == fa \o fb
      <4>1. fa \in Seq(D) /\ fb \in Seq(D)
        BY <1>6, <1>7
      <4> HIDE DEF D
      <4>2. e \in Seq(D) /\ Len(e) = Len(fa) + Len(fb)
        BY <4>1, ConcatIs
      <4>3. \A k \in 1 .. Len(fa) : e[k] = fa[k]
        BY <4>1, ConcatIs
      <4>4. \A k \in 1 .. Len(fb) : e[Len(fa) + k] = fb[k]
        BY <4>1, ConcatIs
      <4>5. rest = e
        BY <1>9
      <4> HIDE DEF e
      <4> QED BY <4>2, <4>3, <4>4, <4>5 DEF D
    <3>3. ASSUME NEW k \in 1 .. n PROVE Get(rest, k - 1, 1) = act[k]
      <4>1. k - 1 \in Nat /\ (k - 1) + 1 = k /\ act[k] \in {0, 1} /\ k \in 1 .. Len(fa) /\ rest[k] = act[k]
        BY <1>1, <1>5, <1>6, <3>1, <3>2
      <4>2. Holds(rest, k - 1, <<act[k]>>)
        <5> DEFINE x == <<act[k]>>
        <5>1. Len(x) = 1 /\ x[1] = act[k]
          OBVIOUS
        <5> HIDE DEF x
        <5>2. \A j \in 1 .. Len(x) : rest[(k - 1) + j] = x[j]
          BY <4>1, <5>1
        <5>3. (k - 1) + Len(x) <= Len(rest)
          BY <1>6, <1>7, <3>2, <4>1, <5>1
        <5> QED BY <5>2, <5>3 DEF Holds, x
      <4> QED BY <3>2, <4>1, <4>2, BitHeld
    <3>4. active = act
      <4>1. active = [k \in 1 .. n |-> Get(rest, k - 1, 1)]
        BY <3>1
      <4>2. act = [k \in 1 .. n |-> act[k]]
        BY <2>2
      <4> HIDE DEF active
      <4> QED BY <3>3, <4>1, <4>2
    <3>5. body = fb
      <4>1. body = SubSeq(rest, Len(fa) + 1, Len(fa) + Len(fb))
        BY <3>1, <3>2
      <4> HIDE DEF body
      <4>2. body \in Seq({0, 1}) /\ Len(body) = Len(fb) /\ \A k \in 1 .. Len(fb) : body[k] = rest[Len(fa) + k]
        <5> DEFINE a == Len(fa)
                   b == Len(fb)
                   D == {0, 1}
        <5>1. a \in Nat /\ b \in Nat /\ rest \in Seq(D) /\ Len(rest) = a + b /\ body = SubSeq(rest, a + 1, a + b)
          BY <1>6, <1>7, <3>2, <4>1
        <5> HIDE DEF a, b, D
        <5>2. body \in Seq(D) /\ Len(body) = b /\ \A k \in 1 .. b : body[k] = rest[a + k]
          BY <5>1
        <5> QED BY <5>2 DEF a, b, D
      <4> QED BY <1>7, <3>2, <4>2, SameSequence
    <3> QED BY <3>4, <3>5
  <2> QED BY <2>1, <2>2
<1> DEFINE R(f) == [w \in 0 .. m |-> IF w = 0 THEN [at |-> 0, bits |-> [k \in 1 .. n |-> 0]]
                      ELSE DecodeWarp(kd, fb, Warp(n, sz, act, w), f[w - 1])]
           g == [w \in 0 .. m |-> [at |-> off[w], bits |-> ReadLanes(sz, bs, act, w)]]
           f == CHOOSE f : f = R(f)
<1>11. decode(cells) = [kind |-> kd, warp |-> sz, bits |-> f[m].bits, active |-> act]
  <2> DEFINE F == CHOOSE F : F = [w \in 0 .. Warps(cells[4], cells[3]) |->
                     IF w = 0 THEN [at |-> 0, bits |-> [k \in 1 .. cells[4] |-> 0]]
                     ELSE DecodeWarp(cells[2], body, Warp(cells[4], cells[3], active, w), F[w - 1])]
  <2>1. ~(Len(cells) < 2 \/ cells[1] # Magic)
    BY <1>6, <1>7, <1>9
  <2>2. active = IF cells[5] # 0 THEN << >> ELSE [k \in 1 .. cells[4] |-> Get(rest, k - 1, 1)]
    BY <1>9
  <2>3. body = IF cells[5] # 0 THEN rest ELSE SubSeq(rest, 8 * Bytes(cells[4]) + 1, Len(rest))
    BY <1>9
  <2>4. decode(cells) = [kind |-> cells[2], warp |-> cells[3], bits |-> F[Warps(cells[4], cells[3])].bits, active |-> active]
    <3> HIDE DEF active, body
    <3> QED BY <2>1, <2>2, <2>3 DEF decode, rest
  <2>5. F = f
    <3> HIDE DEF active, body, n
    <3> QED BY <1>9, <1>10 DEF m
  <2> HIDE DEF F, f, active, body
  <2> QED BY <1>9, <1>10, <2>4, <2>5 DEF m
<1>12. g = R(g)
  <2>1. off[0] = 0 /\ \A w \in 1 .. m : off[w] = off[w - 1] + Len(T[w])
    BY <1>2, <1>4 DEF Offsets
  <2>2. \A w \in 0 .. m : off[w] \in Nat
    BY <1>2, <1>4 DEF Offsets
  <2>3. ASSUME NEW w \in 1 .. m
        PROVE  g[w] = DecodeWarp(kd, fb, Warp(n, sz, act, w), g[w - 1])
    <3>1. w - 1 \in 0 .. m /\ w \in 0 .. m
      BY <1>1
    <3>2. g[w - 1] = [at |-> off[w - 1], bits |-> ReadLanes(sz, bs, act, w - 1)]
      BY <3>1
    <3> DEFINE s == g[w - 1]
    <3>3. s.at = off[w - 1] /\ s.bits = ReadLanes(sz, bs, act, w - 1) /\ s.at \in Nat
      BY <2>2, <3>1, <3>2
    <3>4. g[w] = [at |-> off[w], bits |-> ReadLanes(sz, bs, act, w)]
      BY <3>1
    <3> HIDE DEF s, g
    <3>5. Holds(fb, s.at, T[w])
      <4>1. /\ off[w] <= Len(flat) /\ \A j \in 1 .. Len(T[w]) : flat[off[w - 1] + j] = T[w][j]
            /\ off[w] = off[w - 1] + Len(T[w])
        BY <1>2, <1>4, <2>1 DEF JoinOf
      <4>2. Len(T[w]) \in Nat /\ Len(flat) \in Nat /\ off[w - 1] \in Nat
        <5>1. T[w] \in Seq({0, 1})
          BY <1>2
        <5> QED BY <1>3, <2>2, <3>1, <5>1
      <4>3. off[w - 1] + Len(T[w]) <= Len(fb)
        <5> DEFINE a == off[w - 1]
                   b == off[w]
                   c == Len(T[w])
        <5>1. b <= Len(flat) /\ b = a + c /\ a \in Nat /\ c \in Nat
          BY <4>1, <4>2
        <5> HIDE DEF a, b, c
        <5>2. a + c <= Len(fb)
          BY <1>7, <4>2, <5>1
        <5> QED BY <5>2 DEF a, c
      <4>4. ASSUME NEW j \in 1 .. Len(T[w]) PROVE fb[off[w - 1] + j] = T[w][j]
        <5> DEFINE a == off[w - 1]
                   b == off[w]
                   c == Len(T[w])
                   i == a + j
        <5>1. b <= Len(flat) /\ b = a + c /\ a \in Nat /\ c \in Nat /\ j \in 1 .. c
          BY <4>1, <4>2
        <5>2. flat[i] = T[w][j]
          BY <4>1
        <5> HIDE DEF a, b, c
        <5>3. i \in 1 .. Len(flat)
          BY <4>2, <5>1
        <5> HIDE DEF i
        <5>4. fb[i] = flat[i]
          BY <1>7, <5>3
        <5> QED BY <5>2, <5>4 DEF i, a
      <4> QED BY <3>3, <4>3, <4>4 DEF Holds
    <3>6. DecodeWarp(kd, fb, Warp(n, sz, act, w), s) =
            [at |-> s.at + Len(T[w]), bits |-> ReadLanes(sz, bs, act, w)]
      <4>1. w \in 1 .. Warps(Len(bs), sz) /\ fb \in Seq({0, 1})
        BY <1>7 DEF m, n
      <4>2. WarpReads(kd, sz, bs, act, w, s, fb)
        BY <4>1, StreamIs
      <4> QED BY <3>3, <3>5, <4>2 DEF T, WarpReads
    <3> QED BY <2>1, <3>3, <3>4, <3>6 DEF s
  <2>4. g[0] = [at |-> 0, bits |-> [k \in 1 .. n |-> 0]]
    <3>1. ReadLanes(sz, bs, act, 0) = [k \in 1 .. n |-> 0]
      <4>1. 0 * Width(sz) = 0
        BY <1>1
      <4>2. \A l \in 1 .. n : ~(l <= 0)
        OBVIOUS
      <4> QED BY <4>1, <4>2 DEF ReadLanes
    <3>2. 0 \in 0 .. m
      BY <1>1
    <3> QED BY <2>1, <3>1, <3>2
  <2>5. g = [w \in 0 .. m |-> g[w]]
    OBVIOUS
  <2>6. \A w \in 0 .. m : w # 0 => w \in 1 .. m
    BY <1>1
  <2> HIDE DEF g, n
  <2> QED BY <2>3, <2>4, <2>5, <2>6
<1>13. f = R(f)
  <2> HIDE DEF g, R
  <2> QED BY <1>12
<1>14. f[m] = g[m]
  <2> HIDE DEF f, g, n
  <2>1. ContinueAlike(f, g, m)
    <3>1. f[0] = g[0]
      <4>1. 0 \in 0 .. m
        BY <1>1
      <4> QED BY <1>12, <1>13, <4>1
    <3>2. ASSUME NEW w \in 1 .. m, f[w - 1] = g[w - 1] PROVE f[w] = g[w]
      <4>1. w \in 0 .. m /\ w # 0
        BY <1>1
      <4>2. f[w] = DecodeWarp(kd, fb, Warp(n, sz, act, w), f[w - 1])
        BY <1>13, <4>1
      <4>3. g[w] = DecodeWarp(kd, fb, Warp(n, sz, act, w), g[w - 1])
        BY <1>12, <4>1
      <4> QED BY <3>2, <4>2, <4>3
    <3> QED BY <3>1, <3>2 DEF ContinueAlike
  <2>2. m \in 0 .. m /\ m \in Nat
    BY <1>1
  <2> QED BY <2>1, <2>2, SameRecursion
<1>15. g[m].bits = [l \in 1 .. n |-> IF LaneActive(act, l) THEN bs[l] ELSE 0]
  <2>1. g[m].bits = ReadLanes(sz, bs, act, m)
    <3>1. m \in 0 .. m
      BY <1>1
    <3> QED BY <3>1
  <2>2. \A l \in 1 .. n : l <= m * Width(sz)
    <3> DEFINE p == m * Width(sz)
    <3>1. n <= p /\ p \in Nat /\ n \in Nat
      BY <1>1
    <3> HIDE DEF p, n
    <3>2. \A l \in 1 .. n : l <= p
      BY <3>1
    <3> QED BY <3>2 DEF p
  <2> HIDE DEF g
  <2> QED BY <2>1, <2>2 DEF ReadLanes
<1> HIDE DEF f, g
<1> QED BY <1>8, <1>11, <1>14, <1>15

-----------------------------------------------------------------------------
(* Sequences that are expanded element by element.                         *)

LEMMA AppendTwo ==
  ASSUME NEW T, NEW r \in Seq(T), NEW q \in Seq(T), NEW x \in T
  PROVE  r \o Append(q, x) = Append(r \o q, x) /\ r \o << >> = r
OBVIOUS

(* G is a function from T to U. *)
Takes(G, T, U) == G \in [T -> U]

Mapped(q, G) == [k \in DOMAIN q |-> G[q[k]]]

LEMMA MapIs ==
  ASSUME NEW T, NEW U, NEW G, Takes(G, T, U), NEW q \in Seq(T)
  PROVE  /\ Mapped(q, G) \in Seq(U) /\ Len(Mapped(q, G)) = Len(q)
         /\ \A k \in 1 .. Len(q) : Mapped(q, G)[k] = G[q[k]]
<1> DEFINE m == Mapped(q, G)
<1>1. Len(q) \in Nat /\ DOMAIN q = 1 .. Len(q) /\ \A k \in 1 .. Len(q) : q[k] \in T
  OBVIOUS
<1>2. m \in [1 .. Len(q) -> U] /\ \A k \in 1 .. Len(q) : m[k] = G[q[k]]
  BY <1>1 DEF Mapped, Takes
<1> HIDE DEF m
<1>3. m \in Seq(U) /\ Len(m) = Len(q)
  BY <1>1, <1>2, ListIs
<1> QED BY <1>2, <1>3 DEF m

LEMMA MapAppend ==
  ASSUME NEW T, NEW U, NEW G, Takes(G, T, U), NEW q \in Seq(T), NEW x \in T
  PROVE  Mapped(Append(q, x), G) = Append(Mapped(q, G), G[x]) /\ Mapped(<< >>, G) = << >>
<1> DEFINE r == Append(q, x)
           m == Mapped(r, G)
           u == Mapped(q, G)
           v == Append(u, G[x])
<1>1. /\ r \in Seq(T) /\ Len(r) = Len(q) + 1 /\ r[Len(q) + 1] = x /\ \A k \in 1 .. Len(q) : r[k] = q[k]
  BY AppendIs
<1> HIDE DEF r
<1>2. m \in Seq(U) /\ Len(m) = Len(r) /\ \A k \in 1 .. Len(r) : m[k] = G[r[k]]
  BY <1>1, MapIs
<1>3. u \in Seq(U) /\ Len(u) = Len(q) /\ \A k \in 1 .. Len(q) : u[k] = G[q[k]]
  <2>1. u \in Seq(U) /\ Len(u) = Len(q)
    BY MapIs
  <2>2. \A k \in 1 .. Len(q) : u[k] = G[q[k]]
    BY MapIs
  <2> QED BY <2>1, <2>2
<1>4. Len(q) \in Nat /\ G[x] \in U
  BY DEF Takes
<1> HIDE DEF m, u
<1>5. /\ v \in Seq(U) /\ Len(v) = Len(u) + 1 /\ v[Len(u) + 1] = G[x] /\ \A k \in 1 .. Len(u) : v[k] = u[k]
  BY <1>3, <1>4, AppendIs
<1> HIDE DEF v
<1>6. \A k \in 1 .. Len(m) : m[k] = v[k]
  BY <1>1, <1>2, <1>3, <1>4, <1>5
<1>7. m = v
  BY <1>1, <1>2, <1>3, <1>5, <1>6, SameSequence
<1>8. Mapped(<< >>, G) = << >>
  BY DEF Mapped
<1> QED BY <1>7, <1>8 DEF m, v, u, r

Expand(q, E) == FlattenSeq(Mapped(q, E))

LEMMA ExpandAppend ==
  ASSUME NEW T, NEW U, NEW E, Takes(E, T, Seq(U)), NEW q \in Seq(T), NEW x \in T
  PROVE  /\ Expand(q, E) \in Seq(U) /\ Expand(<< >>, E) = << >>
         /\ Expand(Append(q, x), E) = Expand(q, E) \o E[x]
<1> DEFINE D == Seq(U)
<1>1. Takes(E, T, D) /\ E[x] \in D
  BY DEF Takes
<1>2. Mapped(q, E) \in Seq(D)
  <2> HIDE DEF D
  <2> QED BY <1>1, MapIs
<1>3. Mapped(Append(q, x), E) = Append(Mapped(q, E), E[x]) /\ Mapped(<< >>, E) = << >>
  <2> HIDE DEF D
  <2> QED BY <1>1, MapAppend
<1> DEFINE m == Mapped(q, E)
           y == E[x]
<1>4. m \in Seq(Seq(U)) /\ y \in Seq(U)
  BY <1>1, <1>2
<1> HIDE DEF m, y
<1>5. FlattenSeq(Append(m, y)) = FlattenSeq(m) \o y /\ FlattenSeq(m) \in Seq(U) /\ FlattenSeq(<< >>) = << >>
  BY <1>4, FlattenAppend
<1> QED BY <1>3, <1>5 DEF Expand, m, y

LEMMA ExpandNothing == ASSUME NEW E PROVE Expand(<< >>, E) = << >>
<1>1. Mapped(<< >>, E) = << >>
  BY DEF Mapped
<1>2. << >> \in Seq(Seq({1})) /\ << >> \in Seq({1})
  OBVIOUS
<1>3. FlattenSeq(<< >>) = << >>
  BY <1>2, FlattenAppend
<1> QED BY <1>1, <1>3 DEF Expand

LEMMA ExpandType ==
  ASSUME NEW T, NEW U, NEW E, Takes(E, T, Seq(U)), NEW q \in Seq(T)
  PROVE  Expand(q, E) \in Seq(U)
<1> DEFINE P == {r \in Seq(T) : Expand(r, E) \in Seq(U)}
<1>1. << >> \in P
  <2>1. << >> \in Seq(T) /\ << >> \in Seq(U)
    OBVIOUS
  <2> QED BY <2>1, ExpandNothing
<1>2. ASSUME NEW r \in Seq(T), NEW x \in T, r \in P PROVE Append(r, x) \in P
  <2>1. Append(r, x) \in Seq(T) /\ Expand(Append(r, x), E) = Expand(r, E) \o E[x]
    BY AppendIs, ExpandAppend
  <2>2. Expand(r, E) \in Seq(U) /\ E[x] \in Seq(U)
    BY <1>2 DEF Takes
  <2>3. Expand(r, E) \o E[x] \in Seq(U)
    BY <2>2, ConcatIs
  <2> QED BY <2>1, <2>3
<1>3. Seq(T) \subseteq P
  <2> HIDE DEF P
  <2> QED BY <1>1, <1>2, SequencesAll
<1> QED BY <1>3

LEMMA ConcatMore ==
  ASSUME NEW T, NEW r \in Seq(T), NEW s \in Seq(T), NEW t \in Seq(T)
  PROVE  (r \o s) \o t = r \o (s \o t)
OBVIOUS

LEMMA ExpandConcat ==
  ASSUME NEW T, NEW U, NEW E, Takes(E, T, Seq(U)), NEW q \in Seq(T), NEW r \in Seq(T)
  PROVE  Expand(q \o r, E) = Expand(q, E) \o Expand(r, E)
<1> DEFINE P == {t \in Seq(T) : Expand(q \o t, E) = Expand(q, E) \o Expand(t, E)}
<1>1. << >> \in P
  <2>1. << >> \in Seq(T) /\ q \o << >> = q /\ Expand(q, E) \in Seq(U)
    BY ConcatNothing, ExpandType
  <2>2. Expand(q, E) \o << >> = Expand(q, E)
    BY <2>1, ConcatNothing
  <2> QED BY <2>1, <2>2, ExpandNothing
<1>2. ASSUME NEW t \in Seq(T), NEW x \in T, t \in P PROVE Append(t, x) \in P
  <2> DEFINE a == Expand(q, E)
             b == Expand(t, E)
             c == E[x]
             y == q \o t
  <2>4. Expand(y, E) = a \o b
    BY <1>2
  <2> HIDE DEF P
  <2>1. Append(t, x) \in Seq(T) /\ Expand(Append(t, x), E) = b \o c
    BY AppendIs, ExpandAppend
  <2>2. y \in Seq(T) /\ q \o Append(t, x) = Append(y, x)
    BY ConcatIs, AppendTwo
  <2> HIDE DEF y
  <2>3. Expand(Append(y, x), E) = Expand(y, E) \o c
    BY <2>2, ExpandAppend
  <2>5. a \in Seq(U) /\ b \in Seq(U) /\ c \in Seq(U)
    BY ExpandType DEF Takes
  <2> HIDE DEF a, b, c
  <2>6. (a \o b) \o c = a \o (b \o c)
    BY <2>5, ConcatMore
  <2>7. Expand(q \o Append(t, x), E) = a \o Expand(Append(t, x), E)
    BY <2>1, <2>2, <2>3, <2>4, <2>6
  <2> QED BY <2>1, <2>7 DEF a, P
<1>3. Seq(T) \subseteq P
  <2> HIDE DEF P
  <2> QED BY <1>1, <1>2, SequencesAll
<1> QED BY <1>3

(* Block by block, or all blocks at once. *)
LEMMA ExpandFlatten ==
  ASSUME NEW T, NEW U, NEW E, Takes(E, T, Seq(U)), NEW s \in Seq(Seq(T))
  PROVE  FlattenSeq([b \in DOMAIN s |-> Expand(s[b], E)]) = Expand(FlattenSeq(s), E)
<1> DEFINE D == Seq(T)
           X == [r \in D |-> Expand(r, E)]
           P == {t \in Seq(D) : Expand(t, X) = Expand(FlattenSeq(t), E)}
<1>1. Takes(X, D, Seq(U)) /\ \A r \in D : X[r] = Expand(r, E)
  BY ExpandType DEF Takes
<1>2. << >> \in P
  <2>1. << >> \in Seq(D) /\ << >> \in Seq(Seq(T)) /\ << >> \in Seq(T)
    OBVIOUS
  <2>2. FlattenSeq(<< >>) = << >>
    BY <2>1, FlattenAppend
  <2> HIDE DEF X, D
  <2> QED BY <2>1, <2>2, ExpandNothing
<1>3. ASSUME NEW t \in Seq(D), NEW x \in D, t \in P PROVE Append(t, x) \in P
  <2> DEFINE a == FlattenSeq(t)
  <2>1. FlattenSeq(Append(t, x)) = a \o x /\ a \in Seq(T)
    <3>1. t \in Seq(Seq(T)) /\ x \in Seq(T)
      OBVIOUS
    <3> QED BY <3>1, FlattenAppend
  <2>2. x \in Seq(T) /\ X[x] = Expand(x, E)
    BY <1>1
  <2> HIDE DEF X, D, a
  <2>3. Append(t, x) \in Seq(D) /\ Expand(Append(t, x), X) = Expand(t, X) \o X[x]
    BY <1>1, AppendIs, ExpandAppend
  <2>4. Expand(a \o x, E) = Expand(a, E) \o Expand(x, E)
    BY <2>1, <2>2, ExpandConcat
  <2>5. Expand(t, X) = Expand(a, E)
    BY <1>3 DEF a
  <2> QED BY <2>1, <2>2, <2>3, <2>4, <2>5
<1>4. Seq(D) \subseteq P
  <2> HIDE DEF P, D
  <2> QED BY <1>2, <1>3, SequencesAll
<1>5. Mapped(s, X) = [b \in DOMAIN s |-> Expand(s[b], E)]
  <2>1. DOMAIN s = 1 .. Len(s) /\ \A b \in 1 .. Len(s) : s[b] \in D
    OBVIOUS
  <2> HIDE DEF X, D
  <2> QED BY <1>1, <2>1 DEF Mapped
<1>6. Expand(s, X) = Expand(FlattenSeq(s), E)
  <2>1. s \in P
    BY <1>4
  <2> QED BY <2>1
<1> HIDE DEF X
<1> QED BY <1>5, <1>6 DEF Expand

LEMMA KeepConcat ==
  ASSUME NEW T, NEW S, NEW q \in Seq(T), NEW r \in Seq(T)
  PROVE  Keep(q \o r, S) = Keep(q, S) \o Keep(r, S)
<1> DEFINE P == {t \in Seq(T) : Keep(q \o t, S) = Keep(q, S) \o Keep(t, S)}
<1>0. Keep(q, S) \in Seq(T) /\ \A t \in Seq(T) : Keep(t, S) \in Seq(T)
  BY KeepType
<1>1. << >> \in P
  <2>1. << >> \in Seq(T) /\ q \o << >> = q /\ Keep(q, S) \o << >> = Keep(q, S)
    BY <1>0, ConcatNothing
  <2> QED BY <2>1, KeepNothing
<1>2. ASSUME NEW t \in Seq(T), NEW x \in T, t \in P PROVE Append(t, x) \in P
  <2> DEFINE a == Keep(q, S)
             b == Keep(t, S)
             y == q \o t
  <2>1. Append(t, x) \in Seq(T) /\ y \in Seq(T) /\ q \o Append(t, x) = Append(y, x)
    BY AppendIs, ConcatIs, AppendTwo
  <2>2. Keep(Append(t, x), S) = IF x \in S THEN Append(b, x) ELSE b
    BY KeepAppend
  <2>3. Keep(y, S) = a \o b
    BY <1>2
  <2> HIDE DEF y
  <2>4. Keep(Append(y, x), S) = IF x \in S THEN Append(Keep(y, S), x) ELSE Keep(y, S)
    BY <2>1, KeepAppend
  <2>5. a \in Seq(T) /\ b \in Seq(T)
    BY <1>0
  <2> HIDE DEF a, b
  <2>6. a \o Append(b, x) = Append(a \o b, x)
    BY <2>5, AppendTwo
  <2>7. Keep(q \o Append(t, x), S) = a \o Keep(Append(t, x), S)
    BY <2>1, <2>2, <2>3, <2>4, <2>6
  <2> QED BY <2>1, <2>7 DEF a
<1>3. Seq(T) \subseteq P
  <2> HIDE DEF P
  <2> QED BY <1>1, <1>2, SequencesAll
<1> QED BY <1>3

(* Of each expansion, the elements of R are those G gives for the members  *)
(* of W.                                                                   *)
Yields(T, E, R, G, W) == \A x \in T : Keep(E[x], R) = IF x \in W THEN <<G[x]>> ELSE << >>

LEMMA KeepExpand ==
  ASSUME NEW T, NEW U, NEW E, Takes(E, T, Seq(U)), NEW R, NEW G, Takes(G, T, U), NEW W,
         Yields(T, E, R, G, W), NEW q \in Seq(T)
  PROVE  Keep(Expand(q, E), R) = Mapped(Keep(q, W), G)
<1> DEFINE P == {t \in Seq(T) : Keep(Expand(t, E), R) = Mapped(Keep(t, W), G)}
<1>1. << >> \in P
  <2>1. << >> \in Seq(T) /\ Mapped(<< >>, G) = << >>
    BY DEF Mapped
  <2> QED BY <2>1, KeepNothing, ExpandNothing
<1>2. ASSUME NEW t \in Seq(T), NEW x \in T, t \in P PROVE Append(t, x) \in P
  <2> DEFINE a == Expand(t, E)
             b == E[x]
             c == Keep(t, W)
  <2>6. Keep(a, R) = Mapped(c, G)
    BY <1>2
  <2> HIDE DEF P
  <2>1. Append(t, x) \in Seq(T) /\ Expand(Append(t, x), E) = a \o b
    BY AppendIs, ExpandAppend
  <2>2. a \in Seq(U) /\ b \in Seq(U)
    BY ExpandType DEF Takes
  <2>3. Keep(b, R) = IF x \in W THEN <<G[x]>> ELSE << >>
    BY DEF Yields
  <2>4. Keep(Append(t, x), W) = IF x \in W THEN Append(c, x) ELSE c
    BY KeepAppend
  <2>5. c \in Seq(T)
    BY KeepType
  <2> HIDE DEF a, b, c
  <2>7. Keep(a \o b, R) = Keep(a, R) \o Keep(b, R)
    BY <2>2, KeepConcat
  <2>8. Mapped(c, G) \in Seq(U) /\ G[x] \in U
    BY <2>5, MapIs DEF Takes
  <2>9. Mapped(Append(c, x), G) = Append(Mapped(c, G), G[x])
    BY <2>5, MapAppend
  <2> DEFINE m == Mapped(c, G)
             g == G[x]
  <2>10. m \o <<g>> = Append(m, g) /\ m \o << >> = m
    <3> HIDE DEF m, g
    <3>1. m \in Seq(U) /\ g \in U
      BY <2>8 DEF m, g
    <3> QED BY <3>1, AppendIs, ConcatNothing
  <2>11. CASE x \in W
    BY <2>1, <2>3, <2>4, <2>6, <2>7, <2>9, <2>10, <2>11 DEF P
  <2>12. CASE x \notin W
    BY <2>1, <2>3, <2>4, <2>6, <2>7, <2>10, <2>12 DEF P
  <2> QED BY <2>11, <2>12
<1>3. Seq(T) \subseteq P
  <2> HIDE DEF P
  <2> QED BY <1>1, <1>2, SequencesAll
<1> QED BY <1>3

(* Every element of a joined sequence is an element of a part. *)
LEMMA PartOf ==
  ASSUME NEW S, NEW s \in Seq(Seq(S)), NEW off, Offsets(s, off)
  PROVE  \A i \in 1 .. off[Len(s)] : \E k \in 1 .. Len(s) : \E j \in 1 .. Len(s[k]) : i = off[k - 1] + j
<1> DEFINE n == Len(s)
           M == {m \in Nat : m <= n => \A i \in 1 .. off[m] :
                              \E k \in 1 .. m : \E j \in 1 .. Len(s[k]) : i = off[k - 1] + j}
<1>1. /\ n \in Nat /\ off[0] = 0 /\ \A k \in 0 .. n : off[k] \in Nat
  <2>1. n \in Nat
    OBVIOUS
  <2>2. off \in [0 .. n -> Nat] /\ off[0] = 0
    BY DEF Offsets
  <2> HIDE DEF n
  <2> QED BY <2>1, <2>2
<1>2. \A k \in 1 .. n : off[k] = off[k - 1] + Len(s[k]) /\ Len(s[k]) \in Nat
  <2>1. \A k \in 1 .. n : off[k] = off[k - 1] + Len(s[k])
    BY DEF Offsets
  <2>2. \A k \in 1 .. n : s[k] \in Seq(S)
    OBVIOUS
  <2> QED BY <2>1, <2>2
<1> HIDE DEF n
<1>3. 0 \in M
  BY <1>1
<1>4. ASSUME NEW m \in Nat, m \in M PROVE m + 1 \in M
  <2> SUFFICES ASSUME m + 1 <= n, NEW i \in 1 .. off[m + 1]
               PROVE  \E k \in 1 .. m + 1 : \E j \in 1 .. Len(s[k]) : i = off[k - 1] + j
    OBVIOUS
  <2> DEFINE a == off[m]
             c == Len(s[m + 1])
  <2>1. m \in 0 .. n /\ m + 1 \in 1 .. n /\ (m + 1) - 1 = m /\ m + 1 \in 1 .. m + 1
    BY <1>1
  <2>2. a \in Nat /\ c \in Nat /\ off[m + 1] = a + c
    BY <1>1, <1>2, <2>1
  <2>3. CASE i <= a
    <3>1. i \in 1 .. a
      BY <2>2, <2>3
    <3>4. m <= n
      BY <1>1, <2>1
    <3>5. \A h \in 1 .. off[m] : \E k \in 1 .. m : \E j \in 1 .. Len(s[k]) : h = off[k - 1] + j
      BY <1>4, <3>4
    <3>2. PICK k \in 1 .. m : \E j \in 1 .. Len(s[k]) : i = off[k - 1] + j
      BY <3>1, <3>5
    <3>3. k \in 1 .. m + 1
      OBVIOUS
    <3> QED BY <3>2, <3>3
  <2>4. CASE ~(i <= a)
    <3> HIDE DEF a, c
    <3>1. i - a \in 1 .. c /\ i = a + (i - a)
      BY <2>2, <2>4
    <3>2. i = off[(m + 1) - 1] + (i - a)
      BY <2>1, <3>1 DEF a
    <3> QED BY <2>1, <3>1, <3>2 DEF c
  <2> QED BY <2>3, <2>4
<1>5. n \in M
  <2> HIDE DEF M
  <2> QED BY <1>1, <1>3, <1>4, InductionAt
<1>6. \A i \in 1 .. off[n] : \E k \in 1 .. n : \E j \in 1 .. Len(s[k]) : i = off[k - 1] + j
  BY <1>1, <1>5
<1> QED BY <1>6 DEF n

AllParts(s, off) ==
  \A i \in 1 .. off[Len(s)] : \E k \in 1 .. Len(s) : \E j \in 1 .. Len(s[k]) : i = off[k - 1] + j

LEMMA PartsAre ==
  ASSUME NEW S, NEW s \in Seq(Seq(S)), NEW off, Offsets(s, off)
  PROVE  AllParts(s, off)
BY PartOf DEF AllParts

-----------------------------------------------------------------------------
(* The program with its taps.                                              *)

(* What a pass taps when the region of interest is A, in layout order.     *)
WantedIn(A) == {in \in Instructions : in.capturable /\ in.value \in A}
Captured(A) == Keep(FlattenSeq(Program), WantedIn(A))
NumberIn(A, in) == (CHOOSE k \in DOMAIN Captured(A) : Captured(A)[k] = in) - 1
TapFor(A) == [in \in Instructions |-> Tap(in.value, NumberIn(A, in))]
Tapping(A) == [in \in Instructions |-> IF in \in WantedIn(A) THEN <<in, TapFor(A)[in]>> ELSE <<in>>]
TappedCode(A) == [b \in DOMAIN Program |-> Expand(Program[b], Tapping(A))]
SiteTable(A) == [k \in DOMAIN Captured(A) |-> [id |-> k - 1, value |-> Captured(A)[k].value]]
Coded(A) == Instructions \union {TapFor(A)[in] : in \in Instructions}

LEMMA TapIs ==
  ASSUME NEW v, NEW i
  PROVE  Tap(v, i).op = "tap" /\ Tap(v, i).value = v /\ Tap(v, i).site = i /\ ~Tap(v, i).capturable
BY DEF Tap

LEMMA TappingIs ==
  ASSUME NEW A
  PROVE  /\ Takes(Tapping(A), Instructions, Seq(Coded(A))) /\ Takes(TapFor(A), Instructions, Coded(A))
         /\ \A in \in Instructions : /\ TapFor(A)[in] = Tap(in.value, NumberIn(A, in)) /\ TapFor(A)[in].op = "tap"
                                     /\ TapFor(A)[in].value = in.value
         /\ \A in \in Instructions :
              Tapping(A)[in] = IF in \in WantedIn(A) THEN <<in, TapFor(A)[in]>> ELSE <<in>>
<1> DEFINE g == TapFor(A)
           e == Tapping(A)
           I == Instructions
           C == Coded(A)
<1>1. g = [in \in I |-> Tap(in.value, NumberIn(A, in))]
  BY DEF TapFor
<1>2. \A in \in I : g[in] = Tap(in.value, NumberIn(A, in)) /\ g[in].op = "tap" /\ g[in].value = in.value
  <2> HIDE DEF I, g
  <2> SUFFICES ASSUME NEW in \in I
               PROVE  g[in] = Tap(in.value, NumberIn(A, in)) /\ g[in].op = "tap" /\ g[in].value = in.value
    OBVIOUS
  <2>1. g[in] = Tap(in.value, NumberIn(A, in))
    BY <1>1
  <2> QED BY <2>1, TapIs
<1>3. \A in \in I : in \in C /\ g[in] \in C
  BY DEF Coded
<1>4. e = [in \in I |-> IF in \in WantedIn(A) THEN <<in, g[in]>> ELSE <<in>>]
  BY DEF Tapping
<1> HIDE DEF I, g, e, C
<1>5. \A in \in I : e[in] = IF in \in WantedIn(A) THEN <<in, g[in]>> ELSE <<in>>
  BY <1>4
<1>6. Takes(e, I, Seq(C))
  <2>1. \A in \in I : <<in, g[in]>> \in Seq(C) /\ <<in>> \in Seq(C)
    BY <1>3
  <2>2. e \in [I -> Seq(C)]
    BY <1>4, <2>1
  <2> QED BY <2>2 DEF Takes
<1>7. Takes(g, I, C)
  <2>1. g = [in \in I |-> g[in]]
    BY <1>1
  <2> QED BY <1>3, <2>1 DEF Takes
<1> QED BY <1>2, <1>5, <1>6, <1>7 DEF I, g, e, C

LEMMA ProgramIs ==
  /\ Program \in Seq(Seq(Instructions)) /\ DOMAIN Program = 1 .. Len(Program) /\ Len(Program) \in Nat
  /\ \A b \in 1 .. Len(Program) : Program[b] \in Seq(Instructions) /\ Program[b] # << >>
<1>1. Program \in Seq(Seq(Instructions))
  BY ProgramAssumption
<1> DEFINE D == Seq(Instructions)
<1>2. \A b \in DOMAIN Program : Program[b] # << >>
  BY ProgramAssumption
<1>3. Program \in Seq(D)
  BY <1>1
<1> HIDE DEF D
<1>4. DOMAIN Program = 1 .. Len(Program) /\ Len(Program) \in Nat /\ \A b \in 1 .. Len(Program) : Program[b] \in D
  BY <1>3
<1> QED BY <1>1, <1>2, <1>4 DEF D

LEMMA BlockIs ==
  ASSUME NEW b \in 1 .. Len(Program), NEW k \in 1 .. Len(Program[b])
  PROVE  /\ Program[b][k] \in Instructions /\ Program[b][k].op # "tap"
         /\ Program[b][k].op \in Terminators <=> k = Len(Program[b])
         /\ Program[b][k].op = "return" => b = Len(Program)
<1>1. Program[b] \in Seq(Instructions) /\ b \in DOMAIN Program
  BY ProgramIs
<1>2. k \in DOMAIN Program[b] /\ Program[b][k] \in Instructions
  BY <1>1
<1> QED BY <1>1, <1>2, ProgramAssumption

LEMMA InstructionIs ==
  ASSUME NEW in \in Instructions
  PROVE  /\ in.op # "tap"
         /\ in.capturable => in.op \notin Terminators /\ in.value # NoValue
         /\ in.capturable => \A x \in Inputs : Compute(in.value, x) \in Values
<1>1. PICK b \in DOMAIN Program : in \in Range(Program[b])
  BY DEF Instructions
<1>2. PICK k \in DOMAIN Program[b] : in = Program[b][k]
  BY <1>1 DEF Range
<1> QED BY <1>1, <1>2, ProgramAssumption

LEMMA LayoutIs ==
  /\ FlattenSeq(Program) \in Seq(Instructions)
  /\ \A i, j \in 1 .. Len(FlattenSeq(Program)) :
       FlattenSeq(Program)[i].value = FlattenSeq(Program)[j].value
       => i = j \/ FlattenSeq(Program)[i].value = NoValue
<1> DEFINE all == FlattenSeq(Program)
<1>1. all \in Seq(Instructions)
  BY ProgramIs, FlattenAt
<1>2. \A i, j \in DOMAIN all : all[i].value = all[j].value => i = j \/ all[i].value = NoValue
  BY ProgramAssumption
<1> HIDE DEF all
<1>3. DOMAIN all = 1 .. Len(all)
  BY <1>1
<1> QED BY <1>1, <1>2, <1>3 DEF all

(* Sites are numbered in layout order, and no two have the same value.     *)
LEMMA CapturedIs ==
  ASSUME NEW A
  PROVE  /\ Captured(A) \in Seq(Instructions) /\ Len(Captured(A)) \in Nat
         /\ \A k \in 1 .. Len(Captured(A)) : Captured(A)[k] \in WantedIn(A) /\ NumberIn(A, Captured(A)[k]) = k - 1
         /\ \A i, j \in 1 .. Len(Captured(A)) : Captured(A)[i].value = Captured(A)[j].value => i = j
<1> DEFINE all == FlattenSeq(Program)
           W == WantedIn(A)
           c == Captured(A)
<1>1. all \in Seq(Instructions)
  BY LayoutIs
<1>2. c = Keep(all, W)
  BY DEF Captured
<1>0. \A i, j \in 1 .. Len(all) : all[i].value = all[j].value => i = j \/ all[i].value = NoValue
  BY LayoutIs
<1> HIDE DEF all, W, c
<1>3. c \in Seq(Instructions)
  BY <1>1, <1>2, KeepType
<1>4. PICK h : Picks(h, all, W)
  BY <1>1, KeepPicks
<1>5. Len(c) \in Nat /\ Len(all) \in Nat
  BY <1>1, <1>3
<1>6. h \in [1 .. Len(c) -> 1 .. Len(all)]
  BY <1>2, <1>4 DEF Picks
<1>7. \A i, j \in 1 .. Len(c) : i < j => h[i] < h[j]
  BY <1>2, <1>4 DEF Picks
<1>8. \A k \in 1 .. Len(c) : c[k] = all[h[k]] /\ c[k] \in W
  BY <1>2, <1>4 DEF Picks
<1>9. ASSUME NEW i \in 1 .. Len(c), NEW j \in 1 .. Len(c), c[i].value = c[j].value PROVE i = j
  <2>1. h[i] \in 1 .. Len(all) /\ h[j] \in 1 .. Len(all)
    BY <1>6
  <2>2. c[i] \in Instructions /\ c[i].capturable
    BY <1>8 DEF W, WantedIn
  <2>3. c[i].value # NoValue
    BY <2>2, InstructionIs
  <2>4. h[i] = h[j]
    BY <1>0, <1>8, <1>9, <2>1, <2>3
  <2>5. ~(i < j) /\ ~(j < i)
    <3>1. h[i] \in Nat /\ h[j] \in Nat
      BY <1>5, <2>1
    <3>2. i < j => h[i] < h[j]
      BY <1>7
    <3>3. j < i => h[j] < h[i]
      BY <1>7
    <3> QED BY <2>4, <3>1, <3>2, <3>3
  <2> QED BY <1>5, <2>5
<1>10. ASSUME NEW k \in 1 .. Len(c) PROVE NumberIn(A, c[k]) = k - 1
  <2>1. DOMAIN c = 1 .. Len(c)
    BY <1>3
  <2>2. \A i \in DOMAIN c : c[i] = c[k] => i = k
    BY <1>9, <2>1
  <2>3. (CHOOSE i \in DOMAIN c : c[i] = c[k]) = k
    BY <2>1, <2>2
  <2>4. NumberIn(A, c[k]) = (CHOOSE i \in DOMAIN c : c[i] = c[k]) - 1
    BY DEF NumberIn, c
  <2> QED BY <2>3, <2>4
<1> QED BY <1>3, <1>5, <1>8, <1>9, <1>10 DEF c, W

LEMMA AppendPair ==
  ASSUME NEW T, NEW x \in T, NEW y \in T
  PROVE  Append(<<x>>, y) = <<x, y>>
<1>1. <<x>> \in Seq(T) /\ <<x, y>> \in Seq(T)
  OBVIOUS
<1>2. Len(<<x>>) = 1 /\ <<x>>[1] = x /\ Len(<<x, y>>) = 2 /\ <<x, y>>[1] = x /\ <<x, y>>[2] = y
  OBVIOUS
<1> DEFINE u == <<x>>
           v == <<x, y>>
           w == Append(u, y)
<1>3. u \in Seq(T) /\ v \in Seq(T) /\ Len(u) = 1 /\ u[1] = x /\ Len(v) = 2 /\ v[1] = x /\ v[2] = y
  BY <1>1, <1>2
<1> HIDE DEF u, v
<1>4. w \in Seq(T) /\ Len(w) = Len(u) + 1
  BY <1>3, AppendIs
<1>5. w[Len(u) + 1] = y /\ \A k \in 1 .. Len(u) : w[k] = u[k]
  <2>0. u \in Seq(T)
    BY <1>3
  <2>1. w[Len(u) + 1] = y
    BY <2>0, AppendIs
  <2>2. \A k \in 1 .. Len(u) : w[k] = u[k]
    BY <2>0, AppendIs
  <2> QED BY <2>1, <2>2
<1> HIDE DEF w
<1>6. \A k \in 1 .. Len(w) : w[k] = v[k]
  BY <1>3, <1>4, <1>5
<1>7. w = v
  BY <1>3, <1>4, <1>6, SameSequence
<1> QED BY <1>7 DEF u, v, w

LEMMA KeepOne ==
  ASSUME NEW T, NEW S, NEW x \in T
  PROVE  Keep(<<x>>, S) = IF x \in S THEN <<x>> ELSE << >>
<1> DEFINE e == << >>
<1>0. e \in Seq(T)
  OBVIOUS
<1>1. Append(e, x) = <<x>>
  OBVIOUS
<1>2. Keep(e, S) = e
  BY KeepNothing
<1> HIDE DEF e
<1>3. Keep(Append(e, x), S) = IF x \in S THEN Append(Keep(e, S), x) ELSE Keep(e, S)
  BY <1>0, KeepAppend
<1> QED BY <1>1, <1>2, <1>3 DEF e

LEMMA KeepSecond ==
  ASSUME NEW T, NEW S, NEW x \in T, NEW y \in T, x \notin S, y \in S
  PROVE  Keep(<<x, y>>, S) = <<y>>
<1> DEFINE u == <<x>>
           e == << >>
<1>1. u \in Seq(T)
  OBVIOUS
<1>2. Append(u, y) = <<x, y>>
  BY AppendPair
<1>3. Append(e, y) = <<y>>
  OBVIOUS
<1>4. Keep(u, S) = e
  BY KeepOne
<1> HIDE DEF u, e
<1>5. Keep(Append(u, y), S) = IF y \in S THEN Append(Keep(u, S), y) ELSE Keep(u, S)
  BY <1>1, KeepAppend
<1> QED BY <1>2, <1>3, <1>4, <1>5

(* All blocks at once. *)
LEMMA TappedFlat ==
  ASSUME NEW A
  PROVE  /\ FlattenSeq(TappedCode(A)) = Expand(FlattenSeq(Program), Tapping(A))
         /\ FlattenSeq(TappedCode(A)) \in Seq(Coded(A))
<1>1. Program \in Seq(Seq(Instructions)) /\ FlattenSeq(Program) \in Seq(Instructions)
  BY ProgramIs, LayoutIs
<1>2. Takes(Tapping(A), Instructions, Seq(Coded(A)))
  BY TappingIs
<1> DEFINE e == Tapping(A)
<1> HIDE DEF e
<1>3. FlattenSeq([b \in DOMAIN Program |-> Expand(Program[b], e)]) = Expand(FlattenSeq(Program), e)
  BY <1>1, <1>2, ExpandFlatten DEF e
<1>4. Expand(FlattenSeq(Program), e) \in Seq(Coded(A))
  BY <1>1, <1>2, ExpandType DEF e
<1> QED BY <1>3, <1>4 DEF e, TappedCode

LEMMA TapsOfTapped ==
  ASSUME NEW A
  PROVE  /\ Taps(FlattenSeq(TappedCode(A))) = [k \in 1 .. Len(Captured(A)) |-> Tap(Captured(A)[k].value, k - 1)]
<1> DEFINE I == Instructions
           C == Coded(A)
           e == Tapping(A)
           g == TapFor(A)
           W == WantedIn(A)
           R == {x \in C : x.op = "tap"}
           run == FlattenSeq(TappedCode(A))
           c == Captured(A)
           all == FlattenSeq(Program)
<1>1. /\ Takes(e, I, Seq(C)) /\ Takes(g, I, C) /\ all \in Seq(I) /\ run = Expand(all, e) /\ run \in Seq(C)
      /\ c = Keep(all, W) /\ c \in Seq(I) /\ Len(c) \in Nat
  BY TappingIs, LayoutIs, TappedFlat, CapturedIs DEF Captured
<1>2. Yields(I, e, R, g, W)
  <2> SUFFICES ASSUME NEW x \in I PROVE Keep(e[x], R) = IF x \in W THEN <<g[x]>> ELSE << >>
    BY DEF Yields
  <2>1. x \in C /\ g[x] \in C /\ x.op # "tap" /\ g[x].op = "tap"
    BY InstructionIs, TappingIs DEF Coded
  <2>2. e[x] = IF x \in W THEN <<x, g[x]>> ELSE <<x>>
    BY TappingIs
  <2> HIDE DEF C, g, e, W, I
  <2>3. x \notin R /\ g[x] \in R
    BY <2>1
  <2> HIDE DEF R
  <2>4. Keep(<<x>>, R) = << >> /\ Keep(<<x, g[x]>>, R) = <<g[x]>>
    <3>1. Keep(<<x>>, R) = IF x \in R THEN <<x>> ELSE << >>
      BY <2>1, KeepOne
    <3>2. Keep(<<x, g[x]>>, R) = <<g[x]>>
      BY <2>1, <2>3, KeepSecond
    <3> QED BY <2>3, <3>1, <3>2
  <2> QED BY <2>2, <2>4
<1>3. Taps(run) = Keep(run, R)
  <2> DEFINE S == {in \in Range(run) : in.op = "tap"}
  <2> HIDE DEF C, run
  <2>1. DOMAIN run = 1 .. Len(run) /\ \A i \in 1 .. Len(run) : run[i] \in C
    BY <1>1
  <2>2. \A i \in 1 .. Len(run) : run[i] \in S <=> run[i] \in R
    BY <2>1 DEF Range
  <2> HIDE DEF S, R
  <2>3. Keep(run, S) = Keep(run, R)
    BY <1>1, <2>2, KeepSame
  <2> QED BY <2>3 DEF Taps, S
<1>4. Keep(run, R) = Mapped(c, g)
  <2> HIDE DEF I, C, e, g, W, R, run, c, all
  <2> QED BY <1>1, <1>2, KeepExpand
<1>5. \A k \in 1 .. Len(c) : g[c[k]] = Tap(c[k].value, k - 1)
  <2> SUFFICES ASSUME NEW k \in 1 .. Len(c) PROVE g[c[k]] = Tap(c[k].value, k - 1)
    OBVIOUS
  <2>1. c[k] \in I /\ NumberIn(A, c[k]) = k - 1
    BY CapturedIs
  <2> QED BY <2>1, TappingIs
<1>6. DOMAIN c = 1 .. Len(c)
  <2> HIDE DEF c, I
  <2> QED BY <1>1
<1>7. Mapped(c, g) = [k \in 1 .. Len(c) |-> Tap(c[k].value, k - 1)]
  <2> HIDE DEF c, g
  <2> QED BY <1>5, <1>6 DEF Mapped
<1> QED BY <1>3, <1>4, <1>7

(* Where the elements of an expanded block are: the k-th instruction at    *)
(* pos[k], its tap, if it has one, right behind it.                        *)
Places(A, s, t, pos) ==
  /\ pos \in [1 .. Len(s) -> 1 .. Len(t)]
  /\ \A k \in 1 .. Len(s) : t[pos[k]] = s[k]
  /\ \A k \in 1 .. Len(s) : s[k] \in WantedIn(A) => pos[k] + 1 \in 1 .. Len(t) /\ t[pos[k] + 1] = TapFor(A)[s[k]]
  /\ \A i \in 1 .. Len(t) : \E k \in 1 .. Len(s) : i = pos[k] \/ (s[k] \in WantedIn(A) /\ i = pos[k] + 1)
  /\ \A k \in 1 .. Len(s) : k = Len(s) /\ s[k] \notin WantedIn(A) => pos[k] = Len(t)

LEMMA PlacesIs ==
  ASSUME NEW A, NEW s \in Seq(Instructions)
  PROVE  Expand(s, Tapping(A)) \in Seq(Coded(A)) /\ \E pos : Places(A, s, Expand(s, Tapping(A)), pos)
<1> DEFINE I == Instructions
           C == Coded(A)
           e == Tapping(A)
           g == TapFor(A)
           W == WantedIn(A)
           D == Seq(C)
           m == Mapped(s, e)
           t == Expand(s, e)
           n == Len(s)
<1>1. Takes(e, I, D)
  BY TappingIs
<1>2. \A x \in I : e[x] = IF x \in W THEN <<x, g[x]>> ELSE <<x>>
  BY TappingIs
<1>3. s \in Seq(I)
  OBVIOUS
<1>4. m \in Seq(D) /\ Len(m) = n /\ n \in Nat
  <2>1. m \in Seq(D) /\ Len(m) = n
    <3> HIDE DEF D, e, I
    <3> QED BY <1>1, <1>3, MapIs
  <2> QED BY <2>1
<1>5. \A k \in 1 .. n : m[k] = e[s[k]] /\ s[k] \in I
  <2>1. \A k \in 1 .. Len(s) : m[k] = e[s[k]]
    <3> HIDE DEF D, e, I
    <3> QED BY <1>1, <1>3, MapIs
  <2> HIDE DEF I, m, e
  <2> QED BY <1>3, <2>1
<1>6. m \in Seq(Seq(C)) /\ t = FlattenSeq(m)
  BY <1>4 DEF Expand
<1> HIDE DEF m, t, n, C, e, g, W, I
<1>7. t \in Seq(C) /\ \E off : Offsets(m, off) /\ JoinOf(t, m, off)
  BY <1>6, FlattenAt
<1>8. PICK off : Offsets(m, off) /\ JoinOf(t, m, off)
  BY <1>7
<1>9. off \in [0 .. n -> Nat] /\ Len(t) = off[n] /\ Len(t) \in Nat
  BY <1>4, <1>7, <1>8 DEF Offsets, JoinOf
<1>10. ASSUME NEW k \in 1 .. n
       PROVE  /\ off[k - 1] \in Nat /\ off[k] = off[k - 1] + Len(m[k]) /\ off[k] <= Len(t)
              /\ t[off[k - 1] + 1] = s[k]
              /\ Len(m[k]) = IF s[k] \in W THEN 2 ELSE 1
              /\ s[k] \in W => t[off[k - 1] + 2] = g[s[k]]
  <2>1. k - 1 \in 0 .. n
    BY <1>4
  <2>2. off[k - 1] \in Nat
    BY <1>9, <2>1
  <2>3. off[k] = off[k - 1] + Len(m[k])
    BY <1>4, <1>8 DEF Offsets
  <2>4. off[k] <= Len(t)
    BY <1>4, <1>8 DEF JoinOf
  <2>5. \A j \in 1 .. Len(m[k]) : t[off[k - 1] + j] = m[k][j]
    BY <1>4, <1>8 DEF JoinOf
  <2>6. CASE s[k] \in W
    <3>1. m[k] = <<s[k], g[s[k]]>>
      BY <1>2, <1>5, <2>6
    <3>2. Len(m[k]) = 2 /\ m[k][1] = s[k] /\ m[k][2] = g[s[k]]
      BY <3>1
    <3>3. 1 \in 1 .. Len(m[k]) /\ 2 \in 1 .. Len(m[k])
      BY <3>2
    <3> QED BY <2>2, <2>3, <2>4, <2>5, <2>6, <3>2, <3>3
  <2>7. CASE s[k] \notin W
    <3>1. m[k] = <<s[k]>>
      BY <1>2, <1>5, <2>7
    <3>2. Len(m[k]) = 1 /\ m[k][1] = s[k]
      BY <3>1
    <3>3. 1 \in 1 .. Len(m[k])
      BY <3>2
    <3> QED BY <2>2, <2>3, <2>4, <2>5, <2>7, <3>2, <3>3
  <2> QED BY <2>6, <2>7
<1> DEFINE pos == [k \in 1 .. n |-> off[k - 1] + 1]
<1>11. \A k \in 1 .. n : pos[k] = off[k - 1] + 1
  OBVIOUS
<1>12. pos \in [1 .. n -> 1 .. Len(t)]
  <2> SUFFICES ASSUME NEW k \in 1 .. n PROVE off[k - 1] + 1 \in 1 .. Len(t)
    OBVIOUS
  <2> DEFINE a == off[k - 1]
             b == off[k]
             l == Len(m[k])
  <2>1. a \in Nat /\ b = a + l /\ b <= Len(t) /\ l \in {1, 2}
    BY <1>10
  <2> HIDE DEF a, b, l
  <2>2. a + 1 \in 1 .. Len(t)
    BY <1>9, <2>1
  <2> QED BY <2>2 DEF a
<1> HIDE DEF pos
<1>13. ASSUME NEW k \in 1 .. n PROVE t[pos[k]] = s[k]
  BY <1>10, <1>11
<1>14. ASSUME NEW k \in 1 .. n, s[k] \in W PROVE pos[k] + 1 \in 1 .. Len(t) /\ t[pos[k] + 1] = g[s[k]]
  <2> DEFINE a == off[k - 1]
             b == off[k]
             l == Len(m[k])
  <2>1. a \in Nat /\ b = a + l /\ b <= Len(t) /\ l = 2 /\ pos[k] = a + 1
    BY <1>10, <1>11, <1>14
  <2>2. t[a + 2] = g[s[k]]
    BY <1>10, <1>14
  <2> HIDE DEF a, b, l
  <2>3. pos[k] + 1 = a + 2 /\ a + 2 \in 1 .. Len(t)
    BY <1>9, <2>1
  <2> QED BY <2>2, <2>3
<1>15. ASSUME NEW i \in 1 .. Len(t)
       PROVE  \E k \in 1 .. n : i = pos[k] \/ (s[k] \in W /\ i = pos[k] + 1)
  <2>1. \A h \in 1 .. off[Len(m)] : \E k \in 1 .. Len(m) : \E j \in 1 .. Len(m[k]) : h = off[k - 1] + j
    <3>1. m \in Seq(Seq(C))
      BY <1>6
    <3>2. Offsets(m, off)
      BY <1>8
    <3> QED BY <3>1, <3>2, PartOf
  <2>2. i \in 1 .. off[Len(m)]
    BY <1>4, <1>9
  <2>3. PICK k \in 1 .. n : \E j \in 1 .. Len(m[k]) : i = off[k - 1] + j
    BY <1>4, <2>1, <2>2
  <2>4. PICK j \in 1 .. Len(m[k]) : i = off[k - 1] + j
    BY <2>3
  <2> DEFINE a == off[k - 1]
             l == Len(m[k])
  <2>5. a \in Nat /\ pos[k] = a + 1 /\ i = a + j /\ j \in 1 .. l /\ l = IF s[k] \in W THEN 2 ELSE 1
    BY <1>10, <1>11, <2>4
  <2> HIDE DEF a, l
  <2>6. j = 1 \/ (s[k] \in W /\ j = 2)
    BY <2>5
  <2>7. i = pos[k] \/ (s[k] \in W /\ i = pos[k] + 1)
    BY <2>5, <2>6
  <2> QED BY <2>7
<1>16. ASSUME NEW k \in 1 .. n, k = n, s[k] \notin W PROVE pos[k] = Len(t)
  <2> DEFINE a == off[k - 1]
             b == off[k]
  <2>1. pos[k] = a + 1 /\ b = a + Len(m[k]) /\ Len(m[k]) = 1 /\ b = Len(t)
    BY <1>9, <1>10, <1>11, <1>16
  <2> QED BY <2>1
<1>17. Places(A, s, t, pos)
  BY <1>12, <1>13, <1>14, <1>15, <1>16 DEF Places, n, g, W
<1> QED BY <1>7, <1>17 DEF t, C, e

(* A tapped block, like the block it comes from, ends in its only          *)
(* terminator; a tap is behind the definition of its value; what the       *)
(* region of interest asks for has a tap.                                  *)
BlockTapped(A, t, last) ==
  /\ t # << >>
  /\ \A i \in 1 .. Len(t) : t[i].op \in Terminators <=> i = Len(t)
  /\ \A i \in 1 .. Len(t) : t[i].op = "return" => last
  /\ \A i \in 1 .. Len(t) : t[i].op = "tap" =>
       i > 1 /\ t[i - 1].value = t[i].value /\ t[i - 1].op # "tap"
  /\ \A i \in 1 .. Len(t) : t[i].op # "tap" /\ t[i].capturable /\ t[i].value \in A =>
       \E j \in 1 .. Len(t) : t[j].op = "tap" /\ t[j].value = t[i].value

LEMMA TappedBlock ==
  ASSUME NEW A, NEW b \in 1 .. Len(Program)
  PROVE  /\ TappedCode(A)[b] \in Seq(Coded(A)) /\ BlockTapped(A, TappedCode(A)[b], b = Len(Program))
<1> DEFINE s == Program[b]
           n == Len(s)
           t == Expand(s, Tapping(A))
           W == WantedIn(A)
           g == TapFor(A)
<1>1. s \in Seq(Instructions) /\ s # << >> /\ b \in DOMAIN Program
  BY ProgramIs
<1>2. n \in Nat /\ n \in 1 .. n
  BY <1>1
<1>3. ASSUME NEW k \in 1 .. n
      PROVE  /\ s[k] \in Instructions /\ s[k].op # "tap"
             /\ s[k].op \in Terminators <=> k = n
             /\ s[k].op = "return" => b = Len(Program)
  BY BlockIs
<1>4. \A x \in W : x \in Instructions /\ x.capturable /\ x.value \in A /\ x.op \notin Terminators
  BY InstructionIs DEF WantedIn
<1>5. \A x \in Instructions : g[x].op = "tap" /\ g[x].value = x.value
  BY TappingIs
<1>6. "tap" \notin Terminators
  BY DEF Terminators
<1>7. TappedCode(A)[b] = t
  BY <1>1 DEF TappedCode
<1> HIDE DEF s
<1>8. t \in Seq(Coded(A)) /\ \E pos : Places(A, s, t, pos)
  BY <1>1, PlacesIs
<1> HIDE DEF t, n, W, g
<1>9. PICK pos : Places(A, s, t, pos)
  BY <1>8
<1>10. Len(t) \in Nat
  BY <1>8
<1>11. pos \in [1 .. n -> 1 .. Len(t)] /\ \A k \in 1 .. n : t[pos[k]] = s[k]
  BY <1>9 DEF Places, n
<1>12. \A k \in 1 .. n : s[k] \in W => pos[k] + 1 \in 1 .. Len(t) /\ t[pos[k] + 1] = g[s[k]]
  BY <1>9 DEF Places, n, W, g
<1>13. \A i \in 1 .. Len(t) : \E k \in 1 .. n : i = pos[k] \/ (s[k] \in W /\ i = pos[k] + 1)
  BY <1>9 DEF Places, n, W
<1>14. pos[n] = Len(t)
  <2>1. s[n].op \in Terminators
    BY <1>2, <1>3
  <2>2. s[n] \notin W
    BY <1>4, <2>1
  <2>3. \A k \in 1 .. n : k = n /\ s[k] \notin W => pos[k] = Len(t)
    BY <1>9 DEF Places, n, W
  <2> QED BY <1>2, <2>2, <2>3
<1>15. ASSUME NEW i \in 1 .. Len(t)
       PROVE  /\ t[i].op \in Terminators <=> i = Len(t)
              /\ t[i].op = "return" => b = Len(Program)
              /\ t[i].op = "tap" => i > 1 /\ t[i - 1].value = t[i].value /\ t[i - 1].op # "tap"
              /\ t[i].op # "tap" /\ t[i].capturable /\ t[i].value \in A
                 => \E j \in 1 .. Len(t) : t[j].op = "tap" /\ t[j].value = t[i].value
  <2>1. PICK k \in 1 .. n : i = pos[k] \/ (s[k] \in W /\ i = pos[k] + 1)
    BY <1>13
  <2>2. /\ s[k] \in Instructions /\ s[k].op # "tap" /\ (s[k].op \in Terminators <=> k = n)
        /\ (s[k].op = "return" => b = Len(Program))
    BY <1>3
  <2>3. pos[k] \in 1 .. Len(t) /\ t[pos[k]] = s[k] /\ pos[n] \in 1 .. Len(t) /\ t[pos[n]] = s[n] /\ s[n].op \in Terminators
    BY <1>2, <1>3, <1>11
  <2>4. CASE i = pos[k]
    <3>1. t[i] = s[k]
      BY <2>3, <2>4
    <3>2. t[i].op \in Terminators <=> i = Len(t)
      <4>1. ASSUME t[i].op \in Terminators PROVE i = Len(t)
        <5>1. k = n
          BY <2>2, <3>1, <4>1
        <5> QED BY <1>14, <2>4, <5>1
      <4>2. ASSUME i = Len(t) PROVE t[i].op \in Terminators
        BY <1>14, <2>3, <4>2
      <4> QED BY <4>1, <4>2
    <3>3. t[i].capturable /\ t[i].value \in A => \E j \in 1 .. Len(t) : t[j].op = "tap" /\ t[j].value = t[i].value
      <4> SUFFICES ASSUME t[i].capturable, t[i].value \in A
                   PROVE  \E j \in 1 .. Len(t) : t[j].op = "tap" /\ t[j].value = t[i].value
        OBVIOUS
      <4>1. s[k] \in W
        BY <2>2, <3>1 DEF W, WantedIn
      <4>2. pos[k] + 1 \in 1 .. Len(t) /\ t[pos[k] + 1] = g[s[k]]
        BY <1>12, <4>1
      <4>3. t[pos[k] + 1].op = "tap" /\ t[pos[k] + 1].value = t[i].value
        BY <1>5, <2>2, <3>1, <4>2
      <4> QED BY <4>2, <4>3
    <3> QED BY <2>2, <3>1, <3>2, <3>3
  <2>5. CASE s[k] \in W /\ i = pos[k] + 1
    <3>1. t[i] = g[s[k]] /\ t[i].op = "tap" /\ t[i].value = s[k].value
      BY <1>5, <1>12, <2>2, <2>5
    <3>2. i > 1 /\ i - 1 = pos[k] /\ t[i - 1] = s[k]
      BY <1>10, <2>3, <2>5
    <3>3. i # Len(t)
      BY <1>6, <1>14, <2>3, <3>1
    <3>4. "tap" # "return" /\ t[i].op \notin Terminators
      BY <1>6, <3>1
    <3> QED BY <2>2, <3>1, <3>2, <3>3, <3>4
  <2> QED BY <2>1, <2>4, <2>5
<1>16. t # << >>
  <2>1. pos[n] \in 1 .. Len(t)
    BY <1>2, <1>11
  <2>2. Len(t) # 0
    BY <2>1
  <2> QED BY <2>2
<1>17. BlockTapped(A, t, b = Len(Program))
  BY <1>15, <1>16 DEF BlockTapped
<1> QED BY <1>7, <1>8, <1>17

(* With the only return at the very end, all blocks run. *)
LEMMA ExecutedAll ==
  ASSUME NEW U, NEW blocks \in Seq(Seq(U)),
         \A b \in 1 .. Len(blocks) : \A i \in 1 .. Len(blocks[b]) :
           blocks[b][i].op = "return" => b = Len(blocks) /\ i = Len(blocks[b])
  PROVE  Executed(blocks) = FlattenSeq(blocks)
<1> DEFINE all == FlattenSeq(blocks)
           returns == {k \in DOMAIN all : all[k].op = "return"}
           n == Len(blocks)
<1>1. PICK off : Offsets(blocks, off) /\ JoinOf(all, blocks, off)
  BY FlattenAt
<1>2. all \in Seq(U) /\ Len(all) \in Nat /\ DOMAIN all = 1 .. Len(all)
  <2>1. all \in Seq(U)
    BY FlattenAt
  <2> HIDE DEF all
  <2> QED BY <2>1
<1>3. Executed(blocks) = SubSeq(all, 1, IF returns = {} THEN Len(all) ELSE Min(returns))
  BY DEF Executed
<1>4. ASSUME NEW i \in 1 .. Len(all), all[i].op = "return" PROVE i = Len(all)
  <2>1. \A h \in 1 .. off[Len(blocks)] : \E k \in 1 .. Len(blocks) : \E j \in 1 .. Len(blocks[k]) : h = off[k - 1] + j
    BY <1>1, PartOf
  <2>2. Len(all) = off[n]
    BY <1>1 DEF JoinOf
  <2>3. PICK k \in 1 .. n : \E j \in 1 .. Len(blocks[k]) : i = off[k - 1] + j
    BY <2>1, <2>2
  <2>4. PICK j \in 1 .. Len(blocks[k]) : i = off[k - 1] + j
    BY <2>3
  <2>5. all[off[k - 1] + j] = blocks[k][j] /\ off[k] = off[k - 1] + Len(blocks[k])
    BY <1>1 DEF JoinOf, Offsets
  <2>6. k = n /\ j = Len(blocks[k])
    BY <1>4, <2>4, <2>5
  <2> QED BY <2>2, <2>4, <2>5, <2>6
<1> HIDE DEF all, n
<1>5. returns = {} \/ returns = {Len(all)}
  <2>1. \A i \in returns : i = Len(all)
    BY <1>2, <1>4
  <2> QED BY <2>1
<1>6. returns # {} => Min(returns) = Len(all)
  <2> SUFFICES ASSUME returns # {} PROVE Min(returns) = Len(all)
    OBVIOUS
  <2>1. returns = {Len(all)} /\ returns \subseteq Nat
    BY <1>2, <1>5
  <2> HIDE DEF returns
  <2>2. Min(returns) \in returns
    BY <2>1, LeastOf
  <2> QED BY <2>1, <2>2
<1>7. Executed(blocks) = SubSeq(all, 1, Len(all))
  <2> HIDE DEF returns
  <2> QED BY <1>3, <1>6
<1>8. SubSeq(all, 1, Len(all)) = all
  BY <1>2
<1> QED BY <1>7, <1>8 DEF all

-----------------------------------------------------------------------------
(* The capture pass.                                                       *)

CodeInv ==
  \/ code = Program /\ sites = << >>
  \/ code = TappedCode(accept) /\ sites = SiteTable(accept)

LEMMA FlattenOnes ==
  ASSUME NEW T, NEW s \in Seq(T)
  PROVE  FlattenSeq([k \in DOMAIN s |-> <<s[k]>>]) = s
<1> DEFINE E == [x \in T |-> <<x>>]
           P == {r \in Seq(T) : Expand(r, E) = r}
<1>1. Takes(E, T, Seq(T)) /\ \A x \in T : E[x] = <<x>>
  <2>1. \A x \in T : <<x>> \in Seq(T)
    OBVIOUS
  <2> QED BY <2>1 DEF Takes
<1> HIDE DEF E
<1>2. << >> \in P
  <2>1. << >> \in Seq(T)
    OBVIOUS
  <2> QED BY <2>1, ExpandNothing
<1>3. ASSUME NEW r \in Seq(T), NEW x \in T, r \in P PROVE Append(r, x) \in P
  <2>1. Expand(Append(r, x), E) = Expand(r, E) \o E[x]
    BY <1>1, ExpandAppend
  <2>2. Append(r, x) \in Seq(T) /\ Append(r, x) = r \o <<x>>
    BY AppendIs
  <2> QED BY <1>1, <1>3, <2>1, <2>2
<1>4. Seq(T) \subseteq P
  <2> HIDE DEF P
  <2> QED BY <1>2, <1>3, SequencesAll
<1>5. Mapped(s, E) = [k \in DOMAIN s |-> <<s[k]>>]
  <2>1. \A k \in DOMAIN s : E[s[k]] = <<s[k]>>
    BY <1>1
  <2> QED BY <2>1 DEF Mapped
<1>6. Expand(s, E) = s
  BY <1>4
<1> QED BY <1>5, <1>6 DEF Expand

LEMMA WantedFirst ==
  ASSUME code = Program
  PROVE  /\ \A in \in Instructions : Wanted(in) <=> in \in WantedIn(accept)
         /\ Wanteds = Captured(accept)
<1>1. AlreadyTapped = {}
  <2>1. \A b \in DOMAIN Program : \A k \in DOMAIN Program[b] : Program[b][k].op # "tap"
    <3>1. \A b \in DOMAIN Program : DOMAIN Program[b] = 1 .. Len(Program[b]) /\ b \in 1 .. Len(Program)
      BY ProgramIs
    <3> QED BY <3>1, BlockIs
  <2>2. \A b \in DOMAIN code :
          {code[b][k].value : k \in {j \in DOMAIN code[b] : code[b][j].op = "tap"}} = {}
    BY <2>1
  <2> QED BY <2>2 DEF AlreadyTapped
<1>2. \A in \in Instructions : Wanted(in) <=> in \in WantedIn(accept)
  BY <1>1, InstructionIs DEF Wanted, WantedIn
<1>3. Wanteds = Captured(accept)
  <2> DEFINE all == FlattenSeq(Program)
             S == {in \in Range(all) : Wanted(in)}
             W == WantedIn(accept)
  <2>1. all \in Seq(Instructions)
    BY LayoutIs
  <2> HIDE DEF all, W
  <2>2. \A i \in 1 .. Len(all) : all[i] \in Range(all) /\ all[i] \in Instructions
    BY <2>1 DEF Range
  <2>3. \A i \in 1 .. Len(all) : all[i] \in S <=> all[i] \in W
    BY <1>2, <2>2 DEF W
  <2> HIDE DEF S
  <2>4. Keep(all, S) = Keep(all, W)
    BY <2>1, <2>3, KeepSame
  <2>5. Wanteds = Keep(all, S)
    BY DEF Wanteds, S, all
  <2> QED BY <2>4, <2>5 DEF Captured, all, W
<1> QED BY <1>2, <1>3

LEMMA FirstPass ==
  ASSUME code = Program, sites = << >>, InsertTaps
  PROVE  code' = TappedCode(accept) /\ sites' = SiteTable(accept)
<1> DEFINE e == Tapping(accept)
           c == Captured(accept)
           Part(b, k) == LET in == code[b][k]
                         IN  IF Wanted(in) THEN <<in, Tap(in.value, SiteOf(in))>> ELSE <<in>>
<1>1. /\ code' = [b \in DOMAIN code |-> FlattenSeq([k \in DOMAIN code[b] |-> Part(b, k)])]
      /\ sites' = sites \o [k \in DOMAIN Wanteds |-> [id |-> k - 1, value |-> Wanteds[k].value]]
  BY DEF InsertTaps
<1>2. Wanteds = c /\ \A in \in Instructions : Wanted(in) <=> in \in WantedIn(accept)
  BY WantedFirst
<1>3. \A in \in Instructions : SiteOf(in) = NumberIn(accept, in)
  BY <1>2 DEF SiteOf, NumberIn
<1>4. ASSUME NEW b \in DOMAIN Program
      PROVE  FlattenSeq([k \in DOMAIN code[b] |-> Part(b, k)]) = Expand(Program[b], e)
  <2> DEFINE s == Program[b]
  <2>1. s \in Seq(Instructions)
    BY ProgramIs
  <2> HIDE DEF s
  <2>2. DOMAIN s = 1 .. Len(s) /\ \A k \in DOMAIN s : s[k] \in Instructions
    BY <2>1
  <2>3. ASSUME NEW k \in DOMAIN s PROVE Part(b, k) = e[s[k]]
    <3> DEFINE in == s[k]
    <3>1. in \in Instructions /\ code[b][k] = in
      BY <2>2 DEF s
    <3>2. e[in] = IF in \in WantedIn(accept) THEN <<in, TapFor(accept)[in]>> ELSE <<in>>
      BY <3>1, TappingIs
    <3>3. TapFor(accept)[in] = Tap(in.value, NumberIn(accept, in))
      BY <3>1, TappingIs
    <3> HIDE DEF in, e
    <3> QED BY <1>2, <1>3, <3>1, <3>2, <3>3 DEF in
  <2> HIDE DEF Part, e
  <2>4. [k \in DOMAIN code[b] |-> Part(b, k)] = Mapped(s, e)
    <3>1. DOMAIN code[b] = DOMAIN s
      BY DEF s
    <3> QED BY <2>3, <3>1 DEF Mapped
  <2> QED BY <2>4 DEF Expand, s
<1> HIDE DEF Part, e
<1>5. code' = TappedCode(accept)
  BY <1>1, <1>4 DEF TappedCode, e
<1>6. sites' = SiteTable(accept)
  <2> DEFINE t == SiteTable(accept)
  <2>1. [k \in DOMAIN Wanteds |-> [id |-> k - 1, value |-> Wanteds[k].value]] = t
    BY <1>2 DEF SiteTable
  <2>2. t \in Seq({t[k] : k \in 1 .. Len(c)})
    <3>1. Len(c) \in Nat /\ DOMAIN c = 1 .. Len(c)
      BY CapturedIs
    <3> DEFINE n == Len(c)
               S == {t[k] : k \in 1 .. n}
    <3>2. t \in [1 .. n -> S]
      <4>1. t = [k \in 1 .. n |-> t[k]]
        BY <3>1 DEF SiteTable
      <4> HIDE DEF t
      <4> QED BY <4>1
    <3> HIDE DEF t, n, S
    <3>3. t \in Seq(S)
      BY <3>1, <3>2, ListIs DEF n
    <3> QED BY <3>3 DEF S, n
  <2> HIDE DEF t
  <2>3. << >> \o t = t
    BY <2>2, ConcatNothing
  <2> QED BY <1>1, <2>1, <2>3 DEF t
<1> QED BY <1>5, <1>6

LEMMA SiteTableIs ==
  ASSUME NEW A
  PROVE  /\ DOMAIN SiteTable(A) = 1 .. Len(Captured(A)) /\ Len(SiteTable(A)) = Len(Captured(A))
         /\ \A k \in 1 .. Len(Captured(A)) : SiteTable(A)[k] = [id |-> k - 1, value |-> Captured(A)[k].value]
         /\ SiteTable(A) \o << >> = SiteTable(A)
<1> DEFINE t == SiteTable(A)
           c == Captured(A)
           n == Len(c)
           S == {t[k] : k \in 1 .. n}
<1>1. n \in Nat /\ DOMAIN c = 1 .. n
  BY CapturedIs
<1>2. t = [k \in 1 .. n |-> [id |-> k - 1, value |-> c[k].value]]
  BY <1>1 DEF SiteTable
<1> HIDE DEF t, n
<1>3. t \in [1 .. n -> S]
  BY <1>2
<1>4. \A k \in 1 .. n : t[k] = [id |-> k - 1, value |-> c[k].value]
  BY <1>2
<1> HIDE DEF S
<1>5. t \in Seq(S) /\ Len(t) = n
  BY <1>1, <1>3, ListIs
<1>6. t \o << >> = t
  BY <1>5, ConcatNothing
<1> QED BY <1>2, <1>4, <1>5, <1>6 DEF t, n

(* The blocks of the tapped program. *)
LEMMA TappedIs ==
  ASSUME NEW A
  PROVE  /\ TappedCode(A) \in Seq(Seq(Coded(A))) /\ Len(TappedCode(A)) = Len(Program)
         /\ DOMAIN TappedCode(A) = 1 .. Len(Program)
         /\ \A b \in 1 .. Len(Program) : /\ TappedCode(A)[b] \in Seq(Coded(A))
                                         /\ BlockTapped(A, TappedCode(A)[b], b = Len(Program))
<1> DEFINE t == TappedCode(A)
           D == Seq(Coded(A))
           n == Len(Program)
<1>1. n \in Nat /\ DOMAIN Program = 1 .. n
  BY ProgramIs
<1>2. \A b \in 1 .. n : t[b] \in D /\ BlockTapped(A, t[b], b = Len(Program))
  BY TappedBlock
<1>3. t = [b \in 1 .. n |-> t[b]]
  BY <1>1 DEF TappedCode
<1> HIDE DEF t, D, n
<1>4. t \in [1 .. n -> D]
  BY <1>2, <1>3
<1>5. t \in Seq(D) /\ Len(t) = n /\ DOMAIN t = 1 .. n
  BY <1>1, <1>4, ListIs
<1> QED BY <1>2, <1>5 DEF t, D, n

(* A second pass finds nothing to tap. *)
LEMMA LaterPass ==
  ASSUME code = TappedCode(accept), sites = SiteTable(accept), InsertTaps
  PROVE  code' = code /\ sites' = sites
<1> DEFINE A == accept
           C == Coded(A)
           n == Len(Program)
           all == FlattenSeq(code)
<1>1. /\ code \in Seq(Seq(C)) /\ Len(code) = n /\ DOMAIN code = 1 .. n
      /\ \A b \in 1 .. n : code[b] \in Seq(C) /\ BlockTapped(A, code[b], b = Len(Program))
  BY TappedIs
<1> HIDE DEF C, n, A
<1>2. ASSUME NEW b \in 1 .. n, NEW i \in 1 .. Len(code[b]) PROVE ~Wanted(code[b][i])
  <2> SUFFICES ASSUME Wanted(code[b][i]) PROVE FALSE
    OBVIOUS
  <2>1. code[b][i].op # "tap" /\ code[b][i].capturable /\ code[b][i].value \in A /\ code[b][i].value \notin AlreadyTapped
    BY DEF Wanted, A
  <2>2. PICK j \in 1 .. Len(code[b]) : code[b][j].op = "tap" /\ code[b][j].value = code[b][i].value
    BY <1>1, <2>1 DEF BlockTapped
  <2>3. b \in DOMAIN code /\ j \in DOMAIN code[b]
    BY <1>1
  <2>4. code[b][j].value \in AlreadyTapped
    BY <2>2, <2>3 DEF AlreadyTapped
  <2> QED BY <2>1, <2>2, <2>4
<1>3. Wanteds = << >>
  <2> DEFINE S == {in \in Range(all) : Wanted(in)}
  <2>1. all \in Seq(C)
    BY <1>1, FlattenAt
  <2>2. PICK off : Offsets(code, off) /\ JoinOf(all, code, off)
    BY <1>1, FlattenAt
  <2> HIDE DEF all
  <2>3. ASSUME NEW i \in 1 .. Len(all) PROVE ~Wanted(all[i])
    <3>1. code \in Seq(Seq(C))
      BY <1>1
    <3>0. Offsets(code, off)
      BY <2>2
    <3>2. \A h \in 1 .. off[Len(code)] : \E b \in 1 .. Len(code) : \E j \in 1 .. Len(code[b]) : h = off[b - 1] + j
      <4>1. AllParts(code, off)
        <5> QED BY <3>0, <3>1, PartsAre
      <4> QED BY <4>1 DEF AllParts
    <3>3. Len(all) = off[Len(code)]
      BY <2>2 DEF JoinOf
    <3>4. PICK b \in 1 .. Len(code) : \E j \in 1 .. Len(code[b]) : i = off[b - 1] + j
      <4>1. i \in 1 .. off[Len(code)]
        BY <3>3
      <4> QED BY <3>2, <4>1
    <3>5. PICK j \in 1 .. Len(code[b]) : i = off[b - 1] + j
      BY <3>4
    <3>6. all[off[b - 1] + j] = code[b][j]
      BY <2>2 DEF JoinOf
    <3>7. ~Wanted(code[b][j])
      BY <1>1, <1>2
    <3> QED BY <3>5, <3>6, <3>7
  <2>4. S = {}
    <3>1. DOMAIN all = 1 .. Len(all)
      BY <2>1
    <3> QED BY <2>3, <3>1 DEF Range
  <2>5. Wanteds = Keep(all, S)
    BY DEF Wanteds, all
  <2>6. Keep(all, {}) \in Seq(C \cap {})
    BY <2>1, KeepType
  <2>7. Keep(all, {}) = << >>
    <3> DEFINE q == Keep(all, {})
    <3>1. q \in Seq({})
      BY <2>6
    <3> HIDE DEF q
    <3>2. q = << >>
      BY <3>1
    <3> QED BY <3>2 DEF q
  <2> QED BY <2>4, <2>5, <2>7
<1> DEFINE Part(b, k) == LET in == code[b][k]
                         IN  IF Wanted(in) THEN <<in, Tap(in.value, SiteOf(in))>> ELSE <<in>>
<1>4. /\ code' = [b \in DOMAIN code |-> FlattenSeq([k \in DOMAIN code[b] |-> Part(b, k)])]
      /\ sites' = sites \o [k \in DOMAIN Wanteds |-> [id |-> k - 1, value |-> Wanteds[k].value]]
  BY DEF InsertTaps
<1>5. ASSUME NEW b \in DOMAIN code
      PROVE  FlattenSeq([k \in DOMAIN code[b] |-> Part(b, k)]) = code[b]
  <2> DEFINE t == code[b]
  <2>1. t \in Seq(C) /\ b \in 1 .. n
    BY <1>1
  <2>2. \A k \in DOMAIN t : Part(b, k) = <<t[k]>>
    <3>1. DOMAIN t = 1 .. Len(t)
      BY <2>1
    <3> QED BY <1>2, <2>1, <3>1
  <2> HIDE DEF Part
  <2>3. [k \in DOMAIN t |-> Part(b, k)] = [k \in DOMAIN t |-> <<t[k]>>]
    BY <2>2
  <2> HIDE DEF t
  <2>4. FlattenSeq([k \in DOMAIN t |-> <<t[k]>>]) = t
    BY <2>1, FlattenOnes
  <2> QED BY <2>3, <2>4 DEF t
<1> HIDE DEF Part
<1>6. code' = code
  <2>1. code = [b \in DOMAIN code |-> code[b]]
    BY <1>1
  <2>2. code' = [b \in DOMAIN code |-> code[b]]
    BY <1>4, <1>5
  <2> QED BY <2>1, <2>2
<1>7. sites' = sites
  <2> DEFINE q == [k \in DOMAIN Wanteds |-> [id |-> k - 1, value |-> Wanteds[k].value]]
  <2>1. q = << >>
    BY <1>3
  <2>2. sites' = sites \o q
    BY <1>4
  <2> HIDE DEF q
  <2> QED BY <2>1, <2>2, SiteTableIs
<1> QED BY <1>6, <1>7

LEMMA CodeInvNext == CodeInv /\ [CaptureNext]_captureVars => CodeInv'
<1> SUFFICES ASSUME CodeInv, [CaptureNext]_captureVars PROVE CodeInv'
  OBVIOUS
<1>1. ASSUME code' = code, sites' = sites, accept' = accept PROVE CodeInv'
  BY <1>1 DEF CodeInv
<1>2. CASE InsertTaps
  <2>1. accept' = accept
    BY <1>2 DEF InsertTaps
  <2>2. CASE code = Program /\ sites = << >>
    <3>1. code' = TappedCode(accept) /\ sites' = SiteTable(accept)
      BY <1>2, <2>2, FirstPass
    <3> QED BY <2>1, <3>1 DEF CodeInv
  <2>3. CASE code = TappedCode(accept) /\ sites = SiteTable(accept)
    <3>1. code' = code /\ sites' = sites
      BY <1>2, <2>3, LaterPass
    <3> QED BY <1>1, <2>1, <3>1
  <2> QED BY <2>2, <2>3 DEF CodeInv
<1>3. ASSUME UNCHANGED program PROVE CodeInv'
  BY <1>1, <1>3 DEF program
<1>4. CASE StartRun
  BY <1>3, <1>4 DEF StartRun
<1>5. ASSUME NEW x \in Inputs, RunLane(x) PROVE CodeInv'
  BY <1>3, <1>5 DEF RunLane
<1>6. CASE Add
  BY <1>3, <1>6 DEF Add
<1>7. CASE Write
  BY <1>3, <1>7 DEF Write
<1>8. CASE Open
  BY <1>3, <1>8 DEF Open
<1>9. ASSUME NEW k \in 1 .. Lanes, Reconstruct(k) PROVE CodeInv'
  BY <1>3, <1>9 DEF Reconstruct
<1>10. CASE StepForward \/ StepBack
  BY <1>3, <1>10 DEF StepForward, StepBack, Scrub
<1>11. ASSUME NEW k \in 0 .. Len(sites), Seek(k) PROVE CodeInv'
  BY <1>3, <1>11 DEF Seek, Scrub
<1>12. CASE UNCHANGED captureVars
  BY <1>3, <1>12 DEF captureVars
<1> QED BY <1>2, <1>4, <1>5, <1>6, <1>7, <1>8, <1>9, <1>10, <1>11, <1>12 DEF CaptureNext

(* The code is the program or the program with its taps, and the table of  *)
(* sites says which: insert_taps of instrument.cpp run once or more.       *)
THEOREM CodeIsTapped == CaptureSpec => []CodeInv
<1>1. CaptureInit => CodeInv
  BY DEF CaptureInit, CodeInv
<1> QED BY <1>1, CodeInvNext, PTL DEF CaptureSpec

(* However often the pass runs, a value has one tap, right behind its      *)
(* definition, and each block still ends in its only terminator.           *)
THEOREM TapsStayWellPlaced == CaptureSpec => []TapsWellPlaced
<1>1. CodeInv => TapsWellPlaced
  <2> SUFFICES ASSUME CodeInv, NEW b \in DOMAIN code
               PROVE  /\ \A k \in DOMAIN code[b] : code[b][k].op \in Terminators <=> k = Len(code[b])
                      /\ \A k \in DOMAIN code[b] : code[b][k].op = "tap" =>
                           /\ k > 1 /\ code[b][k - 1].value = code[b][k].value /\ code[b][k - 1].op # "tap"
    BY DEF TapsWellPlaced
  <2>1. CASE code = Program
    <3>1. b \in 1 .. Len(Program) /\ code[b] = Program[b] /\ DOMAIN code[b] = 1 .. Len(Program[b])
      BY <2>1, ProgramIs
    <3> QED BY <3>1, BlockIs
  <2>2. CASE code = TappedCode(accept)
    <3>1. b \in 1 .. Len(Program) /\ code[b] \in Seq(Coded(accept)) /\ BlockTapped(accept, code[b], b = Len(Program))
      BY <2>2, TappedIs
    <3>2. DOMAIN code[b] = 1 .. Len(code[b])
      BY <3>1
    <3> QED BY <3>1, <3>2 DEF BlockTapped
  <2> QED BY <2>1, <2>2 DEF CodeInv
<1> QED BY <1>1, CodeIsTapped, PTL

-----------------------------------------------------------------------------
(* The run, the columns, the file and the timeline.                        *)

(* A column has the values of the lanes run so far. *)
RunInv ==
  /\ input \in Seq(Inputs) /\ Len(input) <= Lanes
  /\ phase = "instrument" => input = << >>
  /\ phase # "instrument" =>
       /\ sites # << >> /\ kind \in {U32, F32} /\ warp \in WarpSizes /\ taken \in Masks
       /\ columns = [s \in DOMAIN sites |-> [k \in 1 .. Lanes |->
                      IF k <= Len(input) THEN Compute(sites[s].value, input[k]) ELSE 0]]
  /\ phase \notin {"instrument", "run"} => Len(input) = Lanes

Entry(e) == [site |-> sites[e].id, count |-> Lanes, blob |-> encode(Column(e))]

Ready == {"written", "failed", "open", "rejected"}

(* The writer holds the coded columns of the first sites; the file is what *)
(* it writes, or a prefix.                                                 *)
StoreInv ==
  /\ phase \in {"instrument", "run"} => entries = << >>
  /\ Len(entries) \in Nat /\ Len(entries) <= Len(sites)
  /\ entries = [e \in 1 .. Len(entries) |-> Entry(e)]
  /\ phase \in Ready => Len(entries) = Len(sites)
  /\ phase \in Ready => file = Packed \/ \E k \in 0 .. Len(Packed) - 1 : file = SubSeq(Packed, 1, k)

ReadInv ==
  /\ phase = "open" => Opens /\ dir = Directory
  /\ lane # 0 => phase = "open" /\ lane \in 1 .. Lanes /\ steps = StepsOf(lane)

TraceInv == CodeInv /\ RunInv /\ StoreInv /\ ReadInv

LEMMA SitesAre ==
  ASSUME CodeInv
  PROVE  /\ Len(sites) \in Nat /\ DOMAIN sites = 1 .. Len(sites)
         /\ sites # << >> => /\ code = TappedCode(accept) /\ sites = SiteTable(accept)
                             /\ Len(sites) = Len(Captured(accept))
                             /\ \A k \in 1 .. Len(sites) : sites[k].id = k - 1 /\ sites[k].value = Captured(accept)[k].value
<1>1. CASE sites = << >>
  BY <1>1
<1>2. CASE sites # << >>
  <2>1. code = TappedCode(accept) /\ sites = SiteTable(accept)
    BY <1>2 DEF CodeInv
  <2>2. /\ DOMAIN sites = 1 .. Len(Captured(accept)) /\ Len(sites) = Len(Captured(accept))
        /\ \A k \in 1 .. Len(Captured(accept)) : sites[k] = [id |-> k - 1, value |-> Captured(accept)[k].value]
    BY <2>1, SiteTableIs
  <2>3. Len(Captured(accept)) \in Nat
    BY CapturedIs
  <2> QED BY <1>2, <2>1, <2>2, <2>3
<1> QED BY <1>1, <1>2

LEMMA LanesAre == Lanes \in Nat /\ Lanes > 0
BY CaptureAssumption

(* What a lane's run reports: each site once, in the order of their ids. *)
LEMMA SinkIs ==
  ASSUME CodeInv, sites # << >>
  PROVE  Taps(Executed(code)) = [k \in 1 .. Len(sites) |-> Tap(sites[k].value, k - 1)]
<1> DEFINE A == accept
           c == Captured(A)
           n == Len(Program)
<1>1. /\ code = TappedCode(A) /\ Len(sites) = Len(c)
      /\ \A k \in 1 .. Len(sites) : sites[k].value = c[k].value
  BY SitesAre
<1>2. /\ code \in Seq(Seq(Coded(A))) /\ Len(code) = n
      /\ \A b \in 1 .. n : code[b] \in Seq(Coded(A)) /\ BlockTapped(A, code[b], b = Len(Program))
  BY <1>1, TappedIs
<1>3. \A b \in 1 .. Len(code) : \A i \in 1 .. Len(code[b]) :
        code[b][i].op = "return" => b = Len(code) /\ i = Len(code[b])
  <2> SUFFICES ASSUME NEW b \in 1 .. n, NEW i \in 1 .. Len(code[b]), code[b][i].op = "return"
               PROVE  b = n /\ i = Len(code[b])
    BY <1>2
  <2>1. code[b][i].op \in Terminators
    BY DEF Terminators
  <2> QED BY <1>2, <2>1 DEF BlockTapped
<1>4. Executed(code) = FlattenSeq(code)
  <2> DEFINE U == Coded(A)
  <2>1. code \in Seq(Seq(U))
    BY <1>2
  <2> HIDE DEF U
  <2> QED BY <1>3, <2>1, ExecutedAll
<1>5. Taps(FlattenSeq(code)) = [k \in 1 .. Len(c) |-> Tap(c[k].value, k - 1)]
  BY <1>1, TapsOfTapped
<1> HIDE DEF c
<1> QED BY <1>1, <1>4, <1>5

LEMMA RunInvNext == CodeInv /\ RunInv /\ [CaptureNext]_captureVars => RunInv'
<1> SUFFICES ASSUME CodeInv, RunInv, [CaptureNext]_captureVars PROVE RunInv'
  OBVIOUS
<1>1. input \in Seq(Inputs) /\ Len(input) \in Nat /\ Len(input) <= Lanes /\ Lanes \in Nat
  BY LanesAre DEF RunInv
<1>2. ASSUME UNCHANGED <<sites, kind, warp, taken, input, columns>>, phase # "instrument", phase' # "instrument",
             phase' = "run" \/ Len(input) = Lanes
      PROVE  RunInv'
  BY <1>2 DEF RunInv
<1>3. ASSUME UNCHANGED <<sites, kind, warp, taken, input, columns, phase>> PROVE RunInv'
  BY <1>3 DEF RunInv
<1>4. CASE InsertTaps
  BY <1>4 DEF InsertTaps, capture, RunInv
<1>5. CASE StartRun
  <2>1. /\ phase = "instrument" /\ sites # << >> /\ phase' = "run" /\ kind' \in {U32, F32} /\ warp' \in WarpSizes
        /\ taken' \in Masks /\ columns' = [s \in DOMAIN sites |-> [k \in 1 .. Lanes |-> 0]]
        /\ sites' = sites /\ input' = input
    BY <1>5 DEF StartRun, program
  <2>2. input = << >> /\ Len(input) = 0
    BY <2>1 DEF RunInv
  <2>3. ASSUME NEW s \in DOMAIN sites
        PROVE  [k \in 1 .. Lanes |-> 0] =
                 [k \in 1 .. Lanes |-> IF k <= Len(input) THEN Compute(sites[s].value, input[k]) ELSE 0]
    <3>1. \A k \in 1 .. Lanes : ~(k <= Len(input))
      BY <1>1, <2>2
    <3> QED BY <3>1
  <2>4. columns' = [s \in DOMAIN sites |-> [k \in 1 .. Lanes |->
                      IF k <= Len(input) THEN Compute(sites[s].value, input[k]) ELSE 0]]
    BY <2>1, <2>3
  <2> QED BY <1>1, <2>1, <2>4 DEF RunInv
<1>6. ASSUME NEW x \in Inputs, RunLane(x) PROVE RunInv'
  <2> DEFINE sink == Taps(Executed(code))
             n == Len(sites)
             m == Len(input)
             hits(s) == {k \in DOMAIN sink : sink[k].site = s - 1}
  <2>1. /\ phase = "run" /\ m < Lanes /\ input' = Append(input, x)
        /\ UNCHANGED <<sites, phase, kind, warp, taken>>
        /\ columns' = [s \in DOMAIN columns |->
             IF hits(s) = {} THEN columns[s]
             ELSE [columns[s] EXCEPT ![m + 1] = Compute(sink[Max(hits(s))].value, x)]]
    BY <1>6 DEF RunLane, program
  <2>2. /\ sites # << >> /\ kind \in {U32, F32} /\ warp \in WarpSizes /\ taken \in Masks
        /\ columns = [s \in DOMAIN sites |-> [k \in 1 .. Lanes |->
                       IF k <= m THEN Compute(sites[s].value, input[k]) ELSE 0]]
    BY <2>1 DEF RunInv
  <2>3. n \in Nat /\ DOMAIN sites = 1 .. n
    BY SitesAre
  <2>4. sink = [k \in 1 .. n |-> Tap(sites[k].value, k - 1)]
    BY <2>2, SinkIs
  <2> HIDE DEF sink
  <2>5. ASSUME NEW s \in 1 .. n PROVE hits(s) = {s} /\ Max(hits(s)) = s /\ sink[s].value = sites[s].value
    <3>1. \A k \in 1 .. n : sink[k] = Tap(sites[k].value, k - 1) /\ sink[k].site = k - 1 /\ sink[k].value = sites[k].value
      BY <2>4, TapIs
    <3>2. DOMAIN sink = 1 .. n
      BY <2>4
    <3>3. \A k \in 1 .. n : sink[k].site = s - 1 <=> k = s
      BY <2>3, <3>1
    <3>4. hits(s) = {s}
      BY <3>2, <3>3
    <3>5. Max({s}) = s
      <4>1. {s} \subseteq 0 .. n /\ {s} # {}
        BY <2>3
      <4>2. Max({s}) \in {s}
        BY <2>3, <4>1, MostOf
      <4> QED BY <4>2
    <3> QED BY <3>1, <3>4, <3>5
  <2>6. ASSUME NEW s \in 1 .. n
        PROVE  [columns[s] EXCEPT ![m + 1] = Compute(sites[s].value, x)] =
                 [k \in 1 .. Lanes |-> IF k <= m + 1 THEN Compute(sites[s].value, Append(input, x)[k]) ELSE 0]
    <3> DEFINE v == sites[s].value
    <3> HIDE DEF v
    <3>1. columns[s] = [k \in 1 .. Lanes |-> IF k <= m THEN Compute(v, input[k]) ELSE 0]
      BY <2>2, <2>3 DEF v
    <3>2. Append(input, x)[m + 1] = x /\ \A k \in 1 .. m : Append(input, x)[k] = input[k]
      BY <1>1
    <3> DEFINE a == Append(input, x)
               l == [columns[s] EXCEPT ![m + 1] = Compute(v, x)]
               r == [k \in 1 .. Lanes |-> IF k <= m + 1 THEN Compute(v, a[k]) ELSE 0]
    <3> HIDE DEF a
    <3>3. ASSUME NEW k \in 1 .. Lanes PROVE l[k] = r[k]
      <4>1. CASE k = m + 1
        BY <1>1, <2>1, <3>1, <3>2, <4>1 DEF a
      <4>2. CASE k # m + 1 /\ k <= m
        <5>1. k \in 1 .. m
          BY <1>1, <4>2
        <5>2. a[k] = input[k]
          BY <3>2, <5>1 DEF a
        <5> QED BY <1>1, <3>1, <4>2, <5>2
      <4>3. CASE ~(k <= m + 1)
        <5>1. k # m + 1 /\ ~(k <= m)
          BY <1>1, <4>3
        <5> QED BY <3>1, <4>3, <5>1
      <4>4. k = m + 1 \/ (k # m + 1 /\ k <= m) \/ ~(k <= m + 1)
        BY <1>1
      <4> QED BY <4>1, <4>2, <4>3, <4>4
    <3>4. l = [k \in 1 .. Lanes |-> l[k]] /\ r = [k \in 1 .. Lanes |-> r[k]]
      BY <3>1
    <3> HIDE DEF l, r
    <3>5. l = r
      BY <3>3, <3>4
    <3> QED BY <3>5 DEF l, r, v, a
  <2>7. columns' = [s \in 1 .. n |-> [k \in 1 .. Lanes |->
                     IF k <= m + 1 THEN Compute(sites[s].value, Append(input, x)[k]) ELSE 0]]
    <3> HIDE DEF hits
    <3>1. DOMAIN columns = 1 .. n
      BY <2>2, <2>3
    <3>2. ASSUME NEW s \in 1 .. n
          PROVE  (IF hits(s) = {} THEN columns[s]
                  ELSE [columns[s] EXCEPT ![m + 1] = Compute(sink[Max(hits(s))].value, x)])
                 = [columns[s] EXCEPT ![m + 1] = Compute(sites[s].value, x)]
      <4>1. hits(s) # {} /\ sink[Max(hits(s))].value = sites[s].value
        BY <2>5
      <4> QED BY <4>1
    <3>3. columns' = [s \in 1 .. n |-> [columns[s] EXCEPT ![m + 1] = Compute(sites[s].value, x)]]
      BY <2>1, <3>1, <3>2
    <3> QED BY <2>6, <3>3
  <2>8. input' \in Seq(Inputs) /\ Len(input') = m + 1 /\ m + 1 <= Lanes
    BY <1>1, <2>1
  <2>9. columns' = [s \in DOMAIN sites' |-> [k \in 1 .. Lanes |->
                     IF k <= Len(input') THEN Compute(sites'[s].value, input'[k]) ELSE 0]]
    <3>1. sites' = sites /\ input' = Append(input, x)
      BY <2>1
    <3> HIDE DEF n, m
    <3> QED BY <2>3, <2>7, <2>8, <3>1
  <2> QED BY <2>1, <2>2, <2>8, <2>9 DEF RunInv
<1>7. CASE Add
  <2>1. phase' = "store" /\ (phase = "store" \/ (phase = "run" /\ Len(input) = Lanes)) /\ UNCHANGED <<program, capture>>
    BY <1>7 DEF Add
  <2>2. Len(input) = Lanes
    BY <2>1 DEF RunInv
  <2> QED BY <1>2, <2>1, <2>2 DEF program, capture
<1>8. CASE Write
  <2>1. phase = "store" /\ phase' \in {"written", "failed"} /\ UNCHANGED <<program, capture>>
    BY <1>8 DEF Write
  <2>2. Len(input) = Lanes
    BY <2>1 DEF RunInv
  <2> QED BY <1>2, <2>1, <2>2 DEF program, capture
<1>9. CASE Open
  <2>1. phase \in {"written", "failed"} /\ phase' \in {"open", "rejected"} /\ UNCHANGED <<program, capture>>
    BY <1>9 DEF Open
  <2>2. Len(input) = Lanes
    BY <2>1 DEF RunInv
  <2> QED BY <1>2, <2>1, <2>2 DEF program, capture
<1>10. ASSUME UNCHANGED <<program, phase, capture>> PROVE RunInv'
  BY <1>3, <1>10 DEF program, capture
<1>11. ASSUME NEW k \in 1 .. Lanes, Reconstruct(k) PROVE RunInv'
  BY <1>10, <1>11 DEF Reconstruct
<1>12. CASE StepForward \/ StepBack
  BY <1>10, <1>12 DEF StepForward, StepBack, Scrub
<1>13. ASSUME NEW k \in 0 .. Len(sites), Seek(k) PROVE RunInv'
  BY <1>10, <1>13 DEF Seek, Scrub
<1>14. CASE UNCHANGED captureVars
  BY <1>10, <1>14 DEF captureVars
<1> QED BY <1>4, <1>5, <1>6, <1>7, <1>8, <1>9, <1>11, <1>12, <1>13, <1>14 DEF CaptureNext

LEMMA StoreInvNext == RunInv /\ StoreInv /\ CodeInv /\ [CaptureNext]_captureVars => StoreInv'
<1> SUFFICES ASSUME RunInv, StoreInv, CodeInv, [CaptureNext]_captureVars PROVE StoreInv'
  OBVIOUS
<1>1. \A e \in 1 .. 0 : FALSE
  OBVIOUS
<1>2. ASSUME entries = << >>, entries' = << >>, phase' \in {"instrument", "run"}, Len(sites') \in Nat PROVE StoreInv'
  <2>1. Len(<< >>) = 0 /\ << >> = [e \in 1 .. 0 |-> Entry(e)']
    OBVIOUS
  <2> QED BY <1>2, <2>1 DEF StoreInv, Ready
<1>3. Len(sites) \in Nat
  BY SitesAre
<1>4. ASSUME UNCHANGED <<program, capture>> PROVE \A e : Entry(e)' = Entry(e)
  BY <1>4 DEF Entry, Column, InFirstBlock, program, capture
<1>5. ASSUME entries' = entries PROVE Packed' = Packed
  BY <1>5 DEF Packed
<1>6. CASE InsertTaps
  <2>1. phase = "instrument" /\ phase' = phase /\ entries' = entries
    BY <1>6 DEF InsertTaps
  <2>2. Len(sites') \in Nat
    <3>1. CodeInv'
      BY CodeInvNext
    <3>2. CodeInv' => Len(sites') \in Nat
      <4>1. CodeInv => Len(sites) \in Nat
        BY SitesAre
      <4>2. CASE code' = Program /\ sites' = << >>
        BY <4>2
      <4>3. CASE sites' = SiteTable(accept')
        BY <4>3, SiteTableIs, CapturedIs
      <4> QED BY <4>2, <4>3 DEF CodeInv
    <3> QED BY <3>1, <3>2
  <2> QED BY <1>2, <2>1, <2>2 DEF StoreInv
<1>7. CASE StartRun
  BY <1>2, <1>3, <1>7 DEF StartRun, StoreInv, program
<1>8. ASSUME NEW x \in Inputs, RunLane(x) PROVE StoreInv'
  BY <1>2, <1>3, <1>8 DEF RunLane, StoreInv, program
<1>9. CASE Add
  <2> DEFINE n == Len(entries)
  <2>1. /\ phase' = "store" /\ n < Len(sites) /\ UNCHANGED <<program, capture>>
        /\ entries' = Append(entries, Entry(n + 1))
    BY <1>9 DEF Add, Entry
  <2>2. n \in Nat /\ entries = [e \in 1 .. n |-> Entry(e)]
    BY DEF StoreInv
  <2>3. \A e : Entry(e)' = Entry(e)
    BY <1>4, <2>1
  <2> DEFINE S == {Entry(e) : e \in 1 .. n + 1}
             q == [e \in 1 .. n + 1 |-> Entry(e)]
  <2>4. q \in [1 .. n + 1 -> S] /\ entries \in [1 .. n -> S] /\ Entry(n + 1) \in S /\ n + 1 \in Nat
    BY <2>2
  <2> HIDE DEF S
  <2>5. q \in Seq(S) /\ Len(q) = n + 1
    <3> HIDE DEF q, n
    <3> QED BY <2>4, ListIs
  <2>6. entries \in Seq(S)
    <3> HIDE DEF q, n
    <3> QED BY <2>2, <2>4, ListIs
  <2> DEFINE z == Append(entries, Entry(n + 1))
  <2>7. z \in Seq(S) /\ Len(z) = n + 1
    BY <2>4, <2>6, AppendIs
  <2>8. z[n + 1] = Entry(n + 1)
    BY <2>4, <2>6, AppendIs
  <2>9. \A k \in 1 .. n : z[k] = entries[k]
    BY <2>4, <2>6, AppendIs
  <2>10. \A e \in 1 .. n : entries[e] = Entry(e)
    BY <2>2
  <2>11. \A e \in 1 .. n + 1 : q[e] = Entry(e)
    OBVIOUS
  <2> HIDE DEF z, q
  <2>12. z = q
    <3>1. \A k \in 1 .. Len(z) : z[k] = q[k]
      <4> SUFFICES ASSUME NEW k \in 1 .. n + 1 PROVE z[k] = q[k]
        BY <2>7
      <4>1. k \in 1 .. n \/ k = n + 1
        BY <2>2
      <4> QED BY <2>8, <2>9, <2>10, <2>11, <4>1
    <3> QED BY <2>5, <2>7, <3>1, SameSequence
  <2>13. entries' = z /\ Len(entries') = n + 1 /\ sites' = sites /\ n + 1 <= Len(sites)
    BY <1>3, <2>1, <2>2, <2>7 DEF z, program
  <2>14. entries' = [e \in 1 .. n + 1 |-> Entry(e)']
    BY <2>3, <2>12, <2>13 DEF q
  <2> QED BY <2>1, <2>4, <2>13, <2>14 DEF StoreInv, Ready
<1>10. CASE Write
  <2>1. /\ phase' \in {"written", "failed"} /\ Len(entries) = Len(sites) /\ UNCHANGED <<program, capture, entries>>
        /\ file' = Packed \/ \E k \in 0 .. Len(Packed) - 1 : file' = SubSeq(Packed, 1, k)
    BY <1>10 DEF Write
  <2>2. Packed' = Packed /\ \A e : Entry(e)' = Entry(e)
    BY <1>4, <1>5, <2>1
  <2>3. sites' = sites
    BY <2>1 DEF program
  <2>4. file' = Packed' \/ \E k \in 0 .. Len(Packed') - 1 : file' = SubSeq(Packed', 1, k)
    BY <2>1, <2>2
  <2>5. entries' = [e \in 1 .. Len(entries') |-> Entry(e)']
    BY <2>1, <2>2 DEF StoreInv
  <2> QED BY <2>1, <2>3, <2>4, <2>5 DEF StoreInv, Ready
<1>11. ASSUME UNCHANGED <<program, capture, entries, file>>,
              phase' = phase \/ (phase \in Ready /\ phase' \in Ready)
       PROVE  StoreInv'
  <2>1. Packed' = Packed /\ \A e : Entry(e)' = Entry(e)
    BY <1>4, <1>5, <1>11
  <2>2. sites' = sites
    BY <1>11 DEF program
  <2>3. entries' = [e \in 1 .. Len(entries') |-> Entry(e)']
    BY <1>11, <2>1 DEF StoreInv
  <2>4. phase' \in Ready => phase \in Ready
    BY <1>11
  <2>5. phase' \in Ready => file' = Packed' \/ \E k \in 0 .. Len(Packed') - 1 : file' = SubSeq(Packed', 1, k)
    BY <1>11, <2>1, <2>4 DEF StoreInv
  <2>6. phase' \in {"instrument", "run"} => phase = phase'
    BY <1>11 DEF Ready
  <2> QED BY <1>11, <2>2, <2>3, <2>4, <2>5, <2>6 DEF StoreInv
<1>12. CASE Open
  BY <1>11, <1>12 DEF Open, Ready
<1>13. ASSUME NEW k \in 1 .. Lanes, Reconstruct(k) PROVE StoreInv'
  BY <1>11, <1>13 DEF Reconstruct
<1>14. CASE StepForward \/ StepBack
  BY <1>11, <1>14 DEF StepForward, StepBack, Scrub
<1>15. ASSUME NEW k \in 0 .. Len(sites), Seek(k) PROVE StoreInv'
  BY <1>11, <1>15 DEF Seek, Scrub
<1>16. CASE UNCHANGED captureVars
  BY <1>11, <1>16 DEF captureVars
<1> QED BY <1>6, <1>7, <1>8, <1>9, <1>10, <1>12, <1>13, <1>14, <1>15, <1>16 DEF CaptureNext

LEMMA ReadInvNext == ReadInv /\ [CaptureNext]_captureVars => ReadInv'
<1> SUFFICES ASSUME ReadInv, [CaptureNext]_captureVars PROVE ReadInv'
  OBVIOUS
<1>1. ASSUME phase # "open", phase' # "open", lane' = lane PROVE ReadInv'
  BY <1>1 DEF ReadInv
<1>2. ASSUME file' = file PROVE Opens' = Opens /\ Directory' = Directory
  BY <1>2 DEF Opens, Directory, Cell
<1>3. ASSUME UNCHANGED <<sites, dir, file>>, NEW k PROVE StepsOf(k)' = StepsOf(k)
  BY <1>3 DEF StepsOf, Ordered, ColumnsOfSite, Cell
<1>4. ASSUME UNCHANGED <<program, phase, entries, file, dir, lane, steps>> PROVE ReadInv'
  <2>1. Opens' = Opens /\ Directory' = Directory /\ StepsOf(lane)' = StepsOf(lane)
    BY <1>2, <1>3, <1>4 DEF program
  <2> QED BY <1>4, <2>1 DEF ReadInv
<1>5. CASE InsertTaps
  BY <1>1, <1>5 DEF InsertTaps, timeline
<1>6. CASE StartRun
  BY <1>1, <1>6 DEF StartRun, timeline
<1>7. ASSUME NEW x \in Inputs, RunLane(x) PROVE ReadInv'
  BY <1>1, <1>7 DEF RunLane, timeline
<1>8. CASE Add
  BY <1>1, <1>8 DEF Add, timeline
<1>9. CASE Write
  BY <1>1, <1>9 DEF Write, timeline
<1>10. CASE Open
  <2>1. phase \in {"written", "failed"} /\ file' = file /\ lane' = lane
    BY <1>10 DEF Open, timeline
  <2>2. lane = 0
    BY <2>1 DEF ReadInv
  <2>3. Opens' = Opens /\ Directory' = Directory
    BY <1>2, <2>1
  <2>4. phase' = "open" => Opens /\ dir' = Directory
    BY <1>10 DEF Open
  <2> QED BY <2>1, <2>2, <2>3, <2>4 DEF ReadInv
<1>11. ASSUME NEW k \in 1 .. Lanes, Reconstruct(k) PROVE ReadInv'
  <2>1. phase = "open" /\ lane' = k /\ steps' = StepsOf(k) /\ UNCHANGED <<program, phase, entries, file, dir>>
    BY <1>11 DEF Reconstruct
  <2>2. Opens' = Opens /\ Directory' = Directory /\ StepsOf(k)' = StepsOf(k)
    BY <1>2, <1>3, <2>1 DEF program
  <2>3. StepsOf(lane)' = StepsOf(k)'
    BY <2>1 DEF StepsOf
  <2> QED BY <2>1, <2>2, <2>3 DEF ReadInv
<1>12. CASE StepForward \/ StepBack
  BY <1>4, <1>12 DEF StepForward, StepBack, Scrub
<1>13. ASSUME NEW k \in 0 .. Len(sites), Seek(k) PROVE ReadInv'
  BY <1>4, <1>13 DEF Seek, Scrub
<1>14. CASE UNCHANGED captureVars
  BY <1>4, <1>14 DEF captureVars, timeline
<1> QED BY <1>5, <1>6, <1>7, <1>8, <1>9, <1>10, <1>11, <1>12, <1>13, <1>14 DEF CaptureNext

(* The code, the columns, the writer, the file and the timeline agree in   *)
(* every reachable state.                                                  *)
THEOREM TraceHolds == CaptureSpec => []TraceInv
<1>1. CaptureInit => TraceInv
  <2> SUFFICES ASSUME CaptureInit PROVE TraceInv
    OBVIOUS
  <2>1. CodeInv
    BY DEF CaptureInit, CodeInv
  <2>2. RunInv
    BY LanesAre DEF CaptureInit, RunInv
  <2>3. StoreInv
    <3>1. Len(<< >>) = 0 /\ << >> = [e \in 1 .. 0 |-> Entry(e)]
      OBVIOUS
    <3> QED BY <3>1 DEF CaptureInit, StoreInv, Ready
  <2>4. ReadInv
    BY DEF CaptureInit, ReadInv
  <2> QED BY <2>1, <2>2, <2>3, <2>4 DEF TraceInv
<1>2. TraceInv /\ [CaptureNext]_captureVars => TraceInv'
  BY CodeInvNext, RunInvNext, StoreInvNext, ReadInvNext DEF TraceInv
<1> QED BY <1>1, <1>2, PTL DEF CaptureSpec

-----------------------------------------------------------------------------
(* The file.                                                               *)

LEMMA EncodeNat ==
  ASSUME NEW kd \in {U32, F32}, NEW sz \in Nat, NEW bs \in Seq(Values), NEW act,
         act = << >> \/ (bs # << >> /\ act \in [1 .. Len(bs) -> {0, 1}])
  PROVE  encode([kind |-> kd, warp |-> sz, bits |-> bs, active |-> act]) \in Seq(Nat)
<1> DEFINE n == Len(bs)
           T == Stream(kd, sz, bs, act)
           flat == FlattenSeq(T)
           fa == Flush(act)
           fb == Flush(flat)
           head == <<Magic, kd, sz, n, IF act = << >> THEN 1 ELSE 0>>
           D == {0, 1}
<1>1. n \in Nat
  OBVIOUS
<1>2. T \in Seq(Seq(D))
  BY StreamIs
<1>3. flat \in Seq(D)
  BY <1>2, FlattenAt
<1>4. act \in Seq(D)
  <2>1. CASE act = << >>
    BY <2>1
  <2>2. CASE act # << >>
    <3>1. act \in [1 .. n -> D]
      BY <2>2
    <3> HIDE DEF n, D
    <3> QED BY <1>1, <3>1, ListIs
  <2> QED BY <2>1, <2>2
<1>5. fa \in Seq(D) /\ fb \in Seq(D)
  BY <1>3, <1>4, FlushIs
<1>6. D \subseteq Nat
  OBVIOUS
<1> HIDE DEF fa, fb, flat, T, D
<1>7. fa \in Seq(Nat) /\ fb \in Seq(Nat)
  BY <1>5, <1>6, WiderSequence
<1>8. head \in Seq(Nat)
  BY <1>1 DEF Magic, U32, F32
<1>9. encode([kind |-> kd, warp |-> sz, bits |-> bs, active |-> act]) = head \o fa \o fb
  BY EncodeIs DEF Cells, fa, fb, flat, T
<1> HIDE DEF head
<1>10. head \o fa \in Seq(Nat)
  BY <1>7, <1>8, ConcatIs
<1>11. head \o fa \o fb \in Seq(Nat)
  BY <1>7, <1>10, ConcatIs
<1> QED BY <1>9, <1>11

Blobs == [e \in DOMAIN entries |-> entries[e].blob]

(* The file begins with its magic and the number of columns; the e-th row  *)
(* of the directory says where the e-th blob is, off[e - 1] cells behind   *)
(* the directory.                                                          *)
PackedAs(n, off) ==
  /\ off \in [0 .. n -> Nat] /\ off[0] = 0 /\ \A e \in 1 .. n : off[e] = off[e - 1] + Len(Blobs[e])
  /\ Packed \in Seq(Nat) /\ Len(Packed) = 2 + 4 * n + off[n]
  /\ Packed[1] = OTR1 /\ Packed[2] = n
  /\ \A e \in 1 .. n : /\ Packed[2 + 4 * (e - 1) + 1] = entries[e].site
                       /\ Packed[2 + 4 * (e - 1) + 2] = 2 + 4 * n + off[e - 1]
                       /\ Packed[2 + 4 * (e - 1) + 3] = Len(Blobs[e])
                       /\ Packed[2 + 4 * (e - 1) + 4] = entries[e].count
  /\ \A e \in 1 .. n : /\ off[e] <= off[n]
                       /\ \A j \in 1 .. Len(Blobs[e]) : Packed[2 + 4 * n + off[e - 1] + j] = Blobs[e][j]

LEMMA PackedIs ==
  ASSUME NEW n \in Nat, Len(entries) = n, DOMAIN entries = 1 .. n,
         \A e \in 1 .. n : entries[e].blob \in Seq(Nat) /\ entries[e].site \in Nat /\ entries[e].count \in Nat
  PROVE  \E off : PackedAs(n, off)
<1> DEFINE D == Seq(Nat)
           B == Blobs
           flat == FlattenSeq(B)
           start == CHOOSE f : f = [e \in 1 .. n + 1 |-> IF e = 1 THEN 2 + DirCells * n ELSE f[e - 1] + Len(B[e - 1])]
           rows == [e \in 1 .. n |-> <<entries[e].site, start[e], Len(B[e]), entries[e].count>>]
           dirs == FlattenSeq(rows)
           head == <<OTR1, n>>
<1>1. \A e \in 1 .. n : B[e] = entries[e].blob /\ B[e] \in D
  BY DEF Blobs
<1>2. B = [e \in 1 .. n |-> B[e]]
  BY DEF Blobs
<1>3. Packed = head \o dirs \o flat
  BY <1>1, <1>2 DEF Packed, Blobs
<1> HIDE DEF B, D
<1>4. B \in [1 .. n -> D]
  BY <1>1, <1>2
<1>5. B \in Seq(D) /\ Len(B) = n
  BY <1>4, ListIs
<1>6. B \in Seq(Seq(Nat))
  BY <1>5 DEF D
<1>7. flat \in Seq(Nat) /\ \E off : Offsets(B, off) /\ JoinOf(flat, B, off)
  BY <1>6, FlattenAt
<1>8. PICK off : Offsets(B, off) /\ JoinOf(flat, B, off)
  BY <1>7
<1> HIDE DEF flat
<1>9. off \in [0 .. n -> Nat] /\ off[0] = 0 /\ \A e \in 1 .. n : off[e] = off[e - 1] + Len(B[e])
  BY <1>5, <1>8 DEF Offsets
<1>10. /\ Len(flat) = off[n] /\ Len(flat) \in Nat
       /\ \A e \in 1 .. n : off[e] <= Len(flat) /\ \A j \in 1 .. Len(B[e]) : flat[off[e - 1] + j] = B[e][j]
  <2>1. Len(flat) = off[n]
    BY <1>5, <1>8 DEF JoinOf
  <2>2. \A e \in 1 .. n : off[e] <= Len(flat)
    BY <1>5, <1>8 DEF JoinOf
  <2>3. \A e \in 1 .. n : \A j \in 1 .. Len(B[e]) : flat[off[e - 1] + j] = B[e][j]
    BY <1>5, <1>8 DEF JoinOf
  <2> QED BY <1>7, <2>1, <2>2, <2>3
<1>11. \A e \in 0 .. n : off[e] \in Nat
  BY <1>9
<1> DEFINE at == 2 + 4 * n
<1>12. at \in Nat
  OBVIOUS
<1>13. \A e \in 1 .. n : start[e] = at + off[e - 1]
  <2> DEFINE R(f) == [e \in 1 .. n + 1 |-> IF e = 1 THEN 2 + DirCells * n ELSE f[e - 1] + Len(B[e - 1])]
             g == [e \in 1 .. n + 1 |-> at + off[e - 1]]
  <2>1. g = R(g)
    <3>1. 2 + DirCells * n = at
      BY DEF DirCells
    <3>2. ASSUME NEW e \in 1 .. n + 1, e # 1 PROVE at + off[e - 1] = g[e - 1] + Len(B[e - 1])
      <4> DEFINE d == e - 1
      <4>1. d \in 1 .. n /\ d \in 1 .. n + 1 /\ d - 1 \in 0 .. n
        BY <3>2
      <4>2. off[d] = off[d - 1] + Len(B[d]) /\ off[d - 1] \in Nat /\ g[d] = at + off[d - 1]
        BY <1>9, <1>11, <4>1
      <4>3. Len(B[d]) \in Nat
        BY <1>1, <4>1 DEF D
      <4> HIDE DEF d, at
      <4>4. at + off[d] = g[d] + Len(B[d])
        BY <1>12, <4>2, <4>3
      <4> QED BY <4>4 DEF d
    <3>3. g[1] = 2 + DirCells * n
      <4>1. 1 \in 1 .. n + 1 /\ 1 - 1 = 0
        OBVIOUS
      <4>2. g[1] = at + off[0]
        BY <4>1
      <4> QED BY <1>9, <1>12, <3>1, <4>2
    <3> DEFINE h == R(g)
    <3>4. ASSUME NEW e \in 1 .. n + 1 PROVE g[e] = h[e]
      <4>1. CASE e = 1
        BY <3>3, <4>1
      <4>2. CASE e # 1
        BY <3>2, <4>2
      <4> QED BY <4>1, <4>2
    <3>5. g = [e \in 1 .. n + 1 |-> g[e]] /\ h = [e \in 1 .. n + 1 |-> h[e]]
      OBVIOUS
    <3> HIDE DEF g, h
    <3>6. g = h
      BY <3>4, <3>5
    <3> QED BY <3>6 DEF h
  <2>2. start = R(start)
    <3> HIDE DEF g, R
    <3>1. start = CHOOSE f : f = R(f)
      BY DEF R
    <3> HIDE DEF start
    <3> QED BY <2>1, <3>1
  <2> HIDE DEF start
  <2> DEFINE a == [k \in 0 .. n |-> start[k + 1]]
             b == [k \in 0 .. n |-> g[k + 1]]
  <2>3. ContinueAlike(a, b, n)
    <3>1. a[0] = b[0]
      <4>1. 0 \in 0 .. n /\ 0 + 1 = 1 /\ 1 \in 1 .. n + 1
        OBVIOUS
      <4>2. start[1] = 2 + DirCells * n
        BY <2>2, <4>1
      <4>3. g[1] = 2 + DirCells * n
        <5> HIDE DEF g
        <5> QED BY <2>1, <4>1
      <4> HIDE DEF g
      <4> QED BY <4>1, <4>2, <4>3
    <3>2. ASSUME NEW k \in 1 .. n, a[k - 1] = b[k - 1] PROVE a[k] = b[k]
      <4>1. k \in 0 .. n /\ k - 1 \in 0 .. n /\ (k - 1) + 1 = k /\ k + 1 \in 1 .. n + 1 /\ k + 1 # 1 /\ (k + 1) - 1 = k
        OBVIOUS
      <4> HIDE DEF g
      <4>2. start[k] = g[k]
        BY <3>2, <4>1
      <4>3. start[k + 1] = start[k] + Len(B[k])
        BY <2>2, <4>1
      <4>4. g[k + 1] = g[k] + Len(B[k])
        BY <2>1, <4>1
      <4> QED BY <4>1, <4>2, <4>3, <4>4
    <3> HIDE DEF a, b
    <3> QED BY <3>1, <3>2 DEF ContinueAlike
  <2>4. \A k \in 0 .. n : a[k] = b[k]
    <3> HIDE DEF a, b
    <3> QED BY <2>3, SameRecursion
  <2> SUFFICES ASSUME NEW e \in 1 .. n PROVE start[e] = at + off[e - 1]
    OBVIOUS
  <2>5. e - 1 \in 0 .. n /\ (e - 1) + 1 = e /\ e \in 1 .. n + 1
    OBVIOUS
  <2>6. start[e] = g[e]
    <3> HIDE DEF g
    <3> QED BY <2>4, <2>5
  <2> QED BY <2>5, <2>6
<1> HIDE DEF start
<1> DEFINE Row(e) == <<entries[e].site, start[e], Len(B[e]), entries[e].count>>
<1>14. ASSUME NEW e \in 1 .. n
       PROVE  /\ Row(e) \in Seq(Nat) /\ Len(Row(e)) = 4 /\ Row(e)[1] = entries[e].site
              /\ Row(e)[2] = at + off[e - 1] /\ Row(e)[3] = Len(B[e]) /\ Row(e)[4] = entries[e].count
  <2>1. e - 1 \in 0 .. n
    OBVIOUS
  <2>2. start[e] = at + off[e - 1] /\ off[e - 1] \in Nat
    BY <1>11, <1>13, <2>1
  <2>3. Len(B[e]) \in Nat
    BY <1>1 DEF D
  <2> DEFINE a == entries[e].site
             b == start[e]
             c == Len(B[e])
             d == entries[e].count
  <2>4. a \in Nat /\ b \in Nat /\ c \in Nat /\ d \in Nat
    BY <1>12, <2>2, <2>3
  <2> HIDE DEF a, b, c, d
  <2>5. <<a, b, c, d>> \in Seq(Nat) /\ Len(<<a, b, c, d>>) = 4
    BY <2>4
  <2>6. <<a, b, c, d>>[1] = a /\ <<a, b, c, d>>[2] = b /\ <<a, b, c, d>>[3] = c /\ <<a, b, c, d>>[4] = d
    OBVIOUS
  <2>7. Row(e) = <<a, b, c, d>>
    BY DEF a, b, c, d
  <2> HIDE DEF Row
  <2> QED BY <2>2, <2>5, <2>6, <2>7 DEF a, b, c, d
<1>15. rows \in Seq(Seq(Nat)) /\ Len(rows) = n /\ \A e \in 1 .. n : rows[e] = Row(e)
  <2>1. rows = [e \in 1 .. n |-> Row(e)]
    OBVIOUS
  <2> HIDE DEF rows, Row
  <2>2. rows \in [1 .. n -> D] /\ \A e \in 1 .. n : rows[e] = Row(e)
    BY <1>14, <2>1 DEF D
  <2>3. rows \in Seq(D) /\ Len(rows) = n
    BY <2>2, ListIs
  <2> QED BY <2>2, <2>3 DEF D
<1> HIDE DEF rows, Row
<1>16. dirs \in Seq(Nat) /\ \E f : Offsets(rows, f) /\ JoinOf(dirs, rows, f)
  BY <1>15, FlattenAt
<1>17. PICK f : Offsets(rows, f) /\ JoinOf(dirs, rows, f)
  BY <1>16
<1> HIDE DEF dirs
<1>18. f[0] = 0 /\ \A e \in 1 .. n : f[e] = f[e - 1] + 4
  <2>1. f[0] = 0 /\ \A e \in 1 .. n : f[e] = f[e - 1] + Len(rows[e])
    BY <1>15, <1>17 DEF Offsets
  <2>2. \A e \in 1 .. n : Len(rows[e]) = 4
    BY <1>14, <1>15
  <2> QED BY <2>1, <2>2
<1>19. \A e \in 0 .. n : f[e] = 4 * e
  <2> DEFINE M == {m \in Nat : m <= n => f[m] = 4 * m}
  <2>1. 0 \in M
    BY <1>18
  <2>2. ASSUME NEW m \in Nat, m \in M PROVE m + 1 \in M
    <3> SUFFICES ASSUME m + 1 <= n PROVE f[m + 1] = 4 * (m + 1)
      OBVIOUS
    <3>1. m + 1 \in 1 .. n /\ (m + 1) - 1 = m /\ m <= n
      OBVIOUS
    <3>2. f[m + 1] = f[m] + 4 /\ f[m] = 4 * m
      BY <1>18, <2>2, <3>1
    <3> QED BY <3>2
  <2>3. \A m \in Nat : m \in M
    <3> HIDE DEF M
    <3> QED BY <2>1, <2>2, InductionAt
  <2> QED BY <2>3
<1>20. Len(dirs) = 4 * n /\ \A e \in 1 .. n : \A j \in 1 .. 4 : dirs[4 * (e - 1) + j] = Row(e)[j]
  <2>1. Len(dirs) = f[n] /\ n \in 0 .. n
    BY <1>15, <1>17 DEF JoinOf
  <2>2. \A e \in 1 .. n : \A j \in 1 .. Len(rows[e]) : dirs[f[e - 1] + j] = rows[e][j]
    BY <1>15, <1>17 DEF JoinOf
  <2>3. ASSUME NEW e \in 1 .. n, NEW j \in 1 .. 4 PROVE dirs[4 * (e - 1) + j] = Row(e)[j]
    <3>1. rows[e] = Row(e) /\ Len(rows[e]) = 4
      BY <1>14, <1>15
    <3>2. f[e - 1] = 4 * (e - 1)
      <4>1. e - 1 \in 0 .. n
        OBVIOUS
      <4> QED BY <1>19, <4>1
    <3>3. dirs[f[e - 1] + j] = rows[e][j]
      BY <2>2, <3>1
    <3> QED BY <3>1, <3>2, <3>3
  <2> QED BY <1>19, <2>1, <2>3
<1>21. head \in Seq(Nat) /\ Len(head) = 2 /\ head[1] = OTR1 /\ head[2] = n
  BY DEF OTR1
<1> HIDE DEF head, at
<1> DEFINE u == head \o dirs
           z == u \o flat
<1>211. dirs \in Seq(Nat) /\ head \in Seq(Nat)
  BY <1>16, <1>21
<1>22. u \in Seq(Nat) /\ Len(u) = 2 + Len(dirs)
  <2>1. u \in Seq(Nat) /\ Len(u) = Len(head) + Len(dirs)
    BY <1>211, ConcatIs
  <2> QED BY <1>21, <2>1
<1>23. \A k \in 1 .. 2 : u[k] = head[k]
  <2>1. \A k \in 1 .. Len(head) : u[k] = head[k]
    BY <1>211, ConcatIs
  <2> QED BY <1>21, <2>1
<1>24. \A k \in 1 .. Len(dirs) : u[2 + k] = dirs[k]
  <2>1. \A k \in 1 .. Len(dirs) : u[Len(head) + k] = dirs[k]
    BY <1>211, ConcatIs
  <2> QED BY <1>21, <2>1
<1> HIDE DEF u
<1>25. Len(u) = at /\ Len(dirs) = 4 * n
  BY <1>20, <1>22 DEF at
<1>26. z \in Seq(Nat) /\ Len(z) = at + Len(flat)
  BY <1>7, <1>22, <1>25, ConcatIs
<1>27. \A k \in 1 .. Len(u) : z[k] = u[k]
  BY <1>7, <1>22, ConcatIs
<1>28. \A k \in 1 .. Len(flat) : z[Len(u) + k] = flat[k]
  BY <1>7, <1>22, ConcatIs
<1> HIDE DEF z
<1>29. Packed = z
  BY <1>3 DEF z, u
<1>30. z[1] = OTR1 /\ z[2] = n
  <2>1. 1 \in 1 .. 2 /\ 2 \in 1 .. 2 /\ 1 \in 1 .. Len(u) /\ 2 \in 1 .. Len(u)
    BY <1>25 DEF at
  <2> QED BY <1>21, <1>23, <1>27, <2>1
<1>31. ASSUME NEW e \in 1 .. n, NEW j \in 1 .. 4 PROVE z[2 + 4 * (e - 1) + j] = Row(e)[j]
  <2> DEFINE k == 4 * (e - 1) + j
  <2>1. k \in 1 .. 4 * n /\ 2 + 4 * (e - 1) + j = 2 + k
    OBVIOUS
  <2>2. dirs[k] = Row(e)[j]
    BY <1>20
  <2> HIDE DEF k
  <2>3. u[2 + k] = dirs[k]
    BY <1>24, <1>25, <2>1
  <2>4. 2 + k \in 1 .. Len(u)
    BY <1>25, <2>1 DEF at
  <2> QED BY <1>27, <2>1, <2>2, <2>3, <2>4
<1>32. ASSUME NEW e \in 1 .. n
       PROVE  /\ z[2 + 4 * (e - 1) + 1] = entries[e].site /\ z[2 + 4 * (e - 1) + 2] = at + off[e - 1]
              /\ z[2 + 4 * (e - 1) + 3] = Len(B[e]) /\ z[2 + 4 * (e - 1) + 4] = entries[e].count
  <2>1. 1 \in 1 .. 4 /\ 2 \in 1 .. 4 /\ 3 \in 1 .. 4 /\ 4 \in 1 .. 4
    OBVIOUS
  <2>2. /\ z[2 + 4 * (e - 1) + 1] = Row(e)[1] /\ z[2 + 4 * (e - 1) + 2] = Row(e)[2]
        /\ z[2 + 4 * (e - 1) + 3] = Row(e)[3] /\ z[2 + 4 * (e - 1) + 4] = Row(e)[4]
    BY <1>31, <2>1
  <2> QED BY <1>14, <2>2
<1>33. ASSUME NEW e \in 1 .. n, NEW j \in 1 .. Len(B[e]) PROVE z[at + off[e - 1] + j] = B[e][j]
  <2> DEFINE a == off[e - 1]
             b == off[e]
             c == Len(B[e])
             k == a + j
  <2>1. e - 1 \in 0 .. n
    OBVIOUS
  <2>2. a \in Nat /\ b = a + c /\ b <= Len(flat) /\ c \in Nat
    <3>1. Len(B[e]) \in Nat
      BY <1>1 DEF D
    <3> QED BY <1>9, <1>10, <1>11, <2>1, <3>1
  <2>3. flat[k] = B[e][j]
    BY <1>10
  <2>4. j \in 1 .. c
    OBVIOUS
  <2> HIDE DEF a, b, c
  <2>5. k \in 1 .. Len(flat) /\ at + a + j = at + k /\ at + a + j = Len(u) + k
    BY <1>10, <1>12, <1>25, <2>2, <2>4
  <2> HIDE DEF k
  <2>6. z[Len(u) + k] = flat[k]
    BY <1>28, <2>5
  <2>7. z[at + a + j] = B[e][j]
    BY <2>3, <2>5, <2>6
  <2> QED BY <2>7 DEF a
<1>34. PackedAs(n, off)
  BY <1>9, <1>10, <1>26, <1>29, <1>30, <1>32, <1>33 DEF PackedAs, B, at
<1> QED BY <1>34

-----------------------------------------------------------------------------
(* What the reader finds.                                                  *)

ActiveOf(s) == IF InFirstBlock(sites[s].value) THEN << >> ELSE taken

LEMMA ColumnIs ==
  ASSUME TraceInv, phase # "instrument", NEW s \in 1 .. Len(sites)
  PROVE  /\ \A k \in 1 .. Lanes : columns[s][k] = IF k <= Len(input) THEN Compute(sites[s].value, input[k]) ELSE 0
         /\ encode(Column(s)) \in Seq(Nat)
         /\ decode(encode(Column(s))) =
              [kind |-> kind, warp |-> warp, active |-> ActiveOf(s),
               bits |-> [l \in 1 .. Lanes |-> IF LaneActive(ActiveOf(s), l) THEN columns[s][l] ELSE 0]]
<1> DEFINE bs == columns[s]
           act == ActiveOf(s)
           v == sites[s].value
<1>1. CodeInv /\ RunInv /\ sites # << >>
  BY DEF TraceInv, RunInv
<1>2. DOMAIN sites = 1 .. Len(sites) /\ v = Captured(accept)[s].value /\ Len(sites) = Len(Captured(accept))
  BY <1>1, SitesAre
<1>3. /\ kind \in {U32, F32} /\ warp \in WarpSizes /\ taken \in Masks
      /\ columns = [t \in DOMAIN sites |-> [k \in 1 .. Lanes |->
                     IF k <= Len(input) THEN Compute(sites[t].value, input[k]) ELSE 0]]
      /\ input \in Seq(Inputs)
  BY <1>1 DEF RunInv
<1>4. Captured(accept)[s] \in Instructions /\ Captured(accept)[s].capturable
  <2>1. Captured(accept)[s] \in WantedIn(accept)
    BY <1>2, CapturedIs
  <2> QED BY <2>1 DEF WantedIn
<1>5. \A x \in Inputs : Compute(v, x) \in Values
  BY <1>2, <1>4, InstructionIs
<1>6. 0 \in Values
  <2>1. Pow2[ValueBits] \in Nat \ {0}
    BY CodecAssumption, Pow2Is
  <2> QED BY <2>1, ValuesAre
<1>7. Column(s) = [kind |-> kind, warp |-> warp, bits |-> bs, active |-> act]
  BY DEF Column, ActiveOf
<1> HIDE DEF v
<1>8. bs = [k \in 1 .. Lanes |-> IF k <= Len(input) THEN Compute(v, input[k]) ELSE 0]
  BY <1>2, <1>3 DEF v
<1> HIDE DEF bs, act
<1>9. bs \in [1 .. Lanes -> Values]
  <2> SUFFICES ASSUME NEW k \in 1 .. Lanes PROVE (IF k <= Len(input) THEN Compute(v, input[k]) ELSE 0) \in Values
    BY <1>8
  <2>1. CASE k <= Len(input)
    <3>1. k \in 1 .. Len(input)
      BY <1>3, <2>1, LanesAre
    <3>2. input[k] \in Inputs
      BY <1>3, <3>1
    <3> QED BY <1>5, <2>1, <3>2
  <2>2. CASE ~(k <= Len(input))
    BY <1>6, <2>2
  <2> QED BY <2>1, <2>2
<1>10. bs \in Seq(Values) /\ Len(bs) = Lanes
  BY <1>9, LanesAre, ListIs
<1>11. act = << >> \/ (bs # << >> /\ act \in [1 .. Len(bs) -> {0, 1}])
  <2>1. bs # << >>
    BY <1>10, LanesAre
  <2>2. taken = << >> \/ taken \in [1 .. Lanes -> {0, 1}]
    BY <1>3, CaptureAssumption
  <2>3. act = << >> \/ act = taken
    BY DEF act, ActiveOf
  <2> QED BY <1>10, <2>1, <2>2, <2>3
<1>12. warp \in Nat
  BY <1>3, CaptureAssumption
<1>13. encode(Column(s)) \in Seq(Nat)
  BY <1>3, <1>7, <1>10, <1>11, <1>12, EncodeNat
<1>14. decode(encode(Column(s))) =
         [kind |-> kind, warp |-> warp, active |-> act,
          bits |-> [l \in 1 .. Len(bs) |-> IF LaneActive(act, l) THEN bs[l] ELSE 0]]
  BY <1>3, <1>7, <1>10, <1>11, <1>12, CodecExact
<1>15. \A k \in 1 .. Lanes : bs[k] = IF k <= Len(input) THEN Compute(v, input[k]) ELSE 0
  BY <1>8
<1> QED BY <1>10, <1>13, <1>14, <1>15 DEF bs, act, v

LEMMA Climbs ==
  ASSUME NEW n \in Nat, NEW p \in [1 .. n -> 1 .. n], \A i, j \in 1 .. n : i < j => p[i] < p[j]
  PROVE  \A i \in 1 .. n : i <= p[i]
<1> DEFINE M == {m \in Nat : m \in 1 .. n => m <= p[m]}
<1>1. 0 \in M
  OBVIOUS
<1>2. ASSUME NEW m \in Nat, m \in M PROVE m + 1 \in M
  <2> SUFFICES ASSUME m + 1 \in 1 .. n PROVE m + 1 <= p[m + 1]
    OBVIOUS
  <2>1. p[m + 1] \in 1 .. n
    OBVIOUS
  <2>2. CASE m = 0
    BY <2>1, <2>2
  <2>3. CASE m # 0
    <3>1. m \in 1 .. n /\ m < m + 1
      BY <2>3
    <3>2. m <= p[m] /\ p[m] < p[m + 1] /\ p[m] \in 1 .. n
      BY <1>2, <3>1
    <3> QED BY <2>1, <3>2
  <2> QED BY <2>2, <2>3
<1>3. \A m \in Nat : m \in M
  <2> HIDE DEF M
  <2> QED BY <1>1, <1>2, InductionAt
<1> QED BY <1>3

LEMMA StaysInPlace ==
  ASSUME NEW n \in Nat, NEW p \in [1 .. n -> 1 .. n], \A i, j \in 1 .. n : i < j => p[i] < p[j]
  PROVE  \A i \in 1 .. n : p[i] = i
<1> DEFINE q == [i \in 1 .. n |-> n + 1 - p[n + 1 - i]]
<1>1. \A i \in 1 .. n : i <= p[i]
  BY Climbs
<1>2. \A i \in 1 .. n : n + 1 - i \in 1 .. n /\ p[n + 1 - i] \in 1 .. n /\ q[i] = n + 1 - p[n + 1 - i] /\ q[i] \in 1 .. n
  <2> SUFFICES ASSUME NEW i \in 1 .. n
               PROVE  n + 1 - i \in 1 .. n /\ p[n + 1 - i] \in 1 .. n /\ n + 1 - p[n + 1 - i] \in 1 .. n
    OBVIOUS
  <2>1. n + 1 - i \in 1 .. n
    OBVIOUS
  <2>2. p[n + 1 - i] \in 1 .. n
    BY <2>1
  <2> QED BY <2>1, <2>2
<1>3. q \in [1 .. n -> 1 .. n]
  BY <1>2
<1>4. \A i, j \in 1 .. n : i < j => q[i] < q[j]
  <2> SUFFICES ASSUME NEW i \in 1 .. n, NEW j \in 1 .. n, i < j PROVE q[i] < q[j]
    OBVIOUS
  <2> DEFINE a == n + 1 - j
             b == n + 1 - i
  <2>1. a \in 1 .. n /\ b \in 1 .. n /\ a < b
    OBVIOUS
  <2>2. p[a] < p[b] /\ p[a] \in 1 .. n /\ p[b] \in 1 .. n
    BY <2>1
  <2>3. q[i] = n + 1 - p[b] /\ q[j] = n + 1 - p[a]
    OBVIOUS
  <2> DEFINE c == p[a]
             d == p[b]
  <2>4. c < d /\ c \in 1 .. n /\ d \in 1 .. n
    BY <2>2
  <2>5. q[i] = n + 1 - d /\ q[j] = n + 1 - c
    BY <2>3
  <2> HIDE DEF q, a, b, c, d
  <2>6. n + 1 - d < n + 1 - c
    BY <2>4
  <2> QED BY <2>5, <2>6
<1> HIDE DEF q
<1>5. \A i \in 1 .. n : i <= q[i]
  BY <1>3, <1>4, Climbs
<1> SUFFICES ASSUME NEW i \in 1 .. n PROVE p[i] = i
  OBVIOUS
<1>6. n + 1 - i \in 1 .. n /\ n + 1 - (n + 1 - i) = i
  OBVIOUS
<1>7. n + 1 - i <= q[n + 1 - i] /\ q[n + 1 - i] = n + 1 - p[i] /\ p[i] \in 1 .. n
  BY <1>2, <1>5, <1>6
<1>8. i <= p[i]
  BY <1>1
<1> QED BY <1>7, <1>8

(* The sites are in the order of their ids as they are. *)
LEMMA OrderedIs ==
  ASSUME CodeInv, sites # << >>
  PROVE  Ordered = sites
<1> DEFINE D == DOMAIN sites
           n == Len(sites)
           Good(p) == \A i, j \in D : i < j => p[i] # p[j] /\ sites[p[i]].id <= sites[p[j]].id
           order == CHOOSE p \in [D -> D] : Good(p)
           same == [i \in D |-> i]
<1>1. n \in Nat /\ D = 1 .. n /\ (\A k \in 1 .. n : sites[k].id = k - 1) /\ sites = SiteTable(accept)
  BY SitesAre
<1>2. same \in [D -> D] /\ Good(same)
  BY <1>1
<1>3. order \in [D -> D] /\ Good(order)
  <2> HIDE DEF same, Good, D
  <2> QED BY <1>2
<1>4. \A i \in 1 .. n : order[i] = i
  <2> HIDE DEF order, n
  <2>1. order \in [1 .. n -> 1 .. n]
    BY <1>1, <1>3
  <2>2. ASSUME NEW i \in 1 .. n, NEW j \in 1 .. n, i < j PROVE order[i] < order[j]
    <3>1. order[i] \in 1 .. n /\ order[j] \in 1 .. n /\ order[i] # order[j]
      BY <1>1, <1>3, <2>1, <2>2
    <3>2. sites[order[i]].id <= sites[order[j]].id
      BY <1>1, <1>3, <2>2
    <3>3. sites[order[i]].id = order[i] - 1 /\ sites[order[j]].id = order[j] - 1
      BY <1>1, <3>1
    <3> DEFINE a == order[i]
               b == order[j]
    <3>4. a \in 1 .. n /\ b \in 1 .. n /\ a # b /\ a - 1 <= b - 1
      BY <3>1, <3>2, <3>3
    <3> HIDE DEF a, b
    <3>5. a < b
      BY <1>1, <3>4
    <3> QED BY <3>5 DEF a, b
  <2> QED BY <1>1, <2>1, <2>2, StaysInPlace
<1>5. Ordered = [s \in DOMAIN sites |-> sites[order[s]]]
  BY DEF Ordered
<1> HIDE DEF order, n
<1>6. Ordered = [s \in DOMAIN sites |-> sites[s]]
  BY <1>1, <1>4, <1>5
<1>7. sites = [s \in DOMAIN sites |-> sites[s]]
  <2>1. SiteTable(accept) = [s \in DOMAIN SiteTable(accept) |-> SiteTable(accept)[s]]
    BY DEF SiteTable
  <2> QED BY <1>1, <2>1
<1> QED BY <1>6, <1>7

(* The writer's entries, as the file has them. *)
LEMMA EntriesAre ==
  ASSUME TraceInv, phase = "open"
  PROVE  /\ CodeInv /\ sites # << >> /\ Len(sites) \in Nat \ {0}
         /\ \A e \in 1 .. Len(sites) : entries[e].site = e - 1 /\ entries[e].count = Lanes /\ Blobs[e] = encode(Column(e))
         /\ \A e \in 1 .. Len(sites) : Blobs[e] \in Seq(Nat) /\ Len(Blobs[e]) \in Nat
         /\ \E off : PackedAs(Len(sites), off)
<1> DEFINE n == Len(sites)
<1>1. /\ CodeInv /\ sites # << >> /\ Len(entries) = n /\ entries = [e \in 1 .. Len(entries) |-> Entry(e)]
  BY DEF TraceInv, RunInv, StoreInv, Ready
<1>2. n \in Nat \ {0} /\ \A k \in 1 .. n : sites[k].id = k - 1
  <2>1. n \in Nat /\ sites = SiteTable(accept) /\ n = Len(Captured(accept)) /\ \A k \in 1 .. n : sites[k].id = k - 1
    BY <1>1, SitesAre
  <2>2. n # 0
    <3>1. DOMAIN sites = 1 .. n
      BY <1>1, SitesAre
    <3>2. n = 0 => DOMAIN sites = {}
      BY <3>1
    <3>3. DOMAIN sites = {} => sites = << >>
      <4>1. sites = [k \in DOMAIN sites |-> sites[k]]
        BY <2>1 DEF SiteTable
      <4> QED BY <4>1
    <3> QED BY <1>1, <3>2, <3>3
  <2> QED BY <2>1, <2>2
<1>3. ASSUME NEW e \in 1 .. n
      PROVE  /\ entries[e].site = e - 1 /\ entries[e].count = Lanes /\ entries[e].blob = encode(Column(e))
             /\ Blobs[e] = encode(Column(e)) /\ encode(Column(e)) \in Seq(Nat)
  <2>1. entries[e] = Entry(e) /\ e \in DOMAIN entries
    BY <1>1
  <2>2. Entry(e).site = sites[e].id /\ Entry(e).count = Lanes /\ Entry(e).blob = encode(Column(e))
    BY DEF Entry
  <2>3. Blobs[e] = entries[e].blob
    BY <2>1 DEF Blobs
  <2>4. encode(Column(e)) \in Seq(Nat)
    <3>1. phase # "instrument"
      OBVIOUS
    <3> QED BY <3>1, ColumnIs
  <2> QED BY <1>2, <2>1, <2>2, <2>3, <2>4
<1> HIDE DEF n
<1>4. \E off : PackedAs(n, off)
  <2>1. Len(entries) = n /\ DOMAIN entries = 1 .. n /\ n \in Nat
    BY <1>1, <1>2
  <2>2. \A e \in 1 .. n : entries[e].blob \in Seq(Nat) /\ entries[e].site \in Nat /\ entries[e].count \in Nat
    BY <1>2, <1>3, LanesAre
  <2> QED BY <2>1, <2>2, PackedIs
<1>5. \A e \in 1 .. n : Blobs[e] \in Seq(Nat) /\ Len(Blobs[e]) \in Nat
  <2> SUFFICES ASSUME NEW e \in 1 .. n PROVE Blobs[e] \in Seq(Nat) /\ Len(Blobs[e]) \in Nat
    OBVIOUS
  <2> DEFINE b == Blobs[e]
  <2>1. b \in Seq(Nat)
    BY <1>3
  <2> HIDE DEF b
  <2>2. Len(b) \in Nat
    BY <2>1
  <2> QED BY <2>1, <2>2 DEF b
<1> QED BY <1>1, <1>2, <1>3, <1>4, <1>5 DEF n

(* From a whole file each column comes back. *)
LEMMA ReadWhole ==
  ASSUME TraceInv, phase = "open", file = Packed, NEW s \in 1 .. Len(sites)
  PROVE  ColumnsOfSite(s - 1) = {decode(encode(Column(s)))}
<1> DEFINE n == Len(sites)
           b == Blobs[s]
<1>1. /\ n \in Nat \ {0} /\ b = encode(Column(s)) /\ b \in Seq(Nat) /\ Len(b) \in Nat
      /\ \A e \in 1 .. n : entries[e].site = e - 1 /\ entries[e].count = Lanes
  BY EntriesAre
<1>2. PICK off : PackedAs(n, off)
  BY EntriesAre
<1> HIDE DEF n, b
<1>3. /\ off \in [0 .. n -> Nat] /\ Len(Packed) = 2 + 4 * n + off[n] /\ Packed \in Seq(Nat)
      /\ Packed[2] = n
  BY <1>2 DEF PackedAs
<1>4. \A e \in 1 .. n : /\ Packed[2 + 4 * (e - 1) + 1] = entries[e].site
                        /\ Packed[2 + 4 * (e - 1) + 2] = 2 + 4 * n + off[e - 1]
                        /\ Packed[2 + 4 * (e - 1) + 3] = Len(Blobs[e])
                        /\ Packed[2 + 4 * (e - 1) + 4] = entries[e].count
  BY <1>2 DEF PackedAs
<1>5. off[n] \in Nat /\ off[s - 1] \in Nat /\ s \in 1 .. n
  <2>1. s \in 1 .. n
    BY DEF n
  <2>2. n \in 0 .. n /\ s - 1 \in 0 .. n
    BY <1>1, <2>1
  <2> QED BY <1>3, <2>1, <2>2
<1>6. off[s] = off[s - 1] + Len(b) /\ off[s] <= off[n]
  BY <1>2, <1>5 DEF PackedAs, b
<1>7. \A j \in 1 .. Len(b) : Packed[2 + 4 * n + off[s - 1] + j] = b[j]
  BY <1>2, <1>5 DEF PackedAs, b
<1>8. \A k \in 1 .. Len(Packed) : Cell(k) = Packed[k]
  <2>1. Len(Packed) \in Nat
    BY <1>1, <1>3, <1>5
  <2> HIDE DEF Packed
  <2> QED BY <2>1 DEF Cell
<1>9. Cell(2) = n
  <2>1. 2 \in 1 .. Len(Packed)
    BY <1>1, <1>3, <1>5
  <2> QED BY <1>3, <1>8, <2>1
<1>10. ASSUME NEW e \in 1 .. n, NEW i \in 1 .. 4 PROVE Cell(2 + DirCells * (e - 1) + i) = Packed[2 + 4 * (e - 1) + i]
  <2>1. 2 + DirCells * (e - 1) + i = 2 + 4 * (e - 1) + i
    BY DEF DirCells
  <2> DEFINE o == off[n]
             l == Len(Packed)
  <2>2. o \in Nat /\ l = 2 + 4 * n + o
    BY <1>3, <1>5
  <2> HIDE DEF o, l
  <2>3. 2 + 4 * (e - 1) + i \in 1 .. l
    BY <1>1, <2>2
  <2> QED BY <1>8, <2>1, <2>3 DEF l
<1>11. dir = Directory
  BY DEF TraceInv, ReadInv
<1>12. DOMAIN dir = 1 .. n
  BY <1>9, <1>11 DEF Directory
<1>13. ASSUME NEW e \in 1 .. n
       PROVE  /\ dir[e].site = e - 1 /\ dir[e].offset = 2 + 4 * n + off[e - 1] /\ dir[e].length = Len(Blobs[e])
              /\ dir[e].count = Lanes
  <2>1. dir[e] = [site |-> Cell(2 + DirCells * (e - 1) + 1), offset |-> Cell(2 + DirCells * (e - 1) + 2),
                  length |-> Cell(2 + DirCells * (e - 1) + 3), count |-> Cell(2 + DirCells * (e - 1) + 4)]
    BY <1>9, <1>11 DEF Directory
  <2>2. 1 \in 1 .. 4 /\ 2 \in 1 .. 4 /\ 3 \in 1 .. 4 /\ 4 \in 1 .. 4
    OBVIOUS
  <2>3. /\ Cell(2 + DirCells * (e - 1) + 1) = Packed[2 + 4 * (e - 1) + 1]
        /\ Cell(2 + DirCells * (e - 1) + 2) = Packed[2 + 4 * (e - 1) + 2]
        /\ Cell(2 + DirCells * (e - 1) + 3) = Packed[2 + 4 * (e - 1) + 3]
        /\ Cell(2 + DirCells * (e - 1) + 4) = Packed[2 + 4 * (e - 1) + 4]
    BY <1>10, <2>2
  <2>4. /\ Packed[2 + 4 * (e - 1) + 1] = entries[e].site /\ Packed[2 + 4 * (e - 1) + 2] = 2 + 4 * n + off[e - 1]
        /\ Packed[2 + 4 * (e - 1) + 3] = Len(Blobs[e]) /\ Packed[2 + 4 * (e - 1) + 4] = entries[e].count
    BY <1>4
  <2>5. dir[e].site = Packed[2 + 4 * (e - 1) + 1] /\ dir[e].offset = Packed[2 + 4 * (e - 1) + 2]
    BY <2>1, <2>3
  <2>6. dir[e].length = Packed[2 + 4 * (e - 1) + 3] /\ dir[e].count = Packed[2 + 4 * (e - 1) + 4]
    BY <2>1, <2>3
  <2>7. entries[e].site = e - 1 /\ entries[e].count = Lanes
    BY <1>1
  <2> HIDE DEF Packed
  <2> QED BY <2>4, <2>5, <2>6, <2>7
<1> DEFINE es == {e \in DOMAIN dir : dir[e].site = s - 1}
<1>14. es = {s}
  <2>1. \A e \in 1 .. n : dir[e].site = s - 1 <=> e = s
    BY <1>1, <1>5, <1>13
  <2> QED BY <1>5, <1>12, <2>1
<1>15. Min({s}) = s
  <2>1. {s} \subseteq Nat /\ {s} # {}
    BY <1>5
  <2>2. Min({s}) \in {s}
    BY <2>1, LeastOf
  <2> QED BY <2>2
<1> DEFINE d == dir[s]
           cells == [k \in 1 .. d.length |-> Cell(d.offset + k)]
<1>16. cells = b
  <2>1. d.length = Len(b) /\ d.offset = 2 + 4 * n + off[s - 1]
    BY <1>5, <1>13 DEF b
  <2>2. ASSUME NEW k \in 1 .. Len(b) PROVE Cell(2 + 4 * n + off[s - 1] + k) = b[k]
    <3> DEFINE a == off[s - 1]
               o == off[n]
               t == off[s]
               l == Len(b)
               z == Len(Packed)
    <3>1. a \in Nat /\ o \in Nat /\ t = a + l /\ t <= o /\ l \in Nat /\ z = 2 + 4 * n + o
      BY <1>1, <1>3, <1>5, <1>6
    <3>2. k \in 1 .. l
      OBVIOUS
    <3> HIDE DEF a, o, t, l, z
    <3>3. 2 + 4 * n + a + k \in 1 .. z
      BY <1>1, <3>1, <3>2
    <3>4. 2 + 4 * n + off[s - 1] + k \in 1 .. Len(Packed)
      BY <3>3 DEF a, z
    <3>5. Packed[2 + 4 * n + off[s - 1] + k] = b[k]
      BY <1>7
    <3> QED BY <1>8, <3>4, <3>5
  <2>3. cells = [k \in 1 .. Len(b) |-> b[k]]
    BY <2>1, <2>2
  <2>4. b = [k \in 1 .. Len(b) |-> b[k]]
    BY <1>1
  <2> QED BY <2>3, <2>4
<1>17. Len(decode(encode(Column(s))).bits) = d.count
  <2> DEFINE q == [l \in 1 .. Lanes |-> IF LaneActive(ActiveOf(s), l) THEN columns[s][l] ELSE 0]
  <2>1. decode(encode(Column(s))).bits = q
    <3>1. phase # "instrument"
      OBVIOUS
    <3>2. decode(encode(Column(s))) = [kind |-> kind, warp |-> warp, active |-> ActiveOf(s), bits |-> q]
      BY <3>1, ColumnIs
    <3> HIDE DEF q
    <3> QED BY <3>2
  <2>2. Len(q) = Lanes
    <3>1. Lanes \in Nat /\ q \in [1 .. Lanes -> {q[l] : l \in 1 .. Lanes}]
      BY LanesAre
    <3> HIDE DEF q
    <3> QED BY <3>1, ListIs
  <2>3. d.count = Lanes
    BY <1>5, <1>13
  <2> QED BY <2>1, <2>2, <2>3
<1> HIDE DEF es, cells
<1> DEFINE c == decode(encode(Column(s)))
<1>18. ColumnsOfSite(s - 1) = {x \in {c} : Len(x.bits) = d.count}
  <2>1. es # {} /\ Min(es) = s
    BY <1>14, <1>15
  <2>2. decode(cells) = c
    BY <1>1, <1>16
  <2>3. ColumnsOfSite(s - 1) = IF es = {} THEN {} ELSE {x \in {decode([k \in 1 .. dir[Min(es)].length |-> Cell(dir[Min(es)].offset + k)])} :
                                                  Len(x.bits) = dir[Min(es)].count}
    BY DEF ColumnsOfSite, es
  <2> HIDE DEF c
  <2> QED BY <2>1, <2>2, <2>3 DEF cells
<1> HIDE DEF d
<1>19. Len(c.bits) = d.count
  BY <1>17
<1> HIDE DEF c
<1>20. ColumnsOfSite(s - 1) = {c}
  BY <1>18, <1>19
<1> QED BY <1>20 DEF c

-----------------------------------------------------------------------------
(* The history.                                                            *)

(* A member of W gives one element, which knows its number. *)
Numbered(q, W, R) == [k \in DOMAIN q |-> IF q[k] \in W THEN <<R[<<k, q[k]>>]>> ELSE << >>]
Agrees(T, R, H, G) == \A k \in Nat : \A x \in T : H[R[<<k, x>>]] = G[x]
ReadAlike(q, W, R, H, G) == Mapped(FlattenSeq(Numbered(q, W, R)), H) = Mapped(Keep(q, W), G)

LEMMA NumberedKeeps ==
  ASSUME NEW T, NEW U, NEW V, NEW W, NEW R, Takes(R, Nat \X T, U), NEW H, Takes(H, U, V),
         NEW G, Takes(G, T, V), Agrees(T, R, H, G), NEW q \in Seq(T)
  PROVE  /\ FlattenSeq(Numbered(q, W, R)) \in Seq(U)
         /\ ReadAlike(q, W, R, H, G)
<1> DEFINE P == {r \in Seq(T) : /\ Numbered(r, W, R) \in Seq(Seq(U))
                                /\ Mapped(FlattenSeq(Numbered(r, W, R)), H) = Mapped(Keep(r, W), G)}
<1>1. << >> \in P
  <2>1. Numbered(<< >>, W, R) = << >> /\ << >> \in Seq(Seq(U)) /\ << >> \in Seq(T) /\ << >> \in Seq(U)
    BY DEF Numbered
  <2>2. FlattenSeq(<< >>) = << >>
    BY <2>1, FlattenAppend
  <2>3. Keep(<< >>, W) = << >>
    BY KeepNothing
  <2>4. Mapped(<< >>, H) = << >> /\ Mapped(<< >>, G) = << >>
    BY DEF Mapped
  <2> QED BY <2>1, <2>2, <2>3, <2>4
<1>2. ASSUME NEW r \in Seq(T), NEW x \in T, r \in P PROVE Append(r, x) \in P
  <2> DEFINE N0 == Numbered(r, W, R)
             N1 == Numbered(Append(r, x), W, R)
             u == R[<<Len(r) + 1, x>>]
             y == IF x \in W THEN <<u>> ELSE << >>
             f == FlattenSeq(N0)
             c == Keep(r, W)
  <2>1. N0 \in Seq(Seq(U)) /\ Mapped(f, H) = Mapped(c, G)
    BY <1>2
  <2>2. u \in U /\ H[u] = G[x]
    <3>1. Len(r) + 1 \in Nat /\ <<Len(r) + 1, x>> \in Nat \X T
      OBVIOUS
    <3> QED BY <3>1 DEF Takes, Agrees
  <2>3. y \in Seq(U)
    <3> HIDE DEF u
    <3> QED BY <2>2
  <2>4. Append(r, x) \in Seq(T) /\ DOMAIN r = 1 .. Len(r) /\ DOMAIN Append(r, x) = 1 .. Len(r) + 1 /\ Len(r) \in Nat
    OBVIOUS
  <2>5. N1 = Append(N0, y)
    <3>1. DOMAIN N0 = 1 .. Len(r) /\ Len(N0) = Len(r)
      <4>1. DOMAIN N0 = 1 .. Len(r)
        BY <2>4 DEF Numbered
      <4> HIDE DEF N0
      <4>2. DOMAIN N0 = 1 .. Len(N0) /\ Len(N0) \in Nat
        BY <2>1
      <4> QED BY <2>4, <4>1, <4>2
    <3>2. \A k \in 1 .. Len(r) : N1[k] = N0[k]
      <4>1. \A k \in 1 .. Len(r) : Append(r, x)[k] = r[k] /\ k \in 1 .. Len(r) + 1
        OBVIOUS
      <4> QED BY <2>4, <4>1 DEF Numbered
    <3>3. N1[Len(r) + 1] = y
      <4>1. Append(r, x)[Len(r) + 1] = x /\ Len(r) + 1 \in 1 .. Len(r) + 1
        BY <2>4
      <4> QED BY <2>4, <4>1 DEF Numbered
    <3>4. N1 = [k \in 1 .. Len(r) + 1 |-> N1[k]]
      BY <2>4 DEF Numbered
    <3> HIDE DEF N0, N1, y
    <3> DEFINE D == Seq(U)
               z == Append(N0, y)
    <3>5. z = [k \in 1 .. Len(r) + 1 |-> IF k = Len(r) + 1 THEN y ELSE N0[k]]
      <4>1. N0 \in Seq(D) /\ y \in D
        BY <2>1, <2>3
      <4> HIDE DEF D
      <4>2. z \in Seq(D) /\ Len(z) = Len(r) + 1
        BY <3>1, <4>1, AppendIs
      <4>3. z[Len(r) + 1] = y /\ \A k \in 1 .. Len(r) : z[k] = N0[k]
        BY <3>1, <4>1, AppendIs
      <4> HIDE DEF z
      <4>4. z = [k \in 1 .. Len(r) + 1 |-> z[k]]
        BY <4>2
      <4>5. \A k \in 1 .. Len(r) + 1 : z[k] = IF k = Len(r) + 1 THEN y ELSE N0[k]
        BY <2>4, <4>3
      <4> QED BY <4>4, <4>5
    <3> HIDE DEF z
    <3>6. \A k \in 1 .. Len(r) + 1 : N1[k] = IF k = Len(r) + 1 THEN y ELSE N0[k]
      BY <2>4, <3>2, <3>3
    <3> QED BY <3>4, <3>5, <3>6 DEF z
  <2> HIDE DEF N0, N1, y, u, P
  <2>6. Append(N0, y) \in Seq(Seq(U)) /\ FlattenSeq(Append(N0, y)) = f \o y /\ f \in Seq(U)
    <3>1. FlattenSeq(Append(N0, y)) = FlattenSeq(N0) \o y /\ FlattenSeq(N0) \in Seq(U)
      BY <2>1, <2>3, FlattenAppend
    <3>2. Append(N0, y) \in Seq(Seq(U))
      BY <2>1, <2>3
    <3> QED BY <3>1, <3>2
  <2> HIDE DEF f, c
  <2>7. c \in Seq(T) /\ Keep(Append(r, x), W) = IF x \in W THEN Append(c, x) ELSE c
    <3>1. Keep(Append(r, x), W) = IF x \in W THEN Append(c, x) ELSE c
      BY KeepAppend DEF c
    <3> QED BY <3>1, KeepType DEF c
  <2>8. Mapped(Append(f, u), H) = Append(Mapped(f, H), H[u])
    BY <2>2, <2>6, MapAppend
  <2>9. Mapped(Append(c, x), G) = Append(Mapped(c, G), G[x])
    BY <2>7, MapAppend
  <2>10. Mapped(f \o y, H) = Mapped(Keep(Append(r, x), W), G)
    <3>1. CASE x \in W
      <4>1. f \o y = Append(f, u)
        BY <2>2, <2>6, <3>1, AppendIs DEF y
      <4> QED BY <2>1, <2>2, <2>7, <2>8, <2>9, <3>1, <4>1
    <3>2. CASE x \notin W
      <4>1. f \o y = f
        BY <2>6, <3>2, ConcatNothing DEF y
      <4> QED BY <2>1, <2>7, <3>2, <4>1
    <3> QED BY <3>1, <3>2
  <2>11. N1 \in Seq(Seq(U)) /\ FlattenSeq(N1) = f \o y
    BY <2>5, <2>6
  <2> QED BY <2>4, <2>10, <2>11 DEF P, N1
<1>3. Seq(T) \subseteq P
  <2> HIDE DEF P
  <2> QED BY <1>1, <1>2, SequencesAll
<1>4. Numbered(q, W, R) \in Seq(Seq(U))
  BY <1>3
<1>5. FlattenSeq(Numbered(q, W, R)) \in Seq(U)
  <2> DEFINE z == Numbered(q, W, R)
  <2> HIDE DEF z
  <2>1. z \in Seq(Seq(U)) /\ << >> \in Seq(U)
    BY <1>4 DEF z
  <2> QED BY <2>1, FlattenAppend DEF z
<1> QED BY <1>3, <1>5 DEF ReadAlike

(* The columns a site has for lane k. *)
Found(k, s) == {c \in ColumnsOfSite(s - 1) : k <= Len(c.bits) /\ LaneActive(c.active, k)}

Telling(k) == [in \in Instructions |-> <<in.value, Compute(in.value, input[k])>>]

(* The sites of W, and no others, have a value for lane k, the right one. *)
FoundAre(k, W) ==
  \A s \in 1 .. Len(sites) :
    IF Captured(accept)[s] \in W
    THEN Found(k, s) # {} /\ \A c \in Found(k, s) : c.bits[k] = Compute(sites[s].value, input[k])
    ELSE Found(k, s) = {}

LEMMA StepsTold ==
  ASSUME CodeInv, sites # << >>, NEW k, NEW W, FoundAre(k, W)
  PROVE  [i \in DOMAIN StepsOf(k) |-> <<StepsOf(k)[i].value, StepsOf(k)[i].bits>>] =
           Mapped(Keep(Captured(accept), W), Telling(k))
<1> DEFINE T == Instructions
           q == Captured(accept)
           n == Len(sites)
           R == [p \in Nat \X T |-> [id |-> p[1] - 1, value |-> p[2].value, bits |-> Compute(p[2].value, input[k])]]
           U == {R[p] : p \in Nat \X T}
           G == Telling(k)
           V == {G[x] : x \in T}
           H == [u \in U |-> <<u.value, u.bits>>]
           X == FlattenSeq(Numbered(q, W, R))
<1>1. q \in Seq(T) /\ DOMAIN q = 1 .. n /\ DOMAIN sites = 1 .. n /\ n \in Nat
      /\ \A s \in 1 .. n : sites[s].id = s - 1 /\ sites[s].value = q[s].value
  BY CapturedIs, SitesAre
<1>2. Takes(R, Nat \X T, U) /\ Takes(G, T, V)
  BY DEF Takes, Telling
<1>3. \A i \in Nat : \A x \in T : R[<<i, x>>] = [id |-> i - 1, value |-> x.value, bits |-> Compute(x.value, input[k])]
                                  /\ R[<<i, x>>] \in U
  OBVIOUS
<1>4. \A i \in Nat : \A x \in T : H[R[<<i, x>>]] = G[x]
  <2> SUFFICES ASSUME NEW i \in Nat, NEW x \in T PROVE H[R[<<i, x>>]] = G[x]
    OBVIOUS
  <2> DEFINE u == R[<<i, x>>]
  <2>1. u \in U /\ u = [id |-> i - 1, value |-> x.value, bits |-> Compute(x.value, input[k])]
    BY <1>3
  <2> HIDE DEF u, U, R
  <2>2. H[u] = <<u.value, u.bits>>
    BY <2>1
  <2>3. u.value = x.value /\ u.bits = Compute(x.value, input[k])
    BY <2>1
  <2>4. G[x] = <<x.value, Compute(x.value, input[k])>>
    BY DEF Telling
  <2> QED BY <2>2, <2>3, <2>4 DEF u
<1>5. Takes(H, U, V)
  <2>1. \A u \in U : \E i \in Nat : \E x \in T : u = R[<<i, x>>]
    OBVIOUS
  <2> HIDE DEF U, R
  <2>2. \A u \in U : H[u] \in V
    <3> SUFFICES ASSUME NEW u \in U PROVE H[u] \in V
      OBVIOUS
    <3>1. PICK i \in Nat : \E x \in T : u = R[<<i, x>>]
      BY <2>1
    <3>2. PICK x \in T : u = R[<<i, x>>]
      BY <3>1
    <3> HIDE DEF H, G
    <3>3. H[u] = G[x]
      BY <1>4, <3>2
    <3> QED BY <3>2, <3>3
  <2>3. H = [u \in U |-> H[u]]
    OBVIOUS
  <2> HIDE DEF H, V
  <2> QED BY <2>2, <2>3 DEF Takes
<1>6. Agrees(T, R, H, G)
  BY <1>4 DEF Agrees
<1> HIDE DEF H, U, V, G, T
<1>7. StepsOf(k) = X
  <2> DEFINE F == [s \in DOMAIN sites |->
                LET site == Ordered[s]
                    found == {c \in ColumnsOfSite(site.id) : k <= Len(c.bits) /\ LaneActive(c.active, k)}
                IN  IF found = {} THEN << >>
                    ELSE <<[id |-> site.id, value |-> site.value, bits |-> (CHOOSE c \in found : TRUE).bits[k]]>>]
             Z == Numbered(q, W, R)
  <2>1. StepsOf(k) = FlattenSeq(F)
    BY DEF StepsOf
  <2>2. Ordered = sites
    BY OrderedIs
  <2>3. ASSUME NEW s \in 1 .. n
        PROVE  F[s] = IF Found(k, s) = {} THEN << >>
                      ELSE <<[id |-> s - 1, value |-> q[s].value, bits |-> (CHOOSE c \in Found(k, s) : TRUE).bits[k]]>>
    <3> DEFINE found == {c \in ColumnsOfSite(Ordered[s].id) : k <= Len(c.bits) /\ LaneActive(c.active, k)}
    <3>1. Ordered[s].id = s - 1 /\ Ordered[s].value = q[s].value
      BY <1>1, <2>2
    <3>2. found = Found(k, s)
      BY <3>1 DEF Found
    <3>3. F[s] = IF found = {} THEN << >>
                 ELSE <<[id |-> Ordered[s].id, value |-> Ordered[s].value, bits |-> (CHOOSE c \in found : TRUE).bits[k]]>>
      BY <1>1
    <3> HIDE DEF F, found
    <3> QED BY <3>1, <3>2, <3>3
  <2>4. ASSUME NEW s \in 1 .. n
        PROVE  Z[s] = IF q[s] \in W THEN <<R[<<s, q[s]>>]>> ELSE << >>
    BY <1>1 DEF Numbered
  <2>5. F = [s \in 1 .. n |-> F[s]] /\ Z = [s \in 1 .. n |-> Z[s]]
    BY <1>1 DEF Numbered
  <2> HIDE DEF F, Z
  <2>6. ASSUME NEW s \in 1 .. n PROVE F[s] = Z[s]
    <3>1. q[s] \in T /\ s \in Nat
      BY <1>1
    <3>2. R[<<s, q[s]>>] = [id |-> s - 1, value |-> q[s].value, bits |-> Compute(q[s].value, input[k])]
      BY <1>3, <3>1
    <3> HIDE DEF R
    <3> DEFINE found == Found(k, s)
               c0 == CHOOSE c \in found : TRUE
    <3>3. IF q[s] \in W THEN found # {} /\ \A c \in found : c.bits[k] = Compute(q[s].value, input[k]) ELSE found = {}
      BY <1>1 DEF FoundAre
    <3>4. CASE q[s] \in W
      <4> HIDE DEF found
      <4>1. found # {} /\ \A c \in found : c.bits[k] = Compute(q[s].value, input[k])
        BY <3>3, <3>4
      <4>2. c0 \in found
        BY <4>1
      <4>3. c0.bits[k] = Compute(q[s].value, input[k])
        <5> HIDE DEF c0
        <5> QED BY <4>1, <4>2
      <4>4. F[s] = <<[id |-> s - 1, value |-> q[s].value, bits |-> c0.bits[k]]>>
        BY <2>3, <4>1 DEF found
      <4> HIDE DEF c0
      <4> QED BY <2>4, <3>2, <3>4, <4>3, <4>4
    <3>5. CASE q[s] \notin W
      BY <2>3, <2>4, <3>3, <3>5
    <3> QED BY <3>4, <3>5
  <2>7. F = Z
    BY <2>5, <2>6
  <2> QED BY <2>1, <2>7 DEF Z
<1>8. X \in Seq(U) /\ Mapped(X, H) = Mapped(Keep(q, W), G)
  <2> HIDE DEF R, q
  <2>1. FlattenSeq(Numbered(q, W, R)) \in Seq(U)
    BY <1>1, <1>2, <1>5, <1>6, NumberedKeeps
  <2>2. ReadAlike(q, W, R, H, G)
    BY <1>1, <1>2, <1>5, <1>6, NumberedKeeps
  <2> QED BY <2>1, <2>2 DEF ReadAlike
<1> HIDE DEF X
<1>9. Mapped(X, H) = [i \in DOMAIN X |-> <<X[i].value, X[i].bits>>]
  <2>1. \A i \in DOMAIN X : X[i] \in U
    BY <1>8
  <2>2. \A i \in DOMAIN X : H[X[i]] = <<X[i].value, X[i].bits>>
    BY <2>1 DEF H
  <2> QED BY <2>2 DEF Mapped
<1> QED BY <1>7, <1>8, <1>9 DEF G

Recorded(k) == {in \in Instructions : InFirstBlock(in.value) \/ LaneActive(taken, k)}

LEMMA TruthIs ==
  ASSUME NEW k
  PROVE  Truth(k) = Mapped(Keep(Captured(accept), Recorded(k)), Telling(k))
<1> DEFINE all == FlattenSeq(Program)
           S == {in \in Range(all) : (in.capturable /\ in.value \in accept)
                                       /\ (InFirstBlock(in.value) \/ LaneActive(taken, k))}
           run == Keep(all, S)
           A == WantedIn(accept)
           T == Instructions
           B == Recorded(k)
<1>1. all \in Seq(T)
  BY LayoutIs
<1>2. Executed(Program) = all
  <2>1. \A b \in 1 .. Len(Program) : \A i \in 1 .. Len(Program[b]) :
          Program[b][i].op = "return" => b = Len(Program) /\ i = Len(Program[b])
    <3> SUFFICES ASSUME NEW b \in 1 .. Len(Program), NEW i \in 1 .. Len(Program[b]), Program[b][i].op = "return"
                 PROVE  b = Len(Program) /\ i = Len(Program[b])
      OBVIOUS
    <3>1. Program[b][i].op \in Terminators
      BY DEF Terminators
    <3> QED BY <3>1, BlockIs
  <2>2. Program \in Seq(Seq(T))
    BY ProgramIs
  <2> HIDE DEF all, T
  <2> QED BY <2>1, <2>2, ExecutedAll DEF all
<1>3. Truth(k) = [s \in DOMAIN run |-> <<run[s].value, Compute(run[s].value, input[k])>>]
  <2> HIDE DEF all
  <2> QED BY <1>2 DEF Truth
<1>4. run = Keep(Captured(accept), B)
  <2>1. \A i \in 1 .. Len(all) : all[i] \in Range(all) /\ all[i] \in T
    <3> HIDE DEF all
    <3>1. DOMAIN all = 1 .. Len(all)
      BY <1>1
    <3> QED BY <1>1, <3>1 DEF Range
  <2> HIDE DEF all
  <2>2. \A i \in 1 .. Len(all) : all[i] \in S <=> all[i] \in A \cap B
    BY <2>1 DEF WantedIn, Recorded
  <2> HIDE DEF S, A, B, T
  <2>3. Keep(all, S) = Keep(all, A \cap B)
    BY <1>1, <2>2, KeepSame
  <2>4. Keep(Keep(all, A), B) = Keep(all, A \cap B)
    BY <1>1, KeepTwice
  <2> QED BY <2>3, <2>4 DEF Captured, all, A
<1>5. run \in Seq(T)
  <2> HIDE DEF all, S
  <2> QED BY <1>1, KeepType
<1> HIDE DEF run
<1>6. \A s \in DOMAIN run : Telling(k)[run[s]] = <<run[s].value, Compute(run[s].value, input[k])>>
  BY <1>5 DEF Telling
<1>7. Truth(k) = Mapped(run, Telling(k))
  BY <1>3, <1>6 DEF Mapped
<1> QED BY <1>4, <1>7

(* From a whole file every site has its column. *)
LEMMA FoundWhole ==
  ASSUME TraceInv, phase = "open", file = Packed, NEW k \in 1 .. Lanes
  PROVE  FoundAre(k, Recorded(k))
<1> SUFFICES ASSUME NEW s \in 1 .. Len(sites)
             PROVE  IF Captured(accept)[s] \in Recorded(k)
                    THEN Found(k, s) # {} /\ \A c \in Found(k, s) : c.bits[k] = Compute(sites[s].value, input[k])
                    ELSE Found(k, s) = {}
  BY DEF FoundAre
<1> DEFINE d == decode(encode(Column(s)))
           q == [l \in 1 .. Lanes |-> IF LaneActive(ActiveOf(s), l) THEN columns[s][l] ELSE 0]
           v == sites[s].value
<1>1. phase # "instrument" /\ CodeInv /\ sites # << >> /\ Len(input) = Lanes
  BY DEF TraceInv, RunInv
<1>2. ColumnsOfSite(s - 1) = {d}
  BY ReadWhole
<1>3. d = [kind |-> kind, warp |-> warp, active |-> ActiveOf(s), bits |-> q]
  BY <1>1, ColumnIs
<1>4. columns[s][k] = IF k <= Len(input) THEN Compute(v, input[k]) ELSE 0
  BY <1>1, ColumnIs
<1>5. Captured(accept)[s] \in Instructions /\ Captured(accept)[s].value = v
  <2>1. Len(sites) = Len(Captured(accept)) /\ v = Captured(accept)[s].value
    BY <1>1, SitesAre
  <2>2. Captured(accept)[s] \in WantedIn(accept)
    BY <2>1, CapturedIs
  <2> QED BY <2>1, <2>2 DEF WantedIn
<1>6. k <= Len(input)
  BY <1>1, LanesAre
<1>7. Len(q) = Lanes
  <2>1. Lanes \in Nat /\ q \in [1 .. Lanes -> {q[l] : l \in 1 .. Lanes}]
    BY LanesAre
  <2> HIDE DEF q
  <2> QED BY <2>1, ListIs
<1>8. LaneActive(ActiveOf(s), k) <=> InFirstBlock(v) \/ LaneActive(taken, k)
  <2>1. CASE InFirstBlock(v)
    BY <2>1 DEF ActiveOf, LaneActive
  <2>2. CASE ~InFirstBlock(v)
    BY <2>2 DEF ActiveOf
  <2> QED BY <2>1, <2>2
<1>9. Captured(accept)[s] \in Recorded(k) <=> LaneActive(ActiveOf(s), k)
  <2> HIDE DEF v
  <2> QED BY <1>5, <1>8 DEF Recorded
<1>10. q[k] = IF LaneActive(ActiveOf(s), k) THEN Compute(v, input[k]) ELSE 0
  BY <1>4, <1>6
<1> HIDE DEF d, q, v
<1>11. d.bits = q /\ d.active = ActiveOf(s)
  BY <1>3
<1>12. Found(k, s) = IF LaneActive(ActiveOf(s), k) THEN {d} ELSE {}
  <2>1. k <= Len(d.bits)
    BY <1>7, <1>11, LanesAre
  <2> QED BY <1>2, <1>11, <2>1 DEF Found
<1> QED BY <1>9, <1>10, <1>11, <1>12 DEF v

(* From a file that stops early no column has values. *)
LEMMA ReadCut ==
  ASSUME TraceInv, phase = "open", NEW k0 \in 0 .. Len(Packed) - 1, file = SubSeq(Packed, 1, k0),
         NEW s, NEW k \in 1 .. Lanes
  PROVE  Found(k, s) = {}
<1> DEFINE n == Len(sites)
           last == Len(Packed)
<1>1. /\ n \in Nat \ {0} /\ \A e \in 1 .. n : Blobs[e] \in Seq(Nat) /\ Len(Blobs[e]) \in Nat
  BY EntriesAre
<1>2. PICK off : PackedAs(n, off)
  BY EntriesAre
<1> HIDE DEF n
<1>3. /\ off \in [0 .. n -> Nat] /\ off[0] = 0 /\ last = 2 + 4 * n + off[n] /\ Packed \in Seq(Nat)
      /\ Packed[2] = n
  BY <1>2 DEF PackedAs
<1>4. ASSUME NEW e \in 1 .. n
      PROVE  /\ Packed[2 + 4 * (e - 1) + 2] = 2 + 4 * n + off[e - 1]
             /\ Packed[2 + 4 * (e - 1) + 3] = Len(Blobs[e])
             /\ off[e] = off[e - 1] + Len(Blobs[e])
  BY <1>2 DEF PackedAs
<1>5. off[n] \in Nat /\ off[n - 1] \in Nat /\ n \in 1 .. n /\ 1 \in 1 .. n /\ last \in Nat
  <2>1. n \in 0 .. n /\ n - 1 \in 0 .. n /\ n \in 1 .. n /\ 1 \in 1 .. n
    BY <1>1
  <2>2. off[n] \in Nat /\ off[n - 1] \in Nat
    BY <1>3, <2>1
  <2>3. last \in Nat
    BY <1>3
  <2> QED BY <2>1, <2>2, <2>3
<1> HIDE DEF last
<1>6. k0 \in Nat /\ k0 < last
  BY <1>5 DEF last
<1>7. Len(file) = k0 /\ \A i \in 1 .. k0 : file[i] = Packed[i]
  <2> DEFINE z == Packed
  <2>1. z \in Seq(Nat) /\ k0 \in 0 .. Len(z)
    BY <1>3, <1>5, <1>6 DEF last
  <2> HIDE DEF z
  <2>2. Len(SubSeq(z, 1, k0)) = k0 /\ \A i \in 1 .. k0 : SubSeq(z, 1, k0)[i] = z[i]
    BY <2>1
  <2> QED BY <2>2 DEF z
<1>8. \A i \in 1 .. last : Packed[i] \in Nat
  <2> DEFINE z == Packed
  <2>1. z \in Seq(Nat)
    BY <1>3
  <2> HIDE DEF z
  <2>2. \A i \in 1 .. Len(z) : z[i] \in Nat
    BY <2>1
  <2> QED BY <2>2 DEF z, last
<1>9. /\ \A i \in 1 .. k0 : Cell(i) = Packed[i]
      /\ \A i \in Nat : i > k0 => Cell(i) = 0
      /\ \A i \in Nat \ {0} : Cell(i) \in Nat
  <2>1. \A i \in 1 .. k0 : Cell(i) = Packed[i]
    BY <1>6, <1>7 DEF Cell
  <2>2. \A i \in Nat : i > k0 => Cell(i) = 0
    BY <1>6, <1>7 DEF Cell
  <2>3. \A i \in Nat \ {0} : Cell(i) \in Nat
    <3> SUFFICES ASSUME NEW i \in Nat \ {0} PROVE Cell(i) \in Nat
      OBVIOUS
    <3>1. CASE i > k0
      BY <2>2, <3>1
    <3>2. CASE ~(i > k0)
      <4>1. i \in 1 .. k0 /\ i \in 1 .. last
        BY <1>5, <1>6, <3>2
      <4> QED BY <1>8, <2>1, <4>1
    <3> QED BY <3>1, <3>2
  <2> QED BY <2>1, <2>2, <2>3
<1>10. Opens /\ dir = Directory
  BY DEF TraceInv, ReadInv
<1>11. k0 >= 2 /\ Cell(2) = n
  <2>1. k0 >= 2
    BY <1>7, <1>10 DEF Opens
  <2>2. 2 \in 1 .. k0
    BY <1>6, <2>1
  <2> QED BY <1>3, <1>9, <2>1, <2>2
<1>12. DOMAIN dir = 1 .. n /\ \A e \in 1 .. n : /\ dir[e].offset = Cell(2 + 4 * (e - 1) + 2)
                                                /\ dir[e].length = Cell(2 + 4 * (e - 1) + 3)
  BY <1>10, <1>11 DEF Directory, DirCells
<1>13. \A e \in 1 .. n : Cell(2 + 4 * (e - 1) + 2) + Cell(2 + 4 * (e - 1) + 3) <= k0
  BY <1>7, <1>10, <1>12 DEF Opens
<1>14. k0 <= 3
  <2> SUFFICES ASSUME k0 >= 4 PROVE FALSE
    BY <1>6
  <2>1. 2 + 4 * (1 - 1) + 2 = 4 /\ 2 + 4 * (1 - 1) + 3 = 5 /\ 1 - 1 = 0
    OBVIOUS
  <2>2. Cell(4) = 2 + 4 * n
    <3>1. 4 \in 1 .. k0
      BY <1>6
    <3>2. Packed[4] = 2 + 4 * n + off[0]
      BY <1>4, <1>5, <2>1
    <3>3. Cell(4) = 2 + 4 * n + 0
      BY <1>3, <1>9, <3>1, <3>2
    <3> QED BY <1>1, <3>3
  <2>3. Cell(5) \in Nat
    BY <1>9
  <2>4. 2 + 4 * n <= k0
    <3>1. Cell(4) + Cell(5) <= k0
      BY <1>5, <1>13, <2>1
    <3> QED BY <1>1, <1>6, <2>2, <2>3, <3>1
  <2>5. /\ 2 + 4 * (n - 1) + 2 \in 1 .. k0 /\ 2 + 4 * (n - 1) + 3 \in 1 .. k0
    BY <1>1, <1>6, <2>4
  <2> DEFINE a == off[n - 1]
             b == Len(Blobs[n])
             o == off[n]
  <2>6. Cell(2 + 4 * (n - 1) + 2) = 2 + 4 * n + a /\ Cell(2 + 4 * (n - 1) + 3) = b /\ o = a + b
    BY <1>4, <1>5, <1>9, <2>5
  <2>7. a \in Nat /\ b \in Nat /\ o \in Nat /\ last = 2 + 4 * n + o
    BY <1>1, <1>3, <1>5
  <2>8. Cell(2 + 4 * (n - 1) + 2) + Cell(2 + 4 * (n - 1) + 3) <= k0
    BY <1>5, <1>13
  <2> HIDE DEF a, b, o
  <2>9. (2 + 4 * n + a) + b <= k0
    BY <2>6, <2>8
  <2> QED BY <1>1, <1>6, <2>6, <2>7, <2>9
<1>15. \A e \in 1 .. n : dir[e].length = 0
  <2> SUFFICES ASSUME NEW e \in 1 .. n PROVE dir[e].length = 0
    OBVIOUS
  <2>1. 2 + 4 * (e - 1) + 3 \in Nat /\ 2 + 4 * (e - 1) + 3 > k0
    BY <1>6, <1>14
  <2> QED BY <1>9, <1>12, <2>1
<1> DEFINE es == {e \in DOMAIN dir : dir[e].site = s - 1}
           m == Min(es)
           cells == [i \in 1 .. dir[m].length |-> Cell(dir[m].offset + i)]
<1>16. ColumnsOfSite(s - 1) = IF es = {} THEN {} ELSE {x \in {decode(cells)} : Len(x.bits) = dir[m].count}
  BY DEF ColumnsOfSite
<1>17. CASE es = {}
  BY <1>16, <1>17 DEF Found
<1>18. CASE es # {}
  <2>1. m \in 1 .. n
    <3>1. es \subseteq 1 .. n /\ es \subseteq Nat
      BY <1>12
    <3> HIDE DEF es
    <3>2. m \in es
      BY <1>18, <3>1, LeastOf
    <3> QED BY <3>1, <3>2
  <2> HIDE DEF es, m
  <2>2. cells = << >>
    <3>1. dir[m].length = 0 /\ 1 .. 0 = {}
      BY <1>15, <2>1
    <3> QED BY <3>1
  <2>3. decode(cells) = NoColumn
    <3> HIDE DEF cells
    <3>1. Len(cells) < 2
      BY <2>2
    <3> QED BY <3>1 DEF decode
  <2>4. Len(NoColumn.bits) = 0
    BY DEF NoColumn
  <2>5. \A c \in ColumnsOfSite(s - 1) : c = NoColumn
    BY <1>16, <2>3
  <2>6. \A c \in ColumnsOfSite(s - 1) : ~(k <= Len(c.bits))
    <3>1. k > 0
      OBVIOUS
    <3> QED BY <2>4, <2>5, <3>1
  <2> QED BY <2>6 DEF Found
<1> QED BY <1>17, <1>18

LEMMA HistoryIs ==
  ASSUME TraceInv, lane # 0
  PROVE  /\ phase = "open" /\ lane \in 1 .. Lanes /\ CodeInv /\ sites # << >>
         /\ History = [i \in DOMAIN StepsOf(lane) |-> <<StepsOf(lane)[i].value, StepsOf(lane)[i].bits>>]
<1>1. phase = "open" /\ lane \in 1 .. Lanes /\ steps = StepsOf(lane) /\ CodeInv
  BY DEF TraceInv, ReadInv
<1>2. sites # << >>
  BY <1>1 DEF TraceInv, RunInv
<1>3. History = [i \in DOMAIN steps |-> <<steps[i].value, steps[i].bits>>]
  BY DEF History
<1> QED BY <1>1, <1>2, <1>3

LEMMA HistoryTrue ==
  ASSUME TraceInv, lane # 0, file = Packed
  PROVE  History = Truth(lane)
<1>1. phase = "open" /\ lane \in 1 .. Lanes /\ CodeInv /\ sites # << >>
  BY HistoryIs
<1>2. FoundAre(lane, Recorded(lane))
  BY <1>1, FoundWhole
<1>3. [i \in DOMAIN StepsOf(lane) |-> <<StepsOf(lane)[i].value, StepsOf(lane)[i].bits>>] =
        Mapped(Keep(Captured(accept), Recorded(lane)), Telling(lane))
  BY <1>1, <1>2, StepsTold
<1>4. History = [i \in DOMAIN StepsOf(lane) |-> <<StepsOf(lane)[i].value, StepsOf(lane)[i].bits>>]
  BY HistoryIs
<1>5. Truth(lane) = Mapped(Keep(Captured(accept), Recorded(lane)), Telling(lane))
  BY TruthIs
<1> QED BY <1>3, <1>4, <1>5

(* Nothing is read from a file that stops early. *)
LEMMA HistoryCut ==
  ASSUME TraceInv, lane # 0, file # Packed
  PROVE  History = << >>
<1>1. phase = "open" /\ lane \in 1 .. Lanes /\ CodeInv /\ sites # << >>
  BY HistoryIs
<1>2. PICK k0 \in 0 .. Len(Packed) - 1 : file = SubSeq(Packed, 1, k0)
  BY <1>1 DEF TraceInv, StoreInv, Ready
<1>3. FoundAre(lane, {})
  <2>1. ASSUME NEW s \in 1 .. Len(sites) PROVE Found(lane, s) = {}
    BY <1>1, <1>2, ReadCut
  <2> QED BY <2>1 DEF FoundAre
<1>4. [i \in DOMAIN StepsOf(lane) |-> <<StepsOf(lane)[i].value, StepsOf(lane)[i].bits>>] =
        Mapped(Keep(Captured(accept), {}), Telling(lane))
  BY <1>1, <1>3, StepsTold
<1>5. History = [i \in DOMAIN StepsOf(lane) |-> <<StepsOf(lane)[i].value, StepsOf(lane)[i].bits>>]
  BY HistoryIs
<1>6. Keep(Captured(accept), {}) = << >>
  <2>1. Captured(accept) \in Seq(Instructions)
    BY CapturedIs
  <2>2. Keep(Captured(accept), {}) \in Seq(Instructions \cap {})
    BY <2>1, KeepType
  <2> DEFINE z == Keep(Captured(accept), {})
  <2>3. z \in Seq({})
    <3>1. Instructions \cap {} = {}
      OBVIOUS
    <3> QED BY <2>2, <3>1
  <2> HIDE DEF z
  <2>4. z = << >>
    BY <2>3
  <2> QED BY <2>4 DEF z
<1>7. Mapped(<< >>, Telling(lane)) = << >>
  BY DEF Mapped
<1> QED BY <1>4, <1>5, <1>6, <1>7

(* For any program, region of interest, lanes, masks, warp sizes and width *)
(* of the values, and however often the pass runs: the history that        *)
(* reconstruct rebuilds from a whole file is what the lane computed.       *)
THEOREM HistoryIsExact == CaptureSpec => []HistoryExact
<1>1. TraceInv => HistoryExact
  BY HistoryTrue DEF HistoryExact
<1> QED BY <1>1, TraceHolds, PTL

(* For any of them, and wherever fwrite stopped: a file TraceReader opens  *)
(* gives the true history or none.                                         *)
THEOREM CutFileTellsNoLies == CaptureSpec => []CutFileNeverLies
<1>1. ASSUME TraceInv, phase = "open", lane # 0 PROVE Range(History) \subseteq Range(Truth(lane))
  <2>1. CASE file = Packed
    BY <1>1, <2>1, HistoryTrue
  <2>2. CASE file # Packed
    <3>1. History = << >>
      BY <1>1, <2>2, HistoryCut
    <3>2. Range(<< >>) = {}
      BY DEF Range
    <3> QED BY <3>1, <3>2
  <2> QED BY <2>1, <2>2
<1>2. TraceInv => CutFileNeverLies
  BY <1>1 DEF CutFileNeverLies
<1> QED BY <1>2, TraceHolds, PTL
=============================================================================
