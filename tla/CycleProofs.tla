------------------------------ MODULE CycleProofs ------------------------------
(* The search for cycles of required dependencies, for any candidates.        *)
EXTENDS PlanningProofs

--------------------------------------------------------------------------------
(* Induction over numbers, with a set for the predicate, and functions        *)
(* defined by it.                                                             *)

(* A set of numbers has a least one.                                          *)
LEMMA Least ==
  ASSUME NEW S \in SUBSET Nat, S # {}
  PROVE  \E x \in S : \A y \in S : x <= y
  <1> DEFINE R == OpToRel(<, Nat)
  <1>1. IsWellFoundedOn(R, Nat)
    BY NatLessThanWellFounded
  <1>2. ASSUME NEW x \in Nat, NEW y \in Nat, <<y, x>> \notin R
        PROVE  x <= y
    BY <1>2 DEF OpToRel
  <1> HIDE DEF R
  <1>3. PICK x \in S : \A y \in S : <<y, x>> \notin R
    BY <1>1, WFMin
  <1>4. QED
    BY <1>2, <1>3

(* A set that holds 0, and with a number the next, holds every number.        *)
LEMMA Induction ==
  ASSUME NEW S, 0 \in S, \A n \in Nat : n \in S => n + 1 \in S
  PROVE  \A n \in Nat : n \in S
  <1> DEFINE T == Nat \ S
  <1>1. SUFFICES ASSUME T # {} PROVE FALSE
    OBVIOUS
  <1>2. PICK x \in T : \A y \in T : x <= y
    BY <1>1, Least
  <1>3. x # 0 /\ x \in Nat
    BY <1>2
  <1>4. x - 1 \in Nat /\ x - 1 \notin T /\ (x - 1) + 1 = x
    BY <1>2, <1>3
  <1>5. QED
    BY <1>2, <1>4

(* What G makes of x, again and again.                                        *)
Orbit(X, G, x, h) == /\ h \in [Nat -> X] /\ h[0] = x
                     /\ \A n \in Nat : h[n + 1] = G[h[n]]

(* Its first n steps.                                                         *)
Steps(X, G, x, n, p) == /\ p \in [0..n -> X] /\ p[0] = x
                        /\ \A i \in Nat : i < n => p[i + 1] = G[p[i]]

(* They are the same, however they are chosen.                                *)
LEMMA StepsAgree ==
  ASSUME NEW X, NEW G \in [X -> X], NEW x \in X, NEW n \in Nat, NEW p, NEW q,
         Steps(X, G, x, n, p), Steps(X, G, x, n + 1, q)
  PROVE  p[n] = q[n]
  <1> DEFINE S == {i \in Nat : i <= n => p[i] = q[i]}
  <1>1. 0 \in S
    BY DEF Steps
  <1>2. ASSUME NEW i \in Nat, i \in S
        PROVE  i + 1 \in S
    BY <1>2 DEF Steps
  <1> HIDE DEF S
  <1>3. \A i \in Nat : i \in S
    BY <1>1, <1>2, Induction
  <1>4. QED
    BY <1>3 DEF S

(* They exist for any number of steps.                                        *)
LEMMA StepsExist ==
  ASSUME NEW X, NEW G \in [X -> X], NEW x \in X
  PROVE  \A n \in Nat : \E p : Steps(X, G, x, n, p)
  <1> DEFINE S == {n \in Nat : \E p : Steps(X, G, x, n, p)}
  <1>1. 0 \in S
    <2>1. Steps(X, G, x, 0, [i \in 0..0 |-> x])
      BY DEF Steps
    <2>2. QED
      BY <2>1
  <1>2. ASSUME NEW n \in Nat, n \in S
        PROVE  n + 1 \in S
    <2>1. PICK p : Steps(X, G, x, n, p)
      BY <1>2
    <2> DEFINE q == [i \in 0..(n + 1) |-> IF i = n + 1 THEN G[p[n]] ELSE p[i]]
    <2>2. q \in [0..(n + 1) -> X] /\ q[0] = x
      BY <2>1 DEF Steps
    <2>3. \A i \in Nat : i < n + 1 => q[i + 1] = G[q[i]]
      BY <2>1 DEF Steps
    <2> HIDE DEF q
    <2>4. Steps(X, G, x, n + 1, q)
      BY <2>2, <2>3 DEF Steps
    <2>5. n + 1 \in Nat
      OBVIOUS
    <2>6. QED
      BY <2>4, <2>5
  <1> HIDE DEF S
  <1>3. \A n \in Nat : n \in S
    BY <1>1, <1>2, Induction
  <1>4. QED
    BY <1>3 DEF S

(* So do all of them.                                                         *)
LEMMA OrbitExists ==
  ASSUME NEW X, NEW G \in [X -> X], NEW x \in X
  PROVE  \E h : Orbit(X, G, x, h)
  <1> DEFINE part(n) == CHOOSE p : Steps(X, G, x, n, p)
             h == [n \in Nat |-> part(n)[n]]
  <1>1. \A n \in Nat : Steps(X, G, x, n, part(n))
    BY StepsExist, Zenon
  <1> HIDE DEF part
  <1>2. h \in [Nat -> X] /\ h[0] = x
    BY <1>1 DEF Steps
  <1>3. ASSUME NEW n \in Nat
        PROVE  h[n + 1] = G[h[n]]
    <2>1. n + 1 \in Nat /\ n < n + 1
      OBVIOUS
    <2>2. Steps(X, G, x, n, part(n)) /\ Steps(X, G, x, n + 1, part(n + 1))
      BY <1>1, <2>1
    <2>3. part(n)[n] = part(n + 1)[n]
      BY <2>2, StepsAgree
    <2>4. part(n + 1)[n + 1] = G[part(n + 1)[n]]
      BY <2>1, <2>2 DEF Steps
    <2>5. QED
      BY <2>1, <2>3, <2>4
  <1> HIDE DEF h
  <1>4. QED
    BY <1>2, <1>3 DEF Orbit

(* And they are unique.                                                       *)
LEMMA OrbitUnique ==
  ASSUME NEW X, NEW G \in [X -> X], NEW x \in X, NEW g, NEW h, Orbit(X, G, x, g), Orbit(X, G, x, h)
  PROVE  \A n \in Nat : g[n] = h[n]
  <1> DEFINE S == {n \in Nat : g[n] = h[n]}
  <1>1. 0 \in S
    BY DEF Orbit
  <1>2. ASSUME NEW n \in Nat, n \in S
        PROVE  n + 1 \in S
    BY <1>2 DEF Orbit
  <1> HIDE DEF S
  <1>3. \A n \in Nat : n \in S
    BY <1>1, <1>2, Induction
  <1>4. QED
    BY <1>3 DEF S

(* A function that is defined by going on with G until D is reached.          *)
Loops(X, G, D, V, f) == f = [x \in X |-> IF x \in D THEN V[x] ELSE f[G[x]]]

(* There is such a function: follow G until D, if ever, and take V there.     *)
LEMMA LoopExists ==
  ASSUME NEW X, NEW G \in [X -> X], NEW D, NEW V,
         \A x \in D : G[x] = x
  PROVE  \E f : Loops(X, G, D, V, f)
  <1> DEFINE orbit(x) == CHOOSE h : Orbit(X, G, x, h)
             f == [x \in X |-> {v \in UNION {V[y] : y \in X} :
                                  \E n \in Nat : orbit(x)[n] \in D /\ v \in V[orbit(x)[n]]}]
  <1>1. \A x \in X : Orbit(X, G, x, orbit(x))
    BY OrbitExists, Zenon
  <1> HIDE DEF orbit
  <1>2. ASSUME NEW x \in X, NEW n \in Nat
        PROVE  orbit(x)[n + 1] = orbit(G[x])[n]
    <2> DEFINE g == [k \in Nat |-> orbit(x)[k + 1]]
    <2>1. Orbit(X, G, G[x], g)
      <3>1. /\ orbit(x) \in [Nat -> X] /\ orbit(x)[0] = x
            /\ \A k \in Nat : orbit(x)[k + 1] = G[orbit(x)[k]]
        BY <1>1 DEF Orbit
      <3>2. \A k \in Nat : k + 1 \in Nat /\ g[k] = orbit(x)[k + 1]
        OBVIOUS
      <3>3. g \in [Nat -> X]
        BY <3>1, <3>2
      <3> HIDE DEF g, f
      <3>4. g[0] = G[x]
        BY <3>1, <3>2
      <3>5. \A k \in Nat : g[k + 1] = G[g[k]]
        BY <3>1, <3>2
      <3>6. QED
        BY <3>3, <3>4, <3>5 DEF Orbit
    <2>2. G[x] \in X
      OBVIOUS
    <2>3. Orbit(X, G, G[x], orbit(G[x]))
      BY <1>1, <2>2
    <2>4. g[n] = orbit(x)[n + 1]
      OBVIOUS
    <2> HIDE DEF g
    <2>5. g[n] = orbit(G[x])[n]
      BY <2>1, <2>2, <2>3, OrbitUnique
    <2>6. QED
      BY <2>4, <2>5
  <1>3. ASSUME NEW x \in X, x \in D
        PROVE  f[x] = V[x]
    <2>1. ASSUME NEW n \in Nat
          PROVE  orbit(x)[n] = x
      <3> DEFINE g == [k \in Nat |-> x]
      <3>1. Orbit(X, G, x, g)
        BY <1>3 DEF Orbit
      <3>2. g[n] = x
        OBVIOUS
      <3> HIDE DEF g
      <3>3. QED
        BY <1>1, <3>1, <3>2, OrbitUnique
    <2>2. 0 \in Nat
      OBVIOUS
    <2>3. QED
      BY <1>3, <2>1, <2>2
  <1>4. ASSUME NEW x \in X, x \notin D
        PROVE  f[x] = f[G[x]]
    <2>1. G[x] \in X /\ orbit(x)[0] = x
      BY <1>1 DEF Orbit
    <2>2. ASSUME NEW v
          PROVE  (\E n \in Nat : orbit(x)[n] \in D /\ v \in V[orbit(x)[n]])
                   <=> \E n \in Nat : orbit(G[x])[n] \in D /\ v \in V[orbit(G[x])[n]]
      <3>1. ASSUME NEW n \in Nat, orbit(x)[n] \in D, v \in V[orbit(x)[n]]
            PROVE  \E k \in Nat : orbit(G[x])[k] \in D /\ v \in V[orbit(G[x])[k]]
        <4>1. n # 0
          BY <1>4, <2>1, <3>1
        <4>2. n - 1 \in Nat /\ (n - 1) + 1 = n
          BY <4>1
        <4>3. orbit(x)[n] = orbit(G[x])[n - 1]
          BY <1>2, <4>2
        <4>4. QED
          BY <3>1, <4>2, <4>3
      <3>2. ASSUME NEW n \in Nat, orbit(G[x])[n] \in D, v \in V[orbit(G[x])[n]]
            PROVE  \E k \in Nat : orbit(x)[k] \in D /\ v \in V[orbit(x)[k]]
        <4>1. n + 1 \in Nat /\ orbit(x)[n + 1] = orbit(G[x])[n]
          BY <1>2
        <4>2. QED
          BY <3>2, <4>1
      <3>3. QED
        BY <3>1, <3>2
    <2>3. QED
      BY <2>1, <2>2
  <1> HIDE DEF f
  <1>5. f = [x \in X |-> f[x]]
    BY DEF f
  <1>6. f = [x \in X |-> IF x \in D THEN V[x] ELSE f[G[x]]]
    BY <1>3, <1>4, <1>5
  <1>7. QED
    BY <1>6 DEF Loops

--------------------------------------------------------------------------------
(* One step of the search.                                                    *)

(* A graph whose nodes can be sorted: the sorted nodes are a sequence of all  *)
(* of them, and a path without repetitions can be turned round.               *)
Searchable(graph) ==
  /\ IsFiniteSet(DOMAIN graph)
  /\ \A S \in SUBSET DOMAIN graph : Sorted(S) \in Seq(DOMAIN graph) /\ ToSet(Sorted(S)) = S
  /\ \A c \in Seq(DOMAIN graph) : c # <<>> /\ IsInjective(c) =>
       /\ canonicalCycle(c) \in Seq(DOMAIN graph) /\ canonicalCycle(c) # <<>>
       /\ ToSet(canonicalCycle(c)) \subseteq ToSet(c)

SearchTypes(graph, s) ==
  /\ s.path \in Seq(DOMAIN graph) /\ s.left \in Seq(Seq(DOMAIN graph))
  /\ s.cycles \in SUBSET Seq(DOMAIN graph) /\ s.visited \in SUBSET DOMAIN graph
  /\ Len(s.path) \in Nat /\ Len(s.left) = Len(s.path) + 1
  /\ \A i, j \in 1..Len(s.path) : s.path[i] = s.path[j] => i = j
  /\ \A i \in 1..Len(s.path) : s.path[i] \in DOMAIN graph
  /\ \A i \in 1..Len(s.left) : s.left[i] \in Seq(DOMAIN graph)

(* What it is to be a state of the search, part by part.                      *)
LEMMA SearchesTyped ==
  ASSUME NEW graph, NEW s \in Searches(graph)
  PROVE  SearchTypes(graph, s)
  BY DEF Searches, SearchTypes, IsInjective

(* And the parts make one.                                                    *)
LEMMA TypedSearches ==
  ASSUME NEW graph, NEW path, NEW left, NEW cycles, NEW visited,
         path \in Seq(DOMAIN graph), left \in Seq(Seq(DOMAIN graph)),
         cycles \in SUBSET Seq(DOMAIN graph), visited \in SUBSET DOMAIN graph,
         Len(left) = Len(path) + 1,
         \A i, j \in 1..Len(path) : path[i] = path[j] => i = j
  PROVE  [path |-> path, left |-> left, cycles |-> cycles, visited |-> visited] \in Searches(graph)
  <1> DEFINE s == [path |-> path, left |-> left, cycles |-> cycles, visited |-> visited]
  <1>1. IsInjective(path)
    BY DEF IsInjective
  <1>2. s \in [path : Seq(DOMAIN graph), left : Seq(Seq(DOMAIN graph)),
              cycles : SUBSET Seq(DOMAIN graph), visited : SUBSET DOMAIN graph]
    OBVIOUS
  <1>3. s.path = path /\ s.left = left
    OBVIOUS
  <1> HIDE DEF s
  <1>4. s \in Searches(graph)
    BY <1>1, <1>2, <1>3 DEF Searches
  <1>5. QED
    BY <1>4 DEF s

(* The loops of s but for the innermost, whose next target is done with.      *)
Advanced(s, t, n) ==
  /\ s.left[n] # <<>> /\ t.left[n] = Tail(s.left[n])
  /\ \A i \in 1..(n - 1) : t.left[i] = s.left[i]

Returns(s, t) ==
  LET p == Len(s.path)
  IN /\ p > 0 /\ s.left[p + 1] = <<>>
     /\ Len(t.path) = p - 1 /\ \A i \in 1..(p - 1) : t.path[i] = s.path[i]
     /\ Len(t.left) = p /\ \A i \in 1..p : t.left[i] = s.left[i]
     /\ t.cycles = s.cycles /\ t.visited = s.visited \cup {s.path[p]}

Closes(s, t) ==
  LET p == Len(s.path)
  IN /\ Advanced(s, t, p + 1) /\ Len(t.left) = p + 1
     /\ t.path = s.path /\ t.visited = s.visited
     /\ \E k \in 1..p :
          /\ s.path[k] = Head(s.left[p + 1])
          /\ t.cycles = s.cycles \cup {canonicalCycle(SubSeq(s.path, k, p))}

Skips(s, t) ==
  LET p == Len(s.path)
  IN /\ Advanced(s, t, p + 1) /\ Len(t.left) = p + 1
     /\ t.path = s.path /\ t.visited = s.visited /\ t.cycles = s.cycles
     /\ Head(s.left[p + 1]) \in s.visited

Calls(graph, s, t) ==
  LET p == Len(s.path)
      target == Head(s.left[p + 1])
  IN /\ Advanced(s, t, p + 1) /\ Len(t.left) = p + 2
     /\ t.left[p + 2] = Sorted(graph[target] \cap DOMAIN graph)
     /\ Len(t.path) = p + 1 /\ t.path[p + 1] = target
     /\ \A i \in 1..p : t.path[i] = s.path[i] /\ s.path[i] # target
     /\ t.cycles = s.cycles /\ t.visited = s.visited /\ target \notin s.visited
     /\ target \in DOMAIN graph

(* The first place of a member of a sequence holds it.                        *)
LEMMA FirstPlace ==
  ASSUME NEW S, NEW s \in Seq(S), NEW x \in ToSet(s)
  PROVE  LET k == SelectInSeq(s, LAMBDA y : y = x)
         IN k \in 1..Len(s) /\ s[k] = x
  <1> DEFINE I == {i \in 1..Len(s) : s[i] = x}
  <1>1. SelectInSeq(s, LAMBDA y : y = x) = IF I # {} THEN Min(I) ELSE 0
    BY DEF SelectInSeq
  <1>2. I # {} /\ I \in SUBSET Nat
    BY DEF ToSet
  <1>3. Min(I) \in I
    <2> HIDE DEF I
    <2>1. QED
      BY <1>2, SmallestIndex
  <1>4. QED
    BY <1>1, <1>2, <1>3

(* A part of a path without repetitions is a sequence of its nodes.           *)
LEMMA Segment ==
  ASSUME NEW S, NEW s \in Seq(S), NEW k \in 1..Len(s)
  PROVE  LET c == SubSeq(s, k, Len(s))
         IN /\ c \in Seq(S) /\ Len(c) = Len(s) - k + 1 /\ c # <<>>
            /\ \A i \in 1..Len(c) : c[i] = s[k + i - 1]
            /\ (\A i, j \in 1..Len(s) : s[i] = s[j] => i = j) => IsInjective(c)
  <1> DEFINE n == Len(s)
             c == SubSeq(s, k, n)
  <1>1. n \in Nat /\ \A i \in k..n : s[i] \in S
    OBVIOUS
  <1>2. k \in Int /\ n \in Int /\ k <= n
    OBVIOUS
  <1>3. /\ c \in Seq(S) /\ Len(c) = n - k + 1
        /\ \A i \in 1..(n - k + 1) : c[i] = s[k + i - 1]
    <2> HIDE DEF n
    <2>1. QED
      BY <1>1, <1>2, SubSeqProperties
  <1> HIDE DEF c
  <1>4. c # <<>> /\ DOMAIN c = 1..(n - k + 1)
    BY <1>2, <1>3
  <1>5. ASSUME \A i, j \in 1..Len(s) : s[i] = s[j] => i = j,
               NEW i \in DOMAIN c, NEW j \in DOMAIN c, c[i] = c[j]
        PROVE  i = j
    <2>1. /\ i \in 1..(n - k + 1) /\ j \in 1..(n - k + 1)
          /\ s[k + i - 1] = s[k + j - 1]
      BY <1>3, <1>4, <1>5
    <2>2. k + i - 1 \in 1..n /\ k + j - 1 \in 1..n
      BY <1>1, <1>2, <2>1
    <2>3. k + i - 1 = k + j - 1
      BY <1>5, <2>1, <2>2
    <2>4. QED
      BY <1>2, <2>1, <2>3
  <1>6. QED
    BY <1>3, <1>4, <1>5 DEF IsInjective, c

(* Records of a search, field by field, and the cases of a step.              *)
LEMMA Fields ==
  ASSUME NEW P, NEW L, NEW C, NEW V, NEW t \in [path : P, left : L, cycles : C, visited : V]
  PROVE  t = [path |-> t.path, left |-> t.left, cycles |-> t.cycles, visited |-> t.visited]
  OBVIOUS

(* A search with one or more of its fields replaced.                          *)
LEMMA ChangedLeft ==
  ASSUME NEW P, NEW L, NEW C, NEW V, NEW s \in [path : P, left : L, cycles : C, visited : V],
         NEW l \in L
  PROVE  /\ [s EXCEPT !.left = l] \in [path : P, left : L, cycles : C, visited : V]
         /\ [s EXCEPT !.left = l].path = s.path /\ [s EXCEPT !.left = l].left = l
         /\ [s EXCEPT !.left = l].cycles = s.cycles /\ [s EXCEPT !.left = l].visited = s.visited
  OBVIOUS

LEMMA ChangedCycles ==
  ASSUME NEW P, NEW L, NEW C, NEW V, NEW s \in [path : P, left : L, cycles : C, visited : V],
         NEW y \in C
  PROVE  [s EXCEPT !.cycles = y] = [path |-> s.path, left |-> s.left, cycles |-> y, visited |-> s.visited]
  OBVIOUS

LEMMA ChangedCall ==
  ASSUME NEW P, NEW L, NEW C, NEW V, NEW s \in [path : P, left : L, cycles : C, visited : V],
         NEW p \in P, NEW l \in L, NEW t, t = [s EXCEPT !.path = p, !.left = l]
  PROVE  t = [path |-> p, left |-> l, cycles |-> s.cycles, visited |-> s.visited]
  <1> DEFINE T == [path : P, left : L, cycles : C, visited : V]
  <1>1. t.path = p /\ t.left = l /\ t.visited = s.visited /\ t.cycles = s.cycles /\ t \in T
    OBVIOUS
  <1>2. t = [path |-> t.path, left |-> t.left, cycles |-> t.cycles, visited |-> t.visited]
    BY <1>1, Fields
  <1> HIDE DEF T
  <1>3. QED
    BY <1>1, <1>2, Zenon

LEMMA ChangedReturn ==
  ASSUME NEW P, NEW L, NEW C, NEW V, NEW s \in [path : P, left : L, cycles : C, visited : V],
         NEW p \in P, NEW l \in L, NEW v \in V
  PROVE  [s EXCEPT !.path = p, !.left = l, !.visited = v]
           = [path |-> p, left |-> l, cycles |-> s.cycles, visited |-> v]
  <1> DEFINE t == [s EXCEPT !.path = p, !.left = l, !.visited = v]
             T == [path : P, left : L, cycles : C, visited : V]
  <1>1. t.path = p /\ t.left = l /\ t.visited = v /\ t.cycles = s.cycles /\ t \in T
    OBVIOUS
  <1>2. t = [path |-> t.path, left |-> t.left, cycles |-> t.cycles, visited |-> t.visited]
    BY <1>1, Fields
  <1> HIDE DEF t, T
  <1>3. t = [path |-> p, left |-> l, cycles |-> s.cycles, visited |-> v]
    BY <1>1, <1>2, Zenon
  <1>4. QED
    BY <1>3 DEF t

(* Which of its branches `visit' takes.                                       *)
LEMMA VisitCases ==
  ASSUME NEW graph, NEW s
  PROVE  LET n == Len(s.left)
             target == Head(s.left[n])
             onward == [s.left EXCEPT ![n] = Tail(s.left[n])]
             r == [s EXCEPT !.left = onward]
             k == SelectInSeq(s.path, LAMBDA x : x = target)
         IN /\ s.left[n] = <<>> =>
                 visit(graph, s) = [s EXCEPT !.path = Front(s.path), !.left = Front(s.left),
                                             !.visited = s.visited \cup {Last(s.path)}]
            /\ s.left[n] # <<>> /\ target \in ToSet(s.path) =>
                 visit(graph, s) =
                   [r EXCEPT !.cycles = r.cycles \cup {canonicalCycle(SubSeq(s.path, k, Len(s.path)))}]
            /\ s.left[n] # <<>> /\ target \notin ToSet(s.path) /\ target \in s.visited =>
                 visit(graph, s) = r
            /\ s.left[n] # <<>> /\ target \notin ToSet(s.path) /\ target \notin s.visited =>
                 visit(graph, s) =
                   [r EXCEPT !.path = Append(r.path, target),
                                !.left = Append(r.left, Sorted(graph[target] \cap DOMAIN graph))]
  BY Zenon DEF visit

(* A step of the search leads from a state of it to another, in one of four   *)
(* ways.                                                                      *)
LEMMA VisitStep ==
  ASSUME NEW graph, Searchable(graph), NEW s \in Searches(graph), ~Searched(s)
  PROVE  /\ visit(graph, s) \in Searches(graph)
         /\ \/ Returns(s, visit(graph, s)) \/ Closes(s, visit(graph, s))
            \/ Skips(s, visit(graph, s)) \/ Calls(graph, s, visit(graph, s))
  <1> DEFINE nodes == DOMAIN graph
             p == Len(s.path)
             n == Len(s.left)
             target == Head(s.left[n])
             t == visit(graph, s)
             onward == [s.left EXCEPT ![n] = Tail(s.left[n])]
             k == SelectInSeq(s.path, LAMBDA x : x = target)
  <1>1. SearchTypes(graph, s)
    BY SearchesTyped
  <1>2. /\ s \in [path : Seq(nodes), left : Seq(Seq(nodes)),
                  cycles : SUBSET Seq(nodes), visited : SUBSET nodes]
        /\ n = p + 1 /\ p \in Nat
    BY <1>1, Zenon DEF Searches, SearchTypes
  <1>3. s.path \in Seq(nodes) /\ s.left \in Seq(Seq(nodes))
        /\ s.cycles \in SUBSET Seq(nodes) /\ s.visited \in SUBSET nodes
    BY <1>1 DEF SearchTypes
  <1> DEFINE rest == [s EXCEPT !.left = onward]
             T == [path : Seq(nodes), left : Seq(Seq(nodes)),
                   cycles : SUBSET Seq(nodes), visited : SUBSET nodes]
  <1>10. s.left[n] = <<>> =>
           t = [s EXCEPT !.path = Front(s.path), !.left = Front(s.left),
                         !.visited = s.visited \cup {Last(s.path)}]
    BY VisitCases, Zenon
  <1>11. s.left[n] # <<>> /\ target \in ToSet(s.path) =>
           t = [rest EXCEPT !.cycles = rest.cycles \cup {canonicalCycle(SubSeq(s.path, k, p))}]
    BY VisitCases, Zenon
  <1>12. s.left[n] # <<>> /\ target \notin ToSet(s.path) /\ target \in s.visited => t = rest
    BY VisitCases, Zenon
  <1>13. s.left[n] # <<>> /\ target \notin ToSet(s.path) /\ target \notin s.visited =>
           t = [rest EXCEPT !.path = Append(rest.path, target),
                            !.left = Append(rest.left, Sorted(graph[target] \cap nodes))]
    BY VisitCases, Zenon
  <1>14. target \in ToSet(s.path) => k \in 1..p /\ s.path[k] = target
    <2> HIDE DEF target
    <2>1. s.path \in Seq(nodes)
      BY <1>1 DEF SearchTypes
    <2>2. QED
      BY <2>1, FirstPlace, Zenon DEF k, target
  <1> HIDE DEF t, k
  <1>15. target = Head(s.left[p + 1]) /\ onward = [s.left EXCEPT ![p + 1] = Tail(s.left[p + 1])]
    BY <1>2, Zenon
  <1> HIDE DEF target, onward, n
  <1>5. ASSUME s.left[n] # <<>>
        PROVE  /\ onward \in Seq(Seq(nodes)) /\ Len(onward) = p + 1
               /\ onward[p + 1] = Tail(s.left[p + 1]) /\ \A i \in 1..p : onward[i] = s.left[i]
               /\ target \in nodes
               /\ rest \in T /\ rest.cycles = s.cycles /\ rest.path = s.path /\ rest.left = onward
               /\ rest.visited = s.visited
    <2>1. /\ s.left \in Seq(Seq(nodes)) /\ Len(s.left) = p + 1 /\ p \in Nat
          /\ s.left[p + 1] \in Seq(nodes)
      BY <1>1 DEF SearchTypes
    <2>2. Tail(s.left[p + 1]) \in Seq(nodes) /\ target \in nodes
      <3> HIDE DEF p, nodes
      <3>1. ASSUME NEW q, q \in Seq(nodes), q # <<>>
            PROVE  Tail(q) \in Seq(nodes) /\ Head(q) \in nodes
        BY <3>1
      <3>2. QED
        BY <1>2, <1>5, <1>15, <2>1, <3>1
    <2> HIDE DEF nodes, p
    <2>3. /\ onward \in Seq(Seq(nodes)) /\ Len(onward) = p + 1
          /\ onward[p + 1] = Tail(s.left[p + 1]) /\ \A i \in 1..p : onward[i] = s.left[i]
      BY <1>15, <2>1, <2>2
    <2>4. /\ rest \in T /\ rest.cycles = s.cycles /\ rest.path = s.path /\ rest.left = onward
          /\ rest.visited = s.visited
      BY <1>2, <2>3, ChangedLeft, Zenon
    <2>5. QED
      BY <2>2, <2>3, <2>4
  <1> HIDE DEF rest
  <1>4. CASE s.left[n] = <<>>
    <2>1. p > 0
      <3>1. ASSUME p = 0 PROVE FALSE
        BY <1>1, <1>2, <1>4, <3>1 DEF SearchTypes, Searched, n
      <3>2. QED
        BY <1>1, <3>1 DEF SearchTypes
    <2> DEFINE path == SubSeq(s.path, 1, p - 1)
               left == SubSeq(s.left, 1, p)
               visited == s.visited \cup {s.path[p]}
    <2>3. /\ path \in Seq(nodes) /\ Len(path) = p - 1
          /\ \A i \in 1..(p - 1) : path[i] = s.path[i]
      BY <1>1, <2>1 DEF SearchTypes
    <2>4. /\ left \in Seq(Seq(nodes)) /\ Len(left) = p
          /\ \A i \in 1..p : left[i] = s.left[i]
      BY <1>1, <2>1 DEF SearchTypes
    <2>5. s.path[p] \in nodes /\ visited \in SUBSET nodes
      <3>1. p \in 1..p
        BY <1>2, <2>1
      <3>2. s.path[p] \in nodes
        BY <1>1, <3>1 DEF SearchTypes
      <3>3. QED
        BY <1>3, <3>2
    <2>2. t = [path |-> path, left |-> left, cycles |-> s.cycles, visited |-> visited]
      <3>1. t = [s EXCEPT !.path = Front(s.path), !.left = Front(s.left),
                          !.visited = s.visited \cup {Last(s.path)}]
        BY <1>4, <1>10
      <3>2. Front(s.path) = path /\ Front(s.left) = left
        <4>1. Len(s.left) - 1 = p
          BY <1>2 DEF n
        <4>2. QED
          BY <4>1 DEF Front
      <3>3. Last(s.path) = s.path[p]
        BY DEF Last
      <3> HIDE DEF path, left, nodes
      <3>4. t = [s EXCEPT !.path = path, !.left = left, !.visited = visited]
        BY <3>1, <3>2, <3>3
      <3>5. QED
        BY <1>2, <1>3, <2>3, <2>4, <2>5, <3>4, ChangedReturn
    <2> HIDE DEF path, left, visited
    <2>6. t \in Searches(graph)
      <3>1. \A i \in 1..(p - 1) : i \in 1..p
        BY <1>2
      <3>2. \A i, j \in 1..(p - 1) : path[i] = path[j] => i = j
        BY <1>1, <2>3, <3>1 DEF SearchTypes
      <3>3. Len(left) = Len(path) + 1
        BY <1>2, <2>3, <2>4
      <3> HIDE DEF nodes, p
      <3>4. \A i, j \in 1..Len(path) : path[i] = path[j] => i = j
        BY <2>3, <3>2
      <3>5. QED
        BY <1>3, <2>2, <2>3, <2>4, <2>5, <3>3, <3>4, TypedSearches DEF nodes
    <2>7. /\ t.path = path /\ t.left = left /\ t.cycles = s.cycles
          /\ t.visited = s.visited \cup {s.path[p]}
      BY <2>2 DEF visited
    <2>8. Returns(s, t)
      BY <1>2, <1>4, <2>1, <2>3, <2>4, <2>7 DEF Returns, n
    <2>9. QED
      BY <2>6, <2>8 DEF t
  <1>6. CASE s.left[n] # <<>> /\ target \in ToSet(s.path)
    <2> DEFINE cycles == s.cycles \cup {canonicalCycle(SubSeq(s.path, k, p))}
    <2>2. k \in 1..p /\ s.path[k] = target
      BY <1>6, <1>14
    <2>3. cycles \in SUBSET Seq(nodes)
      <3> DEFINE c == SubSeq(s.path, k, p)
      <3>1. c \in Seq(nodes) /\ c # <<>> /\ IsInjective(c)
        BY <1>1, <2>2, Segment DEF SearchTypes
      <3> HIDE DEF c
      <3>2. canonicalCycle(c) \in Seq(nodes)
        BY <3>1 DEF Searchable
      <3>3. QED
        BY <1>1, <3>2 DEF SearchTypes, c
    <2>1. t = [path |-> s.path, left |-> onward, cycles |-> cycles, visited |-> s.visited]
      <3>1. t = [rest EXCEPT !.cycles = cycles]
        BY <1>5, <1>6, <1>11
      <3> HIDE DEF cycles, nodes
      <3>2. [rest EXCEPT !.cycles = cycles]
              = [path |-> rest.path, left |-> rest.left, cycles |-> cycles, visited |-> rest.visited]
        <4>1. rest \in T /\ cycles \in SUBSET Seq(nodes)
          BY <1>5, <1>6, <2>3
        <4>2. QED
          BY <4>1, ChangedCycles
      <3>3. QED
        BY <1>5, <1>6, <3>1, <3>2
    <2> HIDE DEF cycles
    <2>4. t \in Searches(graph)
      BY <1>1, <1>5, <1>6, <2>1, <2>3, TypedSearches DEF SearchTypes
    <2>5. t.path = s.path /\ t.left = onward /\ t.cycles = cycles /\ t.visited = s.visited
      BY <2>1
    <2>6. Advanced(s, t, p + 1) /\ Len(t.left) = p + 1
      BY <1>1, <1>5, <1>6, <2>5 DEF Advanced, n, SearchTypes
    <2>7. Closes(s, t)
      BY <1>15, <2>2, <2>5, <2>6 DEF Closes, cycles
    <2>8. QED
      BY <2>4, <2>7 DEF t
  <1>7. CASE s.left[n] # <<>> /\ target \notin ToSet(s.path) /\ target \in s.visited
    <2>1. t = [path |-> s.path, left |-> onward, cycles |-> s.cycles, visited |-> s.visited]
      <3> HIDE DEF nodes
      <3>1. t = rest /\ rest \in T
        BY <1>5, <1>7, <1>12
      <3>2. t = [path |-> t.path, left |-> t.left, cycles |-> t.cycles, visited |-> t.visited]
        BY <3>1, Fields
      <3>3. QED
        BY <1>5, <1>7, <3>1, <3>2
    <2>2. t \in Searches(graph)
      BY <1>1, <1>5, <1>7, <2>1, TypedSearches DEF SearchTypes
    <2>3. t.path = s.path /\ t.left = onward /\ t.cycles = s.cycles /\ t.visited = s.visited
      BY <2>1
    <2>4. Advanced(s, t, p + 1) /\ Len(t.left) = p + 1
      BY <1>1, <1>5, <1>7, <2>3 DEF Advanced, n, SearchTypes
    <2>5. Skips(s, t)
      BY <1>7, <1>15, <2>3, <2>4 DEF Skips
    <2>6. QED
      BY <2>2, <2>5 DEF t
  <1>8. CASE s.left[n] # <<>> /\ target \notin ToSet(s.path) /\ target \notin s.visited
    <2> DEFINE fresh == Sorted(graph[target] \cap nodes)
               path == Append(s.path, target)
               left == Append(onward, fresh)
    <2>2. fresh \in Seq(nodes)
      <3>1. graph[target] \cap nodes \in SUBSET nodes
        OBVIOUS
      <3>2. QED
        BY <3>1 DEF Searchable
    <2>3. p \in Nat /\ target \in nodes
      BY <1>1, <1>5, <1>8 DEF SearchTypes
    <2> HIDE DEF fresh
    <2>4. /\ left \in Seq(Seq(nodes)) /\ Len(left) = p + 2 /\ left[p + 2] = fresh
          /\ \A i \in 1..(p + 1) : left[i] = onward[i]
      BY <1>5, <1>8, <2>2, <2>3
    <2>5. /\ path \in Seq(nodes) /\ Len(path) = p + 1 /\ path[p + 1] = target
          /\ \A i \in 1..p : path[i] = s.path[i]
      BY <1>1, <2>3 DEF SearchTypes
    <2>6. \A i \in 1..p : s.path[i] # target
      BY <1>1, <1>8 DEF ToSet, SearchTypes
    <2>7. \A i, j \in 1..(p + 1) : path[i] = path[j] => i = j
      <3> HIDE DEF path
      <3>1. ASSUME NEW i \in 1..(p + 1), NEW j \in 1..(p + 1), path[i] = path[j]
            PROVE  i = j
        <4>1. \A m \in 1..(p + 1) : m \in 1..p \/ m = p + 1
          BY <2>3
        <4>2. QED
          BY <1>1, <2>5, <2>6, <3>1, <4>1 DEF SearchTypes
      <3>2. QED
        BY <3>1
    <2>1. t = [path |-> path, left |-> left, cycles |-> s.cycles, visited |-> s.visited]
      <3>1. t = [rest EXCEPT !.path = path, !.left = left]
        BY <1>5, <1>8, <1>13 DEF fresh
      <3> HIDE DEF path, left, nodes
      <3>2. rest \in T /\ path \in Seq(nodes) /\ left \in Seq(Seq(nodes))
        BY <1>5, <1>8, <2>4, <2>5
      <3>3. t = [path |-> path, left |-> left, cycles |-> rest.cycles, visited |-> rest.visited]
        BY <3>1, <3>2, ChangedCall
      <3>4. QED
        BY <1>5, <1>8, <3>3
    <2> HIDE DEF path, left
    <2>8. t \in Searches(graph)
      <3>1. Len(left) = Len(path) + 1
        BY <2>3, <2>4, <2>5
      <3>2. s.cycles \in SUBSET Seq(nodes) /\ s.visited \in SUBSET nodes
        BY <1>1 DEF SearchTypes
      <3>3. QED
        BY <2>1, <2>4, <2>5, <2>7, <3>1, <3>2, TypedSearches
    <2>9. t.path = path /\ t.left = left /\ t.cycles = s.cycles /\ t.visited = s.visited
      BY <2>1
    <2>10. Advanced(s, t, p + 1)
      <3>1. p + 1 \in 1..(p + 1) /\ \A i \in 1..p : i \in 1..(p + 1)
        BY <1>2
      <3>2. p + 1 - 1 = p
        BY <1>2
      <3>3. s.left[p + 1] # <<>>
        BY <1>2, <1>8 DEF n
      <3> HIDE DEF p
      <3>4. t.left[p + 1] = Tail(s.left[p + 1])
        BY <1>5, <1>8, <2>4, <2>9, <3>1
      <3>5. \A i \in 1..(p + 1 - 1) : t.left[i] = s.left[i]
        BY <1>5, <1>8, <2>4, <2>9, <3>1, <3>2
      <3>6. QED
        BY <1>2, <3>3, <3>4, <3>5 DEF Advanced
    <2>11. Calls(graph, s, t)
      BY <1>8, <1>15, <2>3, <2>4, <2>5, <2>6, <2>9, <2>10 DEF Calls, fresh
    <2>12. QED
      BY <2>8, <2>11 DEF t
  <1>9. QED
    BY <1>4, <1>6, <1>7, <1>8

--------------------------------------------------------------------------------
(* The search ends: a call uses up a node, a return shortens the path, and    *)
(* what else a loop does shortens its list of targets.                        *)
OnPath(s) == {s.path[i] : i \in 1..Len(s.path)}
Unseen(graph, s) == DOMAIN graph \ (s.visited \cup OnPath(s))
Ahead(s) == Len(s.left[Len(s.path) + 1])

(* Each step leaves fewer nodes unseen, or as many and a shorter path, or as  *)
(* many, the same path and less ahead of its innermost loop.                  *)
LEMMA StepShrinks ==
  ASSUME NEW graph, Searchable(graph), NEW s \in Searches(graph), ~Searched(s)
  PROVE  LET t == visit(graph, s)
         IN \/ Unseen(graph, t) \subseteq Unseen(graph, s) /\ Unseen(graph, t) # Unseen(graph, s)
            \/ /\ Unseen(graph, t) = Unseen(graph, s)
               /\ \/ Len(t.path) < Len(s.path)
                  \/ Len(t.path) = Len(s.path) /\ Ahead(t) < Ahead(s)
  <1> DEFINE t == visit(graph, s)
             p == Len(s.path)
  <1>1. t \in Searches(graph) /\ (Returns(s, t) \/ Closes(s, t) \/ Skips(s, t) \/ Calls(graph, s, t))
    BY VisitStep, Zenon
  <1>2. SearchTypes(graph, s) /\ SearchTypes(graph, t)
    BY <1>1, SearchesTyped
  <1> HIDE DEF t
  <1>3. p \in Nat /\ p + 1 \in 1..Len(s.left) /\ s.left[p + 1] \in Seq(DOMAIN graph)
    BY <1>2 DEF SearchTypes
  <1>4. CASE Returns(s, t)
    <2>1. p > 0 /\ Len(t.path) = p - 1 /\ t.visited = s.visited \cup {s.path[p]}
      BY <1>4 DEF Returns
    <2>2. \A i \in 1..(p - 1) : t.path[i] = s.path[i]
      BY <1>4 DEF Returns
    <2>3. OnPath(s) = OnPath(t) \cup {s.path[p]}
      <3>1. \A i : i \in 1..p <=> i \in 1..(p - 1) \/ i = p
        BY <1>3, <2>1
      <3>2. QED
        BY <2>1, <2>2, <3>1 DEF OnPath
    <2>4. Unseen(graph, t) = Unseen(graph, s)
      BY <2>1, <2>3 DEF Unseen
    <2>5. QED
      BY <1>3, <2>1, <2>4 DEF t
  <1>5. ASSUME Advanced(s, t, p + 1), Len(t.path) = p
        PROVE  Ahead(t) < Ahead(s)
    <2>1. s.left[p + 1] # <<>> /\ t.left[p + 1] = Tail(s.left[p + 1])
      BY <1>5 DEF Advanced
    <2>2. ASSUME NEW S, NEW q \in Seq(S), q # <<>>
          PROVE  Len(Tail(q)) < Len(q)
      BY <2>2
    <2>3. QED
      BY <1>3, <1>5, <2>1, <2>2 DEF Ahead
  <1>6. CASE Closes(s, t)
    <2>1. Advanced(s, t, p + 1) /\ t.path = s.path /\ t.visited = s.visited
      BY <1>6 DEF Closes
    <2>2. Unseen(graph, t) = Unseen(graph, s)
      BY <2>1 DEF Unseen, OnPath
    <2>3. QED
      BY <1>5, <2>1, <2>2 DEF t
  <1>7. CASE Skips(s, t)
    <2>1. Advanced(s, t, p + 1) /\ t.path = s.path /\ t.visited = s.visited
      BY <1>7 DEF Skips
    <2>2. Unseen(graph, t) = Unseen(graph, s)
      BY <2>1 DEF Unseen, OnPath
    <2>3. QED
      BY <1>5, <2>1, <2>2 DEF t
  <1>8. CASE Calls(graph, s, t)
    <2> DEFINE target == Head(s.left[p + 1])
    <2>1. /\ Len(t.path) = p + 1 /\ t.path[p + 1] = target /\ t.visited = s.visited
          /\ target \notin s.visited /\ target \in DOMAIN graph
          /\ \A i \in 1..p : t.path[i] = s.path[i] /\ s.path[i] # target
      BY <1>8 DEF Calls
    <2> HIDE DEF target
    <2>2. \A i : i \in 1..(p + 1) <=> i \in 1..p \/ i = p + 1
      BY <1>3
    <2>3. OnPath(t) = OnPath(s) \cup {target}
      BY <2>1, <2>2 DEF OnPath
    <2>4. target \notin OnPath(s)
      BY <2>1 DEF OnPath
    <2>5. QED
      BY <2>1, <2>3, <2>4 DEF Unseen, t
  <1>9. QED
    BY <1>1, <1>4, <1>6, <1>7, <1>8

(* So the search ends: no states lead only to each other.                     *)
LEMMA SearchEnds ==
  ASSUME NEW graph, Searchable(graph), NEW B \in SUBSET Searches(graph),
         \A s \in B : ~Searched(s) /\ visit(graph, s) \in B
  PROVE  B = {}
  <1> SUFFICES ASSUME B # {} PROVE FALSE
    OBVIOUS
  <1> DEFINE size(s) == Cardinality(Unseen(graph, s))
  <1>1. ASSUME NEW s \in B
        PROVE  /\ IsFiniteSet(Unseen(graph, s)) /\ size(s) \in Nat
               /\ Len(s.path) \in Nat /\ Ahead(s) \in Nat
    <2>1. IsFiniteSet(Unseen(graph, s)) /\ size(s) \in Nat
      BY FS_Subset, FS_CardinalityType DEF Searchable, Unseen
    <2>2. SearchTypes(graph, s)
      BY SearchesTyped
    <2>3. Len(s.path) \in Nat /\ Len(s.path) + 1 \in 1..Len(s.left)
      BY <2>2 DEF SearchTypes
    <2>4. s.left[Len(s.path) + 1] \in Seq(DOMAIN graph)
      BY <2>2, <2>3 DEF SearchTypes
    <2>5. Ahead(s) \in Nat
      BY <2>4 DEF Ahead
    <2>6. QED
      BY <2>1, <2>3, <2>5
  <1>2. PICK w \in {size(s) : s \in B} : \A v \in {size(s) : s \in B} : w <= v
    <2>1. {size(s) : s \in B} \in SUBSET Nat /\ {size(s) : s \in B} # {}
      BY <1>1
    <2>2. QED
      BY <2>1, Least
  <1> DEFINE C == {s \in B : size(s) = w}
  <1>3. PICK m \in {Len(s.path) : s \in C} : \A v \in {Len(s.path) : s \in C} : m <= v
    <2>1. {Len(s.path) : s \in C} \in SUBSET Nat /\ {Len(s.path) : s \in C} # {}
      BY <1>1, <1>2
    <2>2. QED
      BY <2>1, Least
  <1> DEFINE D == {s \in C : Len(s.path) = m}
  <1>4. PICK k \in {Ahead(s) : s \in D} : \A v \in {Ahead(s) : s \in D} : k <= v
    <2>1. {Ahead(s) : s \in D} \in SUBSET Nat /\ {Ahead(s) : s \in D} # {}
      BY <1>1, <1>3
    <2>2. QED
      BY <2>1, Least
  <1>5. PICK s \in D : Ahead(s) = k
    BY <1>4
  <1> DEFINE t == visit(graph, s)
  <1>6. s \in B /\ t \in B /\ size(s) = w /\ Len(s.path) = m /\ Ahead(s) = k
    BY <1>5
  <1>7. \/ Unseen(graph, t) \subseteq Unseen(graph, s) /\ Unseen(graph, t) # Unseen(graph, s)
        \/ /\ Unseen(graph, t) = Unseen(graph, s)
           /\ \/ Len(t.path) < Len(s.path)
              \/ Len(t.path) = Len(s.path) /\ Ahead(t) < Ahead(s)
    BY <1>6, StepShrinks
  <1> HIDE DEF t
  <1>8. CASE Unseen(graph, t) \subseteq Unseen(graph, s) /\ Unseen(graph, t) # Unseen(graph, s)
    <2>1. size(t) <= size(s) /\ size(t) # size(s)
      BY <1>1, <1>6, <1>8, FS_Subset
    <2>2. w <= size(t)
      BY <1>2, <1>6
    <2> HIDE DEF size
    <2>3. QED
      BY <1>1, <1>6, <2>1, <2>2
  <1>9. CASE Unseen(graph, t) = Unseen(graph, s)
    <2>1. t \in C
      BY <1>6, <1>9
    <2>2. m <= Len(t.path)
      BY <1>3, <2>1
    <2>3. Len(t.path) = m /\ Ahead(t) < k
      BY <1>1, <1>6, <1>7, <1>9, <2>2
    <2>4. k <= Ahead(t)
      BY <1>4, <2>1, <2>3
    <2>5. QED
      BY <1>1, <1>6, <2>3, <2>4
  <1>10. QED
    BY <1>7, <1>8, <1>9

--------------------------------------------------------------------------------
(* What a cycle is: a node that something it leads to leads back to.          *)
ClosedIn(graph, S) == \A x \in S : graph[x] \cap DOMAIN graph \subseteq S

Leads(graph, y, x) == \A S \in SUBSET DOMAIN graph : y \in S /\ ClosedIn(graph, S) => x \in S

Around(graph, x) == \E y \in graph[x] \cap DOMAIN graph : Leads(graph, y, x)

(* Any of these nodes include one that none of them leads to.                 *)
Founded(graph, N) ==
  \A T \in SUBSET N : T # {} => \E m \in T : \A x \in T : m \notin graph[x]

(* A graph of which every part has such a node has no cycle.                  *)
LEMMA FoundedIsAcyclic ==
  ASSUME NEW graph, Founded(graph, DOMAIN graph), NEW x \in DOMAIN graph
  PROVE  ~Around(graph, x)
  <1> SUFFICES ASSUME Around(graph, x) PROVE FALSE
    OBVIOUS
  <1> DEFINE nodes == DOMAIN graph
  <1>1. PICK y \in graph[x] \cap nodes : Leads(graph, y, x)
    BY DEF Around
  <1> DEFINE R == {z \in nodes : Leads(graph, y, z)}
  <1>2. x \in R /\ y \in R
    BY <1>1 DEF Leads
  <1>3. PICK m \in R : \A z \in R : m \notin graph[z]
    <2>1. R \in SUBSET nodes /\ R # {}
      BY <1>2
    <2> HIDE DEF R
    <2>2. QED
      BY <2>1 DEF Founded
  <1>4. m # y
    BY <1>1, <1>2, <1>3
  <1>5. ClosedIn(graph, R)
    BY DEF ClosedIn, Leads
  <1>6. R \ {m} \in SUBSET nodes /\ y \in R \ {m} /\ ClosedIn(graph, R \ {m})
    BY <1>2, <1>3, <1>4, <1>5 DEF ClosedIn
  <1>7. Leads(graph, y, m)
    BY <1>3
  <1> HIDE DEF R
  <1>8. m \in R \ {m}
    BY <1>6, <1>7 DEF Leads
  <1>9. QED
    BY <1>8

(* Only what is on a cycle is reported.                                       *)
SoundInv(graph, s) ==
  /\ \A i \in 1..Len(s.path) : ToSet(s.left[i + 1]) \subseteq graph[s.path[i]]
  /\ \A i \in 1..Len(s.path) : i + 1 \in 1..Len(s.path) => s.path[i + 1] \in graph[s.path[i]]
  /\ \A c \in s.cycles : c # <<>> /\ \A x \in ToSet(c) : Around(graph, x)

(* As long as nothing is: what has been visited leads nowhere else and holds  *)
(* no cycle, and each loop has before it what it has not dealt with.          *)
Wanted(graph, s, i) == IF i = 1 THEN DOMAIN graph ELSE graph[s.path[i - 1]] \cap DOMAIN graph

CompleteInv(graph, s) ==
  s.cycles = {} =>
    /\ ClosedIn(graph, s.visited) /\ Founded(graph, s.visited)
    /\ \A i \in 1..Len(s.path) : s.path[i] \notin s.visited
    /\ \A i \in 1..Len(s.path) :
         Wanted(graph, s, i) \subseteq s.visited \cup ToSet(s.left[i]) \cup {s.path[i]}
    /\ Wanted(graph, s, Len(s.path) + 1) \subseteq s.visited \cup ToSet(s.left[Len(s.path) + 1])

(* A node on the path leads to every later one.                               *)
LEMMA PathLeads ==
  ASSUME NEW graph, NEW s, SearchTypes(graph, s), SoundInv(graph, s),
         NEW S \in SUBSET DOMAIN graph, ClosedIn(graph, S),
         NEW i \in 1..Len(s.path), s.path[i] \in S, NEW j \in i..Len(s.path)
  PROVE  s.path[j] \in S
  <1> DEFINE p == Len(s.path)
             N == {n \in Nat : i + n <= p => s.path[i + n] \in S}
  <1>1. p \in Nat
    BY DEF SearchTypes
  <1>2. 0 \in N
    BY <1>1
  <1>3. ASSUME NEW n \in Nat, n \in N
        PROVE  n + 1 \in N
    <2>1. CASE i + (n + 1) <= p
      <3>1. i + n \in 1..p /\ (i + n) + 1 \in 1..p /\ i + (n + 1) = (i + n) + 1
        BY <1>1, <2>1
      <3>2. s.path[i + n] \in S
        BY <1>3, <3>1
      <3>3. s.path[(i + n) + 1] \in graph[s.path[i + n]] \cap DOMAIN graph
        BY <3>1 DEF SoundInv, SearchTypes
      <3>4. s.path[(i + n) + 1] \in S
        BY <3>2, <3>3 DEF ClosedIn
      <3>5. QED
        BY <3>1, <3>4
    <2>2. QED
      BY <1>1, <2>1
  <1> HIDE DEF N
  <1>4. \A n \in Nat : n \in N
    BY <1>2, <1>3, Induction
  <1>5. j - i \in Nat /\ i + (j - i) = j /\ j <= p
    BY <1>1
  <1>6. QED
    BY <1>4, <1>5 DEF N

(* The part of the path that a target on it closes lies on a cycle.           *)
LEMMA ClosedCycle ==
  ASSUME NEW graph, NEW s, SearchTypes(graph, s), SoundInv(graph, s),
         NEW k \in 1..Len(s.path), s.path[k] \in graph[s.path[Len(s.path)]],
         NEW j \in k..Len(s.path)
  PROVE  Around(graph, s.path[j])
  <1> DEFINE p == Len(s.path)
             x == s.path[j]
  <1>1. p \in Nat /\ p \in 1..p /\ j \in 1..p /\ k \in 1..p /\ p \in k..p
    BY DEF SearchTypes
  <1>2. \A i \in 1..p : s.path[i] \in DOMAIN graph
    BY DEF SearchTypes
  <1>3. \A S \in SUBSET DOMAIN graph :
          ClosedIn(graph, S) /\ s.path[k] \in S => s.path[j] \in S
    BY <1>1, PathLeads
  <1>4. CASE j = p
    <2>1. Leads(graph, s.path[k], s.path[j])
      BY <1>3 DEF Leads
    <2>2. QED
      BY <1>1, <1>2, <1>4, <2>1 DEF Around
  <1>5. CASE j # p
    <2>1. j + 1 \in 1..p /\ p \in (j + 1)..p
      BY <1>1, <1>5
    <2>2. s.path[j + 1] \in graph[s.path[j]] \cap DOMAIN graph
      BY <1>1, <1>2, <2>1 DEF SoundInv
    <2>3. ASSUME NEW S \in SUBSET DOMAIN graph, ClosedIn(graph, S), s.path[j + 1] \in S
          PROVE  s.path[j] \in S
      <3>1. s.path[p] \in S
        BY <2>1, <2>3, PathLeads
      <3>2. s.path[k] \in S
        BY <1>1, <1>2, <2>3, <3>1 DEF ClosedIn
      <3>3. QED
        BY <1>3, <2>3, <3>2
    <2>4. Leads(graph, s.path[j + 1], s.path[j])
      BY <2>3 DEF Leads
    <2>5. QED
      BY <2>2, <2>4 DEF Around
  <1>6. QED
    BY <1>4, <1>5


(* What is done with is the head, the rest is the tail.                       *)
LEMMA TailMembers ==
  ASSUME NEW S, NEW q \in Seq(S), q # <<>>
  PROVE  ToSet(q) = {Head(q)} \cup ToSet(Tail(q))
  <1>1. IsSequence(q)
    BY IsSequenceOf
  <1>2. QED
    BY <1>1, HeadAndTail

(* What an advance of the innermost loop leaves of the lists of targets.      *)
LEMMA AdvancedLists ==
  ASSUME NEW graph, NEW s, SearchTypes(graph, s), NEW t, Advanced(s, t, Len(s.path) + 1)
  PROVE  /\ \A i \in 1..Len(s.path) : t.left[i] = s.left[i]
         /\ ToSet(s.left[Len(s.path) + 1])
              = {Head(s.left[Len(s.path) + 1])} \cup ToSet(t.left[Len(s.path) + 1])
         /\ \A i \in 1..Len(s.path) : ToSet(t.left[i + 1]) \subseteq ToSet(s.left[i + 1])
  <1> DEFINE p == Len(s.path)
  <1>1. p \in Nat /\ Len(s.left) = p + 1 /\ p + 1 \in 1..Len(s.left)
    BY DEF SearchTypes
  <1>2. s.left[p + 1] \in Seq(DOMAIN graph)
    BY <1>1 DEF SearchTypes
  <1>3. s.left[p + 1] # <<>> /\ t.left[p + 1] = Tail(s.left[p + 1])
    BY DEF Advanced
  <1>4. \A i \in 1..p : t.left[i] = s.left[i]
    BY <1>1 DEF Advanced
  <1>5. ToSet(s.left[p + 1]) = {Head(s.left[p + 1])} \cup ToSet(t.left[p + 1])
    BY <1>2, <1>3, TailMembers
  <1> HIDE DEF p
  <1>6. ASSUME NEW i \in 1..p
        PROVE  ToSet(t.left[i + 1]) \subseteq ToSet(s.left[i + 1])
    <2>1. CASE i = p
      BY <1>5, <2>1
    <2>2. CASE i # p
      <3>1. i + 1 \in 1..p
        BY <1>1, <2>2
      <3>2. QED
        BY <1>4, <3>1
    <2>3. QED
      BY <2>1, <2>2
  <1>7. QED
    BY <1>4, <1>5, <1>6 DEF p

(* A step reports nothing that is not on a cycle.                             *)
LEMMA SoundStep ==
  ASSUME NEW graph, Searchable(graph), NEW s \in Searches(graph), ~Searched(s), SoundInv(graph, s)
  PROVE  SoundInv(graph, visit(graph, s))
  <1> DEFINE t == visit(graph, s)
             p == Len(s.path)
  <1>1. t \in Searches(graph) /\ (Returns(s, t) \/ Closes(s, t) \/ Skips(s, t) \/ Calls(graph, s, t))
    BY VisitStep, Zenon
  <1>2. SearchTypes(graph, s) /\ SearchTypes(graph, t)
    BY <1>1, SearchesTyped
  <1> HIDE DEF t
  <1>3. p \in Nat /\ Len(s.left) = p + 1
    BY <1>2 DEF SearchTypes
  <1>4. CASE Returns(s, t)
    <2>1. /\ p > 0 /\ Len(t.path) = p - 1 /\ \A i \in 1..(p - 1) : t.path[i] = s.path[i]
          /\ \A i \in 1..p : t.left[i] = s.left[i]
          /\ t.cycles = s.cycles
      BY <1>4 DEF Returns
    <2>2. \A i \in 1..(p - 1) : i \in 1..p /\ i + 1 \in 1..p
      BY <1>3
    <2>3. \A i \in 1..(p - 1) : ToSet(t.left[i + 1]) \subseteq graph[t.path[i]]
      BY <2>1, <2>2 DEF SoundInv
    <2>4. ASSUME NEW i \in 1..(p - 1), i + 1 \in 1..(p - 1)
          PROVE  t.path[i + 1] \in graph[t.path[i]]
      BY <2>1, <2>2, <2>4 DEF SoundInv
    <2>5. \A c \in t.cycles : c # <<>> /\ \A x \in ToSet(c) : Around(graph, x)
      BY <2>1 DEF SoundInv
    <2>6. QED
      BY <2>1, <2>3, <2>4, <2>5 DEF SoundInv, t
  <1>5. ASSUME Advanced(s, t, p + 1), t.path = s.path
        PROVE  /\ \A i \in 1..Len(t.path) : ToSet(t.left[i + 1]) \subseteq graph[t.path[i]]
               /\ \A i \in 1..Len(t.path) : i + 1 \in 1..Len(t.path) => t.path[i + 1] \in graph[t.path[i]]
    <2>1. \A i \in 1..p : ToSet(t.left[i + 1]) \subseteq ToSet(s.left[i + 1])
      BY <1>2, <1>5, AdvancedLists
    <2>2. QED
      BY <1>5, <2>1 DEF SoundInv
  <1>6. CASE Closes(s, t)
    <2>1. PICK k \in 1..p :
            /\ s.path[k] = Head(s.left[p + 1])
            /\ t.cycles = s.cycles \cup {canonicalCycle(SubSeq(s.path, k, p))}
      BY <1>6 DEF Closes
    <2>2. Advanced(s, t, p + 1) /\ t.path = s.path
      BY <1>6 DEF Closes
    <2> DEFINE c == SubSeq(s.path, k, p)
    <2>3. /\ c \in Seq(DOMAIN graph) /\ c # <<>> /\ IsInjective(c) /\ Len(c) = p - k + 1
          /\ \A i \in 1..Len(c) : c[i] = s.path[k + i - 1]
      <3>1. s.path \in Seq(DOMAIN graph) /\ \A i, j \in 1..Len(s.path) : s.path[i] = s.path[j] => i = j
        BY <1>2 DEF SearchTypes
      <3>2. c \in Seq(DOMAIN graph) /\ c # <<>> /\ Len(c) = p - k + 1
        BY <2>1, <3>1, Segment
      <3>3. \A i \in 1..Len(c) : c[i] = s.path[k + i - 1]
        BY <2>1, <3>1, Segment
      <3>4. IsInjective(c)
        BY <2>1, <3>1, Segment
      <3>5. QED
        BY <3>2, <3>3, <3>4
    <2> HIDE DEF c
    <2>4. /\ canonicalCycle(c) # <<>> /\ ToSet(canonicalCycle(c)) \subseteq ToSet(c)
      BY <2>3 DEF Searchable
    <2>5. s.path[k] \in graph[s.path[p]]
      <3>1. Head(s.left[p + 1]) \in ToSet(s.left[p + 1])
        BY <1>2, <2>2, AdvancedLists
      <3>2. p \in 1..p
        BY <1>3
      <3>3. ToSet(s.left[p + 1]) \subseteq graph[s.path[p]]
        BY <3>2 DEF SoundInv
      <3>4. QED
        BY <2>1, <3>1, <3>3
    <2>6. ASSUME NEW x \in ToSet(c)
          PROVE  Around(graph, x)
      <3>1. PICK i \in 1..Len(c) : x = c[i]
        BY <2>3 DEF ToSet
      <3>2. k + i - 1 \in k..p /\ x = s.path[k + i - 1]
        BY <1>3, <2>3, <3>1
      <3>3. QED
        BY <1>2, <2>5, <3>2, ClosedCycle
    <2>7. \A d \in t.cycles : d # <<>> /\ \A x \in ToSet(d) : Around(graph, x)
      <3>1. t.cycles = s.cycles \cup {canonicalCycle(c)}
        BY <2>1 DEF c
      <3>2. QED
        BY <2>4, <2>6, <3>1 DEF SoundInv
    <2>8. QED
      BY <1>5, <2>2, <2>7 DEF SoundInv, t
  <1>7. CASE Skips(s, t)
    <2>1. Advanced(s, t, p + 1) /\ t.path = s.path /\ t.cycles = s.cycles
      BY <1>7 DEF Skips
    <2>2. QED
      BY <1>5, <2>1 DEF SoundInv, t
  <1>8. CASE Calls(graph, s, t)
    <2> DEFINE target == Head(s.left[p + 1])
    <2>1. /\ Advanced(s, t, p + 1) /\ Len(t.path) = p + 1 /\ t.path[p + 1] = target
          /\ t.left[p + 2] = Sorted(graph[target] \cap DOMAIN graph)
          /\ \A i \in 1..p : t.path[i] = s.path[i]
          /\ t.cycles = s.cycles
      BY <1>8 DEF Calls
    <2>2. /\ \A i \in 1..p : ToSet(t.left[i + 1]) \subseteq ToSet(s.left[i + 1])
          /\ target \in ToSet(s.left[p + 1])
      BY <1>2, <2>1, AdvancedLists
    <2>3. ToSet(t.left[p + 2]) \subseteq graph[target]
      <3>1. graph[target] \cap DOMAIN graph \in SUBSET DOMAIN graph
        OBVIOUS
      <3>2. QED
        BY <2>1, <3>1 DEF Searchable
    <2> HIDE DEF target
    <2>4. \A i : i \in 1..(p + 1) => i \in 1..p \/ i = p + 1
      BY <1>3
    <2>5. (p + 1) + 1 = p + 2
      BY <1>3
    <2>6. \A i \in 1..(p + 1) : ToSet(t.left[i + 1]) \subseteq graph[t.path[i]]
      BY <2>1, <2>2, <2>3, <2>4, <2>5 DEF SoundInv
    <2>7. ASSUME NEW i \in 1..(p + 1), i + 1 \in 1..(p + 1)
          PROVE  t.path[i + 1] \in graph[t.path[i]]
      <3>1. i \in 1..p
        BY <1>3, <2>7
      <3>2. CASE i = p
        BY <2>1, <2>2, <3>1, <3>2 DEF SoundInv
      <3>3. CASE i # p
        <4>1. i + 1 \in 1..p
          BY <1>3, <3>1, <3>3
        <4>2. QED
          BY <2>1, <3>1, <4>1 DEF SoundInv
      <3>4. QED
        BY <3>2, <3>3
    <2>8. QED
      BY <2>1, <2>6, <2>7 DEF SoundInv, t
  <1>9. QED
    BY <1>1, <1>4, <1>6, <1>7, <1>8


(* And overlooks none: a node is visited only when all it wants is.           *)
LEMMA CompleteStep ==
  ASSUME NEW graph, Searchable(graph), NEW s \in Searches(graph), ~Searched(s), CompleteInv(graph, s)
  PROVE  CompleteInv(graph, visit(graph, s))
  <1> DEFINE t == visit(graph, s)
             p == Len(s.path)
             nodes == DOMAIN graph
  <1>1. t \in Searches(graph) /\ (Returns(s, t) \/ Closes(s, t) \/ Skips(s, t) \/ Calls(graph, s, t))
    BY VisitStep, Zenon
  <1>2. SearchTypes(graph, s) /\ SearchTypes(graph, t)
    BY <1>1, SearchesTyped
  <1> HIDE DEF t
  <1>3. p \in Nat /\ Len(s.left) = p + 1
    BY <1>2 DEF SearchTypes
  <1>4. CASE Returns(s, t)
    <2>1. /\ p > 0 /\ s.left[p + 1] = <<>>
          /\ Len(t.path) = p - 1 /\ \A i \in 1..(p - 1) : t.path[i] = s.path[i]
          /\ \A i \in 1..p : t.left[i] = s.left[i]
          /\ t.cycles = s.cycles /\ t.visited = s.visited \cup {s.path[p]}
      BY <1>4 DEF Returns
    <2>2. SUFFICES ASSUME s.cycles = {}
                   PROVE  /\ ClosedIn(graph, t.visited) /\ Founded(graph, t.visited)
                          /\ \A i \in 1..(p - 1) : t.path[i] \notin t.visited
                          /\ \A i \in 1..(p - 1) :
                               Wanted(graph, t, i) \subseteq t.visited \cup ToSet(t.left[i]) \cup {t.path[i]}
                          /\ Wanted(graph, t, p) \subseteq t.visited \cup ToSet(t.left[p])
      <3>1. (p - 1) + 1 = p
        BY <1>3
      <3>2. QED
        BY <2>1, <3>1 DEF CompleteInv, t
    <2> DEFINE last == s.path[p]
    <2>3. p \in 1..p /\ (\A i \in 1..(p - 1) : i \in 1..p /\ i # p) /\ p + 1 - 1 = p /\ p + 1 # 1
      BY <1>3, <2>1
    <2>4. /\ ClosedIn(graph, s.visited) /\ Founded(graph, s.visited)
          /\ \A i \in 1..p : s.path[i] \notin s.visited
          /\ \A i \in 1..p :
               Wanted(graph, s, i) \subseteq s.visited \cup ToSet(s.left[i]) \cup {s.path[i]}
          /\ Wanted(graph, s, p + 1) \subseteq s.visited \cup ToSet(s.left[p + 1])
      BY <2>2 DEF CompleteInv
    <2>5. graph[last] \cap nodes \subseteq s.visited
      <3>1. ToSet(s.left[p + 1]) = {}
        BY <2>1 DEF ToSet
      <3>2. Wanted(graph, s, p + 1) = graph[s.path[p]] \cap DOMAIN graph
        BY <2>3 DEF Wanted
      <3>3. QED
        BY <2>4, <3>1, <3>2
    <2>6. last \notin s.visited /\ last \in nodes
      BY <1>2, <2>3, <2>4 DEF SearchTypes
    <2>7. ClosedIn(graph, t.visited)
      BY <2>1, <2>4, <2>5 DEF ClosedIn
    <2>8. ASSUME NEW T \in SUBSET t.visited, T # {}
          PROVE  \E m \in T : \A x \in T : m \notin graph[x]
      <3>1. CASE last \in T
        <4>1. \A x \in T : last \notin graph[x]
          BY <2>1, <2>4, <2>5, <2>6 DEF ClosedIn
        <4>2. QED
          BY <3>1, <4>1
      <3>2. CASE last \notin T
        <4>1. T \in SUBSET s.visited
          BY <2>1, <3>2
        <4>2. QED
          BY <2>4, <2>8, <4>1 DEF Founded
      <3>3. QED
        BY <3>1, <3>2
    <2>9. \A i \in 1..(p - 1) : t.path[i] \notin t.visited
      BY <1>2, <2>1, <2>3, <2>4 DEF SearchTypes
    <2>10. \A i \in 1..p : Wanted(graph, t, i) = Wanted(graph, s, i)
      <3>1. \A i \in 1..p : i # 1 => i - 1 \in 1..(p - 1)
        BY <1>3
      <3>2. QED
        BY <2>1, <3>1 DEF Wanted
    <2>11. \A i \in 1..(p - 1) :
             Wanted(graph, t, i) \subseteq t.visited \cup ToSet(t.left[i]) \cup {t.path[i]}
      BY <2>1, <2>3, <2>4, <2>10
    <2>12. Wanted(graph, t, p) \subseteq t.visited \cup ToSet(t.left[p])
      BY <2>1, <2>3, <2>4, <2>10
    <2>13. QED
      BY <2>7, <2>8, <2>9, <2>11, <2>12 DEF Founded
  <1>5. CASE Closes(s, t)
    <2>1. t.cycles # {}
      BY <1>5 DEF Closes
    <2>2. QED
      BY <2>1 DEF CompleteInv, t
  <1>6. CASE Skips(s, t)
    <2>1. /\ Advanced(s, t, p + 1) /\ t.path = s.path /\ t.visited = s.visited /\ t.cycles = s.cycles
          /\ Head(s.left[p + 1]) \in s.visited
      BY <1>6 DEF Skips
    <2>2. /\ \A i \in 1..p : t.left[i] = s.left[i]
          /\ ToSet(s.left[p + 1]) = {Head(s.left[p + 1])} \cup ToSet(t.left[p + 1])
      BY <1>2, <2>1, AdvancedLists
    <2>3. \A i : Wanted(graph, t, i) = Wanted(graph, s, i)
      BY <2>1 DEF Wanted
    <2> HIDE DEF p
    <2>4. CompleteInv(graph, t)
      BY <2>1, <2>2, <2>3 DEF CompleteInv, p
    <2>5. QED
      BY <2>4 DEF t
  <1>7. CASE Calls(graph, s, t)
    <2> DEFINE target == Head(s.left[p + 1])
    <2>1. /\ Advanced(s, t, p + 1) /\ Len(t.path) = p + 1 /\ t.path[p + 1] = target
          /\ t.left[p + 2] = Sorted(graph[target] \cap DOMAIN graph)
          /\ \A i \in 1..p : t.path[i] = s.path[i]
          /\ t.cycles = s.cycles /\ t.visited = s.visited /\ target \notin s.visited
      BY <1>7 DEF Calls
    <2>2. /\ \A i \in 1..p : t.left[i] = s.left[i]
          /\ ToSet(s.left[p + 1]) = {target} \cup ToSet(t.left[p + 1])
      BY <1>2, <2>1, AdvancedLists
    <2>3. ToSet(t.left[p + 2]) = graph[target] \cap nodes
      <3>1. graph[target] \cap DOMAIN graph \in SUBSET DOMAIN graph
        OBVIOUS
      <3>2. QED
        BY <2>1, <3>1 DEF Searchable
    <2> HIDE DEF target, nodes
    <2>4. SUFFICES ASSUME s.cycles = {}
                   PROVE  /\ ClosedIn(graph, t.visited) /\ Founded(graph, t.visited)
                          /\ \A i \in 1..(p + 1) : t.path[i] \notin t.visited
                          /\ \A i \in 1..(p + 1) :
                               Wanted(graph, t, i) \subseteq t.visited \cup ToSet(t.left[i]) \cup {t.path[i]}
                          /\ Wanted(graph, t, p + 2) \subseteq t.visited \cup ToSet(t.left[p + 2])
      <3>1. (p + 1) + 1 = p + 2
        BY <1>3
      <3>2. QED
        BY <2>1, <3>1 DEF CompleteInv, t
    <2>5. /\ ClosedIn(graph, s.visited) /\ Founded(graph, s.visited)
          /\ \A i \in 1..p : s.path[i] \notin s.visited
          /\ \A i \in 1..p :
               Wanted(graph, s, i) \subseteq s.visited \cup ToSet(s.left[i]) \cup {s.path[i]}
          /\ Wanted(graph, s, p + 1) \subseteq s.visited \cup ToSet(s.left[p + 1])
      BY <2>4 DEF CompleteInv
    <2>6. \A i : i \in 1..(p + 1) => i \in 1..p \/ i = p + 1
      BY <1>3
    <2>7. \A i \in 1..(p + 1) : Wanted(graph, t, i) = Wanted(graph, s, i)
      <3>1. \A i \in 1..(p + 1) : i # 1 => i - 1 \in 1..p
        BY <1>3
      <3>2. QED
        BY <2>1, <3>1 DEF Wanted
    <2>8. Wanted(graph, t, p + 2) = graph[target] \cap nodes
      <3>1. p + 2 # 1 /\ (p + 2) - 1 = p + 1
        BY <1>3
      <3>2. QED
        BY <2>1, <3>1 DEF Wanted, nodes
    <2>9. \A i \in 1..(p + 1) : t.path[i] \notin t.visited
      BY <2>1, <2>5, <2>6
    <2>10. \A i \in 1..(p + 1) :
             Wanted(graph, t, i) \subseteq t.visited \cup ToSet(t.left[i]) \cup {t.path[i]}
      BY <2>1, <2>2, <2>5, <2>6, <2>7
    <2>11. QED
      BY <2>1, <2>3, <2>5, <2>8, <2>9, <2>10
  <1>8. QED
    BY <1>1, <1>4, <1>5, <1>6, <1>7

(* What the search finds: of the nodes on a cycle some, of others none, and   *)
(* nothing only when there is no cycle.                                       *)
THEOREM CyclesFound ==
  ASSUME NEW graph, Searchable(graph)
  PROVE  LET rings == DependencyCycles(graph)
         IN /\ rings \subseteq Seq(DOMAIN graph)
            /\ \A c \in rings : c # <<>> /\ \A x \in ToSet(c) : Around(graph, x)
            /\ rings = {} => \A x \in DOMAIN graph : ~Around(graph, x)
  <1> DEFINE X == Searches(graph)
             D == {s \in X : Searched(s)}
             G == [s \in X |-> IF s \in D THEN s ELSE visit(graph, s)]
             V == [s \in X |-> s.cycles]
             body(f) == [s \in X |-> IF Searched(s) THEN s.cycles ELSE f[visit(graph, s)]]
             f == CHOOSE g : g = body(g)
             start == SearchStart(graph)
             nodes == DOMAIN graph
  <1>1. \A s \in X : ~Searched(s) => visit(graph, s) \in X
    BY VisitStep
  <1>2. \E g : g = body(g)
    <2>1. G \in [X -> X] /\ \A s \in D : G[s] = s
      BY <1>1
    <2>2. PICK g : Loops(X, G, D, V, g)
      <3> HIDE DEF G, D, V, X
      <3>1. QED
        BY <2>1, LoopExists
    <2>3. \A s \in X : IF s \in D THEN V[s] = s.cycles /\ Searched(s)
                                  ELSE G[s] = visit(graph, s) /\ ~Searched(s)
      OBVIOUS
    <2>4. g = [s \in X |-> IF s \in D THEN V[s] ELSE g[G[s]]]
      BY <2>2, Zenon DEF Loops
    <2> HIDE DEF X, D, G, V
    <2>5. g = [s \in X |-> IF Searched(s) THEN s.cycles ELSE g[visit(graph, s)]]
      BY <2>3, <2>4
    <2>6. QED
      BY <2>5
  <1>3. f = body(f)
    BY <1>2, Zenon
  <1>4. DependencyCycles(graph) = f[start]
    BY Zenon DEF DependencyCycles
  <1> HIDE DEF f
  <1>5. \A s \in X : f[s] = IF Searched(s) THEN s.cycles ELSE f[visit(graph, s)]
    BY <1>3
  <1>6. start \in X
    <2>1. Sorted(nodes) \in Seq(nodes)
      BY DEF Searchable
    <2> DEFINE path == <<>>
               left == <<Sorted(nodes)>>
    <2>2. /\ path \in Seq(nodes) /\ left \in Seq(Seq(nodes)) /\ Len(left) = 1 /\ Len(path) = 0
          /\ Len(left) = Len(path) + 1
      BY <2>1
    <2>3. \A i, j \in 1..Len(path) : path[i] = path[j] => i = j
      BY <2>2
    <2>4. {} \in SUBSET Seq(nodes) /\ {} \in SUBSET nodes
      OBVIOUS
    <2>5. start = [path |-> path, left |-> left, cycles |-> {}, visited |-> {}]
      BY DEF SearchStart
    <2> HIDE DEF path, left, nodes, start, X
    <2>6. [path |-> path, left |-> left, cycles |-> {}, visited |-> {}] \in X
      BY <2>2, <2>3, <2>4, TypedSearches DEF nodes, X
    <2>7. QED
      BY <2>5, <2>6
  <1>7. SoundInv(graph, start) /\ CompleteInv(graph, start)
    <2>1. /\ start.path = <<>> /\ Len(start.path) = 0 /\ start.left[1] = Sorted(nodes)
          /\ start.cycles = {} /\ start.visited = {}
      BY DEF SearchStart
    <2> HIDE DEF start
    <2>2. ToSet(start.left[1]) = nodes
      BY <2>1 DEF Searchable
    <2>3. SoundInv(graph, start)
      BY <2>1 DEF SoundInv
    <2>4. Wanted(graph, start, 1) = nodes /\ 0 + 1 = 1
      BY DEF Wanted
    <2>5. Founded(graph, {}) /\ ClosedIn(graph, {})
      BY DEF Founded, ClosedIn
    <2>6. CompleteInv(graph, start)
      BY <2>1, <2>2, <2>4, <2>5 DEF CompleteInv
    <2>7. QED
      BY <2>3, <2>6
  <1> DEFINE Right(cycles) == /\ cycles \subseteq Seq(nodes)
                              /\ \A c \in cycles : c # <<>> /\ \A x \in ToSet(c) : Around(graph, x)
                              /\ cycles = {} => Founded(graph, nodes)
             B == {s \in X : SoundInv(graph, s) /\ CompleteInv(graph, s) /\ ~Right(f[s])}
  <1>8. ASSUME NEW s \in X, Searched(s), SoundInv(graph, s), CompleteInv(graph, s)
        PROVE  Right(s.cycles)
    <2>1. Len(s.path) = 0 /\ s.left[1] = <<>>
      BY <1>8 DEF Searched
    <2>2. ToSet(s.left[1]) = {}
      BY <2>1 DEF ToSet
    <2>3. Wanted(graph, s, 1) = nodes /\ 0 + 1 = 1
      BY DEF Wanted
    <2>4. s.visited \subseteq nodes /\ s.cycles \subseteq Seq(nodes)
      BY SearchesTyped DEF SearchTypes
    <2>5. ASSUME s.cycles = {}
          PROVE  Founded(graph, nodes)
      <3>1. /\ Founded(graph, s.visited)
            /\ Wanted(graph, s, Len(s.path) + 1) \subseteq s.visited \cup ToSet(s.left[Len(s.path) + 1])
        BY <1>8, <2>5 DEF CompleteInv
      <3>2. s.visited = nodes
        BY <2>1, <2>2, <2>3, <2>4, <3>1
      <3>3. QED
        BY <3>1, <3>2
    <2>6. QED
      BY <1>8, <2>4, <2>5 DEF SoundInv
  <1>9. \A s \in B : ~Searched(s) /\ visit(graph, s) \in B
    <2> HIDE DEF X
    <2>1. SUFFICES ASSUME NEW s \in B
                   PROVE  ~Searched(s) /\ visit(graph, s) \in B
      OBVIOUS
    <2>2. s \in X /\ SoundInv(graph, s) /\ CompleteInv(graph, s) /\ ~Right(f[s])
      BY <2>1
    <2> HIDE DEF Right
    <2>3. ~Searched(s)
      BY <1>5, <1>8, <2>2
    <2>4. /\ visit(graph, s) \in X
          /\ SoundInv(graph, visit(graph, s)) /\ CompleteInv(graph, visit(graph, s))
      BY <1>1, <2>2, <2>3, SoundStep, CompleteStep DEF X
    <2>5. f[s] = f[visit(graph, s)]
      BY <1>5, <2>2, <2>3
    <2>6. QED
      BY <2>2, <2>3, <2>4, <2>5
  <1>10. B = {}
    <2>1. B \in SUBSET Searches(graph)
      OBVIOUS
    <2> HIDE DEF B
    <2>2. QED
      BY <1>9, <2>1, SearchEnds
  <1> HIDE DEF X, start
  <1>11. Right(f[start])
    <2> HIDE DEF Right
    <2>1. QED
      BY <1>6, <1>7, <1>10
  <1>12. QED
    BY <1>4, <1>11, FoundedIsAcyclic

--------------------------------------------------------------------------------
(* The graph of dependencies can be searched: its nodes are identities.       *)
IdsOf(S) == {pair \in S \X S : Before(pair[1], pair[2])}

IsId(x) == x = <<x[1], x[2], x[3]>> /\ Named(x)

(* The values of a finite sequence are finitely many.                         *)
LEMMA FiniteImage ==
  ASSUME NEW n \in Nat, NEW f, DOMAIN f = 1..n
  PROVE  IsFiniteSet({f[i] : i \in 1..n})
  <1> DEFINE T == {f[i] : i \in 1..n}
             g == [i \in 1..n |-> f[i]]
  <1>1. IsFiniteSet(1..n)
    BY FirstNumbers
  <1>2. g \in Surjection(1..n, T)
    BY DEF Surjection
  <1>3. QED
    BY <1>1, <1>2, FS_Surjection

(* Identities made of names in use are ranked, as matches are.                *)
LEMMA IdsRanked ==
  ASSUME NEW S, IsFiniteSet(S), \A x \in S : IsId(x)
  PROVE  Ranked(S, IdsOf(S)) /\ \A x \in S : Below(S, IdsOf(S), x) = {y \in S : Before(y, x)}
  <1> DEFINE R == IdsOf(S)
  <1>1. \A x, y \in S : <<x, y>> \in R <=> Before(x, y)
    BY DEF IdsOf
  <1>2. \A x, y \in S : SameNames(x, y) => x = y
    BY Zenon DEF SameNames, IsId
  <1>3. \A x, y, z \in S : /\ ~Before(x, x)
                           /\ SameNames(x, y) \/ Before(x, y) \/ Before(y, x)
                           /\ Before(x, y) /\ Before(y, z) => Before(x, z)
    BY BeforeOrders DEF IsId
  <1> HIDE DEF R
  <1>4. StrictOrder(S, R)
    BY <1>1, <1>2, <1>3 DEF StrictOrder
  <1>5. Ranked(S, R)
    BY <1>4, RankReached
  <1>6. \A x \in S : Below(S, R, x) = {y \in S : Before(y, x)}
    BY <1>1 DEF Below
  <1>7. QED
    BY <1>5, <1>6 DEF R

(* Sorted, none is lost and none comes in.                                    *)
LEMMA SortedIds ==
  ASSUME NEW S, IsFiniteSet(S), \A x \in S : IsId(x)
  PROVE  IsSequence(Sorted(S)) /\ ToSet(Sorted(S)) = S
  <1> DEFINE R == IdsOf(S)
  <1>1. Ranked(S, R) /\ \A x \in S : Below(S, R, x) = {y \in S : Before(y, x)}
    BY IdsRanked
  <1>2. Sorted(S) = InOrderOf(S, R)
    <2> DEFINE Ranking(k) == CHOOSE x \in S : Cardinality(Below(S, R, x)) = k - 1
               Sorting(k) == CHOOSE x \in S : Cardinality({y \in S : Before(y, x)}) = k - 1
    <2>1. Sorted(S) = [k \in 1..Cardinality(S) |-> Sorting(k)]
      BY Zenon DEF Sorted, Ordered
    <2>2. InOrderOf(S, R) = [k \in 1..Cardinality(S) |-> Ranking(k)]
      BY DEF InOrderOf
    <2>3. \A k : Ranking(k) = Sorting(k)
      <3> HIDE DEF R
      <3>1. \A x \in S : Cardinality(Below(S, R, x)) = Cardinality({y \in S : Before(y, x)})
        BY <1>1
      <3>2. QED
        BY <3>1
    <2> HIDE DEF R, Ranking, Sorting
    <2>4. QED
      BY <2>1, <2>2, <2>3
  <1> HIDE DEF R
  <1>3. QED
    BY <1>1, <1>2, OrderedMembers

(* One of them comes before all the others.                                   *)
LEMMA FirstId ==
  ASSUME NEW S, IsFiniteSet(S), S # {}, \A x \in S : IsId(x)
  PROVE  \E x \in S : \A y \in S \ {x} : Before(x, y)
  <1> DEFINE R == IdsOf(S)
  <1>1. Ranked(S, R) /\ \A x \in S : Below(S, R, x) = {y \in S : Before(y, x)}
    BY IdsRanked
  <1>2. Cardinality(S) \in Nat /\ Cardinality(S) # 0
    BY FS_CardinalityType, FS_EmptySet
  <1>3. 1 \in 1..Cardinality(S) /\ 1 - 1 = 0
    BY <1>2
  <1>4. PICK x \in S : Cardinality(Below(S, R, x)) = 0
    BY <1>1, <1>3 DEF Ranked
  <1>5. IsFiniteSet(Below(S, R, x))
    <2>1. Below(S, R, x) \in SUBSET S
      BY DEF Below
    <2>2. QED
      BY <2>1, FS_Subset
  <1>6. Below(S, R, x) = {}
    BY <1>4, <1>5, FS_EmptySet
  <1>7. ASSUME NEW y \in S \ {x}
        PROVE  Before(x, y)
    <2>1. ~Before(y, x)
      BY <1>1, <1>6
    <2>2. ~SameNames(x, y)
      BY <1>7, Zenon DEF SameNames, IsId
    <2>3. QED
      BY <2>1, <2>2, BeforeOrders DEF IsId
  <1>8. QED
    BY <1>7

(* An index, turned round, is an index.                                       *)
LEMMA Rotated ==
  ASSUME NEW n \in Nat \ {0}, NEW first \in 1..n, NEW i \in 1..n
  PROVE  ((first + i - 2) % n) + 1 \in 1..n
  <1>1. first + i - 2 \in Nat
    OBVIOUS
  <1>2. ASSUME NEW a \in Nat
        PROVE  a % n \in 0..(n - 1)
    OBVIOUS
  <1>3. QED
    BY <1>1, <1>2

(* A cycle, turned round, has no other nodes.                                 *)
LEMMA CanonicalCycle ==
  ASSUME NEW S, \A x \in S : IsId(x), NEW c \in Seq(S), c # <<>>, IsInjective(c)
  PROVE  /\ canonicalCycle(c) \in Seq(S) /\ canonicalCycle(c) # <<>>
         /\ ToSet(canonicalCycle(c)) \subseteq ToSet(c)
  <1> DEFINE n == Len(c)
             first == CHOOSE i \in 1..n : \A j \in (1..n) \ {i} : Before(c[i], c[j])
             r == [i \in 1..n |-> c[((first + i - 2) % n) + 1]]
  <1>1. n \in Nat \ {0} /\ DOMAIN c = 1..n /\ \A i \in 1..n : c[i] \in S
    OBVIOUS
  <1>2. ToSet(c) = {c[i] : i \in 1..n}
    BY <1>1 DEF ToSet
  <1>3. canonicalCycle(c) = r
    BY Zenon DEF canonicalCycle
  <1>4. IsFiniteSet(ToSet(c))
    BY <1>1, <1>2, FiniteImage
  <1>5. ToSet(c) # {} /\ \A x \in ToSet(c) : IsId(x)
    BY <1>1, <1>2
  <1>6. first \in 1..n
    <2>1. PICK x \in ToSet(c) : \A y \in ToSet(c) \ {x} : Before(x, y)
      BY <1>4, <1>5, FirstId
    <2>2. PICK i \in 1..n : x = c[i]
      BY <1>2
    <2>3. \A j \in (1..n) \ {i} : Before(c[i], c[j])
      BY <1>1, <1>2, <2>1, <2>2 DEF IsInjective
    <2> HIDE DEF n
    <2>4. QED
      BY <2>3, Zenon
  <1> HIDE DEF first
  <1>7. \A i \in 1..n : ((first + i - 2) % n) + 1 \in 1..n
    BY <1>1, <1>6, Rotated
  <1> HIDE DEF n
  <1>8. DOMAIN r = 1..n /\ \A i \in 1..n : r[i] \in ToSet(c) /\ r[i] \in S
    BY <1>1, <1>2, <1>7
  <1>9. r \in [1..n -> S]
    BY <1>8
  <1> HIDE DEF r
  <1>10. r \in Seq(S) /\ r # <<>> /\ ToSet(r) \subseteq ToSet(c)
    BY <1>1, <1>8, <1>9 DEF ToSet
  <1>11. QED
    BY <1>3, <1>10

(* Hence the graph of any candidates with such identities can be searched.    *)
LEMMA GraphSearchable ==
  ASSUME NEW candidates, IsSequence(candidates), NEW lookup,
         \A i \in DOMAIN candidates : Named(resourceCandidateIdentity(candidates[i]))
  PROVE  Searchable(DependencyGraph(candidates, lookup))
  <1> DEFINE graph == DependencyGraph(candidates, lookup)
             nodes == Identities(candidates)
  <1>1. DOMAIN graph = nodes
    BY DEF DependencyGraph
  <1>2. IsFiniteSet(nodes)
    <2>1. Len(candidates) \in Nat /\ DOMAIN candidates = 1..Len(candidates)
      BY SequenceDomain
    <2> DEFINE ids == [i \in 1..Len(candidates) |-> resourceCandidateIdentity(candidates[i])]
    <2>2. nodes = {ids[i] : i \in 1..Len(candidates)} /\ DOMAIN ids = 1..Len(candidates)
      BY <2>1 DEF Identities
    <2> HIDE DEF ids, nodes
    <2>3. QED
      BY <2>1, <2>2, FiniteImage
  <1>3. \A x \in nodes : IsId(x)
    BY DEF Identities, IsId, resourceCandidateIdentity
  <1> HIDE DEF graph, nodes
  <1>4. ASSUME NEW S \in SUBSET nodes
        PROVE  Sorted(S) \in Seq(nodes) /\ ToSet(Sorted(S)) = S
    <2>1. IsFiniteSet(S) /\ \A x \in S : IsId(x)
      BY <1>2, <1>3, FS_Subset
    <2>2. IsSequence(Sorted(S)) /\ ToSet(Sorted(S)) = S
      BY <2>1, SortedIds
    <2>3. QED
      BY <2>2 DEF IsSequence
  <1>5. \A c \in Seq(nodes) : c # <<>> /\ IsInjective(c) =>
          /\ canonicalCycle(c) \in Seq(nodes) /\ canonicalCycle(c) # <<>>
          /\ ToSet(canonicalCycle(c)) \subseteq ToSet(c)
    BY <1>3, CanonicalCycle
  <1>6. QED
    BY <1>1, <1>2, <1>4, <1>5 DEF Searchable, graph

--------------------------------------------------------------------------------
(* What the graph says of the candidates.                                     *)

(* The last index is one of them.                                             *)
LEMMA LargestIndex ==
  ASSUME NEW n \in Nat, NEW S \in SUBSET (1..n), S # {}
  PROVE  Max(S) \in S
  <1> DEFINE T == {n - i : i \in S}
  <1>1. T \in SUBSET Nat /\ T # {}
    <2>1. \A i \in 1..n : n - i \in Nat
      OBVIOUS
    <2>2. T \in SUBSET Nat
      BY <2>1
    <2>3. PICK i \in S : TRUE
      OBVIOUS
    <2>4. n - i \in T
      BY <2>3
    <2>5. QED
      BY <2>2, <2>4
  <1> HIDE DEF T
  <1>2. PICK t \in T : \A u \in T : t <= u
    BY <1>1, Least
  <1>3. PICK i \in S : t = n - i
    BY DEF T
  <1>4. ASSUME NEW j \in S
        PROVE  i >= j
    <2>1. n - j \in T
      BY DEF T
    <2>2. n - i <= n - j
      BY <1>2, <1>3, <2>1
    <2>3. i \in Int /\ j \in Int
      OBVIOUS
    <2>4. QED
      BY <2>2, <2>3
  <1>5. QED
    BY <1>4 DEF Max

NeedsOf(c, d, lookup) ==
  \E dependency \in c.dependencies :
    \E m \in ToSet(lookup) :
      /\ dependency.type = "required" /\ Matching(dependency, m)
      /\ resourceCandidateIdentity(m) = resourceCandidateIdentity(d)

(* Unless two candidates share an identity the targets of a node are those of *)
(* its candidate.                                                             *)
LEMMA GraphNeeds ==
  ASSUME NEW candidates, IsSequence(candidates), NEW lookup,
         \A c, d \in ToSet(candidates) :
           resourceCandidateIdentity(c) = resourceCandidateIdentity(d) => c = d,
         NEW c \in ToSet(candidates), NEW d \in ToSet(candidates)
  PROVE  resourceCandidateIdentity(d)
           \in DependencyGraph(candidates, lookup)[resourceCandidateIdentity(c)]
             <=> NeedsOf(c, d, lookup)
  <1> DEFINE id == resourceCandidateIdentity(c)
             I == {i \in 1..Len(candidates) : resourceCandidateIdentity(candidates[i]) = id}
             last == SelectLastInSeq(candidates, LAMBDA x : resourceCandidateIdentity(x) = id)
             Targets(x) == {resourceCandidateIdentity(m) :
                              m \in UNION {findDependencyMatches(e, lookup) :
                                             e \in {y \in x.dependencies : y.type = "required"}}}
  <1>1. Len(candidates) \in Nat /\ DOMAIN candidates = 1..Len(candidates)
    BY SequenceDomain
  <1>2. last \in I
    <2>1. last = IF I # {} THEN Max(I) ELSE 0
      BY DEF SelectLastInSeq
    <2>2. I # {} /\ I \in SUBSET (1..Len(candidates))
      BY <1>1 DEF ToSet
    <2> HIDE DEF I, last
    <2>3. QED
      BY <1>1, <2>1, <2>2, LargestIndex
  <1> HIDE DEF last
  <1>3. candidates[last] = c
    BY <1>1, <1>2 DEF ToSet
  <1>4. id \in Identities(candidates)
    BY <1>1 DEF Identities, ToSet
  <1>5. DependencyGraph(candidates, lookup)[id] = Targets(candidates[last])
    BY <1>4, Zenon DEF DependencyGraph, last
  <1>6. \A e : findDependencyMatches(e, lookup) = {m \in ToSet(lookup) : Matching(e, m)}
    BY DEF findDependencyMatches
  <1>7. \A x : x \in Targets(c) <=>
          \E e \in c.dependencies : \E m \in ToSet(lookup) :
            e.type = "required" /\ Matching(e, m) /\ resourceCandidateIdentity(m) = x
    BY <1>6
  <1>8. QED
    BY <1>3, <1>5, <1>7 DEF NeedsOf

(* Two graphs with the same arrows have the same cycles: that of identities   *)
(* and that of what candidates need.                                          *)
ClosedUnder(N, R, S) == \A c \in S : \A d \in N : <<c, d>> \in R => d \in S

Mirrors(graph, id, N, R) ==
  /\ DOMAIN graph = {id[c] : c \in N}
  /\ \A c, d \in N : id[c] = id[d] => c = d
  /\ \A c, d \in N : id[d] \in graph[id[c]] <=> <<c, d>> \in R

BackTo(N, R, c) ==
  \E d \in N : /\ <<c, d>> \in R
               /\ \A S \in SUBSET N : d \in S /\ ClosedUnder(N, R, S) => c \in S

(* A candidate is on a cycle of the one when its identity is on one of the    *)
(* other.                                                                     *)
LEMMA SameCycles ==
  ASSUME NEW N, NEW id, NEW graph, NEW R, Mirrors(graph, id, N, R), NEW c \in N
  PROVE  Around(graph, id[c]) <=> BackTo(N, R, c)
  <1> USE DEF Mirrors
  <1> DEFINE Of(S) == {id[x] : x \in S}
             From(T) == {x \in N : id[x] \in T}
             Ends(d) == \A S \in SUBSET N : d \in S /\ ClosedUnder(N, R, S) => c \in S
  <1>1. ASSUME NEW S \in SUBSET N, ClosedUnder(N, R, S)
        PROVE  ClosedIn(graph, Of(S)) /\ Of(S) \in SUBSET DOMAIN graph
    <2>1. ASSUME NEW x \in S, NEW y \in graph[id[x]] \cap DOMAIN graph
          PROVE  y \in Of(S)
      <3>1. PICK z \in N : y = id[z]
        BY <2>1
      <3>2. <<x, z>> \in R
        BY <2>1, <3>1
      <3>3. z \in S
        BY <1>1, <3>2 DEF ClosedUnder
      <3>4. QED
        BY <3>1, <3>3
    <2>2. QED
      BY <2>1 DEF ClosedIn
  <1>2. ASSUME NEW T \in SUBSET DOMAIN graph, ClosedIn(graph, T)
        PROVE  ClosedUnder(N, R, From(T)) /\ From(T) \in SUBSET N
    BY <1>2 DEF ClosedUnder, ClosedIn
  <1>3. ASSUME NEW d \in N
        PROVE  Leads(graph, id[d], id[c]) <=> Ends(d)
    <2>1. ASSUME Leads(graph, id[d], id[c]), NEW S \in SUBSET N, d \in S, ClosedUnder(N, R, S)
          PROVE  c \in S
      <3>1. id[c] \in Of(S)
        BY <1>1, <2>1 DEF Leads
      <3>2. QED
        BY <2>1, <3>1
    <2>2. ASSUME Ends(d), NEW T \in SUBSET DOMAIN graph, id[d] \in T, ClosedIn(graph, T)
          PROVE  id[c] \in T
      <3>1. d \in From(T) /\ From(T) \in SUBSET N /\ ClosedUnder(N, R, From(T))
        BY <1>2, <2>2
      <3>2. c \in From(T)
        BY <2>2, <3>1
      <3>3. QED
        BY <3>2
    <2>3. QED
      BY <2>1, <2>2 DEF Leads
  <1> HIDE DEF Ends
  <1>4. Around(graph, id[c]) <=> \E d \in N : id[d] \in graph[id[c]] /\ Leads(graph, id[d], id[c])
    BY DEF Around
  <1>5. QED
    BY <1>3, <1>4 DEF Ends, BackTo

--------------------------------------------------------------------------------
(* Which issues report a cycle: those of the search and no others.            *)
Elsewhere(every) == \A issue \in every : issue.code # "DEPENDENCY_CYCLE"

(* An issue keeps its code whatever is added to it.                           *)
LEMMA IssueCode ==
  ASSUME NEW code, NEW severity, NEW resource, NEW check
  PROVE  LET issue == makeIssue(code, severity, resource, check)
         IN /\ issue.code = code
            /\ \A x : [issue EXCEPT !.rule = x].code = code
            /\ \A x : [issue EXCEPT !.dependency = x].code = code
            /\ \A x : /\ [issue EXCEPT !.related = x].code = code
                      /\ [issue EXCEPT !.related = x].related = x
            /\ \A x, y : [issue EXCEPT !.dependency = x, !.related = y].code = code
            /\ \A x, y : [issue EXCEPT !.related = x, !.rule = y].code = code
  BY DEF makeIssue

(* None of the other parts of the analysis makes an issue of this code.       *)
LEMMA MetadataElsewhere ==
  ASSUME NEW candidate, NEW target, NEW severity
  PROVE  Elsewhere(analyzeCandidateMetadata(candidate, target, severity))
  <1> SUFFICES ASSUME NEW issue \in analyzeCandidateMetadata(candidate, target, severity)
               PROVE  issue.code # "DEPENDENCY_CYCLE"
    BY DEF Elsewhere
  <1>1. QED
    BY IssueFields DEF analyzeCandidateMetadata, Declared, analyzeSide, IssueWhen

LEMMA ConflictElsewhere ==
  ASSUME NEW pair, NEW severity, NEW rule
  PROVE  ConflictIssue(pair, severity, rule).code # "DEPENDENCY_CYCLE"
  BY IssueCode DEF ConflictIssue

LEMMA DependenciesElsewhere ==
  ASSUME NEW candidate, NEW lookup, NEW severity
  PROVE  Elsewhere(analyzeCandidateDependencies(candidate, lookup, severity))
  <1> DEFINE id == resourceCandidateIdentity(candidate)
  <1>1. ASSUME NEW d, NEW issue \in RequiredDependencyIssues(id, d, findDependencyMatches(d, lookup),
                                                             severity)
        PROVE  issue.code # "DEPENDENCY_CYCLE"
    <2> DEFINE plain(code, level) == makeIssue(code, level, id, "dependencies")
    <2>1. \/ issue = plain("REQUIRED_DEPENDENCY_UNRESOLVED", "blocker")
          \/ issue = [plain("REQUIRED_DEPENDENCY_MISSING", "blocker")
                        EXCEPT !.dependency = d.projectId]
          \/ \E ids : issue = [plain("DEPENDENCY_VERSION_UNKNOWN", severity)
                                 EXCEPT !.dependency = d.projectId, !.related = ids]
      BY DEF RequiredDependencyIssues, IssueWhen
    <2>2. \A code, level : /\ plain(code, level).code = code
                           /\ \A x : [plain(code, level) EXCEPT !.dependency = x].code = code
                           /\ \A x, y : [plain(code, level) EXCEPT !.dependency = x,
                                                                   !.related = y].code = code
      BY IssueCode
    <2> HIDE DEF plain
    <2>3. CASE issue = plain("REQUIRED_DEPENDENCY_UNRESOLVED", "blocker")
      BY <2>2, <2>3
    <2>4. CASE issue = [plain("REQUIRED_DEPENDENCY_MISSING", "blocker")
                          EXCEPT !.dependency = d.projectId]
      BY <2>2, <2>4
    <2>5. CASE \E ids : issue = [plain("DEPENDENCY_VERSION_UNKNOWN", severity)
                                   EXCEPT !.dependency = d.projectId, !.related = ids]
      BY <2>2, <2>5
    <2>6. QED
      BY <2>1, <2>3, <2>4, <2>5
  <1>2. ASSUME NEW d, NEW issue \in DependencyIssues(id, d, lookup, severity)
        PROVE  issue.code # "DEPENDENCY_CYCLE"
    <2>1. \/ issue \in RequiredDependencyIssues(id, d, findDependencyMatches(d, lookup), severity)
          \/ \E m : issue = ConflictIssue({id, resourceCandidateIdentity(m)}, "blocker", None)
      BY <1>2, DependencyKinds
    <2>2. QED
      BY <1>1, <2>1, ConflictElsewhere
  <1>3. QED
    BY <1>2, DependencyByDependency DEF Elsewhere

LEMMA ProjectsElsewhere ==
  ASSUME NEW projects, NEW lookup
  PROVE  Elsewhere(analyzeRequiredProjects(projects, lookup))
  <1> DEFINE Missing(p) == [makeIssue("REQUIRED_DEPENDENCY_MISSING", "blocker", NoResource,
                                      "dependencies") EXCEPT !.dependency = p]
  <1>1. \A issue \in analyzeRequiredProjects(projects, lookup) : \E p : issue = Missing(p)
    BY DEF analyzeRequiredProjects
  <1>2. \A p : Missing(p).code = "REQUIRED_DEPENDENCY_MISSING"
    BY IssueCode
  <1> HIDE DEF Missing
  <1>3. QED
    BY <1>1, <1>2 DEF Elsewhere

LEMMA DuplicatesElsewhere ==
  ASSUME NEW candidates
  PROVE  Elsewhere(analyzeDuplicates(candidates))
  <1>1. ASSUME NEW ids
        PROVE  /\ DuplicateIssue("DUPLICATE_CANDIDATE", ids).code # "DEPENDENCY_CYCLE"
               /\ DuplicateIssue("DUPLICATE_PROJECT", ids).code # "DEPENDENCY_CYCLE"
    BY IssueCode DEF DuplicateIssue
  <1>2. \A issue \in analyzeDuplicates(candidates) :
          \E ids : \/ issue = DuplicateIssue("DUPLICATE_CANDIDATE", ids)
                   \/ issue = DuplicateIssue("DUPLICATE_PROJECT", ids)
    BY Zenon DEF analyzeDuplicates
  <1>3. QED
    BY <1>1, <1>2 DEF Elsewhere

LEMMA RulesElsewhere ==
  ASSUME NEW candidates, NEW target, NEW rules
  PROVE  Elsewhere(analyzeRules(candidates, target, rules))
  <1>1. ASSUME NEW rule
        PROVE  Elsewhere(RuleIssues(candidates, rule))
    <2> DEFINE Ids(selector) ==
                 Identities(SelectSeq(candidates, LAMBDA c : matchesSelector(c, selector)))
               matches == [i \in DOMAIN rule.selectors |-> Ids(rule.selectors[i])]
               subjects == IF matches = <<>> THEN {} ELSE matches[1]
               Made(code, check, id) ==
                 [makeIssue(code, rule.severity, id, check) EXCEPT !.rule = rule.ruleId]
               About(code, check) == {Made(code, check, id) : id \in subjects}
               conflict == ConflictIssue(UNION ToSet(matches), rule.severity, rule.ruleId)
    <2>1. \/ RuleIssues(candidates, rule) \subseteq {conflict}
          \/ RuleIssues(candidates, rule) = About("REQUIRED_DEPENDENCY_MISSING", "dependencies")
          \/ RuleIssues(candidates, rule) = About("LOADER_MISMATCH", "loader")
          \/ RuleIssues(candidates, rule) = About("MINECRAFT_VERSION_MISMATCH", "minecraftVersion")
          \/ RuleIssues(candidates, rule) = About("SIDE_MISMATCH", "side")
      BY Zenon DEF RuleIssues
    <2>2. conflict.code # "DEPENDENCY_CYCLE"
      BY ConflictElsewhere
    <2> HIDE DEF matches, subjects, conflict
    <2>3. \A code, check, id : Made(code, check, id).code = code
      BY IssueCode
    <2> HIDE DEF Made
    <2>4. \A code, check : \A issue \in About(code, check) : issue.code = code
      BY <2>3
    <2> HIDE DEF About
    <2>5. QED
      BY <2>1, <2>2, <2>4 DEF Elsewhere
  <1>2. QED
    BY <1>1 DEF Elsewhere, analyzeRules

(* So what is reported, and of which resources, is what the search found.     *)
LEMMA CycleIssues ==
  ASSUME NEW candidates, NEW target, NEW options
  PROVE  LET lookup == candidates \o options.dependencyCandidates
             rings == DependencyCycles(DependencyGraph(candidates, lookup))
             reported == {i \in analyzeCompatibility(candidates, target, options).issues :
                            i.code = "DEPENDENCY_CYCLE"}
         IN /\ reported # {} <=> rings # {}
            /\ UNION {i.related : i \in reported} = UNION {ToSet(c) : c \in rings}
  <1> DEFINE lookup == candidates \o options.dependencyCandidates
             severity == options.treatUnknownAs
             rings == DependencyCycles(DependencyGraph(candidates, lookup))
             made == analyzeCompatibility(candidates, target, options)
             none == IssueWhen(candidates = <<>>,
                       makeIssue("COMPATIBILITY_UNKNOWN", severity, NoResource, "metadata"))
             own == UNION {analyzeCandidateMetadata(candidates[i], target, severity)
                           \cup analyzeCandidateDependencies(candidates[i], lookup, severity)
                             : i \in DOMAIN candidates}
             required == analyzeRequiredProjects(options.requiredProjectIds, lookup)
             duplicates == analyzeDuplicates(candidates)
             cycles == analyzeDependencyCycles(candidates, lookup)
             curated == analyzeRules(candidates, target, options.rules)
             CycleIssue(c) == [makeIssue("DEPENDENCY_CYCLE", "warning", c[1], "dependencies")
                            EXCEPT !.related = ToSet(c)]
  <1>1. made.issues = UNION {none, own, required, duplicates, cycles, curated}
    BY DEF analyzeCompatibility
  <1>2. Elsewhere(none)
    BY IssueCode DEF Elsewhere, IssueWhen
  <1>3. Elsewhere(own)
    BY MetadataElsewhere, DependenciesElsewhere DEF Elsewhere
  <1>4. Elsewhere(required) /\ Elsewhere(duplicates) /\ Elsewhere(curated)
    BY ProjectsElsewhere, DuplicatesElsewhere, RulesElsewhere
  <1>5. cycles = {CycleIssue(c) : c \in rings}
    BY DEF analyzeDependencyCycles
  <1>6. \A c : CycleIssue(c).code = "DEPENDENCY_CYCLE" /\ CycleIssue(c).related = ToSet(c)
    BY IssueCode
  <1> HIDE DEF made, none, own, required, duplicates, cycles, curated, rings, CycleIssue
  <1>7. {i \in made.issues : i.code = "DEPENDENCY_CYCLE"} = cycles
    BY <1>1, <1>2, <1>3, <1>4, <1>5, <1>6 DEF Elsewhere
  <1>8. cycles # {} <=> rings # {}
    BY <1>5
  <1>9. UNION {i.related : i \in cycles} = UNION {ToSet(c) : c \in rings}
    BY <1>5, <1>6
  <1>10. QED
    BY <1>7, <1>8, <1>9 DEF made, rings

--------------------------------------------------------------------------------
(* The candidates an analysis is given are identified by names in use.        *)

(* A version the service lists becomes a candidate with such an identity.     *)
LEMMA ResolvedNamed ==
  ASSUME NEW query, NEW project, NEW warnings, NEW answer \in Answers("versions"), NEW preference
  PROVE  LET candidate == ResolvedResult(query, project, warnings, answer, preference).candidate
         IN candidate # Null => Named(resourceCandidateIdentity(candidate))
  <1> DEFINE result == ResolvedResult(query, project, warnings, answer, preference)
             versions == getProjectVersions(answer)
             best == selectBestVersion(versions.value, query.gameVersion, query.loader, preference)
             selected == IF versions.error # None THEN versions
                         ELSE selectResolverVersion(versions.value, query.gameVersion,
                                                    query.loader, preference)
             candidate == normalizeModrinthVersionToCandidate(selected.value, project)
  <1>1. CASE selected.error # None
    <2>1. result = FailedResult(query, warnings, selected.error)
      BY <1>1, Zenon DEF ResolvedResult
    <2> HIDE DEF result
    <2>2. result.candidate = Null
      BY <2>1 DEF FailedResult, Result
    <2>3. QED
      BY <2>2 DEF result
  <1>2. CASE selected.error = None
    <2>1. result.candidate = candidate
      <3>1. result = Result(query, candidate,
                            UNION {QueryWarnings(query), warnings,
                                   {Message(warningCodeFor(w), query.canonicalName)
                                      : w \in candidate.warnings}}, {})
        BY <1>2, Zenon DEF ResolvedResult
      <3> HIDE DEF candidate, result
      <3>2. QED
        BY <3>1 DEF Result
    <2>2. versions.error = None
      BY <1>2
    <2>3. selected = best
      <3>1. \A error : Failure(error).error = error
        BY DEF Failure
      <3>2. selected = selectResolverVersion(versions.value, query.gameVersion, query.loader,
                                             preference)
        BY <2>2
      <3> HIDE DEF selected, versions, best
      <3>3. \/ selected = Failure("MINECRAFT_VERSION_MISMATCH")
            \/ selected = Failure("LOADER_MISMATCH")
            \/ selected = best
        BY <3>2, Zenon DEF selectResolverVersion, best
      <3>4. QED
        BY <1>2, <3>1, <3>3 DEF None
    <2>4. /\ versions.value = answer.body
          /\ answer.body \in Seq(ToSet(answer.body))
          /\ \A version \in ToSet(answer.body) :
               {version.projectId, version.id} \subseteq ToSet(Names)
      BY <2>2, VersionsOfAnswer, AnswersAssumption
    <2>5. candidate.source = "modrinth" /\ candidate.projectId = selected.value.version.projectId
            /\ candidate.versionId = selected.value.version.id
      BY DEF normalizeModrinthVersionToCandidate
    <2> HIDE DEF candidate, selected, versions, result, best
    <2>6. PICK i \in 1..Len(versions.value) : best.value.version = versions.value[i]
      BY <1>2, <2>3, BestVersion DEF best
    <2>7. best.value.version \in ToSet(answer.body)
      BY <2>4, <2>6 DEF ToSet
    <2>8. Named(resourceCandidateIdentity(candidate))
      BY <2>3, <2>4, <2>5, <2>7, NamesAssumption DEF Named, resourceCandidateIdentity
    <2>9. QED
      BY <2>1, <2>8 DEF result
  <1>3. QED
    BY <1>1, <1>2

NamedResult(result) ==
  result.candidate # Null => Named(resourceCandidateIdentity(result.candidate))

CandidatesInv ==
  /\ Planning /\ stage # "idle" => \A i \in DOMAIN results : NamedResult(results[i])
  /\ Resolving /\ stage = "analysed" =>
       IsSequence(results) /\ \A i \in DOMAIN results : Named(IdOf(results[i]))

(* A result without a candidate has none to name.                             *)
LEMMA UnfoundNamed ==
  ASSUME NEW query, NEW warnings, NEW errors
  PROVE  NamedResult(Result(query, Null, warnings, errors))
  BY DEF NamedResult, Result

(* Taking up the next query keeps the invariant.                              *)
LEMMA NextNamed ==
  ASSUME ResultsInv, CandidatesInv, QueryStep, NEW result, NamedResult(result),
         NextQuery(result), UNCHANGED job
  PROVE  CandidatesInv'
  <1>1. Planning /\ stage = "resolving" /\ results' = Append(results, result) /\ job' = job
    BY DEF QueryStep, Networked, NextQuery
  <1>2. IsSequence(results) /\ \A i \in DOMAIN results : NamedResult(results[i])
    BY <1>1 DEF ResultsInv, CandidatesInv
  <1>3. /\ Len(results) \in Nat /\ DOMAIN results = 1..Len(results)
        /\ IsSequence(results') /\ Len(results') = Len(results) + 1
        /\ \A i \in 1..Len(results) : results'[i] = results[i]
        /\ results'[Len(results) + 1] = result
    BY <1>1, <1>2, AppendSequence, SequenceDomain
  <1>4. DOMAIN results' = 1..(Len(results) + 1)
    BY <1>3, SequenceDomain
  <1>5. ASSUME NEW i \in DOMAIN results'
        PROVE  NamedResult(results'[i])
    <2>1. i \in 1..Len(results) \/ i = Len(results) + 1
      BY <1>3, <1>4
    <2>2. QED
      BY <1>2, <1>3, <2>1
  <1>6. ~Resolving'
    BY <1>1 DEF Planning, Resolving
  <1>7. QED
    BY <1>5, <1>6 DEF CandidatesInv, NamedResult

(* So does every step of the pipeline; the matches of a metadata call are     *)
(* sorted ones of those it had (CoverInv).                                    *)
LEMMA CandidatesInvStep ==
  ASSUME ResultsInv, CoverInv, CandidatesInv, [PipelineNext]_pipelineVars
  PROVE  CandidatesInv'
  <1>1. job' = job /\ job \in Jobs
    BY StagesReached DEF CoverInv
  <1>2. CASE Planning
    <2>0. ~Resolving /\ Planning' /\ ~Resolving'
      BY <1>1, <1>2 DEF Planning, Resolving
    <2>1. CASE BuildInput
      <3>1. results' = results /\ results = <<>>
        BY <1>2, <2>1 DEF BuildInput, ResultsInv
      <3>2. QED
        BY <2>0, <3>1 DEF CandidatesInv
    <2>2. CASE InjectedResolver
      <3>1. PICK candidates \in Resolved(job.resolver) :
              results' = [i \in DOMAIN candidates |-> Result(Head(todo), candidates[i], {}, {})]
        BY <2>2 DEF InjectedResolver
      <3>2. \A candidate \in ToSet(candidates) :
              {candidate.source, candidate.projectId, candidate.versionId} \subseteq ToSet(Names)
        BY <1>1, <1>2, <2>2, <3>1, ResolvedAssumption DEF InjectedResolver, Planning
      <3>3. \A candidate \in ToSet(candidates) : Named(resourceCandidateIdentity(candidate))
        BY <3>2 DEF Named, resourceCandidateIdentity
      <3>4. \A i \in DOMAIN candidates : results'[i].candidate = candidates[i]
        BY <3>1 DEF Result
      <3>5. DOMAIN results' = DOMAIN candidates
        BY <3>1
      <3>6. \A i \in DOMAIN results' : NamedResult(results'[i])
        BY <3>3, <3>4, <3>5 DEF NamedResult, ToSet
      <3>7. QED
        BY <2>0, <3>6 DEF CandidatesInv, NamedResult
    <2>3. CASE NetworkDisabled
      <3>1. results' = [i \in DOMAIN todo |->
                          Result(todo[i], Null, {Message("NETWORK_DISABLED", None)}, {})]
        BY <2>3 DEF NetworkDisabled
      <3>2. \A i \in DOMAIN results' : NamedResult(results'[i])
        BY <3>1, UnfoundNamed
      <3>3. QED
        BY <2>0, <3>2 DEF CandidatesInv, NamedResult
    <2>4. CASE RefuseQuery
      <3>1. NamedResult(RefusedResult(Head(todo)))
        BY UnfoundNamed DEF RefusedResult
      <3>2. QED
        BY <1>1, <2>4, <3>1, NextNamed DEF RefuseQuery
    <2>5. CASE SearchAnswered
      <3>1. QueryStep /\ UNCHANGED <<job, stage, input>>
        BY <2>5 DEF SearchAnswered
      <3>2. CASE UNCHANGED <<results, todo>>
        BY <2>0, <1>2, <3>1, <3>2 DEF CandidatesInv, NamedResult
      <3>3. CASE \E warnings, error : NextQuery(FailedResult(Head(todo), warnings, error))
        BY <3>1, <3>3, UnfoundNamed, NextNamed DEF FailedResult
      <3>4. QED
        BY <2>5, <3>2, <3>3 DEF SearchAnswered
    <2>6. CASE VersionsAnswered
      <3>1. QueryStep /\ UNCHANGED <<job, stage, input>>
        BY <2>6 DEF VersionsAnswered
      <3>2. PICK answer \in Answers("versions") : \E project, warnings :
              NextQuery(ResolvedResult(Head(todo), project, warnings, answer, input.riskPreference))
        BY <2>6 DEF VersionsAnswered
      <3>3. PICK project, warnings :
              NextQuery(ResolvedResult(Head(todo), project, warnings, answer, input.riskPreference))
        BY <3>2
      <3>4. NamedResult(ResolvedResult(Head(todo), project, warnings, answer, input.riskPreference))
        BY ResolvedNamed DEF NamedResult
      <3>5. QED
        BY <3>1, <3>3, <3>4, NextNamed
    <2>7. CASE AllQueriesResolved
      BY <1>2, <2>0, <2>7 DEF AllQueriesResolved, Networked, callVars, CandidatesInv, NamedResult
    <2>8. CASE PlanResolved \/ Analyse
      BY <1>2, <2>0, <2>8 DEF PlanResolved, Analyse, callVars, CandidatesInv, NamedResult
    <2>9. CASE PlanAgain
      BY <2>0, <2>9 DEF PlanAgain, CandidatesInv
    <2>10. CASE \/ AskProviders \/ SkipProvider \/ ConsultProvider \/ ProjectAnswered
                \/ RequirementVersionsAnswered \/ ProviderResolved \/ MetadataResolved
      BY <2>0, <2>10 DEF AskProviders, SkipProvider, ConsultProvider, Consulting, ProjectAnswered,
           RequirementVersionsAnswered, RequirementStep, ProviderResolved, MetadataResolved
    <2>11. CASE UNCHANGED pipelineVars
      BY <1>2, <2>0, <2>11 DEF CandidatesInv, NamedResult, pipelineVars, callVars
    <2>12. QED
      BY <2>1, <2>2, <2>3, <2>4, <2>5, <2>6, <2>7, <2>8, <2>9, <2>10, <2>11 DEF PipelineNext
  <1>3. CASE Resolving
    <2>1. ~Planning /\ ~Planning' /\ Resolving'
      BY <1>1, <1>3 DEF Planning, Resolving
    <2>2. CASE stage' # "analysed"
      BY <2>1, <2>2 DEF CandidatesInv
    <2>3. CASE MetadataResolved
      <3>1. /\ stage = "consulting"
            /\ results' = sortAndDedupeMatches(results, job.requirements, job.allowedProviders)
        BY <2>3 DEF MetadataResolved
      <3>2. results' = Merged(results, RequirementIds, job.allowedProviders)
        BY <3>1, SortUnfolded DEF RequirementIds
      <3>3. IsSequence(job.requirements) /\ IsSequence(job.allowedProviders)
        BY <1>1, <1>3, JobsAssumption, IsSequenceOf DEF Resolving, IsSequence
      <3>4. IsSequence(RequirementIds)
        <4>1. RequirementIds = [i \in 1..Len(job.requirements) |-> RequirementIds[i]]
          BY <3>3, SequenceDomain DEF RequirementIds
        <4>2. Len(job.requirements) \in Nat
          BY <3>3, SequenceDomain
        <4> HIDE DEF RequirementIds
        <4>3. QED
          BY <4>1, <4>2, FunctionSequence
      <3>5. IsSequence(results) /\ \A i \in DOMAIN results : MatchOf(results[i], RequirementIds)
        BY <1>3, <3>1 DEF CoverInv, Matches
      <3>6. IsSequence(results') /\ ToSet(results') \subseteq ToSet(results)
        BY <3>2, <3>3, <3>4, <3>5, SortedMatches
      <3>7. \A x \in ToSet(results) : Named(IdOf(x))
        BY <3>5 DEF ToSet, MatchOf
      <3>8. \A i \in DOMAIN results' : Named(IdOf(results'[i]))
        BY <3>6, <3>7 DEF ToSet
      <3>9. QED
        BY <2>1, <3>6, <3>8 DEF CandidatesInv, IdOf
    <2>4. CASE UNCHANGED pipelineVars
      BY <1>3, <2>1, <2>4 DEF CandidatesInv, IdOf, pipelineVars, callVars
    <2>5. CASE PlanResolved \/ Analyse
      BY <2>1, <2>5 DEF PlanResolved, Analyse
    <2>6. QED
      BY <2>2, <2>3, <2>4, <2>5, StagesReached
  <1>4. CASE ~Planning /\ ~Resolving
    BY <1>1, <1>4 DEF CandidatesInv, Planning, Resolving
  <1>5. QED
    BY <1>2, <1>3, <1>4

(* The candidates of an analysis, of either kind of call.                     *)
LEMMA CandidatesAreNamed ==
  ASSUME ResultsInv, CandidatesInv, stage = "analysed"
  PROVE  IsSequence(Candidates) /\ \A c \in ToSet(Candidates) : Named(resourceCandidateIdentity(c))
  <1>1. CASE Planning
    <2>1. IsSequence(results) /\ \A i \in DOMAIN results : NamedResult(results[i])
      BY <1>1 DEF ResultsInv, CandidatesInv
    <2>2. Candidates = Resolution(results).candidates
      BY <1>1 DEF Candidates
    <2>3. /\ IsSequence(Candidates)
          /\ \A k \in DOMAIN Candidates :
               \E i \in {j \in DOMAIN results : results[j].candidate # Null} :
                 Candidates[k] = results[i].candidate
      BY <2>1, <2>2, ResolutionCandidates
    <2>4. \A k \in DOMAIN Candidates : Named(resourceCandidateIdentity(Candidates[k]))
      BY <2>1, <2>3 DEF NamedResult
    <2>5. QED
      BY <2>3, <2>4 DEF ToSet
  <1>2. CASE ~Planning
    <2>1. Resolving
      BY <1>2, JobsAssumption DEF ResultsInv, Planning, Resolving
    <2>2. IsSequence(results) /\ \A i \in DOMAIN results : Named(IdOf(results[i]))
      BY <2>1 DEF CandidatesInv
    <2>3. Candidates = [i \in DOMAIN results |-> results[i].candidate]
      BY <1>2 DEF Candidates
    <2>4. Candidates = [i \in 1..Len(results) |-> Candidates[i]] /\ Len(results) \in Nat
      BY <2>2, <2>3, SequenceDomain
    <2>5. \A i \in DOMAIN Candidates : Named(resourceCandidateIdentity(Candidates[i]))
      BY <2>2, <2>3 DEF IdOf
    <2> HIDE DEF Candidates
    <2>6. IsSequence(Candidates)
      BY <2>4, FunctionSequence
    <2>7. QED
      BY <2>5, <2>6 DEF ToSet
  <1>3. QED
    BY <1>1, <1>2

(* What an analysis of these candidates reports.                              *)
LEMMA CyclesAsNeeded ==
  ASSUME IsSequence(Candidates), ~Ambiguous,
         \A c \in ToSet(Candidates) : Named(resourceCandidateIdentity(c))
  PROVE  LET lookup == Candidates \o job.analyzerOptions.dependencyCandidates
             rings == DependencyCycles(DependencyGraph(Candidates, lookup))
             onCycle == {c \in ToSet(Candidates) : OnCycle(c)}
         IN /\ rings # {} <=> onCycle # {}
            /\ UNION {ToSet(c) : c \in rings} \subseteq {resourceCandidateIdentity(c) : c \in onCycle}
  <1> DEFINE lookup == Candidates \o job.analyzerOptions.dependencyCandidates
             graph == DependencyGraph(Candidates, lookup)
             rings == DependencyCycles(graph)
             N == ToSet(Candidates)
             id == [c \in N |-> resourceCandidateIdentity(c)]
             R == {p \in N \X N : Needs(p[1], p[2])}
  <1>1. \A c, d \in N : resourceCandidateIdentity(c) = resourceCandidateIdentity(d) => c = d
    BY DEF Ambiguous
  <1>2. \A c, d \in N : resourceCandidateIdentity(d) \in graph[resourceCandidateIdentity(c)]
                          <=> Needs(c, d)
    <2>1. ASSUME NEW c \in N, NEW d \in N
          PROVE  resourceCandidateIdentity(d) \in graph[resourceCandidateIdentity(c)]
                   <=> NeedsOf(c, d, lookup)
      BY <1>1, GraphNeeds
    <2>2. \A c, d : Needs(c, d) <=> NeedsOf(c, d, lookup)
      BY DEF Needs, NeedsOf
    <2>3. QED
      BY <2>1, <2>2
  <1>3. Searchable(graph)
    <2>1. \A i \in DOMAIN Candidates : Named(resourceCandidateIdentity(Candidates[i]))
      BY DEF ToSet
    <2>2. QED
      BY <2>1, GraphSearchable
  <1>4. DOMAIN graph = {id[c] : c \in N}
    BY DEF DependencyGraph, Identities, ToSet
  <1>5. \A c, d \in N : <<c, d>> \in R <=> Needs(c, d)
    OBVIOUS
  <1>6. \A c \in N : OnCycle(c) <=> BackTo(N, R, c)
    <2>1. \A S \in SUBSET N : ClosedUnderNeeds(S) <=> ClosedUnder(N, R, S)
      BY <1>5 DEF ClosedUnderNeeds, ClosedUnder
    <2> HIDE DEF R
    <2>2. QED
      BY <1>5, <2>1 DEF OnCycle, Reach, BackTo
  <1>7. \A c \in N : Around(graph, id[c]) <=> BackTo(N, R, c)
    <2>1. \A c, d \in N : id[c] = id[d] => c = d
      BY <1>1
    <2>2. \A c, d \in N : id[d] \in graph[id[c]] <=> <<c, d>> \in R
      BY <1>2, <1>5
    <2> HIDE DEF graph, id, R, N
    <2>3. Mirrors(graph, id, N, R)
      BY <1>4, <2>1, <2>2 DEF Mirrors
    <2>4. QED
      BY <2>3, SameCycles
  <1>8. \A c \in N : id[c] = resourceCandidateIdentity(c)
    OBVIOUS
  <1> HIDE DEF graph, id, R, N
  <1>9. /\ rings \subseteq Seq(DOMAIN graph)
        /\ \A c \in rings : c # <<>> /\ \A x \in ToSet(c) : Around(graph, x)
        /\ rings = {} => \A x \in DOMAIN graph : ~Around(graph, x)
    BY <1>3, CyclesFound
  <1> HIDE DEF rings
  <1>10. ASSUME NEW c \in rings
         PROVE  /\ ToSet(c) # {}
                /\ \A x \in ToSet(c) : \E d \in N : x = id[d] /\ OnCycle(d)
    <2>1. c \in Seq(DOMAIN graph) /\ c # <<>>
      BY <1>9
    <2>2. ToSet(c) # {} /\ ToSet(c) \subseteq DOMAIN graph
      BY <2>1 DEF ToSet
    <2>3. QED
      BY <1>4, <1>6, <1>7, <1>9, <2>2
  <1>11. rings = {} => \A d \in N : ~OnCycle(d)
    BY <1>4, <1>6, <1>7, <1>9
  <1>12. /\ rings # {} <=> {c \in N : OnCycle(c)} # {}
         /\ UNION {ToSet(c) : c \in rings}
              \subseteq {resourceCandidateIdentity(c) : c \in {d \in N : OnCycle(d)}}
    BY <1>8, <1>10, <1>11
  <1>13. QED
    BY <1>12 DEF rings, graph, N

(* The candidates of every analysis have names in use.                        *)
THEOREM CandidatesInvariant == Spec => []CandidatesInv
  <1>1. ReviewInit => CandidatesInv
    BY DEF ReviewInit, Init, CandidatesInv
  <1>2. ResultsInv /\ CoverInv /\ CandidatesInv /\ [Next]_vars => CandidatesInv'
    BY PipelineStep, CandidatesInvStep
  <1>3. QED
    BY <1>1, <1>2, PlanInvariant, CoverInvariant, PTL DEF Spec

(* A cycle of required dependencies is reported exactly when there is one,    *)
(* and only what is on a cycle is named, for any candidates that differ in    *)
(* their identities (analyzeDependencyCycles).                                *)
THEOREM CyclesAreReported == Spec => []CyclesReported
  <1>1. AnalysisInv /\ ResultsInv /\ CandidatesInv => CyclesReported
    <2> SUFFICES ASSUME AnalysisInv, ResultsInv, CandidatesInv, Analysed, ~Ambiguous
                 PROVE  LET reported == {i \in analysis.issues : i.code = "DEPENDENCY_CYCLE"}
                            onCycle == {c \in ToSet(Candidates) : OnCycle(c)}
                        IN /\ reported # {} <=> onCycle # {}
                           /\ UNION {i.related : i \in reported}
                                \subseteq {resourceCandidateIdentity(c) : c \in onCycle}
      BY DEF CyclesReported
    <2>1. analysis = analyzeCompatibility(Candidates, Target, job.analyzerOptions)
      BY DEF AnalysisInv, Analysed
    <2>2. IsSequence(Candidates) /\ \A c \in ToSet(Candidates) : Named(resourceCandidateIdentity(c))
      BY CandidatesAreNamed DEF Analysed
    <2>3. QED
      BY <2>1, <2>2, CycleIssues, CyclesAsNeeded
  <1>2. QED
    BY <1>1, AnalysisInvariant, PlanInvariant, CandidatesInvariant, PTL
===============================================================================
