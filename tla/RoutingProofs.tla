--------------------------- MODULE RoutingProofs ---------------------------
(***************************************************************************)
(* What holds of the way from a log to the pools, for any pools, tokens,   *)
(* configurations and number of logs: the search for the whitelist is      *)
(* right, the pairs that are followed are those it should find, and each   *)
(* log takes effect once and in its own pool.                              *)
(***************************************************************************)
EXTENDS Routing, SequenceLemmas, FiniteSetTheorems

-----------------------------------------------------------------------------
(* The graph of the pools that are followed *)

Graph == [adjacency : [Tokens -> Seq(Edge)], pools : SUBSET Pools, assets : [Pools -> Seq(Tokens)]]

(* the tokens that a pool joins to t *)
Near(t, pools) == {u \in Tokens \ {t} : \E p \in pools : {t, u} \subseteq ToSet(TokensOf[p])}

Neighbours(g, t) == {e.token : e \in ToSet(g.adjacency[t])}

GraphInv(g) ==
    /\ g \in Graph
    /\ \A t \in Tokens : Neighbours(g, t) = Near(t, g.pools)

Ends(p) == <<TokensOf[p][1], TokensOf[p][2]>>

(* a pool has two tokens *)
LEMMA EndsTyped ==
    ASSUME NEW p \in Pools
    PROVE  /\ TokensOf[p][1] \in Tokens /\ TokensOf[p][2] \in Tokens
           /\ ToSet(TokensOf[p]) = {TokensOf[p][1], TokensOf[p][2]}
           /\ Ends(p) \in Seq(Tokens) /\ Len(Ends(p)) = 2
           /\ ToSet(Ends(p)) = ToSet(TokensOf[p]) /\ ToSet(TokensOf[p]) \subseteq Tokens
<1>1. PICK x \in Tokens, y \in Tokens : TokensOf[p] = <<x, y>>
  BY RoutingAssumption
<1>2. <<x, y>> \in Seq(Tokens) /\ Len(<<x, y>>) = 2 /\ ToSet(<<x, y>>) = {x, y}
  BY DEF ToSet
<1>3. <<x, y>>[1] = x /\ <<x, y>>[2] = y
  OBVIOUS
<1> QED BY <1>1, <1>2, <1>3 DEF Ends

(* the edges that add_pool gives a token lead to the pool's other token *)
LEMMA EdgesLead ==
    ASSUME NEW p \in Pools, NEW t \in Tokens
    PROVE  /\ EdgesFrom(t, p, Ends(p)) \in Seq(Edge)
           /\ {e.token : e \in ToSet(EdgesFrom(t, p, Ends(p)))} = ToSet(TokensOf[p]) \ {t}
<1> DEFINE others == Select(Ends(p), Tokens \ {t})
           m == Len(others)
           s == EdgesFrom(t, p, Ends(p))
<1>1. others \in Seq(Tokens \cap (Tokens \ {t})) /\ ToSet(others) = ToSet(TokensOf[p]) \ {t}
  <2>1. Ends(p) \in Seq(Tokens) /\ ToSet(Ends(p)) = ToSet(TokensOf[p]) /\ ToSet(TokensOf[p]) \subseteq Tokens
    BY EndsTyped
  <2>2. Select(Ends(p), Tokens \ {t}) \in Seq(Tokens \cap (Tokens \ {t}))
    BY <2>1, SelectType
  <2>3. ToSet(Select(Ends(p), Tokens \ {t})) = ToSet(Ends(p)) \cap (Tokens \ {t})
    BY <2>1, SelectMembers
  <2> QED BY <2>1, <2>2, <2>3
<1>2. s = [i \in DOMAIN others |-> [token |-> others[i], pool |-> p]]
  BY DEF EdgesFrom
<1> HIDE DEF others
<1>3. m \in Nat /\ DOMAIN others = 1..m /\ \A i \in 1..m : others[i] \in Tokens
  BY <1>1
<1> HIDE DEF s
<1>4. s \in [1..m -> Edge] /\ DOMAIN s = 1..m /\ \A i \in 1..m : s[i].token = others[i]
  BY <1>2, <1>3 DEF Edge
<1>5. s \in Seq(Edge)
  BY <1>3, <1>4
<1>6. {e.token : e \in ToSet(s)} = ToSet(others)
  BY <1>3, <1>4 DEF ToSet
<1> QED BY <1>1, <1>5, <1>6 DEF s

(* what a concatenation contains *)
LEMMA ToSetConcat ==
    ASSUME NEW S, NEW s \in Seq(S), NEW t \in Seq(S)
    PROVE  ToSet(s \o t) = ToSet(s) \cup ToSet(t)
<1> DEFINE u == s \o t
           m == Len(s)
           n == Len(t)
<1>1. /\ m \in Nat /\ n \in Nat /\ DOMAIN s = 1..m /\ DOMAIN t = 1..n /\ DOMAIN u = 1..(m + n)
      /\ \A i \in 1..m : u[i] = s[i]
      /\ \A i \in 1..n : u[m + i] = t[i]
  OBVIOUS
<1> HIDE DEF u, m, n
<1>2. \A i \in 1..(m + n) : i \in 1..m \/ (i - m \in 1..n /\ i = m + (i - m))
  BY <1>1
<1>3. \A i \in 1..m : i \in 1..(m + n)
  BY <1>1
<1>4. \A i \in 1..n : m + i \in 1..(m + n)
  BY <1>1
<1>5. ToSet(u) \subseteq ToSet(s) \cup ToSet(t)
  <2> SUFFICES ASSUME NEW i \in 1..(m + n) PROVE u[i] \in ToSet(s) \cup ToSet(t)
    BY <1>1 DEF ToSet
  <2>1. CASE i \in 1..m
    BY <1>1, <2>1 DEF ToSet
  <2>2. CASE i - m \in 1..n /\ i = m + (i - m)
    BY <1>1, <2>2 DEF ToSet
  <2> QED BY <1>2, <2>1, <2>2
<1>6. ToSet(s) \subseteq ToSet(u) /\ ToSet(t) \subseteq ToSet(u)
  BY <1>1, <1>3, <1>4 DEF ToSet
<1> QED BY <1>5, <1>6 DEF u

(* the empty graph joins nothing *)
LEMMA NoGraph == GraphInv(EmptyGraph) /\ EmptyGraph.pools = {}
<1>1. <<>> \in Seq(Edge) /\ <<>> \in Seq(Tokens) /\ ToSet(<<>>) = {}
  BY DEF ToSet
<1> QED BY <1>1 DEF GraphInv, Graph, EmptyGraph, Neighbours, Near

(* add_pool joins the two tokens of the pool and no others *)
LEMMA AddedPool ==
    ASSUME NEW g, GraphInv(g), NEW p \in Pools
    PROVE  GraphInv(AddPool(g, p, Ends(p))) /\ AddPool(g, p, Ends(p)).pools = g.pools \cup {p}
<1> DEFINE h == AddPool(g, p, Ends(p))
<1>1. /\ h.adjacency = [t \in Tokens |-> IF t \in ToSet(TokensOf[p])
                            THEN g.adjacency[t] \o EdgesFrom(t, p, Ends(p))
                            ELSE g.adjacency[t]]
      /\ h.pools = g.pools \cup {p}
      /\ h.assets = [g.assets EXCEPT ![p] = Ends(p)]
      /\ h = [adjacency |-> h.adjacency, pools |-> h.pools, assets |-> h.assets]
  <2>1. Len(Ends(p)) = 2 /\ ToSet(Ends(p)) = ToSet(TokensOf[p]) /\ ~ (2 < 2)
    BY EndsTyped
  <2>2. AddPool(g, p, Ends(p)) =
            [adjacency |-> [t \in Tokens |-> IF t \in ToSet(TokensOf[p])
                                THEN g.adjacency[t] \o EdgesFrom(t, p, Ends(p))
                                ELSE g.adjacency[t]],
             pools     |-> g.pools \cup {p},
             assets    |-> [g.assets EXCEPT ![p] = Ends(p)]]
    BY <2>1 DEF AddPool
  <2> QED BY <2>2
<1> HIDE DEF h
<1>2. g \in Graph /\ \A t \in Tokens : g.adjacency[t] \in Seq(Edge)
  BY DEF GraphInv, Graph
<1>3. ASSUME NEW t \in Tokens
      PROVE  h.adjacency[t] \in Seq(Edge) /\ Neighbours(h, t) = Near(t, h.pools)
  <2> DEFINE s == g.adjacency[t]
             n == EdgesFrom(t, p, Ends(p))
  <2>1. s \in Seq(Edge) /\ n \in Seq(Edge) /\ {e.token : e \in ToSet(n)} = ToSet(TokensOf[p]) \ {t}
    BY <1>2, EdgesLead
  <2>2. Neighbours(g, t) = Near(t, g.pools) /\ Neighbours(g, t) = {e.token : e \in ToSet(s)}
    BY DEF GraphInv, Neighbours
  <2>3. Near(t, h.pools) = Near(t, g.pools) \cup (IF t \in ToSet(TokensOf[p])
                                                  THEN ToSet(TokensOf[p]) \ {t} ELSE {})
    <3>1. ToSet(TokensOf[p]) \subseteq Tokens
      BY EndsTyped
    <3> QED BY <1>1, <3>1 DEF Near
  <2>4. CASE t \notin ToSet(TokensOf[p])
    <3>1. h.adjacency[t] = s
      BY <1>1, <2>4
    <3> QED BY <2>1, <2>2, <2>3, <2>4, <3>1 DEF Neighbours
  <2>5. CASE t \in ToSet(TokensOf[p])
    <3>1. h.adjacency[t] = s \o n
      BY <1>1, <2>5
    <3> HIDE DEF s, n
    <3>2. s \o n \in Seq(Edge) /\ ToSet(s \o n) = ToSet(s) \cup ToSet(n)
      BY <2>1, ToSetConcat
    <3>3. {e.token : e \in ToSet(s) \cup ToSet(n)}
              = {e.token : e \in ToSet(s)} \cup {e.token : e \in ToSet(n)}
      OBVIOUS
    <3> QED BY <2>1, <2>2, <2>3, <2>5, <3>1, <3>2, <3>3 DEF Neighbours
  <2> QED BY <2>4, <2>5
<1>4. h \in Graph
  <2>1. h.adjacency \in [Tokens -> Seq(Edge)]
    BY <1>1, <1>3
  <2>2. h.pools \in SUBSET Pools /\ h.assets \in [Pools -> Seq(Tokens)]
    <3>1. g.pools \in SUBSET Pools /\ g.assets \in [Pools -> Seq(Tokens)]
      BY <1>2 DEF Graph
    <3> QED BY <1>1, <3>1, EndsTyped
  <2> QED BY <1>1, <2>1, <2>2 DEF Graph
<1> QED BY <1>1, <1>3, <1>4 DEF GraphInv, h

-----------------------------------------------------------------------------
(* is_connected_to_whitelist *)

Search == [visited : SUBSET Tokens, queue : Seq(Tokens), found : BOOLEAN]

(* no edge leads out of the set *)
Shut(S, g) == \A t \in S : Neighbours(g, t) \subseteq S

(* The search has marked nothing that a way from the start does not lead to. *)
Sound(s, g, start, W) ==
    /\ s \in Search /\ start \in s.visited /\ ToSet(s.queue) \subseteq s.visited
    /\ \A S \in SUBSET Tokens : start \in S /\ Shut(S, g) =>
          s.visited \subseteq S /\ (s.found => S \cap W # {})
    /\ ~s.found => s.visited \cap W = {}

(* Until it finds a token of the whitelist it leaves no neighbour of a token *)
(* behind, but those of the tokens in the queue and in rest.                 *)
Complete(s, g, rest) ==
    ~s.found => \A u \in s.visited \ (ToSet(s.queue) \cup rest) : Neighbours(g, u) \subseteq s.visited

(* k tokens have been taken from the queue, each of them once *)
Counted(s, k) == ~s.found => Cardinality(s.visited) = k + Len(s.queue)

(* the search while the edges of head are followed *)
Following(s, g, start, W, head, k) ==
    /\ Sound(s, g, start, W) /\ Complete(s, g, {head}) /\ Counted(s, k)
    /\ head \in s.visited

(* a search stays one *)
LEMMA FollowTyped ==
    ASSUME NEW s \in Search, NEW e \in Edge, NEW W
    PROVE  Follow(s, e, W) \in Search
<1>1. e.token \in Tokens /\ s.visited \cup {e.token} \in SUBSET Tokens /\ Append(s.queue, e.token) \in Seq(Tokens)
  BY DEF Edge, Search
<1> QED BY <1>1 DEF Follow, Search

(* Follow marks the token that an edge of head leads to, or has found one of *)
(* the whitelist.                                                            *)
LEMMA FollowStep ==
    ASSUME NEW g, NEW start, NEW W, NEW head \in Tokens, NEW k \in Nat, NEW s,
           Following(s, g, start, W, head, k),
           NEW e \in Edge, e.token \in Neighbours(g, head)
    PROVE  /\ Following(Follow(s, e, W), g, start, W, head, k)
           /\ ~Follow(s, e, W).found => /\ ~s.found /\ s.visited \subseteq Follow(s, e, W).visited
                                        /\ e.token \in Follow(s, e, W).visited
<1> DEFINE x == e.token
           r == Follow(s, e, W)
<1>1. /\ x \in Tokens /\ s \in Search /\ s.visited \in SUBSET Tokens /\ s.queue \in Seq(Tokens)
      /\ s.found \in BOOLEAN
  BY DEF Edge, Search, Following, Sound
<1>2. CASE s.found \/ x \in s.visited
  BY <1>2 DEF Follow
<1>3. CASE ~s.found /\ x \notin s.visited /\ x \in W
  <2>1. /\ r.found = TRUE /\ r.visited = s.visited /\ r.queue = s.queue /\ r \in Search
    BY <1>1, <1>3 DEF Follow, Search
  <2> HIDE DEF r, x
  <2>2. ASSUME NEW S \in SUBSET Tokens, start \in S, Shut(S, g) PROVE S \cap W # {}
    <3>1. head \in S
      BY <2>2 DEF Following, Sound
    <3>2. x \in S
      BY <2>2, <3>1 DEF Shut, x
    <3> QED BY <1>3, <3>2
  <2>3. Sound(r, g, start, W)
    BY <2>1, <2>2 DEF Following, Sound
  <2> QED BY <2>1, <2>3 DEF Following, Complete, Counted, r
<1>4. CASE ~s.found /\ x \notin s.visited /\ x \notin W
  <2>1. /\ r.found = FALSE /\ r.visited = s.visited \cup {x} /\ r.queue = Append(s.queue, x)
        /\ r \in Search /\ s.found = FALSE
    <3>1. r \in Search
      BY <1>1, FollowTyped
    <3>2. r = [s EXCEPT !.visited = @ \cup {x}, !.queue = Append(@, x)]
      BY <1>4 DEF Follow
    <3>3. s = [visited |-> s.visited, queue |-> s.queue, found |-> s.found]
      BY <1>1 DEF Search
    <3> HIDE DEF r, x
    <3>4. r = [visited |-> s.visited \cup {x}, queue |-> Append(s.queue, x), found |-> s.found]
      BY <3>2, <3>3
    <3> QED BY <1>1, <1>4, <3>1, <3>4
  <2>2. x \in Neighbours(g, head)
    OBVIOUS
  <2> HIDE DEF r, x
  <2>3. ToSet(r.queue) = ToSet(s.queue) \cup {x} /\ Len(r.queue) = Len(s.queue) + 1 /\ Len(s.queue) \in Nat
    BY <1>1, <2>1, ToSetAppend
  <2>4. ASSUME NEW S \in SUBSET Tokens, start \in S, Shut(S, g) PROVE r.visited \subseteq S
    <3>1. s.visited \subseteq S /\ head \in S
      BY <2>4 DEF Following, Sound
    <3>2. x \in S
      BY <2>2, <2>4, <3>1 DEF Shut
    <3> QED BY <2>1, <3>1, <3>2
  <2>5. Sound(r, g, start, W)
    <3>1. start \in r.visited /\ ToSet(r.queue) \subseteq r.visited /\ r.visited \cap W = {}
      BY <1>4, <2>1, <2>3 DEF Following, Sound
    <3> QED BY <2>1, <2>4, <3>1 DEF Sound
  <2>6. Complete(r, g, {head})
    <3> SUFFICES ASSUME NEW u \in r.visited \ (ToSet(r.queue) \cup {head})
                 PROVE  Neighbours(g, u) \subseteq r.visited
      BY DEF Complete
    <3>1. u \in s.visited \ (ToSet(s.queue) \cup {head})
      BY <2>1, <2>3
    <3> QED BY <2>1, <3>1 DEF Following, Complete
  <2>7. Counted(r, k)
    <3>1. IsFiniteSet(s.visited)
      BY <1>1, RoutingAssumption, FS_Subset
    <3>2. Cardinality(r.visited) = Cardinality(s.visited) + 1
      BY <1>4, <2>1, <3>1, FS_AddElement
    <3>3. Cardinality(s.visited) = k + Len(s.queue)
      BY <2>1 DEF Following, Counted
    <3> QED BY <2>1, <2>3, <3>2, <3>3 DEF Counted
  <2>8. head \in r.visited
    BY <2>1 DEF Following
  <2>9. Following(r, g, start, W, head, k)
    BY <2>5, <2>6, <2>7, <2>8 DEF Following
  <2> QED BY <2>1, <2>9 DEF r, x
<1> QED BY <1>2, <1>3, <1>4

(* f is the recursion by which Pop follows the edges of the queue's head *)
FollowedBy(f, g, s, W) ==
    LET edges == g.adjacency[Head(s.queue)] IN
    /\ f \in [0..Len(edges) -> Search]
    /\ f[0] = [s EXCEPT !.queue = Tail(@)]
    /\ \A n \in 1..Len(edges) : f[n] = Follow(f[n - 1], edges[n], W)
    /\ Pop(g, s, W) = f[Len(edges)]

(* that recursion exists *)
LEMMA PopRecursion ==
    ASSUME NEW g \in Graph, NEW s \in Search, NEW W, ~s.found, s.queue # <<>>
    PROVE  \E f : FollowedBy(f, g, s, W)
<1> DEFINE edges == g.adjacency[Head(s.queue)]
           m == Len(edges)
           c == [s EXCEPT !.queue = Tail(@)]
           Next1(n, x) == Follow(x, edges[n], W)
           Is(f) == f = [n \in 0..m |-> IF n = 0 THEN c ELSE Next1(n, f[n - 1])]
           k == [n \in 1..m |-> [x \in Search |-> Next1(n, x)]]
<1>1. Head(s.queue) \in Tokens /\ Tail(s.queue) \in Seq(Tokens)
  BY DEF Search
<1>2. m \in Nat /\ \A n \in 1..m : edges[n] \in Edge
  <2>1. edges \in Seq(Edge)
    BY <1>1 DEF Graph
  <2> HIDE DEF edges
  <2> QED BY <2>1
<1>3. c \in Search
  BY <1>1 DEF Search
<1>4. Pop(g, s, W) = (CHOOSE f : Is(f))[m]
  BY DEF Pop
<1> HIDE DEF edges, c, m
<1>5. \A n \in 1..m : n \in 0..m /\ n - 1 \in 0..m /\ n # 0
  BY <1>2
<1>6. 0 \in 0..m /\ m \in 0..m /\ \A n \in 0..m : n = 0 \/ n \in 1..m
  BY <1>2
<1>7. \A n \in 1..m : \A x \in Search : Next1(n, x) \in Search
  BY <1>2, FollowTyped
<1> HIDE DEF Next1
<1>8. PICK f \in [0..m -> Search] : f[0] = c /\ \A n \in 1..m : f[n] = k[n][f[n - 1]]
  <2>1. k \in [1..m -> [Search -> Search]]
    BY <1>7
  <2>2. IsRecursion(Search, c, m, k)
    BY <1>2, <1>3, <2>1 DEF IsRecursion
  <2> HIDE DEF k
  <2>3. HasValue(Search, c, m, k)
    BY <2>2, Recursion
  <2> QED BY <2>3 DEF HasValue
<1>9. \A n \in 1..m : f[n] = Next1(n, f[n - 1])
  BY <1>5, <1>8
<1>10. Is(f)
  <2> HIDE DEF k
  <2> QED BY <1>5, <1>6, <1>8, <1>9
<1>11. Is(CHOOSE e : Is(e))
  <2> HIDE DEF Is
  <2> QED BY <1>10
<1> DEFINE h == CHOOSE e : Is(e)
<1>12. Pop(g, s, W) = h[m]
  BY <1>4
<1> HIDE DEF h
<1>13. h[0] = c /\ \A n \in 1..m : h[n] = Next1(n, h[n - 1])
  <2>1. Is(h)
    BY <1>11 DEF h
  <2> QED BY <1>5, <1>6, <2>1
<1>14. h \in [0..m -> Search]
  <2> DEFINE P == {n \in 0..m : h[n] \in Search}
  <2>1. 0 \in P
    BY <1>3, <1>6, <1>13
  <2>2. ASSUME NEW n \in 1..m, n - 1 \in P PROVE n \in P
    BY <1>5, <1>7, <1>13, <2>2
  <2>3. 0..m \subseteq P
    <3> HIDE DEF P
    <3> QED BY <1>2, <2>1, <2>2, BoundedInduction
  <2>4. PICK u : h = [n \in 0..m |-> u[n]]
    <3>1. Is(h)
      BY <1>11 DEF h
    <3>2. h = [n \in 0..m |-> h[n]]
      BY <3>1
    <3> QED BY <3>2
  <2> QED BY <2>3, <2>4
<1>15. FollowedBy(h, g, s, W)
  BY <1>12, <1>13, <1>14 DEF FollowedBy, Next1, m, edges, c
<1> QED BY <1>15

(* what holds between two tokens taken from the queue *)
Between(s, g, start, W, n) ==
    /\ Sound(s, g, start, W) /\ Complete(s, g, {})
    /\ s.queue = <<>> \/ Counted(s, n)

(* Pop takes one token from the queue and follows every edge of it. *)
LEMMA PopStep ==
    ASSUME NEW g \in Graph, NEW start, NEW W, NEW n \in Nat,
           NEW s, Between(s, g, start, W, n)
    PROVE  Between(Pop(g, s, W), g, start, W, n + 1)
<1>1. CASE s.found \/ s.queue = <<>>
  <2>1. Pop(g, s, W) = s
    BY <1>1 DEF Pop
  <2> QED BY <1>1, <2>1 DEF Between, Counted
<1>2. CASE ~s.found /\ s.queue # <<>>
  <2> DEFINE head == Head(s.queue)
             edges == g.adjacency[head]
             m == Len(edges)
             c == [s EXCEPT !.queue = Tail(@)]
  <2>1. /\ s \in Search /\ s.visited \in SUBSET Tokens /\ s.queue \in Seq(Tokens) /\ s.found = FALSE
    BY <1>2 DEF Between, Sound, Search
  <2>2. PICK f : FollowedBy(f, g, s, W)
    BY <1>2, <2>1, PopRecursion
  <2>3. /\ f \in [0..m -> Search] /\ f[0] = c /\ Pop(g, s, W) = f[m]
        /\ \A i \in 1..m : f[i] = Follow(f[i - 1], edges[i], W)
    BY <2>2 DEF FollowedBy
  <2>4. /\ head \in Tokens /\ Tail(s.queue) \in Seq(Tokens)
        /\ ToSet(s.queue) = {head} \cup ToSet(Tail(s.queue)) /\ Len(s.queue) = Len(Tail(s.queue)) + 1
        /\ Len(Tail(s.queue)) \in Nat
    <3>1. /\ head \in Tokens /\ Tail(s.queue) \in Seq(Tokens) /\ Len(s.queue) = Len(Tail(s.queue)) + 1
          /\ s.queue = <<head>> \o Tail(s.queue) /\ <<head>> \in Seq(Tokens)
      BY <1>2, <2>1
    <3>2. ToSet(<<head>>) = {head}
      BY DEF ToSet
    <3> DEFINE t == Tail(s.queue)
               u == <<head>>
    <3>3. t \in Seq(Tokens) /\ u \in Seq(Tokens) /\ s.queue = u \o t
      BY <3>1
    <3> HIDE DEF t, u
    <3>4. ToSet(u \o t) = ToSet(u) \cup ToSet(t)
      BY <3>3, ToSetConcat
    <3>5. ToSet(s.queue) = ToSet(u) \cup ToSet(t)
      BY <3>3, <3>4
    <3> QED BY <3>1, <3>2, <3>5 DEF t, u
  <2> HIDE DEF head
  <2>5. Following(c, g, start, W, head, n + 1)
    <3>1. c.visited = s.visited /\ c.found = s.found /\ c.queue = Tail(s.queue) /\ c \in Search
      BY <2>1, <2>4 DEF Search
    <3> HIDE DEF c
    <3>2. Sound(c, g, start, W)
      BY <2>4, <3>1 DEF Between, Sound
    <3>3. Complete(c, g, {head})
      BY <2>1, <2>4, <3>1 DEF Between, Complete
    <3>4. Counted(c, n + 1)
      BY <1>2, <2>1, <2>4, <3>1 DEF Between, Counted
    <3>5. head \in c.visited
      BY <2>4, <3>1 DEF Between, Sound
    <3> QED BY <3>2, <3>3, <3>4, <3>5 DEF Following
  <2>6. m \in Nat /\ DOMAIN edges = 1..m /\ \A i \in 1..m : edges[i] \in Edge /\ edges[i].token \in Neighbours(g, head)
    <3>1. edges \in Seq(Edge)
      BY <2>4 DEF Graph
    <3>2. Neighbours(g, head) = {e.token : e \in ToSet(edges)}
      BY DEF Neighbours
    <3> HIDE DEF edges
    <3>3. DOMAIN edges = 1..m /\ m \in Nat /\ \A i \in 1..m : edges[i] \in Edge /\ edges[i] \in ToSet(edges)
      BY <3>1 DEF ToSet
    <3> QED BY <3>2, <3>3
  <2> HIDE DEF edges, m, c
  <2> DEFINE Reached(r, i) == ~r.found => \A j \in 1..i : edges[j].token \in r.visited
             P == {i \in 0..m : Following(f[i], g, start, W, head, n + 1) /\ Reached(f[i], i)}
  <2>7. 0 \in P
    BY <2>3, <2>5, <2>6
  <2>8. ASSUME NEW i \in 1..m, i - 1 \in P PROVE i \in P
    <3> DEFINE a == f[i - 1]
               b == f[i]
    <3>1. b = Follow(a, edges[i], W) /\ Following(a, g, start, W, head, n + 1) /\ Reached(a, i - 1)
      BY <2>3, <2>8
    <3>2. edges[i] \in Edge /\ edges[i].token \in Neighbours(g, head) /\ n + 1 \in Nat
      BY <2>6
    <3> HIDE DEF a, b, Reached
    <3>3. /\ Following(b, g, start, W, head, n + 1)
          /\ ~b.found => ~a.found /\ a.visited \subseteq b.visited /\ edges[i].token \in b.visited
      BY <2>4, <3>1, <3>2, FollowStep
    <3>4. Reached(b, i)
      <4> SUFFICES ASSUME ~b.found, NEW j \in 1..i PROVE edges[j].token \in b.visited
        BY DEF Reached
      <4>1. j = i \/ j \in 1..(i - 1)
        OBVIOUS
      <4> QED BY <3>1, <3>3, <4>1 DEF Reached
    <3>5. i \in 0..m
      BY <2>6
    <3> QED BY <3>3, <3>4, <3>5 DEF b, Reached
  <2>9. m \in P
    <3>1. 0..m \subseteq P
      <4> HIDE DEF P
      <4> QED BY <2>6, <2>7, <2>8, BoundedInduction
    <3> QED BY <2>6, <3>1
  <2> DEFINE r == f[m]
  <2>10. Following(r, g, start, W, head, n + 1) /\ Reached(r, m)
    BY <2>9
  <2>11. Pop(g, s, W) = r
    BY <2>3
  <2> HIDE DEF r
  <2>12. Complete(r, g, {})
    <3>1. ~r.found => Neighbours(g, head) \subseteq r.visited
      <4>1. Neighbours(g, head) = {e.token : e \in ToSet(edges)}
        BY DEF Neighbours, edges
      <4>2. Neighbours(g, head) = {edges[i].token : i \in 1..m}
        BY <2>6, <4>1 DEF ToSet
      <4> QED BY <2>10, <4>2
    <3> QED BY <2>10, <3>1 DEF Following, Complete
  <2> QED BY <2>10, <2>11, <2>12 DEF Between, Following
<1> QED BY <1>1, <1>2

(* Pop makes a search of a search *)
LEMMA PopTyped ==
    ASSUME NEW g \in Graph, NEW s \in Search, NEW W
    PROVE  Pop(g, s, W) \in Search
<1>1. CASE s.found \/ s.queue = <<>>
  BY <1>1 DEF Pop
<1>2. CASE ~s.found /\ s.queue # <<>>
  <2>1. PICK f : FollowedBy(f, g, s, W)
    BY <1>2, PopRecursion
  <2> DEFINE m == Len(g.adjacency[Head(s.queue)])
  <2>2. f \in [0..m -> Search] /\ Pop(g, s, W) = f[m]
    BY <2>1 DEF FollowedBy
  <2>3. m \in 0..m
    <3>1. Head(s.queue) \in Tokens
      BY <1>2 DEF Search
    <3>2. g.adjacency[Head(s.queue)] \in Seq(Edge)
      BY <3>1 DEF Graph
    <3>3. m \in Nat
      BY <3>2
    <3> HIDE DEF m
    <3> QED BY <3>3
  <2> HIDE DEF m
  <2> QED BY <2>2, <2>3
<1> QED BY <1>1, <1>2

(* where the search begins *)
FirstSearch(start, W) == [visited |-> {start}, queue |-> <<start>>, found |-> start \in W]

(* f is the recursion of the search, pop after pop *)
RunBy(f, g, start, W) ==
    /\ f \in [0..Cardinality(Tokens) -> Search]
    /\ f[0] = FirstSearch(start, W)
    /\ \A n \in 1..Cardinality(Tokens) : f[n] = Pop(g, f[n - 1], W)
    /\ IsConnectedToWhitelist(g, start, W) = f[Cardinality(Tokens)].found

(* that recursion exists *)
LEMMA SearchRecursion ==
    ASSUME NEW g \in Graph, NEW start \in Tokens, NEW W
    PROVE  \E f : RunBy(f, g, start, W)
<1> DEFINE m == Cardinality(Tokens)
           c == FirstSearch(start, W)
           Next1(x) == Pop(g, x, W)
           Is(f) == f = [n \in 0..m |-> IF n = 0 THEN c ELSE Next1(f[n - 1])]
           k == [n \in 1..m |-> [x \in Search |-> Next1(x)]]
<1>1. m \in Nat
  BY RoutingAssumption, FS_CardinalityType
<1>2. c \in Search
  BY DEF Search, FirstSearch
<1>3. IsConnectedToWhitelist(g, start, W) = (CHOOSE f : Is(f))[m].found
  BY DEF IsConnectedToWhitelist, Searches, FirstSearch
<1> HIDE DEF c, m
<1>5. \A n \in 1..m : n \in 0..m /\ n - 1 \in 0..m /\ n # 0
  BY <1>1
<1>6. 0 \in 0..m /\ m \in 0..m /\ \A n \in 0..m : n = 0 \/ n \in 1..m
  BY <1>1
<1>7. \A x \in Search : Next1(x) \in Search
  BY PopTyped
<1> HIDE DEF Next1
<1>8. PICK f \in [0..m -> Search] : f[0] = c /\ \A n \in 1..m : f[n] = k[n][f[n - 1]]
  <2>1. k \in [1..m -> [Search -> Search]]
    BY <1>7
  <2>2. IsRecursion(Search, c, m, k)
    BY <1>1, <1>2, <2>1 DEF IsRecursion
  <2> HIDE DEF k
  <2>3. HasValue(Search, c, m, k)
    BY <2>2, Recursion
  <2> QED BY <2>3 DEF HasValue
<1>9. \A n \in 1..m : f[n] = Next1(f[n - 1])
  BY <1>5, <1>8
<1>10. Is(f)
  <2> HIDE DEF k
  <2> QED BY <1>5, <1>6, <1>8, <1>9
<1>11. Is(CHOOSE e : Is(e))
  <2> HIDE DEF Is
  <2> QED BY <1>10
<1> DEFINE h == CHOOSE e : Is(e)
<1>12. IsConnectedToWhitelist(g, start, W) = h[m].found
  BY <1>3
<1> HIDE DEF h
<1>13. h[0] = c /\ \A n \in 1..m : h[n] = Next1(h[n - 1])
  <2>1. Is(h)
    BY <1>11 DEF h
  <2> QED BY <1>5, <1>6, <2>1
<1>14. h \in [0..m -> Search]
  <2> DEFINE P == {n \in 0..m : h[n] \in Search}
  <2>1. 0 \in P
    BY <1>2, <1>6, <1>13
  <2>2. ASSUME NEW n \in 1..m, n - 1 \in P PROVE n \in P
    BY <1>5, <1>7, <1>13, <2>2
  <2>3. 0..m \subseteq P
    <3> HIDE DEF P
    <3> QED BY <1>1, <2>1, <2>2, BoundedInduction
  <2>4. PICK u : h = [n \in 0..m |-> u[n]]
    <3>1. Is(h)
      BY <1>11 DEF h
    <3>2. h = [n \in 0..m |-> h[n]]
      BY <3>1
    <3> QED BY <3>2
  <2> QED BY <2>3, <2>4
<1>15. RunBy(h, g, start, W)
  BY <1>12, <1>13, <1>14 DEF RunBy, Next1, m, c
<1> QED BY <1>15

(* The search for the whitelist is right: it finds a token of the whitelist *)
(* exactly when no set of tokens that the edges do not leave keeps the      *)
(* start from it, and as many pops as there are tokens are enough for that  *)
(* (is_connected_to_whitelist).                                             *)
THEOREM SearchIsRight ==
    ASSUME NEW g \in Graph, NEW start \in Tokens, NEW W
    PROVE  IsConnectedToWhitelist(g, start, W)
               <=> \A S \in SUBSET Tokens : start \in S /\ Shut(S, g) => S \cap W # {}
<1> DEFINE m == Cardinality(Tokens)
<1>1. m \in Nat
  BY RoutingAssumption, FS_CardinalityType
<1>2. PICK f : RunBy(f, g, start, W)
  BY SearchRecursion
<1>3. /\ f \in [0..m -> Search] /\ f[0] = FirstSearch(start, W)
      /\ \A n \in 1..m : f[n] = Pop(g, f[n - 1], W)
      /\ IsConnectedToWhitelist(g, start, W) = f[m].found
  BY <1>2 DEF RunBy
<1>4. \A n \in 1..m : n \in 0..m /\ n - 1 \in Nat /\ (n - 1) + 1 = n
  BY <1>1
<1>5. 0 \in 0..m /\ m \in 0..m
  BY <1>1
<1> HIDE DEF m
<1> DEFINE P == {n \in 0..m : Between(f[n], g, start, W, n)}
<1>6. 0 \in P
  <2> DEFINE c == FirstSearch(start, W)
  <2>1. c.visited = {start} /\ c.queue = <<start>> /\ c.found = (start \in W) /\ c \in Search
    BY DEF FirstSearch, Search
  <2> HIDE DEF c
  <2>2. ToSet(c.queue) = {start} /\ Len(c.queue) = 1 /\ Cardinality({start}) = 1
    <3>1. ToSet(<<start>>) = {start} /\ Len(<<start>>) = 1
      BY DEF ToSet
    <3> QED BY <2>1, <3>1, FS_Singleton
  <2>3. Sound(c, g, start, W)
    BY <2>1, <2>2 DEF Sound
  <2>4. Complete(c, g, {}) /\ Counted(c, 0)
    <3>1. Cardinality(c.visited) = 0 + Len(c.queue)
      BY <2>1, <2>2
    <3> QED BY <2>1, <2>2, <3>1 DEF Complete, Counted
  <2>5. Between(c, g, start, W, 0)
    BY <2>3, <2>4 DEF Between
  <2> QED BY <1>3, <1>5, <2>5 DEF c
<1>7. ASSUME NEW n \in 1..m, n - 1 \in P PROVE n \in P
  <2>1. Between(Pop(g, f[n - 1], W), g, start, W, (n - 1) + 1)
    <3>1. n - 1 \in Nat /\ Between(f[n - 1], g, start, W, n - 1)
      BY <1>4, <1>7
    <3> QED BY <3>1, PopStep
  <2> QED BY <1>3, <1>4, <2>1
<1>8. m \in P
  <2>1. 0..m \subseteq P
    <3> HIDE DEF P
    <3> QED BY <1>1, <1>6, <1>7, BoundedInduction
  <2> QED BY <1>5, <2>1
<1> DEFINE s == f[m]
<1>9. Sound(s, g, start, W) /\ Complete(s, g, {}) /\ (s.queue = <<>> \/ Counted(s, m))
  BY <1>8 DEF Between
<1>10. IsConnectedToWhitelist(g, start, W) = s.found
  BY <1>3
<1> HIDE DEF s
<1>11. CASE s.found
  BY <1>9, <1>10, <1>11 DEF Sound
<1>12. CASE ~s.found
  <2>1. s.visited \in SUBSET Tokens /\ s.queue \in Seq(Tokens)
    BY <1>9 DEF Sound, Search
  <2>2. s.queue = <<>>
    <3>1. Cardinality(s.visited) \in Nat /\ Cardinality(s.visited) <= m
      BY <2>1, RoutingAssumption, FS_Subset, FS_CardinalityType DEF m
    <3>2. s.queue = <<>> \/ Cardinality(s.visited) = m + Len(s.queue)
      BY <1>9, <1>12 DEF Counted
    <3>3. Len(s.queue) \in Nat /\ (Len(s.queue) = 0 => s.queue = <<>>)
      BY <2>1, EmptySeq
    <3> QED BY <1>1, <3>1, <3>2, <3>3
  <2>3. Shut(s.visited, g)
    <3>1. ToSet(s.queue) = {}
      BY <2>2 DEF ToSet
    <3> QED BY <1>9, <1>12, <3>1 DEF Complete, Shut
  <2>4. start \in s.visited /\ s.visited \cap W = {}
    BY <1>9, <1>12 DEF Sound
  <2> QED BY <1>10, <1>12, <2>1, <2>3, <2>4
<1> QED BY <1>11, <1>12

(* with the graph of the pools, that is the connection over the pools *)
LEMMA ConnectedOverPools ==
    ASSUME NEW g, GraphInv(g), NEW token \in Tokens
    PROVE  IsConnectedToWhitelist(g, token, config.whitelist) <=> Connected(token, g.pools)
<1>1. \A S \in SUBSET Tokens : Shut(S, g) <=> Closed(S, g.pools)
  <2> SUFFICES ASSUME NEW S \in SUBSET Tokens PROVE Shut(S, g) <=> Closed(S, g.pools)
    OBVIOUS
  <2>1. g.pools \subseteq Pools /\ \A t \in Tokens : Neighbours(g, t) = Near(t, g.pools)
    BY DEF GraphInv, Graph
  <2>2. \A p \in Pools : ToSet(TokensOf[p]) \subseteq Tokens
    BY EndsTyped
  <2>3. ASSUME Shut(S, g), NEW p \in g.pools, NEW t \in ToSet(TokensOf[p]) \cap S, NEW u \in ToSet(TokensOf[p])
        PROVE  u \in S
    <3>1. CASE u = t
      BY <2>3, <3>1
    <3>2. CASE u # t
      <4>1. u \in Near(t, g.pools)
        BY <2>1, <2>2, <2>3, <3>2 DEF Near
      <4> QED BY <2>1, <2>3, <4>1 DEF Shut
    <3> QED BY <3>1, <3>2
  <2>4. ASSUME Closed(S, g.pools), NEW t \in S, NEW u \in Near(t, g.pools) PROVE u \in S
    BY <2>4 DEF Closed, Near
  <2>5. Shut(S, g) => Closed(S, g.pools)
    BY <2>3 DEF Closed
  <2>6. Closed(S, g.pools) => Shut(S, g)
    BY <2>1, <2>4 DEF Shut
  <2> QED BY <2>5, <2>6
<1>2. g \in Graph
  BY DEF GraphInv
<1> QED BY <1>1, <1>2, SearchIsRight DEF Connected

(* should_track_pool tells the pairs that are welcome. *)
LEMMA TracksWhatIsWelcome ==
    ASSUME NEW g, GraphInv(g), NEW p \in Pools
    PROVE  ShouldTrack(Ends(p), g) <=> Welcome(p, g.pools)
<1>1. ToSet(Ends(p)) = ToSet(TokensOf[p]) /\ ToSet(TokensOf[p]) \subseteq Tokens
  BY EndsTyped
<1>2. \A t \in ToSet(TokensOf[p]) : IsConnectedToWhitelist(g, t, config.whitelist) <=> Connected(t, g.pools)
  BY <1>1, ConnectedOverPools
<1> QED BY <1>1, <1>2 DEF ShouldTrack, Welcome

-----------------------------------------------------------------------------
(* The logs of a pool *)

Origins == [address : Pools \cup {Factory, Copycat}, pair : Pools \cup {Factory, Copycat}]

(* the places in l after n of the logs of p *)
Owns(p, l, n) ==
    Select([i \in 1..Len(l) |-> i], {i \in DOMAIN l : i > n /\ l[i].address = p})

(* Select looks at no more of a set than what the sequence can contain *)
LEMMA SelectSame ==
    ASSUME NEW S, NEW s \in Seq(S), NEW T, NEW U, \A x \in S : x \in T <=> x \in U
    PROVE  Select(s, T) = Select(s, U)
<1> DEFINE P == {u \in Seq(S) : Select(u, T) = Select(u, U)}
<1>1. <<>> \in P
  BY SelectEmpty
<1>2. ASSUME NEW u \in Seq(S), NEW e \in S, u \in P PROVE Append(u, e) \in P
  <2>1. Select(Append(u, e), T) = IF e \in T THEN Append(Select(u, T), e) ELSE Select(u, T)
    BY SelectAppend
  <2>2. Select(Append(u, e), U) = IF e \in U THEN Append(Select(u, U), e) ELSE Select(u, U)
    BY SelectAppend
  <2>3. Append(u, e) \in Seq(S)
    OBVIOUS
  <2>4. Select(Append(u, e), T) = Select(Append(u, e), U)
    BY <1>2, <2>1, <2>2
  <2> QED BY <2>3, <2>4
<1>3. Seq(S) \subseteq P
  <2> HIDE DEF P
  <2> QED BY <1>1, <1>2, SequenceInduction
<1> QED BY <1>3

(* no log comes after the last one *)
LEMMA OwnsNothing ==
    ASSUME NEW l \in Seq(Origins), NEW p, NEW n \in Nat, Len(l) <= n
    PROVE  Owns(p, l, n) = <<>>
<1> DEFINE m == Len(l)
           s == [i \in 1..m |-> i]
           T == {i \in DOMAIN l : i > n /\ l[i].address = p}
<1>1. m \in Nat /\ DOMAIN l = 1..m
  OBVIOUS
<1>2. (1..m) \cap T = {}
  BY <1>1
<1>3. s \in Seq(1..m)
  BY <1>1
<1>4. Owns(p, l, n) = Select(s, T)
  BY DEF Owns
<1> HIDE DEF s, T, m
<1>5. Select(s, T) \in Seq({})
  BY <1>2, <1>3, SelectType
<1>6. \A u \in Seq({}) : u = <<>>
  <2> SUFFICES ASSUME NEW u \in Seq({}), Len(u) # 0 PROVE FALSE
    BY EmptySeq
  <2>1. u[1] \in {}
    OBVIOUS
  <2> QED BY <2>1
<1> QED BY <1>4, <1>5, <1>6

(* one more log is one more of its pool's, if the pool's state is older *)
LEMMA OwnsOneMore ==
    ASSUME NEW l \in Seq(Origins), NEW o \in Origins, NEW p, NEW n \in Nat, n <= Len(l)
    PROVE  Owns(p, Append(l, o), n) =
               IF o.address = p THEN Append(Owns(p, l, n), Len(l) + 1) ELSE Owns(p, l, n)
<1> DEFINE m == Len(l)
           k == Append(l, o)
           s == [i \in 1..m |-> i]
           t == [i \in 1..(m + 1) |-> i]
           T == {i \in DOMAIN l : i > n /\ l[i].address = p}
           U == {i \in DOMAIN k : i > n /\ k[i].address = p}
<1>1. /\ m \in Nat /\ DOMAIN l = 1..m /\ DOMAIN k = 1..(m + 1) /\ Len(k) = m + 1
      /\ k[m + 1] = o /\ \A i \in 1..m : k[i] = l[i]
  OBVIOUS
<1>2. Owns(p, l, n) = Select(s, T) /\ Owns(p, k, n) = Select(t, U)
  BY <1>1 DEF Owns
<1>3. s \in Seq(1..m) /\ s \in Seq(1..(m + 1)) /\ m + 1 \in 1..(m + 1) /\ Len(s) = m
  BY <1>1
<1>4. t = Append(s, m + 1)
  <2>1. t \in Seq(1..(m + 1)) /\ Len(t) = m + 1 /\ \A i \in 1..(m + 1) : t[i] = i
    BY <1>1
  <2>2. Append(s, m + 1) \in Seq(1..(m + 1)) /\ Len(Append(s, m + 1)) = m + 1
    BY <1>3
  <2>3. \A i \in 1..(m + 1) : Append(s, m + 1)[i] = i
    BY <1>1, <1>3
  <2> QED BY <2>1, <2>2, <2>3, SeqEqual
<1>5. \A i \in 1..m : i \in T <=> i \in U
  BY <1>1
<1>6. m + 1 \in U <=> o.address = p
  BY <1>1
<1> HIDE DEF m, k, s, t, T, U
<1>7. Select(s, T) = Select(s, U)
  <2> DEFINE S == 1..m
  <2>1. s \in Seq(S) /\ \A i \in S : i \in T <=> i \in U
    BY <1>3, <1>5
  <2> HIDE DEF S
  <2> QED BY <2>1, SelectSame
<1>8. Select(t, U) = IF m + 1 \in U THEN Append(Select(s, U), m + 1) ELSE Select(s, U)
  <2> DEFINE S == 1..(m + 1)
             e == m + 1
  <2>1. s \in Seq(S) /\ e \in S /\ t = Append(s, e)
    BY <1>3, <1>4
  <2> HIDE DEF S, e
  <2>2. Select(Append(s, e), U) = IF e \in U THEN Append(Select(s, U), e) ELSE Select(s, U)
    BY <2>1, SelectAppend
  <2> QED BY <2>1, <2>2 DEF e
<1> QED BY <1>2, <1>6, <1>7, <1>8 DEF k, m

-----------------------------------------------------------------------------
(* The pairs that are to be followed *)

ConnectedTo(list, token, pools) ==
    \A set \in SUBSET Tokens : token \in set /\ Closed(set, pools) => set \cap list # {}

WelcomeTo(list, pair, pools) ==
    list = Anything \/ \E t \in ToSet(TokensOf[pair]) : ConnectedTo(list, t, pools)

(* what FollowsWhatConnects wants after the logs l *)
Wanted(l, open, list) ==
    LET wanted[n \in 0..Len(l)] ==
            IF n = 0 THEN {}
            ELSE IF /\ open /\ l[n].address = Factory
                    /\ WelcomeTo(list, l[n].pair, wanted[n - 1])
                 THEN wanted[n - 1] \cup {l[n].pair}
                 ELSE wanted[n - 1]
    IN wanted[Len(l)]

(* f is the recursion that defines Wanted *)
WantedBy(f, l, open, list) ==
    /\ f[0] = {}
    /\ \A n \in 1..Len(l) :
          f[n] = IF open /\ l[n].address = Factory /\ WelcomeTo(list, l[n].pair, f[n - 1])
                 THEN f[n - 1] \cup {l[n].pair}
                 ELSE f[n - 1]
    /\ Wanted(l, open, list) = f[Len(l)]

(* that recursion exists *)
LEMMA WantedRecursion ==
    ASSUME NEW l \in Seq(Origins), NEW open, NEW list
    PROVE  \E f : WantedBy(f, l, open, list)
<1> DEFINE m == Len(l)
           X == SUBSET (Pools \cup {Factory, Copycat})
           Next1(n, x) == IF /\ open /\ l[n].address = Factory
                             /\ WelcomeTo(list, l[n].pair, x)
                          THEN x \cup {l[n].pair}
                          ELSE x
           Is(f) == f = [n \in 0..m |-> IF n = 0 THEN {} ELSE Next1(n, f[n - 1])]
           k == [n \in 1..m |-> [x \in X |-> Next1(n, x)]]
<1>1. m \in Nat /\ \A n \in 1..m : l[n] \in Origins
  OBVIOUS
<1>2. {} \in X
  OBVIOUS
<1>3. Wanted(l, open, list) = (CHOOSE f : Is(f))[m]
  BY DEF Wanted
<1>4. \A n \in 1..m : \A x \in X : Next1(n, x) \in X
  <2> SUFFICES ASSUME NEW n \in 1..m, NEW x \in X PROVE Next1(n, x) \in X
    OBVIOUS
  <2>1. l[n].pair \in Pools \cup {Factory, Copycat}
    BY <1>1 DEF Origins
  <2> QED BY <2>1
<1> HIDE DEF m, X, Next1
<1>5. \A n \in 1..m : n \in 0..m /\ n - 1 \in 0..m /\ n # 0
  BY <1>1
<1>6. 0 \in 0..m /\ m \in 0..m /\ \A n \in 0..m : n = 0 \/ n \in 1..m
  BY <1>1
<1>7. PICK f \in [0..m -> X] : f[0] = {} /\ \A n \in 1..m : f[n] = k[n][f[n - 1]]
  <2>1. k \in [1..m -> [X -> X]]
    BY <1>4
  <2>2. IsRecursion(X, {}, m, k)
    BY <1>1, <1>2, <2>1 DEF IsRecursion
  <2> HIDE DEF k
  <2>3. HasValue(X, {}, m, k)
    BY <2>2, Recursion
  <2> QED BY <2>3 DEF HasValue
<1>8. \A n \in 1..m : f[n] = Next1(n, f[n - 1])
  BY <1>5, <1>7
<1>9. Is(f)
  <2> HIDE DEF k
  <2> QED BY <1>5, <1>6, <1>7, <1>8
<1>10. Is(CHOOSE e : Is(e))
  <2> HIDE DEF Is
  <2> QED BY <1>9
<1> DEFINE h == CHOOSE e : Is(e)
<1>11. Wanted(l, open, list) = h[m]
  BY <1>3
<1> HIDE DEF h
<1>12. h[0] = {} /\ \A n \in 1..m : h[n] = Next1(n, h[n - 1])
  <2>1. Is(h)
    BY <1>10 DEF h
  <2> QED BY <1>5, <1>6, <2>1
<1>13. WantedBy(h, l, open, list)
  BY <1>11, <1>12 DEF WantedBy, Next1, m
<1> QED BY <1>13

(* before any log nothing is wanted *)
LEMMA WantedNothing ==
    ASSUME NEW open, NEW list
    PROVE  Wanted(<<>>, open, list) = {}
<1>1. <<>> \in Seq(Origins) /\ Len(<<>>) = 0
  OBVIOUS
<1>2. PICK f : WantedBy(f, <<>>, open, list)
  BY <1>1, WantedRecursion
<1> QED BY <1>1, <1>2 DEF WantedBy

(* one more log wants its pair or nothing more *)
LEMMA WantedOneMore ==
    ASSUME NEW l \in Seq(Origins), NEW o \in Origins, NEW open, NEW list
    PROVE  Wanted(Append(l, o), open, list) =
               IF open /\ o.address = Factory /\ WelcomeTo(list, o.pair, Wanted(l, open, list))
               THEN Wanted(l, open, list) \cup {o.pair}
               ELSE Wanted(l, open, list)
<1> DEFINE m == Len(l)
           t == Append(l, o)
<1>1. t \in Seq(Origins) /\ Len(t) = m + 1 /\ t[m + 1] = o /\ \A n \in 1..m : t[n] = l[n]
  OBVIOUS
<1>2. /\ m \in Nat /\ (m + 1) - 1 = m /\ m + 1 \in 1..(m + 1) /\ m \in 0..m
      /\ 1..m \subseteq 1..(m + 1) /\ 1..m \subseteq 0..m /\ 0 \in 0..m
  OBVIOUS
<1>3. PICK f : WantedBy(f, l, open, list)
  BY WantedRecursion
<1>4. PICK h : WantedBy(h, t, open, list)
  <2> HIDE DEF t
  <2> QED BY <1>1, WantedRecursion
<1> HIDE DEF t
<1>5. h[m] = f[m]
  <2> DEFINE P == {n \in 0..m : h[n] = f[n]}
  <2>1. 0 \in P
    BY <1>2, <1>3, <1>4 DEF WantedBy
  <2>2. ASSUME NEW n \in 1..m, n - 1 \in P PROVE n \in P
    <3>1. t[n] = l[n] /\ h[n - 1] = f[n - 1] /\ n \in 0..m /\ n \in 1..(m + 1)
      BY <1>1, <1>2, <2>2
    <3>2. h[n] = IF open /\ t[n].address = Factory /\ WelcomeTo(list, t[n].pair, h[n - 1])
                 THEN h[n - 1] \cup {t[n].pair}
                 ELSE h[n - 1]
      BY <1>1, <1>4, <3>1 DEF WantedBy
    <3>3. f[n] = IF open /\ l[n].address = Factory /\ WelcomeTo(list, l[n].pair, f[n - 1])
                 THEN f[n - 1] \cup {l[n].pair}
                 ELSE f[n - 1]
      BY <1>3 DEF WantedBy
    <3>4. h[n] = f[n]
      BY <3>1, <3>2, <3>3
    <3> QED BY <3>1, <3>4
  <2>3. 0..m \subseteq P
    <3> HIDE DEF P, m
    <3> QED BY <1>2, <2>1, <2>2, BoundedInduction
  <2> QED BY <1>2, <2>3
<1>6. Wanted(t, open, list) = h[m + 1] /\ Wanted(l, open, list) = f[m]
  BY <1>1, <1>3, <1>4 DEF WantedBy
<1>7. h[m + 1] = IF open /\ t[m + 1].address = Factory /\ WelcomeTo(list, t[m + 1].pair, h[(m + 1) - 1])
                 THEN h[(m + 1) - 1] \cup {t[m + 1].pair}
                 ELSE h[(m + 1) - 1]
  BY <1>1, <1>2, <1>4 DEF WantedBy
<1> QED BY <1>1, <1>2, <1>5, <1>6, <1>7 DEF t

-----------------------------------------------------------------------------
(* What holds in every state *)

Typed ==
    /\ config \in Configs /\ listening \in BOOLEAN
    /\ addresses \subseteq Pools /\ DOMAIN labels = addresses
    /\ repository \in [Pools -> State \cup {Absent}]
    /\ GraphInv(graph) /\ graph.pools \cap V3Pools = {}
    /\ logs \in Seq(Origins) /\ Len(logs) <= MaxLogs
    /\ since \in [Pools -> 0..MaxLogs] /\ \A p \in Pools : since[p] <= Len(logs)

(* nothing but a request for the made-up pool comes before the subscription *)
Quiet ==
    ~listening => /\ addresses = {} /\ logs = <<>>
                  /\ \A p \in Pools \ {Sample} : repository[p] = Absent

(* what there is a state of passes the filter *)
Subscribed ==
    listening => /\ config.v2 \cup config.v3 \subseteq addresses
                 /\ addresses # {} => \A p \in Pools \ {Sample} : repository[p] # Absent => p \in addresses

(* the V3 pools, and with live logs the made-up pool, are configured ones *)
Fits(o) ==
    /\ o.pair \in V3Pools => o.pair \in config.v3
    /\ config.samples = 0 /\ o.pair = Sample => Sample \in config.v2

PairsOfLogs == \A i \in DOMAIN logs : Fits(logs[i])

Kept ==
    \A p \in Pools : repository[p] # Absent =>
        /\ repository[p].seen = Owns(p, logs, since[p])
        /\ repository[p].base = "created" => \E i \in DOMAIN logs : logs[i].pair = p

Followed == graph.pools = Wanted(logs, Open, config.whitelist)

RoutingInvariant == Typed /\ Quiet /\ Subscribed /\ PairsOfLogs /\ Kept /\ Followed

SinceNow(p, n) == [since EXCEPT ![p] = n]

(* What a log can come to: it goes by, it reaches its pool, or its pair is  *)
(* followed.                                                                *)
Recorded(o) ==
    /\ listening /\ Len(logs) < MaxLogs /\ o \in Origins /\ Fits(o)
    /\ logs' = Append(logs, o)
    /\ UNCHANGED <<config, listening, addresses, labels>>

GoesBy(o) ==
    /\ Recorded(o) /\ UNCHANGED <<repository, graph, since>>
    /\ o.address \in Pools => repository[o.address] = Absent
    /\ o.address = Factory => ~(Open /\ Welcome(o.pair, graph.pools))

Reaches(o) ==
    LET p == o.address
        n == Len(logs) + 1 IN
    /\ Recorded(o) /\ p \in Pools /\ graph' = graph
    /\ \/ /\ repository[p] # Absent
          /\ repository' = [repository EXCEPT ![p] =
                                [base |-> repository[p].base, seen |-> Append(repository[p].seen, n)]]
          /\ since' = since
       \/ /\ repository[p] = Absent /\ p \in config.v2 \cup config.v3
          /\ \E base \in {"fetched", "empty"} :
                repository' = [repository EXCEPT ![p] = [base |-> base, seen |-> <<n>>]]
          /\ since' = SinceNow(p, Len(logs))

IsFollowed(o) ==
    /\ Recorded(o) /\ o.address = Factory /\ o.pair \in Pools \ V3Pools
    /\ Open /\ Welcome(o.pair, graph.pools) /\ (addresses = {} \/ o.pair = Sample)
    /\ graph' = AddPool(graph, o.pair, Ends(o.pair))
    /\ repository' = [repository EXCEPT ![o.pair] = [base |-> "created", seen |-> <<>>]]
    /\ since' = SinceNow(o.pair, Len(logs) + 1)

-----------------------------------------------------------------------------
(* The handlers *)

(* the logs of a pool, and those of another protocol *)
LogIn(pool, topic) == LogOf(pool, topic, TRUE)
ForeignLog(topic)  == LogOf(Copycat, topic, FALSE)

(* what dispatch comes to, over a repository and a graph *)
Outcome(R, g, log, id) == Dispatch([repo |-> R, graph |-> g], log, id)

(* a repository with one more event of p, and one that has a state of p *)
WithEvent(R, p, id) == [R EXCEPT ![p].seen = Append(@, id)]

WithState(R, p) == IF R[p] # Absent THEN R ELSE [R EXCEPT ![p] = [base |-> "empty", seen |-> <<>>]]

WithPair(R, pair) == [R EXCEPT ![pair] = [base |-> "created", seen |-> <<>>]]

(* the kind of a log of each protocol *)
LEMMA Kinds ==
    ASSUME NEW log
    PROVE  /\ log.topic \in V2Topics =>
                 /\ log.topic \notin V3Topics /\ log.topic \in DOMAIN TopicKinds /\ MatchesV2(log)
                 /\ KindOf(log) = log.topic[2]
           /\ log.topic \in V3Topics =>
                 /\ log.topic \notin V2Topics /\ log.topic \in DOMAIN TopicKinds
<1> DEFINE t == log.topic
<1>1. DOMAIN TopicKinds = V2Topics \cup V3Topics
  BY DEF TopicKinds
<1>2. ASSUME t \in V2Topics
      PROVE  t \notin V3Topics /\ TopicKinds[t] = t[2]
                /\ t[2] \in {"PairCreated", "Mint", "Burn", "Swap", "Sync"}
  <2>1. PICK k \in {"PairCreated", "Mint", "Burn", "Swap", "Sync"} : t = <<"v2", k>>
    BY <1>2 DEF V2Topics
  <2>2. t[1] = "v2" /\ t[2] = k
    BY <2>1
  <2>3. t \notin V3Topics
    <3>1. \A u \in V3Topics : u[1] = "v3"
      BY DEF V3Topics
    <3> QED BY <2>2, <3>1
  <2>4. t # <<"v3", "Initialize">>
    BY <2>2
  <2>5. TopicKinds[t] = t[2]
    BY <1>2, <2>4 DEF TopicKinds
  <2> QED BY <2>1, <2>2, <2>3, <2>5
<1>3. t \in V3Topics => t \notin V2Topics
  BY <1>2
<1> QED BY <1>1, <1>2, <1>3 DEF KindOf, MatchesV2

(* a log of a V2 pool is the V2 handler's alone *)
LEMMA DispatchV2 ==
    ASSUME config \in Configs, NEW R, NEW g, NEW p \in Pools \ V3Pools, NEW id,
           NEW topic \in V2Topics \ {<<"v2", "PairCreated">>}
    PROVE  LET result == Outcome(R, g, LogIn(p, topic), id) IN
           /\ result.graph = g
           /\ result.repo = IF R[p] = Absent THEN R ELSE WithEvent(R, p, id)
<1> DEFINE log == LogIn(p, topic)
           r == [repo |-> R, graph |-> g]
<1>1. log.address = p /\ log.topic = topic /\ log.complete = TRUE
  BY DEF LogIn, LogOf
<1> HIDE DEF log
<1>2. MatchesV2(log) /\ topic[2] # "PairCreated"
  <2>1. PICK k \in {"PairCreated", "Mint", "Burn", "Swap", "Sync"} : topic = <<"v2", k>>
    BY DEF V2Topics
  <2> QED BY <1>1, <2>1, Kinds
<1>3. ~MatchesV3(log)
  BY <1>1, RoutingAssumption DEF MatchesV3
<1>4. HandleV2(r, log, id) = OnPoolEventV2(r, log, id)
  BY <1>1, <1>2 DEF HandleV2, DecodesV2
<1>5. Dispatch(r, log, id) = OnPoolEventV2(r, log, id)
  BY <1>2, <1>3, <1>4 DEF Dispatch
<1>6. r.repo = R /\ r.graph = g
  OBVIOUS
<1>7. CASE R[p] = Absent
  <2>1. OnPoolEventV2(r, log, id) = Ok(r)
    BY <1>1, <1>6, <1>7 DEF OnPoolEventV2
  <2>2. Dispatch(r, log, id).repo = R /\ Dispatch(r, log, id).graph = g
    <3>1. Ok(r).repo = R /\ Ok(r).graph = g
      BY DEF Ok
    <3> HIDE DEF r
    <3> QED BY <1>5, <2>1, <3>1
  <2> QED BY <1>7, <2>2 DEF log, Outcome
<1>8. CASE R[p] # Absent
  <2>1. OnPoolEventV2(r, log, id) = Ok(Updated(r, p, id))
    BY <1>1, <1>6, <1>8 DEF OnPoolEventV2
  <2>2. Updated(r, p, id) = [repo |-> [R EXCEPT ![p].seen = Append(@, id)], graph |-> g]
    BY DEF Updated
  <2>3. /\ Dispatch(r, log, id).repo = [R EXCEPT ![p].seen = Append(@, id)]
        /\ Dispatch(r, log, id).graph = g
    <3> DEFINE Q == [R EXCEPT ![p].seen = Append(@, id)]
               u == Updated(r, p, id)
    <3>1. u = [repo |-> Q, graph |-> g]
      BY <2>2
    <3> HIDE DEF Q, u, r
    <3>2. Ok(u).repo = Q /\ Ok(u).graph = g
      BY <3>1 DEF Ok
    <3>3. Dispatch(r, log, id).repo = Q /\ Dispatch(r, log, id).graph = g
      BY <1>5, <2>1, <3>2 DEF u
    <3> QED BY <3>3 DEF Q
  <2> QED BY <1>8, <2>3 DEF log, Outcome, WithEvent
<1> QED BY <1>7, <1>8

(* a log of a V3 pool that is configured gets past the V2 handler to the V3 *)
(* handler, under whatever name the event has                               *)
LEMMA DispatchV3 ==
    ASSUME config \in Configs, NEW R, NEW g, NEW p \in config.v3, NEW id, NEW topic \in V3Topics
    PROVE  LET result == Outcome(R, g, LogIn(p, topic), id) IN
           /\ result.graph = g
           /\ result.repo = WithEvent(WithState(R, p), p, id)
<1> DEFINE log == LogIn(p, topic)
           r == [repo |-> R, graph |-> g]
           known == IF R[p] # Absent THEN R
                    ELSE [R EXCEPT ![p] = [base |-> "empty", seen |-> <<>>]]
           knownTo == [repo |-> known, graph |-> g]
<1>1. log.address = p /\ log.topic = topic /\ log.complete = TRUE
  BY DEF LogIn, LogOf
<1> HIDE DEF log
<1>2. MatchesV3(log) /\ DecodesV3(log) /\ log.topic \notin V2Topics
  BY <1>1, Kinds DEF MatchesV3, DecodesV3
<1>3. HandleV2(r, log, id) = Ok(r)
  BY <1>2 DEF HandleV2
<1>4. Ok(r).ok = TRUE /\ Ok(r).repo = R /\ Ok(r).graph = g
  BY DEF Ok
<1>5. Dispatch(r, log, id) = HandleV3(r, log, id)
  BY <1>2, <1>3, <1>4 DEF Dispatch
<1>6. r.repo = R /\ r.graph = g
  OBVIOUS
<1>7. (IF R[p] # Absent THEN r
       ELSE [r EXCEPT !.repo[p] = [base |-> "empty", seen |-> <<>>]]) = knownTo
  OBVIOUS
<1>8. HandleV3(r, log, id) = Ok(Updated(knownTo, p, id))
  BY <1>1, <1>2, <1>6, <1>7 DEF HandleV3
<1>9. Updated(knownTo, p, id) = [repo |-> [known EXCEPT ![p].seen = Append(@, id)], graph |-> g]
  <2> HIDE DEF known
  <2> QED BY DEF Updated
<1> HIDE DEF known, knownTo
<1>10. Ok(Updated(knownTo, p, id)).graph = g
          /\ Ok(Updated(knownTo, p, id)).repo = [known EXCEPT ![p].seen = Append(@, id)]
  BY <1>9 DEF Ok
<1> QED BY <1>5, <1>8, <1>10 DEF log, known, Outcome, WithEvent, WithState

(* a PairCreated is the V2 handler's alone *)
LEMMA DispatchCreated ==
    ASSUME config \in Configs, NEW R, NEW g, NEW pair, NEW id, NEW f \in {Factory, Copycat}
    PROVE  LET result == Outcome(R, g, CreatedBy(f, pair), id) IN
           IF f # Factory \/ ~ShouldTrack(Ends(pair), g)
           THEN result.repo = R /\ result.graph = g
           ELSE /\ result.graph = AddPool(g, pair, Ends(pair))
                /\ result.repo = WithPair(R, pair)
<1> DEFINE log == CreatedBy(f, pair)
           r == [repo |-> R, graph |-> g]
<1>1. log.address = f /\ log.topic = <<"v2", "PairCreated">> /\ log.complete = TRUE /\ log.pair = pair
  BY DEF CreatedBy
<1> HIDE DEF log
<1>2. log.topic \in V2Topics /\ log.topic[2] = "PairCreated"
  BY <1>1 DEF V2Topics
<1>3. MatchesV2(log)
  BY <1>2, Kinds
<1>4. ~MatchesV3(log)
  BY <1>1, RoutingAssumption DEF MatchesV3
<1>5. HandleV2(r, log, id) = OnPairCreated(r, log)
  BY <1>1, <1>2 DEF HandleV2, DecodesV2
<1>6. Dispatch(r, log, id) = OnPairCreated(r, log)
  BY <1>3, <1>4, <1>5 DEF Dispatch
<1>7. r.repo = R /\ r.graph = g
  OBVIOUS
<1>8. CASE f # Factory \/ ~ShouldTrack(Ends(pair), g)
  <2>1. OnPairCreated(r, log) = Ok(r)
    BY <1>1, <1>7, <1>8 DEF OnPairCreated, Ends
  <2>2. Dispatch(r, log, id).repo = R /\ Dispatch(r, log, id).graph = g
    <3>1. Ok(r).repo = R /\ Ok(r).graph = g
      BY DEF Ok
    <3> HIDE DEF r
    <3> QED BY <1>6, <2>1, <3>1
  <2> QED BY <1>8, <2>2 DEF log, Outcome
<1>9. CASE ~(f # Factory \/ ~ShouldTrack(Ends(pair), g))
  <2> DEFINE G == AddPool(g, pair, Ends(pair))
             Q == [R EXCEPT ![pair] = [base |-> "created", seen |-> <<>>]]
  <2>1. OnPairCreated(r, log) = Ok([graph |-> G, repo |-> Q])
    BY <1>1, <1>7, <1>9 DEF OnPairCreated, Ends
  <2>2. Dispatch(r, log, id).repo = Q /\ Dispatch(r, log, id).graph = G
    <3> HIDE DEF G, Q
    <3>1. Ok([graph |-> G, repo |-> Q]).repo = Q /\ Ok([graph |-> G, repo |-> Q]).graph = G
      BY DEF Ok
    <3> QED BY <1>6, <2>1, <3>1
  <2> QED BY <1>9, <2>2 DEF log, Outcome, WithPair
<1> QED BY <1>8, <1>9

(* what does not decode changes nothing *)
LEMMA DispatchForeign ==
    ASSUME config \in Configs, NEW R, NEW g, NEW id, NEW topic \in V2Topics \cup V3Topics
    PROVE  LET result == Outcome(R, g, ForeignLog(topic), id) IN
           result.repo = R /\ result.graph = g
<1> DEFINE log == ForeignLog(topic)
           r == [repo |-> R, graph |-> g]
<1>1. log.address = Copycat /\ log.topic = topic /\ log.complete = FALSE
  BY DEF ForeignLog, LogOf
<1> HIDE DEF log
<1>2. ~MatchesV3(log) /\ ~DecodesV2(log)
  BY <1>1, RoutingAssumption DEF MatchesV3, DecodesV2
<1>3. HandleV2(r, log, id) \in {Ok(r), Err(r)}
  BY <1>2 DEF HandleV2
<1>4. Dispatch(r, log, id) \in {Ok(r), Err(r)}
  BY <1>2, <1>3 DEF Dispatch
<1>5. r.repo = R /\ r.graph = g
  OBVIOUS
<1>6. Dispatch(r, log, id).repo = R /\ Dispatch(r, log, id).graph = g
  <2>1. Ok(r).repo = R /\ Ok(r).graph = g /\ Err(r).repo = R /\ Err(r).graph = g
    BY DEF Ok, Err
  <2> HIDE DEF r
  <2> QED BY <1>4, <2>1
<1> QED BY <1>6 DEF log, Outcome

(* ensure_pool_initialized gives a pool of the configuration a state, or does *)
(* nothing                                                                    *)
LEMMA EnsuredIs ==
    ASSUME RoutingInvariant, NEW log
    PROVE  \/ Ensured(log) = repository
           \/ /\ log.address \in config.v2 \cup config.v3 /\ repository[log.address] = Absent
              /\ Ensured(log) = [repository EXCEPT ![log.address] = Fetched]
BY DEF Ensured, NeedsFetch

(* no state is new: the times stay *)
LEMMA MadeNothing ==
    ASSUME RoutingInvariant, NEW log, NEW R,
           \A p \in Pools : R[p] # Absent => repository[p] # Absent /\ R[p].base = repository[p].base
    PROVE  Made(log, R) = since
BY DEF Made, RoutingInvariant, Typed

(* one state is new *)
LEMMA MadeOne ==
    ASSUME RoutingInvariant, NEW log, NEW R, NEW p \in Pools,
           \A q \in Pools \ {p} : R[q] = repository[q],
           R[p] # Absent, repository[p] = Absent \/ R[p].base # repository[p].base
    PROVE  /\ R[p].base = "created" => Made(log, R) = SinceNow(p, Len(logs) + 1)
           /\ R[p].base # "created" => Made(log, R) = SinceNow(p, Len(logs))
<1>1. since \in [Pools -> 0..MaxLogs]
  BY DEF RoutingInvariant, Typed
<1>2. \A q \in Pools \ {p} : Made(log, R)[q] = since[q]
  BY DEF Made
<1>3. Made(log, R)[p] = IF R[p].base = "created" THEN Len(logs) + 1 ELSE Len(logs)
  BY DEF Made
<1>4. Made(log, R) = [q \in Pools |-> Made(log, R)[q]]
  BY DEF Made
<1> QED BY <1>1, <1>2, <1>3, <1>4 DEF SinceNow

(* the states of the repository *)
LEMMA StateIs ==
    ASSUME NEW st \in State
    PROVE  /\ st # Absent /\ st.seen \in Seq(Ids)
           /\ \A id : [st EXCEPT !.seen = Append(@, id)] = [base |-> st.base, seen |-> Append(st.seen, id)]
           /\ st.base \in {"fetched", "created", "made up", "empty"}
<1>1. /\ st # Absent /\ st.seen \in Seq(Ids) /\ st = [base |-> st.base, seen |-> st.seen]
      /\ st.base \in {"fetched", "created", "made up", "empty"}
  BY AbsentAssumption DEF State
<1>2. \A id : [st EXCEPT !.seen = Append(@, id)] = [base |-> st.base, seen |-> Append(st.seen, id)]
  <2> TAKE id
  <2> DEFINE b == st.base
             s == st.seen
  <2>1. st = [base |-> b, seen |-> s]
    BY <1>1
  <2> HIDE DEF b, s
  <2>2. [st EXCEPT !.seen = Append(s, id)] = [base |-> b, seen |-> Append(s, id)]
    BY <2>1
  <2> QED BY <2>2 DEF b, s
<1> QED BY <1>1, <1>2

(* A log of a pool that is known to the listener reaches the pool, or goes  *)
(* by one that there is no state of.                                        *)
LEMMA PoolLogHandled ==
    ASSUME RoutingInvariant, NEW p \in Pools, p \in V3Pools => p \in config.v3,
           NEW topic \in (IF p \in V3Pools THEN V3Topics ELSE V2Topics \ {<<"v2", "PairCreated">>}),
           Recorded(Origin(LogIn(p, topic))), Handle(LogIn(p, topic))
    PROVE  GoesBy(Origin(LogIn(p, topic))) \/ Reaches(Origin(LogIn(p, topic)))
<1> DEFINE log == LogIn(p, topic)
           o == Origin(log)
           n == Len(logs) + 1
           R == Ensured(log)
           result == Outcome(R, graph, log, n)
           Q == result.repo
<1>1. log.address = p /\ o.address = p /\ o.pair = p
  BY DEF LogIn, LogOf, Origin
<1>2. repository' = Q /\ graph' = result.graph /\ since' = Made(log, Q)
  BY DEF Handle, Outcome
<1>3. /\ config \in Configs /\ repository \in [Pools -> State \cup {Absent}]
      /\ \A q \in Pools : repository[q] # Absent => repository[q] \in State
  BY DEF RoutingInvariant, Typed
<1>4. \/ R = repository
      \/ p \in config.v2 \cup config.v3 /\ repository[p] = Absent /\ R = [repository EXCEPT ![p] = Fetched]
  <2> HIDE DEF log, o
  <2> QED BY <1>1, EnsuredIs
<1>5. p \notin {Factory, Copycat}
  BY RoutingAssumption
<1>6. Fetched \in State /\ Fetched.base = "fetched" /\ Fetched.seen = <<>> /\ Fetched # Absent
  <2>1. <<>> \in Seq(Ids)
    OBVIOUS
  <2>2. Fetched \in State /\ Fetched.base = "fetched" /\ Fetched.seen = <<>>
    BY <2>1 DEF Fetched, State
  <2> QED BY <2>2, StateIs
<1>7. /\ R \in [Pools -> State \cup {Absent}]
      /\ R[p] # Absent => R[p] \in State
  BY <1>3, <1>4, <1>6
<1>8. /\ graph' = graph
      /\ R[p] # Absent => Q = [R EXCEPT ![p] = [base |-> R[p].base, seen |-> Append(R[p].seen, n)]]
      /\ R[p] = Absent /\ p \in V3Pools => Q = [R EXCEPT ![p] = [base |-> "empty", seen |-> <<n>>]]
      /\ R[p] = Absent /\ p \notin V3Pools => Q = R
  <2>0. R[p] # Absent => [R[p] EXCEPT !.seen = Append(@, n)] = [base |-> R[p].base, seen |-> Append(R[p].seen, n)]
    BY <1>7, StateIs
  <2>1. CASE p \in V3Pools
    <3>1. topic \in V3Topics /\ p \in config.v3
      BY <2>1
    <3>2. result.graph = graph /\ Q = WithEvent(WithState(R, p), p, n)
      <4> HIDE DEF R, Q, result, log, n
      <4>1. /\ Outcome(R, graph, LogIn(p, topic), n).graph = graph
            /\ Outcome(R, graph, LogIn(p, topic), n).repo
                   = WithEvent(WithState(R, p), p, n)
        BY <1>3, <3>1, DispatchV3
      <4> QED BY <4>1 DEF result, Q, log
    <3> HIDE DEF R, Q, result, n
    <3>3. CASE R[p] # Absent
      <4>1. Q = [R EXCEPT ![p] = [R[p] EXCEPT !.seen = Append(@, n)]]
        BY <3>2, <3>3 DEF WithEvent, WithState
      <4> QED BY <1>2, <2>0, <2>1, <3>2, <3>3, <4>1
    <3>4. CASE R[p] = Absent
      <4>1. Append(<<>>, n) = <<n>>
        OBVIOUS
      <4>2. Q = [R EXCEPT ![p] = [base |-> "empty", seen |-> Append(<<>>, n)]]
        <5> DEFINE new == [base |-> "empty", seen |-> <<>>]
                   known == [R EXCEPT ![p] = new]
        <5>1. WithState(R, p) = known /\ Q = WithEvent(known, p, n)
          BY <3>2, <3>4 DEF WithState
        <5>2. known[p] = new
          BY <1>7
        <5>3. [new EXCEPT !.seen = Append(@, n)] = [base |-> "empty", seen |-> Append(<<>>, n)]
          OBVIOUS
        <5> HIDE DEF new
        <5>4. Q = [known EXCEPT ![p] = [new EXCEPT !.seen = Append(@, n)]]
          BY <5>1, <5>2 DEF WithEvent
        <5>5. [known EXCEPT ![p] = [new EXCEPT !.seen = Append(@, n)]] = [R EXCEPT ![p] = [new EXCEPT !.seen = Append(@, n)]]
          OBVIOUS
        <5> QED BY <5>3, <5>4, <5>5
      <4> QED BY <1>2, <2>1, <3>2, <3>4, <4>1, <4>2
    <3> QED BY <3>3, <3>4
  <2>2. CASE p \notin V3Pools
    <3>1. topic \in V2Topics \ {<<"v2", "PairCreated">>} /\ p \in Pools \ V3Pools
      BY <2>2
    <3>2. result.graph = graph /\ Q = IF R[p] = Absent THEN R ELSE WithEvent(R, p, n)
      <4> HIDE DEF R, Q, result, log, n
      <4>1. /\ Outcome(R, graph, LogIn(p, topic), n).graph = graph
            /\ Outcome(R, graph, LogIn(p, topic), n).repo
                   = IF R[p] = Absent THEN R ELSE WithEvent(R, p, n)
        BY <1>3, <3>1, DispatchV2
      <4> QED BY <4>1 DEF result, Q, log
    <3> HIDE DEF R, Q, result, n
    <3>3. R[p] # Absent => Q = [R EXCEPT ![p] = [R[p] EXCEPT !.seen = Append(@, n)]]
      BY <3>2 DEF WithEvent
    <3> QED BY <1>2, <2>0, <2>2, <3>2, <3>3
  <2> QED BY <2>1, <2>2
<1> HIDE DEF R, Q, result, log
<1>9. CASE repository[p] # Absent
  <2>1. R = repository /\ R[p] # Absent
    BY <1>4, <1>9
  <2>2. Q = [repository EXCEPT ![p] = [base |-> repository[p].base, seen |-> Append(repository[p].seen, n)]]
    BY <1>8, <2>1
  <2>3. since' = since
    <3>1. \A q \in Pools : Q[q] # Absent => repository[q] # Absent /\ Q[q].base = repository[q].base
      BY <1>3, <1>9, <2>2
    <3> QED BY <1>2, <3>1, MadeNothing
  <2>4. Reaches(o)
    <3> HIDE DEF o
    <3> QED BY <1>1, <1>2, <1>8, <1>9, <2>2, <2>3 DEF Reaches, o, log
  <2> QED BY <2>4 DEF log
<1>10. CASE repository[p] = Absent
  <2>1. CASE R[p] # Absent \/ p \in V3Pools
    <3>1. PICK b \in {"fetched", "empty"} : Q = [repository EXCEPT ![p] = [base |-> b, seen |-> <<n>>]]
      <4>1. CASE R[p] # Absent
        <5>1. R = [repository EXCEPT ![p] = Fetched]
          BY <1>4, <1>10, <4>1
        <5>2. R[p] = Fetched /\ Append(<<>>, n) = <<n>>
          BY <1>3, <5>1
        <5>3. Q = [R EXCEPT ![p] = [base |-> "fetched", seen |-> <<n>>]]
          BY <1>6, <1>8, <4>1, <5>2
        <5>4. Q = [repository EXCEPT ![p] = [base |-> "fetched", seen |-> <<n>>]]
          BY <5>1, <5>3
        <5> QED BY <5>4
      <4>2. CASE R[p] = Absent
        <5>1. R = repository
          BY <1>3, <1>4, <1>6, <4>2
        <5> QED BY <1>8, <2>1, <4>2, <5>1
      <4> QED BY <4>1, <4>2
    <3>2. p \in config.v2 \cup config.v3
      BY <1>4, <1>10, <2>1
    <3>3. since' = SinceNow(p, Len(logs))
      <4>1. Q[p] = [base |-> b, seen |-> <<n>>] /\ \A q \in Pools \ {p} : Q[q] = repository[q]
        BY <1>3, <3>1
      <4>2. Q[p].base = b /\ b # "created"
        BY <4>1
      <4>3. Q[p] # Absent
        <5>1. Q[p] \in State
          <6>1. n \in Ids
            <7>1. Len(logs) \in Nat /\ Len(logs) < MaxLogs /\ MaxLogs \in Nat
              BY RoutingAssumption DEF Recorded, RoutingInvariant, Typed
            <7> QED BY <7>1 DEF Ids, n
          <6>2. <<n>> \in Seq(Ids)
            BY <6>1
          <6> DEFINE s == <<n>>
          <6>3. s \in Seq(Ids) /\ Q[p] = [base |-> b, seen |-> s]
            BY <4>1, <6>2
          <6> HIDE DEF s
          <6>4. [base |-> b, seen |-> s] \in State
            BY <6>3 DEF State
          <6> QED BY <6>3, <6>4
        <5> QED BY <5>1, StateIs
      <4>4. Made(log, Q) = SinceNow(p, Len(logs))
        <5> HIDE DEF n
        <5>1. repository[p] = Absent \/ Q[p].base # repository[p].base
          BY <1>10
        <5>2. \A q \in Pools \ {p} : Q[q] = repository[q]
          BY <4>1
        <5> QED BY <4>2, <4>3, <5>1, <5>2, MadeOne
      <4> QED BY <1>2, <4>2, <4>4
    <3>4. Reaches(o)
      <4> HIDE DEF o
      <4> QED BY <1>1, <1>2, <1>8, <1>10, <3>1, <3>2, <3>3 DEF Reaches, o, log
    <3> QED BY <3>4 DEF log
  <2>2. CASE R[p] = Absent /\ p \notin V3Pools
    <3>1. R = repository
      BY <1>3, <1>4, <1>6, <2>2
    <3>2. Q = repository
      BY <1>8, <2>2, <3>1
    <3>3. since' = since
      BY <1>2, <3>2, MadeNothing
    <3>4. GoesBy(o)
      <4> HIDE DEF o
      <4> QED BY <1>1, <1>2, <1>5, <1>8, <1>10, <3>2, <3>3 DEF GoesBy, o, log
    <3> QED BY <3>4 DEF log
  <2> QED BY <2>1, <2>2
<1> QED BY <1>9, <1>10

(* A new pair is followed, or it is not welcome and goes by. *)
LEMMA PairLogHandled ==
    ASSUME RoutingInvariant, NEW pair \in Pools \ V3Pools, NEW f \in {Factory, Copycat},
           f = Factory => Open /\ (addresses = {} \/ pair = Sample),
           \A i \in DOMAIN logs : logs[i].pair # pair,
           Recorded(Origin(CreatedBy(f, pair))), Handle(CreatedBy(f, pair))
    PROVE  GoesBy(Origin(CreatedBy(f, pair))) \/ IsFollowed(Origin(CreatedBy(f, pair)))
<1> DEFINE log == CreatedBy(f, pair)
           o == Origin(log)
           n == Len(logs) + 1
           result == Outcome(Ensured(log), graph, log, n)
           Q == result.repo
<1>1. log.address = f /\ o.address = f /\ o.pair = pair
  BY DEF CreatedBy, Origin
<1>2. repository' = Q /\ graph' = result.graph /\ since' = Made(log, Q)
  BY DEF Handle, Outcome
<1>3. /\ config \in Configs /\ repository \in [Pools -> State \cup {Absent}]
      /\ \A q \in Pools : repository[q] # Absent => repository[q] \in State
  BY DEF RoutingInvariant, Typed
<1>4. f \notin Pools /\ Ensured(log) = repository
  <2>1. f \notin Pools /\ f \notin config.v2 \cup config.v3
    BY <1>3, RoutingAssumption
  <2> HIDE DEF log, o
  <2> QED BY <1>1, <2>1, EnsuredIs
<1>5. ShouldTrack(Ends(pair), graph) <=> Welcome(pair, graph.pools)
  BY TracksWhatIsWelcome DEF RoutingInvariant, Typed
<1>6. IF f # Factory \/ ~ShouldTrack(Ends(pair), graph)
      THEN Q = repository /\ graph' = graph
      ELSE /\ graph' = AddPool(graph, pair, Ends(pair))
           /\ Q = [repository EXCEPT ![pair] = [base |-> "created", seen |-> <<>>]]
  <2> HIDE DEF n
  <2>1. LET result2 == Outcome(repository, graph, CreatedBy(f, pair), n) IN
        IF f # Factory \/ ~ShouldTrack(Ends(pair), graph)
        THEN result2.repo = repository /\ result2.graph = graph
        ELSE /\ result2.graph = AddPool(graph, pair, Ends(pair))
             /\ result2.repo = WithPair(repository, pair)
    BY <1>3, DispatchCreated
  <2> QED BY <1>2, <1>4, <2>1 DEF WithPair
<1> HIDE DEF Q, result, log
<1>7. CASE f # Factory \/ ~ShouldTrack(Ends(pair), graph)
  <2>1. Q = repository /\ graph' = graph
    BY <1>6, <1>7
  <2>2. since' = since
    BY <1>2, <2>1, MadeNothing
  <2>3. GoesBy(o)
    <3> HIDE DEF o
    <3> QED BY <1>1, <1>2, <1>4, <1>5, <1>7, <2>1, <2>2 DEF GoesBy, o, log
  <2> QED BY <2>3 DEF log
<1>8. CASE ~(f # Factory \/ ~ShouldTrack(Ends(pair), graph))
  <2> DEFINE new == [base |-> "created", seen |-> <<>>]
  <2>1. Q = [repository EXCEPT ![pair] = new] /\ graph' = AddPool(graph, pair, Ends(pair))
    BY <1>6, <1>8
  <2>2. new \in State /\ new.base = "created"
    <3>1. <<>> \in Seq(Ids)
      OBVIOUS
    <3> QED BY <3>1 DEF State
  <2> HIDE DEF new
  <2>3. Q[pair] = new /\ new # Absent /\ \A q \in Pools \ {pair} : Q[q] = repository[q]
    BY <1>3, <2>1, <2>2, StateIs
  <2>4. repository[pair] = Absent \/ repository[pair].base # "created"
    BY DEF RoutingInvariant, Kept
  <2>5. since' = SinceNow(pair, n)
    <3>1. repository[pair] = Absent \/ Q[pair].base # repository[pair].base
      BY <2>2, <2>3, <2>4
    <3>2. Made(log, Q) = SinceNow(pair, Len(logs) + 1)
      <4>1. Q[pair] # Absent /\ Q[pair].base = "created"
        BY <2>2, <2>3
      <4>2. \A q \in Pools \ {pair} : Q[q] = repository[q]
        BY <2>3
      <4> QED BY <3>1, <4>1, <4>2, MadeOne
    <3> QED BY <1>2, <3>2
  <2>6. IsFollowed(o)
    <3> HIDE DEF o
    <3>1. repository' = [repository EXCEPT ![pair] = [base |-> "created", seen |-> <<>>]]
      BY <1>2, <2>1 DEF new
    <3> QED BY <1>1, <1>5, <1>8, <2>1, <2>5, <3>1 DEF IsFollowed, o, log
  <2> QED BY <2>6 DEF log
<1> QED BY <1>7, <1>8

(* What does not decode goes by. *)
LEMMA ForeignLogHandled ==
    ASSUME RoutingInvariant, NEW topic \in V2Topics \cup V3Topics,
           Recorded(Origin(ForeignLog(topic))), Handle(ForeignLog(topic))
    PROVE  GoesBy(Origin(ForeignLog(topic)))
<1> DEFINE log == ForeignLog(topic)
           o == Origin(log)
           n == Len(logs) + 1
           result == Outcome(Ensured(log), graph, log, n)
           Q == result.repo
<1>1. log.address = Copycat /\ o.address = Copycat /\ o.pair = Copycat
  BY DEF ForeignLog, LogOf, Origin
<1>2. repository' = Q /\ graph' = result.graph /\ since' = Made(log, Q)
  BY DEF Handle, Outcome
<1>3. config \in Configs
  BY DEF RoutingInvariant, Typed
<1>4. Copycat \notin Pools /\ Copycat # Factory /\ Ensured(log) = repository
  <2>1. Copycat \notin Pools /\ Copycat # Factory /\ Copycat \notin config.v2 \cup config.v3
    BY <1>3, RoutingAssumption
  <2> HIDE DEF log, o
  <2> QED BY <1>1, <2>1, EnsuredIs
<1>5. Q = repository /\ graph' = graph
  <2> HIDE DEF n
  <2>1. LET result2 == Outcome(repository, graph, ForeignLog(topic), n) IN
        result2.repo = repository /\ result2.graph = graph
    BY <1>3, DispatchForeign
  <2> QED BY <1>2, <1>4, <2>1
<1> HIDE DEF Q, result, log
<1>6. since' = since
  BY <1>2, <1>5, MadeNothing
<1>7. GoesBy(o)
  <2> HIDE DEF o
  <2> QED BY <1>1, <1>2, <1>4, <1>5, <1>6 DEF GoesBy, o, log
<1> QED BY <1>7 DEF log

(* the elements of a concatenation *)
LEMMA ConcatIs ==
    ASSUME NEW S, NEW s \in Seq(S), NEW t \in Seq(S)
    PROVE  /\ Len(s \o t) = Len(s) + Len(t)
           /\ \A i \in 1..Len(s) : (s \o t)[i] = s[i]
           /\ \A i \in 1..Len(t) : (s \o t)[Len(s) + i] = t[i]
OBVIOUS

(* the sample events: the made-up pair, then logs of it *)
LEMMA SampleLogIs ==
    ASSUME config \in Configs, NEW n \in 1..Len(SampleLogs)
    PROVE  IF n = 1 THEN SampleLogs[n] = CreatedBy(Factory, Sample)
           ELSE \E topic \in V2Topics \ {<<"v2", "PairCreated">>} : SampleLogs[n] = LogIn(Sample, topic)
<1> DEFINE m == 2 * config.samples + 2
           topicOf(i) == <<"v2", IF i % 2 = 0 THEN "Sync" ELSE IF i = 1 THEN "Mint" ELSE "Swap">>
           events == [i \in 1..m |-> LogIn(Sample, topicOf(i))]
           c == CreatedBy(Factory, Sample)
           first == <<c>>
           Y == {c} \cup {LogIn(Sample, topicOf(i)) : i \in 1..m}
<1>1. SampleLogs = first \o events
  BY DEF SampleLogs, LogIn
<1>2. m \in Nat
  BY RoutingAssumption
<1>3. \A i \in 1..m : topicOf(i) \in V2Topics \ {<<"v2", "PairCreated">>}
  BY DEF V2Topics
<1>4. first \in Seq(Y) /\ Len(first) = 1 /\ first[1] = c
  <2> HIDE DEF c, m, topicOf
  <2> QED OBVIOUS
<1>5. events \in Seq(Y) /\ Len(events) = m /\ \A i \in 1..m : events[i] = LogIn(Sample, topicOf(i))
  <2> HIDE DEF c, m, topicOf
  <2> QED BY <1>2
<1> HIDE DEF Y, events, first, m, topicOf, c
<1>6. /\ Len(SampleLogs) = 1 + m /\ SampleLogs[1] = c
      /\ \A i \in 2..(1 + m) : SampleLogs[i] = events[i - 1]
  <2>1. /\ Len(SampleLogs) = Len(first) + Len(events)
        /\ \A i \in 1..Len(first) : SampleLogs[i] = first[i]
        /\ \A i \in 1..Len(events) : SampleLogs[Len(first) + i] = events[i]
    <3>1. first \in Seq(Y) /\ events \in Seq(Y)
      BY <1>4, <1>5
    <3>2. /\ Len(first \o events) = Len(first) + Len(events)
          /\ \A i \in 1..Len(first) : (first \o events)[i] = first[i]
          /\ \A i \in 1..Len(events) : (first \o events)[Len(first) + i] = events[i]
      BY <3>1, ConcatIs
    <3> QED BY <1>1, <3>2
  <2>2. \A i \in 2..(1 + m) : i - 1 \in 1..m /\ 1 + (i - 1) = i
    BY <1>2
  <2>3. 1 \in 1..1
    OBVIOUS
  <2> QED BY <1>4, <1>5, <2>1, <2>2, <2>3
<1>7. CASE n = 1
  BY <1>6, <1>7 DEF c
<1>8. CASE n # 1
  <2>1. n \in 2..(1 + m) /\ n - 1 \in 1..m
    BY <1>2, <1>6, <1>8
  <2>2. SampleLogs[n] = LogIn(Sample, topicOf(n - 1))
    BY <1>5, <1>6, <2>1
  <2> QED BY <1>3, <1>8, <2>1, <2>2
<1> QED BY <1>7, <1>8

-----------------------------------------------------------------------------
(* Every step *)

(* the pools that have live logs are typed, and pass the filter if there is  *)
(* a state of them                                                           *)
LEMMA BornFits ==
    ASSUME RoutingInvariant, listening, config.samples = 0, NEW p \in Born
    PROVE  /\ p \in Pools /\ (p \in V3Pools => p \in config.v3) /\ (p = Sample => Sample \in config.v2)
           /\ repository[p] # Absent => addresses = {} \/ p \in addresses
<1>1. config \in Configs /\ config.v2 \subseteq Pools \ V3Pools /\ config.v3 \subseteq V3Pools /\ V3Pools \subseteq Pools
  BY RoutingAssumption DEF RoutingInvariant, Typed
<1>2. CASE p \in config.v2 \cup config.v3
  <2>1. p \in addresses
    BY <1>2 DEF RoutingInvariant, Subscribed
  <2> QED BY <1>1, <1>2, <2>1, RoutingAssumption
<1>3. CASE p \notin config.v2 \cup config.v3
  <2>1. PICK i \in DOMAIN logs : logs[i].pair = p
    BY <1>3 DEF Born
  <2>2. p \in Pools
    BY <1>3 DEF Born
  <2>3. Fits(logs[i])
    BY DEF RoutingInvariant, PairsOfLogs
  <2>4. (p \in V3Pools => p \in config.v3) /\ (p = Sample => Sample \in config.v2)
    BY <2>1, <2>3 DEF Fits
  <2>5. p \in Pools \ {Sample}
    BY <1>3, <2>2, <2>4
  <2> QED BY <2>2, <2>4, <2>5 DEF RoutingInvariant, Subscribed
<1> QED BY <1>2, <1>3

(* Whatever log there is, it goes by, reaches its pool or has its pair followed. *)
LEMMA LogStep ==
    ASSUME RoutingInvariant, PairIsCreated \/ PoolLogs \/ ForeignLogs \/ PlaySample
    PROVE  \E o \in Origins : GoesBy(o) \/ Reaches(o) \/ IsFollowed(o)
<1>1. /\ config \in Configs /\ config.v2 \subseteq Pools \ V3Pools /\ config.v3 \subseteq V3Pools
      /\ config.samples \in Nat /\ addresses \subseteq Pools
  BY RoutingAssumption DEF RoutingInvariant, Typed
<1>2. ASSUME NEW log, Origin(log) \in Origins, Fits(Origin(log)), listening, Len(logs) < MaxLogs,
             Handle(log) \/ Pass(log)
      PROVE  Recorded(Origin(log)) /\ (Pass(log) => UNCHANGED <<repository, graph, since>>)
  BY <1>2 DEF Recorded, Handle, Pass
<1>3. ASSUME PairIsCreated PROVE \E o \in Origins : GoesBy(o) \/ IsFollowed(o)
  <2>1. /\ listening /\ config.samples = 0 /\ Len(logs) < MaxLogs
    BY <1>3 DEF PairIsCreated, Live
  <2>2. PICK pair \in Pools \ (V3Pools \cup Born \cup {Sample}) :
            Receive(CreatedBy(IF pair \in Foreign THEN Copycat ELSE Factory, pair))
    BY <1>3 DEF PairIsCreated
  <2> DEFINE f == IF pair \in Foreign THEN Copycat ELSE Factory
             log == CreatedBy(f, pair)
             o == Origin(log)
  <2>3. f \in {Factory, Copycat} /\ f \notin Pools
    BY RoutingAssumption
  <2>4. Receive(log)
    BY <2>2
  <2> HIDE DEF f
  <2>5. log.address = f /\ o.address = f /\ o.pair = pair /\ o = [address |-> f, pair |-> pair]
           /\ log.topic = <<"v2", "PairCreated">>
    BY DEF CreatedBy, Origin
  <2>6. o \in Origins /\ Fits(o)
    BY <2>2, <2>3, <2>5 DEF Origins, Fits
  <2>7. log.topic \in DOMAIN TopicKinds
    <3>1. log.topic \in V2Topics
      BY <2>5 DEF V2Topics
    <3> QED BY <3>1, Kinds
  <2> HIDE DEF log, o
  <2>8. CASE Passes(log) /\ Handle(log)
    <3>1. addresses = {}
      BY <1>1, <2>3, <2>5, <2>8 DEF Passes
    <3>2. Recorded(o)
      BY <1>2, <2>1, <2>6, <2>8 DEF o
    <3>3. \A i \in DOMAIN logs : logs[i].pair # pair
      BY <2>2 DEF Born
    <3>4. GoesBy(o) \/ IsFollowed(o)
      BY <2>2, <2>3, <2>8, <3>1, <3>2, <3>3, PairLogHandled DEF Open, log, o
    <3> QED BY <2>6, <3>4
  <2>9. CASE Pass(log) /\ (~Passes(log) \/ NeedsFetch(log))
    <3>1. ~NeedsFetch(log)
      BY <1>1, <2>3, <2>5, RoutingAssumption DEF NeedsFetch
    <3>2. ~Open
      BY <2>1, <2>7, <2>9, <3>1 DEF Passes, Open
    <3>3. Recorded(o) /\ UNCHANGED <<repository, graph, since>>
      BY <1>2, <2>1, <2>6, <2>9 DEF o
    <3>4. GoesBy(o)
      BY <2>3, <2>5, <3>2, <3>3 DEF GoesBy
    <3> QED BY <2>6, <3>4
  <2> QED BY <2>4, <2>8, <2>9 DEF Receive
<1>4. ASSUME PoolLogs PROVE \E o \in Origins : GoesBy(o) \/ Reaches(o)
  <2>1. /\ listening /\ config.samples = 0 /\ Len(logs) < MaxLogs
    BY <1>4 DEF PoolLogs, Live
  <2>2. PICK p \in Born :
            \E topic \in (IF p \in V3Pools THEN V3Topics ELSE V2Topics \ {<<"v2", "PairCreated">>}) :
                Receive(LogIn(p, topic))
    BY <1>4 DEF PoolLogs, LogIn
  <2>3. PICK topic \in (IF p \in V3Pools THEN V3Topics ELSE V2Topics \ {<<"v2", "PairCreated">>}) :
            Receive(LogIn(p, topic))
    BY <2>2
  <2> DEFINE log == LogIn(p, topic)
             o == Origin(log)
  <2>4. /\ p \in Pools /\ (p \in V3Pools => p \in config.v3) /\ (p = Sample => Sample \in config.v2)
        /\ repository[p] # Absent => addresses = {} \/ p \in addresses
    BY <2>1, BornFits
  <2>5. log.address = p /\ o.address = p /\ o.pair = p /\ o = [address |-> p, pair |-> p]
           /\ log.topic = topic
    BY DEF LogIn, LogOf, Origin
  <2>6. o \in Origins /\ Fits(o)
    BY <2>4, <2>5 DEF Origins, Fits
  <2>7. log.topic \in DOMAIN TopicKinds
    <3>1. log.topic \in V2Topics \cup V3Topics
      BY <2>5
    <3> HIDE DEF log
    <3> QED BY <3>1, Kinds
  <2>8. Receive(log)
    BY <2>3
  <2> HIDE DEF log, o
  <2>9. CASE Handle(log)
    <3>1. Recorded(o)
      BY <1>2, <2>1, <2>6, <2>9 DEF o
    <3>2. GoesBy(o) \/ Reaches(o)
      BY <2>3, <2>4, <2>9, <3>1, PoolLogHandled DEF log, o
    <3> QED BY <2>6, <3>2
  <2>10. CASE Pass(log) /\ (~Passes(log) \/ NeedsFetch(log))
    <3>1. repository[p] = Absent
      BY <2>4, <2>5, <2>7, <2>10 DEF Passes, NeedsFetch
    <3>2. Recorded(o) /\ UNCHANGED <<repository, graph, since>>
      BY <1>2, <2>1, <2>6, <2>10 DEF o
    <3>3. p # Factory
      BY <2>4, RoutingAssumption
    <3>4. GoesBy(o)
      BY <2>5, <3>1, <3>2, <3>3 DEF GoesBy
    <3> QED BY <2>6, <3>4
  <2> QED BY <2>8, <2>9, <2>10 DEF Receive
<1>5. ASSUME ForeignLogs PROVE \E o \in Origins : GoesBy(o)
  <2>1. /\ listening /\ Len(logs) < MaxLogs
    BY <1>5 DEF ForeignLogs, Live
  <2>2. PICK topic \in V2Topics \cup V3Topics : Receive(ForeignLog(topic))
    BY <1>5 DEF ForeignLogs, ForeignLog
  <2> DEFINE log == ForeignLog(topic)
             o == Origin(log)
  <2>3. o.address = Copycat /\ o.pair = Copycat /\ o = [address |-> Copycat, pair |-> Copycat]
    BY DEF ForeignLog, LogOf, Origin
  <2>4. Copycat \notin Pools /\ Copycat # Factory /\ Copycat \notin V3Pools /\ Copycat # Sample
    BY RoutingAssumption
  <2>5. o \in Origins /\ Fits(o)
    BY <2>3, <2>4 DEF Origins, Fits
  <2>6. Receive(log)
    BY <2>2
  <2> HIDE DEF log, o
  <2>7. CASE Handle(log)
    <3>1. Recorded(o)
      BY <1>2, <2>1, <2>5, <2>7 DEF o
    <3>2. GoesBy(o)
      BY <2>7, <3>1, ForeignLogHandled DEF log, o
    <3> QED BY <2>5, <3>2
  <2>8. CASE Pass(log)
    <3>1. Recorded(o) /\ UNCHANGED <<repository, graph, since>>
      BY <1>2, <2>1, <2>5, <2>8 DEF o
    <3>2. GoesBy(o)
      BY <2>3, <2>4, <3>1 DEF GoesBy
    <3> QED BY <2>5, <3>2
  <2> QED BY <2>6, <2>7, <2>8 DEF Receive
<1>6. ASSUME PlaySample PROVE \E o \in Origins : GoesBy(o) \/ Reaches(o) \/ IsFollowed(o)
  <2> DEFINE n == Len(logs) + 1
  <2>1. /\ listening /\ config.samples # 0 /\ Len(logs) < MaxLogs /\ Open
        /\ Len(logs) < Len(SampleLogs) /\ Handle(SampleLogs[n])
    BY <1>1, <1>6 DEF PlaySample, Open
  <2>2. Sample \in Pools \ V3Pools
    BY RoutingAssumption
  <2>3. logs \in Seq(Origins) /\ Len(logs) \in Nat /\ n \in 1..Len(SampleLogs)
    <3>1. Len(SampleLogs) \in Nat
      BY <1>1 DEF SampleLogs
    <3>2. logs \in Seq(Origins)
      BY DEF RoutingInvariant, Typed
    <3> QED BY <2>1, <3>1, <3>2
  <2>4. CASE n = 1
    <3> DEFINE log == CreatedBy(Factory, Sample)
               o == Origin(log)
    <3>1. Handle(log)
      BY <1>1, <2>1, <2>3, <2>4, SampleLogIs
    <3>2. o.pair = Sample /\ o = [address |-> Factory, pair |-> Sample]
      BY DEF CreatedBy, Origin
    <3>3. o \in Origins /\ Fits(o)
      BY <2>1, <2>2, <3>2 DEF Origins, Fits
    <3>4. Recorded(o)
      <4> HIDE DEF log, o
      <4> QED BY <1>2, <2>1, <3>1, <3>3 DEF o
    <3>5. DOMAIN logs = {}
      BY <2>3, <2>4
    <3>6. GoesBy(o) \/ IsFollowed(o)
      BY <2>1, <2>2, <3>1, <3>4, <3>5, PairLogHandled
    <3> QED BY <3>3, <3>6
  <2>5. CASE n # 1
    <3>1. PICK topic \in V2Topics \ {<<"v2", "PairCreated">>} : SampleLogs[n] = LogIn(Sample, topic)
      BY <1>1, <2>3, <2>5, SampleLogIs
    <3> DEFINE log == LogIn(Sample, topic)
               o == Origin(log)
    <3>2. Handle(log)
      BY <2>1, <3>1
    <3>3. o.pair = Sample /\ o = [address |-> Sample, pair |-> Sample]
      BY DEF LogIn, LogOf, Origin
    <3>4. o \in Origins /\ Fits(o)
      BY <2>1, <2>2, <3>3 DEF Origins, Fits
    <3>5. Recorded(o)
      <4> HIDE DEF log, o
      <4> QED BY <1>2, <2>1, <3>2, <3>4 DEF o
    <3>6. GoesBy(o) \/ Reaches(o)
      BY <2>2, <3>2, <3>5, PoolLogHandled
    <3> QED BY <3>4, <3>6
  <2> QED BY <2>4, <2>5
<1> QED BY <1>3, <1>4, <1>5, <1>6

-----------------------------------------------------------------------------
(* The invariant *)

(* what a log adds, whatever becomes of it *)
LEMMA RecordedKeeps ==
    ASSUME RoutingInvariant, NEW o \in Origins, Recorded(o)
    PROVE  /\ logs' \in Seq(Origins) /\ Len(logs') = Len(logs) + 1 /\ Len(logs') <= MaxLogs
           /\ Len(logs) \in Nat /\ Len(logs) + 1 \in Ids
           /\ DOMAIN logs \subseteq DOMAIN logs' /\ \A i \in DOMAIN logs : logs'[i] = logs[i]
           /\ Len(logs') \in DOMAIN logs' /\ logs'[Len(logs')] = o
           /\ PairsOfLogs' /\ Quiet'
           /\ \A p \in Pools : \A n \in 0..Len(logs) :
                 Owns(p, logs', n) = IF o.address = p THEN Append(Owns(p, logs, n), Len(logs) + 1)
                                     ELSE Owns(p, logs, n)
           /\ Wanted(logs', Open', config'.whitelist) =
                 IF Open /\ o.address = Factory /\ Welcome(o.pair, graph.pools)
                 THEN graph.pools \cup {o.pair} ELSE graph.pools
<1>1. /\ listening /\ Len(logs) < MaxLogs /\ Fits(o) /\ logs' = Append(logs, o)
      /\ UNCHANGED <<config, listening, addresses, labels>>
  BY DEF Recorded
<1>2. logs \in Seq(Origins) /\ Len(logs) \in Nat /\ MaxLogs \in Nat /\ DOMAIN logs = 1..Len(logs)
  BY RoutingAssumption DEF RoutingInvariant, Typed
<1>3. /\ logs' \in Seq(Origins) /\ Len(logs') = Len(logs) + 1 /\ DOMAIN logs' = 1..(Len(logs) + 1)
      /\ \A i \in 1..Len(logs) : logs'[i] = logs[i]
      /\ logs'[Len(logs) + 1] = o
  BY <1>1, <1>2
<1>4. /\ Len(logs') <= MaxLogs /\ Len(logs) + 1 \in Ids /\ DOMAIN logs \subseteq DOMAIN logs'
      /\ Len(logs') \in DOMAIN logs'
  BY <1>1, <1>2, <1>3 DEF Ids
<1>5. PairsOfLogs'
  <2> SUFFICES ASSUME NEW i \in DOMAIN logs'
               PROVE  /\ logs'[i].pair \in V3Pools => logs'[i].pair \in config.v3
                      /\ config.samples = 0 /\ logs'[i].pair = Sample => Sample \in config.v2
    BY <1>1 DEF PairsOfLogs, Fits
  <2>1. CASE i = Len(logs) + 1
    BY <1>1, <1>3, <2>1 DEF Fits
  <2>2. CASE i # Len(logs) + 1
    <3>1. i \in DOMAIN logs /\ logs'[i] = logs[i]
      BY <1>2, <1>3, <2>2
    <3>2. Fits(logs[i])
      BY <3>1 DEF RoutingInvariant, PairsOfLogs
    <3> QED BY <3>1, <3>2 DEF Fits
  <2> QED BY <2>1, <2>2
<1>6. Quiet'
  BY <1>1 DEF Quiet
<1>7. ASSUME NEW p \in Pools, NEW n \in 0..Len(logs)
      PROVE  Owns(p, logs', n) = IF o.address = p THEN Append(Owns(p, logs, n), Len(logs) + 1)
                                 ELSE Owns(p, logs, n)
  BY <1>1, <1>2, OwnsOneMore
<1>8. Wanted(logs', Open', config'.whitelist) =
          IF Open /\ o.address = Factory /\ Welcome(o.pair, graph.pools)
          THEN graph.pools \cup {o.pair} ELSE graph.pools
  <2> DEFINE open == Open
             list == config.whitelist
  <2>1. Open' = open /\ config'.whitelist = list
    BY <1>1 DEF Open
  <2>2. WelcomeTo(list, o.pair, graph.pools) <=> Welcome(o.pair, graph.pools)
    BY DEF WelcomeTo, Welcome, ConnectedTo, Connected
  <2>3. graph.pools = Wanted(logs, open, list)
    BY DEF RoutingInvariant, Followed
  <2> HIDE DEF open, list
  <2>4. Wanted(Append(logs, o), open, list) =
            IF open /\ o.address = Factory /\ WelcomeTo(list, o.pair, Wanted(logs, open, list))
            THEN Wanted(logs, open, list) \cup {o.pair}
            ELSE Wanted(logs, open, list)
    BY <1>2, WantedOneMore
  <2>5. Wanted(logs', Open', config'.whitelist) = Wanted(Append(logs, o), open, list)
    BY <1>1, <2>1
  <2> QED BY <2>2, <2>3, <2>4, <2>5 DEF open
<1> QED BY <1>2, <1>3, <1>4, <1>5, <1>6, <1>7, <1>8

(* what goes by changes nothing that it should have changed *)
LEMMA GoesByKeeps ==
    ASSUME RoutingInvariant, NEW o \in Origins, GoesBy(o)
    PROVE  RoutingInvariant'
<1>1. /\ Recorded(o) /\ UNCHANGED <<config, listening, addresses, labels, repository, graph, since>>
      /\ o.address \in Pools => repository[o.address] = Absent
      /\ o.address = Factory => ~(Open /\ Welcome(o.pair, graph.pools))
  BY DEF GoesBy, Recorded
<1>2. /\ logs' \in Seq(Origins) /\ Len(logs') = Len(logs) + 1 /\ Len(logs') <= MaxLogs /\ Len(logs) \in Nat
      /\ PairsOfLogs' /\ Quiet'
      /\ DOMAIN logs \subseteq DOMAIN logs' /\ \A i \in DOMAIN logs : logs'[i] = logs[i]
  BY <1>1, RecordedKeeps
<1>3. Typed'
  <2>1. \A p \in Pools : since[p] \in Nat /\ since[p] <= Len(logs)
    BY DEF RoutingInvariant, Typed
  <2> QED BY <1>1, <1>2, <2>1 DEF RoutingInvariant, Typed, GraphInv, Graph, Neighbours, Near
<1>4. Subscribed'
  BY <1>1 DEF RoutingInvariant, Subscribed
<1>5. Kept'
  <2> SUFFICES ASSUME NEW p \in Pools, repository[p] # Absent
               PROVE  /\ repository[p].seen = Owns(p, logs', since[p])
                      /\ repository[p].base = "created" => \E i \in DOMAIN logs' : logs'[i].pair = p
    BY <1>1 DEF Kept
  <2>1. /\ repository[p].seen = Owns(p, logs, since[p])
        /\ repository[p].base = "created" => \E i \in DOMAIN logs : logs[i].pair = p
    BY DEF RoutingInvariant, Kept
  <2>2. since[p] \in 0..Len(logs) /\ o.address # p
    BY <1>1, <1>2 DEF RoutingInvariant, Typed
  <2>3. Owns(p, logs', since[p]) = Owns(p, logs, since[p])
    BY <1>1, <2>2, RecordedKeeps
  <2> QED BY <1>2, <2>1, <2>3
<1>6. Followed'
  <2>1. Wanted(logs', Open', config'.whitelist) = graph.pools
    BY <1>1, RecordedKeeps
  <2> QED BY <1>1, <2>1 DEF Followed
<1> QED BY <1>2, <1>3, <1>4, <1>5, <1>6 DEF RoutingInvariant

(* what reaches its pool is one more log of it *)
LEMMA ReachesKeeps ==
    ASSUME RoutingInvariant, NEW o \in Origins, Reaches(o)
    PROVE  RoutingInvariant'
<1> DEFINE p == o.address
           n == Len(logs) + 1
<1>1. Recorded(o) /\ p \in Pools /\ UNCHANGED <<config, listening, addresses, labels, graph>> /\ listening
  BY DEF Reaches, Recorded
<1>2. /\ logs' \in Seq(Origins) /\ Len(logs') = Len(logs) + 1 /\ Len(logs') <= MaxLogs /\ Len(logs) \in Nat
      /\ PairsOfLogs' /\ Quiet' /\ n \in Ids
      /\ DOMAIN logs \subseteq DOMAIN logs' /\ \A i \in DOMAIN logs : logs'[i] = logs[i]
  BY <1>1, RecordedKeeps
<1>3. /\ repository \in [Pools -> State \cup {Absent}]
      /\ \A q \in Pools : repository[q] # Absent => repository[q] \in State
      /\ since \in [Pools -> 0..MaxLogs] /\ \A q \in Pools : since[q] \in 0..Len(logs)
  BY <1>2 DEF RoutingInvariant, Typed
<1>4. PICK st \in State :
          /\ repository' = [repository EXCEPT ![p] = st]
          /\ \/ /\ repository[p] # Absent /\ st.base = repository[p].base
                /\ st.seen = Append(repository[p].seen, n) /\ since' = since
             \/ /\ repository[p] = Absent /\ st.base # "created" /\ st.seen = <<n>>
                /\ p \in config.v2 \cup config.v3 /\ since' = SinceNow(p, Len(logs))
  <2>1. CASE repository[p] # Absent
    <3> DEFINE b == repository[p].base
               s == Append(repository[p].seen, n)
    <3>1. repository' = [repository EXCEPT ![p] = [base |-> b, seen |-> s]] /\ since' = since
      BY <2>1 DEF Reaches
    <3>2. b \in {"fetched", "created", "made up", "empty"} /\ s \in Seq(Ids)
      <4>1. repository[p] \in State
        BY <1>1, <1>3, <2>1
      <4>2. repository[p].seen \in Seq(Ids) /\ b \in {"fetched", "created", "made up", "empty"}
        BY <4>1, StateIs
      <4>3. n \in Ids
        BY <1>2
      <4> HIDE DEF n
      <4>4. s \in Seq(Ids)
        <5> DEFINE t == repository[p].seen
        <5>1. t \in Seq(Ids)
          BY <4>2
        <5> HIDE DEF t
        <5>2. Append(t, n) \in Seq(Ids)
          BY <4>3, <5>1
        <5> QED BY <5>2 DEF t
      <4> QED BY <4>2, <4>4
    <3> HIDE DEF b, s
    <3>3. [base |-> b, seen |-> s] \in State
      BY <3>2 DEF State
    <3> QED BY <2>1, <3>1, <3>3 DEF b, s
  <2>2. CASE repository[p] = Absent
    <3> DEFINE s == <<n>>
    <3>1. PICK b \in {"fetched", "empty"} : repository' = [repository EXCEPT ![p] = [base |-> b, seen |-> s]]
      BY <2>2 DEF Reaches
    <3>2. p \in config.v2 \cup config.v3 /\ since' = SinceNow(p, Len(logs))
      BY <2>2 DEF Reaches
    <3>3. s \in Seq(Ids)
      BY <1>2
    <3> HIDE DEF s
    <3>4. [base |-> b, seen |-> s] \in State
      BY <3>3 DEF State
    <3> QED BY <2>2, <3>1, <3>2, <3>4 DEF s
  <2> QED BY <2>1, <2>2
<1>5. /\ st # Absent /\ repository'[p] = st /\ \A q \in Pools \ {p} : repository'[q] = repository[q]
      /\ \A q \in Pools \ {p} : since'[q] = since[q]
      /\ since' \in [Pools -> 0..MaxLogs] /\ since'[p] \in 0..Len(logs)
      /\ repository[p] # Absent => since'[p] = since[p]
      /\ repository[p] = Absent => since'[p] = Len(logs)
  <2>1. st # Absent
    BY StateIs
  <2>2. Len(logs) \in 0..MaxLogs /\ Len(logs) \in 0..Len(logs)
    BY <1>2, RoutingAssumption
  <2> QED BY <1>1, <1>3, <1>4, <2>1, <2>2 DEF SinceNow
<1> HIDE DEF p
<1>6. Typed'
  <2>1. \A q \in Pools : since'[q] \in 0..Len(logs')
    BY <1>2, <1>3, <1>5
  <2>2. repository' \in [Pools -> State \cup {Absent}]
    BY <1>3, <1>4
  <2>3. GraphInv(graph)' /\ (graph.pools \cap V3Pools = {})'
    BY <1>1 DEF RoutingInvariant, Typed, GraphInv, Graph, Neighbours, Near
  <2>4. (config \in Configs /\ listening \in BOOLEAN /\ addresses \subseteq Pools /\ DOMAIN labels = addresses)'
    BY <1>1 DEF RoutingInvariant, Typed
  <2> QED BY <1>2, <1>5, <2>1, <2>2, <2>3, <2>4 DEF Typed
<1>7. Subscribed'
  <2>1. config.v2 \cup config.v3 \subseteq addresses
    BY <1>1 DEF RoutingInvariant, Subscribed
  <2>2. ASSUME addresses # {}, NEW q \in Pools \ {Sample}, repository'[q] # Absent PROVE q \in addresses
    <3>1. CASE repository[q] # Absent
      BY <1>1, <2>2, <3>1 DEF RoutingInvariant, Subscribed
    <3>2. CASE repository[q] = Absent
      BY <1>4, <1>5, <2>1, <2>2, <3>2
    <3> QED BY <3>1, <3>2
  <2> QED BY <1>1, <2>1, <2>2 DEF Subscribed
<1>8. Kept'
  <2> SUFFICES ASSUME NEW q \in Pools, repository'[q] # Absent
               PROVE  /\ repository'[q].seen = Owns(q, logs', since'[q])
                      /\ repository'[q].base = "created" => \E i \in DOMAIN logs' : logs'[i].pair = q
    BY DEF Kept
  <2>1. repository[q] # Absent =>
            /\ repository[q].seen = Owns(q, logs, since[q])
            /\ repository[q].base = "created" => \E i \in DOMAIN logs : logs[i].pair = q
    BY DEF RoutingInvariant, Kept
  <2>2. \A k \in 0..Len(logs) :
            Owns(q, logs', k) = IF p = q THEN Append(Owns(q, logs, k), n) ELSE Owns(q, logs, k)
    BY <1>1, RecordedKeeps DEF p
  <2>3. since[q] \in 0..Len(logs)
    BY <1>3
  <2>4. CASE q # p
    <3>1. repository'[q] = repository[q] /\ since'[q] = since[q]
      BY <1>5, <2>4
    <3> QED BY <1>2, <2>1, <2>2, <2>3, <2>4, <3>1
  <2>5. CASE q = p /\ repository[p] # Absent
    <3>1. /\ repository'[p].seen = Append(repository[p].seen, n) /\ repository'[p].base = repository[p].base
          /\ since'[p] = since[p]
      BY <1>4, <1>5, <2>5
    <3> HIDE DEF n
    <3>2. Owns(p, logs', since[p]) = Append(Owns(p, logs, since[p]), n)
      BY <2>2, <2>3, <2>5
    <3> QED BY <1>2, <2>1, <2>5, <3>1, <3>2
  <2>6. CASE q = p /\ repository[p] = Absent
    <3>1. repository'[p].seen = <<n>> /\ repository'[p].base # "created" /\ since'[p] = Len(logs)
      BY <1>4, <1>5, <2>6
    <3>2. Owns(p, logs, Len(logs)) = <<>>
      <4>1. logs \in Seq(Origins) /\ Len(logs) \in Nat /\ Len(logs) <= Len(logs)
        BY <1>2 DEF RoutingInvariant, Typed
      <4> QED BY <4>1, OwnsNothing
    <3>3. Owns(p, logs', Len(logs)) = Append(Owns(p, logs, Len(logs)), n)
      <4>1. Len(logs) \in 0..Len(logs)
        BY <1>2
      <4> HIDE DEF n
      <4> QED BY <2>2, <2>6, <4>1
    <3>4. Append(<<>>, n) = <<n>>
      OBVIOUS
    <3> HIDE DEF n
    <3> QED BY <2>6, <3>1, <3>2, <3>3, <3>4
  <2> QED BY <2>4, <2>5, <2>6
<1>9. Followed'
  <2>1. p # Factory
    BY <1>1, RoutingAssumption DEF p
  <2>2. Wanted(logs', Open', config'.whitelist) = graph.pools
    BY <1>1, <2>1, RecordedKeeps DEF p
  <2> QED BY <1>1, <2>2 DEF Followed
<1> QED BY <1>2, <1>6, <1>7, <1>8, <1>9 DEF RoutingInvariant

(* a pair that is followed was to be followed, and none of its logs is before it *)
LEMMA IsFollowedKeeps ==
    ASSUME RoutingInvariant, NEW o \in Origins, IsFollowed(o)
    PROVE  RoutingInvariant'
<1> DEFINE p == o.pair
           n == Len(logs) + 1
           new == [base |-> "created", seen |-> <<>>]
<1>1. /\ Recorded(o) /\ p \in Pools \ V3Pools /\ UNCHANGED <<config, listening, addresses, labels>>
      /\ o.address = Factory /\ Open /\ Welcome(o.pair, graph.pools) /\ (addresses = {} \/ p = Sample)
      /\ graph' = AddPool(graph, p, Ends(p)) /\ repository' = [repository EXCEPT ![p] = new]
      /\ since' = SinceNow(p, n) /\ listening
  BY DEF IsFollowed, Recorded
<1>2. /\ logs' \in Seq(Origins) /\ Len(logs') = n /\ Len(logs') <= MaxLogs /\ Len(logs) \in Nat
      /\ PairsOfLogs' /\ Quiet' /\ n \in Ids
      /\ DOMAIN logs \subseteq DOMAIN logs' /\ \A i \in DOMAIN logs : logs'[i] = logs[i]
      /\ n \in DOMAIN logs' /\ logs'[n] = o
  BY <1>1, RecordedKeeps
<1>3. /\ repository \in [Pools -> State \cup {Absent}]
      /\ since \in [Pools -> 0..MaxLogs] /\ \A q \in Pools : since[q] \in 0..Len(logs)
  BY <1>2 DEF RoutingInvariant, Typed
<1>4. new \in State /\ new.seen = <<>>
  <2>1. <<>> \in Seq(Ids)
    OBVIOUS
  <2> QED BY <2>1 DEF State
<1>5. GraphInv(graph') /\ graph'.pools = graph.pools \cup {p} /\ graph'.pools \cap V3Pools = {}
  <2>1. GraphInv(graph) /\ graph.pools \cap V3Pools = {}
    BY DEF RoutingInvariant, Typed
  <2> HIDE DEF p
  <2>2. GraphInv(AddPool(graph, p, Ends(p))) /\ AddPool(graph, p, Ends(p)).pools = graph.pools \cup {p}
    BY <1>1, <2>1, AddedPool
  <2> QED BY <1>1, <2>1, <2>2
<1> HIDE DEF new
<1>6. /\ repository'[p] = new /\ \A q \in Pools \ {p} : repository'[q] = repository[q]
      /\ since'[p] = n /\ \A q \in Pools \ {p} : since'[q] = since[q]
      /\ since' \in [Pools -> 0..MaxLogs] /\ repository' \in [Pools -> State \cup {Absent}]
      /\ \A q \in Pools : since'[q] <= Len(logs')
  <2>1. n \in 0..MaxLogs
    BY <1>2, RoutingAssumption
  <2> HIDE DEF n
  <2>2. /\ repository'[p] = new /\ \A q \in Pools \ {p} : repository'[q] = repository[q]
        /\ repository' \in [Pools -> State \cup {Absent}]
    BY <1>1, <1>3, <1>4
  <2>3. /\ since'[p] = n /\ \A q \in Pools \ {p} : since'[q] = since[q]
        /\ since' \in [Pools -> 0..MaxLogs]
    BY <1>1, <1>3, <2>1 DEF SinceNow
  <2>4. \A q \in Pools : since'[q] <= Len(logs')
    BY <1>2, <1>3, <2>3 DEF n
  <2> QED BY <2>2, <2>3, <2>4
<1> HIDE DEF p
<1>7. Typed'
  <2>1. GraphInv(graph)'
    BY <1>5 DEF GraphInv, Graph, Neighbours, Near
  <2>2. (config \in Configs /\ listening \in BOOLEAN /\ addresses \subseteq Pools /\ DOMAIN labels = addresses)'
    BY <1>1 DEF RoutingInvariant, Typed
  <2> QED BY <1>2, <1>5, <1>6, <2>1, <2>2 DEF Typed
<1>8. Subscribed'
  <2>1. config.v2 \cup config.v3 \subseteq addresses
    BY <1>1 DEF RoutingInvariant, Subscribed
  <2>2. ASSUME addresses # {}, NEW q \in Pools \ {Sample}, repository'[q] # Absent PROVE q \in addresses
    <3>1. repository[q] # Absent
      BY <1>1, <1>6, <2>2
    <3> QED BY <1>1, <2>2, <3>1 DEF RoutingInvariant, Subscribed
  <2> QED BY <1>1, <2>1, <2>2 DEF Subscribed
<1>9. Kept'
  <2> SUFFICES ASSUME NEW q \in Pools, repository'[q] # Absent
               PROVE  /\ repository'[q].seen = Owns(q, logs', since'[q])
                      /\ repository'[q].base = "created" => \E i \in DOMAIN logs' : logs'[i].pair = q
    BY DEF Kept
  <2>1. CASE q = p
    <3>1. Owns(q, logs', n) = <<>>
      <4>1. n \in Nat /\ Len(logs') <= n
        BY <1>2
      <4> HIDE DEF n
      <4> QED BY <1>2, <4>1, OwnsNothing
    <3>2. logs'[n].pair = q
      BY <1>2, <2>1 DEF p
    <3> QED BY <1>2, <1>4, <1>6, <2>1, <3>1, <3>2
  <2>2. CASE q # p
    <3>1. repository'[q] = repository[q] /\ since'[q] = since[q]
      BY <1>6, <2>2
    <3>2. /\ repository[q].seen = Owns(q, logs, since[q])
          /\ repository[q].base = "created" => \E i \in DOMAIN logs : logs[i].pair = q
      BY <3>1 DEF RoutingInvariant, Kept
    <3>3. since[q] \in 0..Len(logs) /\ o.address # q
      BY <1>1, <1>3, RoutingAssumption
    <3>4. Owns(q, logs', since[q]) = Owns(q, logs, since[q])
      BY <1>1, <3>3, RecordedKeeps
    <3> QED BY <1>2, <3>1, <3>2, <3>4
  <2> QED BY <2>1, <2>2
<1>10. Followed'
  <2>1. Wanted(logs', Open', config'.whitelist) = graph.pools \cup {p}
    BY <1>1, RecordedKeeps DEF p
  <2> QED BY <1>5, <2>1 DEF Followed
<1> QED BY <1>2, <1>7, <1>8, <1>9, <1>10 DEF RoutingInvariant

(* the subscription has the configured pools and all that there is a state of *)
LEMMA ListenKeeps ==
    ASSUME RoutingInvariant, Listen
    PROVE  RoutingInvariant'
<1>1. /\ listening' = TRUE /\ addresses' = config.v2 \cup config.v3 \cup Known
      /\ labels' = LabelsOf(config.v2, config.v3, Known)
      /\ UNCHANGED <<config, repository, graph, logs, since>> /\ ~listening
  BY DEF Listen
<1>2. config \in Configs /\ config.v2 \subseteq Pools /\ config.v3 \subseteq Pools /\ Known \subseteq Pools
  BY RoutingAssumption DEF RoutingInvariant, Typed, Known
<1>3. DOMAIN labels' = addresses'
  BY <1>1 DEF LabelsOf
<1>4. logs = <<>> /\ logs \in Seq(Origins)
  BY <1>1 DEF RoutingInvariant, Quiet, Typed
<1>5. Typed'
  <2>1. GraphInv(graph)' /\ (graph.pools \cap V3Pools = {})'
    BY <1>1 DEF RoutingInvariant, Typed, GraphInv, Graph, Neighbours, Near
  <2>2. /\ (logs \in Seq(Origins) /\ Len(logs) <= MaxLogs)'
        /\ (repository \in [Pools -> State \cup {Absent}])'
        /\ (since \in [Pools -> 0..MaxLogs] /\ \A p \in Pools : since[p] <= Len(logs))'
    BY <1>1 DEF RoutingInvariant, Typed
  <2> QED BY <1>1, <1>2, <1>3, <2>1, <2>2 DEF Typed
<1>6. Quiet'
  BY <1>1 DEF Quiet
<1>7. Subscribed'
  BY <1>1 DEF Subscribed, Known
<1>8. PairsOfLogs'
  BY <1>1 DEF RoutingInvariant, PairsOfLogs, Fits
<1>9. Kept'
  BY <1>1 DEF RoutingInvariant, Kept
<1>10. Followed'
  <2>1. graph.pools = {}
    <3>1. graph.pools = Wanted(logs, Open, config.whitelist)
      BY DEF RoutingInvariant, Followed
    <3> QED BY <1>4, <3>1, WantedNothing
  <2>2. Wanted(logs', Open', config'.whitelist) = {}
    <3> DEFINE open == Open'
               list == config'.whitelist
    <3>1. Wanted(<<>>, open, list) = {}
      <4> HIDE DEF open, list
      <4> QED BY WantedNothing
    <3> QED BY <1>1, <1>4, <3>1
  <2> QED BY <1>1, <2>1, <2>2 DEF Followed
<1> QED BY <1>5, <1>6, <1>7, <1>8, <1>9, <1>10 DEF RoutingInvariant

(* a request makes the state of the made-up pool anew *)
LEMMA RequestSampleKeeps ==
    ASSUME RoutingInvariant, RequestSample
    PROVE  RoutingInvariant'
<1> DEFINE new == [base |-> "made up", seen |-> <<>>]
<1>1. /\ repository' = [repository EXCEPT ![Sample] = new]
      /\ since' = [since EXCEPT ![Sample] = Len(logs)]
      /\ UNCHANGED <<config, listening, addresses, labels, graph, logs>>
  BY DEF RequestSample
<1>2. new \in State /\ new.seen = <<>> /\ new.base # "created"
  <2>1. <<>> \in Seq(Ids)
    OBVIOUS
  <2> QED BY <2>1 DEF State
<1> HIDE DEF new
<1>3. /\ repository \in [Pools -> State \cup {Absent}] /\ since \in [Pools -> 0..MaxLogs]
      /\ logs \in Seq(Origins) /\ Len(logs) \in 0..MaxLogs /\ Sample \in Pools
      /\ \A p \in Pools : since[p] <= Len(logs)
  BY RoutingAssumption DEF RoutingInvariant, Typed
<1>4. /\ repository'[Sample] = new /\ \A q \in Pools \ {Sample} : repository'[q] = repository[q]
      /\ since'[Sample] = Len(logs) /\ \A q \in Pools \ {Sample} : since'[q] = since[q]
      /\ since' \in [Pools -> 0..MaxLogs] /\ repository' \in [Pools -> State \cup {Absent}]
  BY <1>1, <1>2, <1>3
<1>5. Typed'
  <2>1. GraphInv(graph)' /\ (graph.pools \cap V3Pools = {})'
    BY <1>1 DEF RoutingInvariant, Typed, GraphInv, Graph, Neighbours, Near
  <2>2. (/\ config \in Configs /\ listening \in BOOLEAN /\ addresses \subseteq Pools
         /\ DOMAIN labels = addresses /\ logs \in Seq(Origins) /\ Len(logs) <= MaxLogs)'
    BY <1>1 DEF RoutingInvariant, Typed
  <2>3. \A p \in Pools : since'[p] <= Len(logs')
    BY <1>1, <1>3, <1>4
  <2> QED BY <1>4, <2>1, <2>2, <2>3 DEF Typed
<1>6. Quiet'
  BY <1>1, <1>4 DEF RoutingInvariant, Quiet
<1>7. Subscribed'
  BY <1>1, <1>4 DEF RoutingInvariant, Subscribed
<1>8. PairsOfLogs'
  BY <1>1 DEF RoutingInvariant, PairsOfLogs, Fits
<1>9. Kept'
  <2> SUFFICES ASSUME NEW q \in Pools, repository'[q] # Absent
               PROVE  /\ repository'[q].seen = Owns(q, logs, since'[q])
                      /\ repository'[q].base = "created" => \E i \in DOMAIN logs : logs[i].pair = q
    BY <1>1 DEF Kept
  <2>1. CASE q = Sample
    <3>1. Owns(q, logs, Len(logs)) = <<>>
      BY <1>3, OwnsNothing
    <3> QED BY <1>2, <1>4, <2>1, <3>1
  <2>2. CASE q # Sample
    BY <1>4, <2>2 DEF RoutingInvariant, Kept
  <2> QED BY <2>1, <2>2
<1>10. Followed'
  <2>1. Open' = Open
    BY <1>1 DEF Open
  <2> QED BY <1>1, <2>1 DEF RoutingInvariant, Followed
<1> QED BY <1>5, <1>6, <1>7, <1>8, <1>9, <1>10 DEF RoutingInvariant

(* before the subscription there is nothing *)
LEMMA InitHolds == Init => RoutingInvariant
<1> SUFFICES ASSUME Init PROVE RoutingInvariant
  OBVIOUS
<1>1. /\ config \in Configs /\ listening = FALSE /\ addresses = {} /\ labels = <<>>
      /\ repository = [p \in Pools |-> Absent] /\ graph = EmptyGraph /\ logs = <<>>
      /\ since = [p \in Pools |-> 0]
  BY DEF Init
<1>2. logs \in Seq(Origins) /\ Len(logs) = 0 /\ MaxLogs \in Nat /\ DOMAIN logs = {} /\ DOMAIN labels = {}
  BY <1>1, RoutingAssumption
<1>3. Typed
  <2>1. GraphInv(graph) /\ graph.pools \cap V3Pools = {}
    BY <1>1, NoGraph
  <2>2. /\ repository \in [Pools -> State \cup {Absent}]
        /\ since \in [Pools -> 0..MaxLogs] /\ \A p \in Pools : since[p] <= Len(logs)
    BY <1>1, <1>2
  <2>3. /\ config \in Configs /\ listening \in BOOLEAN /\ addresses \subseteq Pools
        /\ DOMAIN labels = addresses /\ logs \in Seq(Origins) /\ Len(logs) <= MaxLogs
    <3>1. DOMAIN labels = addresses
      BY <1>1, <1>2
    <3>2. config \in Configs /\ listening \in BOOLEAN /\ addresses \subseteq Pools
      BY <1>1
    <3>3. logs \in Seq(Origins) /\ Len(logs) <= MaxLogs
      BY <1>2
    <3> QED BY <3>1, <3>2, <3>3
  <2> QED BY <2>1, <2>2, <2>3 DEF Typed
<1>4. Quiet /\ Subscribed /\ PairsOfLogs /\ Kept
  BY <1>1, <1>2 DEF Quiet, Subscribed, PairsOfLogs, Kept
<1>5. Followed
  <2>1. Wanted(<<>>, Open, config.whitelist) = {}
    <3> DEFINE open == Open
               list == config.whitelist
    <3> HIDE DEF open, list
    <3>1. Wanted(<<>>, open, list) = {}
      BY WantedNothing
    <3> QED BY <3>1 DEF open, list
  <2> QED BY <1>1, <2>1, NoGraph DEF Followed
<1> QED BY <1>3, <1>4, <1>5 DEF RoutingInvariant

(* every step keeps it *)
LEMMA StepHolds == RoutingInvariant /\ [Next]_vars => RoutingInvariant'
<1> SUFFICES ASSUME RoutingInvariant, [Next]_vars PROVE RoutingInvariant'
  OBVIOUS
<1>1. CASE Listen
  BY <1>1, ListenKeeps
<1>2. CASE PairIsCreated \/ PoolLogs \/ ForeignLogs \/ PlaySample
  <2>1. PICK o \in Origins : GoesBy(o) \/ Reaches(o) \/ IsFollowed(o)
    BY <1>2, LogStep
  <2> QED BY <2>1, GoesByKeeps, ReachesKeeps, IsFollowedKeeps
<1>3. CASE RequestSample
  BY <1>3, RequestSampleKeeps
<1>4. CASE UNCHANGED vars
  <2>1. UNCHANGED <<config, listening, addresses, labels, repository, graph, logs, since>>
    BY <1>4 DEF vars
  <2>2. Typed'
    BY <2>1 DEF RoutingInvariant, Typed, GraphInv, Graph, Neighbours, Near
  <2>3. Quiet' /\ Subscribed' /\ Kept'
    BY <2>1 DEF RoutingInvariant, Quiet, Subscribed, Kept
  <2>4. PairsOfLogs'
    BY <2>1 DEF RoutingInvariant, PairsOfLogs, Fits
  <2>5. Followed'
    BY <2>1 DEF RoutingInvariant, Followed, Open
  <2> QED BY <2>2, <2>3, <2>4, <2>5 DEF RoutingInvariant
<1> QED BY <1>1, <1>2, <1>3, <1>4 DEF Next

(* The invariant of the routing: the graph has the pools that are followed  *)
(* and joins their tokens, what there is a state of passes the filter, and  *)
(* the states and the pools that are followed are what the logs make them.  *)
THEOREM RoutingIsInvariant == Spec => []RoutingInvariant
<1>1. Init => RoutingInvariant
  BY InitHolds
<1>2. RoutingInvariant /\ [Next]_vars => RoutingInvariant'
  BY StepHolds
<1> QED BY <1>1, <1>2, PTL DEF Spec

(* The state, the graph and the labels have their types, whatever logs there *)
(* are and whatever is configured.                                           *)
THEOREM RoutingTyped == Spec => []TypeOK
<1>1. RoutingInvariant => TypeOK
  <2> SUFFICES ASSUME RoutingInvariant PROVE TypeOK
    OBVIOUS
  <2>1. graph.pools \subseteq Pools /\ graph.pools \cap V3Pools = {}
    BY DEF RoutingInvariant, Typed, GraphInv, Graph
  <2> QED BY <2>1 DEF RoutingInvariant, Typed, TypeOK, Origins
<1> QED BY <1>1, RoutingIsInvariant, PTL

(* Each log takes effect once, in its own pool, in the order of the chain:  *)
(* no handler and no filter loses a log of a pool there is a state of, and  *)
(* no error of one handler keeps it from the other (dispatch, base_filter). *)
THEOREM LogsTakeEffectOnce == Spec => []EachLogOnceInItsPool
<1>1. RoutingInvariant => EachLogOnceInItsPool
  BY DEF RoutingInvariant, Kept, EachLogOnceInItsPool, Own, Owns
<1> QED BY <1>1, RoutingIsInvariant, PTL

(* The V2 handler follows exactly the pairs of its factory that were         *)
(* connected to the whitelist when they were created: should_track_pool and  *)
(* the breadth-first search miss none and let none in.                       *)
THEOREM FollowsRightly == Spec => []FollowsWhatConnects
<1>1. RoutingInvariant => FollowsWhatConnects
  <2> SUFFICES ASSUME graph.pools = Wanted(logs, Open, config.whitelist) PROVE FollowsWhatConnects
    BY DEF RoutingInvariant, Followed
  <2> QED BY DEF FollowsWhatConnects, Wanted, WelcomeTo, ConnectedTo, Welcome, Connected
<1> QED BY <1>1, RoutingIsInvariant, PTL
=============================================================================
