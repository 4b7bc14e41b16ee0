--------------------------- MODULE SearchTreeProofs ---------------------------
(***************************************************************************)
(* Proofs about SearchTree.  IInv says that the tree is finite, that what  *)
(* leads to a node is there (WellFormed), and that each handler is where   *)
(* its path leads to (Led).  The way of a string, which the code goes step *)
(* by step, is no longer than the tree is deep (DepthBounds), takes the    *)
(* turns that lead to a node (WayTurns), and passes by every node that the *)
(* string, or a beginning of it, leads to (Follow).  Strings that lead to  *)
(* the same node begin alike (Agree).  From these follows what SearchOne   *)
(* finds, and what Insert and Erase leave of the paths that are            *)
(* registered.                                                             *)
(*                                                                         *)
(* Traverse lists what is at and below a node: the handlers on the left,   *)
(* the node's own, those below the middle, those on the right, and their   *)
(* paths are in that order (PartsInOrder).  By induction on the depth that *)
(* is left it lists all of them, or the first limit of them                *)
(* (TraverseLists).  What a path that begins with the string leads to is   *)
(* where SearchNode ends or below its middle (MatchingIsBelow).            *)
(***************************************************************************)
EXTENDS SearchTree, FiniteSetTheorems, WellFoundedInduction, TLAPS

Chars == UNION {Range(s) : s \in Path}
Node == [c : Chars, data : Data \cup {NULL}]

WellFormed(t) ==
    /\ t = [np \in DOMAIN t |-> t[np]]
    /\ IsFiniteSet(DOMAIN t)
    /\ DOMAIN t \subseteq Seq(Turn)
    /\ \A np \in DOMAIN t : t[np] \in Node /\ (np # root => Front(np) \in DOMAIN t)

\* The character that is compared after k turns, as np turns.
Turns(t, str, np, p) ==
    /\ p \in [0..Len(np) -> 1..Len(str)]
    /\ p[0] = 1
    /\ \A k \in 0..(Len(np) - 1) :
           /\ SubSeq(np, 1, k) \in DOMAIN t
           /\ np[k + 1] = Compare(str[p[k]], t[SubSeq(np, 1, k)].c)
           /\ p[k + 1] = IF np[k + 1] = "center" THEN p[k] + 1 ELSE p[k]

\* str leads to np.
Leads(t, str, np) ==
    /\ np \in DOMAIN t /\ t[np].c = str[Len(str)]
    /\ \E p : Turns(t, str, np, p) /\ p[Len(np)] = Len(str)

\* Each handler is where its path leads to.
Led(t) == \A np \in DOMAIN t : t[np].data # NULL => Leads(t, t[np].data.str, np)

IInv == WellFormed(tree) /\ Led(tree)

\* The strings that are registered, looked up and erased.
Key == {s \in Seq(Nat \ {0}) : s # <<>>}

-----------------------------------------------------------------------------

\* Induction up to N, over a set of numbers.
LEMMA UpTo ==
    ASSUME NEW N \in Nat, NEW G, 0 \in G, \A n \in 1..N : n - 1 \in G => n \in G
    PROVE  \A n \in 0..N : n \in G
<1> DEFINE T == {n \in 0..N : n \notin G}
<1> SUFFICES ASSUME T # {} PROVE FALSE
  OBVIOUS
<1>1. T \subseteq Nat
  OBVIOUS
<1>2. PICK x \in T : \A y \in T : <<y, x>> \notin OpToRel(<, Nat)
  BY <1>1, NatLessThanWellFounded, WFMin, Zenon
<1>3. x \in 1..N /\ x - 1 \in 0..N /\ x - 1 < x /\ x - 1 \in Nat /\ x \in Nat
  <2>1. x \in 0..N /\ x # 0
    OBVIOUS
  <2> QED
    BY <2>1
<1>4. <<x - 1, x>> \in OpToRel(<, Nat)
  BY <1>3, Zenon DEF OpToRel
<1>5. x - 1 \in G
  BY <1>2, <1>3, <1>4
<1> QED
  BY <1>3, <1>5

\* f is made step by step.
Stepwise(f, N, S, first, F) ==
    /\ f \in [0..N -> S] /\ f[0] = first
    /\ \A n \in 1..N : f[n] = F[n][f[n - 1]]

Steppable(N, S, first, F) == N \in Nat /\ first \in S /\ F \in [1..N -> [S -> S]]

LEMMA StepByStep ==
    \A N, S, first, F : Steppable(N, S, first, F) => \E f : Stepwise(f, N, S, first, F)
<1> SUFFICES ASSUME NEW N, NEW S, NEW first, NEW F,
                    N \in Nat, first \in S, F \in [1..N -> [S -> S]]
             PROVE  \E f : Stepwise(f, N, S, first, F)
  BY DEF Steppable
<1> DEFINE Is(n, f) == /\ f \in [0..n -> S] /\ f[0] = first
                       /\ \A k \in 1..n : f[k] = F[k][f[k - 1]]
           G == {n \in 0..N : \E f : Is(n, f)}
<1>1. 0 \in G
  <2>1. Is(0, [k \in 0..0 |-> first])
    OBVIOUS
  <2> HIDE DEF Is
  <2> QED
    BY <2>1
<1>2. ASSUME NEW n \in 1..N, n - 1 \in G PROVE n \in G
  <2>1. PICK f : Is(n - 1, f)
    BY <1>2
  <2> DEFINE g == [k \in 0..n |-> IF k = n THEN F[n][f[n - 1]] ELSE f[k]]
  <2>2. \A k \in 0..(n - 1) : g[k] = f[k] /\ f[k] \in S
    BY <2>1
  <2>3. g[n] = F[n][g[n - 1]] /\ g[n] \in S
    BY <2>1, <2>2
  <2>4. g \in [0..n -> S]
    <3>1. ASSUME NEW k \in 0..n PROVE g[k] \in S
      <4>1. k = n \/ k \in 0..(n - 1)
        OBVIOUS
      <4> HIDE DEF g
      <4> QED
        BY <4>1, <2>2, <2>3
    <3> QED
      BY <3>1
  <2> HIDE DEF g
  <2>5. ASSUME NEW k \in 1..n PROVE g[k] = F[k][g[k - 1]]
    <3>1. CASE k = n
      BY <2>3, <3>1
    <3>2. CASE k # n
      <4>1. k \in 1..(n - 1) /\ k \in 0..(n - 1) /\ k - 1 \in 0..(n - 1)
        BY <3>2
      <4> QED
        BY <2>1, <2>2, <4>1
    <3> QED
      BY <3>1, <3>2
  <2>6. Is(n, g)
    BY <2>1, <2>2, <2>4, <2>5
  <2> QED
    BY <2>6
<1> HIDE DEF G
<1>3. \A n \in 0..N : n \in G
  BY <1>1, <1>2, UpTo
<1>4. N \in G
  BY <1>3
<1> QED
  BY <1>4 DEF G, Stepwise

-----------------------------------------------------------------------------
(* Beginnings of sequences.                                                *)

LEMMA Beginning ==
    ASSUME NEW S, NEW s \in Seq(S), NEW n \in 0..Len(s)
    PROVE  /\ SubSeq(s, 1, n) \in Seq(S) /\ Len(SubSeq(s, 1, n)) = n
           /\ \A i \in 1..n : SubSeq(s, 1, n)[i] = s[i]
           /\ \A k \in 0..n : SubSeq(SubSeq(s, 1, n), 1, k) = SubSeq(s, 1, k)
           /\ n > 0 => SubSeq(s, 1, n) = Append(SubSeq(s, 1, n - 1), s[n])
OBVIOUS

LEMMA WholeAndNone ==
    ASSUME NEW S, NEW s \in Seq(S)
    PROVE  SubSeq(s, 1, Len(s)) = s /\ SubSeq(s, 1, 0) = <<>>
OBVIOUS

LEMMA Appended ==
    ASSUME NEW S, NEW s \in Seq(S), NEW e \in S
    PROVE  /\ Append(s, e) \in Seq(S) /\ Len(Append(s, e)) = Len(s) + 1
           /\ Append(s, e)[Len(s) + 1] = e
           /\ \A i \in 1..Len(s) : Append(s, e)[i] = s[i]
           /\ \A k \in 0..Len(s) : SubSeq(Append(s, e), 1, k) = SubSeq(s, 1, k)
           /\ Front(Append(s, e)) = s
BY DEF Front

\* The prefixes of a node are in the tree.
LEMMA PrefixesInTree ==
    ASSUME NEW t, WellFormed(t), NEW np \in DOMAIN t
    PROVE  \A k \in 0..Len(np) : SubSeq(np, 1, k) \in DOMAIN t
<1> DEFINE N == Len(np)
           G == {n \in 0..N : SubSeq(np, 1, N - n) \in DOMAIN t}
<1>1. np \in Seq(Turn) /\ N \in Nat
  BY DEF WellFormed
<1>2. 0 \in G
  <2>1. N - 0 = N /\ SubSeq(np, 1, N) = np
    BY <1>1
  <2>2. SubSeq(np, 1, N - 0) \in DOMAIN t
    BY <2>1
  <2> QED
    BY <1>1, <2>2
<1>3. ASSUME NEW n \in 1..N, n - 1 \in G PROVE n \in G
  <2> DEFINE q == SubSeq(np, 1, N - (n - 1))
  <2>1. q \in DOMAIN t /\ N - (n - 1) \in 1..N /\ N - (n - 1) - 1 = N - n
    BY <1>1, <1>3
  <2>2. q = Append(SubSeq(np, 1, N - n), np[N - (n - 1)])
    BY <1>1, <2>1
  <2>3. SubSeq(np, 1, N - n) \in Seq(Turn) /\ np[N - (n - 1)] \in Turn
    BY <1>1, <2>1
  <2> HIDE DEF q
  <2>4. q # root /\ Front(q) = SubSeq(np, 1, N - n)
    <3> DEFINE r == SubSeq(np, 1, N - n)
               e == np[N - (n - 1)]
    <3>1. q = Append(r, e) /\ r \in Seq(Turn) /\ e \in Turn
      BY <2>2, <2>3
    <3> HIDE DEF r, e
    <3>2. Len(q) = Len(r) + 1 /\ Len(r) \in Nat /\ Front(q) = r
      BY <3>1, Appended
    <3>3. q # <<>>
      BY <3>2
    <3> QED
      BY <3>2, <3>3 DEF root, r
  <2>5. Front(q) \in DOMAIN t
    BY <2>1, <2>4 DEF WellFormed
  <2> QED
    BY <1>1, <2>4, <2>5
<1> HIDE DEF G
<1>4. \A n \in 0..N : n \in G
  BY <1>1, <1>2, <1>3, UpTo
<1>5. ASSUME NEW k \in 0..N PROVE SubSeq(np, 1, k) \in DOMAIN t
  <2>1. N - k \in 0..N /\ N - (N - k) = k
    BY <1>1
  <2> QED
    BY <1>4, <2>1 DEF G
<1> QED
  BY <1>5

-----------------------------------------------------------------------------
(* The way.                                                                *)

LEMMA CharsAreNumbers == Chars \subseteq Nat
<1> SUFFICES ASSUME NEW s \in Path, NEW c \in Range(s) PROVE c \in Nat
  BY DEF Chars
<1>1. s \in Seq(Nat \ {0})
  BY PathAssumption
<1> QED
  BY <1>1 DEF Range

LEMMA PathsAreKeys == Path \subseteq Key /\ \A s \in Query : s # <<>> => s \in Key
BY PathAssumption DEF Key

LEMMA Comparison ==
    ASSUME NEW ch \in Nat, NEW c \in Nat
    PROVE  /\ Compare(ch, c) \in Turn
           /\ Compare(ch, c) = "center" <=> ch = c
BY DEF Compare, Turn

Place == [np : Seq(Turn), pos : Nat]

Matches(t, str, w) == w.np \in DOMAIN t /\ str[w.pos] = t[w.np].c
Ended(t, str, w) == w.np \notin DOMAIN t \/ (Matches(t, str, w) /\ w.pos = Len(str))

\* One step of the way.
LEMMA DownIs ==
    ASSUME NEW t, WellFormed(t), NEW str \in Key, NEW w \in Place, w.pos \in 1..Len(str)
    PROVE  LET turn == Compare(str[w.pos], t[w.np].c)
           IN  /\ Ended(t, str, w) => Down(t, str, w) = w
               /\ ~Ended(t, str, w) =>
                     /\ Down(t, str, w) =
                            [np |-> Append(w.np, turn),
                             pos |-> IF turn = "center" THEN w.pos + 1 ELSE w.pos]
                     /\ w.np \in DOMAIN t /\ turn \in Turn
                     /\ turn = "center" <=> Matches(t, str, w)
                     /\ turn = "center" => w.pos + 1 \in 1..Len(str)
<1> DEFINE turn == Compare(str[w.pos], t[w.np].c)
<1>1. CASE w.np \notin DOMAIN t
  BY <1>1 DEF Ended, Down
<1>2. CASE w.np \in DOMAIN t
  <2>1. str \in Seq(Nat) /\ str[w.pos] \in Nat /\ t[w.np].c \in Nat
    BY <1>2, CharsAreNumbers DEF WellFormed, Node, Key
  <2>2. turn \in Turn /\ (turn = "center" <=> Matches(t, str, w))
    BY <1>2, <2>1, Comparison DEF Matches
  <2>3. w = [np |-> w.np, pos |-> w.pos]
    BY DEF Place
  <2>4. CASE turn # "center"
    <3>1. Down(t, str, w) = [w EXCEPT !.np = Append(w.np, turn)]
      BY <1>2, <2>4 DEF Down
    <3>2. Down(t, str, w) = [np |-> Append(w.np, turn), pos |-> w.pos]
      BY <3>1, <2>3
    <3> QED
      BY <1>2, <2>2, <2>4, <3>2 DEF Ended
  <2>5. CASE turn = "center" /\ w.pos = Len(str)
    BY <1>2, <2>2, <2>5 DEF Ended, Down
  <2>6. CASE turn = "center" /\ w.pos # Len(str)
    <3>1. Down(t, str, w) = [np |-> Append(w.np, "center"), pos |-> w.pos + 1]
      BY <1>2, <2>6 DEF Down, center
    <3>2. w.pos + 1 \in 1..Len(str)
      BY <2>1, <2>6
    <3> QED
      BY <1>2, <2>2, <2>6, <3>1, <3>2 DEF Ended
  <2> QED
    BY <2>4, <2>5, <2>6
<1> QED
  BY <1>1, <1>2

LEMMA DepthIsNat ==
    ASSUME NEW t, WellFormed(t)
    PROVE  /\ IsFiniteSet({Len(np) : np \in DOMAIN t})
           /\ Depth(t) \in Nat
<1> DEFINE f == [np \in DOMAIN t |-> Len(np)]
           L == {Len(np) : np \in DOMAIN t}
<1>1. f \in Surjection(DOMAIN t, L)
  BY DEF Surjection
<1> HIDE DEF f, L
<1>2. IsFiniteSet(L)
  BY <1>1, FS_Surjection DEF WellFormed
<1> QED
  BY <1>2, FS_CardinalityType DEF Depth, L

\* The way is as defined: a first place, and then step by step.
LEMMA WayByStep ==
    ASSUME NEW t, WellFormed(t), NEW str \in Key
    PROVE  LET way == Way(t, str)
           IN  /\ way \in [0..Depth(t) -> Place]
               /\ way[0] = [np |-> root, pos |-> 1]
               /\ \A n \in 1..Depth(t) : way[n] = Down(t, str, way[n - 1])
               /\ \A n \in 0..Depth(t) : way[n].pos \in 1..Len(str)
<1> DEFINE N == Depth(t)
           first == [np |-> root, pos |-> 1]
           S == {w \in Place : w.pos \in 1..Len(str)}
           F == [n \in 1..N |-> [w \in S |-> Down(t, str, w)]]
           Steps(f) == [n \in 0..N |-> IF n = 0 THEN first ELSE Down(t, str, f[n - 1])]
<1>1. N \in Nat
  BY DepthIsNat
<1>2. first \in S
  <2>1. root \in Seq(Turn) /\ 1 \in 1..Len(str)
    BY DEF root, Key
  <2> QED
    BY <2>1 DEF Place
<1>3. ASSUME NEW w \in S PROVE Down(t, str, w) \in S
  <2>1. w.np \in Seq(Turn) /\ w.pos \in Nat
    BY DEF Place
  <2> HIDE DEF S
  <2>2. w \in Place /\ w.pos \in 1..Len(str)
    BY DEF S
  <2>3. CASE Ended(t, str, w)
    BY <2>2, <2>3, DownIs
  <2>4. CASE ~Ended(t, str, w)
    <3> DEFINE turn == Compare(str[w.pos], t[w.np].c)
               pos == IF turn = "center" THEN w.pos + 1 ELSE w.pos
    <3>1. /\ Down(t, str, w) = [np |-> Append(w.np, turn), pos |-> pos]
          /\ turn \in Turn /\ (turn = "center" => w.pos + 1 \in 1..Len(str))
      BY <2>2, <2>4, DownIs
    <3>2. Append(w.np, turn) \in Seq(Turn) /\ pos \in 1..Len(str) /\ pos \in Nat
      BY <2>1, <2>2, <3>1
    <3> HIDE DEF turn, pos
    <3> QED
      BY <3>1, <3>2 DEF S, Place
  <2> QED
    BY <2>3, <2>4
<1>4. F \in [1..N -> [S -> S]]
  BY <1>3
<1> HIDE DEF N, S, F, first
<1>5. PICK f \in [0..N -> S] : f[0] = first /\ \A n \in 1..N : f[n] = F[n][f[n - 1]]
  <2>1. Steppable(N, S, first, F)
    BY <1>1, <1>2, <1>4 DEF Steppable
  <2>2. PICK f : Stepwise(f, N, S, first, F)
    BY <2>1, StepByStep
  <2> QED
    BY <2>2 DEF Stepwise
<1> USE DEF N
<1>6. f = Steps(f)
  <2>1. ASSUME NEW n \in 0..N PROVE f[n] = Steps(f)[n]
    <3>1. CASE n = 0
      BY <1>5, <3>1
    <3>2. CASE n # 0
      <4>1. n \in 1..N /\ n - 1 \in 0..N
        BY <1>1, <3>2
      <4>2. f[n] = F[n][f[n - 1]] /\ f[n - 1] \in S
        BY <1>5, <4>1
      <4> QED
        BY <3>2, <4>1, <4>2 DEF F
    <3> QED
      BY <3>1, <3>2
  <2> QED
    BY <1>5, <2>1
<1> DEFINE way == Way(t, str)
<1>7. way = Steps(way)
  BY <1>6, Zenon DEF Way, first
<1> HIDE DEF way
<1>8. way[0] = first /\ \A n \in 1..N : way[n] = Down(t, str, way[n - 1])
  <2>1. Steps(way)[0] = first
    BY <1>1
  <2>2. ASSUME NEW n \in 1..N PROVE Steps(way)[n] = Down(t, str, way[n - 1])
    <3>1. n \in 0..N /\ n # 0
      BY <1>1
    <3> QED
      BY <3>1
  <2> QED
    BY <1>7, <2>1, <2>2
<1>9. \A n \in 0..N : way[n] \in S
  <2> DEFINE G == {n \in 0..N : way[n] \in S}
  <2>1. 0 \in G
    BY <1>1, <1>2, <1>8
  <2>2. ASSUME NEW n \in 1..N, n - 1 \in G PROVE n \in G
    <3>1. n \in 0..N /\ way[n - 1] \in S
      BY <1>1, <2>2
    <3> QED
      BY <1>3, <1>8, <3>1
  <2> HIDE DEF G
  <2>3. \A n \in 0..N : n \in G
    BY <1>1, <2>1, <2>2, UpTo
  <2> QED
    BY <2>3 DEF G
<1>10. way \in [0..N -> Place] /\ \A n \in 0..N : way[n].pos \in 1..Len(str)
  <2>1. \A n \in 0..N : way[n] \in Place /\ way[n].pos \in 1..Len(str)
    BY <1>9 DEF S
  <2>2. way = [n \in 0..N |-> way[n]]
    BY <1>7
  <2> QED
    BY <2>1, <2>2
<1> QED
  BY <1>8, <1>10 DEF way, first

\* A node is less deep than the tree.
LEMMA DepthBounds ==
    ASSUME NEW t, WellFormed(t), NEW np \in DOMAIN t
    PROVE  Len(np) \in Nat /\ Len(np) < Depth(t)
<1> DEFINE N == Len(np)
           L == {Len(q) : q \in DOMAIN t}
<1>1. np \in Seq(Turn) /\ N \in Nat
  BY DEF WellFormed
<1>2. ASSUME NEW k \in 0..N PROVE k \in L
  <2>1. SubSeq(np, 1, k) \in DOMAIN t
    BY PrefixesInTree
  <2>2. Len(SubSeq(np, 1, k)) = k
    BY <1>1
  <2> QED
    BY <2>1, <2>2
<1>3. IsFiniteSet(L) /\ Depth(t) = Cardinality(L) /\ Depth(t) \in Nat
  BY DepthIsNat DEF Depth
<1>4. 0..N \in SUBSET L
  BY <1>2
<1> HIDE DEF L
<1>5. Cardinality(0..N) <= Cardinality(L)
  BY <1>3, <1>4, FS_Subset
<1>6. Cardinality(0..N) = N + 1
  <2>1. 0 \in Int /\ N \in Int /\ ~(0 > N)
    BY <1>1
  <2>2. Cardinality(0..N) = IF 0 > N THEN 0 ELSE N - 0 + 1
    BY <2>1, FS_Interval
  <2> QED
    BY <1>1, <2>1, <2>2
<1> QED
  BY <1>1, <1>3, <1>5, <1>6

\* A turn more.
LEMMA OneMoreTurn ==
    ASSUME NEW t, WellFormed(t), NEW str \in Key, NEW w \in Place, w.pos \in 1..Len(str),
           ~Ended(t, str, w),
           NEW p, Turns(t, str, w.np, p), p[Len(w.np)] = w.pos
    PROVE  LET v == Down(t, str, w)
           IN  /\ Len(v.np) = Len(w.np) + 1
               /\ \E q : Turns(t, str, v.np, q) /\ q[Len(v.np)] = v.pos
<1> DEFINE turn == Compare(str[w.pos], t[w.np].c)
           n == Len(w.np)
           np == Append(w.np, turn)
           pos == IF turn = "center" THEN w.pos + 1 ELSE w.pos
           q == [k \in 0..(n + 1) |-> IF k = n + 1 THEN pos ELSE p[k]]
<1>1. /\ Down(t, str, w) = [np |-> np, pos |-> pos]
      /\ w.np \in DOMAIN t /\ turn \in Turn /\ pos \in 1..Len(str)
  BY DownIs
<1>2. w.np \in Seq(Turn) /\ n \in Nat
  BY DEF Place
<1>3. /\ Len(np) = n + 1 /\ np[n + 1] = turn
      /\ \A i \in 1..n : np[i] = w.np[i]
      /\ \A k \in 0..n : SubSeq(np, 1, k) = SubSeq(w.np, 1, k)
  BY <1>1, <1>2, Appended
<1>4. SubSeq(np, 1, n) = w.np
  BY <1>2, <1>3
<1> HIDE DEF np, pos
<1>5. q \in [0..(n + 1) -> 1..Len(str)]
  BY <1>1, <1>2 DEF Turns
<1>6. /\ q[n + 1] = pos
      /\ \A k \in 0..n : q[k] = p[k]
  BY <1>2
<1> HIDE DEF q
<1>7. ASSUME NEW k \in 0..(Len(np) - 1)
      PROVE  /\ SubSeq(np, 1, k) \in DOMAIN t
             /\ np[k + 1] = Compare(str[q[k]], t[SubSeq(np, 1, k)].c)
             /\ q[k + 1] = IF np[k + 1] = "center" THEN q[k] + 1 ELSE q[k]
  <2>1. CASE k = n
    <3>1. q[n] = w.pos /\ q[n + 1] = pos
      BY <1>2, <1>6
    <3>2. np[n + 1] = turn /\ turn = Compare(str[q[n]], t[SubSeq(np, 1, n)].c)
      BY <1>3, <1>4, <3>1
    <3>3. pos = IF turn = "center" THEN q[n] + 1 ELSE q[n]
      BY <3>1 DEF pos
    <3> HIDE DEF n, turn
    <3> QED
      BY <1>1, <1>4, <2>1, <3>1, <3>2, <3>3
  <2>2. CASE k # n
    <3>1. k \in 0..(n - 1) /\ k + 1 \in 1..n /\ k \in 0..n /\ k + 1 \in 0..n
      BY <1>2, <1>3, <2>2
    <3> HIDE DEF n
    <3>2. /\ SubSeq(w.np, 1, k) \in DOMAIN t
          /\ w.np[k + 1] = Compare(str[p[k]], t[SubSeq(w.np, 1, k)].c)
          /\ p[k + 1] = IF w.np[k + 1] = "center" THEN p[k] + 1 ELSE p[k]
      BY <3>1 DEF Turns, n
    <3> QED
      BY <1>3, <1>6, <3>1, <3>2
  <2> QED
    BY <2>1, <2>2
<1>8. Turns(t, str, np, q) /\ q[Len(np)] = pos
  <2>1. q[0] = 1
    BY <1>2, <1>6 DEF Turns
  <2> QED
    BY <1>3, <1>5, <1>6, <1>7, <2>1 DEF Turns
<1> QED
  BY <1>1, <1>3, <1>8

\* The places of the way are reached by its turns, and its end is one.
LEMMA WayTurns ==
    ASSUME NEW t, WellFormed(t), NEW str \in Key
    PROVE  LET way == Way(t, str)
           IN  /\ \A n \in 0..Depth(t) :
                      \E p : Turns(t, str, way[n].np, p) /\ p[Len(way[n].np)] = way[n].pos
               /\ Ended(t, str, EndOfWay(t, str))
<1> DEFINE way == Way(t, str)
           N == Depth(t)
           Reached(n) == \E p : Turns(t, str, way[n].np, p) /\ p[Len(way[n].np)] = way[n].pos
           G == {n \in 0..N : Reached(n) /\ (Ended(t, str, way[n]) \/ Len(way[n].np) = n)}
<1>1. N \in Nat
  BY DepthIsNat
<1>2. /\ way[0] = [np |-> root, pos |-> 1]
      /\ \A n \in 1..N : way[n] = Down(t, str, way[n - 1])
      /\ \A n \in 0..N : way[n] \in Place /\ way[n].pos \in 1..Len(str)
  BY WayByStep
<1> HIDE DEF way, N
<1>3. 0 \in G
  <2> DEFINE p == [k \in 0..0 |-> 1]
  <2>1. 1 \in 1..Len(str)
    BY <1>1, <1>2
  <2>2. p \in [0..0 -> 1..Len(str)] /\ p[0] = 1
    BY <2>1
  <2> HIDE DEF p
  <2>3. Len(way[0].np) = 0 /\ way[0].pos = 1
    BY <1>2 DEF root
  <2>4. Turns(t, str, way[0].np, p)
    BY <2>2, <2>3 DEF Turns
  <2> QED
    BY <1>1, <2>2, <2>3, <2>4
<1>4. ASSUME NEW n \in 1..N, n - 1 \in G PROVE n \in G
  <2> DEFINE w == way[n - 1]
  <2>1. /\ w \in Place /\ w.pos \in 1..Len(str)
        /\ way[n] = Down(t, str, w)
    BY <1>1, <1>2
  <2>2. Reached(n - 1) /\ (Ended(t, str, w) \/ Len(w.np) = n - 1)
    BY <1>4
  <2>3. CASE Ended(t, str, w)
    <3>1. way[n] = w
      BY <2>1, <2>3, DownIs
    <3> QED
      BY <1>1, <2>2, <2>3, <3>1
  <2>4. CASE ~Ended(t, str, w)
    <3>1. PICK p : Turns(t, str, w.np, p) /\ p[Len(w.np)] = w.pos
      BY <2>2
    <3>2. Reached(n) /\ Len(way[n].np) = Len(w.np) + 1
      BY <2>1, <2>4, <3>1, OneMoreTurn
    <3>3. Len(way[n].np) = n
      BY <1>1, <2>2, <2>4, <3>2
    <3> QED
      BY <1>1, <3>2, <3>3
  <2> QED
    BY <2>3, <2>4
<1>5. \A n \in 0..N : n \in G
  <2> HIDE DEF G
  <2> QED
    BY <1>1, <1>3, <1>4, UpTo
<1>6. Ended(t, str, way[N])
  <2>1. N \in G
    BY <1>1, <1>5
  <2>2. SUFFICES ASSUME Len(way[N].np) = N, ~Ended(t, str, way[N]) PROVE FALSE
    BY <2>1
  <2>3. way[N].np \in DOMAIN t
    BY <2>2 DEF Ended
  <2>4. Len(way[N].np) < N
    BY <2>3, DepthBounds DEF N
  <2> QED
    BY <1>1, <2>2, <2>4
<1>7. \A n \in 0..N : Reached(n)
  BY <1>5
<1> QED
  BY <1>6, <1>7 DEF way, N, EndOfWay

-----------------------------------------------------------------------------
(* What leads to a node.                                                   *)

\* The turns to a node are taken by the way.
LEMMA Follow ==
    ASSUME NEW t, WellFormed(t), NEW str \in Key, NEW np \in Seq(Turn), Len(np) <= Depth(t),
           NEW p, Turns(t, str, np, p)
    PROVE  \A k \in 0..Len(np) : Way(t, str)[k] = [np |-> SubSeq(np, 1, k), pos |-> p[k]]
<1> DEFINE way == Way(t, str)
           N == Depth(t)
           n == Len(np)
           G == {k \in 0..n : way[k] = [np |-> SubSeq(np, 1, k), pos |-> p[k]]}
<1>1. N \in Nat /\ n \in Nat /\ n <= N
  <2>1. N \in Nat
    BY DepthIsNat
  <2> QED
    BY <2>1
<1>2. /\ way[0] = [np |-> root, pos |-> 1]
      /\ \A k \in 1..N : way[k] = Down(t, str, way[k - 1])
      /\ \A k \in 0..N : way[k] \in Place /\ way[k].pos \in 1..Len(str)
  BY WayByStep
<1>3. /\ p \in [0..n -> 1..Len(str)] /\ p[0] = 1
      /\ \A k \in 0..(n - 1) :
             /\ SubSeq(np, 1, k) \in DOMAIN t
             /\ np[k + 1] = Compare(str[p[k]], t[SubSeq(np, 1, k)].c)
             /\ p[k + 1] = IF np[k + 1] = "center" THEN p[k] + 1 ELSE p[k]
  BY DEF Turns
<1>4. SubSeq(np, 1, 0) = root
  BY WholeAndNone DEF root
<1>5. \A k \in 1..n : SubSeq(np, 1, k) = Append(SubSeq(np, 1, k - 1), np[k])
  BY Beginning
<1>6. Len(str) \in Nat
  BY DEF Key
<1> HIDE DEF way, N, n
<1>7. 0 \in G
  BY <1>1, <1>2, <1>3, <1>4
<1>8. ASSUME NEW k \in 1..n, k - 1 \in G PROVE k \in G
  <2> DEFINE w == way[k - 1]
             q == SubSeq(np, 1, k - 1)
             i == p[k - 1]
  <2>1. k - 1 \in 0..(n - 1) /\ k \in 1..N /\ k - 1 \in 0..N /\ (k - 1) + 1 = k /\ k \in 0..n
    BY <1>1
  <2>2. w \in Place /\ w.pos \in 1..Len(str) /\ w.np = q /\ w.pos = i
    BY <1>2, <1>8, <2>1
  <2>3. /\ q \in DOMAIN t /\ np[k] = Compare(str[i], t[q].c)
        /\ p[k] = IF np[k] = "center" THEN i + 1 ELSE i
    BY <1>3, <2>1
  <2>4. p[k] \in 1..Len(str)
    BY <1>3, <2>1
  <2>5. way[k] = Down(t, str, w)
    BY <1>2, <2>1
  <2> HIDE DEF q, i, w
  <2>6. ~Ended(t, str, w)
    <3>1. SUFFICES ASSUME Matches(t, str, w), w.pos = Len(str) PROVE FALSE
      BY <2>2, <2>3 DEF Ended
    <3>2. str[i] \in Nat /\ t[q].c \in Nat
      BY <2>2, <2>3, CharsAreNumbers DEF WellFormed, Node, Key
    <3>3. str[i] = t[q].c
      BY <2>2, <3>1 DEF Matches
    <3>4. np[k] = "center"
      BY <2>3, <3>2, <3>3, Comparison
    <3> QED
      BY <1>6, <2>2, <2>3, <2>4, <3>1, <3>4
  <2>7. Down(t, str, w) =
            [np |-> Append(q, np[k]), pos |-> IF np[k] = "center" THEN i + 1 ELSE i]
    BY <2>2, <2>3, <2>6, DownIs
  <2>8. SubSeq(np, 1, k) = Append(q, np[k])
    BY <1>5 DEF q
  <2> QED
    BY <2>1, <2>3, <2>5, <2>7, <2>8
<1> HIDE DEF G
<1>9. \A k \in 0..n : k \in G
  BY <1>1, <1>7, <1>8, UpTo
<1> QED
  BY <1>9 DEF G, way, n

\* What leads to the same node begins alike.
LEMMA Agree ==
    ASSUME NEW t, WellFormed(t), NEW a \in Key, NEW b \in Key, NEW np \in Seq(Turn),
           NEW p, Turns(t, a, np, p), NEW q, Turns(t, b, np, q)
    PROVE  p = q /\ \A i \in 1..(p[Len(np)] - 1) : a[i] = b[i]
<1> DEFINE n == Len(np)
           G == {k \in 0..n : p[k] = q[k] /\ \A i \in 1..(p[k] - 1) : a[i] = b[i]}
<1>1. n \in Nat /\ a \in Seq(Nat) /\ b \in Seq(Nat)
  BY DEF Key
<1>2. /\ p \in [0..n -> 1..Len(a)] /\ p[0] = 1
      /\ \A k \in 0..(n - 1) :
             /\ SubSeq(np, 1, k) \in DOMAIN t
             /\ np[k + 1] = Compare(a[p[k]], t[SubSeq(np, 1, k)].c)
             /\ p[k + 1] = IF np[k + 1] = "center" THEN p[k] + 1 ELSE p[k]
  BY DEF Turns
<1>3. /\ q \in [0..n -> 1..Len(b)] /\ q[0] = 1
      /\ \A k \in 0..(n - 1) :
             /\ np[k + 1] = Compare(b[q[k]], t[SubSeq(np, 1, k)].c)
             /\ q[k + 1] = IF np[k + 1] = "center" THEN q[k] + 1 ELSE q[k]
  BY DEF Turns
<1> HIDE DEF n
<1>4. 0 \in G
  BY <1>1, <1>2, <1>3
<1>5. ASSUME NEW k \in 1..n, k - 1 \in G PROVE k \in G
  <2> DEFINE i == p[k - 1]
             c == t[SubSeq(np, 1, k - 1)].c
  <2>1. k - 1 \in 0..(n - 1) /\ k - 1 \in 0..n /\ (k - 1) + 1 = k /\ k \in 0..n
    BY <1>1
  <2>2. i = q[k - 1] /\ \A j \in 1..(i - 1) : a[j] = b[j]
    BY <1>5
  <2>3. /\ SubSeq(np, 1, k - 1) \in DOMAIN t
        /\ np[k] = Compare(a[i], c) /\ np[k] = Compare(b[i], c)
        /\ p[k] = IF np[k] = "center" THEN i + 1 ELSE i
        /\ q[k] = IF np[k] = "center" THEN i + 1 ELSE i
        /\ i \in 1..Len(a) /\ i \in 1..Len(b)
    BY <1>2, <1>3, <2>1, <2>2
  <2>4. c \in Nat /\ a[i] \in Nat /\ b[i] \in Nat
    <3>1. c \in Nat
      BY <2>3, CharsAreNumbers DEF WellFormed, Node
    <3> HIDE DEF c, i
    <3>2. a[i] \in Nat /\ b[i] \in Nat
      BY <1>1, <2>3
    <3> QED
      BY <3>1, <3>2
  <2> HIDE DEF i, c
  <2>5. np[k] = "center" => a[i] = b[i]
    BY <2>3, <2>4, Comparison
  <2>6. ASSUME NEW j \in 1..(p[k] - 1) PROVE a[j] = b[j]
    <3>1. j \in 1..(i - 1) \/ (j = i /\ np[k] = "center")
      BY <1>1, <2>3
    <3> QED
      BY <2>2, <2>5, <3>1
  <2> QED
    BY <2>1, <2>3, <2>6
<1> HIDE DEF G
<1>6. \A k \in 0..n : k \in G
  BY <1>1, <1>4, <1>5, UpTo
<1>7. p = q
  <2>1. \A k \in 0..n : p[k] = q[k]
    BY <1>6 DEF G
  <2>2. p = [k \in 0..n |-> p[k]] /\ q = [k \in 0..n |-> q[k]]
    BY <1>2, <1>3
  <2> QED
    BY <2>1, <2>2
<1>8. n \in G
  BY <1>1, <1>6
<1> QED
  BY <1>7, <1>8 DEF G, n

\* What turns as a prefix turns.
LEMMA PrefixTurns ==
    ASSUME NEW t, NEW a \in Key, NEW b \in Key, IsPrefix(a, b), NEW np \in Seq(Turn),
           NEW p, Turns(t, a, np, p)
    PROVE  Turns(t, b, np, p)
<1>1. Len(a) \in Nat /\ Len(b) \in Nat /\ Len(a) <= Len(b)
  BY DEF Key, IsPrefix
<1>2. \A i \in 1..Len(a) : a[i] = b[i]
  <2>1. a \in Seq(Nat) /\ b \in Seq(Nat)
    BY DEF Key
  <2>2. SubSeq(a, 1, Len(a)) = SubSeq(b, 1, Len(a))
    BY DEF IsPrefix
  <2>3. ASSUME NEW i \in 1..Len(a) PROVE a[i] = b[i]
    <3>1. SubSeq(a, 1, Len(a))[i] = a[i] /\ SubSeq(b, 1, Len(a))[i] = b[i]
      BY <1>1, <2>1
    <3> QED
      BY <2>2, <3>1
  <2> QED
    BY <2>3
<1>3. p \in [0..Len(np) -> 1..Len(a)] /\ Len(np) \in Nat
  BY DEF Turns
<1>4. p \in [0..Len(np) -> 1..Len(b)]
  BY <1>1, <1>3
<1>5. \A k \in 0..(Len(np) - 1) : a[p[k]] = b[p[k]]
  BY <1>2, <1>3
<1> QED
  BY <1>4, <1>5 DEF Turns

\* What leads to the same node is the same.
LEMMA OneLeads ==
    ASSUME NEW t, WellFormed(t), NEW a \in Key, NEW b \in Key, NEW np,
           Leads(t, a, np), Leads(t, b, np)
    PROVE  a = b
<1>1. np \in Seq(Turn) /\ t[np].c = a[Len(a)] /\ t[np].c = b[Len(b)]
  BY DEF Leads, WellFormed
<1>2. PICK p : Turns(t, a, np, p) /\ p[Len(np)] = Len(a)
  BY DEF Leads
<1>3. PICK q : Turns(t, b, np, q) /\ q[Len(np)] = Len(b)
  BY DEF Leads
<1>4. Len(a) = Len(b) /\ \A i \in 1..(Len(a) - 1) : a[i] = b[i]
  BY <1>1, <1>2, <1>3, Agree
<1>5. a \in Seq(Nat) /\ b \in Seq(Nat)
  BY DEF Key
<1>6. ASSUME NEW i \in 1..Len(a) PROVE a[i] = b[i]
  <2>1. i \in 1..(Len(a) - 1) \/ i = Len(a)
    BY <1>5
  <2> QED
    BY <1>1, <1>4, <2>1
<1> QED
  BY <1>4, <1>5, <1>6

\* Once the way has ended it stays where it is.
LEMMA WayStays ==
    ASSUME NEW t, WellFormed(t), NEW str \in Key, NEW k \in 0..Depth(t),
           Ended(t, str, Way(t, str)[k])
    PROVE  \A n \in k..Depth(t) : Way(t, str)[n] = Way(t, str)[k]
<1> DEFINE way == Way(t, str)
           N == Depth(t)
           G == {n \in 0..N : n >= k => way[n] = way[k]}
<1>1. N \in Nat
  BY DepthIsNat
<1>2. /\ \A n \in 1..N : way[n] = Down(t, str, way[n - 1])
      /\ \A n \in 0..N : way[n] \in Place /\ way[n].pos \in 1..Len(str)
  BY WayByStep
<1> HIDE DEF N, way
<1>3. k \in 0..N /\ Ended(t, str, way[k])
  BY DEF N, way
<1>4. 0 \in G
  BY <1>1, <1>3
<1>5. ASSUME NEW n \in 1..N, n - 1 \in G PROVE n \in G
  <2>1. n \in 0..N /\ n - 1 \in 0..N
    BY <1>1
  <2>2. SUFFICES ASSUME n > k PROVE way[n] = way[k]
    BY <1>1, <1>3, <2>1
  <2>3. way[n - 1] = way[k]
    BY <1>1, <1>3, <1>5, <2>2
  <2>4. way[n] = Down(t, str, way[k])
    BY <1>2, <2>3
  <2>5. way[k] \in Place /\ way[k].pos \in 1..Len(str)
    BY <1>2, <1>3
  <2> QED
    BY <1>3, <2>4, <2>5, DownIs
<1> HIDE DEF G
<1>6. \A n \in 0..N : n \in G
  BY <1>1, <1>4, <1>5, UpTo
<1>7. \A n \in k..N : n \in 0..N /\ n >= k
  BY <1>1, <1>3
<1> QED
  BY <1>6, <1>7 DEF G, N, way

\* The way of a string ends at the node it leads to.
LEMMA WayEndsAt ==
    ASSUME NEW t, WellFormed(t), NEW str \in Key, NEW np, Leads(t, str, np)
    PROVE  EndOfWay(t, str) = [np |-> np, pos |-> Len(str)]
<1> DEFINE N == Depth(t)
           n == Len(np)
<1>1. np \in DOMAIN t /\ np \in Seq(Turn) /\ t[np].c = str[Len(str)]
  BY DEF Leads, WellFormed
<1>2. n \in Nat /\ n < N /\ N \in Nat
  BY <1>1, DepthBounds, DepthIsNat
<1>3. PICK p : Turns(t, str, np, p) /\ p[n] = Len(str)
  BY DEF Leads
<1>4. Way(t, str)[n] = [np |-> SubSeq(np, 1, n), pos |-> p[n]]
  <2>1. n \in 0..n /\ n <= N
    BY <1>2
  <2>2. \A k \in 0..n : Way(t, str)[k] = [np |-> SubSeq(np, 1, k), pos |-> p[k]]
    BY <1>1, <1>3, <2>1, Follow
  <2> HIDE DEF n
  <2> QED
    BY <2>1, <2>2
<1>5. Way(t, str)[n] = [np |-> np, pos |-> Len(str)]
  BY <1>1, <1>3, <1>4, WholeAndNone
<1>6. Ended(t, str, Way(t, str)[n])
  BY <1>1, <1>5 DEF Ended, Matches
<1>7. Way(t, str)[N] = Way(t, str)[n]
  <2>1. n \in 0..N /\ N \in n..N
    BY <1>2
  <2> HIDE DEF n, N
  <2> QED
    BY <1>6, <2>1, WayStays DEF N
<1> QED
  BY <1>5, <1>7 DEF EndOfWay

\* Where the way of a string ends at a node, the string leads there.
LEMMA WayLeads ==
    ASSUME NEW t, WellFormed(t), NEW str \in Key, EndOfWay(t, str).np \in DOMAIN t
    PROVE  Leads(t, str, EndOfWay(t, str).np)
<1> DEFINE w == EndOfWay(t, str)
<1>1. Ended(t, str, w)
  BY WayTurns
<1>2. Matches(t, str, w) /\ w.pos = Len(str)
  BY <1>1 DEF Ended
<1>3. PICK p : Turns(t, str, w.np, p) /\ p[Len(w.np)] = w.pos
  <2>1. Depth(t) \in Nat
    BY DepthIsNat
  <2>2. Depth(t) \in 0..Depth(t)
    BY <2>1
  <2> QED
    BY <2>2, WayTurns DEF EndOfWay
<1> HIDE DEF w
<1>4. Leads(t, str, w.np)
  BY <1>2, <1>3 DEF Leads, Matches
<1> QED
  BY <1>4 DEF w

\* A string leads to one node.
LEMMA OnePlace ==
    ASSUME NEW t, WellFormed(t), NEW str \in Key, NEW a, NEW b,
           Leads(t, str, a), Leads(t, str, b)
    PROVE  a = b
<1>1. EndOfWay(t, str) = [np |-> a, pos |-> Len(str)]
  BY WayEndsAt
<1>2. EndOfWay(t, str) = [np |-> b, pos |-> Len(str)]
  BY WayEndsAt
<1> QED
  BY <1>1, <1>2

\* The way goes forward.
LEMMA WayGoesOn ==
    ASSUME NEW t, WellFormed(t), NEW str \in Key
    PROVE  \A n \in 0..Depth(t) : \A k \in 0..n : Way(t, str)[k].pos <= Way(t, str)[n].pos
<1> DEFINE way == Way(t, str)
           N == Depth(t)
           G == {n \in 0..N : \A k \in 0..n : way[k].pos <= way[n].pos}
<1>1. N \in Nat
  BY DepthIsNat
<1>2. /\ \A n \in 1..N : way[n] = Down(t, str, way[n - 1])
      /\ \A n \in 0..N : way[n] \in Place /\ way[n].pos \in 1..Len(str)
  BY WayByStep
<1> HIDE DEF way, N
<1>3. 0 \in G
  <2>1. 0 \in 0..N /\ way[0].pos <= way[0].pos
    BY <1>1, <1>2
  <2> QED
    BY <2>1
<1>4. ASSUME NEW n \in 1..N, n - 1 \in G PROVE n \in G
  <2> DEFINE w == way[n - 1]
  <2>1. n - 1 \in 0..N /\ n \in 0..N
    BY <1>1
  <2>2. w \in Place /\ w.pos \in 1..Len(str) /\ way[n] = Down(t, str, w)
    BY <1>2, <2>1
  <2> HIDE DEF w
  <2>3. way[n].pos \in {w.pos, w.pos + 1}
    BY <2>2, DownIs
  <2>4. w.pos \in Nat /\ w.pos <= way[n].pos
    BY <2>2, <2>3 DEF Place
  <2>5. ASSUME NEW k \in 0..n PROVE way[k].pos <= way[n].pos
    <3>1. CASE k = n
      BY <2>3, <2>4, <3>1
    <3>2. CASE k # n
      <4>1. k \in 0..(n - 1) /\ k \in 0..N
        BY <1>1, <3>2
      <4>2. way[k].pos <= w.pos
        BY <1>4, <4>1 DEF w
      <4>3. way[k].pos \in Nat
        BY <1>2, <4>1 DEF Place
      <4> QED
        BY <2>3, <2>4, <4>2, <4>3
    <3> QED
      BY <3>1, <3>2
  <2> QED
    BY <2>1, <2>5
<1> HIDE DEF G
<1>5. \A n \in 0..N : n \in G
  BY <1>1, <1>3, <1>4, UpTo
<1> QED
  BY <1>5 DEF G, way, N

-----------------------------------------------------------------------------
(* SearchOne.                                                              *)

\* At the k-th place of the way of str there is a handler.
Hit(str, k) ==
    LET w == Way(tree, str)[k]
    IN Matches(tree, str, w) /\ tree[w.np].data # NULL

Held(str, k) == tree[Way(tree, str)[k].np].data

\* The last character of a prefix, and those before it.
LEMMA AlikeIsPrefix ==
    ASSUME NEW a \in Key, NEW b \in Key, Len(a) <= Len(b),
           \A i \in 1..(Len(a) - 1) : a[i] = b[i], a[Len(a)] = b[Len(a)]
    PROVE  IsPrefix(a, b)
<1>1. a \in Seq(Nat) /\ b \in Seq(Nat)
  BY DEF Key
<1>2. ASSUME NEW i \in 1..Len(a) PROVE a[i] = b[i]
  <2>1. i \in 1..(Len(a) - 1) \/ i = Len(a)
    BY <1>1
  <2> QED
    BY <2>1
<1>3. SubSeq(a, 1, Len(a)) = SubSeq(b, 1, Len(a))
  BY <1>1, <1>2
<1> QED
  BY <1>3 DEF IsPrefix

LEMMA PrefixIsAlike ==
    ASSUME NEW a \in Key, NEW b \in Key, IsPrefix(a, b)
    PROVE  Len(a) <= Len(b) /\ \A i \in 1..Len(a) : a[i] = b[i]
<1>1. a \in Seq(Nat) /\ b \in Seq(Nat) /\ Len(a) <= Len(b)
  BY DEF Key, IsPrefix
<1>2. SubSeq(a, 1, Len(a)) = SubSeq(b, 1, Len(a))
  BY DEF IsPrefix
<1>3. ASSUME NEW i \in 1..Len(a) PROVE a[i] = b[i]
  <2>1. SubSeq(a, 1, Len(a))[i] = a[i] /\ SubSeq(b, 1, Len(a))[i] = b[i]
    BY <1>1
  <2> QED
    BY <1>2, <2>1
<1> QED
  BY <1>1, <1>3

\* A handler on the way is one of a prefix, which ends there.
LEMMA HitIsPrefix ==
    ASSUME IInv, NEW str \in Key, NEW k \in 0..Depth(tree), Hit(str, k)
    PROVE  /\ Held(str, k) \in Data /\ Held(str, k) \in Registered
           /\ IsPrefix(Held(str, k).str, str)
           /\ Len(Held(str, k).str) = Way(tree, str)[k].pos
<1> DEFINE w == Way(tree, str)[k]
           d == tree[w.np].data
           a == d.str
<1>1. WellFormed(tree) /\ Led(tree)
  BY DEF IInv
<1>2. w \in Place /\ w.pos \in 1..Len(str)
  BY <1>1, WayByStep
<1>3. w.np \in DOMAIN tree /\ str[w.pos] = tree[w.np].c /\ d # NULL
  BY DEF Hit, Matches
<1>4. d \in Data /\ d \in Registered
  BY <1>1, <1>3 DEF WellFormed, Node, Registered
<1>5. a \in Key
  BY <1>4, PathsAreKeys DEF Data
<1>6. Leads(tree, a, w.np)
  BY <1>1, <1>3 DEF Led
<1>7. PICK p : Turns(tree, a, w.np, p) /\ p[Len(w.np)] = Len(a)
  BY <1>6 DEF Leads
<1>8. PICK q : Turns(tree, str, w.np, q) /\ q[Len(w.np)] = w.pos
  BY <1>1, WayTurns
<1> HIDE DEF w
<1>9. tree[w.np].c = a[Len(a)] /\ w.np \in Seq(Turn)
  BY <1>2, <1>6 DEF Leads, Place
<1> HIDE DEF a
<1>10. p = q /\ \A i \in 1..(p[Len(w.np)] - 1) : a[i] = str[i]
  BY <1>1, <1>5, <1>7, <1>8, <1>9, Agree
<1>11. Len(a) = w.pos /\ (\A i \in 1..(Len(a) - 1) : a[i] = str[i]) /\ a[Len(a)] = str[Len(a)]
  BY <1>3, <1>7, <1>8, <1>9, <1>10
<1>12. Len(a) <= Len(str)
  BY <1>2, <1>11 DEF Key
<1>13. IsPrefix(a, str)
  BY <1>5, <1>11, <1>12, AlikeIsPrefix
<1> QED
  BY <1>4, <1>11, <1>13 DEF a, d, w, Held

\* The handler of a prefix is on the way.
LEMMA PrefixIsHit ==
    ASSUME IInv, NEW str \in Key, NEW d \in Registered, IsPrefix(d.str, str)
    PROVE  \E k \in 0..Depth(tree) : Hit(str, k) /\ Held(str, k) = d
<1> DEFINE a == d.str
<1>1. WellFormed(tree) /\ Led(tree)
  BY DEF IInv
<1>2. PICK np \in DOMAIN tree : tree[np].data = d /\ d # NULL
  BY DEF Registered
<1> DEFINE n == Len(np)
<1>3. d \in Data /\ np \in Seq(Turn) /\ Leads(tree, a, np)
  BY <1>1, <1>2 DEF WellFormed, Node, Led
<1>4. a \in Key
  BY <1>3, PathsAreKeys DEF Data
<1>5. PICK p : Turns(tree, a, np, p) /\ p[n] = Len(a)
  BY <1>3 DEF Leads
<1>6. Turns(tree, str, np, p)
  BY <1>3, <1>4, <1>5, PrefixTurns
<1>7. n \in Nat /\ n < Depth(tree)
  BY <1>1, <1>2, DepthBounds
<1>8. n \in 0..n /\ n \in 0..Depth(tree) /\ n <= Depth(tree)
  <2>1. Depth(tree) \in Nat
    BY <1>1, DepthIsNat
  <2> QED
    BY <1>7, <2>1
<1>9. \A k \in 0..n : Way(tree, str)[k] = [np |-> SubSeq(np, 1, k), pos |-> p[k]]
  BY <1>1, <1>3, <1>6, <1>8, Follow
<1>10. SubSeq(np, 1, n) = np
  BY <1>3, WholeAndNone
<1> HIDE DEF n
<1>11. Way(tree, str)[n] = [np |-> np, pos |-> Len(a)]
  BY <1>5, <1>8, <1>9, <1>10
<1>12. tree[np].c = a[Len(a)] /\ a[Len(a)] = str[Len(a)]
  <2>1. Len(a) \in 1..Len(a)
    BY <1>4 DEF Key
  <2> HIDE DEF a
  <2>2. \A i \in 1..Len(a) : a[i] = str[i]
    BY <1>4, PrefixIsAlike DEF a
  <2> QED
    BY <1>3, <2>1, <2>2 DEF Leads
<1>13. Hit(str, n) /\ Held(str, n) = d
  BY <1>2, <1>11, <1>12 DEF Hit, Matches, Held
<1> QED
  BY <1>8, <1>13

\* d is the best of what is on the first n places of the way of str.
Best(str, n, d) ==
    IF d = NULL THEN \A k \in 0..n : ~Hit(str, k)
    ELSE /\ \E k \in 0..n : Hit(str, k) /\ Held(str, k) = d
         /\ \A k \in 0..n : Hit(str, k) => Len(Held(str, k).str) <= Len(d.str)

LEMMA SearchOneIsBest ==
    ASSUME IInv, NEW str \in Key
    PROVE  Best(str, Depth(tree), SearchOne(str))
<1> DEFINE way == Way(tree, str)
           N == Depth(tree)
           S == Data \cup {NULL}
           first == Better(str, way[0], NULL)
           F == [n \in 1..N |-> [d \in S |-> Better(str, way[n], d)]]
           Loop(f) == [n \in 0..N |-> Better(str, way[n], IF n = 0 THEN NULL ELSE f[n - 1])]
<1>1. WellFormed(tree) /\ Led(tree) /\ N \in Nat
  <2>1. WellFormed(tree) /\ Led(tree)
    BY DEF IInv
  <2> QED
    BY <2>1, DepthIsNat
<1>2. ASSUME NEW n \in 0..N, NEW d \in S
      PROVE  /\ Better(str, way[n], d) = IF Hit(str, n) THEN Held(str, n) ELSE d
             /\ Better(str, way[n], d) \in S
  <2>1. Better(str, way[n], d) = IF Hit(str, n) THEN Held(str, n) ELSE d
    BY DEF Better, Hit, Matches, Held
  <2>2. Hit(str, n) => Held(str, n) \in Data
    BY HitIsPrefix
  <2> HIDE DEF way
  <2> QED
    BY <2>1, <2>2
<1> HIDE DEF way, N
<1>3. first \in S
  BY <1>1, <1>2
<1>4. F \in [1..N -> [S -> S]]
  <2>1. ASSUME NEW n \in 1..N PROVE [d \in S |-> Better(str, way[n], d)] \in [S -> S]
    <3>1. n \in 0..N
      BY <1>1
    <3> QED
      BY <1>2, <3>1
  <2> QED
    BY <2>1
<1> HIDE DEF S, F, first
<1>5. PICK f \in [0..N -> S] : f[0] = first /\ \A n \in 1..N : f[n] = F[n][f[n - 1]]
  <2>1. Steppable(N, S, first, F)
    BY <1>1, <1>3, <1>4 DEF Steppable
  <2>2. PICK f : Stepwise(f, N, S, first, F)
    BY <2>1, StepByStep
  <2> QED
    BY <2>2 DEF Stepwise
<1>6. f = Loop(f)
  <2>1. ASSUME NEW n \in 0..N PROVE f[n] = Loop(f)[n]
    <3>1. CASE n = 0
      BY <1>5, <3>1 DEF first
    <3>2. CASE n # 0
      <4>1. n \in 1..N /\ n - 1 \in 0..N
        BY <1>1, <3>2
      <4>2. f[n] = F[n][f[n - 1]] /\ f[n - 1] \in S
        BY <1>5, <4>1
      <4> QED
        BY <3>2, <4>1, <4>2 DEF F
    <3> QED
      BY <3>1, <3>2
  <2> QED
    BY <1>5, <2>1
<1> DEFINE Is(g) == g = Loop(g)
           found == CHOOSE g : Is(g)
<1>7. found = Loop(found)
  <2>1. Is(f)
    BY <1>6
  <2> HIDE DEF Is
  <2>2. Is(found)
    BY <2>1
  <2> QED
    BY <2>2 DEF Is
<1>8. SearchOne(str) = found[N]
  BY DEF SearchOne, way, N
<1> HIDE DEF found
<1>9. /\ found[0] = Better(str, way[0], NULL)
      /\ \A n \in 1..N : found[n] = Better(str, way[n], found[n - 1])
  <2>1. Loop(found)[0] = Better(str, way[0], NULL)
    BY <1>1
  <2>2. ASSUME NEW n \in 1..N PROVE Loop(found)[n] = Better(str, way[n], found[n - 1])
    <3>1. n \in 0..N /\ n # 0
      BY <1>1
    <3> QED
      BY <3>1
  <2> QED
    BY <1>7, <2>1, <2>2
<1> DEFINE G == {n \in 0..N : found[n] \in S /\ Best(str, n, found[n])}
<1>10. 0 \in G
  <2>1. found[0] \in S /\ found[0] = IF Hit(str, 0) THEN Held(str, 0) ELSE NULL
    BY <1>1, <1>2, <1>9 DEF S
  <2>2. Best(str, 0, found[0])
    <3>1. CASE Hit(str, 0)
      <4> DEFINE d == Held(str, 0)
      <4>1. found[0] = d /\ d # NULL
        BY <2>1, <3>1 DEF Hit, Held
      <4>2. d \in Data
        BY <1>1, <3>1, HitIsPrefix DEF N
      <4>3. Len(d.str) \in Nat
        BY <4>2, PathAssumption DEF Data
      <4>4. 0..0 = {0}
        OBVIOUS
      <4> HIDE DEF d
      <4>5. Len(d.str) <= Len(d.str)
        BY <4>3
      <4> QED
        BY <3>1, <4>1, <4>4, <4>5 DEF Best, d
    <3>2. CASE ~Hit(str, 0)
      BY <2>1, <3>2 DEF Best
    <3> QED
      BY <3>1, <3>2
  <2> QED
    BY <1>1, <2>1, <2>2
<1>11. ASSUME NEW n \in 1..N, n - 1 \in G PROVE n \in G
  <2> DEFINE d == found[n - 1]
             e == Held(str, n)
  <2>1. n \in 0..N /\ n - 1 \in 0..N /\ \A k \in 0..n : k = n \/ k \in 0..(n - 1)
    BY <1>1
  <2>2. d \in S /\ Best(str, n - 1, d)
    BY <1>11
  <2>3. found[n] \in S /\ found[n] = IF Hit(str, n) THEN e ELSE d
    BY <1>2, <1>9, <2>1, <2>2
  <2>4. \A k \in 0..(n - 1) : k \in 0..n
    BY <1>1
  <2>5. n \in 0..n
    BY <1>1
  <2>6. Best(str, n, found[n])
    <3>1. CASE Hit(str, n)
      <4>1. found[n] = e /\ e # NULL
        BY <2>3, <3>1 DEF Hit, Held
      <4>2. e \in Data /\ Len(e.str) = way[n].pos
        BY <2>1, <3>1, HitIsPrefix DEF N, way
      <4>3. ASSUME NEW k \in 0..n, Hit(str, k) PROVE Len(Held(str, k).str) <= Len(e.str)
        <5>1. k \in 0..N
          BY <1>1
        <5>2. Len(Held(str, k).str) = way[k].pos
          BY <4>3, <5>1, HitIsPrefix DEF N, way
        <5>3. way[k].pos <= way[n].pos
          BY <1>1, <2>1, WayGoesOn DEF N, way
        <5> QED
          BY <4>2, <5>2, <5>3
      <4> HIDE DEF e
      <4> QED
        BY <2>5, <3>1, <4>1, <4>3 DEF Best, e
    <3>2. CASE ~Hit(str, n)
      <4>1. found[n] = d
        BY <2>3, <3>2
      <4>2. \A k \in 0..n : Hit(str, k) => k \in 0..(n - 1)
        BY <2>1, <3>2
      <4> HIDE DEF d
      <4> QED
        BY <2>2, <2>4, <4>1, <4>2 DEF Best
    <3> QED
      BY <3>1, <3>2
  <2> QED
    BY <2>1, <2>3, <2>6
<1> HIDE DEF G
<1>12. \A n \in 0..N : n \in G
  BY <1>1, <1>10, <1>11, UpTo
<1>13. N \in G
  BY <1>1, <1>12
<1> QED
  BY <1>8, <1>13 DEF G, N

\* The longest prefix, where there is one.
LEMMA LongestOfBest ==
    ASSUME IInv
    PROVE  LongestPrefixWins
<1> SUFFICES ASSUME NEW path \in Query
             PROVE  LET prefixes == {d \in Registered : IsPrefix(d.str, path)}
                    IN IF prefixes = {} \/ path = <<>> THEN GetHandleFunc(path) = NULL
                       ELSE LET longest == Max({Len(d.str) : d \in prefixes})
                            IN \E d \in prefixes : /\ Len(d.str) = longest
                                                   /\ GetHandleFunc(path) = d.func
  BY DEF LongestPrefixWins
<1> DEFINE prefixes == {d \in Registered : IsPrefix(d.str, path)}
           L == {Len(d.str) : d \in prefixes}
           best == SearchOne(path)
<1>1. CASE path = <<>>
  BY <1>1 DEF GetHandleFunc
<1>2. CASE path # <<>>
  <2>1. path \in Key
    BY <1>2, PathsAreKeys
  <2>2. Best(path, Depth(tree), best)
    BY <2>1, SearchOneIsBest
  <2> HIDE DEF best
  <2>3. CASE best = NULL
    <3>1. prefixes = {}
      <4>1. SUFFICES ASSUME NEW d \in Registered, IsPrefix(d.str, path) PROVE FALSE
        OBVIOUS
      <4>2. \E k \in 0..Depth(tree) : Hit(path, k)
        BY <2>1, <4>1, PrefixIsHit
      <4> QED
        BY <2>2, <2>3, <4>2 DEF Best
    <3> QED
      BY <1>2, <2>3, <3>1 DEF GetHandleFunc, best
  <2>4. CASE best # NULL
    <3>1. PICK k \in 0..Depth(tree) : Hit(path, k) /\ Held(path, k) = best
      BY <2>2, <2>4 DEF Best
    <3>2. best \in prefixes
      BY <2>1, <3>1, HitIsPrefix
    <3>3. ASSUME NEW d \in prefixes PROVE Len(d.str) \in Nat /\ Len(d.str) <= Len(best.str)
      <4>1. PICK i \in 0..Depth(tree) : Hit(path, i) /\ Held(path, i) = d
        BY <2>1, PrefixIsHit
      <4>2. d \in Data
        BY <2>1, <4>1, HitIsPrefix
      <4>3. Len(d.str) \in Nat
        BY <4>2, PathAssumption DEF Data
      <4>4. Len(d.str) <= Len(best.str)
        BY <2>2, <2>4, <4>1 DEF Best
      <4> QED
        BY <4>3, <4>4
    <3> HIDE DEF prefixes
    <3>4. Max(L) = Len(best.str)
      <4> DEFINE m == Len(best.str)
                 IsMax(x) == x \in L /\ \A y \in L : x >= y
      <4>1. L \subseteq Nat /\ m \in L /\ \A y \in L : y <= m
        BY <3>2, <3>3
      <4> HIDE DEF L, m
      <4>2. IsMax(m) /\ \A x : IsMax(x) => x = m
        <5>1. IsMax(m)
          BY <4>1
        <5>2. ASSUME NEW x, IsMax(x) PROVE x = m
          <6>1. x \in Nat /\ m \in Nat /\ x >= m /\ x <= m
            BY <4>1, <5>2
          <6> QED
            BY <6>1
        <5> HIDE DEF IsMax
        <5> QED
          BY <5>1, <5>2
      <4>3. Max(L) = CHOOSE x \in L : \A y \in L : x >= y
        BY DEF Max
      <4>4. (CHOOSE x \in L : \A y \in L : x >= y) = CHOOSE x : IsMax(x)
        OBVIOUS
      <4> HIDE DEF IsMax
      <4>5. (CHOOSE x : IsMax(x)) = m
        BY <4>2
      <4> QED
        BY <4>3, <4>4, <4>5 DEF m
    <3>5. GetHandleFunc(path) = best.func
      BY <1>2, <2>4 DEF GetHandleFunc, best
    <3> QED
      BY <1>2, <3>2, <3>4, <3>5 DEF prefixes
  <2> QED
    BY <2>3, <2>4
<1> QED
  BY <1>1, <1>2

-----------------------------------------------------------------------------
(* Changes of the tree.                                                    *)

\* What leads to a node still does when the nodes before it are as they were.
LEMMA LeadsKept ==
    ASSUME NEW t, NEW u, NEW str, NEW np \in Seq(Turn), Leads(t, str, np),
           \A k \in 0..Len(np) : /\ SubSeq(np, 1, k) \in DOMAIN u
                                 /\ u[SubSeq(np, 1, k)].c = t[SubSeq(np, 1, k)].c
    PROVE  Leads(u, str, np)
<1>1. PICK p : Turns(t, str, np, p) /\ p[Len(np)] = Len(str)
  BY DEF Leads
<1>2. np \in DOMAIN u /\ u[np].c = t[np].c
  <2>1. Len(np) \in 0..Len(np) /\ SubSeq(np, 1, Len(np)) = np
    BY WholeAndNone
  <2> QED
    BY <2>1
<1>3. \A k \in 0..(Len(np) - 1) : k \in 0..Len(np)
  OBVIOUS
<1>4. Turns(u, str, np, p)
  BY <1>1, <1>3 DEF Turns
<1> QED
  BY <1>1, <1>2, <1>4 DEF Leads

\* Another handler at a node.
WithData(t, np, d) == [t EXCEPT ![np].data = d]

LEMMA DataChanged ==
    ASSUME NEW t, WellFormed(t), NEW np \in DOMAIN t, NEW d \in Data \cup {NULL}
    PROVE  LET u == WithData(t, np, d)
           IN  /\ WellFormed(u) /\ DOMAIN u = DOMAIN t
               /\ \A q \in DOMAIN t : /\ u[q].c = t[q].c
                                      /\ u[q].data = IF q = np THEN d ELSE t[q].data
               /\ \A q, str : Leads(t, str, q) => Leads(u, str, q)
<1> DEFINE u == WithData(t, np, d)
<1>0. u = [t EXCEPT ![np].data = d]
  BY DEF WithData
<1> HIDE DEF u
<1>1. DOMAIN u = DOMAIN t /\ u = [q \in DOMAIN u |-> u[q]]
  BY <1>0
<1>2. ASSUME NEW q \in DOMAIN t
      PROVE  /\ u[q] \in Node /\ u[q].c = t[q].c
             /\ u[q].data = IF q = np THEN d ELSE t[q].data
  <2>1. t[q] \in Node
    BY DEF WellFormed
  <2>2. u[q] = IF q = np THEN [t[q] EXCEPT !.data = d] ELSE t[q]
    BY <1>0
  <2> QED
    BY <2>1, <2>2 DEF Node
<1>3. WellFormed(u)
  BY <1>1, <1>2 DEF WellFormed
<1>4. ASSUME NEW q, NEW str, Leads(t, str, q) PROVE Leads(u, str, q)
  <2>1. q \in DOMAIN t /\ q \in Seq(Turn)
    BY <1>4 DEF Leads, WellFormed
  <2>2. \A k \in 0..Len(q) : SubSeq(q, 1, k) \in DOMAIN t
    BY <2>1, PrefixesInTree
  <2>3. \A k \in 0..Len(q) : /\ SubSeq(q, 1, k) \in DOMAIN u
                              /\ u[SubSeq(q, 1, k)].c = t[SubSeq(q, 1, k)].c
    BY <1>1, <1>2, <2>2
  <2> QED
    BY <1>4, <2>1, <2>3, LeadsKept
<1> QED
  BY <1>1, <1>2, <1>3, <1>4 DEF u

\* Without what is below a node.
LEMMA Cleaned ==
    ASSUME NEW t, WellFormed(t), NEW np \in Seq(Turn)
    PROVE  LET u == Clean(t, np)
           IN  /\ WellFormed(u) /\ DOMAIN u \subseteq DOMAIN t
               /\ \A q \in DOMAIN u : u[q] = t[q]
               /\ \A q \in DOMAIN u : \A str : Leads(t, str, q) => Leads(u, str, q)
<1> DEFINE u == Clean(t, np)
<1>1. /\ DOMAIN u = {q \in DOMAIN t : ~IsPrefix(np, q)}
      /\ \A q \in DOMAIN u : u[q] = t[q]
      /\ u = [q \in DOMAIN u |-> u[q]]
  BY DEF Clean
<1> HIDE DEF u
<1>2. ASSUME NEW q \in DOMAIN u, NEW k \in 0..Len(q) PROVE SubSeq(q, 1, k) \in DOMAIN u
  <2>1. q \in DOMAIN t /\ q \in Seq(Turn) /\ ~IsPrefix(np, q)
    BY <1>1 DEF WellFormed
  <2>2. SubSeq(q, 1, k) \in DOMAIN t
    BY <2>1, PrefixesInTree
  <2>3. ~IsPrefix(np, SubSeq(q, 1, k))
    <3>1. SUFFICES ASSUME IsPrefix(np, SubSeq(q, 1, k)) PROVE FALSE
      OBVIOUS
    <3> DEFINE m == Len(np)
    <3>2. m \in Nat /\ Len(q) \in Nat /\ Len(SubSeq(q, 1, k)) = k
      BY <2>1
    <3>3. m <= k /\ SubSeq(np, 1, m) = SubSeq(SubSeq(q, 1, k), 1, m)
      BY <3>1, <3>2 DEF IsPrefix
    <3>4. m \in 0..k /\ m <= Len(q)
      BY <3>2, <3>3
    <3> HIDE DEF m
    <3>5. SubSeq(SubSeq(q, 1, k), 1, m) = SubSeq(q, 1, m)
      BY <2>1, <3>4, Beginning
    <3> QED
      BY <2>1, <3>3, <3>4, <3>5 DEF IsPrefix, m
  <2> QED
    BY <1>1, <2>2, <2>3
<1>3. ASSUME NEW q \in DOMAIN u, q # root PROVE Front(q) \in DOMAIN u
  <2>1. q \in Seq(Turn) /\ Len(q) - 1 \in 0..Len(q)
    <3>1. q \in Seq(Turn)
      BY <1>1 DEF WellFormed
    <3>2. Len(q) # 0
      BY <1>3, <3>1 DEF root
    <3> QED
      BY <3>1, <3>2
  <2> QED
    BY <1>2, <2>1 DEF Front
<1>4. WellFormed(u)
  <2>1. IsFiniteSet(DOMAIN u)
    BY <1>1, FS_Subset DEF WellFormed
  <2> QED
    BY <1>1, <1>3, <2>1 DEF WellFormed
<1>5. ASSUME NEW q \in DOMAIN u, NEW str, Leads(t, str, q) PROVE Leads(u, str, q)
  <2>1. q \in Seq(Turn)
    BY <1>1 DEF WellFormed
  <2>2. \A k \in 0..Len(q) : SubSeq(q, 1, k) \in DOMAIN u /\ u[SubSeq(q, 1, k)] = t[SubSeq(q, 1, k)]
    BY <1>1, <1>2
  <2> QED
    BY <1>5, <2>1, <2>2, LeadsKept
<1> QED
  BY <1>1, <1>4, <1>5 DEF u

-----------------------------------------------------------------------------
(* Insert.                                                                 *)

\* The nodes straight below another.
LEMMA BelowIs ==
    ASSUME NEW np \in Seq(Turn), NEW n \in Nat
    PROVE  /\ Below(np, n) \in Seq(Turn) /\ Len(Below(np, n)) = Len(np) + n
           /\ \A k \in 0..Len(np) : SubSeq(Below(np, n), 1, k) = SubSeq(np, 1, k)
           /\ \A k \in 0..n : SubSeq(Below(np, n), 1, Len(np) + k) = Below(np, k)
           /\ \A k \in 1..n : Below(np, n)[Len(np) + k] = "center"
           /\ Below(np, 0) = np
           /\ n > 0 => Below(np, n) # root /\ Front(Below(np, n)) = Below(np, n - 1)
<1> DEFINE C(k) == [i \in 1..k |-> "center"]
           b == Below(np, n)
<1>1. ASSUME NEW k \in Nat
      PROVE  /\ Below(np, k) \in Seq(Turn) /\ Len(Below(np, k)) = Len(np) + k
             /\ \A i \in 1..Len(np) : Below(np, k)[i] = np[i]
             /\ \A i \in (Len(np) + 1)..(Len(np) + k) : Below(np, k)[i] = "center"
  <2>1. C(k) \in Seq(Turn) /\ Len(C(k)) = k /\ \A i \in 1..k : C(k)[i] = "center"
    BY DEF Turn
  <2> DEFINE c == C(k)
             a == Below(np, k)
  <2>2. a = np \o c
    BY DEF Below
  <2>3. c \in Seq(Turn) /\ Len(c) = k /\ \A i \in 1..k : c[i] = "center"
    BY <2>1
  <2> HIDE DEF c, a
  <2>4. a \in Seq(Turn) /\ Len(a) = Len(np) + k
    BY <2>2, <2>3
  <2>5. \A i \in 1..Len(np) : a[i] = np[i]
    BY <2>2, <2>3
  <2>6. ASSUME NEW i \in (Len(np) + 1)..(Len(np) + k) PROVE a[i] = "center"
    <3>1. i - Len(np) \in 1..k
      OBVIOUS
    <3>2. a[i] = c[i - Len(np)]
      BY <2>2, <2>3
    <3> QED
      BY <2>3, <3>1, <3>2
  <2> QED
    BY <2>4, <2>5, <2>6 DEF a
<1>2. \A k \in 0..Len(np) : SubSeq(b, 1, k) = SubSeq(np, 1, k)
  <2>1. /\ b \in Seq(Turn) /\ Len(b) = Len(np) + n
        /\ \A i \in 1..Len(np) : b[i] = np[i]
    BY <1>1
  <2> HIDE DEF b
  <2> QED
    BY <2>1
<1>3. ASSUME NEW k \in 0..n PROVE SubSeq(b, 1, Len(np) + k) = Below(np, k)
  <2> DEFINE a == Below(np, k)
  <2>1. /\ b \in Seq(Turn) /\ Len(b) = Len(np) + n
        /\ \A i \in 1..Len(np) : b[i] = np[i]
        /\ \A i \in (Len(np) + 1)..(Len(np) + n) : b[i] = "center"
    BY <1>1
  <2>2. /\ a \in Seq(Turn) /\ Len(a) = Len(np) + k
        /\ \A i \in 1..Len(np) : a[i] = np[i]
        /\ \A i \in (Len(np) + 1)..(Len(np) + k) : a[i] = "center"
    <3>1. k \in Nat
      OBVIOUS
    <3> QED
      BY <1>1, <3>1
  <2> HIDE DEF a, b
  <2>3. \A i \in 1..(Len(np) + k) : a[i] = b[i]
    BY <2>1, <2>2
  <2>4. a = SubSeq(b, 1, Len(np) + k)
    BY <2>1, <2>2, <2>3
  <2> QED
    BY <2>4 DEF a
<1>4. ASSUME NEW k \in 1..n PROVE b[Len(np) + k] = "center"
  <2>1. Len(np) + k \in (Len(np) + 1)..(Len(np) + n)
    OBVIOUS
  <2> HIDE DEF b
  <2> QED
    BY <1>1, <2>1 DEF b
<1>5. Below(np, 0) = np
  <2> DEFINE a == Below(np, 0)
  <2>1. /\ a \in Seq(Turn) /\ Len(a) = Len(np) /\ \A i \in 1..Len(np) : a[i] = np[i]
    BY <1>1
  <2> HIDE DEF a
  <2>2. a = np
    BY <2>1
  <2> QED
    BY <2>2 DEF a
<1>6. ASSUME n > 0 PROVE b # root /\ Front(b) = Below(np, n - 1)
  <2>1. Len(b) = Len(np) + n /\ n - 1 \in 0..n /\ Len(np) \in Nat
    <3>1. n - 1 \in 0..n /\ Len(np) \in Nat
      BY <1>6
    <3>2. Len(b) = Len(np) + n
      BY <1>1
    <3> QED
      BY <3>1, <3>2
  <2>2. b # root
    <3>1. Len(b) # 0
      BY <1>6, <2>1
    <3> HIDE DEF b
    <3> QED
      BY <3>1 DEF root
  <2>3. Len(b) - 1 = Len(np) + (n - 1)
    BY <2>1
  <2>4. Front(b) = SubSeq(b, 1, Len(np) + (n - 1))
    BY <2>3 DEF Front
  <2> QED
    BY <1>3, <2>1, <2>2, <2>4
<1> QED
  BY <1>1, <1>2, <1>3, <1>4, <1>5, <1>6 DEF b

\* New nodes below the end of a way that has left the tree.
LEMMA Added ==
    ASSUME NEW t, WellFormed(t), NEW str \in Path, NEW data \in Data,
           EndOfWay(t, str).np \notin DOMAIN t
    PROVE  LET u == AddNodes(t, str, EndOfWay(t, str), data)
           IN  /\ WellFormed(u) /\ DOMAIN t \subseteq DOMAIN u
               /\ \A q \in DOMAIN t : u[q] = t[q]
               /\ \E last \in DOMAIN u \ DOMAIN t :
                      /\ u[last].data = data /\ Leads(u, str, last)
                      /\ \A q \in DOMAIN u \ DOMAIN t : q # last => u[q].data = NULL
<1> DEFINE w == EndOfWay(t, str)
           u == AddNodes(t, str, w, data)
           m == Len(str) - w.pos
           l == Len(w.np)
           B == [n \in 0..m |-> Below(w.np, n)]
           New == {B[n] : n \in 0..m}
<1>1. str \in Key /\ str \in Seq(Nat) /\ Len(str) \in Nat
  BY PathsAreKeys DEF Key
<1>2. /\ w \in Place /\ w.pos \in 1..Len(str)
      /\ \E p : Turns(t, str, w.np, p) /\ p[l] = w.pos
  <2>1. Depth(t) \in Nat
    BY DepthIsNat
  <2>2. Depth(t) \in 0..Depth(t)
    BY <2>1
  <2> QED
    BY <1>1, <2>2, WayByStep, WayTurns DEF EndOfWay
<1>3. PICK p : Turns(t, str, w.np, p) /\ p[l] = w.pos
  BY <1>2
<1>4. w.np \notin DOMAIN t
  OBVIOUS
<1>5. u = [np \in DOMAIN t \cup {Below(w.np, n) : n \in 0..m} |->
              LET pos == w.pos + Len(np) - Len(w.np)
              IN IF np \in DOMAIN t THEN t[np]
                 ELSE [c |-> str[pos], data |-> IF pos = Len(str) THEN data ELSE NULL]]
  BY DEF AddNodes
<1> HIDE DEF w, u
<1>6. m \in Nat /\ w.np \in Seq(Turn) /\ l \in Nat
  BY <1>1, <1>2 DEF Place
<1> HIDE DEF m, l
<1>7. ASSUME NEW n \in 0..m
      PROVE  /\ B[n] \in Seq(Turn) /\ Len(B[n]) = l + n /\ B[n] = Below(w.np, n)
             /\ \A k \in 0..l : SubSeq(B[n], 1, k) = SubSeq(w.np, 1, k)
             /\ \A k \in 0..n : SubSeq(B[n], 1, l + k) = B[k]
             /\ \A k \in 1..n : B[n][l + k] = "center"
             /\ n = 0 => B[n] = w.np
             /\ n > 0 => B[n] # root /\ n - 1 \in 0..m /\ Front(B[n]) = B[n - 1]
  <2>1. n \in Nat /\ B[n] = Below(w.np, n)
    BY <1>6
  <2>2. \A k \in 0..n : k \in 0..m /\ B[k] = Below(w.np, k)
    BY <1>6
  <2>3. n > 0 => n - 1 \in 0..m /\ B[n - 1] = Below(w.np, n - 1)
    BY <1>6
  <2> DEFINE v == w.np
  <2> HIDE DEF B, v
  <2>4. v \in Seq(Turn)
    BY <1>6 DEF v
  <2>5. /\ B[n] \in Seq(Turn) /\ Len(B[n]) = Len(v) + n
        /\ \A k \in 0..Len(v) : SubSeq(B[n], 1, k) = SubSeq(v, 1, k)
        /\ \A k \in 0..n : SubSeq(B[n], 1, Len(v) + k) = Below(v, k)
        /\ \A k \in 1..n : B[n][Len(v) + k] = "center"
        /\ Below(v, 0) = v
        /\ n > 0 => B[n] # root /\ Front(B[n]) = Below(v, n - 1)
    <3> DEFINE b == B[n]
    <3>1. b = Below(v, n) /\ n \in Nat
      BY <2>1 DEF v
    <3>2. /\ Below(v, n) \in Seq(Turn) /\ Len(Below(v, n)) = Len(v) + n
          /\ \A k \in 0..Len(v) : SubSeq(Below(v, n), 1, k) = SubSeq(v, 1, k)
          /\ \A k \in 0..n : SubSeq(Below(v, n), 1, Len(v) + k) = Below(v, k)
          /\ \A k \in 1..n : Below(v, n)[Len(v) + k] = "center"
          /\ Below(v, 0) = v
          /\ n > 0 => Below(v, n) # root /\ Front(Below(v, n)) = Below(v, n - 1)
      BY <2>4, <3>1, BelowIs
    <3> HIDE DEF b
    <3> QED
      BY <3>1, <3>2, Zenon DEF b
  <2>6. Len(v) = l /\ v = w.np
    BY DEF v, l
  <2> QED
    BY <2>1, <2>2, <2>3, <2>5, <2>6
<1> HIDE DEF B
<1>8. ASSUME NEW n \in 0..m PROVE B[n] \notin DOMAIN t
  <2>1. SUFFICES ASSUME B[n] \in DOMAIN t PROVE FALSE
    OBVIOUS
  <2>2. l \in 0..Len(B[n]) /\ l \in 0..l
    BY <1>6, <1>7
  <2>3. SubSeq(B[n], 1, l) \in DOMAIN t
    BY <2>1, <2>2, PrefixesInTree
  <2>4. SubSeq(w.np, 1, l) = w.np
    BY <1>6, WholeAndNone DEF l
  <2> QED
    BY <1>4, <1>7, <2>2, <2>3, <2>4
<1>9. /\ DOMAIN u = DOMAIN t \cup New
      /\ u = [np \in DOMAIN u |-> u[np]]
      /\ \A q \in DOMAIN t : u[q] = t[q]
  <2>1. New = {Below(w.np, n) : n \in 0..m}
    BY <1>7
  <2> HIDE DEF New
  <2> QED
    BY <1>5, <2>1
<1>10. ASSUME NEW n \in 0..m
       PROVE  /\ w.pos + n \in 1..Len(str)
              /\ u[B[n]].c = str[w.pos + n]
              /\ u[B[n]].data = IF n = m THEN data ELSE NULL
              /\ u[B[n]] \in Node
  <2> DEFINE q == B[n]
             pos == w.pos + Len(q) - Len(w.np)
  <2>1. q \notin DOMAIN t /\ q \in DOMAIN t \cup {Below(w.np, i) : i \in 0..m} /\ Len(q) = l + n
    BY <1>7, <1>8
  <2>2. w.pos \in Nat /\ w.pos \in 1..Len(str) /\ m = Len(str) - w.pos
    BY <1>2 DEF Place, m
  <2> HIDE DEF q
  <2>3. u[q] = [c |-> str[pos], data |-> IF pos = Len(str) THEN data ELSE NULL]
    BY <1>5, <2>1
  <2>4. pos = w.pos + n /\ (pos = Len(str) <=> n = m) /\ pos \in 1..Len(str)
    BY <1>1, <1>6, <2>1, <2>2 DEF l
  <2> DEFINE ch == str[pos]
  <2>5. ch \in Chars
    BY <1>1, <2>4 DEF Chars, Range
  <2> HIDE DEF pos
  <2>6. ch = str[w.pos + n] /\ w.pos + n \in 1..Len(str)
    BY <2>4
  <2> HIDE DEF ch
  <2>7. u[q] = [c |-> ch, data |-> IF n = m THEN data ELSE NULL]
    BY <2>3, <2>4 DEF ch
  <2>8. u[q].c = ch /\ u[q].data = (IF n = m THEN data ELSE NULL) /\ u[q] \in Node
    BY <2>5, <2>7 DEF Node
  <2> QED
    BY <2>6, <2>8 DEF q
<1>11. WellFormed(u)
  <2>1. IsFiniteSet(New)
    <3>1. B \in Surjection(0..m, New)
      BY DEF Surjection, B
    <3>2. IsFiniteSet(0..m)
      <4>1. 0 \in Int /\ m \in Int
        BY <1>6
      <4> QED
        BY <4>1, FS_Interval
    <3> HIDE DEF New
    <3> QED
      BY <3>1, <3>2, FS_Surjection
  <2>2. IsFiniteSet(DOMAIN u)
    <3> DEFINE D == DOMAIN t
    <3>1. IsFiniteSet(D)
      BY DEF WellFormed
    <3>2. DOMAIN u = D \cup New
      BY <1>9
    <3> HIDE DEF D, New
    <3>3. IsFiniteSet(D \cup New)
      BY <2>1, <3>1, FS_Union
    <3> QED
      BY <3>2, <3>3
  <2>3. DOMAIN u \subseteq Seq(Turn)
    BY <1>7, <1>9 DEF WellFormed
  <2>4. ASSUME NEW q \in DOMAIN u
        PROVE  u[q] \in Node /\ (q # root => Front(q) \in DOMAIN u)
    <3>1. CASE q \in DOMAIN t
      BY <1>9, <3>1 DEF WellFormed
    <3>2. CASE q \notin DOMAIN t
      <4>1. PICK n \in 0..m : q = B[n]
        BY <1>9, <3>2
      <4>2. u[q] \in Node
        BY <1>10, <4>1
      <4>3. ASSUME q # root PROVE Front(q) \in DOMAIN u
        <5>1. CASE n > 0
          BY <1>7, <1>9, <4>1, <5>1
        <5>2. CASE n = 0
          <6>1. q = w.np /\ l # 0
            BY <1>6, <1>7, <4>1, <4>3, <5>2 DEF l, root
          <6>2. l - 1 \in 0..(l - 1)
            BY <1>6, <6>1
          <6>3. SubSeq(w.np, 1, l - 1) \in DOMAIN t
            BY <1>3, <6>2 DEF Turns, l
          <6> QED
            BY <1>9, <6>1, <6>3 DEF Front, l
        <5> QED
          BY <1>6, <5>1, <5>2
      <4> QED
        BY <4>2, <4>3
    <3> QED
      BY <3>1, <3>2
  <2> QED
    BY <1>9, <2>2, <2>3, <2>4 DEF WellFormed
<1> DEFINE last == B[m]
           r == [k \in 0..(l + m) |-> IF k <= l THEN p[k] ELSE w.pos + (k - l)]
<1>12. m \in 0..m /\ 0 \in 0..m
  BY <1>6
<1>13. last \in DOMAIN u \ DOMAIN t /\ last \in Seq(Turn) /\ Len(last) = l + m
  BY <1>7, <1>8, <1>9, <1>12
<1>14. /\ r \in [0..(l + m) -> 1..Len(str)]
       /\ \A k \in 0..l : r[k] = p[k]
       /\ \A k \in 0..m : r[l + k] = w.pos + k
  <2>1. p \in [0..l -> 1..Len(str)] /\ p[l] = w.pos
    BY <1>3 DEF Turns, l
  <2>2. ASSUME NEW k \in 0..(l + m) PROVE r[k] \in 1..Len(str)
    <3>1. CASE k <= l
      BY <1>6, <2>1, <3>1
    <3>2. CASE ~(k <= l)
      <4>1. k - l \in 0..m
        BY <1>6, <3>2
      <4> QED
        BY <1>10, <3>2, <4>1
    <3> QED
      BY <3>1, <3>2
  <2>3. ASSUME NEW k \in 0..l PROVE r[k] = p[k]
    BY <1>6
  <2>4. ASSUME NEW k \in 0..m PROVE r[l + k] = w.pos + k
    <3>1. CASE k = 0
      <4>1. w.pos \in Nat /\ l + k = l
        BY <1>2, <1>6, <3>1
      <4> QED
        BY <1>6, <2>1, <3>1, <4>1
    <3>2. CASE k # 0
      <4> DEFINE i == l + k
      <4>1. i \in 0..(l + m) /\ ~(i <= l) /\ i - l = k
        BY <1>6, <3>2
      <4> HIDE DEF i
      <4>2. r[i] = w.pos + (i - l)
        BY <4>1
      <4> HIDE DEF r
      <4> QED
        BY <4>1, <4>2 DEF i
    <3> QED
      BY <3>1, <3>2
  <2> HIDE DEF r
  <2>5. r = [k \in 0..(l + m) |-> r[k]]
    BY DEF r
  <2> QED
    BY <2>2, <2>3, <2>4, <2>5
<1> HIDE DEF r
<1>15. Leads(u, str, last)
  <2>1. ASSUME NEW k \in 0..(l + m - 1)
        PROVE  /\ SubSeq(last, 1, k) \in DOMAIN u
               /\ last[k + 1] = Compare(str[r[k]], u[SubSeq(last, 1, k)].c)
               /\ r[k + 1] = IF last[k + 1] = "center" THEN r[k] + 1 ELSE r[k]
    <3>1. CASE k < l
      <4>1. k \in 0..(l - 1) /\ k \in 0..l /\ k + 1 \in 0..l /\ k + 1 \in 1..l
        BY <1>6, <3>1
      <4>2. /\ SubSeq(w.np, 1, k) \in DOMAIN t
            /\ w.np[k + 1] = Compare(str[p[k]], t[SubSeq(w.np, 1, k)].c)
            /\ p[k + 1] = IF w.np[k + 1] = "center" THEN p[k] + 1 ELSE p[k]
        BY <1>3, <4>1 DEF Turns, l
      <4>3. SubSeq(last, 1, k) = SubSeq(w.np, 1, k)
        BY <1>7, <1>12, <4>1
      <4>4. last[k + 1] = w.np[k + 1]
        <5>1. SubSeq(last, 1, l) = w.np
          <6>1. l \in 0..l /\ SubSeq(w.np, 1, l) = w.np
            BY <1>6, WholeAndNone DEF l
          <6> QED
            BY <1>7, <1>12, <6>1
        <5>2. SubSeq(last, 1, l)[k + 1] = last[k + 1]
          <6>1. l \in 0..Len(last)
            BY <1>6, <1>13
          <6> HIDE DEF last
          <6> QED
            BY <1>13, <4>1, <6>1, Beginning
        <5> QED
          BY <5>1, <5>2
      <4>5. u[SubSeq(w.np, 1, k)] = t[SubSeq(w.np, 1, k)] /\ SubSeq(w.np, 1, k) \in DOMAIN u
        BY <1>9, <4>2
      <4>6. r[k] = p[k] /\ r[k + 1] = p[k + 1]
        BY <1>14, <4>1
      <4> HIDE DEF last
      <4> QED
        BY <4>2, <4>3, <4>4, <4>5, <4>6
    <3>2. CASE ~(k < l)
      <4> DEFINE i == k - l
      <4>1. i \in 0..(m - 1) /\ i \in 0..m /\ i + 1 \in 1..m /\ i + 1 \in 0..m
            /\ k = l + i /\ k + 1 = l + (i + 1)
        BY <1>6, <3>2
      <4> HIDE DEF i
      <4>2. SubSeq(last, 1, k) = B[i] /\ last[k + 1] = "center"
        BY <1>7, <1>12, <4>1
      <4>3. B[i] \in DOMAIN u /\ u[B[i]].c = str[w.pos + i] /\ w.pos + i \in 1..Len(str)
        <5>1. B[i] \in DOMAIN u
          BY <1>9, <4>1
        <5> QED
          BY <1>10, <4>1, <5>1
      <4>4. r[k] = w.pos + i /\ r[k + 1] = w.pos + (i + 1)
        BY <1>14, <4>1
      <4>5. str[w.pos + i] \in Nat
        BY <1>1, <4>3
      <4>6. Compare(str[w.pos + i], str[w.pos + i]) = "center"
        BY <4>5, Comparison
      <4>7. w.pos + (i + 1) = w.pos + i + 1
        BY <1>2, <4>1
      <4> HIDE DEF last
      <4> QED
        BY <4>2, <4>3, <4>4, <4>6, <4>7
    <3> QED
      BY <3>1, <3>2
  <2>2. r[0] = 1
    <3>1. 0 \in 0..l /\ p[0] = 1
      BY <1>3, <1>6 DEF Turns
    <3> QED
      BY <1>14, <3>1
  <2>3. w.pos + m = Len(str)
    BY <1>1, <1>2 DEF m
  <2>4. r[l + m] = Len(str)
    BY <1>12, <1>14, <2>3
  <2>5. u[last].c = str[Len(str)]
    <3>1. u[B[m]].c = str[w.pos + m]
      BY <1>10, <1>12
    <3> QED
      BY <2>3, <3>1
  <2> HIDE DEF last
  <2>6. Turns(u, str, last, r)
    <3>1. r \in [0..Len(last) -> 1..Len(str)]
      BY <1>13, <1>14
    <3> DEFINE K == 0..(Len(last) - 1)
    <3>2. K = 0..(l + m - 1)
      <4>1. Len(last) - 1 = l + m - 1
        BY <1>6, <1>13
      <4> QED
        BY <4>1
    <3> HIDE DEF K
    <3>3. \A k \in K :
              /\ SubSeq(last, 1, k) \in DOMAIN u
              /\ last[k + 1] = Compare(str[r[k]], u[SubSeq(last, 1, k)].c)
              /\ r[k + 1] = IF last[k + 1] = "center" THEN r[k] + 1 ELSE r[k]
      BY <2>1, <3>2
    <3> QED
      BY <2>2, <3>1, <3>3, Zenon DEF Turns, K
  <2> QED
    BY <1>13, <2>4, <2>5, <2>6 DEF Leads
<1>16. u[last].data = data
  BY <1>10, <1>12
<1>17. \A q \in DOMAIN u \ DOMAIN t : q # last => u[q].data = NULL
  <2>1. ASSUME NEW n \in 0..m, B[n] # last PROVE u[B[n]].data = NULL
    BY <1>10, <2>1
  <2> QED
    BY <1>9, <2>1
<1> HIDE DEF last
<1> QED
  BY <1>9, <1>11, <1>13, <1>15, <1>16, <1>17 DEF u, w

\* A path that is registered is where its way ends, and nowhere else.
LEMMA RouteIsAtEnd ==
    ASSUME IInv, NEW np \in DOMAIN tree, tree[np].data # NULL
    PROVE  /\ tree[np].data \in Data /\ tree[np].data \in Registered
           /\ Leads(tree, tree[np].data.str, np)
           /\ EndOfWay(tree, tree[np].data.str).np = np
<1> DEFINE d == tree[np].data
<1>1. WellFormed(tree) /\ d \in Data /\ d \in Registered /\ Leads(tree, d.str, np)
  BY DEF IInv, WellFormed, Node, Led, Registered
<1>2. d.str \in Key
  BY <1>1, PathsAreKeys DEF Data
<1> HIDE DEF d
<1>3. EndOfWay(tree, d.str) = [np |-> np, pos |-> Len(d.str)]
  BY <1>1, <1>2, WayEndsAt
<1> QED
  BY <1>1, <1>3 DEF d

LEMMA EndIsRoute ==
    ASSUME IInv, NEW path \in Path, EndOfWay(tree, path).np \in DOMAIN tree,
           tree[EndOfWay(tree, path).np].data # NULL
    PROVE  tree[EndOfWay(tree, path).np].data.str = path
<1> DEFINE np == EndOfWay(tree, path).np
           d == tree[np].data
<1>1. path \in Key /\ WellFormed(tree)
  BY PathsAreKeys DEF IInv
<1>2. Leads(tree, path, np)
  BY <1>1, WayLeads
<1> HIDE DEF np
<1>3. np \in DOMAIN tree /\ d # NULL
  BY DEF np
<1>4. d \in Data /\ Leads(tree, d.str, np)
  BY <1>3, RouteIsAtEnd
<1>5. d.str \in Key
  BY <1>4, PathsAreKeys DEF Data
<1> HIDE DEF d
<1>6. d.str = path
  BY <1>1, <1>2, <1>4, <1>5, OneLeads
<1> QED
  BY <1>6 DEF d, np

\* SetHandleFunc takes up a new path, and changes no other.
Taken(path, func) ==
    IF \E d \in Registered : d.str = path
    THEN Registered' = Registered
    ELSE Registered' = Registered \cup {[str |-> path, func |-> func]}

LEMMA SetHandleFuncIs ==
    ASSUME IInv, NEW path \in Path, NEW func \in Func, SetHandleFunc(path, func)
    PROVE  IInv' /\ Taken(path, func)
<1> DEFINE data == [str |-> path, func |-> func]
           np == EndOfWay(tree, path).np
<1>1. WellFormed(tree) /\ Led(tree) /\ path \in Key
  BY PathsAreKeys DEF IInv
<1>2. data \in Data /\ data # NULL /\ data.str = path
  BY NullAssumption DEF Data
<1>3. tree' = IF np \in DOMAIN tree THEN Store(tree, np, data)
              ELSE AddNodes(tree, path, EndOfWay(tree, path), data)
  BY DEF SetHandleFunc, Insert
<1>4. CASE np \in DOMAIN tree /\ tree[np].data # NULL
  <2>1. tree' = tree
    BY <1>3, <1>4 DEF Store
  <2>2. tree[np].data.str = path /\ tree[np].data \in Registered
    BY <1>4, EndIsRoute, RouteIsAtEnd
  <2> QED
    BY <1>1, <2>1, <2>2 DEF IInv, Taken, Registered
<1>5. ASSUME np \in DOMAIN tree => tree[np].data = NULL PROVE ~\E d \in Registered : d.str = path
  <2>1. SUFFICES ASSUME NEW d \in Registered, d.str = path PROVE FALSE
    OBVIOUS
  <2>2. PICK q \in DOMAIN tree : tree[q].data = d /\ d # NULL
    BY DEF Registered
  <2>3. EndOfWay(tree, path).np = q
    BY <2>1, <2>2, RouteIsAtEnd
  <2> QED
    BY <1>5, <2>2, <2>3
<1>6. CASE np \in DOMAIN tree /\ tree[np].data = NULL
  <2>1. tree' = [tree EXCEPT ![np].data = data]
    BY <1>3, <1>6 DEF Store
  <2>2. Leads(tree, path, np)
    BY <1>1, <1>6, WayLeads
  <2> HIDE DEF np, data
  <2>3. /\ WellFormed(tree') /\ DOMAIN tree' = DOMAIN tree
        /\ \A q \in DOMAIN tree : tree'[q].data = IF q = np THEN data ELSE tree[q].data
        /\ \A q, str : Leads(tree, str, q) => Leads(tree', str, q)
    <3>1. data \in Data \cup {NULL} /\ np \in DOMAIN tree
      BY <1>2, <1>6
    <3>2. tree' = WithData(tree, np, data)
      BY <2>1 DEF WithData
    <3>3. LET u == WithData(tree, np, data)
          IN  /\ WellFormed(u) /\ DOMAIN u = DOMAIN tree
              /\ \A q \in DOMAIN tree : u[q].data = IF q = np THEN data ELSE tree[q].data
              /\ \A q, str : Leads(tree, str, q) => Leads(u, str, q)
      BY <1>1, <3>1, DataChanged
    <3> QED
      BY <3>2, <3>3, Zenon
  <2>4. Led(tree')
    <3>1. SUFFICES ASSUME NEW q \in DOMAIN tree, tree'[q].data # NULL
                   PROVE  Leads(tree', tree'[q].data.str, q)
      BY <2>3 DEF Led
    <3>2. CASE q = np
      BY <1>2, <2>2, <2>3, <3>2
    <3>3. CASE q # np
      BY <1>1, <2>3, <3>1, <3>3 DEF Led
    <3> QED
      BY <3>2, <3>3
  <2>5. Registered' = Registered \cup {data}
    BY <1>2, <1>6, <2>3 DEF Registered
  <2> QED
    BY <1>5, <1>6, <2>3, <2>4, <2>5 DEF IInv, Taken, data
<1>7. CASE np \notin DOMAIN tree
  <2>1. tree' = AddNodes(tree, path, EndOfWay(tree, path), data)
    BY <1>3, <1>7
  <2> HIDE DEF data
  <2>2. /\ WellFormed(tree') /\ DOMAIN tree \subseteq DOMAIN tree'
        /\ \A q \in DOMAIN tree : tree'[q] = tree[q]
        /\ \E last \in DOMAIN tree' \ DOMAIN tree :
               /\ tree'[last].data = data /\ Leads(tree', path, last)
               /\ \A q \in DOMAIN tree' \ DOMAIN tree : q # last => tree'[q].data = NULL
    BY <1>1, <1>2, <1>7, <2>1, Added
  <2>3. PICK last \in DOMAIN tree' \ DOMAIN tree :
               /\ tree'[last].data = data /\ Leads(tree', path, last)
               /\ \A q \in DOMAIN tree' \ DOMAIN tree : q # last => tree'[q].data = NULL
    BY <2>2
  <2>4. Led(tree')
    <3>1. SUFFICES ASSUME NEW q \in DOMAIN tree', tree'[q].data # NULL
                   PROVE  Leads(tree', tree'[q].data.str, q)
      BY DEF Led
    <3>2. CASE q = last
      BY <1>2, <2>3, <3>2
    <3>3. CASE q # last
      <4>1. q \in DOMAIN tree
        BY <2>3, <3>1, <3>3
      <4>2. q \in Seq(Turn) /\ Leads(tree, tree[q].data.str, q)
        BY <1>1, <2>2, <3>1, <4>1 DEF Led, WellFormed
      <4>3. \A k \in 0..Len(q) : SubSeq(q, 1, k) \in DOMAIN tree
        BY <1>1, <4>1, PrefixesInTree
      <4>4. \A k \in 0..Len(q) : /\ SubSeq(q, 1, k) \in DOMAIN tree'
                                 /\ tree'[SubSeq(q, 1, k)].c = tree[SubSeq(q, 1, k)].c
        BY <2>2, <4>3
      <4>5. Leads(tree', tree[q].data.str, q)
        BY <4>2, <4>4, LeadsKept
      <4> QED
        BY <2>2, <4>1, <4>5
    <3> QED
      BY <3>2, <3>3
  <2>5. Registered' = Registered \cup {data}
    <3>1. Registered' \subseteq Registered \cup {data}
      BY <2>2, <2>3 DEF Registered
    <3>2. Registered \cup {data} \subseteq Registered'
      BY <1>2, <2>2, <2>3 DEF Registered
    <3> QED
      BY <3>1, <3>2
  <2> QED
    BY <1>5, <1>7, <2>2, <2>4, <2>5 DEF IInv, Taken, data
<1> QED
  BY <1>4, <1>6, <1>7

-----------------------------------------------------------------------------
(* Erase.                                                                  *)

\* What the loop of Erase carries.
Step(str) ==
    [np : Seq(Turn), s : 1..Len(str), first_np : Seq(Turn) \cup {NULL},
     last_np : Seq(Turn) \cup {NULL}, last_s : Nat]

\* A round of Erase goes the way of the others.
LEMMA RoundIs ==
    ASSUME IInv, NEW str \in Key, NEW w \in Step(str)
    PROVE  LET v == Round(str, w)
               place == [np |-> w.np, pos |-> w.s]
           IN  /\ v \in Step(str)
               /\ Down(tree, str, place) = [np |-> v.np, pos |-> v.s]
               /\ w.np \notin DOMAIN tree => v.np = w.np
               /\ w.np \in DOMAIN tree =>
                      \/ v.first_np \in Seq(Turn)
                      \/ Len(v.np) = Len(w.np) + 1
               /\ w.first_np \in Seq(Turn) => v.first_np \in Seq(Turn)
<1> DEFINE v == Round(str, w)
           place == [np |-> w.np, pos |-> w.s]
           turn == Compare(str[w.s], tree[w.np].c)
           match == tree[w.np].c = str[w.s]
           np == Append(w.np, turn)
           s == IF match THEN w.s + 1 ELSE w.s
           first_np == IF match /\ w.first_np = NULL THEN w.np ELSE w.first_np
           last_s == IF match THEN w.last_s ELSE w.s
<1>1. /\ w.np \in Seq(Turn) /\ w.s \in 1..Len(str) /\ w.s \in Nat
      /\ w.first_np \in Seq(Turn) \cup {NULL} /\ w.last_np \in Seq(Turn) \cup {NULL}
      /\ w.last_s \in Nat
  BY DEF Step
<1>2. place \in Place /\ place.pos \in 1..Len(str) /\ WellFormed(tree)
  BY <1>1 DEF Place, IInv
<1>3. /\ Ended(tree, str, place) => Down(tree, str, place) = place
      /\ ~Ended(tree, str, place) =>
             /\ Down(tree, str, place) =
                    [np |-> np, pos |-> IF turn = "center" THEN w.s + 1 ELSE w.s]
             /\ w.np \in DOMAIN tree /\ turn \in Turn
             /\ turn = "center" <=> Matches(tree, str, place)
             /\ turn = "center" => w.s + 1 \in 1..Len(str)
  <2>1. place.np = w.np /\ place.pos = w.s
    OBVIOUS
  <2> HIDE DEF place
  <2> QED
    BY <1>2, <2>1, DownIs
<1>4. Matches(tree, str, place) <=> w.np \in DOMAIN tree /\ match
  BY DEF Matches
<1>5. Ended(tree, str, place) <=> \/ w.np \notin DOMAIN tree
                                  \/ w.np \in DOMAIN tree /\ match /\ w.s = Len(str)
  BY <1>4 DEF Ended
<1>6. first_np \in Seq(Turn) \cup {NULL} /\ (match => first_np \in Seq(Turn))
      /\ (w.first_np \in Seq(Turn) => first_np \in Seq(Turn)) /\ last_s \in Nat
  BY <1>1
<1>7. v = CASE w.np \notin DOMAIN tree -> w
            [] w.np \in DOMAIN tree /\ match /\ w.s = Len(str) -> [w EXCEPT !.first_np = first_np]
            [] OTHER -> [np |-> np, s |-> s, first_np |-> first_np,
                         last_np |-> IF Branches(np) THEN np ELSE w.last_np,
                         last_s |-> IF Branches(np) THEN s + 1 ELSE last_s]
  BY DEF Round
<1> HIDE DEF v
<1>8. CASE w.np \notin DOMAIN tree
  <2>1. v = w
    BY <1>7, <1>8
  <2>2. Down(tree, str, place) = place
    BY <1>3, <1>5, <1>8
  <2> QED
    BY <1>8, <2>1, <2>2 DEF v
<1>9. CASE w.np \in DOMAIN tree /\ match /\ w.s = Len(str)
  <2> HIDE DEF match, first_np
  <2>1. v = [w EXCEPT !.first_np = first_np]
    BY <1>7, <1>9
  <2>2. v \in Step(str) /\ v.np = w.np /\ v.s = w.s /\ v.first_np = first_np
    BY <1>6, <2>1 DEF Step
  <2>3. Down(tree, str, place) = place
    BY <1>3, <1>5, <1>9
  <2> QED
    BY <1>6, <1>9, <2>2, <2>3 DEF v
<1>10. CASE w.np \in DOMAIN tree /\ ~(match /\ w.s = Len(str))
  <2> DEFINE last_np == IF Branches(np) THEN np ELSE w.last_np
             last == IF Branches(np) THEN s + 1 ELSE last_s
  <2>1. v = [np |-> np, s |-> s, first_np |-> first_np, last_np |-> last_np, last_s |-> last]
    BY <1>7, <1>10
  <2>2. /\ Down(tree, str, place) =
               [np |-> np, pos |-> IF turn = "center" THEN w.s + 1 ELSE w.s]
        /\ turn \in Turn /\ (turn = "center" <=> match)
        /\ turn = "center" => w.s + 1 \in 1..Len(str)
    <3> HIDE DEF place, np, turn, match
    <3> QED
      BY <1>3, <1>4, <1>5, <1>10
  <2>3. np \in Seq(Turn) /\ Len(np) = Len(w.np) + 1
    BY <1>1, <2>2
  <2> HIDE DEF np, turn, match
  <2>4. s \in 1..Len(str) /\ s \in Nat /\ Down(tree, str, place) = [np |-> np, pos |-> s]
    BY <1>1, <2>2
  <2> HIDE DEF s, first_np, last_s
  <2>5. last_np \in Seq(Turn) \cup {NULL} /\ last \in Nat
    BY <1>1, <1>6, <2>3, <2>4
  <2> HIDE DEF last_np, last, place
  <2>6. v \in Step(str) /\ v.np = np /\ v.s = s /\ v.first_np = first_np
    BY <1>6, <2>1, <2>3, <2>4, <2>5 DEF Step
  <2> QED
    BY <1>6, <1>10, <2>3, <2>4, <2>6 DEF v, place
<1> QED
  BY <1>8, <1>9, <1>10

\* The loop ends where the way does.
LEMMA WalkIs ==
    ASSUME IInv, NEW str \in Key
    PROVE  LET w == Walk(str)
           IN  /\ w \in Step(str) /\ w.np = EndOfWay(tree, str).np
               /\ w.np \in DOMAIN tree => w.first_np \in Seq(Turn)
<1> DEFINE way == Way(tree, str)
           N == Depth(tree)
           S == Step(str)
           first == [np |-> root, s |-> 1, first_np |-> NULL, last_np |-> NULL, last_s |-> 1]
           F == [n \in 1..N |-> [w \in S |-> Round(str, w)]]
           Rounds(f) == [n \in 0..N |-> IF n = 0 THEN first ELSE Round(str, f[n - 1])]
<1>1. WellFormed(tree) /\ N \in Nat
  <2>1. WellFormed(tree)
    BY DEF IInv
  <2> QED
    BY <2>1, DepthIsNat
<1>2. /\ way[0] = [np |-> root, pos |-> 1]
      /\ \A n \in 1..N : way[n] = Down(tree, str, way[n - 1])
  BY <1>1, WayByStep
<1>3. first \in S
  <2>1. root \in Seq(Turn) /\ 1 \in 1..Len(str)
    BY DEF root, Key
  <2> QED
    BY <2>1 DEF Step
<1>4. ASSUME NEW w \in S PROVE Round(str, w) \in S
  BY <1>4, RoundIs
<1>5. F \in [1..N -> [S -> S]]
  BY <1>4
<1> HIDE DEF way, N, S, F, first
<1>6. PICK f \in [0..N -> S] : f[0] = first /\ \A n \in 1..N : f[n] = F[n][f[n - 1]]
  <2>1. Steppable(N, S, first, F)
    BY <1>1, <1>3, <1>5 DEF Steppable
  <2>2. PICK f : Stepwise(f, N, S, first, F)
    BY <2>1, StepByStep
  <2> QED
    BY <2>2 DEF Stepwise
<1>7. f = Rounds(f)
  <2>1. ASSUME NEW n \in 0..N PROVE f[n] = Rounds(f)[n]
    <3>1. CASE n = 0
      BY <1>6, <3>1
    <3>2. CASE n # 0
      <4>1. n \in 1..N /\ n - 1 \in 0..N
        BY <1>1, <3>2
      <4>2. f[n] = F[n][f[n - 1]] /\ f[n - 1] \in S
        BY <1>6, <4>1
      <4> QED
        BY <3>2, <4>1, <4>2 DEF F
    <3> QED
      BY <3>1, <3>2
  <2> QED
    BY <1>6, <2>1
<1> DEFINE Is(g) == g = Rounds(g)
           walk == CHOOSE g : Is(g)
<1>8. walk = Rounds(walk)
  <2>1. Is(f)
    BY <1>7
  <2> HIDE DEF Is
  <2>2. Is(walk)
    BY <2>1
  <2> QED
    BY <2>2 DEF Is
<1>9. Walk(str) = walk[N]
  BY DEF Walk, N, first
<1> HIDE DEF walk
<1>10. walk[0] = first /\ \A n \in 1..N : walk[n] = Round(str, walk[n - 1])
  <2>1. Rounds(walk)[0] = first
    BY <1>1
  <2>2. ASSUME NEW n \in 1..N PROVE Rounds(walk)[n] = Round(str, walk[n - 1])
    <3>1. n \in 0..N /\ n # 0
      BY <1>1
    <3> QED
      BY <3>1
  <2> QED
    BY <1>8, <2>1, <2>2
<1> DEFINE Fits(n) == /\ walk[n] \in S
                     /\ way[n] = [np |-> walk[n].np, pos |-> walk[n].s]
                     /\ \/ walk[n].first_np \in Seq(Turn)
                        \/ walk[n].np \notin DOMAIN tree
                        \/ Len(walk[n].np) = n
           G == {n \in 0..N : Fits(n)}
<1>11. 0 \in G
  <2>1. 0 \in 0..N
    BY <1>1
  <2>2. walk[0].np = root /\ walk[0].s = 1 /\ Len(root) = 0
    BY <1>10 DEF first, root
  <2> QED
    BY <1>2, <1>3, <1>10, <2>1, <2>2
<1>12. ASSUME NEW n \in 1..N, n - 1 \in G PROVE n \in G
  <2> DEFINE w == walk[n - 1]
             v == walk[n]
  <2>1. n \in 0..N /\ v = Round(str, w)
    BY <1>1, <1>10
  <2>2. Fits(n - 1)
    BY <1>12
  <2>3. /\ w \in S /\ way[n - 1] = [np |-> w.np, pos |-> w.s]
        /\ \/ w.first_np \in Seq(Turn) \/ w.np \notin DOMAIN tree \/ Len(w.np) = n - 1
    BY <2>2
  <2> HIDE DEF w, v
  <2>4. /\ v \in S
        /\ Down(tree, str, [np |-> w.np, pos |-> w.s]) = [np |-> v.np, pos |-> v.s]
        /\ w.np \notin DOMAIN tree => v.np = w.np
        /\ w.np \in DOMAIN tree => v.first_np \in Seq(Turn) \/ Len(v.np) = Len(w.np) + 1
        /\ w.first_np \in Seq(Turn) => v.first_np \in Seq(Turn)
    BY <2>1, <2>3, RoundIs DEF S
  <2>5. way[n] = [np |-> v.np, pos |-> v.s]
    BY <1>2, <2>3, <2>4
  <2>6. v.first_np \in Seq(Turn) \/ v.np \notin DOMAIN tree \/ Len(v.np) = n
    <3>1. CASE w.first_np \in Seq(Turn)
      BY <2>4, <3>1
    <3>2. CASE w.np \notin DOMAIN tree
      BY <2>4, <3>2
    <3>3. CASE w.np \in DOMAIN tree /\ Len(w.np) = n - 1
      BY <1>1, <2>4, <3>3
    <3> QED
      BY <2>3, <3>1, <3>2, <3>3
  <2> QED
    BY <2>1, <2>4, <2>5, <2>6 DEF v
<1> HIDE DEF G
<1>13. \A n \in 0..N : n \in G
  BY <1>1, <1>11, <1>12, UpTo
<1>14. N \in G
  BY <1>1, <1>13
<1>15. Fits(N)
  BY <1>14 DEF G
<1>16. walk[N].np \in DOMAIN tree => Len(walk[N].np) < N
  BY <1>1, DepthBounds DEF N
<1>17. /\ walk[N] \in S /\ way[N].np = walk[N].np
       /\ walk[N].np \in DOMAIN tree => walk[N].first_np \in Seq(Turn)
  BY <1>1, <1>15, <1>16
<1> QED
  BY <1>9, <1>17 DEF EndOfWay, way, N, S

LEMMA FreedIs ==
    ASSUME NEW str \in Key, NEW w \in Step(str), w.first_np \in Seq(Turn)
    PROVE  Freed(str, w) \in Seq(Turn) \cup {NULL}
<1>1. w.last_np \in Seq(Turn) \cup {NULL}
  BY DEF Step
<1>2. ASSUME NEW np \in Seq(Turn)
      PROVE  left(np) \in Seq(Turn) /\ center(np) \in Seq(Turn) /\ right(np) \in Seq(Turn)
  BY DEF left, center, right, Turn
<1>3. CASE w.last_np = NULL
  <2>1. Freed(str, w) = center(w.first_np)
    BY <1>3 DEF Freed
  <2> QED
    BY <1>2, <2>1
<1>4. CASE w.last_np # NULL
  <2>1. Freed(str, w) \in {left(w.last_np), right(w.last_np), center(w.last_np), NULL}
    BY <1>4 DEF Freed
  <2> QED
    BY <1>1, <1>2, <1>4, <2>1
<1> QED
  BY <1>3, <1>4

\* What is left when the handler of a path is taken away.
LEMMA EraseNodesIs ==
    ASSUME IInv, NEW str \in Key, NEW w \in Step(str), w.first_np \in Seq(Turn),
           w.np \in DOMAIN tree
    PROVE  LET u == EraseNodes(w.np, str, w)
           IN  /\ WellFormed(u) /\ Led(u) /\ DOMAIN u \subseteq DOMAIN tree
               /\ \A q \in DOMAIN u : u[q].data = IF q = w.np THEN NULL ELSE tree[q].data
               /\ center(w.np) \in DOMAIN tree => DOMAIN u = DOMAIN tree
<1> DEFINE t == WithData(tree, w.np, NULL)
           u == EraseNodes(w.np, str, w)
           v == Freed(str, w)
<1>1. WellFormed(tree) /\ Led(tree)
  BY DEF IInv
<1>2. /\ WellFormed(t) /\ DOMAIN t = DOMAIN tree
      /\ \A q \in DOMAIN tree : t[q].data = IF q = w.np THEN NULL ELSE tree[q].data
      /\ \A q, s : Leads(tree, s, q) => Leads(t, s, q)
  BY <1>1, DataChanged
<1>3. Led(t)
  BY <1>1, <1>2 DEF Led
<1>4. u = IF center(w.np) \in DOMAIN tree \/ v = NULL THEN t ELSE Clean(t, v)
  BY DEF EraseNodes, WithData
<1>5. v \in Seq(Turn) \cup {NULL}
  BY FreedIs
<1> HIDE DEF t, u, v
<1>6. CASE center(w.np) \in DOMAIN tree \/ v = NULL
  BY <1>2, <1>3, <1>4, <1>6 DEF u
<1>7. CASE ~(center(w.np) \in DOMAIN tree \/ v = NULL)
  <2>1. u = Clean(t, v) /\ v \in Seq(Turn)
    BY <1>4, <1>5, <1>7
  <2>2. /\ WellFormed(u) /\ DOMAIN u \subseteq DOMAIN t
        /\ \A q \in DOMAIN u : u[q] = t[q]
        /\ \A q \in DOMAIN u : \A s : Leads(t, s, q) => Leads(u, s, q)
    BY <1>2, <2>1, Cleaned
  <2>3. Led(u)
    BY <1>3, <2>2 DEF Led
  <2> QED
    BY <1>2, <1>7, <2>2, <2>3 DEF u
<1> QED
  BY <1>6, <1>7

\* A beginning of what leads to a node leads to a node on the way there.
LEMMA BeginningLeads ==
    ASSUME NEW t, WellFormed(t), NEW a \in Key, NEW b \in Key, IsPrefix(a, b), NEW q,
           Leads(t, b, q)
    PROVE  \E k \in 0..Len(q) : /\ Leads(t, a, SubSeq(q, 1, k))
                                /\ a # b => k < Len(q) /\ q[k + 1] = "center"
<1> DEFINE m == Len(q)
           l == Len(a)
<1>1. q \in DOMAIN t /\ q \in Seq(Turn) /\ m \in Nat /\ t[q].c = b[Len(b)]
  BY DEF Leads, WellFormed
<1>2. a \in Seq(Nat) /\ b \in Seq(Nat) /\ l \in Nat /\ l > 0 /\ l <= Len(b)
  BY PrefixIsAlike DEF Key
<1>3. \A i \in 1..l : a[i] = b[i]
  BY PrefixIsAlike
<1>4. PICK p : Turns(t, b, q, p) /\ p[m] = Len(b)
  BY DEF Leads
<1>5. /\ p \in [0..m -> 1..Len(b)] /\ p[0] = 1
      /\ \A k \in 0..(m - 1) :
             /\ SubSeq(q, 1, k) \in DOMAIN t
             /\ q[k + 1] = Compare(b[p[k]], t[SubSeq(q, 1, k)].c)
             /\ p[k + 1] = IF q[k + 1] = "center" THEN p[k] + 1 ELSE p[k]
  BY <1>4 DEF Turns
<1> HIDE DEF m, l
<1> DEFINE G == {k \in 0..m : \A j \in 0..k : p[j] <= l}
<1>6. 0 \in G
  BY <1>1, <1>2, <1>5
<1>7. PICK k \in G : k = m \/ (k < m /\ k + 1 \notin G)
  <2>1. CASE \A n \in 1..m : n - 1 \in G => n \in G
    <3> HIDE DEF G
    <3>1. \A n \in 0..m : n \in G
      BY <1>1, <1>6, <2>1, UpTo
    <3> QED
      BY <1>1, <3>1
  <2>2. CASE \E n \in 1..m : n - 1 \in G /\ n \notin G
    <3>1. PICK n \in 1..m : n - 1 \in G /\ n \notin G
      BY <2>2
    <3>2. (n - 1) + 1 = n /\ n - 1 < m
      BY <1>1
    <3> HIDE DEF G
    <3> QED
      BY <3>1, <3>2
  <2> HIDE DEF G
  <2> QED
    BY <2>1, <2>2
<1>8. k \in 0..m /\ \A j \in 0..k : p[j] \in 1..l
  <2>1. k \in 0..m /\ \A j \in 0..k : p[j] <= l /\ j \in 0..m
    BY <1>1
  <2>2. \A j \in 0..m : p[j] \in 1..Len(b)
    BY <1>5
  <2> QED
    BY <1>2, <2>1, <2>2
<1> DEFINE np == SubSeq(q, 1, k)
           r == [j \in 0..k |-> p[j]]
<1>9. /\ np \in Seq(Turn) /\ Len(np) = k /\ np \in DOMAIN t
      /\ \A j \in 1..k : np[j] = q[j]
      /\ \A j \in 0..k : SubSeq(np, 1, j) = SubSeq(q, 1, j)
  BY <1>1, <1>8, Beginning, PrefixesInTree DEF m
<1> HIDE DEF np
<1>10. Turns(t, a, np, r)
  <2>1. r \in [0..Len(np) -> 1..Len(a)] /\ r[0] = 1
    BY <1>5, <1>8, <1>9 DEF l
  <2>2. ASSUME NEW j \in 0..(Len(np) - 1)
        PROVE  /\ SubSeq(np, 1, j) \in DOMAIN t
               /\ np[j + 1] = Compare(a[r[j]], t[SubSeq(np, 1, j)].c)
               /\ r[j + 1] = IF np[j + 1] = "center" THEN r[j] + 1 ELSE r[j]
    <3>1. j \in 0..(m - 1) /\ j \in 0..k /\ j + 1 \in 1..k /\ j + 1 \in 0..k
      BY <1>1, <1>8, <1>9
    <3>2. r[j] = p[j] /\ r[j + 1] = p[j + 1] /\ a[p[j]] = b[p[j]]
      BY <1>3, <1>8, <3>1
    <3>3. np[j + 1] = q[j + 1] /\ SubSeq(np, 1, j) = SubSeq(q, 1, j)
      BY <1>9, <3>1
    <3> HIDE DEF r
    <3> QED
      BY <1>5, <3>1, <3>2, <3>3
  <2> QED
    BY <2>1, <2>2 DEF Turns
<1>11. r[Len(np)] = p[k]
  BY <1>8, <1>9
<1> HIDE DEF r
<1>12. CASE k = m
  <2>1. np = q
    BY <1>1, <1>12, WholeAndNone DEF np, m
  <2>2. Len(b) <= l /\ l = Len(b)
    BY <1>2, <1>4, <1>8, <1>12
  <2>3. a = b
    BY <1>2, <1>3, <2>2 DEF l
  <2> QED
    BY <1>8, <1>12, <2>1, <2>3 DEF np, m
<1>13. CASE k # m
  <2>1. k < m /\ k + 1 \notin G /\ k \in 0..(m - 1) /\ k + 1 \in 0..m
    BY <1>1, <1>7, <1>8, <1>13
  <2>2. p[k + 1] > l
    <3>1. PICK j \in 0..(k + 1) : ~(p[j] <= l)
      BY <2>1
    <3>2. j = k + 1
      BY <1>8, <2>1, <3>1
    <3>3. p[k + 1] \in Nat
      BY <1>5, <2>1
    <3> QED
      BY <1>2, <3>1, <3>2, <3>3
  <2>3. q[k + 1] = "center" /\ p[k] = l
    <3>1. k \in 0..k /\ p[k] \in 1..l /\ p[k + 1] = IF q[k + 1] = "center" THEN p[k] + 1 ELSE p[k]
      BY <1>5, <1>8, <2>1
    <3> QED
      BY <1>2, <2>2, <3>1
  <2>4. t[np].c = a[l]
    <3>1. t[np].c \in Nat
      BY <1>9, CharsAreNumbers DEF WellFormed, Node
    <3>2. b[l] \in Nat /\ b[l] = a[l] /\ l \in 1..l
      BY <1>2, <1>3
    <3>3. "center" = Compare(b[l], t[np].c)
      BY <1>5, <2>1, <2>3 DEF np
    <3> QED
      BY <3>1, <3>2, <3>3, Comparison
  <2>5. Leads(t, a, np)
    BY <1>9, <1>10, <1>11, <2>3, <2>4 DEF Leads, l
  <2> QED
    BY <1>8, <2>1, <2>3, <2>5 DEF np, m
<1> QED
  BY <1>12, <1>13

\* A node with the path of a handler, where a path that others extend ends.
LEMMA ExtendedIsAbove ==
    ASSUME IInv, NEW path \in Path, NEW np \in DOMAIN tree, Leads(tree, path, np),
           NEW d \in Registered, IsStrictPrefix(path, d.str)
    PROVE  center(np) \in DOMAIN tree
<1>1. WellFormed(tree)
  BY DEF IInv
<1>2. PICK q \in DOMAIN tree : tree[q].data = d /\ d # NULL
  BY DEF Registered
<1>3. d \in Data /\ Leads(tree, d.str, q) /\ q \in Seq(Turn)
  BY <1>1, <1>2, RouteIsAtEnd DEF WellFormed
<1>4. d.str \in Key /\ path \in Key /\ IsPrefix(path, d.str) /\ path # d.str
  BY <1>3, PathsAreKeys DEF Data, IsStrictPrefix
<1>5. PICK k \in 0..Len(q) : /\ Leads(tree, path, SubSeq(q, 1, k))
                             /\ k < Len(q) /\ q[k + 1] = "center"
  BY <1>1, <1>3, <1>4, BeginningLeads
<1>6. SubSeq(q, 1, k) = np
  BY <1>1, <1>4, <1>5, OnePlace
<1>7. k + 1 \in 0..Len(q) /\ SubSeq(q, 1, k + 1) = center(np)
  BY <1>3, <1>5, <1>6, Beginning DEF center
<1> QED
  BY <1>1, <1>7, PrefixesInTree

\* Erase takes the path away and brings none, and alone one that others extend.
Confined(path) ==
    /\ Registered' \subseteq {d \in Registered : d.str # path}
    /\ (\E d \in Registered : IsStrictPrefix(path, d.str))
           => {d \in Registered : d.str # path} \subseteq Registered'

LEMMA EraseIs ==
    ASSUME IInv, NEW path \in Path, Erase(path)
    PROVE  IInv' /\ Confined(path)
<1> DEFINE w == Walk(path)
<1>1. path \in Key /\ WellFormed(tree) /\ Led(tree)
  BY PathsAreKeys DEF IInv
<1>2. /\ w \in Step(path) /\ w.np = EndOfWay(tree, path).np
      /\ w.np \in DOMAIN tree => w.first_np \in Seq(Turn)
  BY <1>1, WalkIs
<1>3. tree' = IF w.np \in DOMAIN tree /\ tree[w.np].data # NULL
              THEN EraseNodes(w.np, path, w) ELSE tree
  BY DEF Erase
<1> HIDE DEF w
<1>4. ASSUME NEW q \in DOMAIN tree, tree[q].data # NULL, tree[q].data.str = path
      PROVE  q = w.np
  BY <1>2, <1>4, RouteIsAtEnd
<1>5. CASE ~(w.np \in DOMAIN tree /\ tree[w.np].data # NULL)
  <2>1. tree' = tree
    BY <1>3, <1>5
  <2>2. \A d \in Registered : d.str # path
    BY <1>4, <1>5 DEF Registered
  <2>3. Registered' = Registered
    BY <2>1 DEF Registered
  <2> QED
    BY <1>1, <2>1, <2>2, <2>3 DEF IInv, Confined
<1>6. CASE w.np \in DOMAIN tree /\ tree[w.np].data # NULL
  <2>1. tree' = EraseNodes(w.np, path, w)
    BY <1>3, <1>6
  <2>2. /\ WellFormed(tree') /\ Led(tree') /\ DOMAIN tree' \subseteq DOMAIN tree
        /\ \A q \in DOMAIN tree' : tree'[q].data = IF q = w.np THEN NULL ELSE tree[q].data
        /\ center(w.np) \in DOMAIN tree => DOMAIN tree' = DOMAIN tree
    BY <1>1, <1>2, <1>6, <2>1, EraseNodesIs
  <2>3. Registered' \subseteq {d \in Registered : d.str # path}
    <3>1. SUFFICES ASSUME NEW q \in DOMAIN tree', tree'[q].data # NULL
                   PROVE  tree'[q].data \in Registered /\ tree'[q].data.str # path
      BY DEF Registered
    <3>2. q \in DOMAIN tree /\ q # w.np /\ tree'[q].data = tree[q].data
      BY <2>2, <3>1
    <3> QED
      BY <1>4, <3>1, <3>2 DEF Registered
  <2>4. ASSUME NEW e \in Registered, IsStrictPrefix(path, e.str),
               NEW d \in Registered, d.str # path
        PROVE  d \in Registered'
    <3>1. tree[w.np].data.str = path
      BY <1>2, <1>6, EndIsRoute
    <3>2. Leads(tree, path, w.np)
      BY <1>6, <3>1, RouteIsAtEnd
    <3>3. DOMAIN tree' = DOMAIN tree
      BY <1>6, <2>2, <2>4, <3>2, ExtendedIsAbove
    <3>4. PICK q \in DOMAIN tree : tree[q].data = d /\ d # NULL
      BY DEF Registered
    <3>5. q # w.np
      BY <2>4, <3>1, <3>4
    <3>6. tree'[q].data = d /\ q \in DOMAIN tree'
      BY <2>2, <3>3, <3>4, <3>5
    <3> QED
      BY <3>4, <3>6 DEF Registered
  <2> QED
    BY <2>2, <2>3, <2>4 DEF IInv, Confined
<1> QED
  BY <1>5, <1>6

-----------------------------------------------------------------------------
(* Search: what is at and below a node, and in which order.                *)

\* The nodes at and below np, and the handlers there.
Under(np) == {q \in DOMAIN tree : Len(np) <= Len(q) /\ SubSeq(q, 1, Len(np)) = np}
Kept(np) == {tree[q].data : q \in Under(np)} \ {NULL}
Here(np) == {tree[np].data} \ {NULL}

LEMMA UnderSplits ==
    ASSUME IInv, NEW np \in Seq(Turn)
    PROVE  /\ np \notin DOMAIN tree => Under(np) = {}
           /\ np \in DOMAIN tree =>
                  Under(np) = {np} \cup Under(left(np)) \cup Under(center(np)) \cup Under(right(np))
<1>1. WellFormed(tree)
  BY DEF IInv
<1>2. \A q \in DOMAIN tree : q \in Seq(Turn) /\ \A k \in 0..Len(q) : SubSeq(q, 1, k) \in DOMAIN tree
  BY <1>1, PrefixesInTree DEF WellFormed
<1>3. Len(np) \in Nat
  OBVIOUS
<1>4. ASSUME np \notin DOMAIN tree PROVE Under(np) = {}
  <2>1. ASSUME NEW q \in Under(np) PROVE FALSE
    <3>1. q \in DOMAIN tree /\ Len(np) \in 0..Len(q) /\ SubSeq(q, 1, Len(np)) = np
      BY <1>2, <1>3 DEF Under
    <3> QED
      BY <1>2, <1>4, <3>1
  <2> QED
    BY <2>1
<1>5. ASSUME np \in DOMAIN tree
      PROVE  Under(np) = {np} \cup Under(left(np)) \cup Under(center(np)) \cup Under(right(np))
  <2> DEFINE Sides == {np} \cup Under(left(np)) \cup Under(center(np)) \cup Under(right(np))
  <2>1. np \in Under(np)
    BY <1>5, WholeAndNone DEF Under
  <2>2. ASSUME NEW turn \in Turn PROVE Under(Append(np, turn)) \subseteq Under(np)
    <3>1. ASSUME NEW q \in Under(Append(np, turn)) PROVE q \in Under(np)
      <4> DEFINE s == Append(np, turn)
      <4>1. Len(s) = Len(np) + 1 /\ SubSeq(s, 1, Len(np)) = np
        BY Appended, WholeAndNone, <1>3
      <4> HIDE DEF s
      <4>2. q \in DOMAIN tree /\ Len(s) <= Len(q) /\ SubSeq(q, 1, Len(s)) = s /\ q \in Seq(Turn)
        BY <1>2 DEF Under, s
      <4>3. Len(np) \in 0..Len(s) /\ Len(s) \in 0..Len(q) /\ Len(np) <= Len(q)
        BY <1>3, <4>1, <4>2
      <4>4. SubSeq(q, 1, Len(np)) = np
        BY <4>1, <4>2, <4>3, Beginning
      <4> QED
        BY <4>2, <4>3, <4>4 DEF Under
    <3> QED
      BY <3>1
  <2>3. Sides \subseteq Under(np)
    BY <2>1, <2>2 DEF left, center, right, Turn
  <2>4. ASSUME NEW q \in Under(np) PROVE q \in Sides
    <3>1. q \in DOMAIN tree /\ Len(np) <= Len(q) /\ SubSeq(q, 1, Len(np)) = np /\ q \in Seq(Turn)
      BY <1>2 DEF Under
    <3>2. CASE Len(q) = Len(np)
      BY <3>1, <3>2, WholeAndNone
    <3>3. CASE Len(q) # Len(np)
      <4> DEFINE l == Len(np) + 1
                 turn == q[l]
                 s == Append(np, turn)
      <4>1. l \in 0..Len(q) /\ l > 0 /\ l - 1 = Len(np) /\ turn \in Turn /\ Len(q) \in Nat
        BY <1>3, <3>1, <3>3
      <4>2. Len(s) = l
        BY <4>1, Appended
      <4> HIDE DEF l, turn
      <4>3. SubSeq(q, 1, l) = s
        BY <3>1, <4>1, Beginning DEF turn
      <4>4. q \in Under(s)
        BY <3>1, <4>1, <4>2, <4>3 DEF Under
      <4> QED
        BY <4>1, <4>4 DEF Turn, left, center, right
    <3> QED
      BY <3>2, <3>3
  <2> QED
    BY <2>3, <2>4
<1> QED
  BY <1>4, <1>5

\* How a path that leads below np passes it: after the turns that lead to np, the
\* character compared there is the i-th, and decides where it goes on.
Passes(str, np, q, p) ==
    /\ Turns(tree, str, np, p)
    /\ q = np => p[Len(np)] = Len(str) /\ str[Len(str)] = tree[np].c
    /\ q \in Under(left(np)) => str[p[Len(np)]] < tree[np].c
    /\ q \in Under(center(np)) => str[p[Len(np)]] = tree[np].c /\ p[Len(np)] < Len(str)
    /\ q \in Under(right(np)) => str[p[Len(np)]] > tree[np].c

LEMMA PathPasses ==
    ASSUME IInv, NEW np \in DOMAIN tree, NEW q \in Under(np), tree[q].data # NULL
    PROVE  \E p : Passes(tree[q].data.str, np, q, p)
<1> DEFINE str == tree[q].data.str
           n == Len(np)
           m == Len(q)
<1>1. WellFormed(tree) /\ q \in DOMAIN tree /\ q \in Seq(Turn) /\ np \in Seq(Turn)
  BY DEF IInv, Under, WellFormed
<1>2. Leads(tree, str, q) /\ tree[q].data \in Data /\ str \in Key
  BY <1>1, RouteIsAtEnd, PathsAreKeys DEF Data
<1> HIDE DEF str
<1>3. str \in Seq(Nat) /\ n \in Nat /\ m \in Nat /\ n <= m /\ SubSeq(q, 1, n) = np
  BY <1>1, <1>2 DEF Key, Under
<1>4. PICK r : Turns(tree, str, q, r) /\ r[m] = Len(str)
  BY <1>2 DEF Leads
<1>5. /\ r \in [0..m -> 1..Len(str)] /\ r[0] = 1
      /\ \A k \in 0..(m - 1) :
             /\ SubSeq(q, 1, k) \in DOMAIN tree
             /\ q[k + 1] = Compare(str[r[k]], tree[SubSeq(q, 1, k)].c)
             /\ r[k + 1] = IF q[k + 1] = "center" THEN r[k] + 1 ELSE r[k]
  BY <1>4 DEF Turns
<1> HIDE DEF n, m
<1> DEFINE p == [k \in 0..n |-> r[k]]
<1>6. p[n] = r[n] /\ r[n] \in 1..Len(str)
  BY <1>3, <1>5
<1>7. /\ \A j \in 1..n : np[j] = q[j]
      /\ \A j \in 0..n : SubSeq(np, 1, j) = SubSeq(q, 1, j)
  <2>1. n \in 0..Len(q)
    BY <1>3 DEF m
  <2> QED
    BY <1>1, <1>3, <2>1, Beginning
<1>8. Turns(tree, str, np, p)
  <2>1. p \in [0..n -> 1..Len(str)] /\ p[0] = 1
    BY <1>3, <1>5
  <2>2. ASSUME NEW j \in 0..(n - 1)
        PROVE  /\ SubSeq(np, 1, j) \in DOMAIN tree
               /\ np[j + 1] = Compare(str[p[j]], tree[SubSeq(np, 1, j)].c)
               /\ p[j + 1] = IF np[j + 1] = "center" THEN p[j] + 1 ELSE p[j]
    <3>1. j \in 0..(m - 1) /\ j \in 0..n /\ j + 1 \in 1..n /\ j + 1 \in 0..n
      BY <1>3
    <3>2. p[j] = r[j] /\ p[j + 1] = r[j + 1]
      BY <3>1
    <3>3. np[j + 1] = q[j + 1] /\ SubSeq(np, 1, j) = SubSeq(q, 1, j)
      BY <1>7, <3>1
    <3> HIDE DEF p
    <3> QED
      BY <1>5, <3>1, <3>2, <3>3
  <2> QED
    BY <2>1, <2>2 DEF Turns, n
<1> HIDE DEF p
<1>9. q = np => p[n] = Len(str) /\ str[Len(str)] = tree[np].c
  BY <1>2, <1>4, <1>6 DEF Leads, n, m
<1>10. ASSUME NEW turn \in Turn, q \in Under(Append(np, turn))
       PROVE  /\ turn = Compare(str[p[n]], tree[np].c)
              /\ turn = "center" => p[n] < Len(str)
  <2> DEFINE s == Append(np, turn)
  <2>1. Len(s) = n + 1 /\ s[n + 1] = turn
    BY <1>1, Appended DEF n
  <2>2. n + 1 <= m /\ SubSeq(q, 1, n + 1) = s
    BY <1>10, <2>1 DEF Under, m
  <2> HIDE DEF s
  <2>3. n + 1 \in 0..Len(q) /\ n + 1 \in 1..(n + 1) /\ n \in 0..(m - 1) /\ n + 1 \in 0..m
    BY <1>3, <2>2 DEF m
  <2>4. q[n + 1] = turn
    BY <1>1, <2>1, <2>2, <2>3, Beginning
  <2>5. turn = Compare(str[r[n]], tree[np].c)
    BY <1>3, <1>5, <2>3, <2>4
  <2>6. turn = "center" => r[n] + 1 \in 1..Len(str)
    BY <1>5, <2>3, <2>4
  <2> QED
    BY <1>3, <1>6, <2>5, <2>6
<1>11. str[p[n]] \in Nat /\ tree[np].c \in Nat
  <2>1. tree[np].c \in Nat
    BY <1>1, CharsAreNumbers DEF WellFormed, Node
  <2> QED
    BY <1>3, <1>6, <2>1
<1>12. q \in Under(left(np)) => str[p[n]] < tree[np].c
  BY <1>10, <1>11 DEF Turn, left, Compare
<1>13. q \in Under(center(np)) => str[p[n]] = tree[np].c /\ p[n] < Len(str)
  BY <1>10, <1>11 DEF Turn, center, Compare
<1>14. q \in Under(right(np)) => str[p[n]] > tree[np].c
  BY <1>10, <1>11 DEF Turn, right, Compare
<1> QED
  BY <1>8, <1>9, <1>12, <1>13, <1>14 DEF Passes, str, n

LEMMA TwoPass ==
    ASSUME IInv, NEW np \in DOMAIN tree, NEW a \in Key, NEW b \in Key,
           NEW p, Turns(tree, a, np, p), NEW r, Turns(tree, b, np, r)
    PROVE  /\ p[Len(np)] = r[Len(np)]
           /\ a[p[Len(np)]] < b[p[Len(np)]] => Before(a, b)
           /\ a[p[Len(np)]] = b[p[Len(np)]] /\ p[Len(np)] = Len(a) /\ Len(a) < Len(b) =>
                  Before(a, b)
<1> DEFINE i == p[Len(np)]
<1>1. np \in Seq(Turn) /\ Len(np) \in 0..Len(np) /\ WellFormed(tree)
  BY DEF IInv, WellFormed
<1>2. p = r /\ \A j \in 1..(i - 1) : a[j] = b[j]
  BY <1>1, Agree
<1>3. a \in Seq(Nat) /\ b \in Seq(Nat)
  BY DEF Key
<1>4. i \in 1..Len(a) /\ i \in 1..Len(b)
  BY <1>1, <1>2 DEF Turns
<1> HIDE DEF i
<1>5. ASSUME a[i] < b[i] PROVE Before(a, b)
  <2>1. SubSeq(a, 1, i - 1) = SubSeq(b, 1, i - 1)
    <3>1. i - 1 \in 0..Len(a) /\ i - 1 \in 0..Len(b)
      BY <1>3, <1>4
    <3> DEFINE l == i - 1
    <3> HIDE DEF l
    <3>2. /\ SubSeq(a, 1, l) \in Seq(Nat) /\ Len(SubSeq(a, 1, l)) = l
          /\ SubSeq(b, 1, l) \in Seq(Nat) /\ Len(SubSeq(b, 1, l)) = l
          /\ \A j \in 1..l : SubSeq(a, 1, l)[j] = a[j] /\ SubSeq(b, 1, l)[j] = b[j]
      BY <1>3, <3>1, Beginning DEF l
    <3>3. SubSeq(a, 1, l) = SubSeq(b, 1, l)
      BY <1>2, <3>2 DEF l
    <3> QED
      BY <3>3 DEF l
  <2>2. i \in DOMAIN a \cap DOMAIN b
    BY <1>3, <1>4
  <2> QED
    BY <1>5, <2>1, <2>2 DEF Before
<1>6. ASSUME a[i] = b[i], i = Len(a), Len(a) < Len(b) PROVE Before(a, b)
  <2>1. IsPrefix(a, b)
    BY <1>2, <1>3, <1>6, AlikeIsPrefix
  <2>2. a # b
    BY <1>3, <1>6
  <2> QED
    BY <2>1, <2>2 DEF Before, IsStrictPrefix
<1> QED
  BY <1>2, <1>5, <1>6 DEF i

InOrder(D, E) == \A d \in D, e \in E : Before(d.str, e.str)

\* What is to the left of a node comes before the node, this before what is straight
\* below, and this before what is to the right.
LEMMA PartsInOrder ==
    ASSUME IInv, NEW np \in DOMAIN tree
    PROVE  /\ InOrder(Kept(left(np)), Here(np))
           /\ InOrder(Kept(left(np)) \cup Here(np), Kept(center(np)))
           /\ InOrder(Kept(left(np)) \cup Here(np) \cup Kept(center(np)), Kept(right(np)))
<1> DEFINE n == Len(np)
           c == tree[np].c
<1>1. WellFormed(tree) /\ np \in Seq(Turn)
  BY DEF IInv, WellFormed
<1>2. c \in Nat
  BY <1>1, CharsAreNumbers DEF WellFormed, Node
<1>3. /\ np \in Under(np)
      /\ Under(left(np)) \subseteq Under(np) /\ Under(center(np)) \subseteq Under(np)
      /\ Under(right(np)) \subseteq Under(np)
  <2>1. Under(np) = {np} \cup Under(left(np)) \cup Under(center(np)) \cup Under(right(np))
    BY <1>1, UnderSplits
  <2> QED
    BY <2>1
<1>4. ASSUME NEW q \in Under(np), tree[q].data # NULL
      PROVE  LET str == tree[q].data.str
             IN  str \in Key /\ \E p : Passes(str, np, q, p) /\ p[n] \in 1..Len(str)
                                       /\ str[p[n]] \in Nat
  <2> DEFINE str == tree[q].data.str
  <2>1. PICK p : Passes(str, np, q, p)
    BY <1>4, PathPasses
  <2>2. str \in Key
    BY <1>4, RouteIsAtEnd, PathsAreKeys DEF Data, Under
  <2> HIDE DEF str
  <2>3. p[n] \in 1..Len(str) /\ str \in Seq(Nat)
    BY <1>1, <2>1, <2>2 DEF Passes, Turns, Key
  <2>4. str[p[n]] \in Nat
    BY <2>3
  <2> QED
    BY <2>1, <2>2, <2>3, <2>4 DEF str
<1> HIDE DEF n, c
<1>5. ASSUME NEW q \in Under(np), tree[q].data # NULL,
             NEW u \in Under(np), tree[u].data # NULL,
             \/ q \in Under(left(np)) /\ u \in {np} \cup Under(center(np)) \cup Under(right(np))
             \/ q = np /\ u \in Under(center(np)) \cup Under(right(np))
             \/ q \in Under(center(np)) /\ u \in Under(right(np))
      PROVE  Before(tree[q].data.str, tree[u].data.str)
  <2> DEFINE a == tree[q].data.str
             b == tree[u].data.str
  <2>1. a \in Key /\ b \in Key
    BY <1>4, <1>5
  <2>2. PICK p : Passes(a, np, q, p) /\ p[n] \in 1..Len(a) /\ a[p[n]] \in Nat
    BY <1>4, <1>5
  <2>3. PICK r : Passes(b, np, u, r) /\ r[n] \in 1..Len(b) /\ b[r[n]] \in Nat
    BY <1>4, <1>5
  <2> HIDE DEF a, b
  <2>4. /\ p[n] = r[n]
        /\ a[p[n]] < b[p[n]] => Before(a, b)
        /\ a[p[n]] = b[p[n]] /\ p[n] = Len(a) /\ Len(a) < Len(b) => Before(a, b)
    BY <2>1, <2>2, <2>3, TwoPass DEF Passes, n
  <2>5. /\ q = np => p[n] = Len(a) /\ a[p[n]] = c
        /\ q \in Under(left(np)) => a[p[n]] < c
        /\ q \in Under(center(np)) => a[p[n]] = c
    BY <2>2 DEF Passes, n, c
  <2>6. /\ u = np => b[p[n]] = c
        /\ u \in Under(center(np)) => b[p[n]] = c /\ p[n] < Len(b)
        /\ u \in Under(right(np)) => b[p[n]] > c
    BY <2>3, <2>4 DEF Passes, n, c
  <2>7. a[p[n]] \in Nat /\ b[p[n]] \in Nat
    BY <2>2, <2>3, <2>4
  <2>8. CASE q \in Under(left(np))
    <3>1. b[p[n]] >= c
      BY <1>2, <1>5, <2>6, <2>7, <2>8 
    <3> QED
      BY <1>2, <2>4, <2>5, <2>7, <2>8, <3>1 DEF a, b
  <2>9. CASE q = np
    BY <1>2, <1>5, <2>4, <2>5, <2>6, <2>7, <2>9 DEF a, b
  <2>10. CASE q \in Under(center(np)) /\ u \in Under(right(np))
    BY <1>2, <1>5, <2>4, <2>5, <2>6, <2>7, <2>10 DEF a, b
  <2> QED
    BY <1>5, <2>8, <2>9, <2>10
<1> QED
  BY <1>3, <1>5 DEF InOrder, Kept, Here

\* found is rp and after it, in order, what is in D: all of it, unless there are more
\* than limit.
Lists(rp, found, D, limit) ==
    /\ found \in Seq(Data) /\ Len(rp) <= Len(found)
    /\ \A i \in 1..Len(rp) : found[i] = rp[i]
    /\ \A i \in (Len(rp) + 1)..Len(found) : found[i] \in D
    /\ \A i, j \in (Len(rp) + 1)..Len(found) : i < j => Before(found[i].str, found[j].str)
    /\ \/ Len(found) > limit
       \/ \A d \in D : \E i \in (Len(rp) + 1)..Len(found) : found[i] = d

LEMMA ListsNothing ==
    ASSUME NEW rp \in Seq(Data), NEW limit \in Nat
    PROVE  Lists(rp, rp, {}, limit)
BY DEF Lists

LEMMA ListsMore ==
    ASSUME NEW limit \in Nat, NEW D, NEW E, NEW rp \in Seq(Data), NEW here, NEW found,
           Lists(rp, here, D, limit), Lists(here, found, E, limit), InOrder(D, E)
    PROVE  Lists(rp, found, D \cup E, limit)
<1> DEFINE l == Len(rp)
           m == Len(here)
           n == Len(found)
<1>1. /\ here \in Seq(Data) /\ found \in Seq(Data)
      /\ l \in Nat /\ m \in Nat /\ n \in Nat /\ l <= m /\ m <= n
  BY DEF Lists
<1> HIDE DEF l, m, n
<1>2. \A i \in 1..l : here[i] = rp[i] /\ found[i] = here[i] /\ i \in 1..m
  BY <1>1 DEF Lists, l, m
<1>3. \A i \in (l + 1)..m : here[i] \in D /\ found[i] = here[i]
  <2>1. ASSUME NEW i \in (l + 1)..m PROVE here[i] \in D /\ found[i] = here[i]
    <3>1. i \in 1..m
      BY <1>1
    <3> QED
      BY <3>1 DEF Lists, l, m
  <2> QED
    BY <2>1
<1>4. \A i \in (m + 1)..n : found[i] \in E
  BY DEF Lists, m, n
<1>5. \A i \in (l + 1)..n : i \in (l + 1)..m \/ i \in (m + 1)..n
  BY <1>1
<1>6. ASSUME NEW i \in (l + 1)..n, NEW j \in (l + 1)..n, i < j
      PROVE  Before(found[i].str, found[j].str)
  <2>1. CASE i \in (l + 1)..m /\ j \in (l + 1)..m
    <3>1. Before(here[i].str, here[j].str)
      BY <1>6, <2>1 DEF Lists, l, m
    <3> QED
      BY <1>3, <2>1, <3>1
  <2>2. CASE i \in (l + 1)..m /\ j \in (m + 1)..n
    <3>1. found[i] \in D /\ found[j] \in E
      BY <1>3, <1>4, <2>2
    <3> QED
      BY <3>1 DEF InOrder
  <2>3. CASE i \in (m + 1)..n /\ j \in (m + 1)..n
    BY <1>6, <2>3 DEF Lists, m, n
  <2>4. ~(i \in (m + 1)..n /\ j \in (l + 1)..m)
    BY <1>1, <1>6
  <2> QED
    BY <1>5, <2>1, <2>2, <2>3, <2>4
<1>7. ASSUME ~(n > limit), NEW d \in D \cup E
      PROVE  \E i \in (l + 1)..n : found[i] = d
  <2>1. CASE d \in D
    <3>1. ~(m > limit)
      BY <1>1, <1>7
    <3>2. PICK i \in (l + 1)..m : here[i] = d
      BY <2>1, <3>1 DEF Lists, l, m
    <3>3. i \in (l + 1)..n
      BY <1>1, <3>2
    <3> QED
      BY <1>3, <3>2, <3>3
  <2>2. CASE d \in E
    <3>1. PICK i \in (m + 1)..n : found[i] = d
      BY <1>7, <2>2 DEF Lists, m, n
    <3>2. i \in (l + 1)..n
      BY <1>1, <3>1
    <3> QED
      BY <3>1, <3>2
  <2> QED
    BY <2>1, <2>2
<1>8. \A i \in (l + 1)..n : found[i] \in D \cup E
  BY <1>3, <1>4, <1>5
<1>9. l <= n /\ \A i \in 1..l : found[i] = rp[i]
  BY <1>1, <1>2
<1> QED
  BY <1>1, <1>6, <1>7, <1>8, <1>9 DEF Lists, l, n

\* Beyond the limit, nothing more has to be there.
LEMMA ListsEnough ==
    ASSUME NEW limit, NEW D, NEW E, D \subseteq E, NEW rp, NEW found,
           Lists(rp, found, D, limit), Len(found) > limit
    PROVE  Lists(rp, found, E, limit)
BY DEF Lists

LEMMA ResultAddLists ==
    ASSUME IInv, NEW limit \in Nat, NEW np \in DOMAIN tree, NEW rp \in Seq(Data)
    PROVE  Lists(rp, ResultAdd(rp, np), Here(np), limit)
<1>1. CASE tree[np].data = NULL
  BY <1>1, ListsNothing DEF ResultAdd, Here
<1>2. CASE tree[np].data # NULL
  <2> DEFINE d == tree[np].data
             found == Append(rp, d)
  <2>1. d \in Data
    BY <1>2, RouteIsAtEnd
  <2> HIDE DEF d
  <2>2. /\ found \in Seq(Data) /\ Len(found) = Len(rp) + 1 /\ found[Len(rp) + 1] = d
        /\ \A i \in 1..Len(rp) : found[i] = rp[i]
    BY <2>1, Appended
  <2> HIDE DEF found
  <2>3. Len(rp) \in Nat /\ \A i \in (Len(rp) + 1)..Len(found) : i = Len(rp) + 1
    BY <2>2
  <2>4. Len(rp) + 1 \in (Len(rp) + 1)..Len(found)
    BY <2>2, <2>3
  <2>5. Lists(rp, found, {d}, limit)
    BY <2>2, <2>3, <2>4 DEF Lists
  <2> QED
    BY <1>2, <2>5 DEF ResultAdd, Here, found, d
<1> QED
  BY <1>1, <1>2

-----------------------------------------------------------------------------
(* Traverse is as defined.                                                 *)

Listing == [Seq(Turn) -> [Seq(Data) -> Seq(Data)]]

\* The rest of a call at np, the calls below being g.
Rest(g, limit, np, rp) ==
    LET here == ResultAdd(g[left(np)][rp], np)
    IN IF np \notin DOMAIN tree THEN rp
       ELSE IF tree[np].data # NULL /\ CountExceeded(here, limit) THEN here
       ELSE g[right(np)][g[center(np)][here]]

LEMMA SidesAreTurns ==
    ASSUME NEW np \in Seq(Turn)
    PROVE  /\ left(np) \in Seq(Turn) /\ center(np) \in Seq(Turn) /\ right(np) \in Seq(Turn)
           /\ Len(left(np)) = Len(np) + 1 /\ Len(center(np)) = Len(np) + 1
           /\ Len(right(np)) = Len(np) + 1
BY DEF left, center, right, Turn

LEMMA RestIsListing ==
    ASSUME IInv, NEW g \in Listing, NEW limit, NEW np \in Seq(Turn), NEW rp \in Seq(Data)
    PROVE  Rest(g, limit, np, rp) \in Seq(Data)
<1> DEFINE here == ResultAdd(g[left(np)][rp], np)
<1>1. CASE np \notin DOMAIN tree
  BY <1>1 DEF Rest
<1>2. CASE np \in DOMAIN tree
  <2>1. \A q \in Seq(Turn), s \in Seq(Data) : g[q][s] \in Seq(Data)
    BY DEF Listing
  <2>2. here \in Seq(Data)
    <3>1. g[left(np)][rp] \in Seq(Data)
      BY <2>1, SidesAreTurns
    <3>2. tree[np].data # NULL => tree[np].data \in Data
      BY <1>2, RouteIsAtEnd
    <3> QED
      BY <3>1, <3>2 DEF ResultAdd
  <2> HIDE DEF here
  <2>3. g[right(np)][g[center(np)][here]] \in Seq(Data)
    BY <2>1, <2>2, SidesAreTurns
  <2> QED
    BY <1>2, <2>2, <2>3 DEF Rest, here
<1> QED
  BY <1>1, <1>2

\* The calls of Traverse, by how many levels may be below them.
Traverses(g, limit) ==
    /\ g \in [0..Depth(tree) -> Listing]
    /\ Traverse(limit) = g[Depth(tree)]
    /\ \A np \in Seq(Turn), rp \in Seq(Data) : g[0][np][rp] = rp
    /\ \A n \in 1..Depth(tree) : \A np \in Seq(Turn), rp \in Seq(Data) :
           g[n][np][rp] = Rest(g[n - 1], limit, np, rp)

LEMMA TraverseByStep ==
    ASSUME IInv, NEW limit
    PROVE  \E g : Traverses(g, limit)
<1> DEFINE N == Depth(tree)
           first == [np \in Seq(Turn) |-> [rp \in Seq(Data) |-> rp]]
           F == [n \in 1..N |->
                    [h \in Listing |->
                        [np \in Seq(Turn) |-> [rp \in Seq(Data) |-> Rest(h, limit, np, rp)]]]]
           Body(n, f, np, rp) ==
                LET below == f[n - 1]
                    here == ResultAdd(below[left(np)][rp], np)
                IN IF n = 0 \/ np \notin DOMAIN tree THEN rp
                   ELSE IF tree[np].data # NULL /\ CountExceeded(here, limit) THEN here
                   ELSE below[right(np)][below[center(np)][here]]
           Call(n, f) == [np \in Seq(Turn) |-> [rp \in Seq(Data) |-> Body(n, f, np, rp)]]
           Steps(f) == [n \in 0..N |-> Call(n, f)]
<1>1. N \in Nat
  BY DepthIsNat DEF IInv
<1>2. first \in Listing
  BY DEF Listing
<1>3. F \in [1..N -> [Listing -> Listing]]
  <2>1. ASSUME NEW h \in Listing
        PROVE  [np \in Seq(Turn) |-> [rp \in Seq(Data) |-> Rest(h, limit, np, rp)]] \in Listing
    BY RestIsListing DEF Listing
  <2> QED
    BY <2>1
<1> HIDE DEF N
<1>4. PICK f : Stepwise(f, N, Listing, first, F)
  <2> HIDE DEF first, F
  <2>1. Steppable(N, Listing, first, F)
    BY <1>1, <1>2, <1>3 DEF Steppable
  <2> QED
    BY <2>1, StepByStep
<1>5. f \in [0..N -> Listing] /\ f[0] = first
  BY <1>4 DEF Stepwise
<1>6. \A n \in 1..N : \A np \in Seq(Turn), rp \in Seq(Data) :
          f[n][np][rp] = Rest(f[n - 1], limit, np, rp)
  <2>1. ASSUME NEW n \in 1..N PROVE f[n] = F[n][f[n - 1]] /\ f[n - 1] \in Listing
    <3>1. n - 1 \in 0..N
      BY <1>1
    <3> HIDE DEF F, first
    <3> QED
      BY <1>4, <1>5, <3>1 DEF Stepwise
  <2>2. ASSUME NEW n \in 1..N, NEW np \in Seq(Turn), NEW rp \in Seq(Data)
        PROVE  f[n][np][rp] = Rest(f[n - 1], limit, np, rp)
    <3> DEFINE h == f[n - 1]
    <3>1. h \in Listing /\ f[n] = F[n][h]
      BY <2>1
    <3> HIDE DEF h
    <3>2. F[n][h][np][rp] = Rest(h, limit, np, rp)
      BY <3>1
    <3> QED
      BY <3>1, <3>2 DEF h
  <2> QED
    BY <2>2
<1>7. \A np \in Seq(Turn), rp \in Seq(Data) : f[0][np][rp] = rp
  BY <1>5
<1> HIDE DEF first, F
<1>8. f = Steps(f)
  <2>1. ASSUME NEW n \in 0..N PROVE f[n] = Call(n, f)
    <3>1. f[n] \in Listing
      BY <1>5
    <3>2. ASSUME NEW np \in Seq(Turn), NEW rp \in Seq(Data)
          PROVE  f[n][np][rp] = Call(n, f)[np][rp]
      <4>1. CASE n = 0
        BY <1>7, <4>1
      <4>2. CASE n # 0
        <5>1. n \in 1..N
          BY <1>1, <4>2
        <5>2. f[n][np][rp] = Rest(f[n - 1], limit, np, rp)
          BY <1>6, <5>1
        <5> QED
          BY <4>2, <5>2 DEF Rest
      <4> QED
        BY <4>1, <4>2
    <3>3. f[n] = [np \in Seq(Turn) |-> [rp \in Seq(Data) |-> f[n][np][rp]]]
      BY <3>1 DEF Listing
    <3> QED
      BY <3>2, <3>3
  <2> HIDE DEF Call
  <2> QED
    BY <1>5, <2>1
<1> DEFINE trav == CHOOSE h : h = Steps(h)
<1>9. trav = Steps(trav)
  <2> HIDE DEF Steps
  <2> QED
    BY <1>8
<1>10. Traverse(limit) = trav[N]
  BY Zenon DEF Traverse, N
<1> HIDE DEF trav
<1>11. \A n \in 0..N : trav[n] = Call(n, trav)
  <2> HIDE DEF Call
  <2> QED
    BY <1>9
<1>12. \A np \in Seq(Turn), rp \in Seq(Data) : trav[0][np][rp] = rp
  <2>1. trav[0] = Call(0, trav)
    BY <1>1, <1>11
  <2> QED
    BY <2>1
<1>13. \A n \in 1..N : \A np \in Seq(Turn), rp \in Seq(Data) :
           trav[n][np][rp] = Rest(trav[n - 1], limit, np, rp)
  <2>1. ASSUME NEW n \in 1..N, NEW np \in Seq(Turn), NEW rp \in Seq(Data)
        PROVE  trav[n][np][rp] = Rest(trav[n - 1], limit, np, rp)
    <3>1. n \in 0..N /\ n # 0
      BY <1>1
    <3>2. trav[n] = Call(n, trav)
      BY <1>11, <3>1
    <3>3. trav[n][np][rp] = Body(n, trav, np, rp)
      <4> HIDE DEF Body
      <4> QED
        BY <3>2
    <3>4. Body(n, trav, np, rp) = Rest(trav[n - 1], limit, np, rp)
      BY Zenon, <3>1 DEF Rest
    <3> QED
      BY <3>3, <3>4
  <2> QED
    BY <2>1
<1>14. \A n \in 0..N : trav[n] \in Listing
  <2> DEFINE G == {n \in 0..N : trav[n] \in Listing}
  <2>1. ASSUME NEW n \in 0..N, \A np \in Seq(Turn), rp \in Seq(Data) : trav[n][np][rp] \in Seq(Data)
        PROVE  trav[n] \in Listing
    <3>1. trav[n] = [np \in Seq(Turn) |-> [rp \in Seq(Data) |-> trav[n][np][rp]]]
      <4>1. trav[n] = Call(n, trav)
        BY <1>11
      <4> HIDE DEF Body
      <4> QED
        BY <4>1
    <3> QED
      BY <2>1, <3>1 DEF Listing
  <2>2. 0 \in G
    BY <1>1, <1>12, <2>1
  <2>3. ASSUME NEW n \in 1..N, n - 1 \in G PROVE n \in G
    <3>1. n \in 0..N /\ trav[n - 1] \in Listing
      BY <1>1, <2>3
    <3>2. \A np \in Seq(Turn), rp \in Seq(Data) : trav[n][np][rp] \in Seq(Data)
      BY <1>13, <3>1, RestIsListing
    <3> QED
      BY <2>1, <3>1, <3>2
  <2> HIDE DEF G
  <2>4. \A n \in 0..N : n \in G
    BY <1>1, <2>2, <2>3, UpTo
  <2> QED
    BY <2>4 DEF G
<1>15. trav \in [0..N -> Listing]
  <2>1. trav = [n \in 0..N |-> trav[n]]
    <3> HIDE DEF Call
    <3> QED
      BY <1>9
  <2> QED
    BY <1>14, <2>1
<1> QED
  BY <1>10, <1>12, <1>13, <1>15 DEF N, Traverses

\* Traverse lists what is at and below a node.
LEMMA TraverseLists ==
    ASSUME IInv, NEW limit \in Nat, NEW np \in Seq(Turn), NEW rp \in Seq(Data)
    PROVE  Lists(rp, Traverse(limit)[np][rp], Kept(np), limit)
<1> DEFINE N == Depth(tree)
<1>1. WellFormed(tree) /\ N \in Nat
  BY DepthIsNat DEF IInv
<1>2. PICK g : Traverses(g, limit)
  BY TraverseByStep
<1>3. \A q \in DOMAIN tree : q \in Seq(Turn) /\ Len(q) \in Nat /\ Len(q) < N
  BY <1>1, DepthBounds DEF WellFormed
<1>4. /\ Traverse(limit) = g[N]
      /\ \A q \in Seq(Turn), s \in Seq(Data) : g[0][q][s] = s
      /\ \A n \in 1..N : \A q \in Seq(Turn), s \in Seq(Data) :
             g[n][q][s] = Rest(g[n - 1], limit, q, s)
  BY <1>2 DEF Traverses
<1> HIDE DEF N
<1> DEFINE Good(n) == \A q \in Seq(Turn), s \in Seq(Data) :
                          Len(q) + n >= N => Lists(s, g[n][q][s], Kept(q), limit)
           G == {n \in 0..N : Good(n)}
<1>5. ASSUME NEW q \in Seq(Turn), q \notin DOMAIN tree, NEW s \in Seq(Data)
      PROVE  Lists(s, s, Kept(q), limit)
  <2>1. Kept(q) = {}
    BY <1>5, UnderSplits DEF Kept
  <2> QED
    BY <2>1, ListsNothing
<1>6. 0 \in G
  <2>1. ASSUME NEW q \in Seq(Turn), NEW s \in Seq(Data), Len(q) + 0 >= N
        PROVE  Lists(s, g[0][q][s], Kept(q), limit)
    <3>1. q \notin DOMAIN tree
      BY <1>1, <1>3, <2>1
    <3> QED
      BY <1>4, <1>5, <3>1
  <2> QED
    BY <1>1, <2>1
<1>7. ASSUME NEW n \in 1..N, n - 1 \in G PROVE n \in G
  <2>1. n \in 0..N /\ n - 1 \in 0..N /\ n \in Nat /\ Good(n - 1)
    BY <1>1, <1>7
  <2>2. ASSUME NEW q \in Seq(Turn), NEW s \in Seq(Data), Len(q) + n >= N
        PROVE  Lists(s, g[n][q][s], Kept(q), limit)
    <3> DEFINE h == g[n - 1]
               a == h[left(q)][s]
               here == ResultAdd(a, q)
               b == h[center(q)][here]
               c == h[right(q)][b]
    <3>1. g[n][q][s] = Rest(h, limit, q, s)
      BY <1>4
    <3>2. CASE q \notin DOMAIN tree
      BY <1>5, <3>1, <3>2 DEF Rest
    <3>3. CASE q \in DOMAIN tree
      <4> DEFINE L == Kept(left(q))
                 C == Kept(center(q))
                 R == Kept(right(q))
      <4>1. \A turn \in {left(q), center(q), right(q)}, r \in Seq(Data) :
                turn \in Seq(Turn) /\ Lists(r, h[turn][r], Kept(turn), limit)
        <5>1. \A turn \in {left(q), center(q), right(q)} :
                  turn \in Seq(Turn) /\ Len(turn) + (n - 1) >= N
          <6>1. \A turn \in {left(q), center(q), right(q)} :
                    turn \in Seq(Turn) /\ Len(turn) = Len(q) + 1
            BY SidesAreTurns
          <6>2. (Len(q) + 1) + (n - 1) = Len(q) + n
            BY <2>1
          <6> QED
            BY <2>2, <6>1, <6>2
        <5> QED
          BY <2>1, <5>1
      <4> HIDE DEF h
      <4>2. Lists(s, a, L, limit) /\ a \in Seq(Data)
        BY <4>1 DEF Lists
      <4> HIDE DEF a
      <4>3. Lists(a, here, Here(q), limit) /\ here \in Seq(Data)
        BY <3>3, <4>2, ResultAddLists DEF Lists
      <4> HIDE DEF here
      <4>4. Lists(here, b, C, limit) /\ b \in Seq(Data)
        BY <4>1, <4>3 DEF Lists
      <4> HIDE DEF b
      <4>5. Lists(b, c, R, limit)
        BY <4>1, <4>4
      <4> HIDE DEF c
      <4>6. /\ InOrder(L, Here(q)) /\ InOrder(L \cup Here(q), C)
            /\ InOrder(L \cup Here(q) \cup C, R)
        BY <3>3, PartsInOrder
      <4>7. Kept(q) = L \cup Here(q) \cup C \cup R
        BY <3>3, UnderSplits DEF Kept, Here
      <4> HIDE DEF L, C, R
      <4>8. Lists(s, here, L \cup Here(q), limit)
        BY <4>2, <4>3, <4>6, ListsMore
      <4>9. Lists(s, b, L \cup Here(q) \cup C, limit)
        BY <4>4, <4>6, <4>8, ListsMore
      <4>10. Lists(s, c, Kept(q), limit)
        BY <4>5, <4>6, <4>7, <4>9, ListsMore
      <4>11. CASE tree[q].data # NULL /\ CountExceeded(here, limit)
        <5>1. g[n][q][s] = here
          BY <3>1, <3>3, <4>11 DEF Rest, here, a
        <5>2. Lists(s, here, Kept(q), limit)
          BY <4>7, <4>8, <4>11, ListsEnough DEF CountExceeded
        <5> QED
          BY <5>1, <5>2
      <4>12. CASE ~(tree[q].data # NULL /\ CountExceeded(here, limit))
        <5>1. g[n][q][s] = c
          BY <3>1, <3>3, <4>12 DEF Rest, here, a, b, c
        <5> QED
          BY <4>10, <5>1
      <4> QED
        BY <4>11, <4>12
    <3> QED
      BY <3>2, <3>3
  <2> QED
    BY <2>1, <2>2
<1> HIDE DEF G
<1>8. \A n \in 0..N : n \in G
  BY <1>1, <1>6, <1>7, UpTo
<1>9. Good(N)
  BY <1>1, <1>8 DEF G
<1>10. Len(np) + N >= N
  BY <1>1
<1> QED
  BY <1>4, <1>9, <1>10

\* What begins with str is at the end of its way and straight below.
LEMMA MatchingIsBelow ==
    ASSUME IInv, NEW str \in Key
    PROVE  LET np == EndOfWay(tree, str).np
               matching == {d \in Registered : IsPrefix(str, d.str)}
           IN  /\ np \notin DOMAIN tree => matching = {}
               /\ np \in DOMAIN tree => matching = Here(np) \cup Kept(center(np))
<1> DEFINE np == EndOfWay(tree, str).np
           matching == {d \in Registered : IsPrefix(str, d.str)}
<1>1. WellFormed(tree)
  BY DEF IInv
<1>2. ASSUME NEW d \in matching
      PROVE  np \in DOMAIN tree /\ d \in Here(np) \cup Kept(center(np))
  <2>1. PICK q \in DOMAIN tree : tree[q].data = d /\ d # NULL
    BY DEF Registered
  <2>2. d \in Data /\ Leads(tree, d.str, q) /\ q \in Seq(Turn)
    BY <1>1, <2>1, RouteIsAtEnd DEF WellFormed
  <2>3. d.str \in Key /\ IsPrefix(str, d.str)
    BY <2>2, PathsAreKeys DEF Data
  <2>4. PICK k \in 0..Len(q) : /\ Leads(tree, str, SubSeq(q, 1, k))
                               /\ str # d.str => k < Len(q) /\ q[k + 1] = "center"
    BY <1>1, <2>2, <2>3, BeginningLeads
  <2>5. SubSeq(q, 1, k) = np
    <3>1. EndOfWay(tree, str) = [np |-> SubSeq(q, 1, k), pos |-> Len(str)]
      BY <1>1, <2>4, WayEndsAt
    <3> QED
      BY <3>1
  <2>6. np \in DOMAIN tree
    BY <2>4, <2>5 DEF Leads
  <2> HIDE DEF np
  <2>7. CASE str = d.str
    <3>1. q = np
      BY <1>1, <2>2, <2>4, <2>5, <2>7, OnePlace
    <3> QED
      BY <2>1, <2>6, <3>1 DEF Here
  <2>8. CASE str # d.str
    <3>1. k + 1 \in 0..Len(q) /\ SubSeq(q, 1, k + 1) = center(np) /\ Len(center(np)) = k + 1
      <4>1. k + 1 \in 0..Len(q) /\ k + 1 > 0 /\ (k + 1) - 1 = k
        BY <2>2, <2>4, <2>8
      <4>2. SubSeq(q, 1, k + 1) = Append(np, q[k + 1])
        BY <2>2, <2>5, <4>1, Beginning
      <4>3. Len(SubSeq(q, 1, k + 1)) = k + 1
        BY <2>2, <4>1, Beginning
      <4> QED
        BY <2>4, <2>8, <4>1, <4>2, <4>3 DEF center
    <3>2. q \in Under(center(np))
      BY <2>2, <3>1 DEF Under
    <3> QED
      BY <2>1, <2>6, <3>2 DEF Kept
  <2> QED
    BY <2>7, <2>8
<1>3. ASSUME np \in DOMAIN tree, NEW d \in Here(np) \cup Kept(center(np)) PROVE d \in matching
  <2>1. Leads(tree, str, np)
    BY <1>1, <1>3, WayLeads
  <2>2. np \in Seq(Turn)
    BY <1>1, <1>3 DEF WellFormed
  <2> HIDE DEF np
  <2>3. CASE d \in Here(np)
    <3>1. d \in Data /\ d \in Registered /\ Leads(tree, d.str, np)
      BY <1>3, <2>3, RouteIsAtEnd DEF Here
    <3>2. d.str \in Key
      BY <3>1, PathsAreKeys DEF Data
    <3>3. d.str = str
      BY <1>1, <2>1, <3>1, <3>2, OneLeads
    <3>4. IsPrefix(str, str)
      <4>1. str \in Seq(Nat)
        BY DEF Key
      <4> QED
        BY <4>1, AlikeIsPrefix
    <3> QED
      BY <3>1, <3>3, <3>4
  <2>4. CASE d \in Kept(center(np))
    <3>1. PICK q \in Under(center(np)) : tree[q].data = d /\ d # NULL
      BY <2>4 DEF Kept
    <3>2. q \in Under(np)
      BY <1>3, <2>2, <3>1, UnderSplits
    <3>3. d \in Data /\ d \in Registered /\ d.str \in Key
      BY <3>1, RouteIsAtEnd, PathsAreKeys DEF Under, Data
    <3>4. PICK p : Passes(d.str, np, q, p)
      BY <1>3, <3>1, <3>2, PathPasses
    <3>5. PICK r : Turns(tree, str, np, r) /\ r[Len(np)] = Len(str)
      BY <2>1 DEF Leads
    <3>6. p = r /\ \A i \in 1..(p[Len(np)] - 1) : d.str[i] = str[i]
      BY <1>1, <2>2, <3>3, <3>4, <3>5, Agree DEF Passes
    <3>7. d.str[Len(str)] = str[Len(str)] /\ Len(str) < Len(d.str)
      BY <2>1, <3>1, <3>4, <3>5, <3>6 DEF Passes, Leads
    <3>8. Len(str) <= Len(d.str)
      BY <3>3, <3>7 DEF Key
    <3>9. IsPrefix(str, d.str)
      BY <3>3, <3>5, <3>6, <3>7, <3>8, AlikeIsPrefix
    <3> QED
      BY <3>3, <3>9
  <2> QED
    BY <1>3, <2>3, <2>4
<1> QED
  BY <1>2, <1>3

LEMMA SearchLists ==
    ASSUME IInv, NEW str \in Key, NEW limit \in Nat
    PROVE  Lists(<<>>, Search(str, limit), {d \in Registered : IsPrefix(str, d.str)}, limit)
<1> DEFINE np == EndOfWay(tree, str).np
           matching == {d \in Registered : IsPrefix(str, d.str)}
           first == ResultAdd(<<>>, np)
<1>1. <<>> \in Seq(Data)
  OBVIOUS
<1>2. CASE np \notin DOMAIN tree
  BY <1>1, <1>2, MatchingIsBelow, ListsNothing DEF Search
<1>3. CASE np \in DOMAIN tree
  <2>1. np \in Seq(Turn) /\ center(np) \in Seq(Turn)
    BY <1>3, SidesAreTurns DEF IInv, WellFormed
  <2>2. matching = Here(np) \cup Kept(center(np))
    BY <1>3, MatchingIsBelow
  <2>3. Search(str, limit) = Traverse(limit)[center(np)][first]
    BY <1>3 DEF Search
  <2> HIDE DEF np, matching
  <2>4. Lists(<<>>, first, Here(np), limit) /\ first \in Seq(Data)
    BY <1>1, <1>3, ResultAddLists DEF Lists
  <2> HIDE DEF first
  <2>5. Lists(first, Search(str, limit), Kept(center(np)), limit)
    BY <2>1, <2>3, <2>4, TraverseLists
  <2>6. InOrder(Here(np), Kept(center(np)))
    BY <1>3, PartsInOrder DEF InOrder
  <2> QED
    BY <1>1, <2>2, <2>4, <2>5, <2>6, ListsMore DEF matching
<1> QED
  BY <1>2, <1>3

LEMMA SearchOfLists == IInv => SearchIsComplete
<1> SUFFICES ASSUME IInv, NEW str \in Query \ {<<>>}, NEW limit \in Limit
             PROVE  LET found == Search(str, limit)
                        matching == {d \in Registered : IsPrefix(str, d.str)}
                    IN /\ Range(found) \subseteq matching
                       /\ \A i, j \in DOMAIN found : i < j => Before(found[i].str, found[j].str)
                       /\ Len(found) > limit \/ Range(found) = matching
  BY DEF SearchIsComplete
<1> DEFINE found == Search(str, limit)
           matching == {d \in Registered : IsPrefix(str, d.str)}
<1>1. str \in Key /\ limit \in Nat
  BY PathsAreKeys, PathAssumption
<1>2. Lists(<<>>, found, matching, limit)
  BY <1>1, SearchLists
<1> HIDE DEF found, matching
<1>3. Len(<<>>) + 1 = 1 /\ DOMAIN found = 1..Len(found)
  BY <1>2 DEF Lists
<1> QED
  BY <1>2, <1>3 DEF Lists, Range, found, matching

-----------------------------------------------------------------------------

LEMMA InitIsWell == Init => IInv
<1> SUFFICES ASSUME Init PROVE IInv
  OBVIOUS
<1>1. DOMAIN tree = {} /\ tree = [np \in DOMAIN tree |-> tree[np]]
  BY DEF Init
<1>2. IsFiniteSet(DOMAIN tree)
  BY <1>1, FS_EmptySet
<1> QED
  BY <1>1, <1>2 DEF IInv, WellFormed, Led

LEMMA NextKeepsIInv == IInv /\ [Next]_tree => IInv'
<1> SUFFICES ASSUME IInv, [Next]_tree PROVE IInv'
  OBVIOUS
<1>1. CASE UNCHANGED tree
  BY <1>1 DEF IInv
<1>2. ASSUME NEW path \in Path, NEW func \in Func, SetHandleFunc(path, func) PROVE IInv'
  BY <1>2, SetHandleFuncIs
<1>3. ASSUME NEW path \in Path, Erase(path) PROVE IInv'
  BY <1>3, EraseIs
<1> QED
  BY <1>1, <1>2, <1>3 DEF Next

LEMMA Invariance == Spec => []IInv
BY InitIsWell, NextKeepsIInv, PTL DEF Spec

LEMMA IInvIsTyped == IInv => TypeOK
BY DEF IInv, WellFormed, Node, Chars, TypeOK

(***************************************************************************)
(* The nodes of the tree are as TypeOK says: each has what leads to it, so *)
(* that no pointer leads out of the tree.                                  *)
(***************************************************************************)
THEOREM TypeCorrect == Spec => []TypeOK
BY Invariance, IInvIsTyped, PTL

(***************************************************************************)
(* A request goes to the handler of the longest registered prefix of its   *)
(* path (SearchOne of ternary_search_tree.cpp), for all paths, whatever    *)
(* was registered in which order, registered twice, or erased.             *)
(***************************************************************************)
THEOREM LongestPrefixIsFound == Spec => []LongestPrefixWins
<1>1. IInv => LongestPrefixWins
  BY LongestOfBest
<1> QED
  BY <1>1, Invariance, PTL

(***************************************************************************)
(* Search of ternary_search_tree.cpp lists what is registered under a      *)
(* string, in order, none twice, and all of it up to the limit, for all    *)
(* paths and limits and after every sequence of Insert and Erase.          *)
(***************************************************************************)
THEOREM SearchIsOrdered == Spec => []SearchIsComplete
BY SearchOfLists, Invariance, PTL

(***************************************************************************)
(* Insert of ternary_search_tree.cpp takes up a new path and changes no    *)
(* other; a path that is registered keeps its handler.                     *)
(***************************************************************************)
THEOREM RoutesStay == Spec => RoutesAreKept
<1> DEFINE Stays == \A path \in Path, func \in Func :
                       SetHandleFunc(path, func) =>
                           IF \E d \in Registered : d.str = path
                           THEN Registered' = Registered
                           ELSE Registered' = Registered \cup {[str |-> path, func |-> func]}
<1>1. IInv => Stays
  BY SetHandleFuncIs DEF Taken
<1> HIDE DEF Stays
<1>2. Spec => [][Stays]_tree
  BY <1>1, Invariance, PTL DEF Spec
<1> QED
  BY <1>2 DEF Stays, RoutesAreKept

(***************************************************************************)
(* Erase of ternary_search_tree.cpp removes the path and brings up none,   *)
(* and a path that others extend goes alone.                               *)
(***************************************************************************)
THEOREM EraseStaysConfined == Spec => EraseIsConfined
<1>1. IInv => \A path \in Path : Erase(path) => Confined(path)
  BY EraseIs
<1>2. IInv => \A path \in Path :
          Erase(path) =>
              /\ Registered' \subseteq {d \in Registered : d.str # path}
              /\ (\E d \in Registered : IsStrictPrefix(path, d.str))
                     => {d \in Registered : d.str # path} \subseteq Registered'
  BY <1>1 DEF Confined
<1> QED
  BY <1>2, Invariance, PTL DEF Spec, EraseIsConfined
=============================================================================
