------------------------------ MODULE SearchTree ------------------------------
(***************************************************************************)
(* The router (src/ternary_search_tree.cpp, and HTTPHandler of             *)
(* src/event_loop.cpp): paths are registered with their handlers in a      *)
(* ternary search tree, and a request goes to the handler of the longest   *)
(* registered prefix of its path.                                          *)
(*                                                                         *)
(* A node is named by the turns that lead to it from the root, so that a   *)
(* pointer to a child is a longer name and the tree a function on names.   *)
(* A key is a sequence of characters, the 0 that ends it left out.         *)
(*                                                                         *)
(* Variants.  An uncommented definition right before a commented one is a  *)
(* mistake that could be made in the code the latter models; nothing uses  *)
(* it but the models it gives in the other's place.                        *)
(***************************************************************************)
EXTENDS Integers, SequencesExt, FiniteSetsExt

CONSTANTS
    Path,   \* the paths that are registered and erased
    Func,   \* the handlers
    Query,  \* the paths that are looked up
    Limit,  \* the limits that Search is called with
    NULL

\* The characters of a path are not 0; SetHandleFunc refuses the empty path, and
\* Erase is called with none.
ASSUME PathAssumption ==
    /\ Path \cup Query \subseteq Seq(Nat \ {0})
    /\ <<>> \notin Path
    /\ NULL \notin Func
    /\ Limit \subseteq Nat

VARIABLE tree  \* the nodes: what a name stands for

Turn == {"left", "center", "right"}
Data == [str : Path, func : Func]
ASSUME NullAssumption == NULL \notin Data

root == <<>>

left(np) == Append(np, "left")
center(np) == Append(np, "center")
right(np) == Append(np, "right")

\* A node has what leads to it.
TypeOK ==
    /\ DOMAIN tree \subseteq Seq(Turn)
    /\ \A np \in DOMAIN tree :
           /\ tree[np] \in [c : UNION {Range(s) : s \in Path}, data : Data \cup {NULL}]
           /\ np # root => Front(np) \in DOMAIN tree

Init == tree = <<>>

-----------------------------------------------------------------------------
(* The way down that Insert, SearchOne and Search take alike.              *)

\* Where to go from a node whose character is c, for the character ch.
Compare(ch, c) == IF ch < c THEN "left" ELSE IF ch > c THEN "right" ELSE "center"

\* A step down from the node w.np, where the character at w.pos is compared.  The
\* way ends where there is no node, or at the last character.
Down(t, str, w) ==
    LET turn == Compare(str[w.pos], t[w.np].c)
    IN CASE w.np \notin DOMAIN t -> w
         [] w.np \in DOMAIN t /\ turn # "center" -> [w EXCEPT !.np = Append(w.np, turn)]
         [] w.np \in DOMAIN t /\ turn = "center" /\ w.pos = Len(str) -> w
         [] OTHER -> [np |-> center(w.np), pos |-> w.pos + 1]

Depth(t) == Cardinality({Len(np) : np \in DOMAIN t})

\* The way of str, which can go no deeper than the tree.
Way(t, str) ==
    LET way[n \in 0..Depth(t)] ==
            IF n = 0 THEN [np |-> root, pos |-> 1] ELSE Down(t, str, way[n - 1])
    IN way

EndOfWay(t, str) == Way(t, str)[Depth(t)]

-----------------------------------------------------------------------------
(* Insert.                                                                 *)

Overwrite(t, np, data) == [t EXCEPT ![np].data = data]

\* The handler of a path is the one registered first.
Store(t, np, data) ==
    IF t[np].data = NULL THEN [t EXCEPT ![np].data = data] ELSE t

\* The node that is n nodes straight below np.
Below(np, n) == np \o [i \in 1..n |-> "center"]

\* Nodes for the rest of str, from the place w where its way has left the tree.
AddNodes(t, str, w, data) ==
    [np \in DOMAIN t \cup {Below(w.np, n) : n \in 0..(Len(str) - w.pos)} |->
        LET pos == w.pos + Len(np) - Len(w.np)
        IN IF np \in DOMAIN t THEN t[np]
           ELSE [c |-> str[pos], data |-> IF pos = Len(str) THEN data ELSE NULL]]

Insert(t, str, data) ==
    LET w == EndOfWay(t, str)
    IN IF w.np \in DOMAIN t THEN Store(t, w.np, data) ELSE AddNodes(t, str, w, data)

SetHandleFunc(path, func) ==
    tree' = Insert(tree, path, [str |-> path, func |-> func])

-----------------------------------------------------------------------------
(* SearchOne.                                                              *)

AtEndOnly(str, w, found) ==
    IF /\ w.np \in DOMAIN tree /\ str[w.pos] = tree[w.np].c /\ w.pos = Len(str)
       /\ tree[w.np].data # NULL
    THEN tree[w.np].data ELSE found

\* A node on the way that str agrees with and that holds a handler: better than
\* what was found before.
Better(str, w, found) ==
    IF /\ w.np \in DOMAIN tree /\ str[w.pos] = tree[w.np].c
       /\ tree[w.np].data # NULL
    THEN tree[w.np].data ELSE found

SearchOne(str) ==
    LET found[n \in 0..Depth(tree)] ==
            Better(str, Way(tree, str)[n], IF n = 0 THEN NULL ELSE found[n - 1])
    IN found[Depth(tree)]

GetHandleFunc(path) ==
    IF path = <<>> THEN NULL
    ELSE LET found == SearchOne(path)
         IN IF found = NULL THEN NULL ELSE found.func

-----------------------------------------------------------------------------
(* Search: what is registered at and below the end of the way of str, up   *)
(* to a limit.  The server does not call it.                               *)

\* A node that holds a handler is added to the result.
ResultAdd(rp, np) ==
    IF tree[np].data = NULL THEN rp ELSE Append(rp, tree[np].data)

CountReached(rp, limit) == Len(rp) >= limit
\* Traverse goes no further down or to the right.
CountExceeded(rp, limit) == Len(rp) > limit

\* rp and what is at and below np, in order; n bounds the depth of the recursion.
Traverse(limit) ==
    LET traverse[n \in 0..Depth(tree)] ==
            [np \in Seq(Turn) |-> [rp \in Seq(Data) |->
                LET below == traverse[n - 1]
                    here == ResultAdd(below[left(np)][rp], np)
                IN IF n = 0 \/ np \notin DOMAIN tree THEN rp
                   ELSE IF tree[np].data # NULL /\ CountExceeded(here, limit) THEN here
                   ELSE below[right(np)][below[center(np)][here]]]]
    IN traverse[Depth(tree)]

Search(str, limit) ==
    LET np == EndOfWay(tree, str).np
    IN IF np \notin DOMAIN tree THEN <<>>
       ELSE Traverse(limit)[center(np)][ResultAdd(<<>>, np)]

-----------------------------------------------------------------------------
(* Erase.                                                                  *)

\* The character at i, or the 0 at the end.
At(str, i) == IF i \in DOMAIN str THEN str[i] ELSE 0

Branches(np) == left(np) \in DOMAIN tree \/ right(np) \in DOMAIN tree

\* A round of the loop of Erase: np is compared with the s-th character; last_np is
\* the last node below the root that branches, last_s the character after it (or
\* the one of the last turn aside), first_np the first node that matched.  The loop
\* is left at the node of the key, or where there is no node.
Round(str, w) ==
    LET match == tree[w.np].c = str[w.s]
        np == Append(w.np, Compare(str[w.s], tree[w.np].c))
        s == IF match THEN w.s + 1 ELSE w.s
        first_np == IF match /\ w.first_np = NULL THEN w.np ELSE w.first_np
        last_s == IF match THEN w.last_s ELSE w.s
    IN CASE w.np \notin DOMAIN tree -> w
         [] w.np \in DOMAIN tree /\ match /\ w.s = Len(str) ->
                [w EXCEPT !.first_np = first_np]
         [] OTHER ->
                [np |-> np, s |-> s, first_np |-> first_np,
                 last_np |-> IF Branches(np) THEN np ELSE w.last_np,
                 last_s |-> IF Branches(np) THEN s + 1 ELSE last_s]

Walk(str) ==
    LET walk[n \in 0..Depth(tree)] ==
            IF n = 0 THEN [np |-> root, s |-> 1, first_np |-> NULL,
                           last_np |-> NULL, last_s |-> 1]
            ELSE Round(str, walk[n - 1])
    IN walk[Depth(tree)]

CleanNode(t, np) == [q \in DOMAIN t \ {np} |-> t[q]]

\* Without a node and what is below it.
Clean(t, np) == [q \in {q \in DOMAIN t : ~IsPrefix(np, q)} |-> t[q]]

\* What Erase frees when nothing is below the node of the key.
Freed(str, w) ==
    LET Is(np) == np \in DOMAIN tree /\ tree[np].c = At(str, w.last_s)
    IN CASE w.last_np = NULL -> center(w.first_np)
         [] w.last_np # NULL /\ Is(left(w.last_np)) -> left(w.last_np)
         [] w.last_np # NULL /\ ~Is(left(w.last_np)) /\ Is(right(w.last_np)) ->
                right(w.last_np)
         [] OTHER -> IF Is(center(w.last_np)) THEN center(w.last_np) ELSE NULL

EraseBelow(np, str, w) == Clean(tree, np)

\* A path that others extend goes alone.
EraseNodes(np, str, w) ==
    LET cleared == [tree EXCEPT ![np].data = NULL]
    IN IF center(np) \in DOMAIN tree \/ Freed(str, w) = NULL
       THEN cleared ELSE Clean(cleared, Freed(str, w))

Erase(str) ==
    LET w == Walk(str)
    IN tree' = IF w.np \in DOMAIN tree /\ tree[w.np].data # NULL
               THEN EraseNodes(w.np, str, w) ELSE tree

Next ==
    \/ \E path \in Path, func \in Func : SetHandleFunc(path, func)
    \/ \E path \in Path : Erase(path)

Spec == Init /\ [][Next]_tree

-----------------------------------------------------------------------------
(* Properties.                                                             *)

Registered == {tree[np].data : np \in DOMAIN tree} \ {NULL}

(***************************************************************************)
(* A request goes to the handler of the longest registered path that is a  *)
(* prefix of its own, and to none if there is no such path, whatever was   *)
(* registered in which order, registered twice, or erased.                 *)
(***************************************************************************)
LongestPrefixWins ==
    \A path \in Query :
        LET prefixes == {d \in Registered : IsPrefix(d.str, path)}
        IN IF prefixes = {} \/ path = <<>> THEN GetHandleFunc(path) = NULL
           ELSE LET longest == Max({Len(d.str) : d \in prefixes})
                IN \E d \in prefixes : /\ Len(d.str) = longest
                                       /\ GetHandleFunc(path) = d.func

Before(s, t) ==
    \/ IsStrictPrefix(s, t)
    \/ \E i \in DOMAIN s \cap DOMAIN t :
           s[i] < t[i] /\ SubSeq(s, 1, i - 1) = SubSeq(t, 1, i - 1)

(***************************************************************************)
(* Search gives registered paths that begin with what it is asked for, in  *)
(* order and none twice, and leaves some out only if it gives more than    *)
(* limit.                                                                  *)
(***************************************************************************)
SearchIsComplete ==
    \A str \in Query \ {<<>>}, limit \in Limit :
        LET found == Search(str, limit)
            matching == {d \in Registered : IsPrefix(str, d.str)}
        IN /\ Range(found) \subseteq matching
           /\ \A i, j \in DOMAIN found : i < j => Before(found[i].str, found[j].str)
           /\ Len(found) > limit \/ Range(found) = matching

(***************************************************************************)
(* Registering a path takes it up if it is new, and changes no other: the  *)
(* handler registered first stays.                                         *)
(***************************************************************************)
RoutesAreKept ==
    [][\A path \in Path, func \in Func :
           SetHandleFunc(path, func) =>
               IF \E d \in Registered : d.str = path
               THEN Registered' = Registered
               ELSE Registered' = Registered \cup {[str |-> path, func |-> func]}]_tree

(***************************************************************************)
(* Erase removes the path and brings up none, and a path that others       *)
(* extend goes alone.  With one that none extends it may take others: all  *)
(* between it and the last branch, and, if the character after that branch *)
(* happens to be the one of a node aside, all that is below that node.     *)
(***************************************************************************)
EraseIsConfined ==
    [][\A path \in Path :
           Erase(path) =>
               /\ Registered' \subseteq {d \in Registered : d.str # path}
               /\ (\E d \in Registered : IsStrictPrefix(path, d.str))
                      => {d \in Registered : d.str # path} \subseteq Registered']_tree
=============================================================================
