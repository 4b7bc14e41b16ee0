------------------------ MODULE ConnectionPoolProofs ------------------------
(***************************************************************************)
(* What each operation on the free list does to it, for any number of      *)
(* connections: the lemmas that PoolContractProofs and EventLoopProofs     *)
(* cite.  free_rank makes the argument first order: a stack is well formed *)
(* when free_next_ goes down by one rank and no two connections share one, *)
(* so that a pop uncovers the connection of the next rank and a push adds  *)
(* a rank above all others.                                                *)
(***************************************************************************)
EXTENDS ConnectionPool, TLAPS

FreeTypeOK ==
    /\ free_list_head \in Ptr
    /\ free_next \in [Conn -> Ptr]
    /\ count \in Nat
    /\ created \in SUBSET Conn
    /\ free_rank \in [Conn -> Nat]

ActiveTypeOK ==
    /\ active_list_head \in Ptr
    /\ active_list_tail \in Ptr
    /\ active_list_lookup_cursor \in Ptr
    /\ active_next \in [Conn -> Ptr]
    /\ active_prev \in [Conn -> Ptr]

\* The two lists share no variable, so their types are looked after apart.
LEMMA PoolTypeSplits == PoolTypeOK <=> FreeTypeOK /\ ActiveTypeOK
BY DEF PoolTypeOK, FreeTypeOK, ActiveTypeOK

\* A new pool is well formed.
LEMMA PoolInitSound ==
    ASSUME PoolInit
    PROVE  PoolTypeOK /\ FreeListWellFormed /\ \A c \in Conn : ~OnFreeList(c)
BY ConnAssumption DEF PoolInit, PoolTypeOK, FreeListWellFormed, OnFreeList, Ptr

\* FreeListPop takes the head off and leaves the others a well-formed stack.
LEMMA PopReuse ==
    ASSUME FreeTypeOK, FreeListWellFormed, NEW c \in Conn, FreeListPopReuse(c)
    PROVE  /\ FreeTypeOK'
           /\ FreeListWellFormed'
           /\ OnFreeList(c)
           /\ \A d \in Conn : OnFreeList(d)' <=> OnFreeList(d) /\ d # c
           /\ created' = created
<1> USE ConnAssumption
<1>1. OnFreeList(c) /\ c = free_list_head /\ c # NULL
  BY DEF FreeListPopReuse, FreeListWellFormed
<1>2. /\ free_list_head' = free_next[c]
      /\ free_rank' = [free_rank EXCEPT ![c] = 0]
      /\ UNCHANGED <<free_next, count, created>>
  BY DEF FreeListPopReuse
<1>3. FreeTypeOK'
  BY <1>2 DEF FreeTypeOK, Ptr
<1>4. \A d \in Conn : free_rank'[d] = IF d = c THEN 0 ELSE free_rank[d]
  BY <1>2 DEF FreeTypeOK
<1>5. \A d \in Conn : OnFreeList(d)' <=> OnFreeList(d) /\ d # c
  BY <1>4 DEF OnFreeList, FreeTypeOK
<1>6. \A d \in Conn : OnFreeList(d)' => free_rank[d] < free_rank[c]
  BY <1>1, <1>5 DEF FreeListWellFormed, FreeTypeOK
<1>7. FreeListWellFormed'
  <2>1. CASE free_rank[c] = 1
    <3>1. free_list_head' = NULL
      BY <1>1, <1>2, <2>1 DEF FreeListWellFormed
    <3>2. \A d \in Conn : ~OnFreeList(d)'
      BY <1>4, <1>5, <1>6, <2>1 DEF OnFreeList, FreeTypeOK
    <3> QED
      BY <3>1, <3>2 DEF FreeListWellFormed
  <2>2. CASE free_rank[c] # 1
    <3>1. /\ free_next[c] \in Conn
          /\ free_rank[free_next[c]] = free_rank[c] - 1
      BY <1>1, <2>2 DEF FreeListWellFormed, FreeTypeOK, Ptr
    <3>2. OnFreeList(free_next[c])'
      BY <1>1, <1>2, <1>4, <2>2, <3>1 DEF OnFreeList, FreeTypeOK
    <3>3. \A d \in Conn : free_rank'[d] <= free_rank'[free_next[c]]
      BY <1>1, <1>4, <1>5, <1>6, <3>1, <3>2 DEF OnFreeList, FreeTypeOK
    <3>4. \A d, e \in Conn : OnFreeList(d)' /\ free_rank'[d] = free_rank'[e] => d = e
      BY <1>4, <1>5 DEF OnFreeList, FreeListWellFormed, FreeTypeOK
    <3>5. \A d \in Conn : OnFreeList(d)' =>
              IF free_rank'[d] = 1
              THEN free_next'[d] = NULL
              ELSE /\ free_next'[d] # NULL
                   /\ free_rank'[free_next'[d]] = free_rank'[d] - 1
      <4> SUFFICES ASSUME NEW d \in Conn, OnFreeList(d)', free_rank'[d] # 1
                   PROVE  /\ free_next[d] # NULL
                          /\ free_rank'[free_next[d]] = free_rank[d] - 1
        BY <1>2, <1>4, <1>5 DEF FreeListWellFormed
      <4>1. OnFreeList(d) /\ free_rank[d] # 1 /\ d # c
        BY <1>4, <1>5
      <4>2. free_next[d] \in Conn /\ free_rank[free_next[d]] = free_rank[d] - 1
        BY <4>1 DEF FreeListWellFormed, FreeTypeOK, Ptr
      <4>3. free_next[d] # c
        BY <1>6, <4>2 DEF FreeTypeOK
      <4> QED
        BY <1>4, <4>2, <4>3
    <3> QED
      BY <1>2, <3>1, <3>2, <3>3, <3>4, <3>5 DEF FreeListWellFormed
  <2> QED
    BY <2>1, <2>2
<1> QED
  BY <1>1, <1>2, <1>3, <1>5, <1>7

\* A new connection is not on the free list, nor is any other.
LEMMA PopNew ==
    ASSUME FreeTypeOK, FreeListWellFormed, NEW c \in Conn, FreeListPopNew(c)
    PROVE  /\ FreeTypeOK'
           /\ FreeListWellFormed'
           /\ c \notin created
           /\ created' = created \cup {c}
           /\ \A d \in Conn : ~OnFreeList(d) /\ ~OnFreeList(d)'
BY DEF FreeListPopNew, FreeTypeOK, FreeListWellFormed, OnFreeList

\* FreeListPush puts a connection that is not on the free list on top of it.
LEMMA PushFreeList ==
    ASSUME FreeTypeOK, FreeListWellFormed, NEW c \in Conn, ~OnFreeList(c),
           FreeListPush(c)
    PROVE  /\ FreeTypeOK'
           /\ FreeListWellFormed'
           /\ \A d \in Conn : OnFreeList(d)' <=> OnFreeList(d) \/ d = c
           /\ created' = created
<1> USE ConnAssumption
<1> DEFINE top == IF free_list_head = NULL THEN 0 ELSE free_rank[free_list_head]
<1>1. /\ top \in Nat
      /\ \A d \in Conn : free_rank[d] <= top
      /\ free_list_head # NULL => top > 0
  BY DEF FreeListWellFormed, FreeTypeOK, OnFreeList, Ptr
<1>2. /\ free_list_head' = c
      /\ free_next' = [free_next EXCEPT ![c] = free_list_head]
      /\ free_rank' = [free_rank EXCEPT ![c] = top + 1]
      /\ UNCHANGED <<count, created>>
  BY DEF FreeListPush, FreeTypeOK, Ptr
<1> HIDE DEF top
<1>3. FreeTypeOK'
  BY <1>1, <1>2 DEF FreeTypeOK, Ptr
<1>4. \A d \in Conn : /\ free_rank'[d] = IF d = c THEN top + 1 ELSE free_rank[d]
                      /\ free_next'[d] = IF d = c THEN free_list_head ELSE free_next[d]
  BY <1>2 DEF FreeTypeOK
<1>5. \A d \in Conn : OnFreeList(d)' <=> OnFreeList(d) \/ d = c
  BY <1>1, <1>4 DEF OnFreeList
<1>6. FreeListWellFormed'
  <2>1. OnFreeList(c)' /\ \A d \in Conn : free_rank'[d] <= free_rank'[c]
    BY <1>1, <1>4, <1>5 DEF FreeTypeOK
  <2>2. \A d, e \in Conn : OnFreeList(d)' /\ free_rank'[d] = free_rank'[e] => d = e
    BY <1>1, <1>4, <1>5 DEF FreeListWellFormed, FreeTypeOK, OnFreeList
  <2>3. ASSUME NEW d \in Conn, OnFreeList(d)'
        PROVE  IF free_rank'[d] = 1
               THEN free_next'[d] = NULL
               ELSE /\ free_next'[d] # NULL
                    /\ free_rank'[free_next'[d]] = free_rank'[d] - 1
    <3>1. CASE d = c
      <4>1. CASE free_list_head = NULL
        BY <1>4, <3>1, <4>1 DEF top
      <4>2. CASE free_list_head # NULL
        <5>1. /\ free_list_head \in Conn /\ free_list_head # c
              /\ free_rank[free_list_head] = top
          BY <4>2 DEF top, FreeListWellFormed, FreeTypeOK, Ptr
        <5> QED
          BY <1>1, <1>4, <3>1, <4>2, <5>1
      <4> QED
        BY <4>1, <4>2
    <3>2. CASE d # c
      <4>1. OnFreeList(d) /\ free_rank'[d] = free_rank[d] /\ free_next'[d] = free_next[d]
        BY <1>4, <1>5, <2>3, <3>2
      <4>2. CASE free_rank[d] = 1
        BY <4>1, <4>2 DEF FreeListWellFormed
      <4>3. CASE free_rank[d] # 1
        <5>1. /\ free_next[d] \in Conn
              /\ free_rank[free_next[d]] = free_rank[d] - 1
          BY <4>1, <4>3 DEF FreeListWellFormed, FreeTypeOK, Ptr
        <5>2. OnFreeList(free_next[d])
          BY <4>1, <4>3, <5>1 DEF OnFreeList, FreeTypeOK
        <5> QED
          BY <1>4, <4>1, <4>3, <5>1, <5>2
      <4> QED
        BY <4>2, <4>3
    <3> QED
      BY <3>1, <3>2
  <2> QED
    BY <1>2, <2>1, <2>2, <2>3 DEF FreeListWellFormed
<1> QED
  BY <1>2, <1>3, <1>5, <1>6

\* A step that leaves the free list alone leaves it well formed.
LEMMA FreeListStutters ==
    ASSUME FreeTypeOK, FreeListWellFormed, UNCHANGED freeVars
    PROVE  /\ FreeTypeOK'
           /\ FreeListWellFormed'
           /\ \A d \in Conn : OnFreeList(d)' <=> OnFreeList(d)
           /\ created' = created
BY DEF freeVars, FreeTypeOK, FreeListWellFormed, OnFreeList

\* The operations on the active list keep the types of its pointers whatever
\* the list looks like.
LEMMA ActiveListTypes ==
    ASSUME ActiveTypeOK, NEW c \in Conn,
           \/ ActiveListPush(c) \/ ActiveListErase(c)
           \/ ActiveListTimeoutCheck \/ ActiveListCheckNext
           \/ UNCHANGED activeVars
    PROVE  ActiveTypeOK'
<1> USE ConnAssumption
<1>1. CASE ActiveListPush(c)
  BY <1>1 DEF ActiveListPush, ActiveTypeOK, Ptr
<1>2. CASE ActiveListErase(c)
  BY <1>2 DEF ActiveListErase, ActiveTypeOK, Ptr
<1>3. CASE ActiveListTimeoutCheck \/ ActiveListCheckNext
  BY <1>3 DEF ActiveListTimeoutCheck, ActiveListCheckNext, ActiveTypeOK, Ptr
<1>4. CASE UNCHANGED activeVars
  BY <1>4 DEF activeVars, ActiveTypeOK
<1> QED
  BY <1>1, <1>2, <1>3, <1>4
=============================================================================
