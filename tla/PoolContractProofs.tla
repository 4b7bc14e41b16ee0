------------------------- MODULE PoolContractProofs -------------------------
(***************************************************************************)
(* Under the discipline of PoolContract the two lists stay well formed,    *)
(* for any number of connections and any limit.  The conjunction of        *)
(* TypeOK, FreeListSound and ActiveListSound is inductive as it stands:    *)
(* place numbers the active list, so each conjunct is first order.         *)
(*                                                                         *)
(* From the invariant follows that the pool implements AbstractPool: each  *)
(* list is one chain numbered from its head, Chain reads off the sequence  *)
(* in the order of those numbers, and every step changes the numbers as    *)
(* the abstract step changes the sequence.                                 *)
(***************************************************************************)
EXTENDS PoolContract, ConnectionPoolProofs, FiniteSetTheorems,
        WellFoundedInduction, SequenceTheorems

IInv == TypeOK /\ FreeListSound /\ ActiveListSound

LEMMA TypeSplits ==
    TypeOK <=> /\ FreeTypeOK /\ ActiveTypeOK
               /\ got \in Ptr /\ place \in [Conn -> Nat] /\ len \in Nat
BY PoolTypeSplits DEF TypeOK

LEMMA TypeJoins ==
    FreeTypeOK' /\ ActiveTypeOK' /\ (got \in Ptr /\ place \in [Conn -> Nat] /\ len \in Nat)'
    => TypeOK'
BY DEF TypeOK, PoolTypeOK, FreeTypeOK, ActiveTypeOK

LEMMA InitIInv == Init => IInv
<1> SUFFICES ASSUME Init PROVE IInv
  OBVIOUS
<1>1. TypeOK /\ FreeListWellFormed /\ \A c \in Conn : ~OnFreeList(c)
  BY PoolInitSound DEF Init, TypeOK, Ptr
<1>2. count = Cardinality(created) /\ count <= MaxConn + 1
  BY FS_EmptySet, MaxConnAssumption DEF Init, PoolInit
<1>3. ActiveListSound
  BY DEF Init, PoolInit, ActiveListSound, PlacesNumberTheList, EndsAreEnds,
         OnActiveList, Unlinked
<1> QED
  BY <1>1, <1>2, <1>3 DEF IInv, FreeListSound

-----------------------------------------------------------------------------
(* The free list.                                                          *)

\* FreeListPop allocates only below the limit, one connection at a time.
LEMMA PopKeepsFreeListSound ==
    ASSUME FreeTypeOK, FreeListSound, NEW c \in Conn,
           FreeListPopReuse(c) \/ FreeListPopNew(c)
    PROVE  FreeTypeOK' /\ FreeListSound'
<1>1. CASE FreeListPopReuse(c)
  <2>1. count' = count
    BY <1>1 DEF FreeListPopReuse
  <2> QED
    BY <1>1, <2>1, PopReuse DEF FreeListSound
<1>2. CASE FreeListPopNew(c)
  <2>1. count' = count + 1 /\ ~(count > MaxConn)
    BY <1>2 DEF FreeListPopNew
  <2>2. /\ FreeTypeOK' /\ FreeListWellFormed'
        /\ c \notin created /\ created' = created \cup {c}
        /\ \A d \in Conn : ~OnFreeList(d)'
    BY <1>2, PopNew DEF FreeListSound
  <2>3. IsFiniteSet(created)
    BY ConnAssumption, FS_Subset DEF FreeTypeOK
  <2>4. Cardinality(created') = Cardinality(created) + 1
    BY <2>2, <2>3, FS_AddElement
  <2> QED
    BY <2>1, <2>2, <2>4, MaxConnAssumption DEF FreeListSound, FreeTypeOK
<1> QED
  BY <1>1, <1>2

LEMMA PushKeepsFreeListSound ==
    ASSUME FreeTypeOK, FreeListSound, NEW c \in Conn, Held(c), FreeListPush(c)
    PROVE  FreeTypeOK' /\ FreeListSound'
<1>1. count' = count
  BY DEF FreeListPush
<1> QED
  BY <1>1, PushFreeList DEF FreeListSound, Held

-----------------------------------------------------------------------------
(* The active list.                                                        *)

\* ActiveListPush appends a connection that is not on the list.
LEMMA PushKeepsActiveListSound ==
    ASSUME TypeOK, ActiveListSound, NEW c \in Conn, PushActive(c)
    PROVE  ActiveListSound'
<1> USE ConnAssumption
<1>1. /\ ~OnActiveList(c)
      /\ active_list_tail' = c
      /\ place' = [place EXCEPT ![c] = len + 1]
      /\ len' = len + 1
      /\ active_list_lookup_cursor' = active_list_lookup_cursor
  BY DEF PushActive, ActiveListPush
<1>2. \A d \in Conn : place'[d] = IF d = c THEN len + 1 ELSE place[d]
  BY <1>1 DEF TypeOK
<1>3. place[c] = 0 /\ len \in Nat /\ \A d \in Conn : place[d] \in Nat /\ place[d] <= len
  BY <1>1 DEF TypeOK, OnActiveList, ActiveListSound, PlacesNumberTheList
<1>4. PlacesNumberTheList'
  BY <1>1, <1>2, <1>3 DEF PlacesNumberTheList, ActiveListSound, OnActiveList
<1>5. active_list_lookup_cursor' # NULL => OnActiveList(active_list_lookup_cursor)'
  BY <1>1, <1>2, <1>3 DEF ActiveListSound, OnActiveList, TypeOK, PoolTypeOK, Ptr
<1>6. CASE active_list_tail = NULL
  <2>1. len = 0 /\ active_list_head' = c /\ UNCHANGED <<active_next, active_prev>>
    BY <1>6 DEF ActiveListSound, EndsAreEnds, PushActive, ActiveListPush
  <2>2. \A d \in Conn : Unlinked(d)
    BY <1>3, <2>1 DEF ActiveListSound, OnActiveList
  <2>3. EndsAreEnds'
    BY <1>1, <1>2, <2>1 DEF EndsAreEnds
  <2>4. \A d \in Conn : IF OnActiveList(d)' THEN Linked(d)' ELSE Unlinked(d)'
    BY <1>1, <1>2, <1>3, <2>1, <2>2 DEF OnActiveList, Linked, Unlinked
  <2> QED
    BY <1>4, <1>5, <2>3, <2>4 DEF ActiveListSound
<1>7. CASE active_list_tail # NULL
  <2> DEFINE tail == active_list_tail
  <2>1. /\ tail \in Conn /\ len > 0 /\ place[tail] = len /\ tail # c
        /\ active_list_head \in Conn /\ place[active_list_head] = 1
    BY <1>3, <1>7 DEF ActiveListSound, EndsAreEnds, TypeOK, PoolTypeOK, Ptr
  <2>2. /\ active_list_head' = active_list_head
        /\ \A d \in Conn : /\ active_next'[d] = IF d = c THEN NULL
                                                ELSE IF d = tail THEN c
                                                ELSE active_next[d]
                           /\ active_prev'[d] = IF d = c THEN tail ELSE active_prev[d]
    BY <1>7, <2>1 DEF PushActive, ActiveListPush, TypeOK, PoolTypeOK
  <2> HIDE DEF tail
  <2>3. EndsAreEnds'
    BY <1>1, <1>2, <1>3, <2>1, <2>2 DEF EndsAreEnds
  <2>4. ASSUME NEW d \in Conn
        PROVE  IF OnActiveList(d)' THEN Linked(d)' ELSE Unlinked(d)'
    <3>1. CASE d = c
      BY <1>1, <1>2, <1>3, <2>1, <2>2, <3>1 DEF OnActiveList, Linked
    <3>2. CASE d = tail
      BY <1>1, <1>2, <1>3, <2>1, <2>2, <3>2
         DEF OnActiveList, Linked, ActiveListSound, TypeOK, PoolTypeOK, Ptr
    <3>3. CASE d # c /\ d # tail
      <4>1. place[d] # len
        BY <2>1, <3>3 DEF ActiveListSound, PlacesNumberTheList, OnActiveList
      <4>2. CASE OnActiveList(d)
        <5>1. /\ active_next[d] \in Conn /\ place[active_next[d]] = place[d] + 1
              /\ IF place[d] = 1
                 THEN active_prev[d] = NULL
                 ELSE /\ active_prev[d] \in Conn
                      /\ place[active_prev[d]] = place[d] - 1
          BY <4>1, <4>2 DEF ActiveListSound, Linked, TypeOK, PoolTypeOK, Ptr
        <5>2. active_next[d] # c /\ (place[d] # 1 => active_prev[d] # c)
          BY <1>3, <4>2, <5>1 DEF OnActiveList
        <5> QED
          BY <1>1, <1>2, <1>3, <2>2, <3>3, <4>1, <4>2, <5>1, <5>2
             DEF OnActiveList, Linked
      <4>3. CASE ~OnActiveList(d)
        BY <1>2, <2>2, <3>3, <4>3 DEF ActiveListSound, OnActiveList, Unlinked
      <4> QED
        BY <4>2, <4>3
    <3> QED
      BY <3>1, <3>2, <3>3
  <2> QED
    BY <1>4, <1>5, <2>3, <2>4 DEF ActiveListSound
<1> QED
  BY <1>6, <1>7

\* ActiveListErase unlinks a connection that is on the list, and a cursor on
\* it moves to the next.
LEMMA EraseKeepsActiveListSound ==
    ASSUME TypeOK, ActiveListSound, NEW c \in Conn, EraseActive(c)
    PROVE  ActiveListSound'
<1> USE ConnAssumption
<1> DEFINE n == active_next[c]
           p == active_prev[c]
<1>1. /\ OnActiveList(c)
      /\ len' = len - 1
      /\ active_list_lookup_cursor' = IF c = active_list_lookup_cursor
                                      THEN n ELSE active_list_lookup_cursor
  BY DEF EraseActive, ActiveListErase
<1>2. \A d \in Conn : place'[d] = IF d = c THEN 0
                                  ELSE IF place[d] > place[c] THEN place[d] - 1
                                  ELSE place[d]
  BY DEF EraseActive
<1>3. /\ len \in Nat /\ place[c] \in Nat /\ place[c] >= 1
      /\ \A d \in Conn : place[d] \in Nat /\ place[d] <= len
      /\ \A d, e \in Conn : place[d] > 0 /\ place[d] = place[e] => d = e
  BY <1>1 DEF TypeOK, OnActiveList, ActiveListSound, PlacesNumberTheList
<1>4. /\ IF place[c] = len THEN n = NULL
         ELSE n \in Conn /\ place[n] = place[c] + 1
      /\ IF place[c] = 1 THEN p = NULL
         ELSE p \in Conn /\ place[p] = place[c] - 1
  BY <1>1 DEF ActiveListSound, Linked, TypeOK, PoolTypeOK, Ptr
<1>5. /\ active_list_head \in Conn /\ place[active_list_head] = 1
      /\ active_list_tail \in Conn /\ place[active_list_tail] = len
  BY <1>3 DEF ActiveListSound, EndsAreEnds, TypeOK, PoolTypeOK, Ptr
<1>6. \A d \in Conn : IF place[d] > 0 THEN Linked(d) ELSE Unlinked(d)
  BY DEF ActiveListSound, OnActiveList
<1>7. PlacesNumberTheList'
  BY <1>1, <1>2, <1>3 DEF PlacesNumberTheList, OnActiveList
<1>8. active_list_lookup_cursor' # NULL => OnActiveList(active_list_lookup_cursor)'
  BY <1>1, <1>2, <1>3, <1>4 DEF ActiveListSound, OnActiveList, TypeOK, PoolTypeOK, Ptr
<1>9. CASE active_list_tail = active_list_head
  <2>1. len = 1 /\ \A d \in Conn : place[d] > 0 => d = c
    BY <1>3, <1>5, <1>9
  <2>2. /\ active_list_head' = NULL /\ active_list_tail' = NULL
        /\ \A d \in Conn : /\ active_next'[d] = IF d = c THEN NULL ELSE active_next[d]
                           /\ active_prev'[d] = IF d = c THEN NULL ELSE active_prev[d]
    BY <1>9 DEF EraseActive, ActiveListErase, TypeOK, PoolTypeOK
  <2>3. EndsAreEnds'
    BY <1>1, <2>1, <2>2 DEF EndsAreEnds
  <2>4. \A d \in Conn : place'[d] = 0 /\ Unlinked(d)'
    BY <1>2, <1>3, <1>6, <2>1, <2>2 DEF Unlinked
  <2> QED
    BY <1>7, <1>8, <2>3, <2>4 DEF ActiveListSound, OnActiveList
<1>10. CASE active_list_tail # active_list_head
  <2>1. len > 1
    BY <1>3, <1>5, <1>10
  <2>2. /\ active_list_head' = IF p = NULL THEN n ELSE active_list_head
        /\ active_list_tail' = IF n = NULL THEN p ELSE active_list_tail
        /\ \A d \in Conn : /\ active_next'[d] = IF d = c THEN NULL
                                                ELSE IF d = p THEN n
                                                ELSE active_next[d]
                           /\ active_prev'[d] = IF d = c THEN NULL
                                                ELSE IF d = n THEN p
                                                ELSE active_prev[d]
    BY <1>10 DEF EraseActive, ActiveListErase
  <2> HIDE DEF n, p
  <2>3. EndsAreEnds'
    <3>1. active_list_head' \in Conn /\ place'[active_list_head'] = 1
      <4>1. CASE p = NULL
        BY <1>2, <1>3, <1>4, <2>1, <2>2, <4>1
      <4>2. CASE p # NULL
        BY <1>2, <1>3, <1>4, <1>5, <2>2, <4>2
      <4> QED
        BY <4>1, <4>2
    <3>2. active_list_tail' \in Conn /\ place'[active_list_tail'] = len - 1
      <4>1. CASE n = NULL
        BY <1>2, <1>3, <1>4, <2>1, <2>2, <4>1
      <4>2. CASE n # NULL
        BY <1>2, <1>3, <1>4, <1>5, <2>2, <4>2
      <4> QED
        BY <4>1, <4>2
    <3> QED
      BY <1>1, <2>1, <3>1, <3>2 DEF EndsAreEnds
  <2>4. ASSUME NEW d \in Conn, place'[d] > 0
        PROVE  Linked(d)'
    <3>1. d # c /\ place[d] > 0 /\ place[d] # place[c]
      BY <1>2, <1>3, <2>4
    <3>2. /\ IF place[d] = len THEN active_next[d] = NULL
             ELSE /\ active_next[d] \in Conn
                  /\ place[active_next[d]] = place[d] + 1
          /\ IF place[d] = 1 THEN active_prev[d] = NULL
             ELSE /\ active_prev[d] \in Conn
                  /\ place[active_prev[d]] = place[d] - 1
      BY <1>6, <3>1 DEF Linked, TypeOK, PoolTypeOK, Ptr
    <3>3. IF place'[d] = len' THEN active_next'[d] = NULL
          ELSE /\ active_next'[d] # NULL
               /\ place'[active_next'[d]] = place'[d] + 1
      <4>1. CASE d = p
        BY <1>1, <1>2, <1>3, <1>4, <2>2, <3>1, <4>1
      <4>2. CASE d # p
        <5>1. place[d] + 1 # place[c]
          BY <1>3, <1>4, <3>1, <4>2
        <5> QED
          BY <1>1, <1>2, <1>3, <2>2, <3>1, <3>2, <4>2, <5>1
      <4> QED
        BY <4>1, <4>2
    <3>4. IF place'[d] = 1 THEN active_prev'[d] = NULL
          ELSE /\ active_prev'[d] # NULL
               /\ place'[active_prev'[d]] = place'[d] - 1
      <4>1. CASE d = n
        <5>1. place'[d] = place[c] /\ active_prev'[d] = p
          BY <1>2, <1>3, <1>4, <2>2, <3>1, <4>1
        <5>2. place[c] # 1 => p \in Conn /\ place'[p] = place[c] - 1
          BY <1>2, <1>3, <1>4
        <5> QED
          BY ConnAssumption, <1>4, <5>1, <5>2
      <4>2. CASE d # n
        <5>1. place[d] # place[c] + 1
          BY <1>3, <1>4, <3>1, <4>2
        <5> QED
          BY <1>1, <1>2, <1>3, <2>2, <3>1, <3>2, <4>2, <5>1
      <4> QED
        BY <4>1, <4>2
    <3> QED
      BY <3>3, <3>4 DEF Linked
  <2>5. ASSUME NEW d \in Conn, ~(place'[d] > 0)
        PROVE  Unlinked(d)'
    <3>1. d = c \/ place[d] = 0
      BY <1>2, <1>3, <2>5
    <3>2. d # c => d # p /\ d # n
      BY <1>3, <1>4, <3>1
    <3> QED
      BY <1>6, <2>2, <3>1, <3>2 DEF Unlinked
  <2> QED
    BY <1>7, <1>8, <2>3, <2>4, <2>5 DEF ActiveListSound, OnActiveList
<1> QED
  BY <1>9, <1>10

\* The cursor starts on the head and follows the list.
LEMMA CursorKeepsActiveListSound ==
    ASSUME TypeOK, ActiveListSound, StartSweep \/ Visit
    PROVE  ActiveListSound'
<1>1. UNCHANGED <<active_list_head, active_list_tail, active_next, active_prev, place, len>>
  BY DEF StartSweep, Visit, ActiveListTimeoutCheck, ActiveListCheckNext
<1>2. active_list_lookup_cursor' # NULL => OnActiveList(active_list_lookup_cursor)'
  <2>1. CASE StartSweep
    BY <1>1, <2>1 DEF StartSweep, ActiveListTimeoutCheck, ActiveListSound, EndsAreEnds,
       OnActiveList, TypeOK
  <2>2. CASE Visit
    <3>1. CASE active_list_lookup_cursor = NULL
      BY <2>2, <3>1 DEF Visit, ActiveListCheckNext
    <3>2. CASE active_list_lookup_cursor # NULL
      <4> DEFINE c == active_list_lookup_cursor
      <4>1. c \in Conn /\ OnActiveList(c) /\ Linked(c)
        BY <3>2 DEF ActiveListSound, TypeOK, PoolTypeOK, Ptr
      <4>2. active_list_lookup_cursor' = active_next[c]
        BY <2>2, <3>2 DEF Visit, ActiveListCheckNext
      <4>3. active_next[c] # NULL => place[active_next[c]] = place[c] + 1
        BY <4>1 DEF Linked
      <4> QED
        BY <1>1, <4>1, <4>2, <4>3 DEF OnActiveList, TypeOK
    <3> QED
      BY <3>1, <3>2
  <2> QED
    BY <2>1, <2>2
<1> QED
  BY <1>1, <1>2 DEF ActiveListSound, PlacesNumberTheList, EndsAreEnds, OnActiveList,
     Linked, Unlinked

\* Operations on one list leave what the other one rests on alone.
LEMMA ActiveListStutters ==
    ASSUME ActiveListSound, UNCHANGED <<activeVars, place, len>>
    PROVE  ActiveListSound'
BY DEF ActiveListSound, activeVars, PlacesNumberTheList, EndsAreEnds, OnActiveList,
       Linked, Unlinked

LEMMA FreeListSoundStutters ==
    ASSUME FreeTypeOK, FreeListSound, UNCHANGED freeVars
    PROVE  FreeTypeOK' /\ FreeListSound'
BY FreeListStutters DEF FreeListSound, freeVars

-----------------------------------------------------------------------------
(* The theorems.                                                           *)

LEMMA NextIInv == IInv /\ [Next]_vars => IInv'
<1> SUFFICES ASSUME IInv, [Next]_vars PROVE IInv'
  OBVIOUS
<1> USE DEF IInv
<1>0. /\ FreeTypeOK /\ ActiveTypeOK
      /\ got \in Ptr /\ place \in [Conn -> Nat] /\ len \in Nat
  BY TypeSplits
<1>1. CASE Pop
  <2>1. FreeTypeOK' /\ FreeListSound'
    BY <1>0, <1>1, PopKeepsFreeListSound, FreeListSoundStutters DEF Pop, FreeListPopFull
  <2>2. got' \in Ptr
    BY <1>1 DEF Pop, Ptr
  <2>3. UNCHANGED <<activeVars, place, len>>
    BY <1>1 DEF Pop
  <2>4. ActiveTypeOK'
    BY <1>0, <2>3 DEF ActiveTypeOK, activeVars
  <2> QED
    BY <1>0, <2>1, <2>2, <2>3, <2>4, TypeJoins, ActiveListStutters
<1>2. ASSUME NEW c \in Conn, PushFree(c) PROVE IInv'
  <2>1. FreeTypeOK' /\ FreeListSound'
    BY <1>0, <1>2, PushKeepsFreeListSound DEF PushFree
  <2>2. UNCHANGED <<activeVars, got, place, len>>
    BY <1>2 DEF PushFree
  <2>3. ActiveTypeOK'
    BY <1>0, <2>2 DEF ActiveTypeOK, activeVars
  <2> QED
    BY <1>0, <2>1, <2>2, <2>3, TypeJoins, ActiveListStutters
<1>3. ASSUME NEW c \in Conn, PushActive(c) PROVE IInv'
  <2>1. FreeTypeOK' /\ FreeListSound'
    BY <1>0, <1>3, FreeListSoundStutters DEF PushActive
  <2>2. ActiveTypeOK'
    BY <1>0, <1>3, ActiveListTypes DEF PushActive
  <2>3. got' = got /\ len' \in Nat /\ place' \in [Conn -> Nat]
    BY <1>3 DEF PushActive, TypeOK
  <2> QED
    BY <1>0, <1>3, <2>1, <2>2, <2>3, TypeJoins, PushKeepsActiveListSound
<1>4. ASSUME NEW c \in Conn, EraseActive(c) PROVE IInv'
  <2>1. FreeTypeOK' /\ FreeListSound'
    BY <1>0, <1>4, FreeListSoundStutters DEF EraseActive
  <2>2. ActiveTypeOK'
    BY <1>0, <1>4, ActiveListTypes DEF EraseActive
  <2>3. got' = got /\ len' \in Nat /\ place' \in [Conn -> Nat]
    <3>1. place[c] \in Nat /\ place[c] > 0 /\ place[c] <= len
      BY <1>4 DEF EraseActive, OnActiveList, TypeOK, ActiveListSound, PlacesNumberTheList
    <3> QED
      BY <1>4, <3>1 DEF EraseActive, TypeOK
  <2> QED
    BY <1>0, <1>4, <2>1, <2>2, <2>3, TypeJoins, EraseKeepsActiveListSound
<1>5. CASE StartSweep \/ Visit
  <2>1. FreeTypeOK' /\ FreeListSound'
    BY <1>0, <1>5, FreeListSoundStutters DEF StartSweep, Visit
  <2>2. ActiveTypeOK'
    BY <1>0, <1>5 DEF StartSweep, Visit, ActiveListTimeoutCheck, ActiveListCheckNext,
       ActiveTypeOK, Ptr
  <2>3. got' \in Ptr /\ UNCHANGED <<place, len>>
    BY <1>0, <1>5 DEF StartSweep, Visit, ActiveTypeOK, TypeOK
  <2> QED
    BY <1>0, <1>5, <2>1, <2>2, <2>3, TypeJoins, CursorKeepsActiveListSound
<1>6. CASE UNCHANGED vars
  <2>1. UNCHANGED freeVars /\ UNCHANGED <<activeVars, place, len>> /\ got' = got
    BY <1>6 DEF vars
  <2>2. FreeTypeOK' /\ FreeListSound'
    BY <1>0, <2>1, FreeListSoundStutters
  <2>3. ActiveTypeOK'
    BY <1>0, <2>1 DEF ActiveTypeOK, activeVars
  <2> QED
    BY <1>0, <2>1, <2>2, <2>3, TypeJoins, ActiveListStutters
<1> QED
  BY <1>1, <1>2, <1>3, <1>4, <1>5, <1>6 DEF Next

\* The inductive invariant of the pool.
THEOREM PoolInvariant == Spec => []IInv
<1> QED
  BY InitIInv, NextIInv, PTL DEF Spec

\* Every variable keeps its type.
THEOREM PoolTypeCorrect == Spec => []TypeOK
<1>1. IInv => TypeOK
  BY DEF IInv
<1> QED
  BY <1>1, PoolInvariant, PTL

\* The free list is a stack of allocated connections, and no more than
\* MaxConn + 1 connections are ever allocated.
THEOREM PoolFreeListSound == Spec => []FreeListSound
<1>1. IInv => FreeListSound
  BY DEF IInv
<1> QED
  BY <1>1, PoolInvariant, PTL

\* The active list is a doubly linked list with the cursor on it.
THEOREM PoolActiveListSound == Spec => []ActiveListSound
<1>1. IInv => ActiveListSound
  BY DEF IInv
<1> QED
  BY <1>1, PoolInvariant, PTL
-----------------------------------------------------------------------------
(* What Chain computes.  The library's induction theorems take a predicate *)
(* the provers cannot instantiate, so an induction on the length of a      *)
(* chain is an argument about the least counterexample.                    *)

LEMMA Least ==
    ASSUME NEW T, T \subseteq Nat, T # {}
    PROVE  \E x \in T : \A y \in T : x <= y
<1>1. PICK x \in T : \A y \in T : <<y, x>> \notin OpToRel(<, Nat)
  BY NatLessThanWellFounded, WFMin, Zenon
<1>2. \A y \in T : y < x => <<y, x>> \in OpToRel(<, Nat)
  BY Zenon DEF OpToRel
<1>3. \A y \in T : ~(y < x)
  BY <1>1, <1>2, Zenon
<1> QED
  BY <1>3

\* A sequence of connections each linked to the next, the last one to none,
\* is what Chain returns for its head.
LEMMA ChainIs ==
    ASSUME NEW start \in Ptr, NEW next \in [Conn -> Ptr],
           NEW t \in Seq(Conn), Len(t) <= Cardinality(Conn),
           IF t = <<>> THEN start = NULL
           ELSE start = t[1] /\ next[t[Len(t)]] = NULL,
           \A i \in 1..(Len(t) - 1) : next[t[i]] = t[i + 1]
    PROVE  Chain(start, next) = t
<1> DEFINE K == Cardinality(Conn)
           m == Len(t)
           Cells(f) == [n \in 0..K |->
                          IF n = 0
                          THEN IF start = NULL THEN <<>> ELSE <<start>>
                          ELSE LET s == f[n - 1]
                               IN  IF s = <<>> \/ next[Last(s)] = NULL
                                   THEN s ELSE Append(s, next[Last(s)])]
           cells == CHOOSE f : f = Cells(f)
           g == [n \in 0..K |-> SubSeq(t, 1, IF n < m THEN n + 1 ELSE m)]
<1>1. Chain(start, next) = cells[K]
  BY DEF Chain
<1>2. K \in Nat /\ m \in Nat /\ m <= K
  BY ConnAssumption, FS_CardinalityType
<1>3. ASSUME NEW n \in 0..K, n # 0
      PROVE  LET s == g[n - 1]
             IN  g[n] = IF s = <<>> \/ next[Last(s)] = NULL
                        THEN s ELSE Append(s, next[Last(s)])
  <2>1. n \in Nat /\ n - 1 \in 0..K
    BY <1>2, <1>3
  <2>2. g[n - 1] = SubSeq(t, 1, IF n - 1 < m THEN n ELSE m)
    BY <2>1
  <2>3. g[n] = SubSeq(t, 1, IF n < m THEN n + 1 ELSE m)
    OBVIOUS
  <2> HIDE DEF g
  <2>4. CASE n < m
    <3>1. Len(g[n - 1]) = n /\ Last(g[n - 1]) = t[n] /\ g[n - 1] # <<>>
      BY <1>2, <2>1, <2>2, <2>4 DEF Last
    <3>2. next[t[n]] = t[n + 1] /\ t[n + 1] \in Conn /\ t[n + 1] # NULL
      BY <1>2, <2>1, <2>4, <1>3, ConnAssumption
    <3>3. SubSeq(t, 1, n + 1) = Append(SubSeq(t, 1, n), t[n + 1])
      BY <1>2, <2>1, <2>4
    <3> QED
      BY <2>1, <2>2, <2>3, <2>4, <3>1, <3>2, <3>3
  <2>5. CASE ~(n < m)
    <3>1. g[n - 1] = t /\ g[n] = t
      BY <1>2, <1>3, <2>1, <2>2, <2>3, <2>5
    <3>2. t = <<>> \/ next[Last(t)] = NULL
      BY DEF Last
    <3> QED
      BY <3>1, <3>2
  <2> QED
    BY <2>4, <2>5
<1>4. g[0] = IF start = NULL THEN <<>> ELSE <<start>>
  <2>1. g[0] = SubSeq(t, 1, IF 0 < m THEN 1 ELSE m)
    BY <1>2
  <2>2. CASE t = <<>>
    BY <2>1, <2>2
  <2>3. CASE t # <<>>
    <3>1. m > 0 /\ start = t[1] /\ start \in Conn /\ start # NULL
      BY <1>2, <2>3, ConnAssumption
    <3>2. Len(SubSeq(t, 1, 1)) = 1 /\ SubSeq(t, 1, 1)[1] = t[1]
      BY <1>2, <3>1
    <3>3. SubSeq(t, 1, 1) = <<t[1]>>
      <4>1. SubSeq(t, 1, 1) \in Seq(Conn) /\ <<t[1]>> \in Seq(Conn)
        BY <1>2, <3>1
      <4>2. /\ Len(SubSeq(t, 1, 1)) = Len(<<t[1]>>)
            /\ \A i \in 1..Len(SubSeq(t, 1, 1)) : SubSeq(t, 1, 1)[i] = <<t[1]>>[i]
        BY <3>2
      <4> QED
        BY <4>1, <4>2, SeqEqual, Zenon
    <3> QED
      BY <1>2, <2>1, <3>1, <3>3
  <2> QED
    BY <2>2, <2>3
<1>5. g = Cells(g)
  <2> DEFINE h == Cells(g)
  <2>1. \A n \in 0..K : h[n] = g[n]
    BY <1>3, <1>4
  <2> QED
    BY <2>1
<1>6. cells = Cells(cells)
  <2> HIDE DEF g
  <2> QED
    BY <1>5
<1>7. \A n \in 0..K : cells[n] = g[n]
  <2> DEFINE T == {n \in 0..K : cells[n] # g[n]}
  <2> SUFFICES ASSUME T # {} PROVE FALSE
    OBVIOUS
  <2> HIDE DEF cells, g
  <2>1. T \subseteq Nat
    BY <1>2
  <2>2. PICK n \in T : \A y \in T : n <= y
    BY <2>1, Least
  <2>3. cells[0] = g[0]
    BY <1>2, <1>4, <1>6
  <2>4. n \in 1..K /\ n - 1 \in 0..K /\ n - 1 \notin T
    BY <1>2, <2>2, <2>3
  <2>5. cells[n - 1] = g[n - 1]
    BY <2>4
  <2>6. cells[n] = LET s == cells[n - 1]
                   IN  IF s = <<>> \/ next[Last(s)] = NULL
                       THEN s ELSE Append(s, next[Last(s)])
    <3>1. cells[n] = Cells(cells)[n]
      BY <1>6
    <3>2. n # 0 /\ n \in 0..K
      BY <1>2, <2>4
    <3> QED
      BY <3>1, <3>2
  <2> QED
    BY <1>3, <2>2, <2>4, <2>5, <2>6
<1>8. g[K] = t
  BY <1>2
<1> HIDE DEF cells, g
<1> QED
  BY <1>1, <1>2, <1>7, <1>8

-----------------------------------------------------------------------------
(* Both lists are a chain whose connections pos numbers from the head.     *)

Numbered(head, next, pos, n) ==
    /\ head \in Ptr /\ next \in [Conn -> Ptr] /\ pos \in [Conn -> Nat] /\ n \in Nat
    /\ IF n = 0 THEN head = NULL ELSE head \in Conn /\ pos[head] = 1
    /\ \A c \in Conn : pos[c] <= n
    /\ \A c, d \in Conn : pos[c] > 0 /\ pos[c] = pos[d] => c = d
    /\ \A c \in Conn : pos[c] > 0 =>
           IF pos[c] = n THEN next[c] = NULL
           ELSE next[c] \in Conn /\ pos[next[c]] = pos[c] + 1

\* s lists what pos numbers, in that order.
Lists(s, pos, n) ==
    /\ s \in Seq(Conn) /\ Len(s) = n
    /\ \A i \in 1..n : s[i] \in Conn /\ pos[s[i]] = i
    /\ \A c \in Conn : pos[c] > 0 => s[pos[c]] = c

\* No number is skipped, and there are no more numbers than connections.
LEMMA NumberedHasList ==
    ASSUME NEW head, NEW next, NEW pos, NEW n, Numbered(head, next, pos, n)
    PROVE  n <= Cardinality(Conn) /\ \E s : Lists(s, pos, n)
<1> USE DEF Numbered
<1>1. \A i \in 1..n : \E c \in Conn : pos[c] = i
  <2> DEFINE T == {i \in 1..n : \A c \in Conn : pos[c] # i}
  <2> SUFFICES ASSUME T # {} PROVE FALSE
    OBVIOUS
  <2>1. T \subseteq Nat
    OBVIOUS
  <2>2. PICK i \in T : \A y \in T : i <= y
    BY <2>1, Least
  <2>3. i # 1 /\ i \in 2..n
    OBVIOUS
  <2>4. i - 1 \in 1..n /\ i - 1 \notin T
    BY <2>2, <2>3
  <2>5. PICK c \in Conn : pos[c] = i - 1
    BY <2>4
  <2>6. next[c] \in Conn /\ pos[next[c]] = i
    BY <2>3, <2>5
  <2> QED
    BY <2>6
<1> DEFINE s == [i \in 1..n |-> CHOOSE c \in Conn : pos[c] = i]
<1>2. \A i \in 1..n : s[i] \in Conn /\ pos[s[i]] = i
  BY <1>1
<1>3. s \in [1..n -> Conn] /\ n \in Nat
  BY <1>1
<1> HIDE DEF s
<1>4. s \in Seq(Conn) /\ Len(s) = n
  BY <1>3
<1>5. \A c \in Conn : pos[c] > 0 => s[pos[c]] = c
  <2> SUFFICES ASSUME NEW c \in Conn, pos[c] > 0 PROVE s[pos[c]] = c
    OBVIOUS
  <2>1. pos[c] \in 1..n
    OBVIOUS
  <2>2. s[pos[c]] \in Conn /\ pos[s[pos[c]]] = pos[c]
    BY <1>2, <2>1
  <2> QED
    BY <2>2
<1>6. Lists(s, pos, n)
  BY <1>2, <1>4, <1>5 DEF Lists
<1>7. n <= Cardinality(Conn)
  <2>1. s \in Injection(1..n, Conn)
    <3>1. \A i, j \in 1..n : s[i] = s[j] => i = j
      BY <1>2
    <3> QED
      BY <1>3, <3>1 DEF Injection, IsInjective
  <2>2. Cardinality(1..n) <= Cardinality(Conn)
    BY <2>1, ConnAssumption, FS_Injection
  <2>3. Cardinality(1..n) = n
    BY <1>3, FS_Interval
  <2> QED
    BY <2>2, <2>3
<1> QED
  BY <1>6, <1>7

\* What Chain reads from any cell of the chain on.
LEMMA NumberedIsChain ==
    ASSUME NEW head, NEW next, NEW pos, NEW n, Numbered(head, next, pos, n),
           NEW s, Lists(s, pos, n)
    PROVE  \A k \in 1..(n + 1) :
               Chain(IF k > n THEN NULL ELSE s[k], next) = SubSeq(s, k, n)
<1> TAKE k \in 1..(n + 1)
<1> DEFINE t == SubSeq(s, k, n)
           m == n + 1 - k
           start == IF k > n THEN NULL ELSE s[k]
<1>1. n \in Nat /\ k \in Nat /\ k >= 1 /\ m \in Nat /\ n <= Cardinality(Conn)
  BY NumberedHasList DEF Numbered
<1>2. s \in Seq(Conn) /\ Len(s) = n
  BY DEF Lists
<1>3. t \in Seq(Conn) /\ Len(t) = m /\ \A i \in 1..m : t[i] = s[k + i - 1]
  BY <1>1, <1>2
<1>4. \A i \in k..n : /\ s[i] \in Conn /\ pos[s[i]] = i
                      /\ IF i = n THEN next[s[i]] = NULL
                         ELSE next[s[i]] \in Conn /\ pos[next[s[i]]] = i + 1
  BY <1>1 DEF Numbered, Lists
<1>5. \A i \in k..n : i # n => next[s[i]] = s[i + 1]
  BY <1>1, <1>4 DEF Numbered, Lists
<1>6. start \in Ptr /\ next \in [Conn -> Ptr]
  BY <1>1, <1>4 DEF Ptr, Numbered
<1> HIDE DEF t
<1>7. Len(t) <= Cardinality(Conn)
  <2>1. Cardinality(Conn) \in Nat
    BY ConnAssumption, FS_CardinalityType
  <2> QED
    BY <1>1, <1>3, <2>1
<1>8. \A i \in 1..(Len(t) - 1) : next[t[i]] = t[i + 1]
  <2> SUFFICES ASSUME NEW i \in 1..(m - 1) PROVE next[t[i]] = t[i + 1]
    BY <1>1, <1>3
  <2>1. k + i - 1 \in k..n /\ k + i - 1 # n /\ i \in 1..m /\ i + 1 \in 1..m
    BY <1>1
  <2>2. t[i] = s[k + i - 1] /\ t[i + 1] = s[k + i]
    BY <1>1, <1>3, <2>1
  <2> QED
    BY <1>1, <1>5, <2>1, <2>2
<1>9. IF t = <<>> THEN start = NULL ELSE start = t[1] /\ next[t[Len(t)]] = NULL
  <2>1. CASE k > n
    BY <1>1, <1>3, <2>1
  <2>2. CASE k <= n
    <3>1. t # <<>> /\ Len(t) = m /\ m >= 1 /\ 1 \in 1..m /\ m \in 1..m
      BY <1>1, <1>3, <2>2
    <3>2. t[1] = s[k] /\ t[m] = s[n]
      BY <1>1, <1>3, <3>1
    <3>3. next[s[n]] = NULL
      BY <1>1, <1>4, <2>2
    <3> QED
      BY <1>1, <2>2, <3>1, <3>2, <3>3
  <2> QED
    BY <1>1, <2>1, <2>2
<1> HIDE DEF start
<1>10. Chain(start, next) = t
  BY <1>3, <1>6, <1>7, <1>8, <1>9, ChainIs
<1> QED
  BY <1>10 DEF start, t

LEMMA WholeChain ==
    ASSUME NEW head, NEW next, NEW pos, NEW n, Numbered(head, next, pos, n),
           NEW s, Lists(s, pos, n)
    PROVE  Chain(head, next) = s
<1>1. n \in Nat /\ 1 \in 1..(n + 1)
  BY DEF Numbered
<1>2. Chain(IF 1 > n THEN NULL ELSE s[1], next) = SubSeq(s, 1, n)
  BY <1>1, NumberedIsChain
<1>3. SubSeq(s, 1, n) = s
  BY <1>1 DEF Lists
<1>4. head = IF 1 > n THEN NULL ELSE s[1]
  BY <1>1 DEF Numbered, Lists
<1> QED
  BY <1>2, <1>3, <1>4

-----------------------------------------------------------------------------
(* The sequences the refinement mapping reads off the pointers.            *)

Pending == Chain(active_list_lookup_cursor, active_next)

\* Where the cursor stands: 1 above the last place when it stands nowhere.
CursorPlace ==
    IF active_list_lookup_cursor = NULL THEN len + 1
    ELSE place[active_list_lookup_cursor]

\* The free list numbered from its top, which free_rank numbers from its bottom.
Depth == IF free_list_head = NULL THEN 0 ELSE free_rank[free_list_head]

FreePlace ==
    [c \in Conn |-> IF free_rank[c] = 0 THEN 0 ELSE Depth + 1 - free_rank[c]]

LEMMA ActiveIsNumbered ==
    IInv => Numbered(active_list_head, active_next, place, len)
<1> SUFFICES ASSUME IInv PROVE Numbered(active_list_head, active_next, place, len)
  OBVIOUS
<1>1. /\ active_list_head \in Ptr /\ active_next \in [Conn -> Ptr]
      /\ place \in [Conn -> Nat] /\ len \in Nat
  BY DEF IInv, TypeOK, PoolTypeOK
<1>2. \A c \in Conn : place[c] > 0 =>
          IF place[c] = len THEN active_next[c] = NULL
          ELSE active_next[c] \in Conn /\ place[active_next[c]] = place[c] + 1
  BY <1>1 DEF IInv, ActiveListSound, OnActiveList, Linked, Ptr
<1>3. IF len = 0 THEN active_list_head = NULL
      ELSE active_list_head \in Conn /\ place[active_list_head] = 1
  BY <1>1 DEF IInv, ActiveListSound, EndsAreEnds, Ptr
<1> QED
  BY <1>1, <1>2, <1>3
     DEF Numbered, IInv, ActiveListSound, PlacesNumberTheList, OnActiveList

LEMMA FreePlaces ==
    IInv => /\ Depth \in Nat /\ FreePlace \in [Conn -> Nat]
            /\ \A c \in Conn :
                   /\ free_rank[c] \in Nat /\ free_rank[c] <= Depth
                   /\ FreePlace[c] = IF free_rank[c] = 0 THEN 0
                                     ELSE Depth + 1 - free_rank[c]
                   /\ FreePlace[c] > 0 <=> OnFreeList(c)
<1> SUFFICES ASSUME IInv
             PROVE  /\ Depth \in Nat /\ FreePlace \in [Conn -> Nat]
                    /\ \A c \in Conn :
                           /\ free_rank[c] \in Nat /\ free_rank[c] <= Depth
                           /\ FreePlace[c] = IF free_rank[c] = 0 THEN 0
                                             ELSE Depth + 1 - free_rank[c]
                           /\ FreePlace[c] > 0 <=> OnFreeList(c)
  OBVIOUS
<1>1. /\ free_list_head \in Ptr /\ free_rank \in [Conn -> Nat]
      /\ FreeListWellFormed
  BY DEF IInv, TypeOK, PoolTypeOK, FreeListSound
<1>2. Depth \in Nat /\ \A c \in Conn : free_rank[c] <= Depth
  BY <1>1 DEF Depth, FreeListWellFormed, OnFreeList, Ptr
<1>3. \A c \in Conn : FreePlace[c] = IF free_rank[c] = 0 THEN 0
                                     ELSE Depth + 1 - free_rank[c]
  BY DEF FreePlace
<1>4. FreePlace \in [Conn -> Nat]
  BY <1>1, <1>2 DEF FreePlace
<1> QED
  BY <1>1, <1>2, <1>3, <1>4 DEF OnFreeList

LEMMA FreeIsNumbered ==
    IInv => Numbered(free_list_head, free_next, FreePlace, Depth)
<1> SUFFICES ASSUME IInv PROVE Numbered(free_list_head, free_next, FreePlace, Depth)
  OBVIOUS
<1> USE ConnAssumption
<1>1. /\ free_list_head \in Ptr /\ free_next \in [Conn -> Ptr]
      /\ free_rank \in [Conn -> Nat] /\ FreeListWellFormed
  BY DEF IInv, TypeOK, PoolTypeOK, FreeListSound
<1>2. Depth \in Nat /\ \A c \in Conn : free_rank[c] <= Depth
  BY FreePlaces
<1>3. \A c \in Conn : FreePlace[c] = IF free_rank[c] = 0 THEN 0
                                     ELSE Depth + 1 - free_rank[c]
  BY FreePlaces
<1>4. FreePlace \in [Conn -> Nat]
  BY FreePlaces
<1>5. IF Depth = 0 THEN free_list_head = NULL
      ELSE free_list_head \in Conn /\ FreePlace[free_list_head] = 1
  BY <1>1, <1>2, <1>3 DEF Depth, FreeListWellFormed, OnFreeList, Ptr
<1>6. \A c, d \in Conn : FreePlace[c] > 0 /\ FreePlace[c] = FreePlace[d] => c = d
  BY <1>1, <1>2, <1>3 DEF FreeListWellFormed, OnFreeList
<1>7. ASSUME NEW c \in Conn, FreePlace[c] > 0
      PROVE  IF FreePlace[c] = Depth THEN free_next[c] = NULL
             ELSE /\ free_next[c] \in Conn
                  /\ FreePlace[free_next[c]] = FreePlace[c] + 1
  <2>1. free_rank[c] > 0 /\ (FreePlace[c] = Depth <=> free_rank[c] = 1)
    BY <1>1, <1>2, <1>3, <1>7
  <2>2. IF free_rank[c] = 1 THEN free_next[c] = NULL
        ELSE /\ free_next[c] \in Conn
             /\ free_rank[free_next[c]] = free_rank[c] - 1
    BY <1>1, <2>1 DEF FreeListWellFormed, OnFreeList, Ptr
  <2> QED
    BY <1>1, <1>2, <1>3, <2>1, <2>2
<1>8. \A c \in Conn : FreePlace[c] <= Depth
  BY <1>1, <1>2, <1>3
<1> QED
  BY <1>1, <1>2, <1>4, <1>5, <1>6, <1>7, <1>8 DEF Numbered

LEMMA ActiveListed == IInv => Lists(ActiveList, place, len)
BY ActiveIsNumbered, NumberedHasList, WholeChain DEF ActiveList

LEMMA FreeListed == IInv => Lists(FreeList, FreePlace, Depth)
BY FreeIsNumbered, NumberedHasList, WholeChain DEF FreeList

LEMMA PendingListed ==
    IInv => /\ CursorPlace \in 1..(len + 1) /\ len \in Nat
            /\ Pending = SubSeq(ActiveList, CursorPlace, len)
<1> SUFFICES ASSUME IInv
             PROVE  /\ CursorPlace \in 1..(len + 1) /\ len \in Nat
                    /\ Pending = SubSeq(ActiveList, CursorPlace, len)
  OBVIOUS
<1> DEFINE k == CursorPlace
<1>1. /\ Numbered(active_list_head, active_next, place, len)
      /\ Lists(ActiveList, place, len)
  BY ActiveIsNumbered, ActiveListed
<1>2. active_list_lookup_cursor # NULL =>
          /\ active_list_lookup_cursor \in Conn
          /\ place[active_list_lookup_cursor] > 0
  BY DEF IInv, TypeOK, PoolTypeOK, Ptr, ActiveListSound, OnActiveList
<1>3. k \in 1..(len + 1) /\ len \in Nat
  BY <1>1, <1>2 DEF Numbered, CursorPlace
<1>4. active_list_lookup_cursor = IF k > len THEN NULL ELSE ActiveList[k]
  BY <1>1, <1>2 DEF Numbered, Lists, CursorPlace
<1>5. Chain(IF k > len THEN NULL ELSE ActiveList[k], active_next) = SubSeq(ActiveList, k, len)
  <2>1. \A i \in 1..(len + 1) :
            Chain(IF i > len THEN NULL ELSE ActiveList[i], active_next)
            = SubSeq(ActiveList, i, len)
    BY <1>1, NumberedIsChain
  <2> QED
    BY <1>3, <2>1
<1> QED
  BY <1>3, <1>4, <1>5 DEF Pending

\* Being on a list, told from its sequence.
LEMMA Listed ==
    ASSUME NEW s, NEW pos \in [Conn -> Nat], NEW n \in Nat, Lists(s, pos, n),
           \A d \in Conn : pos[d] <= n, NEW c \in Conn
    PROVE  c \in Abstract!ToSet(s) <=> pos[c] > 0
<1>1. DOMAIN s = 1..n
  BY DEF Lists
<1>2. ASSUME pos[c] > 0 PROVE c \in Abstract!ToSet(s)
  <2>1. pos[c] \in 1..n /\ s[pos[c]] = c
    BY <1>2 DEF Lists
  <2> QED
    BY <1>1, <2>1 DEF Abstract!ToSet
<1>3. ASSUME c \in Abstract!ToSet(s) PROVE pos[c] > 0
  <2>1. PICK i \in 1..n : s[i] = c
    BY <1>1, <1>3 DEF Abstract!ToSet
  <2> QED
    BY <2>1 DEF Lists
<1> QED
  BY <1>2, <1>3

LEMMA AbstractOnLists ==
    ASSUME IInv, NEW c \in Conn
    PROVE  /\ c \in Abstract!ToSet(ActiveList) <=> OnActiveList(c)
           /\ c \in Abstract!Held <=> Held(c)
<1>1. c \in Abstract!ToSet(ActiveList) <=> OnActiveList(c)
  BY ActiveListed, ActiveIsNumbered, Listed DEF Numbered, OnActiveList
<1>2. c \in Abstract!ToSet(FreeList) <=> FreePlace[c] > 0
  BY FreeListed, FreeIsNumbered, Listed DEF Numbered
<1>3. FreePlace[c] > 0 <=> OnFreeList(c)
  BY FreePlaces
<1> QED
  BY <1>1, <1>2, <1>3 DEF Abstract!Held, Held

\* The same in the state a step leads to.
LEMMA AfterStep ==
    IInv' => /\ Numbered(active_list_head', active_next', place', len')
             /\ Numbered(free_list_head', free_next', FreePlace', Depth')
             /\ CursorPlace' \in 1..(len' + 1) /\ len' \in Nat
             /\ Pending' = SubSeq(ActiveList', CursorPlace', len')
<1>1. IInv' => Numbered(active_list_head, active_next, place, len)'
  BY ActiveIsNumbered, PTL
<1>2. IInv' => Numbered(free_list_head, free_next, FreePlace, Depth)'
  BY FreeIsNumbered, PTL
<1>3. IInv' => (/\ CursorPlace \in 1..(len + 1) /\ len \in Nat
                /\ Pending = SubSeq(ActiveList, CursorPlace, len))'
  BY PendingListed, PTL
<1> QED
  BY <1>1, <1>2, <1>3

\* The list after a step is the one sequence that lists its new places.
LEMMA ActiveListIs ==
    ASSUME IInv', NEW s, Lists(s, place', len')
    PROVE  ActiveList' = s
BY AfterStep, WholeChain DEF ActiveList

LEMMA FreeListIs ==
    ASSUME IInv', NEW s, Lists(s, FreePlace', Depth')
    PROVE  FreeList' = s
BY AfterStep, WholeChain DEF FreeList

-----------------------------------------------------------------------------
(* Pieces of sequences, and a sequence with an element taken out, as        *)
(* EraseActive of AbstractPool does.                                       *)

LEMMA Piece ==
    ASSUME NEW s \in Seq(Conn), NEW i \in 1..(Len(s) + 1), NEW j \in (i - 1)..Len(s)
    PROVE  /\ SubSeq(s, i, j) \in Seq(Conn) /\ Len(SubSeq(s, i, j)) = j + 1 - i
           /\ \A m \in 1..(j + 1 - i) : SubSeq(s, i, j)[m] = s[i + m - 1]
OBVIOUS

LEMMA PieceOfAppended ==
    ASSUME NEW s \in Seq(Conn), NEW c \in Conn, NEW k \in 1..Len(s)
    PROVE  SubSeq(Append(s, c), k, Len(s) + 1) = Append(SubSeq(s, k, Len(s)), c)
<1> DEFINE a == SubSeq(s, k, Len(s))
           t == Append(s, c)
           b == SubSeq(t, k, Len(s) + 1)
           m == Len(s) + 1 - k
<1>1. a \in Seq(Conn) /\ Len(a) = m /\ \A i \in 1..m : a[i] = s[k + i - 1]
  BY Piece
<1>2. /\ t \in Seq(Conn) /\ Len(t) = Len(s) + 1 /\ t[Len(s) + 1] = c
      /\ \A i \in 1..Len(s) : t[i] = s[i]
  OBVIOUS
<1> HIDE DEF t
<1>3. b \in Seq(Conn) /\ Len(b) = m + 1 /\ \A i \in 1..(m + 1) : b[i] = t[k + i - 1]
  BY <1>2, Piece
<1>4. m \in Nat /\ m + k = Len(s) + 1 /\ k \in Nat /\ k >= 1
  OBVIOUS
<1> HIDE DEF a, b, m
<1>5. /\ Append(a, c) \in Seq(Conn) /\ Len(Append(a, c)) = m + 1
      /\ Append(a, c)[m + 1] = c /\ \A i \in 1..m : Append(a, c)[i] = a[i]
  BY <1>1, <1>4
<1>6. b[m + 1] = c
  BY <1>2, <1>3, <1>4
<1>7. ASSUME NEW i \in 1..m PROVE b[i] = a[i]
  <2>1. k + i - 1 \in 1..Len(s) /\ i \in 1..(m + 1)
    BY <1>4
  <2> QED
    BY <1>1, <1>2, <1>3, <2>1
<1>8. \A i \in 1..(m + 1) : b[i] = Append(a, c)[i]
  BY <1>4, <1>5, <1>6, <1>7
<1>9. b = Append(a, c)
  BY <1>3, <1>5, <1>8, SeqEqual
<1> QED
  BY <1>9 DEF a, b, t

LEMMA PieceHead ==
    ASSUME NEW s \in Seq(Conn), NEW n \in Nat, n = Len(s), NEW k \in 1..n
    PROVE  /\ SubSeq(s, k, n) # <<>>
           /\ Head(SubSeq(s, k, n)) = s[k]
           /\ Tail(SubSeq(s, k, n)) = SubSeq(s, k + 1, n)
<1> DEFINE a == SubSeq(s, k, n)
           b == SubSeq(s, k + 1, n)
           m == n - k
<1>1. /\ a \in Seq(Conn) /\ Len(a) = m + 1 /\ \A i \in 1..(m + 1) : a[i] = s[k + i - 1]
      /\ b \in Seq(Conn) /\ Len(b) = m /\ \A i \in 1..m : b[i] = s[k + i]
  BY Piece
<1>2. m \in Nat /\ k \in Nat
  OBVIOUS
<1> HIDE DEF a, b, m
<1>3. /\ a # <<>> /\ Head(a) = s[k]
      /\ Tail(a) \in Seq(Conn) /\ Len(Tail(a)) = m
      /\ \A i \in 1..m : Tail(a)[i] = a[i + 1]
  BY <1>1, <1>2
<1>4. \A i \in 1..m : Tail(a)[i] = b[i]
  BY <1>1, <1>2, <1>3
<1>5. Tail(a) = b
  BY <1>1, <1>3, <1>4, SeqEqual
<1> QED
  BY <1>3, <1>5 DEF a, b

LEMMA RemoveAbsent ==
    ASSUME NEW s \in Seq(Conn), NEW c \in Conn, \A i \in 1..Len(s) : s[i] # c
    PROVE  Abstract!RemoveFirst(s, c) = s
BY DEF Abstract!RemoveFirst

LEMMA RemovePresent ==
    ASSUME NEW s \in Seq(Conn), NEW c \in Conn, NEW k \in 1..Len(s), s[k] = c,
           \A i \in 1..Len(s) : s[i] = c => i = k
    PROVE  /\ Abstract!RemoveFirst(s, c) \in Seq(Conn)
           /\ Len(Abstract!RemoveFirst(s, c)) = Len(s) - 1
           /\ \A i \in 1..(Len(s) - 1) :
                  Abstract!RemoveFirst(s, c)[i] = IF i < k THEN s[i] ELSE s[i + 1]
<1>1. {i \in 1..Len(s) : s[i] = c} = {k}
  OBVIOUS
<1>2. Abstract!Min({k}) = k
  BY DEF Abstract!Min
<1>3. Abstract!SelectInSeq(s, LAMBDA v : v = c) = k
  BY <1>1, <1>2 DEF Abstract!SelectInSeq
<1>4. Abstract!RemoveFirst(s, c) = Abstract!RemoveAt(s, k)
  BY <1>3 DEF Abstract!RemoveFirst
<1>5. Abstract!RemoveAt(s, k) = SubSeq(s, 1, k - 1) \o SubSeq(s, k + 1, Len(s))
  BY DEF Abstract!RemoveAt
<1> DEFINE a == SubSeq(s, 1, k - 1)
           b == SubSeq(s, k + 1, Len(s))
<1>6. a \in Seq(Conn) /\ Len(a) = k - 1 /\ \A i \in 1..(k - 1) : a[i] = s[i]
  BY Piece
<1>7. /\ b \in Seq(Conn) /\ Len(b) = Len(s) - k
      /\ \A i \in 1..(Len(s) - k) : b[i] = s[k + i]
  BY Piece
<1> HIDE DEF a, b
<1>8. a \o b \in Seq(Conn) /\ Len(a \o b) = Len(s) - 1
  BY <1>6, <1>7
<1>9. ASSUME NEW i \in 1..(Len(s) - 1)
      PROVE  (a \o b)[i] = IF i < k THEN s[i] ELSE s[i + 1]
  <2>1. CASE i < k
    BY <1>6, <1>7, <2>1
  <2>2. CASE ~(i < k)
    <3>1. i - (k - 1) \in 1..(Len(s) - k)
      BY <2>2
    <3>2. (a \o b)[i] = b[i - (k - 1)]
      BY <1>6, <1>7, <2>2
    <3> QED
      BY <1>7, <2>2, <3>1, <3>2
  <2> QED
    BY <2>1, <2>2
<1> QED
  BY <1>4, <1>5, <1>8, <1>9 DEF a, b

-----------------------------------------------------------------------------
(* Every step of the pool is a step of AbstractPool or leaves it alone.    *)

\* Steps on one list leave the sequences of the other as they are.
LEMMA FreeUnchanged ==
    ASSUME UNCHANGED freeVars
    PROVE  UNCHANGED <<created, FreeList>>
BY DEF freeVars, FreeList

LEMMA ActiveUnchanged ==
    ASSUME UNCHANGED activeVars
    PROVE  UNCHANGED <<ActiveList, Pending>>
BY DEF activeVars, ActiveList, Pending

LEMMA InitRefines == Init => Abstract!Init
<1> SUFFICES ASSUME Init PROVE Abstract!Init
  OBVIOUS
<1>1. IInv
  BY InitIInv
<1>2. len = 0 /\ Depth = 0 /\ CursorPlace = 1
  BY DEF Init, PoolInit, Depth, CursorPlace
<1>3. FreeList = <<>> /\ ActiveList = <<>>
  BY <1>1, <1>2, ActiveListed, FreeListed DEF Lists
<1>4. Pending = <<>>
  BY <1>1, <1>2, <1>3, PendingListed
<1> QED
  BY <1>3, <1>4 DEF Abstract!Init, Init, PoolInit, Pending

LEMMA PushActiveRefines ==
    ASSUME IInv, IInv', NEW c \in Conn, PushActive(c)
    PROVE  Abstract!PushActive(c)
<1> DEFINE s == ActiveList
           p == Pending
           k == CursorPlace
<1>1. /\ c \in Abstract!Held \ Abstract!ToSet(s)
      /\ UNCHANGED <<created, FreeList, got>>
  BY AbstractOnLists, FreeUnchanged DEF PushActive
<1>2. /\ Lists(s, place, len) /\ len \in Nat /\ place \in [Conn -> Nat]
      /\ \A d \in Conn : place[d] <= len
  BY ActiveListed, ActiveIsNumbered DEF Numbered
<1>3. /\ len' = len + 1 /\ place[c] = 0
      /\ \A d \in Conn : place'[d] = IF d = c THEN len + 1 ELSE place[d]
      /\ active_list_lookup_cursor' = active_list_lookup_cursor
  BY <1>2 DEF PushActive, OnActiveList, ActiveListPush
<1> HIDE DEF s
<1>4. Lists(Append(s, c), place', len')
  BY <1>2, <1>3 DEF Lists
<1>5. ActiveList' = Append(s, c)
  BY <1>4, ActiveListIs
<1>6. k \in 1..(len + 1) /\ p = SubSeq(s, k, len)
  BY PendingListed DEF s
<1>7. p' = SubSeq(Append(s, c), CursorPlace', len + 1)
  BY <1>3, <1>5, AfterStep
<1>8. p' = IF p = <<>> THEN <<>> ELSE Append(p, c)
  <2>1. CASE active_list_lookup_cursor = NULL
    <3>1. k = len + 1 /\ CursorPlace' = len + 2
      BY <1>2, <1>3, <2>1, ConnAssumption DEF CursorPlace
    <3>2. p = <<>> /\ p' = <<>>
      BY <1>2, <1>6, <1>7, <3>1 DEF Lists
    <3> QED
      BY <3>2
  <2>2. CASE active_list_lookup_cursor # NULL
    <3>1. active_list_lookup_cursor \in Conn /\ place[active_list_lookup_cursor] > 0
      BY <2>2 DEF IInv, TypeOK, PoolTypeOK, Ptr, ActiveListSound, OnActiveList
    <3>2. k <= len /\ CursorPlace' = k
      BY <1>2, <1>3, <2>2, <3>1 DEF CursorPlace
    <3>3. SubSeq(Append(s, c), k, len + 1) = Append(SubSeq(s, k, len), c)
      <4>1. s \in Seq(Conn) /\ Len(s) = len /\ k \in 1..Len(s)
        BY <1>2, <1>6, <3>2 DEF Lists
      <4> HIDE DEF k
      <4> QED
        BY <4>1, PieceOfAppended
    <3>4. SubSeq(s, k, len) # <<>>
      BY <1>2, <1>6, <3>2 DEF Lists
    <3> HIDE DEF p, k
    <3> QED
      BY <1>6, <1>7, <3>2, <3>3, <3>4
  <2> QED
    BY <2>1, <2>2
<1> QED
  BY <1>1, <1>5, <1>8 DEF Abstract!PushActive, Pending, s

LEMMA EraseActiveRefines ==
    ASSUME IInv, IInv', NEW c \in Conn, EraseActive(c)
    PROVE  Abstract!EraseActive(c)
<1> DEFINE s == ActiveList
           p == Pending
           k == CursorPlace
           h == place[c]
           r == Abstract!RemoveFirst(s, c)
<1>1. /\ c \in Abstract!ToSet(s)
      /\ UNCHANGED <<created, FreeList, got>>
  BY AbstractOnLists, FreeUnchanged DEF EraseActive
<1>2. /\ Lists(s, place, len) /\ len \in Nat /\ place \in [Conn -> Nat]
      /\ \A d \in Conn : place[d] <= len
      /\ \A d, e \in Conn : place[d] > 0 /\ place[d] = place[e] => d = e
      /\ IF h = len THEN active_next[c] = NULL
         ELSE active_next[c] \in Conn /\ place[active_next[c]] = h + 1
      /\ h \in 1..len /\ s[h] = c
  BY ActiveListed, ActiveIsNumbered DEF Numbered, Lists, EraseActive, OnActiveList
<1>3. /\ len' = len - 1
      /\ \A d \in Conn : place'[d] = IF d = c THEN 0
                                     ELSE IF place[d] > h THEN place[d] - 1
                                     ELSE place[d]
      /\ active_list_lookup_cursor' = IF c = active_list_lookup_cursor
                                      THEN active_next[c] ELSE active_list_lookup_cursor
  BY DEF EraseActive, ActiveListErase
<1> HIDE DEF s, r, h
<1>4. /\ s \in Seq(Conn) /\ Len(s) = len
      /\ \A i \in 1..len : s[i] \in Conn /\ place[s[i]] = i
      /\ \A i \in 1..len : s[i] = c => i = h
      /\ \A d \in Conn : place[d] > 0 => s[place[d]] = d
  BY <1>2 DEF Lists, h
<1>5. /\ r \in Seq(Conn) /\ Len(r) = len - 1
      /\ \A i \in 1..(len - 1) : r[i] = IF i < h THEN s[i] ELSE s[i + 1]
  <2>1. h \in 1..Len(s) /\ s[h] = c /\ \A i \in 1..Len(s) : s[i] = c => i = h
    BY <1>2, <1>4
  <2>2. /\ r \in Seq(Conn) /\ Len(r) = Len(s) - 1
        /\ \A i \in 1..(Len(s) - 1) : r[i] = IF i < h THEN s[i] ELSE s[i + 1]
    BY <1>4, <2>1, RemovePresent DEF r
  <2> QED
    BY <1>4, <2>2
<1>6. Lists(r, place', len')
  <2>1. ASSUME NEW i \in 1..(len - 1) PROVE r[i] \in Conn /\ place'[r[i]] = i
    <3>1. CASE i < h
      BY <1>2, <1>3, <1>4, <1>5, <3>1
    <3>2. CASE ~(i < h)
      <4>1. i + 1 \in 1..len /\ i + 1 # h /\ i + 1 > h
        BY <1>2, <3>2
      <4>2. r[i] = s[i + 1] /\ s[i + 1] # c
        BY <1>4, <1>5, <3>2, <4>1
      <4> QED
        BY <1>2, <1>3, <1>4, <4>1, <4>2
    <3> QED
      BY <3>1, <3>2
  <2>2. ASSUME NEW d \in Conn, place'[d] > 0 PROVE r[place'[d]] = d
    <3>1. d # c /\ place[d] > 0 /\ place[d] # h /\ s[place[d]] = d
      BY <1>2, <1>3, <1>4, <2>2 DEF h
    <3>2. place'[d] \in 1..(len - 1)
      BY <1>2, <1>3, <3>1
    <3> QED
      BY <1>2, <1>3, <1>5, <3>1, <3>2
  <2> QED
    BY <1>3, <1>5, <2>1, <2>2 DEF Lists
<1>7. ActiveList' = r
  BY <1>6, ActiveListIs
<1>8. k \in 1..(len + 1) /\ p = SubSeq(s, k, len)
  BY PendingListed DEF s
<1>9. CursorPlace' \in 1..len /\ p' = SubSeq(r, CursorPlace', len - 1)
  BY <1>2, <1>3, <1>7, AfterStep
<1>10. CursorPlace' = IF k <= h THEN k ELSE k - 1
  <2>1. CASE active_list_lookup_cursor = NULL
    BY <1>2, <1>3, <2>1, ConnAssumption DEF CursorPlace
  <2>2. CASE active_list_lookup_cursor = c
    BY <1>2, <1>3, <2>2, ConnAssumption DEF CursorPlace, h
  <2>3. CASE active_list_lookup_cursor \notin {NULL, c}
    <3>1. active_list_lookup_cursor \in Conn
      BY <2>3 DEF IInv, TypeOK, PoolTypeOK, Ptr
    <3>2. place[active_list_lookup_cursor] # h
      BY <1>2, <2>3, <3>1 DEF h
    <3> QED
      BY <1>2, <1>3, <2>3, <3>1, <3>2 DEF CursorPlace
  <2> QED
    BY <2>1, <2>2, <2>3
<1> HIDE DEF k, p
<1>11. p \in Seq(Conn) /\ Len(p) = len + 1 - k
       /\ \A i \in 1..(len + 1 - k) : p[i] = s[k + i - 1]
  BY <1>2, <1>4, <1>8
<1>12. p' = Abstract!RemoveFirst(p, c)
  <2>1. CASE k <= h
    <3> DEFINE g == h + 1 - k
               q == Abstract!RemoveFirst(p, c)
    <3>1. g \in 1..Len(p) /\ p[g] = c /\ \A i \in 1..Len(p) : p[i] = c => i = g
      BY <1>2, <1>4, <1>8, <1>11, <2>1
    <3>2. /\ q \in Seq(Conn) /\ Len(q) = len - k
          /\ \A i \in 1..(len - k) : q[i] = IF i < g THEN p[i] ELSE p[i + 1]
      <4>1. Len(p) - 1 = len - k
        BY <1>2, <1>8, <1>11
      <4> HIDE DEF g
      <4>2. /\ q \in Seq(Conn) /\ Len(q) = Len(p) - 1
            /\ \A i \in 1..(Len(p) - 1) : q[i] = IF i < g THEN p[i] ELSE p[i + 1]
        BY <1>11, <3>1, RemovePresent
      <4> QED
        BY <4>1, <4>2
    <3>3. /\ p' \in Seq(Conn) /\ Len(p') = len - k
          /\ \A i \in 1..(len - k) : p'[i] = r[k + i - 1]
      BY <1>2, <1>5, <1>8, <1>9, <1>10, <2>1, Piece
    <3> HIDE DEF q
    <3>4. ASSUME NEW i \in 1..(len - k) PROVE q[i] = p'[i]
      <4>1. /\ i \in 1..(len + 1 - k) /\ i + 1 \in 1..(len + 1 - k)
            /\ k + i - 1 \in 1..(len - 1) /\ (i < g <=> k + i - 1 < h)
        BY <1>2, <1>8
      <4>2. p[i] = s[k + i - 1] /\ p[i + 1] = s[k + i]
        BY <1>2, <1>8, <1>11, <4>1
      <4>3. p'[i] = IF k + i - 1 < h THEN s[k + i - 1] ELSE s[k + i]
        BY <1>2, <1>5, <1>8, <3>3, <4>1
      <4> QED
        BY <3>2, <4>1, <4>2, <4>3
    <3>5. q = p'
      BY <3>2, <3>3, <3>4, SeqEqual
    <3> QED
      BY <3>1, <3>5 DEF q
  <2>2. CASE ~(k <= h)
    <3>1. \A i \in 1..Len(p) : p[i] # c
      BY <1>2, <1>4, <1>8, <1>11, <2>2
    <3>2. Abstract!RemoveFirst(p, c) = p
      BY <1>11, <3>1, RemoveAbsent
    <3>3. /\ p' \in Seq(Conn) /\ Len(p') = len + 1 - k
          /\ \A i \in 1..(len + 1 - k) : p'[i] = r[k + i - 2]
      BY <1>2, <1>5, <1>8, <1>9, <1>10, <2>2, Piece
    <3>4. ASSUME NEW i \in 1..(len + 1 - k) PROVE p'[i] = p[i]
      <4>1. k + i - 2 \in 1..(len - 1) /\ ~(k + i - 2 < h)
        BY <1>2, <1>8, <2>2
      <4>2. r[k + i - 2] = s[k + i - 1]
        <5>1. \A j \in 1..(len - 1) : ~(j < h) => r[j] = s[j + 1]
          BY <1>5
        <5>2. (k + i - 2) + 1 = k + i - 1
          BY <1>2, <1>8
        <5> QED
          BY <4>1, <5>1, <5>2
      <4>3. p[i] = s[k + i - 1]
        BY <1>11
      <4> QED
        BY <3>3, <4>2, <4>3
    <3>5. p' = p
      BY <1>11, <3>3, <3>4, SeqEqual
    <3> QED
      BY <3>2, <3>5
  <2> QED
    BY <2>1, <2>2
<1> QED
  BY <1>1, <1>7, <1>12 DEF Abstract!EraseActive, Pending, s, r, p

LEMMA CursorRefines ==
    ASSUME IInv, IInv'
    PROVE  /\ StartSweep => Abstract!StartSweep
           /\ Visit => Abstract!Visit
<1>1. ASSUME StartSweep PROVE Abstract!StartSweep
  <2>1. /\ UNCHANGED <<created, FreeList, got, ActiveList>>
        /\ Pending' = ActiveList
    BY <1>1, FreeUnchanged
       DEF StartSweep, ActiveListTimeoutCheck, ActiveList, Pending
  <2> QED
    BY <2>1 DEF Abstract!StartSweep, Pending
<1>2. ASSUME Visit PROVE Abstract!Visit
  <2> DEFINE s == ActiveList
             k == CursorPlace
             cur == active_list_lookup_cursor
  <2>1. /\ UNCHANGED <<created, FreeList, ActiveList>> /\ UNCHANGED <<place, len>>
        /\ cur' = IF cur = NULL THEN NULL ELSE active_next[cur]
        /\ got' = cur
    BY <1>2, FreeUnchanged DEF Visit, ActiveListCheckNext, ActiveList
  <2>2. /\ Lists(s, place, len) /\ len \in Nat /\ place \in [Conn -> Nat]
        /\ \A d \in Conn : place[d] <= len
        /\ \A d \in Conn : place[d] > 0 =>
               IF place[d] = len THEN active_next[d] = NULL
               ELSE active_next[d] \in Conn /\ place[active_next[d]] = place[d] + 1
    BY ActiveListed, ActiveIsNumbered DEF Numbered
  <2>3. k \in 1..(len + 1) /\ Pending = SubSeq(s, k, len)
    BY PendingListed
  <2>4. Pending' = SubSeq(s, CursorPlace', len)
    BY <2>1, AfterStep
  <2> HIDE DEF s
  <2>5. s \in Seq(Conn) /\ Len(s) = len
    BY <2>2 DEF Lists
  <2>6. CASE cur = NULL
    <3>1. k = len + 1 /\ CursorPlace' = len + 1
      BY <2>1, <2>6 DEF CursorPlace
    <3>2. Pending = <<>> /\ Pending' = <<>>
      BY <2>2, <2>3, <2>4, <2>5, <3>1
    <3> QED
      BY <2>1, <2>6, <3>2 DEF Abstract!Visit, Pending
  <2>7. CASE cur # NULL
    <3>1. cur \in Conn /\ place[cur] > 0
      BY <2>7 DEF IInv, TypeOK, PoolTypeOK, Ptr, ActiveListSound, OnActiveList
    <3>2. k \in 1..len /\ s[k] = cur
      BY <2>2, <2>3, <2>7, <3>1 DEF CursorPlace, Lists
    <3>3. CursorPlace' = k + 1
      BY <2>1, <2>2, <2>7, <3>1, ConnAssumption DEF CursorPlace
    <3> HIDE DEF k
    <3>4. /\ Pending # <<>> /\ Head(Pending) = s[k]
          /\ Tail(Pending) = SubSeq(s, k + 1, len)
      BY <2>2, <2>3, <2>5, <3>2, PieceHead
    <3>5. got' = Head(Pending) /\ Pending' = Tail(Pending)
      BY <2>1, <2>4, <3>2, <3>3, <3>4
    <3> QED
      BY <2>1, <3>4, <3>5 DEF Abstract!Visit, Pending
  <2> QED
    BY <2>6, <2>7
<1> QED
  BY <1>1, <1>2

LEMMA PushFreeRefines ==
    ASSUME IInv, IInv', NEW c \in Conn, PushFree(c)
    PROVE  Abstract!PushFree(c)
<1> DEFINE f == FreeList
           g == <<c>> \o f
<1>1. /\ c \in Abstract!Held
      /\ UNCHANGED <<created, ActiveList, Pending, got>>
  BY AbstractOnLists, ActiveUnchanged DEF PushFree, FreeListPush
<1>2. /\ Lists(f, FreePlace, Depth) /\ Depth \in Nat
      /\ \A d \in Conn : /\ free_rank[d] \in Nat /\ free_rank[d] <= Depth
                         /\ FreePlace[d] = IF free_rank[d] = 0 THEN 0
                                           ELSE Depth + 1 - free_rank[d]
  BY FreeListed, FreePlaces
<1>3. free_rank[c] = 0
  BY <1>2 DEF PushFree, Held, OnFreeList
<1>4. /\ free_list_head' = c
      /\ \A d \in Conn : free_rank'[d] = IF d = c THEN Depth + 1 ELSE free_rank[d]
  BY DEF PushFree, FreeListPush, Depth, IInv, TypeOK, PoolTypeOK
<1>5. Depth' = Depth + 1
  BY <1>4, ConnAssumption DEF Depth
<1>6. \A d \in Conn : FreePlace'[d] = IF free_rank'[d] = 0 THEN 0
                                      ELSE Depth' + 1 - free_rank'[d]
  BY DEF FreePlace
<1>7. \A d \in Conn : FreePlace'[d] = IF d = c THEN 1
                                      ELSE IF FreePlace[d] = 0 THEN 0
                                      ELSE FreePlace[d] + 1
  BY <1>2, <1>4, <1>5, <1>6
<1>8. /\ f \in Seq(Conn) /\ Len(f) = Depth
      /\ \A i \in 1..Depth : f[i] \in Conn /\ FreePlace[f[i]] = i
      /\ \A d \in Conn : FreePlace[d] > 0 => f[FreePlace[d]] = d
  BY <1>2 DEF Lists
<1> HIDE DEF f
<1>9. /\ g \in Seq(Conn) /\ Len(g) = Depth + 1 /\ g[1] = c
      /\ \A i \in 2..(Depth + 1) : g[i] = f[i - 1]
  BY <1>2, <1>8
<1> HIDE DEF g
<1>10. ASSUME NEW i \in 1..(Depth + 1) PROVE g[i] \in Conn /\ FreePlace'[g[i]] = i
  <2>1. CASE i = 1
    BY <1>7, <1>9, <2>1
  <2>2. CASE i # 1
    <3>1. i - 1 \in 1..Depth /\ g[i] = f[i - 1]
      BY <1>2, <1>9, <2>2
    <3>2. FreePlace[f[i - 1]] = i - 1 /\ f[i - 1] # c
      BY <1>2, <1>3, <1>8, <3>1
    <3> QED
      BY <1>7, <1>8, <3>1, <3>2
  <2> QED
    BY <2>1, <2>2
<1>11. ASSUME NEW d \in Conn, FreePlace'[d] > 0 PROVE g[FreePlace'[d]] = d
  <2>1. CASE d = c
    BY <1>7, <1>9, <2>1
  <2>2. CASE d # c
    <3>1. FreePlace[d] > 0 /\ FreePlace[d] \in 1..Depth /\ FreePlace'[d] = FreePlace[d] + 1
      BY <1>2, <1>7, <1>11, <2>2
    <3> QED
      BY <1>2, <1>8, <1>9, <3>1
  <2> QED
    BY <2>1, <2>2
<1>12. FreeList' = g
  BY <1>5, <1>9, <1>10, <1>11, FreeListIs DEF Lists
<1> QED
  BY <1>1, <1>12 DEF Abstract!PushFree, Pending, f, g

LEMMA PopRefines ==
    ASSUME IInv, IInv', Pop
    PROVE  Abstract!Pop
<1> DEFINE f == FreeList
           g == Tail(f)
<1>1. UNCHANGED <<ActiveList, Pending>>
  BY ActiveUnchanged DEF Pop
<1>2. /\ Lists(f, FreePlace, Depth) /\ Depth \in Nat
      /\ \A d \in Conn : /\ free_rank[d] \in Nat /\ free_rank[d] <= Depth
                         /\ FreePlace[d] = IF free_rank[d] = 0 THEN 0
                                           ELSE Depth + 1 - free_rank[d]
  BY FreeListed, FreePlaces
<1>3. /\ f \in Seq(Conn) /\ Len(f) = Depth
      /\ \A i \in 1..Depth : f[i] \in Conn /\ FreePlace[f[i]] = i
      /\ \A d \in Conn : FreePlace[d] > 0 => f[FreePlace[d]] = d
  BY <1>2 DEF Lists
<1>4. /\ FreeListWellFormed /\ created \in SUBSET Conn
      /\ count = Cardinality(created) /\ count \in Nat /\ count <= MaxConn + 1
      /\ free_list_head \in Ptr /\ free_next \in [Conn -> Ptr]
      /\ free_rank \in [Conn -> Nat]
  BY DEF IInv, FreeListSound, TypeOK, PoolTypeOK
<1>5. free_list_head = NULL => f = <<>>
  BY <1>2, <1>3 DEF Depth
<1> HIDE DEF f
<1>6. ASSUME NEW c \in Conn, FreeListPopReuse(c), got' = c
      PROVE  Abstract!Pop
  <2>1. /\ c # NULL /\ c = free_list_head /\ free_list_head' = free_next[c]
        /\ \A d \in Conn : free_rank'[d] = IF d = c THEN 0 ELSE free_rank[d]
        /\ created' = created
    BY <1>4, <1>6 DEF FreeListPopReuse
  <2>2. free_rank[c] = Depth /\ Depth > 0
    BY <1>2, <1>4, <2>1 DEF Depth, FreeListWellFormed, OnFreeList
  <2>3. \A d \in Conn : free_rank[d] = Depth => d = c
    BY <1>4, <2>1, <2>2 DEF FreeListWellFormed, OnFreeList
  <2>4. IF Depth = 1 THEN free_next[c] = NULL
        ELSE /\ free_next[c] \in Conn
             /\ free_rank[free_next[c]] = Depth - 1 /\ free_next[c] # c
    BY <1>2, <1>4, <2>1, <2>2 DEF FreeListWellFormed, OnFreeList, Ptr
  <2>5. Depth' = Depth - 1
    BY <1>2, <2>1, <2>2, <2>4, ConnAssumption DEF Depth
  <2>6. \A d \in Conn : FreePlace'[d] = IF free_rank'[d] = 0 THEN 0
                                        ELSE Depth' + 1 - free_rank'[d]
    BY DEF FreePlace
  <2>7. /\ FreePlace[c] = 1
        /\ \A d \in Conn : FreePlace'[d] = IF FreePlace[d] = 0 THEN 0
                                           ELSE FreePlace[d] - 1
    BY <1>2, <2>1, <2>2, <2>3, <2>5, <2>6
  <2>8. /\ f # <<>> /\ Head(f) = c /\ g \in Seq(Conn) /\ Len(g) = Depth - 1
        /\ \A i \in 1..(Depth - 1) : g[i] = f[i + 1]
    BY <1>2, <1>3, <2>2, <2>7
  <2> HIDE DEF g
  <2>9. ASSUME NEW i \in 1..(Depth - 1) PROVE g[i] \in Conn /\ FreePlace'[g[i]] = i
    <3>1. i + 1 \in 1..Depth /\ g[i] = f[i + 1]
      BY <1>2, <2>8
    <3> QED
      BY <1>3, <2>7, <3>1
  <2>10. ASSUME NEW d \in Conn, FreePlace'[d] > 0 PROVE g[FreePlace'[d]] = d
    <3>1. FreePlace[d] > 1 /\ FreePlace[d] \in 1..Depth /\ FreePlace'[d] = FreePlace[d] - 1
      BY <1>2, <2>7, <2>10
    <3>2. f[FreePlace[d]] = d
      BY <1>3, <3>1
    <3> QED
      BY <1>2, <2>8, <3>1, <3>2
  <2>11. FreeList' = g
    BY <2>5, <2>8, <2>9, <2>10, FreeListIs DEF Lists
  <2> QED
    BY <1>1, <1>6, <2>1, <2>8, <2>11 DEF Abstract!Pop, Pending, f, g
<1>7. ASSUME NEW c \in Conn, FreeListPopNew(c), got' = c
      PROVE  Abstract!Pop
  <2>1. /\ f = <<>> /\ c \in Conn \ created /\ created' = created \cup {c}
        /\ FreeList' = f
    BY <1>5, <1>7 DEF FreeListPopNew, FreeList, f
  <2>2. Cardinality(created) < MaxConn + 1
    BY <1>4, <1>7, MaxConnAssumption DEF FreeListPopNew
  <2> QED
    BY <1>1, <1>7, <2>1, <2>2
       DEF Abstract!Pop, Abstract!Cardinality, Cardinality, Pending, f
<1>8. ASSUME FreeListPopFull, got' = NULL
      PROVE  Abstract!Pop
  <2>1. f = <<>> /\ UNCHANGED <<created, FreeList>>
    BY <1>5, <1>8, FreeUnchanged DEF FreeListPopFull
  <2>2. Cardinality(created) = MaxConn + 1
    BY <1>4, <1>8, MaxConnAssumption DEF FreeListPopFull
  <2> QED
    BY <1>1, <1>8, <2>1, <2>2
       DEF Abstract!Pop, Abstract!Cardinality, Cardinality, Pending, f
<1> QED
  BY <1>6, <1>7, <1>8 DEF Pop

LEMMA StepRefines ==
    ASSUME IInv, IInv', [Next]_vars
    PROVE  [Abstract!Next]_(Abstract!vars)
<1>1. CASE UNCHANGED vars
  BY <1>1, FreeUnchanged, ActiveUnchanged DEF vars, Abstract!vars, Pending
<1>2. CASE Next
  BY <1>2, PopRefines, PushFreeRefines, PushActiveRefines, EraseActiveRefines,
     CursorRefines DEF Next, Abstract!Next
<1> QED
  BY <1>1, <1>2

\* Under its discipline the pool does what AbstractPool says, pointers and
\* all: connections come back last in first out, no more than MaxConn + 1 are
\* made, the list in use is ordered by last activity, and a sweep visits in
\* that order whatever is not erased before it gets there.
THEOREM PoolImplementsAbstract == Spec => ImplementsAbstractPool
<1>1. Init => Abstract!Init
  BY InitRefines
<1>2. IInv /\ IInv' /\ [Next]_vars => [Abstract!Next]_(Abstract!vars)
  BY StepRefines
<1> QED
  BY <1>1, <1>2, PoolInvariant, PTL DEF Spec, ImplementsAbstractPool, Abstract!Spec
=============================================================================
