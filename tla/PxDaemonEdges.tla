---------------------------- MODULE PxDaemonEdges ----------------------------
(***************************************************************************)
(* The edges of PxDaemon: deps and dependedBy mirror each other, a service *)
(* that is down holds none, and the lists that a call walks by reference   *)
(* do not change under it.  For any instance in which                      *)
(*   - no service needs itself through its Depend and After lines, and     *)
(*   - what an IgnoreShutdown service needs ignores the shutdown too.      *)
(* Otherwise a service can be started again in the middle of its own       *)
(* finishStop(), and then none of the three is true.                       *)
(***************************************************************************)
EXTENDS PxDaemonProofs, FiniteSetTheorems

(* Counting in sequences.                                                  *)

\* The places of q that hold a member of S, and how many there are.
Places(q, S) == {i \in DOMAIN q : q[i] \in S}
Count(q, S) == Cardinality(Places(q, S))

\* The same from place i on, for a list that is being walked.
RestPlaces(q, i, S) == {j \in i..Len(q) : q[j] \in S}
Rest(q, i, S) == Cardinality(RestPlaces(q, i, S))

\* There are finitely many, and none only if no place holds a member.
LEMMA CountIsNat ==
  ASSUME NEW E, NEW q \in Seq(E), NEW S
  PROVE  /\ IsFiniteSet(Places(q, S)) /\ Count(q, S) \in Nat
         /\ Count(q, S) = 0 <=> \A i \in DOMAIN q : q[i] \notin S
<1>1. IsFiniteSet(1..Len(q)) /\ DOMAIN q = 1..Len(q)
  BY FS_Interval
<1>2. IsFiniteSet(Places(q, S))
  BY <1>1, FS_Subset DEF Places
<1>3. Count(q, S) \in Nat
  BY <1>2, FS_CardinalityType DEF Count
<1>4. Count(q, S) = 0 <=> Places(q, S) = {}
  BY <1>2, FS_EmptySet DEF Count
<1>5. QED
  BY <1>2, <1>3, <1>4 DEF Places

\* An empty list holds nothing.
LEMMA CountEmpty ==
  ASSUME NEW S
  PROVE  Count(<<>>, S) = 0
<1>1. Places(<<>>, S) = {}
  BY DEF Places
<1>2. QED
  BY <1>1, FS_EmptySet DEF Count

\* An element is appended.
LEMMA CountAppend ==
  ASSUME NEW E, NEW q \in Seq(E), NEW e \in E, NEW S
  PROVE  Count(Append(q, e), S) = IF e \in S THEN Count(q, S) + 1 ELSE Count(q, S)
<1> DEFINE r == Append(q, e)
           n == Len(q) + 1
<1>1. /\ n \in Nat /\ DOMAIN q = 1..Len(q) /\ DOMAIN r = DOMAIN q \union {n}
      /\ n \notin DOMAIN q
      /\ \A i \in DOMAIN q : r[i] = q[i]
      /\ r[n] = e
  OBVIOUS
<1>2. IsFiniteSet(Places(q, S))
  BY CountIsNat
<1> HIDE DEF r, n
<1>3. CASE e \in S
  <2>1. Places(r, S) = Places(q, S) \union {n} /\ n \notin Places(q, S)
    BY <1>1, <1>3 DEF Places
  <2>2. QED
    BY <1>2, <1>3, <2>1, FS_AddElement DEF Count, r
<1>4. CASE e \notin S
  <2>1. Places(r, S) = Places(q, S)
    BY <1>1, <1>4 DEF Places
  <2>2. QED
    BY <1>4, <2>1 DEF Count, r
<1>5. QED
  BY <1>3, <1>4

\* What is left when the element at place n is taken out.
LEMMA RemoveAtPlaces ==
  ASSUME NEW E, NEW q \in Seq(E), NEW n \in 1..Len(q)
  PROVE  /\ RemoveAt(q, n) \in Seq(E)
         /\ DOMAIN RemoveAt(q, n) = 1..(Len(q) - 1)
         /\ \A i \in 1..(Len(q) - 1) :
              RemoveAt(q, n)[i] = IF i < n THEN q[i] ELSE q[i + 1]
<1> DEFINE a == SubSeq(q, 1, n - 1)
           b == SubSeq(q, n + 1, Len(q))
<1>1. /\ a \in Seq(E) /\ Len(a) = n - 1 /\ \A i \in 1..(n - 1) : a[i] = q[i]
  OBVIOUS
<1>2. /\ b \in Seq(E) /\ Len(b) = Len(q) - n
      /\ \A i \in 1..(Len(q) - n) : b[i] = q[i + n]
  OBVIOUS
<1>3. RemoveAt(q, n) = a \o b
  BY DEF RemoveAt
<1> HIDE DEF a, b
<1>4. /\ a \o b \in Seq(E) /\ Len(a \o b) = Len(q) - 1
      /\ \A i \in 1..(Len(q) - 1) :
           (a \o b)[i] = IF i <= n - 1 THEN a[i] ELSE b[i - (n - 1)]
  BY <1>1, <1>2, ConcatProperties
<1>5. Len(q) \in Nat /\ n \in Nat /\ n >= 1 /\ n <= Len(q)
  OBVIOUS
<1>6. ASSUME NEW i \in 1..(Len(q) - 1)
      PROVE  (a \o b)[i] = IF i < n THEN q[i] ELSE q[i + 1]
  <2>1. CASE i < n
    BY <1>1, <1>4, <1>5, <2>1
  <2>2. CASE ~(i < n)
    <3>1. i - (n - 1) \in 1..(Len(q) - n) /\ (i - (n - 1)) + n = i + 1
      BY <1>5, <2>2
    <3>2. b[i - (n - 1)] = q[i + 1]
      BY <1>2, <3>1
    <3>3. ~(i <= n - 1)
      BY <1>5, <2>2
    <3>4. QED
      BY <1>4, <2>2, <3>2, <3>3, Zenon
  <2>3. QED
    BY <2>1, <2>2
<1>7. DOMAIN (a \o b) = 1..(Len(q) - 1)
  BY <1>4
<1>8. QED
  BY <1>3, <1>4, <1>6, <1>7

\* An element is taken out.
LEMMA CountRemoveAt ==
  ASSUME NEW E, NEW q \in Seq(E), NEW n \in 1..Len(q), NEW S
  PROVE  Count(RemoveAt(q, n), S) = IF q[n] \in S THEN Count(q, S) - 1 ELSE Count(q, S)
<1> DEFINE r == RemoveAt(q, n)
           P == Places(q, S) \ {n}
           Q == Places(r, S)
           f == [i \in P |-> IF i < n THEN i ELSE i - 1]
<1>1. /\ r \in Seq(E) /\ DOMAIN r = 1..(Len(q) - 1)
      /\ \A i \in 1..(Len(q) - 1) : r[i] = IF i < n THEN q[i] ELSE q[i + 1]
  BY RemoveAtPlaces
<1>2. Len(q) \in Nat /\ n \in Nat /\ n >= 1 /\ n <= Len(q) /\ DOMAIN q = 1..Len(q)
  OBVIOUS
<1> HIDE DEF r
<1>3. \A i \in P : i \in 1..Len(q) /\ i # n /\ q[i] \in S
  BY <1>2 DEF Places
<1>4. ASSUME NEW i \in P PROVE f[i] \in Q
  <2>1. CASE i < n
    <3>1. i \in 1..(Len(q) - 1) /\ r[i] = q[i]
      BY <1>1, <1>2, <1>3, <2>1
    <3>2. QED
      BY <1>1, <1>3, <2>1, <3>1 DEF Places
  <2>2. CASE ~(i < n)
    <3>1. i - 1 \in 1..(Len(q) - 1) /\ ~(i - 1 < n) /\ (i - 1) + 1 = i
      BY <1>2, <1>3, <2>2
    <3>2. r[i - 1] = q[i]
      BY <1>1, <3>1
    <3>3. QED
      BY <1>1, <1>3, <2>2, <3>1, <3>2 DEF Places
  <2>3. QED
    BY <2>1, <2>2
<1>5. ASSUME NEW i \in P, NEW j \in P, f[i] = f[j] PROVE i = j
  <2>1. i \in Nat /\ j \in Nat /\ i # n /\ j # n
    BY <1>2, <1>3
  <2>2. (IF i < n THEN i ELSE i - 1) = (IF j < n THEN j ELSE j - 1)
    BY <1>5
  <2> HIDE DEF P, f
  <2>3. QED
    BY <1>2, <2>1, <2>2
<1>6. ASSUME NEW j \in Q PROVE \E i \in P : f[i] = j
  <2>1. j \in 1..(Len(q) - 1) /\ r[j] \in S
    BY <1>1 DEF Places
  <2>2. CASE j < n
    <3>1. j \in P
      BY <1>1, <1>2, <2>1, <2>2 DEF Places
    <3>2. QED
      BY <2>2, <3>1
  <2>3. CASE ~(j < n)
    <3>1. q[j + 1] \in S /\ j + 1 \in 1..Len(q) /\ j + 1 # n /\ ~(j + 1 < n) /\ (j + 1) - 1 = j
      BY <1>1, <1>2, <2>1, <2>3
    <3>2. j + 1 \in P
      BY <1>2, <3>1 DEF Places
    <3>3. QED
      BY <3>1, <3>2
  <2>4. QED
    BY <2>2, <2>3
<1>7. f \in Bijection(P, Q)
  <2>1. f \in [P -> Q]
    BY <1>4
  <2> HIDE DEF f, P, Q
  <2>2. QED
    BY <1>5, <1>6, <2>1 DEF Bijection, Injection, Surjection, IsInjective
<1>8. /\ IsFiniteSet(P)
      /\ Cardinality(P) = IF q[n] \in S THEN Count(q, S) - 1 ELSE Count(q, S)
  <2>1. IsFiniteSet(Places(q, S))
    BY CountIsNat
  <2>2. n \in Places(q, S) <=> q[n] \in S
    BY <1>2 DEF Places
  <2>3. QED
    BY <2>1, <2>2, FS_RemoveElement DEF Count
<1>9. Cardinality(Q) = Cardinality(P)
  <2> HIDE DEF f, P, Q
  <2>1. QED
    BY <1>7, <1>8, FS_Bijection DEF ExistsBijection
<1>10. QED
  BY <1>8, <1>9 DEF Count, r

\* The first element equal to e is taken out (DropEdge).
LEMMA CountRemoveFirst ==
  ASSUME NEW E, NEW q \in Seq(E), NEW e, NEW S
  PROVE  Count(RemoveFirst(q, e), S)
           = IF e \in S /\ (\E i \in DOMAIN q : q[i] = e) THEN Count(q, S) - 1
                                                        ELSE Count(q, S)
<1> DEFINE I == {i \in 1..Len(q) : q[i] = e}
<1>1. DOMAIN q = 1..Len(q)
  OBVIOUS
<1>2. CASE I = {}
  <2>1. RemoveFirst(q, e) = q /\ ~\E i \in DOMAIN q : q[i] = e
    BY <1>1, <1>2 DEF RemoveFirst
  <2>2. QED
    BY <2>1
<1>3. CASE I # {}
  <2>1. Min(I) \in I
    <3>1. I \subseteq Nat
      OBVIOUS
    <3> HIDE DEF I
    <3>2. QED
      BY <1>3, <3>1, MinIsMember
  <2>2. RemoveFirst(q, e) = RemoveAt(q, Min(I))
    BY <1>3 DEF RemoveFirst, SelectInSeq
  <2>3. PICK n \in 1..Len(q) : q[n] = e /\ RemoveFirst(q, e) = RemoveAt(q, n)
    BY <2>1, <2>2
  <2>4. Count(RemoveAt(q, n), S) = IF q[n] \in S THEN Count(q, S) - 1 ELSE Count(q, S)
    BY CountRemoveAt
  <2>5. \E i \in DOMAIN q : q[i] = e
    BY <1>1, <2>3
  <2>6. QED
    BY <2>3, <2>4, <2>5, Zenon
<1>4. QED
  BY <1>2, <1>3

\* The first edge of x is taken out (finishStop).
LEMMA WithoutEdge ==
  ASSUME NEW q \in Seq(Edge), NEW x, NEW i \in DOMAIN q, q[i].name = x
  PROVE  \E n \in 1..Len(q) : q[n].name = x /\ WithoutEdgeOf(q, x) = RemoveAt(q, n)
<1> DEFINE I == {j \in 1..Len(q) : IsEdgeOf(q[j], x)}
<1>1. DOMAIN q = 1..Len(q) /\ I # {}
  BY DEF IsEdgeOf
<1>2. Min(I) \in I
  <2>1. I \subseteq Nat
    OBVIOUS
  <2> HIDE DEF I
  <2>2. QED
    BY <1>1, <2>1, MinIsMember
<1>3. WithoutEdgeOf(q, x) = RemoveAt(q, Min(I))
  BY <1>1 DEF WithoutEdgeOf, RemoveFirstMatch, SelectInSeq
<1>4. QED
  BY <1>2, <1>3 DEF IsEdgeOf

\* Then there is one edge of x less.
LEMMA CountOneLess ==
  ASSUME NEW q \in Seq(Edge), NEW x, NEW i \in DOMAIN q, q[i].name = x,
         NEW S, \A e \in Edge : e.name = x => e \in S
  PROVE  Count(WithoutEdgeOf(q, x), S) = Count(q, S) - 1
<1>1. PICK n \in 1..Len(q) : q[n].name = x /\ WithoutEdgeOf(q, x) = RemoveAt(q, n)
  BY WithoutEdge
<1>2. Count(RemoveAt(q, n), S) = IF q[n] \in S THEN Count(q, S) - 1 ELSE Count(q, S)
  BY CountRemoveAt
<1>3. q[n] \in S
  BY <1>1
<1>4. QED
  BY <1>1, <1>2, <1>3

\* The others are as many as before.
LEMMA CountOthers ==
  ASSUME NEW q \in Seq(Edge), NEW x, NEW i \in DOMAIN q, q[i].name = x,
         NEW S, \A e \in Edge : e.name = x => e \notin S
  PROVE  Count(WithoutEdgeOf(q, x), S) = Count(q, S)
<1>1. PICK n \in 1..Len(q) : q[n].name = x /\ WithoutEdgeOf(q, x) = RemoveAt(q, n)
  BY WithoutEdge
<1>2. Count(RemoveAt(q, n), S) = IF q[n] \in S THEN Count(q, S) - 1 ELSE Count(q, S)
  BY CountRemoveAt
<1>3. q[n] \notin S
  BY <1>1
<1>4. QED
  BY <1>1, <1>2, <1>3

\* Members of two disjoint sets are counted separately.
LEMMA CountDisjoint ==
  ASSUME NEW E, NEW q \in Seq(E), NEW S, NEW T, S \intersect T = {}
  PROVE  Count(q, S \union T) = Count(q, S) + Count(q, T)
<1>1. /\ IsFiniteSet(Places(q, S)) /\ IsFiniteSet(Places(q, T))
      /\ Count(q, S) \in Nat /\ Count(q, T) \in Nat
  BY CountIsNat
<1>2. /\ Places(q, S \union T) = Places(q, S) \union Places(q, T)
      /\ Places(q, S) \intersect Places(q, T) = {}
  BY DEF Places
<1>3. Cardinality(Places(q, S) \intersect Places(q, T)) = 0
  BY <1>2, FS_EmptySet
<1>4. Cardinality(Places(q, S) \union Places(q, T))
        = Cardinality(Places(q, S)) + Cardinality(Places(q, T))
            - Cardinality(Places(q, S) \intersect Places(q, T))
  BY <1>1, FS_Union
<1>5. Count(q, S \union T) = Count(q, S) + Count(q, T) - 0
  BY <1>2, <1>3, <1>4 DEF Count
<1>6. QED
  BY <1>1, <1>5

\* A walk begins with all, meets one element after the other, and ends with
\* none.
LEMMA RestOfWalk ==
  ASSUME NEW E, NEW q \in Seq(E), NEW S, NEW i \in Nat \ {0}
  PROVE  /\ Rest(q, 1, S) = Count(q, S)
         /\ i > Len(q) => Rest(q, i, S) = 0
         /\ i <= Len(q) =>
              /\ Rest(q, i + 1, S) \in Nat
              /\ Rest(q, i, S) = IF q[i] \in S THEN Rest(q, i + 1, S) + 1
                                               ELSE Rest(q, i + 1, S)
<1>1. DOMAIN q = 1..Len(q) /\ Len(q) \in Nat
  OBVIOUS
<1>2. Rest(q, 1, S) = Count(q, S)
  <2>1. RestPlaces(q, 1, S) = Places(q, S)
    BY <1>1 DEF RestPlaces, Places
  <2>2. QED
    BY <2>1 DEF Rest, Count
<1>3. ASSUME i > Len(q) PROVE Rest(q, i, S) = 0
  <2>1. RestPlaces(q, i, S) = {}
    BY <1>1, <1>3 DEF RestPlaces
  <2>2. QED
    BY <2>1, FS_EmptySet DEF Rest
<1>4. ASSUME i <= Len(q)
      PROVE  /\ Rest(q, i + 1, S) \in Nat
             /\ Rest(q, i, S) = IF q[i] \in S THEN Rest(q, i + 1, S) + 1
                                              ELSE Rest(q, i + 1, S)
  <2> DEFINE P == RestPlaces(q, i + 1, S)
  <2>1. IsFiniteSet((i + 1)..Len(q)) /\ P \subseteq (i + 1)..Len(q)
    BY <1>1, FS_Interval DEF RestPlaces
  <2>2. IsFiniteSet(P) /\ Rest(q, i + 1, S) \in Nat
    BY <2>1, FS_Subset, FS_CardinalityType DEF Rest
  <2>3. i \notin P
    BY <1>1 DEF RestPlaces
  <2>4. i..Len(q) = ((i + 1)..Len(q)) \union {i}
    BY <1>1, <1>4
  <2>5. CASE q[i] \in S
    <3>1. RestPlaces(q, i, S) = P \union {i}
      BY <2>4, <2>5 DEF RestPlaces
    <3> HIDE DEF P
    <3>2. Cardinality(P \union {i}) = Cardinality(P) + 1
      BY <2>2, <2>3, FS_AddElement
    <3>3. QED
      BY <2>2, <2>5, <3>1, <3>2 DEF Rest, P
  <2>6. CASE q[i] \notin S
    <3>1. RestPlaces(q, i, S) = P
      BY <2>4, <2>6 DEF RestPlaces
    <3>2. QED
      BY <2>2, <2>6, <3>1 DEF Rest
  <2>7. QED
    BY <2>2, <2>5, <2>6
<1>5. QED
  BY <1>2, <1>3, <1>4

-----------------------------------------------------------------------------
(* The invariant.                                                          *)

\* The services that the Depend and After lines of s name.
Below(s) == {Depend[s][i].name : i \in DOMAIN Depend[s]}
              \union {After[s][i] : i \in DOMAIN After[s]}

\* No service is below itself, through any number of lines.
Layered(r) == /\ r \in [Services -> Nat]
              /\ \A a \in Services : \A b \in Below(a) \intersect Services : r[b] < r[a]
Acyclic == \E r : Layered(r)
Level == CHOOSE r : Layered(r)

\* What keeps running through a shutdown needs nothing that does not.
IgnoreClosed == \A s \in IgnoreShutdown : Below(s) \subseteq IgnoreShutdown

\* A service that is being started, or whose "finstart" is still to be read, is
\* not locked by a failure; one that runs and is locked is about to be stopped.
FinstartUnread(s) == outbox[s] # <<>> /\ outbox[s][1] = "finstart"
BeingStarted(s) == status[s] = "Waiting" \/ stage[s] = "begin" \/ FinstartUnread(s)

Unlocked(s) ==
  /\ stage[s] = "begin" => outbox[s] = <<>>
  /\ \A k \in DOMAIN outbox[s] : outbox[s][k] = "finstart" => k = 1
  /\ BeingStarted(s) => ~failLocked[s]
LockInv ==
  /\ \A s \in Services :
       /\ Unlocked(s)
       /\ failLocked[s] /\ Included(s) => stack = <<Call("update", s)>>
  /\ stack # <<>> => tgts # <<>>

\* The calls that walk dependedBy of their service, and those that are in the
\* middle of what is done only to one that is not down.
Walking == {"stop", "cascadeStop", "finishStart"}
Busy(f) == \/ f.fn \in {"start", "stop", "finishStart"}
           \/ f.fn = "cascadeStop" /\ f.at # "enter"

\* What holds of each call in progress.
Alone(f) ==
  /\ Busy(f) => ~Excluded(f.svc)
  /\ f.fn = "finishStop" => Excluded(f.svc)

\* update(s) will not start s.
Calm(s) == ~Excluded(s) \/ MustStop(s)

\* What can be above finishStop(x), while x may run: calls on the services below
\* x, which stop only what nobody needs.
Climbs(f, x) ==
  /\ f.fn \in {"update", "start", "stop"}
  /\ Level[f.svc] < Level[x]
  /\ ~MustStop(f.svc)
  /\ f.fn = "stop" => dependedBy[f.svc] = <<>>

\* What holds of a call f made, at any depth, by b.
Nested(f, b) ==
  /\ f.fn \notin {"finishStop", "setTarget", "command"}
  /\ b.fn \in Walking => f.fn # "start" /\ Calm(f.svc)
  /\ b.fn = "finishStop" /\ ~MustStop(b.svc) => Climbs(f, b.svc)

FrameInv ==
  \A k \in DOMAIN stack :
    /\ Alone(stack[k])
    /\ \A j \in 1..(k - 1) : Nested(stack[j], stack[k])

To(b, o)  == [name |-> b, optional |-> o]
EdgesOf(b) == {e \in Edge : e.name = b}

\* Between a service that is not in finishStop() and any other there are as many
\* edges at one end as at the other; one that is has left what it has not reached.
Mirror ==
  \A a, b \in Services, o \in BOOLEAN :
    ~WalksDependencies(a) => Count(deps[a], {To(b, o)}) = Count(dependedBy[b], {To(a, o)})
Half ==
  \A k \in DOMAIN stack : stack[k].fn = "finishStop" =>
    \A b \in Services :
      Count(dependedBy[b], EdgesOf(stack[k].svc))
        = Rest(deps[stack[k].svc], stack[k].i, EdgesOf(b))

EdgeInv ==
  /\ Mirror
  /\ Half
  /\ \A s \in Services : Excluded(s) /\ ~WalksDependencies(s) => deps[s] = <<>>
  /\ \A s \in Services : \A i \in DOMAIN deps[s] : deps[s][i].name \in Below(s)

EdgesInv == LockInv /\ FrameInv /\ EdgeInv

\* At first there are neither calls nor edges.
LEMMA InitEdges == Init => EdgesInv
<1> SUFFICES ASSUME Init PROVE EdgesInv
  OBVIOUS
<1>1. LockInv
  BY DEF Init, LaunchInit, LockInv, Unlocked, BeingStarted, FinstartUnread
<1>2. FrameInv
  BY DEF Init, FrameInv
<1>3. Mirror /\ Half
  BY CountEmpty DEF Init, Mirror, Half
<1>4. QED
  BY <1>1, <1>2, <1>3 DEF Init, EdgesInv, EdgeInv

-----------------------------------------------------------------------------
(* The locks.                                                              *)

\* Nothing that locks depend on changes but the calls in progress and the
\* statuses, and nobody begins to run or to wait.
LEMMA SameLocks ==
  ASSUME LockInv, UNCHANGED <<stage, outbox>>, stack' # <<>> => tgts' # <<>>,
         \A s \in Services :
           /\ failLocked'[s] => failLocked[s]
           /\ status'[s] = "Waiting" => status[s] = "Waiting" \/ ~failLocked[s]
           /\ Included(s)' => Included(s)
           /\ failLocked[s] /\ Included(s) /\ failLocked'[s] => ~Included(s)'
  PROVE  LockInv'
  BY DEF LockInv, Unlocked, BeingStarted, FinstartUnread, Included

\* A launcher's step: "finstart" is the first thing it says.
LEMMA LaunchUnlocked ==
  ASSUME LauncherInv, \A r \in Services : Unlocked(r), NEW s \in Services, Launch(s)
  PROVE  /\ UNCHANGED <<status, failLocked, stack, tgts>>
         /\ \A r \in Services : Unlocked(r)'
<1> USE DEF LauncherInv, LauncherTypes
<1>1. UNCHANGED <<status, failLocked, stack, tgts>> /\ LaunchNext(s)
  BY DEF Launch, serviceVars, callVars, targetVars
<1>2. /\ \A r \in Services \ {s} : stage'[r] = stage[r] /\ outbox'[r] = outbox[r]
      /\ stage'[s] # "begin"
      /\ \/ outbox'[s] = outbox[s]
         \/ \E m \in Message :
              /\ outbox'[s] = Append(outbox[s], m)
              /\ m = "finstart" => stage[s] = "begin"
  <2>1. CASE BeginInterrupted(s) \/ RunInterrupted(s)
    BY <2>1 DEF BeginInterrupted, RunInterrupted, Enter
  <2>2. CASE LastInterrupted(s)
    BY <2>2 DEF LastInterrupted
  <2>3. CASE BeginExits(s) \/ HangInterrupted(s) \/ RunExits(s) \/ KilledExits(s)
    BY <2>3 DEF BeginExits, HangInterrupted, RunExits, KilledExits, AfterBegin,
                EnterAnnounced, Enter, Write, Announce, Message
  <2>4. CASE EndExits(s) \/ ErrExits(s)
    BY <2>4 DEF EndExits, ErrExits, EnterAnnounced, Enter, Write, Announce, Message
  <2>5. QED
    BY <1>1, <2>1, <2>2, <2>3, <2>4 DEF LaunchNext, SeesInterrupt, CommandExits
<1>3. ASSUME NEW r \in Services
      PROVE  /\ stage'[r] = "begin" => outbox'[r] = <<>>
             /\ \A k \in DOMAIN outbox'[r] : outbox'[r][k] = "finstart" => k = 1
             /\ BeingStarted(r)' => BeingStarted(r)
  <2>1. CASE r # s
    BY <1>1, <1>2, <2>1 DEF Unlocked, BeingStarted, FinstartUnread
  <2>2. CASE r = s /\ outbox'[s] = outbox[s]
    BY <1>1, <1>2, <2>2 DEF Unlocked, BeingStarted, FinstartUnread
  <2>3. ASSUME r = s, NEW m \in Message, outbox'[s] = Append(outbox[s], m),
               m = "finstart" => stage[s] = "begin"
        PROVE  /\ \A k \in DOMAIN outbox'[s] : outbox'[s][k] = "finstart" => k = 1
               /\ BeingStarted(s)' => BeingStarted(s)
    <3>1. CASE outbox[s] = <<>>
      BY <1>1, <1>2, <2>3, <3>1 DEF BeingStarted, FinstartUnread
    <3>2. CASE outbox[s] # <<>>
      <4>1. m # "finstart"
        BY <2>3, <3>2 DEF Unlocked
      <4>2. outbox'[s][1] = outbox[s][1]
        BY <2>3, <3>2
      <4>3. \A k \in DOMAIN outbox'[s] :
              outbox'[s][k] = "finstart" => k \in DOMAIN outbox[s] /\ outbox[s][k] = "finstart"
        BY <2>3, <4>1
      <4>4. QED
        BY <1>1, <1>2, <3>2, <4>2, <4>3 DEF Unlocked, BeingStarted, FinstartUnread
    <3>3. QED
      BY <3>1, <3>2
  <2>4. QED
    BY <1>2, <2>1, <2>2, <2>3
<1>4. QED
  BY <1>1, <1>3 DEF Unlocked

\* So it keeps the locks.
LEMMA LaunchLocks ==
  ASSUME LauncherInv, LockInv, NEW s \in Services, Launch(s)
  PROVE  LockInv'
  BY LaunchUnlocked DEF LockInv, Included

\* A report is read: "servfail" comes from one that is no longer being started.
LEMMA DeliverLocks ==
  ASSUME LauncherInv, TypeInv, LockInv, NEW s \in Services, Deliver(s)
  PROVE  LockInv'
<1> USE DEF TypeInv, DataTypes, LaunchTypeOK
<1>1. /\ stack = <<>> /\ tgts # <<>> /\ outbox[s] # <<>> /\ stage' = stage
      /\ outbox' = [outbox EXCEPT ![s] = Tail(@)]
      /\ Head(outbox[s]) \in Message /\ Handler(s, Head(outbox[s]))
  BY DEF Deliver, Idle
<1>2. \A r \in Services : ~(failLocked[r] /\ Included(r))
  BY <1>1 DEF LockInv, Unlocked
<1>3. status[s] # "Waiting" /\ stage[s] # "begin"
  BY <1>1 DEF LauncherInv, NoStrayLauncher, Up, LockInv, Unlocked
<1>4. /\ \A k \in DOMAIN outbox'[s] : outbox'[s][k] # "finstart"
      /\ ~FinstartUnread(s)'
  <2>1. /\ outbox'[s] \in Seq(Message)
        /\ \A k \in DOMAIN outbox'[s] :
             k + 1 \in DOMAIN outbox[s] /\ outbox'[s][k] = outbox[s][k + 1] /\ k + 1 # 1
    BY <1>1
  <2>2. \A k \in DOMAIN outbox'[s] : outbox'[s][k] # "finstart"
    BY <2>1 DEF LockInv, Unlocked
  <2>3. outbox'[s] # <<>> => 1 \in DOMAIN outbox'[s]
    BY <2>1
  <2>4. QED
    BY <2>2, <2>3 DEF FinstartUnread
<1>5. \A r \in Services \ {s} : outbox'[r] = outbox[r]
  BY <1>1
<1>6. \/ FinishStartService(s) /\ Head(outbox[s]) = "finstart"
      \/ ServiceFinishes(s) \/ FailService(s) \/ FinishStopService(s)
  BY <1>1 DEF Handler, Message
<1>7. tgts' = tgts
  BY <1>6 DEF FinishStartService, ServiceFinishes, FailService, FinishStopService, targetVars
<1>8. \A r \in Services \ {s} : /\ failLocked'[r] = failLocked[r]
                                /\ status'[r] = status[r]
  BY <1>6 DEF FinishStartService, ServiceFinishes, FailService, FinishStopService,
              SetStatus, Unlock, Forgive
<1>9. status'[s] # "Waiting"
  BY <1>3, <1>6 DEF FinishStartService, ServiceFinishes, FailService, FinishStopService,
                    SetStatus, Unlock, Forgive
<1>10. failLocked'[s] /\ Included(s)' => stack' = <<Call("update", s)>>
  <2>1. CASE FinishStartService(s) /\ Head(outbox[s]) = "finstart"
    <3>1. FinstartUnread(s)
      BY <1>1, <2>1 DEF FinstartUnread
    <3>2. ~failLocked[s]
      BY <3>1 DEF LockInv, Unlocked, BeingStarted
    <3>3. QED
      BY <2>1, <3>2 DEF FinishStartService
  <2>2. CASE ServiceFinishes(s)
    BY <2>2 DEF ServiceFinishes, Unlock
  <2>3. CASE FailService(s)
    BY <2>3 DEF FailService, Serve
  <2>4. CASE FinishStopService(s)
    BY <2>4 DEF FinishStopService, SetStatus, Included
  <2>5. QED
    BY <1>6, <2>1, <2>2, <2>3, <2>4
<1>11. ASSUME NEW r \in Services
       PROVE  /\ stage'[r] = "begin" => outbox'[r] = <<>>
              /\ \A k \in DOMAIN outbox'[r] : outbox'[r][k] = "finstart" => k = 1
              /\ BeingStarted(r)' => ~failLocked'[r]
              /\ failLocked'[r] /\ Included(r)' => stack' = <<Call("update", r)>>
  <2>1. CASE r = s
    BY <1>1, <1>3, <1>4, <1>9, <1>10, <2>1 DEF BeingStarted
  <2>2. CASE r # s
    BY <1>1, <1>2, <1>5, <1>8, <2>2 DEF LockInv, Unlocked, BeingStarted, FinstartUnread, Included
  <2>3. QED
    BY <2>1, <2>2
<1>12. QED
  BY <1>1, <1>7, <1>11 DEF LockInv, Unlocked

\* A request unlocks; so does setTarget nothing.
LEMMA RequestLocks ==
  ASSUME TypeInv, LockInv, Boot \/ \E c \in Clients : Request(c)
  PROVE  LockInv'
<1> USE DEF TypeInv, DataTypes
<1>1. stack = <<>>
  BY DEF Boot, Request, Idle, LockInv, Unlocked
<1>2. \A r \in Services : ~(failLocked[r] /\ Included(r))
  BY <1>1 DEF LockInv, Unlocked
<1>3. /\ UNCHANGED <<stage, outbox>>
      /\ UNCHANGED serviceVars \/ \E s \in Services : Unlock(s) /\ (status' = status \/ Forgive(s))
  BY DEF Boot, Request, StartService, StopService, CascadeStopService, Refuse, SetTarget,
         launchVars, serviceVars
<1>4. stack' # <<>> => tgts' # <<>>
  <2>1. ASSUME NEW t \in Targets, SetTarget(t) PROVE stack' # <<>> => tgts' # <<>>
    <3>1. AddTarget(tgts, t) # <<>>
      <4>1. Len(Append(tgts, t)) = Len(tgts) + 1 /\ Len(tgts) \in Nat /\ Len(<<t>>) = 1
        OBVIOUS
      <4>2. Append(tgts, t) \in Seq(Targets) /\ <<t>> \in Seq(Targets)
        OBVIOUS
      <4>3. Append(tgts, t) # <<>> /\ <<t>> # <<>>
        <5>1. Len(Append(tgts, t)) # 0 /\ Len(<<t>>) # 0
          BY <4>1
        <5>2. QED
          BY <4>2, <5>1, EmptySeq, Zenon
      <4>4. QED
        BY <4>3, Zenon DEF AddTarget
    <3>2. QED
      BY <1>1, <2>1, <3>1 DEF SetTarget, EnterTarget, EnterTargetFails, callVars, targetVars
  <2>2. ASSUME Idle, tgts' = tgts PROVE stack' # <<>> => tgts' # <<>>
    BY <2>2 DEF Idle
  <2>3. QED
    BY <2>1, <2>2, DaemonAssumption DEF Boot, Request, StartService, StopService,
                                        CascadeStopService, Refuse, targetVars
<1>5. \A s \in Services : /\ failLocked'[s] => failLocked[s]
                          /\ status'[s] = "Waiting" => status[s] = "Waiting"
                          /\ Included(s)' => Included(s)
  BY <1>3 DEF serviceVars, Unlock, Forgive, Included
<1>6. QED
  BY <1>2, <1>3, <1>4, <1>5, SameLocks

\* update(): a service that is locked is not started, and stopped if it runs.
LEMMA UpdateUnlocked ==
  ASSUME LauncherInv, TypeInv, \A r \in Services : Unlocked(r),
         NEW s \in Services, Update(s)
  PROVE  /\ UNCHANGED <<failLocked, tgts>>
         /\ \A r \in Services \ {s} : status'[r] = status[r]
         /\ failLocked[s] => ~Included(s)'
         /\ \A r \in Services : Unlocked(r)'
<1> USE DEF TypeInv, DataTypes
<1>1. tgts' = tgts /\ failLocked' = failLocked /\ outbox' = outbox
  BY DEF Update, Runs, RawStart, RawStartFails, RawStop, BeginStart, BeginStop,
         UpdateIsIdle, Fork, Interrupt, targetVars, serviceVars, launchVars
<1>2. \A r \in Services \ {s} : status'[r] = status[r]
  BY DEF Update, RawStart, RawStartFails, RawStop, BeginStart, BeginStop, UpdateIsIdle,
         SetStatus, serviceVars
<1>3. failLocked[s] => ~Included(s)'
  <2>1. SUFFICES ASSUME failLocked[s] PROVE ~Included(s)'
    OBVIOUS
  <2>2. ~ShouldRun(s)
    BY <2>1 DEF ShouldRun
  <2>3. CASE RawStart(s) \/ RawStartFails(s) \/ RawStop(s) \/ BeginStart(s) \/ BeginStop(s)
    BY <2>3 DEF RawStart, RawStartFails, RawStop, BeginStart, BeginStop, SetStatus, Included
  <2>4. CASE ~WantsStop(s) /\ UpdateIsIdle(s)
    BY <2>2, <2>4 DEF WantsStop, UpdateIsIdle, serviceVars, Included
  <2>5. QED
    BY <2>3, <2>4 DEF Update
<1>4. status'[s] = "Waiting" => ~failLocked[s]
  <2>1. CASE BeginStart(s) /\ WantsStart(s)
    BY <2>1 DEF WantsStart, ShouldRun
  <2>2. CASE RawStart(s) \/ RawStartFails(s) \/ RawStop(s) \/ BeginStop(s)
    BY <2>2 DEF RawStart, RawStartFails, RawStop, BeginStop, SetStatus
  <2>3. CASE UpdateIsIdle(s)
    BY <2>3 DEF UpdateIsIdle, serviceVars, Unlocked, BeingStarted
  <2>4. QED
    BY <2>1, <2>2, <2>3 DEF Update
<1>5. /\ \A r \in Services \ {s} : stage'[r] = stage[r]
      /\ stage'[s] = "begin" => outbox[s] = <<>> /\ ~failLocked[s]
  <2>1. CASE RawStart(s) /\ ReadyToStart(s)
    BY <2>1 DEF RawStart, ReadyToStart, Fork, LauncherInv, LauncherTypes, NoStrayLauncher,
                Up, Unlocked, BeingStarted
  <2>2. CASE stage' = stage
    BY <2>2 DEF Unlocked, BeingStarted
  <2>3. QED
    BY <2>1, <2>2 DEF Update, RawStartFails, RawStop, BeginStart, BeginStop, UpdateIsIdle,
                      Interrupt, launchVars
<1>6. ASSUME NEW r \in Services PROVE Unlocked(r)'
  <2>1. CASE r = s
    BY <1>1, <1>4, <1>5, <2>1 DEF Unlocked, BeingStarted, FinstartUnread
  <2>2. CASE r # s
    BY <1>1, <1>2, <1>5, <2>2 DEF Unlocked, BeingStarted, FinstartUnread
  <2>3. QED
    BY <2>1, <2>2
<1>7. QED
  BY <1>1, <1>2, <1>3, <1>6

\* So update() keeps the locks.
LEMMA UpdateLocks ==
  ASSUME LauncherInv, TypeInv, LockInv, NEW s \in Services, Update(s)
  PROVE  LockInv'
<1>1. /\ UNCHANGED <<failLocked, tgts>>
      /\ \A r \in Services \ {s} : status'[r] = status[r]
      /\ failLocked[s] => ~Included(s)'
      /\ \A r \in Services : Unlocked(r)'
  BY UpdateUnlocked DEF LockInv
<1>2. stack # <<>> /\ tgts # <<>>
  BY DEF Update, Runs, LockInv
<1>3. \A r : stack = <<Call("update", r)>> => r = s
  BY DEF Update, Runs, Top, Call
<1>4. \A r \in Services : ~(failLocked'[r] /\ Included(r)')
  BY <1>1, <1>3 DEF LockInv, Included
<1>5. QED
  BY <1>1, <1>2, <1>4 DEF LockInv

\* The other calls change neither locks nor statuses.
LEMMA CallLocks ==
  ASSUME LockInv, Run, ~\E s \in Services : Update(s)
  PROVE  LockInv'
<1>1. stack # <<>> /\ Top.fn # "update" /\ UNCHANGED <<status, failLocked, launchVars, tgts>>
  BY DEF Run, ServiceStep, CommandReturns, TargetNext, TargetEnds, StartDepends,
         StartDepended, StartTriesAfter, StartTriedAfter, StartAddedAfter, UpdateSelf,
         ReturnFromTail, StopNext, CascadeEnters, CascadeNext, FinishStartNext,
         FinishStartFails, FinishStartEnds, FinishStopNext, FinishStopEnds, Runs,
         serviceVars, targetVars, CheckReach
<1>2. \A r \in Services : ~(failLocked[r] /\ Included(r))
  BY <1>1 DEF LockInv, Unlocked, Top, Call
<1>3. QED
  BY <1>1, <1>2, SameLocks DEF LockInv, Unlocked, Included, launchVars

\* The locks keep, given types and launchers.
LEMMA NextLocks == TypeInv /\ LauncherInv /\ LockInv /\ [Next]_vars => LockInv'
<1> SUFFICES ASSUME TypeInv, LauncherInv, LockInv, [Next]_vars PROVE LockInv'
  OBVIOUS
<1>1. CASE UNCHANGED vars
  BY <1>1 DEF vars, serviceVars, targetVars, callVars, launchVars, LockInv, Unlocked, BeingStarted,
              FinstartUnread, Included
<1>2. QED
  BY <1>1, LaunchLocks, DeliverLocks, RequestLocks, UpdateLocks, CallLocks DEF Next

-----------------------------------------------------------------------------
(* The calls in progress.                                                  *)

\* All but the running one.
Held == {stack[k] : k \in 2..Len(stack)}

\* The frames by name.
LEMMA Frames ==
  ASSUME CallTypes, FrameInv, stack # <<>>
  PROVE  /\ Top \in GoodFrame /\ Held \subseteq GoodFrame
         /\ \A k \in DOMAIN stack : stack[k] = Top \/ stack[k] \in Held
         /\ \A f \in Held \union {Top} : \E k \in DOMAIN stack : f = stack[k]
         /\ Alone(Top)
         /\ \A b \in Held : Alone(b) /\ Nested(Top, b)
<1>1. /\ stack \in Seq(GoodFrame) /\ Len(stack) \in Nat /\ Len(stack) >= 1
      /\ DOMAIN stack = 1..Len(stack) /\ Top = stack[1]
  BY DEF CallTypes, Top
<1>2. \A k \in 2..Len(stack) : k \in DOMAIN stack /\ 1 \in 1..(k - 1)
  BY <1>1
<1>3. \A k \in DOMAIN stack : k = 1 \/ k \in 2..Len(stack)
  BY <1>1
<1>4. 1 \in DOMAIN stack
  BY <1>1
<1>5. Alone(Top)
  BY <1>1, <1>4 DEF FrameInv
<1>6. ASSUME NEW b \in Held PROVE Alone(b) /\ Nested(Top, b) /\ b \in GoodFrame
  <2>1. PICK k \in 2..Len(stack) : b = stack[k]
    BY DEF Held
  <2>2. QED
    BY <1>1, <1>2, <2>1 DEF FrameInv
<1>7. QED
  BY <1>1, <1>2, <1>3, <1>4, <1>5, <1>6 DEF Held

\* A call of a member function is on a service.
LEMMA ServiceOf ==
  ASSUME NEW f \in GoodFrame, f.fn \notin {"setTarget", "command"}
  PROVE  f.svc \in Services
  BY DEF GoodFrame, GoodServiceFrame, ServiceFrame, TargetFrame, CommandFrame

\* Who is walked over, and who is not.
LEMMA Walks ==
  ASSUME CallTypes, FrameInv, stack # <<>>
  PROVE  /\ \A s : WalksDependencies(s) <=>
                     \E f \in Held \union {Top} : f.fn = "finishStop" /\ f.svc = s
         /\ \A s : WalksDependents(s) <=>
                     \E f \in Held \union {Top} : f.fn \in Walking /\ f.svc = s
         /\ \A s : WalksDependencies(s) => Excluded(s) /\ s \in Services
         /\ Top.fn = "start" => \A b \in Held : b.fn \notin Walking
         /\ Top.fn \in {"finishStop", "setTarget", "command"} => Held = {}
<1>1. \A s : WalksDependencies(s) <=>
               \E f \in Held \union {Top} : f.fn = "finishStop" /\ f.svc = s
  BY Frames DEF WalksDependencies
<1>2. \A s : WalksDependents(s) <=>
               \E f \in Held \union {Top} : f.fn \in Walking /\ f.svc = s
  BY Frames DEF WalksDependents, Walking
<1>3. \A s : WalksDependencies(s) => Excluded(s) /\ s \in Services
  BY <1>1, Frames, ServiceOf DEF Alone
<1>4. /\ Top.fn = "start" => \A b \in Held : b.fn \notin Walking
      /\ Top.fn \in {"finishStop", "setTarget", "command"} => Held = {}
  BY Frames DEF Nested
<1>5. QED
  BY <1>1, <1>2, <1>3, <1>4

\* What a service needs is below it, and need not stop unless it must.
LEMMA BelowIs ==
  ASSUME Acyclic, IgnoreClosed, NEW s \in Services, NEW d \in Below(s)
  PROVE  /\ d \in Services /\ Level[d] \in Nat /\ Level[s] \in Nat
         /\ Level[d] < Level[s]
         /\ ~MustStop(s) => ~MustStop(d)
<1>1. Layered(Level)
  BY DEF Acyclic, Level
<1>2. d \in Services
  <2>1. Depend[s] \in Seq(Edge) /\ After[s] \in Seq(Services)
    BY ServiceAssumption
  <2>2. CASE \E i \in DOMAIN Depend[s] : d = Depend[s][i].name
    <3>1. PICK i \in DOMAIN Depend[s] : d = Depend[s][i].name
      BY <2>2
    <3>2. Depend[s][i] \in Edge
      BY <2>1
    <3>3. QED
      BY <3>1, <3>2 DEF Edge
  <2>3. CASE \E i \in DOMAIN After[s] : d = After[s][i]
    BY <2>1, <2>3
  <2>4. QED
    BY <2>2, <2>3 DEF Below
<1>3. ~MustStop(s) => ~MustStop(d)
  BY DEF MustStop, IgnoreClosed
<1>4. QED
  BY <1>1, <1>2, <1>3 DEF Layered

\* Where start() is, there is a service that its own needs.
LEMMA LinesAreBelow ==
  ASSUME TypeInv, NEW s \in Services, Top \in GoodServiceFrame, Top.svc = s
  PROVE  /\ (Top.at = "depended" \/ AtDepend(s)) =>
              /\ DependAt(s).name \in Below(s) /\ DependAt(s).optional \in BOOLEAN
              /\ DependAt(s).name \in Services
         /\ (Top.at \in {"tried", "after"} \/ AtAfter(s)) =>
              AfterAt(s) \in Below(s) /\ AfterAt(s) \in Services
<1>1. /\ Depend[s] \in Seq(Edge) /\ After[s] \in Seq(Services)
      /\ Len(Depend[s]) \in Nat /\ Len(After[s]) \in Nat
      /\ DOMAIN Depend[s] = 1..Len(Depend[s]) /\ DOMAIN After[s] = 1..Len(After[s])
  BY ServiceAssumption
<1>2. /\ Top.i \in Nat /\ Top.i >= 1
      /\ Top.at = "depended" => Top.i <= Len(Depend[s])
      /\ Top.at \in {"tried", "after"} =>
           Top.i \in Len(Depend[s]) + 1 .. Len(Depend[s]) + Len(After[s])
  BY DEF GoodServiceFrame, ServiceFrame
<1>3. ASSUME Top.at = "depended" \/ AtDepend(s) PROVE DependAt(s).name \in Below(s)
  <2>1. Top.i \in DOMAIN Depend[s]
    BY <1>1, <1>2, <1>3 DEF AtDepend
  <2>2. QED
    BY <2>1 DEF DependAt, Below
<1>4. ASSUME Top.at \in {"tried", "after"} \/ AtAfter(s)
      PROVE  AfterAt(s) \in Below(s)
  <2>1. Top.i \in Len(Depend[s]) + 1 .. Len(Depend[s]) + Len(After[s])
    BY <1>2, <1>4 DEF AtAfter
  <2>2. Top.i - Len(Depend[s]) \in DOMAIN After[s]
    <3>1. \A i, m, n \in Nat : i \in m + 1 .. m + n => i - m \in 1..n
      OBVIOUS
    <3>2. QED
      BY <1>1, <1>2, <2>1, <3>1, Zenon
  <2>3. QED
    BY <2>2 DEF AfterAt, Below
<1>5. QED
  BY <1>3, <1>4, LinesAreServices

\* The calls that wait stay what they are, if no service goes down, none is
\* started in its finishStop(), and nobody joins the dependents of one that is
\* being stopped.
LEMMA HeldStays ==
  ASSUME CallTypes, FrameInv, stack # <<>>, tgts' = tgts,
         \A s \in Services : ~Excluded(s) => ~Excluded(s)',
         \A s \in Services : WalksDependencies(s) => Excluded(s)',
         \A s \in Services : WalksDependents(s) => dependedBy'[s] = dependedBy[s]
  PROVE  /\ \A f \in Held : Alone(f)'
         /\ \A f \in Held : \A b \in Held : Nested(f, b) => Nested(f, b)'
<1>1. \A f \in Held : f \in GoodFrame /\ Alone(f)
  BY Frames
<1>2. \A s : MustStop(s)' = MustStop(s)
  BY DEF MustStop, IsShutdown, HasAttribute
<1>3. ASSUME NEW f \in Held PROVE Alone(f)'
  <2>1. CASE Busy(f)
    <3>1. f.svc \in Services /\ ~Excluded(f.svc) /\ f.fn # "finishStop"
      BY <1>1, <2>1, ServiceOf DEF Busy, Alone
    <3>2. ~Excluded(f.svc)'
      BY <3>1
    <3>3. QED
      BY <3>1, <3>2 DEF Alone
  <2>2. CASE f.fn = "finishStop"
    <3>1. f.svc \in Services /\ WalksDependencies(f.svc)
      BY <1>1, <2>2, ServiceOf, Walks
    <3>2. Excluded(f.svc)'
      BY <3>1
    <3>3. QED
      BY <2>2, <3>2 DEF Alone, Busy
  <2>3. CASE ~Busy(f) /\ f.fn # "finishStop"
    BY <2>3 DEF Alone, Busy
  <2>4. QED
    BY <2>1, <2>2, <2>3
<1>4. ASSUME NEW f \in Held, NEW b \in Held, Nested(f, b) PROVE Nested(f, b)'
  <2>1. f.fn \notin {"finishStop", "setTarget", "command"} /\ f.svc \in Services
    BY <1>1, <1>4, ServiceOf DEF Nested
  <2>2. Calm(f.svc) => Calm(f.svc)'
    BY <1>2, <2>1 DEF Calm
  <2>3. ASSUME NEW x, Climbs(f, x) PROVE Climbs(f, x)'
    <3>1. f.fn = "stop" => dependedBy'[f.svc] = <<>>
      BY <2>1, <2>3, Walks DEF Climbs, Walking
    <3>2. ~MustStop(f.svc)'
      BY <1>2, <2>3 DEF Climbs
    <3>3. QED
      BY <2>3, <3>1, <3>2 DEF Climbs
  <2>4. b.fn = "finishStop" /\ ~MustStop(b.svc)' => Climbs(f, b.svc)'
    BY <1>2, <1>4, <2>3 DEF Nested
  <2>5. b.fn \in Walking => f.fn # "start" /\ Calm(f.svc)'
    BY <1>4, <2>2 DEF Nested
  <2>6. QED
    BY <2>1, <2>4, <2>5 DEF Nested
<1>5. QED
  BY <1>3, <1>4

\* The running call goes on, calls another or returns.
LEMMA StackFramed ==
  ASSUME CallTypes, FrameInv, stack # <<>>,
         \A f \in Held : Alone(f)',
         \A f \in Held : \A b \in Held : Nested(f, b) => Nested(f, b)',
         \/ \E v : ReturnWith(v)
         \/ \E f : Continue(f) /\ Alone(f)' /\ \A b \in Held : Nested(f, b)'
         \/ \E f, g : /\ Invoke(f, g) /\ Alone(f)' /\ Alone(g)' /\ Nested(g, f)'
                      /\ \A b \in Held : Nested(f, b)' /\ Nested(g, b)'
  PROVE  FrameInv'
<1>1. PICK r \in Seq(GoodFrame) : r = Tail(stack)
  <2>1. stack \in Seq(GoodFrame) /\ stack # <<>>
    BY DEF CallTypes
  <2>2. Tail(stack) \in Seq(GoodFrame)
    BY <2>1
  <2>3. QED
    BY <2>2
<1>2. PICK t : t = stack'
  OBVIOUS
<1>3. /\ Len(r) \in Nat /\ DOMAIN r = 1..Len(r) /\ Len(stack) = Len(r) + 1
      /\ \A k \in 1..Len(r) : k + 1 \in 2..Len(stack) /\ r[k] = stack[k + 1]
  BY <1>1 DEF CallTypes
<1>4. \A k \in DOMAIN r : r[k] \in Held
  BY <1>3 DEF Held
<1>5. ASSUME NEW k \in DOMAIN r, NEW j \in 1..(k - 1) PROVE Nested(r[j], r[k])'
  <2>1. /\ k + 1 \in DOMAIN stack /\ j + 1 \in 1..((k + 1) - 1)
        /\ j \in DOMAIN r /\ r[k] = stack[k + 1] /\ r[j] = stack[j + 1]
    BY <1>3 DEF CallTypes
  <2>2. Nested(stack[j + 1], stack[k + 1])
    BY <2>1 DEF FrameInv
  <2>3. Nested(r[j], r[k])
    BY <2>1, <2>2
  <2>4. QED
    BY <1>4, <2>1, <2>3
<1>6. SUFFICES /\ \A k \in DOMAIN t : Alone(t[k])'
               /\ \A k \in DOMAIN t : \A j \in 1..(k - 1) : Nested(t[j], t[k])'
  BY <1>2 DEF FrameInv, Alone, Nested, Calm, Climbs, Busy
<1>7. CASE \E v : ReturnWith(v)
  BY <1>1, <1>2, <1>3, <1>4, <1>5, <1>7 DEF ReturnWith
<1>8. ASSUME NEW f, Continue(f), Alone(f)', \A b \in Held : Nested(f, b)'
      PROVE  /\ \A k \in DOMAIN t : Alone(t[k])'
             /\ \A k \in DOMAIN t : \A j \in 1..(k - 1) : Nested(t[j], t[k])'
  <2>1. t = <<f>> \o r
    BY <1>1, <1>2, <1>8 DEF Continue
  <2>2. <<f>> \in Seq({f} \union GoodFrame) /\ r \in Seq({f} \union GoodFrame)
    BY <1>1
  <2>3. /\ DOMAIN t = 1..(1 + Len(r)) /\ t[1] = f
        /\ \A k \in 2..(1 + Len(r)) : t[k] = r[k - 1]
    BY <2>1, <2>2
  <2>4. \A k \in DOMAIN t : k = 1 \/ (k \in 2..(1 + Len(r)) /\ k - 1 \in DOMAIN r)
    BY <1>3, <2>3
  <2>5. \A k \in DOMAIN t : Alone(t[k])'
    BY <1>4, <1>8, <2>3, <2>4
  <2>6. ASSUME NEW k \in DOMAIN t, NEW j \in 1..(k - 1) PROVE Nested(t[j], t[k])'
    <3>1. k \in 2..(1 + Len(r)) /\ k - 1 \in DOMAIN r /\ t[k] = r[k - 1]
      BY <1>3, <2>3, <2>4
    <3>2. CASE j = 1
      BY <1>4, <1>8, <2>3, <3>1, <3>2
    <3>3. CASE j # 1
      <4>1. j \in 2..(1 + Len(r)) /\ j - 1 \in 1..((k - 1) - 1) /\ t[j] = r[j - 1]
        BY <1>3, <2>3, <3>1, <3>3
      <4>2. QED
        BY <1>5, <3>1, <4>1
    <3>4. QED
      BY <3>2, <3>3
  <2>7. QED
    BY <2>5, <2>6
<1>9. ASSUME NEW f, NEW g, Invoke(f, g), Alone(f)', Alone(g)', Nested(g, f)',
             \A b \in Held : Nested(f, b)' /\ Nested(g, b)'
      PROVE  /\ \A k \in DOMAIN t : Alone(t[k])'
             /\ \A k \in DOMAIN t : \A j \in 1..(k - 1) : Nested(t[j], t[k])'
  <2>1. t = <<g, f>> \o r
    BY <1>1, <1>2, <1>9 DEF Invoke
  <2>2. <<g, f>> \in Seq({f, g} \union GoodFrame) /\ r \in Seq({f, g} \union GoodFrame)
    BY <1>1
  <2>3. /\ DOMAIN t = 1..(2 + Len(r)) /\ t[1] = g /\ t[2] = f
        /\ \A k \in 3..(2 + Len(r)) : t[k] = r[k - 2]
    BY <2>1, <2>2
  <2>4. \A k \in DOMAIN t : k = 1 \/ k = 2 \/ (k \in 3..(2 + Len(r)) /\ k - 2 \in DOMAIN r)
    BY <1>3, <2>3
  <2>5. \A k \in DOMAIN t : Alone(t[k])'
    BY <1>4, <1>9, <2>3, <2>4
  <2>6. ASSUME NEW k \in DOMAIN t, NEW j \in 1..(k - 1) PROVE Nested(t[j], t[k])'
    <3>1. CASE k = 2
      <4>1. j = 1
        BY <3>1
      <4>2. QED
        BY <1>9, <2>3, <3>1, <4>1
    <3>2. CASE k # 2
      <4>1. k \in 3..(2 + Len(r)) /\ k - 2 \in DOMAIN r /\ t[k] = r[k - 2]
        BY <1>3, <2>3, <2>4, <3>2
      <4>2. CASE j \in {1, 2}
        BY <1>4, <1>9, <2>3, <4>1, <4>2
      <4>3. CASE j \notin {1, 2}
        <5>1. j \in 3..(2 + Len(r)) /\ j - 2 \in 1..((k - 2) - 1) /\ t[j] = r[j - 2]
          BY <1>3, <2>3, <4>1, <4>3
        <5>2. QED
          BY <1>5, <4>1, <5>1
      <4>4. QED
        BY <4>2, <4>3
    <3>3. QED
      BY <3>1, <3>2
  <2>7. QED
    BY <2>5, <2>6
<1>10. QED
  BY <1>7, <1>8, <1>9

-----------------------------------------------------------------------------
(* The running call.                                                       *)

\* Nothing that is walked over changes, and nobody goes down, while a call is in
\* progress.
LEMMA WalkedStay ==
  ASSUME Acyclic, IgnoreClosed, TypeInv, FrameInv, Run
  PROVE  /\ stack # <<>> /\ tgts' = tgts
         /\ \A s \in Services : ~Excluded(s) => ~Excluded(s)'
         /\ \A s \in Services : WalksDependencies(s) => Excluded(s)'
         /\ \A s \in Services : WalksDependents(s) => dependedBy'[s] = dependedBy[s]
         /\ \A s \in Services :
              WalksDependencies(s) => deps'[s] = deps[s] \/ Len(stack') < Len(stack)
<1> USE DEF TypeInv, DataTypes
<1>1. stack # <<>> /\ tgts' = tgts
  BY DEF Run, ServiceStep, Update, RawStart, RawStartFails, RawStop, BeginStart,
         BeginStop, UpdateIsIdle, CommandReturns, TargetNext, TargetEnds, StartDepends,
         StartDepended, StartTriesAfter, StartTriedAfter, StartAddedAfter, UpdateSelf,
         ReturnFromTail, StopNext, CascadeEnters, CascadeNext, FinishStartNext,
         FinishStartFails, FinishStartEnds, FinishStopNext, FinishStopEnds, Runs,
         targetVars, CheckReach
<1>2. \A s : WalksDependencies(s) => Excluded(s) /\ s \in Services
  BY <1>1, Walks
<1>3. CASE UNCHANGED <<status, deps, dependedBy>>
  BY <1>1, <1>2, <1>3 DEF Excluded
<1>4. ASSUME NEW s \in Services, Update(s), ~(UNCHANGED <<status, deps, dependedBy>>)
      PROVE  /\ dependedBy' = dependedBy
             /\ \A r \in Services : ~Excluded(r) => ~Excluded(r)'
             /\ \A r \in Services :
                  WalksDependencies(r) => Excluded(r)' /\ deps'[r] = deps[r]
  <2>1. CASE \/ ReadyToStart(s) /\ (RawStart(s) \/ RawStartFails(s))
             \/ ReadyToStop(s) /\ RawStop(s)
             \/ WantsStop(s) /\ BeginStop(s)
    <3>1. ~Excluded(s)
      BY <2>1 DEF ReadyToStart, ReadyToStop, WantsStop, Excluded, Included
    <3>2. /\ UNCHANGED edgeVars
          /\ \A r \in Services \ {s} : status'[r] = status[r]
          /\ status'[s] \notin {"Inactive", "Failed"}
      BY <2>1 DEF RawStart, RawStartFails, RawStop, BeginStop, SetStatus
    <3>3. QED
      BY <1>2, <3>1, <3>2 DEF Excluded, edgeVars
  <2>2. CASE WantsStart(s) /\ BeginStart(s)
    <3>1. Top.fn = "update" /\ Top.svc = s /\ Excluded(s) /\ ~MustStop(s)
      BY <1>4, <2>2 DEF Update, Runs, WantsStart, ShouldRun
    <3>2. ~WalksDependencies(s)
      <4>1. SUFFICES ASSUME NEW b \in Held \union {Top}, b.fn = "finishStop", b.svc = s
                     PROVE  FALSE
        BY <1>1, Walks
      <4>2. b \in Held
        BY <3>1, <4>1
      <4>3. Climbs(Top, s)
        BY <1>1, <3>1, <4>1, <4>2, Frames DEF Nested
      <4>4. Level[s] < Level[s]
        BY <3>1, <4>3 DEF Climbs
      <4>5. Level[s] \in Nat
        BY DEF Acyclic, Level, Layered
      <4>6. QED
        BY <4>4, <4>5
    <3>3. /\ dependedBy' = dependedBy
          /\ \A r \in Services \ {s} : status'[r] = status[r] /\ deps'[r] = deps[r]
          /\ status'[s] = "Waiting"
      BY <2>2 DEF BeginStart, SetStatus
    <3>4. QED
      BY <1>2, <3>2, <3>3 DEF Excluded
  <2>3. ~UpdateIsIdle(s)
    BY <1>4 DEF UpdateIsIdle, serviceVars, edgeVars
  <2>4. QED
    BY <1>4, <2>1, <2>2, <2>3 DEF Update
<1>5. ASSUME NEW s \in Services,
             \/ StartDepends(s) \/ StartDepended(s)
             \/ StartTriesAfter(s) \/ StartTriedAfter(s) \/ StartAddedAfter(s)
      PROVE  /\ status' = status
             /\ \A r \in Services : ~WalksDependents(r)
             /\ \A r \in Services : WalksDependencies(r) => deps'[r] = deps[r]
  <2>1. Top.fn = "start" /\ Top.svc = s /\ status' = status
    BY <1>5 DEF StartDepends, StartDepended, StartTriesAfter, StartTriedAfter,
                StartAddedAfter, Runs, serviceVars
  <2>2. ~Excluded(s)
    <3>1. Alone(Top)
      BY <1>1, Frames
    <3>2. Busy(Top) /\ Top.svc = s
      BY <2>1 DEF Busy
    <3>3. QED
      BY <3>1, <3>2, Zenon DEF Alone
  <2>3. \A r : ~WalksDependents(r)
    BY <1>1, <2>1, Walks DEF Walking
  <2>4. \A r \in Services \ {s} : deps'[r] = deps[r]
    BY <1>5 DEF StartDepends, StartDepended, StartTriesAfter, StartTriedAfter,
                StartAddedAfter, AddEdge, DropEdge, edgeVars
  <2>5. QED
    BY <1>2, <2>1, <2>2, <2>3, <2>4
<1>6. ASSUME NEW s \in Services, FinishStopNext(s) \/ FinishStopEnds(s)
      PROVE  /\ status' = status
             /\ \A r \in Services : ~WalksDependents(r)
             /\ deps' = deps \/ Len(stack') < Len(stack)
  <2>1. Top.fn = "finishStop" /\ status' = status
    BY <1>6 DEF FinishStopNext, FinishStopEnds, Runs, serviceVars
  <2>2. \A r : ~WalksDependents(r)
    BY <1>1, <2>1, Walks DEF Walking
  <2>3. CASE FinishStopNext(s)
    BY <2>1, <2>2, <2>3 DEF FinishStopNext
  <2>4. CASE FinishStopEnds(s)
    <3>1. stack' = Tail(stack)
      BY <2>4 DEF FinishStopEnds, ReturnWith
    <3>2. stack \in Seq(GoodFrame)
      BY DEF CallTypes
    <3>3. Len(Tail(stack)) = Len(stack) - 1 /\ Len(stack) \in Nat
      BY <1>1, <3>2
    <3>4. Len(stack') < Len(stack)
      <4>1. Len(stack') = Len(stack) - 1
        BY <3>1, <3>3, Zenon
      <4>2. QED
        BY <3>3, <4>1
    <3>5. QED
      BY <2>1, <2>2, <3>4
  <2>5. QED
    BY <1>6, <2>3, <2>4
<1>7. \/ UNCHANGED <<status, deps, dependedBy>>
      \/ \E s \in Services :
           \/ Update(s) \/ FinishStopNext(s) \/ FinishStopEnds(s)
           \/ StartDepends(s) \/ StartDepended(s)
           \/ StartTriesAfter(s) \/ StartTriedAfter(s) \/ StartAddedAfter(s)
  BY DEF Run, ServiceStep, CommandReturns, TargetNext, TargetEnds, UpdateSelf,
         ReturnFromTail, StopNext, CascadeEnters, CascadeNext, FinishStartNext,
         FinishStartFails, FinishStartEnds, serviceVars, edgeVars
<1>8. ASSUME NEW s \in Services, Update(s) PROVE
         /\ \A r \in Services : ~Excluded(r) => ~Excluded(r)'
         /\ \A r \in Services : WalksDependencies(r) => Excluded(r)'
         /\ \A r \in Services : WalksDependents(r) => dependedBy'[r] = dependedBy[r]
         /\ \A r \in Services :
              WalksDependencies(r) => deps'[r] = deps[r] \/ Len(stack') < Len(stack)
  BY <1>2, <1>4, <1>8 DEF Excluded
<1>9. QED
  BY <1>1, <1>2, <1>3, <1>5, <1>6, <1>7, <1>8 DEF Excluded

\* What has to be shown of a step of the running call.
LEMMA RunFramed ==
  ASSUME Acyclic, IgnoreClosed, TypeInv, FrameInv, Run,
         \/ \E v : ReturnWith(v)
         \/ \E f : Continue(f) /\ Alone(f)' /\ \A b \in Held : Nested(f, b)'
         \/ \E f, g : /\ Invoke(f, g) /\ Alone(f)' /\ Alone(g)' /\ Nested(g, f)'
                      /\ \A b \in Held : Nested(f, b)' /\ Nested(g, b)'
  PROVE  FrameInv'
<1>1. /\ stack # <<>> /\ tgts' = tgts
      /\ \A s \in Services : ~Excluded(s) => ~Excluded(s)'
      /\ \A s \in Services : WalksDependencies(s) => Excluded(s)'
      /\ \A s \in Services : WalksDependents(s) => dependedBy'[s] = dependedBy[s]
  BY WalkedStay
<1>2. /\ \A f \in Held : Alone(f)'
      /\ \A f \in Held : \A b \in Held : Nested(f, b) => Nested(f, b)'
  BY <1>1, HeldStays DEF TypeInv
<1>3. QED
  BY <1>1, <1>2, StackFramed DEF TypeInv

\* A frame that goes on is the call it was.
LEMMA SameCall ==
  ASSUME CallTypes, FrameInv, stack # <<>>, NEW f, f.fn = Top.fn, f.svc = Top.svc
  PROVE  \A b \in Held : Nested(f, b)
<1>1. \A b \in Held : Nested(Top, b)
  BY Frames
<1>2. ASSUME NEW b \in Held PROVE Nested(f, b)
  BY <1>1 DEF Nested, Climbs
<1>3. QED
  BY <1>2

\* start() goes on, or updates a service that its own needs.
LEMMA StartFramed ==
  ASSUME Acyclic, IgnoreClosed, TypeInv, FrameInv, NEW s \in Services,
         \/ StartDepends(s) \/ StartDepended(s)
         \/ StartTriesAfter(s) \/ StartTriedAfter(s) \/ StartAddedAfter(s)
  PROVE  FrameInv'
<1>1. Run /\ stack # <<>>
  BY DEF Run, ServiceStep, StartDepends, StartDepended, StartTriesAfter,
         StartTriedAfter, StartAddedAfter, Runs
<1>2. PICK label : Runs("start", s, label)
  BY DEF StartDepends, StartDepended, StartTriesAfter, StartTriedAfter, StartAddedAfter
<1>3. Top \in GoodServiceFrame /\ Top.fn = "start" /\ Top.svc = s /\ Top.at = label
  BY <1>1, <1>2, ServiceTop DEF TypeInv, Runs
<1>4. ~Excluded(s)
  <2>1. Alone(Top)
    BY <1>1, Frames DEF TypeInv
  <2>2. Busy(Top) /\ Top.svc = s
    BY <1>3 DEF Busy
  <2>3. QED
    BY <2>1, <2>2, Zenon DEF Alone
<1>5. /\ UNCHANGED <<status, tgts>>
      /\ \A r : MustStop(r)' = MustStop(r)
  BY DEF StartDepends, StartDepended, StartTriesAfter, StartTriedAfter, StartAddedAfter,
         serviceVars, targetVars, MustStop, IsShutdown, HasAttribute
<1>6. \A b \in Held : b.fn \notin Walking /\ Nested(Top, b)
  BY <1>1, <1>3, Frames, Walks DEF TypeInv
<1>7. ASSUME NEW f, f.fn = "start", f.svc = s
      PROVE  /\ Alone(f)' /\ \A b \in Held : Nested(f, b)'
             /\ \A g : g.fn = "update" => Nested(g, f)'
  <2>1. Alone(f)'
    BY <1>4, <1>5, <1>7 DEF Alone, Excluded
  <2>2. \A b \in Held : Nested(f, b)'
    BY <1>3, <1>5, <1>6, <1>7 DEF Nested, Climbs
  <2>3. \A g : g.fn = "update" => Nested(g, f)'
    BY <1>7 DEF Nested, Walking
  <2>4. QED
    BY <2>1, <2>2, <2>3
<1>8. ASSUME NEW d \in Below(s), NEW g, g.fn = "update", g.svc = d
      PROVE  Alone(g)' /\ \A b \in Held : Nested(g, b)'
  <2>1. Alone(g)'
    BY <1>8 DEF Alone, Busy
  <2>2. ASSUME NEW b \in Held, b.fn = "finishStop", ~MustStop(b.svc)
        PROVE  Climbs(g, b.svc)'
    <3>1. Level[s] < Level[b.svc] /\ ~MustStop(s)
      BY <1>3, <1>6, <2>2 DEF Nested, Climbs
    <3>2. b.svc \in Services
      BY <1>1, <2>2, Frames, ServiceOf DEF TypeInv
    <3>3. Level[b.svc] \in Nat
      BY <3>2 DEF Acyclic, Level, Layered
    <3>4. Level[d] < Level[b.svc] /\ ~MustStop(d)
      BY <3>1, <3>3, BelowIs
    <3>5. QED
      BY <1>5, <1>8, <3>4 DEF Climbs
  <2>3. QED
    BY <1>5, <1>6, <1>8, <2>1, <2>2 DEF Nested
<1>9. Call("update", DependAt(s).name).fn = "update" /\ Call("update", AfterAt(s)).fn = "update"
  BY DEF Call
<1>10. /\ Call("update", DependAt(s).name).svc = DependAt(s).name
       /\ Call("update", AfterAt(s)).svc = AfterAt(s)
  BY DEF Call
<1>11. /\ \A l : At(l).fn = "start" /\ At(l).svc = s
       /\ Next1.fn = "start" /\ Next1.svc = s
  BY <1>3 DEF At, Next1, GoodServiceFrame, ServiceFrame
<1>12. \/ \E v : ReturnWith(v)
       \/ Continue(Next1)
       \/ \E l, d : d \in Below(s) /\ Invoke(At(l), Call("update", d))
  BY <1>2, <1>3, LinesAreBelow DEF StartDepends, StartDepended, StartTriesAfter,
                                   StartTriedAfter, StartAddedAfter, Runs
<1>13. CASE \E v : ReturnWith(v)
  BY <1>1, <1>13, RunFramed
<1>14. CASE Continue(Next1)
  BY <1>1, <1>7, <1>11, <1>14, RunFramed
<1>15. ASSUME NEW l, NEW d \in Below(s), Invoke(At(l), Call("update", d)) PROVE FrameInv'
  <2>1. Call("update", d).fn = "update" /\ Call("update", d).svc = d
    BY DEF Call
  <2>2. At(l).fn = "start" /\ At(l).svc = s
    BY <1>11
  <2>3. PICK f, g : f = At(l) /\ g = Call("update", d)
    OBVIOUS
  <2>4. Alone(f)' /\ Alone(g)' /\ Nested(g, f)' /\ \A b \in Held : Nested(f, b)' /\ Nested(g, b)'
    BY <1>7, <1>8, <2>1, <2>2, <2>3
  <2>5. Invoke(f, g)
    BY <1>15, <2>3
  <2>6. QED
    BY <1>1, <2>4, <2>5, RunFramed
<1>16. QED
  BY <1>12, <1>13, <1>14, <1>15

\* update(s) starts its service, stops it, or is done.
LEMMA UpdateFramed ==
  ASSUME Acyclic, IgnoreClosed, TypeInv, LockInv, FrameInv, NEW s \in Services, Update(s)
  PROVE  FrameInv'
<1>1. /\ Run /\ stack # <<>> /\ Runs("update", s, "next")
      /\ Top.fn = "update" /\ Top.svc = s
  BY DEF Run, ServiceStep, Update, Runs
<1>2. \A b \in Held : Nested(Top, b)
  BY <1>1, Frames DEF TypeInv
<1>3. /\ UNCHANGED <<dependedBy, tgts>>
      /\ \A r : MustStop(r)' = MustStop(r)
  BY DEF Update, RawStart, RawStartFails, RawStop, BeginStart, BeginStop, UpdateIsIdle,
         edgeVars, targetVars, MustStop, IsShutdown, HasAttribute
<1>4. CASE WantsStart(s) /\ BeginStart(s)
  <2>1. Excluded(s) /\ ~MustStop(s)
    BY <1>4 DEF WantsStart, ShouldRun
  <2>2. PICK f : f = Call("start", s)
    OBVIOUS
  <2>3. f.fn = "start" /\ f.svc = s /\ Continue(f)
    BY <1>4, <2>2 DEF Call, BeginStart
  <2>4. ~Excluded(s)'
    BY <1>4 DEF BeginStart, SetStatus, Excluded, TypeInv, DataTypes
  <2>5. Alone(f)'
    BY <2>3, <2>4 DEF Alone
  <2>6. ASSUME NEW b \in Held PROVE Nested(f, b)'
    <3>1. b.fn \notin Walking
      BY <1>1, <1>2, <2>1 DEF Nested, Calm
    <3>2. b.fn = "finishStop" /\ ~MustStop(b.svc) => Climbs(Top, b.svc)
      BY <1>2 DEF Nested
    <3>3. b.fn = "finishStop" /\ ~MustStop(b.svc)' => Climbs(f, b.svc)'
      BY <1>1, <1>3, <2>3, <3>2 DEF Climbs
    <3>4. QED
      BY <2>3, <3>1, <3>3 DEF Nested
  <2>7. QED
    BY <1>1, <2>3, <2>5, <2>6, RunFramed
<1>5. CASE WantsStop(s) /\ BeginStop(s)
  <2>1. Included(s) /\ ~ShouldRun(s)
    BY <1>5 DEF WantsStop
  <2>2. PICK f : f = Call("stop", s)
    OBVIOUS
  <2>3. f.fn = "stop" /\ f.svc = s /\ Continue(f)
    BY <1>5, <2>2 DEF Call, BeginStop
  <2>4. ~Excluded(s)'
    BY <1>5 DEF BeginStop, SetStatus, Excluded, TypeInv, DataTypes
  <2>5. Alone(f)'
    BY <2>3, <2>4 DEF Alone
  <2>6. ASSUME NEW b \in Held PROVE Nested(f, b)'
    <3>1. ~failLocked[s]
      <4>1. Held # {} => stack # <<Call("update", s)>>
        BY DEF Held
      <4>2. QED
        BY <2>1, <4>1 DEF LockInv
    <3>2. ~MustStop(s) => dependedBy[s] = <<>>
      BY <2>1, <3>1 DEF ShouldRun
    <3>3. b.fn = "finishStop" /\ ~MustStop(b.svc) => Climbs(Top, b.svc)
      BY <1>2 DEF Nested
    <3>4. b.fn = "finishStop" /\ ~MustStop(b.svc)' => Climbs(f, b.svc)'
      BY <1>1, <1>3, <2>3, <3>2, <3>3 DEF Climbs
    <3>5. Calm(s)'
      BY <2>4 DEF Calm
    <3>6. QED
      BY <2>3, <3>4, <3>5 DEF Nested
  <2>7. QED
    BY <1>1, <2>3, <2>5, <2>6, RunFramed
<1>6. CASE RawStart(s) \/ RawStartFails(s) \/ RawStop(s) \/ UpdateIsIdle(s)
  <2>1. \E v : ReturnWith(v)
    BY <1>6 DEF RawStart, RawStartFails, RawStop, UpdateIsIdle
  <2>2. QED
    BY <1>1, <2>1, RunFramed
<1>7. QED
  BY <1>4, <1>5, <1>6 DEF Update

\* Who depends on a service that is stopped, cascaded or finished is not down,
\* or will not be started.
LEMMA DependentsCalm ==
  ASSUME TypeInv, FrameInv, EdgeInv, NEW s \in Services, stack # <<>>,
         Top.fn \in Walking, Top.svc = s, Top.i \in Nat \ {0}, MoreDependents(s)
  PROVE  /\ DependentAt(s).name \in Services
         /\ Calm(DependentAt(s).name)
         /\ \A b \in Held : b.fn = "finishStop" => MustStop(b.svc)
<1> USE DEF TypeInv, DataTypes
<1>1. \A b \in Held : Nested(Top, b)
  BY Frames
<1>2. /\ dependedBy[s] \in Seq(Edge) /\ Top.i \in DOMAIN dependedBy[s]
      /\ dependedBy[s] # <<>> /\ DependentAt(s) \in Edge
  BY DEF MoreDependents, DependentAt
<1>3. \A b \in Held : b.fn = "finishStop" => MustStop(b.svc)
  BY <1>1, <1>2 DEF Nested, Climbs, Walking
<1>4. PICK a \in Services, o \in BOOLEAN : DependentAt(s) = To(a, o)
  BY <1>2 DEF Edge, To
<1>5. DependentAt(s).name = a
  BY <1>4 DEF To
<1>6. Calm(a)
  <2>1. CASE WalksDependencies(a)
    <3>1. PICK f \in Held \union {Top} : f.fn = "finishStop" /\ f.svc = a
      BY <2>1, Walks
    <3>2. f \in Held
      BY <3>1 DEF Walking
    <3>3. MustStop(a)
      BY <1>3, <3>1, <3>2
    <3>4. QED
      BY <3>3 DEF Calm
  <2>2. CASE ~WalksDependencies(a)
    <3>1. Count(deps[a], {To(s, o)}) = Count(dependedBy[s], {To(a, o)})
      BY <2>2 DEF EdgeInv, Mirror
    <3>2. Count(dependedBy[s], {To(a, o)}) # 0
      <4>1. dependedBy[s][Top.i] \in {To(a, o)}
        BY <1>4 DEF DependentAt
      <4>2. QED
        BY <1>2, <4>1, CountIsNat
    <3>3. deps[a] # <<>>
      BY <3>1, <3>2, CountEmpty
    <3>4. QED
      BY <2>2, <3>3 DEF EdgeInv, Calm
  <2>3. QED
    BY <2>1, <2>2
<1>7. QED
  BY <1>3, <1>5, <1>6

\* stop(), cascadeStop() and finishStart() go on to the next dependent.
LEMMA WalkFramed ==
  ASSUME Acyclic, IgnoreClosed, TypeInv, FrameInv, EdgeInv, NEW s \in Services,
         StopNext(s) \/ CascadeNext(s) \/ FinishStartNext(s)
  PROVE  FrameInv'
<1>1. /\ Run /\ stack # <<>> /\ Top.fn \in Walking /\ Top.svc = s /\ Top.at = "next"
      /\ MoreDependents(s) /\ UNCHANGED <<status, dependedBy, tgts>>
  BY DEF Run, ServiceStep, StopNext, CascadeNext, FinishStartNext, Runs, Walking,
         serviceVars, edgeVars, targetVars
<1>2. /\ Top \in GoodServiceFrame /\ Top.i \in Nat \ {0}
      /\ Next1.fn = Top.fn /\ Next1.svc = s
  <2>1. Top \in GoodServiceFrame /\ Top.i \in Nat \ {0}
    BY <1>1, ServiceTop DEF TypeInv, StopNext, CascadeNext, FinishStartNext, Runs
  <2>2. QED
    BY <1>1, <2>1 DEF Next1, GoodServiceFrame, ServiceFrame
<1>3. PICK a : a = DependentAt(s).name
  OBVIOUS
<1>4. a \in Services /\ Calm(a) /\ \A b \in Held : b.fn = "finishStop" => MustStop(b.svc)
  BY <1>1, <1>2, <1>3, DependentsCalm
<1>5. PICK f : f = Next1
  OBVIOUS
<1>6. ~Excluded(s)
  <2>1. Alone(Top)
    BY <1>1, Frames DEF TypeInv
  <2>2. Busy(Top)
    BY <1>1 DEF Busy, Walking
  <2>3. QED
    BY <1>1, <2>1, <2>2, Zenon DEF Alone
<1>7. \A b \in Held : Nested(f, b)
  BY <1>1, <1>2, <1>5, SameCall DEF TypeInv
<1>8. /\ \A r : MustStop(r)' = MustStop(r)
      /\ \A r : Excluded(r)' = Excluded(r)
  BY <1>1 DEF MustStop, IsShutdown, HasAttribute, Excluded
<1>9. Alone(f)' /\ \A b \in Held : Nested(f, b)'
  <2>1. Alone(f)'
    BY <1>1, <1>2, <1>5, <1>6, <1>8 DEF Alone, Walking
  <2>2. \A b \in Held : Nested(f, b)'
    BY <1>1, <1>7, <1>8 DEF Nested, Climbs, Calm
  <2>3. QED
    BY <2>1, <2>2
<1>10. ASSUME NEW g, g.fn = "update" \/ (g.fn = "cascadeStop" /\ g.at = "enter"), g.svc = a
       PROVE  Alone(g)' /\ Nested(g, f)' /\ \A b \in Held : Nested(g, b)'
  <2>1. Alone(g)'
    BY <1>10 DEF Alone, Busy
  <2>2. Calm(a)'
    BY <1>4, <1>8 DEF Calm
  <2>3. Nested(g, f)'
    BY <1>1, <1>2, <1>5, <1>10, <2>2 DEF Nested, Walking
  <2>4. \A b \in Held : Nested(g, b)'
    BY <1>4, <1>8, <1>10, <2>2 DEF Nested
  <2>5. QED
    BY <2>1, <2>3, <2>4
<1>11. \/ Continue(f)
       \/ Invoke(f, Call("update", a))
       \/ Invoke(f, CascadeCall(a))
  BY <1>3, <1>5 DEF StopNext, CascadeNext, FinishStartNext
<1>12. CASE Continue(f)
  BY <1>1, <1>9, <1>12, RunFramed
<1>13. ASSUME NEW g, Invoke(f, g), g = Call("update", a) \/ g = CascadeCall(a)
       PROVE  FrameInv'
  <2>1. (g.fn = "update" \/ (g.fn = "cascadeStop" /\ g.at = "enter")) /\ g.svc = a
    BY <1>13 DEF Call, CascadeCall
  <2>2. Alone(g)' /\ Nested(g, f)' /\ \A b \in Held : Nested(g, b)'
    BY <1>10, <2>1
  <2>3. QED
    BY <1>1, <1>9, <1>13, <2>2, RunFramed
<1>14. QED
  BY <1>11, <1>12, <1>13

\* start(), stop() and cascadeStop() end with update() of their own service.
LEMMA UpdateSelfFramed ==
  ASSUME Acyclic, IgnoreClosed, TypeInv, FrameInv, NEW s \in Services, UpdateSelf(s)
  PROVE  FrameInv'
<1>1. PICK fn \in {"start", "stop", "cascadeStop"} : Runs(fn, s, "next")
  BY DEF UpdateSelf
<1>2. /\ Run /\ stack # <<>> /\ Top.fn = fn /\ Top.svc = s /\ Top.at = "next"
      /\ Top \in GoodServiceFrame
  BY <1>1, ServiceTop DEF Run, ServiceStep, Runs, TypeInv
<1>3. PICK f, g : f = At("tail") /\ g = Call("update", s)
  OBVIOUS
<1>4. /\ f.fn = fn /\ f.svc = s /\ f.at = "tail" /\ g.fn = "update" /\ g.svc = s
      /\ Invoke(f, g)
  BY <1>2, <1>3 DEF At, Call, GoodServiceFrame, ServiceFrame, UpdateSelf
<1>5. /\ \A r : MustStop(r)' = MustStop(r)
      /\ \A r : Excluded(r)' = Excluded(r)
      /\ dependedBy' = dependedBy
  BY DEF UpdateSelf, serviceVars, edgeVars, targetVars, MustStop, IsShutdown, HasAttribute,
         Excluded
<1>6. ~Excluded(s)
  <2>1. Alone(Top)
    BY <1>2, Frames DEF TypeInv
  <2>2. Busy(Top)
    BY <1>2 DEF Busy
  <2>3. QED
    BY <1>2, <2>1, <2>2, Zenon DEF Alone
<1>7. \A b \in Held : Nested(f, b)
  BY <1>2, <1>4, SameCall DEF TypeInv
<1>8. \A b \in Held : Nested(f, b)' /\ Nested(g, b)'
  <2>1. \A b \in Held : Nested(f, b)'
    BY <1>5, <1>7 DEF Nested, Climbs, Calm
  <2>2. ASSUME NEW b \in Held PROVE Nested(g, b)'
    BY <1>4, <1>5, <1>6, <1>7 DEF Nested, Climbs, Calm
  <2>3. QED
    BY <2>1, <2>2
<1>9. Alone(f)' /\ Alone(g)' /\ Nested(g, f)'
  <2>1. Alone(f)' /\ Alone(g)'
    BY <1>4, <1>5, <1>6 DEF Alone, Busy
  <2>2. Nested(g, f)'
    BY <1>4, <1>5, <1>6 DEF Nested, Calm
  <2>3. QED
    BY <2>1, <2>2
<1>10. QED
  BY <1>2, <1>4, <1>8, <1>9, RunFramed

\* cascadeStop() goes on only for a service that runs.
LEMMA CascadeFramed ==
  ASSUME Acyclic, IgnoreClosed, TypeInv, FrameInv, NEW s \in Services, CascadeEnters(s)
  PROVE  FrameInv'
<1>1. /\ Run /\ stack # <<>> /\ Runs("cascadeStop", s, "enter")
      /\ Top.fn = "cascadeStop" /\ Top.svc = s
  BY DEF Run, ServiceStep, CascadeEnters, Runs
<1>2. Top \in GoodServiceFrame
  BY <1>1, ServiceTop DEF TypeInv
<1>3. CASE \E v : ReturnWith(v)
  BY <1>1, <1>3, RunFramed
<1>4. CASE Included(s) /\ Continue(At("next"))
  <2>1. PICK f : f = At("next")
    OBVIOUS
  <2>2. f.fn = "cascadeStop" /\ f.svc = s /\ Continue(f)
    BY <1>1, <1>2, <1>4, <2>1 DEF At, GoodServiceFrame, ServiceFrame
  <2>3. /\ \A r : MustStop(r)' = MustStop(r)
        /\ \A r : Excluded(r)' = Excluded(r)
        /\ dependedBy' = dependedBy
    BY DEF CascadeEnters, edgeVars, targetVars, MustStop, IsShutdown, HasAttribute,
           Excluded
  <2>4. \A b \in Held : Nested(f, b)
    BY <1>1, <2>2, SameCall DEF TypeInv
  <2>5. \A b \in Held : Nested(f, b)'
    BY <2>3, <2>4 DEF Nested, Climbs, Calm
  <2>6. Alone(f)'
    BY <1>4, <2>2, <2>3 DEF Alone, Included, Excluded
  <2>7. QED
    BY <1>1, <2>2, <2>5, <2>6, RunFramed
<1>5. QED
  BY <1>3, <1>4 DEF CascadeEnters

\* finishStop() is at the bottom, and updates what its service needed.
LEMMA FinishStopFramed ==
  ASSUME Acyclic, IgnoreClosed, TypeInv, FrameInv, EdgeInv, NEW s \in Services,
         FinishStopNext(s)
  PROVE  FrameInv'
<1> USE DEF TypeInv, DataTypes
<1>1. /\ Run /\ stack # <<>> /\ Runs("finishStop", s, "next")
      /\ Top.fn = "finishStop" /\ Top.svc = s /\ Top.i <= Len(deps[s])
  BY DEF Run, ServiceStep, FinishStopNext, Runs
<1>2. Top \in GoodServiceFrame /\ Top.i \in Nat \ {0}
  BY <1>1, ServiceTop
<1>3. Held = {} /\ Excluded(s)
  <2>1. Held = {} /\ Alone(Top)
    BY <1>1, Walks, Frames
  <2>2. QED
    BY <1>1, <2>1 DEF Alone
<1>4. PICK d : d = deps[s][Top.i].name
  OBVIOUS
<1>5. d \in Below(s)
  <2>1. deps[s] \in Seq(Edge)
    OBVIOUS
  <2>2. Top.i \in DOMAIN deps[s]
    BY <1>1, <1>2, <2>1
  <2>3. QED
    BY <1>4, <2>2 DEF EdgeInv
<1>6. PICK f, g : f = Next1 /\ g = Call("update", d)
  OBVIOUS
<1>7. /\ f.fn = "finishStop" /\ f.svc = s /\ g.fn = "update" /\ g.svc = d
      /\ Invoke(f, g)
  BY <1>1, <1>2, <1>4, <1>6 DEF Next1, Call, GoodServiceFrame, ServiceFrame, FinishStopNext
<1>8. /\ \A r : MustStop(r)' = MustStop(r)
      /\ \A r : Excluded(r)' = Excluded(r)
  BY DEF FinishStopNext, serviceVars, targetVars, MustStop, IsShutdown, HasAttribute, Excluded
<1>9. Alone(f)' /\ Alone(g)'
  BY <1>3, <1>7, <1>8 DEF Alone, Busy
<1>10. Nested(g, f)'
  <2>1. ~MustStop(s)' => Climbs(g, s)'
    BY <1>5, <1>7, <1>8, BelowIs DEF Climbs
  <2>2. QED
    BY <1>7, <2>1 DEF Nested, Walking
<1>11. QED
  BY <1>1, <1>3, <1>7, <1>9, <1>10, RunFramed

\* setTarget is at the bottom, and updates any service.
LEMMA TargetFramed ==
  ASSUME Acyclic, IgnoreClosed, TypeInv, FrameInv, TargetNext
  PROVE  FrameInv'
<1>1. Run /\ stack # <<>> /\ Top.fn = "setTarget"
  BY DEF Run, TargetNext
<1>2. Held = {}
  BY <1>1, Walks DEF TypeInv
<1>3. PICK s \in Top.todo : Invoke([Top EXCEPT !.todo = @ \ {s}], Call("update", s))
  BY DEF TargetNext
<1>4. PICK f, g : f = [Top EXCEPT !.todo = @ \ {s}] /\ g = Call("update", s)
  OBVIOUS
<1>5. Invoke(f, g) /\ f.fn = "setTarget" /\ g.fn = "update"
  <2>1. Top \in GoodFrame
    BY <1>1, Frames DEF TypeInv
  <2>2. Top \in TargetFrame
    BY <1>1, <2>1 DEF GoodFrame, GoodServiceFrame, ServiceFrame, TargetFrame, CommandFrame
  <2>3. QED
    BY <1>1, <1>3, <1>4, <2>2 DEF TargetFrame, Call
<1>6. Alone(f)' /\ Alone(g)' /\ Nested(g, f)'
  BY <1>5 DEF Alone, Busy, Nested, Walking
<1>7. QED
  BY <1>1, <1>2, <1>5, <1>6, RunFramed

\* Every step of the running call keeps the calls what they are.
LEMMA RunKeepsFrames ==
  ASSUME Acyclic, IgnoreClosed, TypeInv, EdgesInv, Run
  PROVE  FrameInv'
<1> USE DEF EdgesInv
<1>1. ASSUME NEW s \in Services,
             \/ ReturnFromTail(s) \/ FinishStartFails(s) \/ FinishStartEnds(s)
             \/ FinishStopEnds(s)
      PROVE  FrameInv'
  BY <1>1, RunFramed DEF ReturnFromTail, FinishStartFails, FinishStartEnds, FinishStopEnds
<1>2. CASE CommandReturns \/ TargetEnds
  BY <1>2, RunFramed DEF CommandReturns, TargetEnds
<1>3. QED
  BY <1>1, <1>2, StartFramed, UpdateFramed, WalkFramed, UpdateSelfFramed, CascadeFramed,
     FinishStopFramed, TargetFramed DEF Run, ServiceStep

-----------------------------------------------------------------------------
(* Requests and reports.                                                   *)

\* A report begins with one call, finishStop() of a service that is down, or
\* finishStart() of one that runs, or update().
LEMMA DeliverFrames ==
  ASSUME TypeInv, NEW s \in Services, Deliver(s)
  PROVE  FrameInv'
<1>1. \/ FinishStartService(s) \/ ServiceFinishes(s) \/ FailService(s) \/ FinishStopService(s)
  <2>1. outbox[s] \in Seq(Message) /\ outbox[s] # <<>> /\ Handler(s, Head(outbox[s]))
    BY DEF Deliver, TypeInv, DataTypes, LaunchTypeOK
  <2>2. Head(outbox[s]) \in Message
    BY <2>1
  <2>3. QED
    BY <2>1, <2>2 DEF Handler, Message
<1>2. PICK f : stack' = <<f>> /\ Alone(f)'
  <2>1. CASE FinishStartService(s)
    <3>1. stack' = <<Call("finishStart", s)>> /\ ~Excluded(s)'
      BY <2>1 DEF FinishStartService, Serve, SetStatus, Excluded, TypeInv, DataTypes
    <3>2. PICK f : f = Call("finishStart", s)
      OBVIOUS
    <3>3. f.fn = "finishStart" /\ f.svc = s
      BY <3>2 DEF Call
    <3>4. Alone(f)'
      BY <3>1, <3>3 DEF Alone
    <3>5. QED
      BY <3>1, <3>2, <3>4
  <2>2. CASE FinishStopService(s)
    <3>1. stack' = <<Call("finishStop", s)>> /\ Excluded(s)'
      BY <2>2 DEF FinishStopService, Serve, SetStatus, Excluded, TypeInv, DataTypes
    <3>2. PICK f : f = Call("finishStop", s)
      OBVIOUS
    <3>3. f.fn = "finishStop" /\ f.svc = s
      BY <3>2 DEF Call
    <3>4. Alone(f)'
      BY <3>1, <3>3 DEF Alone, Busy
    <3>5. QED
      BY <3>1, <3>2, <3>4
  <2>3. CASE ServiceFinishes(s) \/ FailService(s)
    <3>1. stack' = <<Call("update", s)>>
      BY <2>3 DEF ServiceFinishes, FailService, Serve
    <3>2. PICK f : f = Call("update", s)
      OBVIOUS
    <3>3. f.fn = "update"
      BY <3>2 DEF Call
    <3>4. Alone(f)'
      BY <3>3 DEF Alone, Busy
    <3>5. QED
      BY <3>1, <3>2, <3>4
  <2>4. QED
    BY <1>1, <2>1, <2>2, <2>3
<1>3. QED
  BY <1>2 DEF FrameInv, Alone, Busy

\* A request begins with no call, with setTarget or cascadeStop(), or with
\* update() made by a command.
LEMMA RequestFrames ==
  ASSUME LockInv, Boot \/ \E c \in Clients : Request(c)
  PROVE  FrameInv'
<1>1. stack = <<>>
  BY DEF Boot, Request, Idle, LockInv
<1>2. \/ stack' = <<>>
      \/ \E f : stack' = <<f>> /\ ~Busy(f) /\ f.fn # "finishStop"
      \/ \E f, g : stack' = <<f, g>> /\ f.fn = "update" /\ g.fn = "command"
  <2>1. ASSUME NEW t \in Targets, SetTarget(t)
        PROVE  stack' = <<>> \/ \E f : stack' = <<f>> /\ ~Busy(f) /\ f.fn # "finishStop"
    BY <1>1, <2>1 DEF SetTarget, EnterTarget, EnterTargetFails, callVars, Serve, Busy
  <2>2. ASSUME NEW s \in Services, NEW c \in Clients, StartService(s, c) \/ StopService(s, c)
        PROVE  stack' = <<>> \/ stack' = <<Call("update", s), Command(c)>>
    BY <1>1, <2>2 DEF StartService, StopService, Refuse, callVars, Serve
  <2>3. ASSUME NEW s \in Services, NEW c \in Clients, CascadeStopService(s, c)
        PROVE  stack' = <<>> \/ stack' = <<CascadeCall(s)>>
    BY <1>1, <2>3 DEF CascadeStopService, callVars, Serve
  <2>4. \A s : ~Busy(CascadeCall(s)) /\ CascadeCall(s).fn # "finishStop"
    BY DEF CascadeCall, Call, Busy
  <2>5. \A s, c : Call("update", s).fn = "update" /\ Command(c).fn = "command"
    BY DEF Call, Command
  <2>6. CASE \E t \in Targets : SetTarget(t)
    BY <2>1, <2>6
  <2>7. CASE \E s \in Services, c \in Clients : StartService(s, c) \/ StopService(s, c)
    BY <2>2, <2>5, <2>7
  <2>8. CASE \E s \in Services, c \in Clients : CascadeStopService(s, c)
    BY <2>3, <2>4, <2>8
  <2>9. QED
    BY <2>6, <2>7, <2>8, DaemonAssumption DEF Boot, Request
<1>3. CASE stack' = <<>>
  BY <1>3 DEF FrameInv
<1>4. ASSUME NEW f, stack' = <<f>>, ~Busy(f), f.fn # "finishStop"
      PROVE  FrameInv'
  BY <1>4 DEF FrameInv, Alone, Busy
<1>5. ASSUME NEW f, NEW g, stack' = <<f, g>>, f.fn = "update", g.fn = "command"
      PROVE  FrameInv'
  <2>1. \A k \in DOMAIN <<f, g>> : k = 1 \/ k = 2
    OBVIOUS
  <2>2. <<f, g>>[1] = f /\ <<f, g>>[2] = g
    OBVIOUS
  <2>3. /\ \A k \in DOMAIN stack' : stack'[k] = f \/ stack'[k] = g
        /\ \A k \in DOMAIN stack' : \A j \in 1..(k - 1) : stack'[j] = f /\ stack'[k] = g
    BY <1>5, <2>1, <2>2
  <2>4. QED
    BY <1>5, <2>3 DEF FrameInv, Alone, Busy, Nested, Walking
<1>6. QED
  BY <1>2, <1>3, <1>4, <1>5

\* Every step keeps the calls what they are.
LEMMA NextFrames ==
  ASSUME Acyclic, IgnoreClosed, TypeInv, EdgesInv, [Next]_vars
  PROVE  FrameInv'
<1>1. CASE UNCHANGED <<stack, status, tgts, dependedBy>>
  <2>1. \A s : /\ Excluded(s)' = Excluded(s)
               /\ MustStop(s)' = MustStop(s)
    BY <1>1 DEF Excluded, MustStop, IsShutdown, HasAttribute
  <2>2. QED
    BY <1>1, <2>1 DEF EdgesInv, FrameInv, Alone, Busy, Nested, Calm, Climbs
<1>2. ASSUME NEW s \in Services, Launch(s) PROVE FrameInv'
  BY <1>1, <1>2 DEF Launch, serviceVars, edgeVars, targetVars, callVars
<1>3. CASE UNCHANGED vars
  BY <1>1, <1>3 DEF vars, serviceVars, edgeVars, targetVars, callVars
<1>4. QED
  BY <1>2, <1>3, DeliverFrames, RequestFrames, RunKeepsFrames DEF Next, EdgesInv

-----------------------------------------------------------------------------
(* The edges.                                                              *)

\* The calls of finishStop() in progress.
Endings == {stack[k] : k \in {j \in DOMAIN stack : stack[j].fn = "finishStop"}}

\* What is left of the edges from the service of one of them.
HalfOf(f) ==
  \A b \in Services : Count(dependedBy[b], EdgesOf(f.svc)) = Rest(deps[f.svc], f.i, EdgesOf(b))

\* The invariant says of the stack only which calls of finishStop() it has.
LEMMA ByEndings ==
  /\ Half <=> \A f \in Endings : HalfOf(f)
  /\ \A s : WalksDependencies(s) <=> \E f \in Endings : f.svc = s
<1>1. Half <=> \A f \in Endings : HalfOf(f)
  BY DEF Half, HalfOf, Endings
<1>2. \A s : WalksDependencies(s) <=> \E f \in Endings : f.svc = s
  BY DEF WalksDependencies, Endings
<1>3. QED
  BY <1>1, <1>2

\* The same in the next state.
LEMMA EndingsNext ==
  /\ (\A f \in Endings' : HalfOf(f)') => Half'
  /\ Endings' = Endings => \A s : WalksDependencies(s)' = WalksDependencies(s)
<1>1. ASSUME \A f \in Endings' : HalfOf(f)' PROVE Half'
  <2>1. PICK t : t = stack'
    OBVIOUS
  <2>2. \A k \in DOMAIN t : t[k].fn = "finishStop" => t[k] \in Endings'
    BY <2>1 DEF Endings
  <2>3. \A k \in DOMAIN t : t[k].fn = "finishStop" => HalfOf(t[k])'
    BY <1>1, <2>2
  <2>4. QED
    BY <2>1, <2>3 DEF Half, HalfOf
<1>2. ASSUME Endings' = Endings PROVE \A s : WalksDependencies(s)' = WalksDependencies(s)
  BY <1>2 DEF WalksDependencies, Endings
<1>3. QED
  BY <1>1, <1>2

\* A step that leaves both lists and the calls of finishStop() alone, and takes
\* no service down.
LEMMA SameEdges ==
  ASSUME EdgeInv, UNCHANGED <<deps, dependedBy, Endings>>,
         \A s \in Services : Excluded(s)' => Excluded(s) \/ deps[s] = <<>>
  PROVE  EdgeInv'
<1>1. \A s : WalksDependencies(s)' = WalksDependencies(s)
  BY EndingsNext
<1>2. Half'
  <2>1. \A f \in Endings : HalfOf(f)
    BY ByEndings DEF EdgeInv
  <2>2. \A f \in Endings' : HalfOf(f)'
    BY <2>1 DEF HalfOf
  <2>3. QED
    BY <2>2, EndingsNext
<1>3. QED
  BY <1>1, <1>2 DEF EdgeInv, Mirror

\* Neither do the calls of finishStop() change when the running call is another
\* one, and makes no such call.
LEMMA SameEndings ==
  ASSUME CallTypes, stack # <<>>, Top.fn # "finishStop",
         \/ \E v : ReturnWith(v)
         \/ \E f : Continue(f) /\ f.fn # "finishStop"
         \/ \E f, g : Invoke(f, g) /\ f.fn # "finishStop" /\ g.fn # "finishStop"
  PROVE  Endings' = Endings
<1>1. PICK r \in Seq(GoodFrame) : r = Tail(stack)
  <2>1. stack \in Seq(GoodFrame) /\ stack # <<>>
    BY DEF CallTypes
  <2>2. Tail(stack) \in Seq(GoodFrame)
    BY <2>1
  <2>3. QED
    BY <2>2
<1>2. PICK t : t = stack'
  OBVIOUS
<1> DEFINE EndingsIn(q) == {q[k] : k \in {j \in DOMAIN q : q[j].fn = "finishStop"}}
<1>3. /\ Len(r) \in Nat /\ DOMAIN r = 1..Len(r) /\ Len(stack) = Len(r) + 1
      /\ \A k \in 1..Len(r) : k + 1 \in DOMAIN stack /\ r[k] = stack[k + 1]
      /\ \A k \in DOMAIN stack : k = 1 \/ (k - 1 \in 1..Len(r) /\ stack[k] = r[k - 1])
      /\ stack[1] = Top
  BY <1>1 DEF CallTypes, Top
<1>4. Endings = EndingsIn(r)
  BY <1>3 DEF Endings
<1>5. Endings' = EndingsIn(t)
  BY <1>2 DEF Endings
<1>6. SUFFICES EndingsIn(t) = EndingsIn(r)
  BY <1>4, <1>5
<1>7. CASE \E v : ReturnWith(v)
  BY <1>1, <1>2, <1>7 DEF ReturnWith
<1>8. ASSUME NEW f, Continue(f), f.fn # "finishStop" PROVE EndingsIn(t) = EndingsIn(r)
  <2>1. t = <<f>> \o r
    BY <1>1, <1>2, <1>8 DEF Continue
  <2>2. <<f>> \in Seq({f} \union GoodFrame) /\ r \in Seq({f} \union GoodFrame)
    BY <1>1
  <2>3. /\ DOMAIN t = 1..(1 + Len(r)) /\ t[1] = f
        /\ \A k \in 2..(1 + Len(r)) : t[k] = r[k - 1]
    BY <2>1, <2>2
  <2>4. /\ \A k \in DOMAIN t : k = 1 \/ (k - 1 \in DOMAIN r /\ t[k] = r[k - 1])
        /\ \A k \in DOMAIN r : k + 1 \in DOMAIN t /\ t[k + 1] = r[k]
    BY <1>3, <2>3
  <2>5. QED
    BY <1>8, <2>3, <2>4
<1>9. ASSUME NEW f, NEW g, Invoke(f, g), f.fn # "finishStop", g.fn # "finishStop"
      PROVE  EndingsIn(t) = EndingsIn(r)
  <2>1. t = <<g, f>> \o r
    BY <1>1, <1>2, <1>9 DEF Invoke
  <2>2. <<g, f>> \in Seq({f, g} \union GoodFrame) /\ r \in Seq({f, g} \union GoodFrame)
    BY <1>1
  <2>3. /\ DOMAIN t = 1..(2 + Len(r)) /\ t[1] = g /\ t[2] = f
        /\ \A k \in 3..(2 + Len(r)) : t[k] = r[k - 2]
    BY <2>1, <2>2
  <2>4. /\ \A k \in DOMAIN t : k = 1 \/ k = 2 \/ (k - 2 \in DOMAIN r /\ t[k] = r[k - 2])
        /\ \A k \in DOMAIN r : k + 2 \in DOMAIN t /\ t[k + 2] = r[k]
    BY <1>3, <2>3
  <2>5. QED
    BY <1>9, <2>3, <2>4
<1>10. QED
  BY <1>7, <1>8, <1>9

\* A step of a call other than start() and finishStop() changes no edge.
LEMMA OtherCallsEdges ==
  ASSUME Acyclic, IgnoreClosed, TypeInv, FrameInv, EdgeInv, NEW s \in Services,
         \/ Update(s) \/ UpdateSelf(s) \/ ReturnFromTail(s)
         \/ StopNext(s) \/ CascadeEnters(s) \/ CascadeNext(s)
         \/ FinishStartNext(s) \/ FinishStartFails(s) \/ FinishStartEnds(s)
  PROVE  EdgeInv'
<1> USE DEF TypeInv, DataTypes
<1>1. Run /\ stack # <<>> /\ Top.fn # "finishStop"
  BY DEF Run, ServiceStep, Update, UpdateSelf, ReturnFromTail, StopNext, CascadeEnters,
         CascadeNext, FinishStartNext, FinishStartFails, FinishStartEnds, Runs
<1>2. \A r \in Services : ~Excluded(r) => ~Excluded(r)'
  BY <1>1, WalkedStay
<1>3. UNCHANGED <<deps, dependedBy>>
  <2>1. CASE WantsStart(s) /\ BeginStart(s)
    <3>1. /\ Excluded(s) /\ dependedBy' = dependedBy
          /\ deps' = [deps EXCEPT ![s] = <<>>] /\ status'[s] = "Waiting"
      BY <2>1 DEF WantsStart, BeginStart, SetStatus
    <3>2. ~WalksDependencies(s)
      <4>1. ~Excluded(s)'
        BY <3>1 DEF Excluded
      <4>2. QED
        BY <1>1, <4>1, WalkedStay
    <3>3. deps[s] = <<>>
      BY <3>1, <3>2 DEF EdgeInv
    <3>4. QED
      BY <3>1, <3>3
  <2>2. CASE ~(WantsStart(s) /\ BeginStart(s))
    BY <2>2 DEF Update, RawStart, RawStartFails, RawStop, BeginStop, UpdateIsIdle, UpdateSelf,
                ReturnFromTail, StopNext, CascadeEnters, CascadeNext, FinishStartNext,
                FinishStartFails, FinishStartEnds, edgeVars
  <2>3. QED
    BY <2>1, <2>2
<1>4. \/ \E v : ReturnWith(v)
      \/ \E f : Continue(f) /\ f.fn # "finishStop"
      \/ \E f, g : Invoke(f, g) /\ f.fn # "finishStop" /\ g.fn # "finishStop"
  <2>1. /\ \A r : Call("update", r).fn # "finishStop"
        /\ Call("start", s).fn # "finishStop" /\ Call("stop", s).fn # "finishStop"
        /\ \A r : CascadeCall(r).fn # "finishStop"
    BY DEF Call, CascadeCall
  <2>2. CASE Update(s)
    <3>1. \/ \E v : ReturnWith(v)
          \/ Continue(Call("start", s)) \/ Continue(Call("stop", s))
      BY <2>2 DEF Update, RawStart, RawStartFails, RawStop, BeginStart, BeginStop, UpdateIsIdle
    <3>2. QED
      BY <2>1, <3>1
  <2>3. CASE ReturnFromTail(s) \/ FinishStartFails(s) \/ FinishStartEnds(s)
    BY <2>3 DEF ReturnFromTail, FinishStartFails, FinishStartEnds
  <2>4. CASE UpdateSelf(s) \/ StopNext(s) \/ CascadeEnters(s) \/ CascadeNext(s) \/ FinishStartNext(s)
    <3>1. Top \in GoodServiceFrame
      BY <1>1, <2>4, ServiceTop DEF UpdateSelf, StopNext, CascadeEnters, CascadeNext,
                                    FinishStartNext, Runs
    <3>2. Next1.fn # "finishStop" /\ At("tail").fn # "finishStop" /\ At("next").fn # "finishStop"
      BY <1>1, <3>1 DEF Next1, At, GoodServiceFrame, ServiceFrame
    <3>3. \/ \E v : ReturnWith(v)
          \/ Continue(Next1) \/ Continue(At("next"))
          \/ Invoke(At("tail"), Call("update", s))
          \/ Invoke(Next1, Call("update", DependentAt(s).name))
          \/ Invoke(Next1, CascadeCall(DependentAt(s).name))
      BY <2>4, Zenon DEF UpdateSelf, StopNext, CascadeEnters, CascadeNext, FinishStartNext
    <3>4. QED
      BY <2>1, <3>2, <3>3
  <2>5. QED
    BY <2>2, <2>3, <2>4
<1>5. Endings' = Endings
  BY <1>1, <1>4, SameEndings
<1>6. QED
  BY <1>2, <1>3, <1>5, SameEdges

\* Neither does a step of a call that is not of a service.
LEMMA ManagerEdges ==
  ASSUME TypeInv, FrameInv, EdgeInv, CommandReturns \/ TargetNext \/ TargetEnds
  PROVE  EdgeInv'
<1>1. /\ stack # <<>> /\ Top.fn \in {"setTarget", "command"}
      /\ UNCHANGED <<status, deps, dependedBy>>
  BY DEF CommandReturns, TargetNext, TargetEnds, serviceVars, edgeVars
<1>2. \/ \E v : ReturnWith(v)
      \/ \E f, g : Invoke(f, g) /\ f.fn # "finishStop" /\ g.fn # "finishStop"
  <2>1. CASE CommandReturns \/ TargetEnds
    BY <2>1 DEF CommandReturns, TargetEnds
  <2>2. CASE TargetNext
    <3>1. PICK s \in Top.todo : Invoke([Top EXCEPT !.todo = @ \ {s}], Call("update", s))
      BY <2>2 DEF TargetNext
    <3>2. Top \in TargetFrame
      <4>1. Top \in GoodFrame /\ Top.fn = "setTarget"
        BY <1>1, <2>2, Frames DEF TypeInv, TargetNext
      <4>2. QED
        BY <4>1 DEF GoodFrame, GoodServiceFrame, ServiceFrame, TargetFrame, CommandFrame
    <3>3. [Top EXCEPT !.todo = @ \ {s}].fn # "finishStop" /\ Call("update", s).fn # "finishStop"
      BY <3>2 DEF TargetFrame, Call
    <3>4. QED
      BY <3>1, <3>3
  <2>3. QED
    BY <2>1, <2>2
<1>3. Endings' = Endings
  BY <1>1, <1>2, SameEndings DEF TypeInv
<1>4. \A s \in Services : Excluded(s)' => Excluded(s)
  BY <1>1 DEF Excluded
<1>5. QED
  BY <1>1, <1>3, <1>4, SameEdges

\* Both ends of an edge from s to d are recorded, while s is not being stopped.
LEMMA AddedEdge ==
  ASSUME TypeInv, EdgeInv, NEW s \in Services, NEW d \in Below(s), d \in Services,
         NEW o \in BOOLEAN, ~Excluded(s), ~WalksDependencies(s),
         AddEdge(s, d, o), UNCHANGED <<status, Endings>>
  PROVE  EdgeInv'
<1> USE DEF TypeInv, DataTypes
<1>1. /\ To(s, o) \in Edge /\ To(d, o) \in Edge
      /\ deps' = [deps EXCEPT ![s] = Append(@, To(d, o))]
      /\ dependedBy' = [dependedBy EXCEPT ![d] = Append(@, To(s, o))]
  BY DEF To, Edge, AddEdge
<1>2. \A a, b, p, q : To(a, p) = To(b, q) <=> a = b /\ p = q
  BY DEF To
<1>3. \A r : WalksDependencies(r)' = WalksDependencies(r)
  BY EndingsNext
<1>4. Mirror'
  <2>1. SUFFICES ASSUME NEW a \in Services, NEW b \in Services, NEW p \in BOOLEAN,
                        ~WalksDependencies(a)
                 PROVE  Count(deps'[a], {To(b, p)}) = Count(dependedBy'[b], {To(a, p)})
    BY <1>3 DEF Mirror
  <2>2. Count(deps[a], {To(b, p)}) = Count(dependedBy[b], {To(a, p)})
    BY <2>1 DEF EdgeInv, Mirror
  <2>3. /\ deps[a] \in Seq(Edge) /\ dependedBy[b] \in Seq(Edge)
    OBVIOUS
  <2>4. Count(deps'[a], {To(b, p)})
          = IF a = s /\ b = d /\ p = o THEN Count(deps[a], {To(b, p)}) + 1
                                       ELSE Count(deps[a], {To(b, p)})
    <3>1. CASE a = s
      <4>1. deps'[a] = Append(deps[a], To(d, o))
        BY <1>1, <3>1
      <4>2. Count(deps'[a], {To(b, p)})
              = IF To(d, o) \in {To(b, p)} THEN Count(deps[a], {To(b, p)}) + 1
                                           ELSE Count(deps[a], {To(b, p)})
        BY <1>1, <2>3, <4>1, CountAppend
      <4>3. To(d, o) \in {To(b, p)} <=> (a = s /\ b = d /\ p = o)
        BY <1>2, <3>1
      <4>4. QED
        BY <4>2, <4>3
    <3>2. CASE a # s
      BY <1>1, <3>2
    <3>3. QED
      BY <3>1, <3>2
  <2>5. Count(dependedBy'[b], {To(a, p)})
          = IF a = s /\ b = d /\ p = o THEN Count(dependedBy[b], {To(a, p)}) + 1
                                       ELSE Count(dependedBy[b], {To(a, p)})
    <3>1. CASE b = d
      <4>1. dependedBy'[b] = Append(dependedBy[b], To(s, o))
        BY <1>1, <3>1
      <4>2. Count(dependedBy'[b], {To(a, p)})
              = IF To(s, o) \in {To(a, p)} THEN Count(dependedBy[b], {To(a, p)}) + 1
                                           ELSE Count(dependedBy[b], {To(a, p)})
        BY <1>1, <2>3, <4>1, CountAppend
      <4>3. To(s, o) \in {To(a, p)} <=> (a = s /\ b = d /\ p = o)
        BY <1>2, <3>1
      <4>4. QED
        BY <4>2, <4>3
    <3>2. CASE b # d
      BY <1>1, <3>2
    <3>3. QED
      BY <3>1, <3>2
  <2>6. CASE a = s /\ b = d /\ p = o
    BY <2>2, <2>4, <2>5, <2>6
  <2>7. CASE ~(a = s /\ b = d /\ p = o)
    BY <2>2, <2>4, <2>5, <2>7
  <2>8. QED
    BY <2>6, <2>7
<1>5. Half'
  <2>1. SUFFICES ASSUME NEW f \in Endings' PROVE HalfOf(f)'
    BY EndingsNext
  <2>2. f \in Endings
    OBVIOUS
  <2>4. f.svc # s /\ HalfOf(f)
    BY <2>2, ByEndings DEF EdgeInv
  <2>5. To(s, o) \notin EdgesOf(f.svc)
    BY <2>4 DEF To, EdgesOf
  <2>6. \A b \in Services : Count(dependedBy'[b], EdgesOf(f.svc)) = Count(dependedBy[b], EdgesOf(f.svc))
    <3>1. SUFFICES ASSUME NEW b \in Services
                   PROVE  Count(dependedBy'[b], EdgesOf(f.svc)) = Count(dependedBy[b], EdgesOf(f.svc))
      OBVIOUS
    <3>2. CASE b = d
      <4>1. dependedBy'[b] = Append(dependedBy[b], To(s, o)) /\ dependedBy[b] \in Seq(Edge)
        BY <1>1, <3>2
      <4>2. Count(dependedBy'[b], EdgesOf(f.svc))
              = IF To(s, o) \in EdgesOf(f.svc) THEN Count(dependedBy[b], EdgesOf(f.svc)) + 1
                                               ELSE Count(dependedBy[b], EdgesOf(f.svc))
        BY <1>1, <4>1, CountAppend
      <4>3. QED
        BY <2>5, <4>2
    <3>3. CASE b # d
      BY <1>1, <3>3
    <3>4. QED
      BY <3>2, <3>3
  <2>7. deps'[f.svc] = deps[f.svc]
    BY <1>1, <2>4
  <2>8. QED
    BY <2>4, <2>6, <2>7 DEF HalfOf
<1>6. \A r \in Services : Excluded(r)' /\ ~WalksDependencies(r)' => deps'[r] = <<>>
  BY <1>1, <1>3 DEF Excluded, EdgeInv
<1>7. ASSUME NEW r \in Services, NEW i \in DOMAIN deps'[r] PROVE deps'[r][i].name \in Below(r)
  <2>1. CASE r = s
    <3>1. deps'[r] = Append(deps[r], To(d, o)) /\ deps[r] \in Seq(Edge)
      BY <1>1, <2>1
    <3>2. \/ i \in DOMAIN deps[r] /\ deps'[r][i] = deps[r][i]
          \/ deps'[r][i] = To(d, o)
      BY <1>1, <1>7, <3>1
    <3>3. To(d, o).name = d
      BY DEF To
    <3>4. QED
      BY <2>1, <3>2, <3>3 DEF EdgeInv
  <2>2. CASE r # s
    BY <1>1, <1>7, <2>2 DEF EdgeInv
  <2>3. QED
    BY <2>1, <2>2
<1>8. QED
  BY <1>4, <1>5, <1>6, <1>7 DEF EdgeInv

\* What RemoveFirst does to the counts of DropEdge.
LEMMA CountDropped ==
  ASSUME NEW q \in Seq(Edge), NEW e
  PROVE  Count(RemoveFirst(q, e), {e}) = IF Count(q, {e}) = 0 THEN 0 ELSE Count(q, {e}) - 1
<1>1. Count(RemoveFirst(q, e), {e})
        = IF e \in {e} /\ (\E i \in DOMAIN q : q[i] = e) THEN Count(q, {e}) - 1
                                                        ELSE Count(q, {e})
  BY CountRemoveFirst
<1>2. (\E i \in DOMAIN q : q[i] = e) <=> Count(q, {e}) # 0
  <2>1. Count(q, {e}) = 0 <=> \A i \in DOMAIN q : q[i] \notin {e}
    BY CountIsNat
  <2>2. QED
    BY <2>1
<1>3. QED
  BY <1>1, <1>2

\* Other edges are as many as before.
LEMMA CountKept ==
  ASSUME NEW q \in Seq(Edge), NEW e, NEW S, e \notin S
  PROVE  Count(RemoveFirst(q, e), S) = Count(q, S)
<1>1. Count(RemoveFirst(q, e), S)
        = IF e \in S /\ (\E i \in DOMAIN q : q[i] = e) THEN Count(q, S) - 1 ELSE Count(q, S)
  BY CountRemoveFirst
<1>2. QED
  BY <1>1

\* Nothing is in a list that was not in it.
LEMMA DroppedSubset ==
  ASSUME NEW q \in Seq(Edge), NEW e, NEW i \in DOMAIN RemoveFirst(q, e)
  PROVE  \E j \in DOMAIN q : RemoveFirst(q, e)[i] = q[j]
<1> DEFINE r == RemoveFirst(q, e)
           S == {r[i]}
<1>1. r \in Seq(Edge)
  BY RemoveFirstIsSeq
<1>2. Count(r, S) # 0
  <2>1. Count(r, S) = 0 <=> \A k \in DOMAIN r : r[k] \notin S
    <3> HIDE DEF r, S
    <3>1. QED
      BY <1>1, CountIsNat
  <2>2. QED
    BY <2>1
<1>3. Count(q, S) # 0
  <2>1. Count(r, S) = IF e \in S /\ (\E k \in DOMAIN q : q[k] = e) THEN Count(q, S) - 1
                                                                 ELSE Count(q, S)
    <3> HIDE DEF S
    <3>1. QED
      BY CountRemoveFirst
  <2>2. Count(q, S) = 0 <=> \A k \in DOMAIN q : q[k] \notin S
    <3> HIDE DEF S
    <3>1. QED
      BY CountIsNat
  <2> HIDE DEF r, S
  <2>3. QED
    BY <1>2, <2>1, <2>2
<1>4. Count(q, S) = 0 <=> \A k \in DOMAIN q : q[k] \notin S
  <2> HIDE DEF S
  <2>1. QED
    BY CountIsNat
<1>5. QED
  BY <1>3, <1>4

\* Both ends of an edge from s to d are taken back, while s is not being stopped.
LEMMA DroppedEdge ==
  ASSUME TypeInv, EdgeInv, NEW s \in Services, NEW d \in Services,
         NEW o \in BOOLEAN, ~Excluded(s), ~WalksDependencies(s),
         DropEdge(s, d, o), UNCHANGED <<status, Endings>>
  PROVE  EdgeInv'
<1> USE DEF TypeInv, DataTypes
<1>1. /\ deps' = [deps EXCEPT ![s] = RemoveFirst(@, To(d, o))]
      /\ dependedBy' = [dependedBy EXCEPT ![d] = RemoveFirst(@, To(s, o))]
  BY DEF To, DropEdge
<1>2. \A a, b, p, q : To(a, p) = To(b, q) <=> a = b /\ p = q
  BY DEF To
<1>3. \A r : WalksDependencies(r)' = WalksDependencies(r)
  BY EndingsNext
<1>4. \A r \in Services : deps[r] \in Seq(Edge) /\ dependedBy[r] \in Seq(Edge)
  OBVIOUS
<1>5. Mirror'
  <2>1. SUFFICES ASSUME NEW a \in Services, NEW b \in Services, NEW p \in BOOLEAN,
                        ~WalksDependencies(a)
                 PROVE  Count(deps'[a], {To(b, p)}) = Count(dependedBy'[b], {To(a, p)})
    BY <1>3 DEF Mirror
  <2>2. Count(deps[a], {To(b, p)}) = Count(dependedBy[b], {To(a, p)})
    BY <2>1 DEF EdgeInv, Mirror
  <2>3. CASE a = s /\ b = d /\ p = o
    <3>1. /\ deps'[a] = RemoveFirst(deps[a], To(b, p))
          /\ dependedBy'[b] = RemoveFirst(dependedBy[b], To(a, p))
      BY <1>1, <2>3
    <3>2. /\ Count(deps'[a], {To(b, p)})
               = IF Count(deps[a], {To(b, p)}) = 0 THEN 0 ELSE Count(deps[a], {To(b, p)}) - 1
          /\ Count(dependedBy'[b], {To(a, p)})
               = IF Count(dependedBy[b], {To(a, p)}) = 0 THEN 0
                 ELSE Count(dependedBy[b], {To(a, p)}) - 1
      BY <1>4, <3>1, CountDropped
    <3>3. QED
      BY <2>2, <3>2
  <2>4. CASE ~(a = s /\ b = d /\ p = o)
    <3>1. Count(deps'[a], {To(b, p)}) = Count(deps[a], {To(b, p)})
      <4>1. CASE a = s
        <5>1. To(d, o) \notin {To(b, p)} /\ deps'[a] = RemoveFirst(deps[a], To(d, o))
          BY <1>1, <1>2, <2>4, <4>1
        <5>2. QED
          BY <1>4, <5>1, CountKept
      <4>2. CASE a # s
        BY <1>1, <4>2
      <4>3. QED
        BY <4>1, <4>2
    <3>2. Count(dependedBy'[b], {To(a, p)}) = Count(dependedBy[b], {To(a, p)})
      <4>1. CASE b = d
        <5>1. To(s, o) \notin {To(a, p)} /\ dependedBy'[b] = RemoveFirst(dependedBy[b], To(s, o))
          BY <1>1, <1>2, <2>4, <4>1
        <5>2. QED
          BY <1>4, <5>1, CountKept
      <4>2. CASE b # d
        BY <1>1, <4>2
      <4>3. QED
        BY <4>1, <4>2
    <3>3. QED
      BY <2>2, <3>1, <3>2
  <2>5. QED
    BY <2>3, <2>4
<1>6. Half'
  <2>1. SUFFICES ASSUME NEW f \in Endings' PROVE HalfOf(f)'
    BY EndingsNext
  <2>2. f \in Endings
    OBVIOUS
  <2>3. f.svc # s /\ HalfOf(f)
    BY <2>2, ByEndings DEF EdgeInv
  <2>4. To(s, o) \notin EdgesOf(f.svc)
    BY <2>3 DEF To, EdgesOf
  <2>5. ASSUME NEW b \in Services
        PROVE  Count(dependedBy'[b], EdgesOf(f.svc)) = Count(dependedBy[b], EdgesOf(f.svc))
    <3>1. CASE b = d
      <4>1. dependedBy'[b] = RemoveFirst(dependedBy[b], To(s, o))
        BY <1>1, <3>1
      <4>2. QED
        BY <1>4, <2>4, <4>1, CountKept
    <3>2. CASE b # d
      BY <1>1, <3>2
    <3>3. QED
      BY <3>1, <3>2
  <2>6. deps'[f.svc] = deps[f.svc]
    BY <1>1, <2>3
  <2>7. QED
    BY <2>3, <2>5, <2>6 DEF HalfOf
<1>7. \A r \in Services : Excluded(r)' /\ ~WalksDependencies(r)' => deps'[r] = <<>>
  BY <1>1, <1>3 DEF Excluded, EdgeInv
<1>8. ASSUME NEW r \in Services, NEW i \in DOMAIN deps'[r] PROVE deps'[r][i].name \in Below(r)
  <2>1. CASE r = s
    <3>1. deps'[r] = RemoveFirst(deps[r], To(d, o))
      BY <1>1, <2>1
    <3>2. \E j \in DOMAIN deps[r] : deps'[r][i] = deps[r][j]
      BY <1>4, <1>8, <3>1, DroppedSubset
    <3>3. QED
      BY <3>2 DEF EdgeInv
  <2>2. CASE r # s
    BY <1>1, <1>8, <2>2 DEF EdgeInv
  <2>3. QED
    BY <2>1, <2>2
<1>9. QED
  BY <1>5, <1>6, <1>7, <1>8 DEF EdgeInv

\* start() records edges, and takes one back if what is needed cannot start.
LEMMA StartEdges ==
  ASSUME TypeInv, FrameInv, EdgeInv, NEW s \in Services,
         \/ StartDepends(s) \/ StartDepended(s)
         \/ StartTriesAfter(s) \/ StartTriedAfter(s) \/ StartAddedAfter(s)
  PROVE  EdgeInv'
<1>1. stack # <<>>
  BY DEF StartDepends, StartDepended, StartTriesAfter, StartTriedAfter, StartAddedAfter, Runs
<1>2. PICK label : Runs("start", s, label)
  BY DEF StartDepends, StartDepended, StartTriesAfter, StartTriedAfter, StartAddedAfter
<1>3. Top \in GoodServiceFrame /\ Top.fn = "start" /\ Top.svc = s /\ Top.at = label
  BY <1>1, <1>2, ServiceTop DEF TypeInv, Runs
<1>4. ~Excluded(s) /\ ~WalksDependencies(s)
  <2>1. Alone(Top)
    BY <1>1, Frames DEF TypeInv
  <2>2. ~Excluded(s)
    BY <1>3, <2>1 DEF Alone, Busy
  <2>3. QED
    BY <1>1, <2>2, Walks DEF TypeInv
<1>5. status' = status
  BY DEF StartDepends, StartDepended, StartTriesAfter, StartTriedAfter, StartAddedAfter,
         serviceVars
<1>6. Endings' = Endings
  <2>1. Next1.fn # "finishStop" /\ \A l : At(l).fn # "finishStop"
    BY <1>3 DEF Next1, At, GoodServiceFrame, ServiceFrame
  <2>2. \A d : Call("update", d).fn # "finishStop"
    BY DEF Call
  <2>3. \/ \E v : ReturnWith(v)
        \/ Continue(Next1)
        \/ \E l, d : Invoke(At(l), Call("update", d))
    BY Zenon DEF StartDepends, StartDepended, StartTriesAfter, StartTriedAfter, StartAddedAfter
  <2>4. QED
    BY <1>1, <1>3, <2>1, <2>2, <2>3, SameEndings DEF TypeInv
<1>7. \/ UNCHANGED <<deps, dependedBy>>
      \/ \E d \in Below(s) \intersect Services, o \in BOOLEAN : AddEdge(s, d, o) \/ DropEdge(s, d, o)
  <2>1. CASE StartDepends(s)
    BY <1>3, <2>1, LinesAreBelow DEF StartDepends, edgeVars
  <2>2. CASE StartDepended(s)
    BY <1>3, <2>2, LinesAreBelow DEF StartDepended, Runs, edgeVars
  <2>3. CASE StartTriesAfter(s)
    BY <2>3 DEF StartTriesAfter, edgeVars
  <2>4. CASE StartTriedAfter(s)
    BY <1>3, <2>4, LinesAreBelow DEF StartTriedAfter, Runs, edgeVars
  <2>5. CASE StartAddedAfter(s)
    BY <1>3, <2>5, LinesAreBelow DEF StartAddedAfter, Runs, edgeVars
  <2>6. QED
    BY <2>1, <2>2, <2>3, <2>4, <2>5
<1>8. CASE UNCHANGED <<deps, dependedBy>>
  BY <1>5, <1>6, <1>8, SameEdges DEF Excluded
<1>9. QED
  BY <1>4, <1>5, <1>6, <1>7, <1>8, AddedEdge, DroppedEdge

\* A call with none below it is the only one.
LEMMA NoneBelow ==
  ASSUME CallTypes, stack # <<>>, Held = {}
  PROVE  Len(stack) = 1
<1>1. Len(stack) \in Nat /\ Len(stack) >= 1
  BY DEF CallTypes
<1>2. 2 \notin 2..Len(stack)
  BY DEF Held
<1>3. \A n \in Nat : n >= 1 /\ 2 \notin 2..n => n = 1
  OBVIOUS
<1>4. QED
  BY <1>1, <1>2, <1>3

\* finishStop() gives back the edge it has reached.
LEMMA GivenBack ==
  ASSUME TypeInv, FrameInv, EdgeInv, NEW s \in Services, FinishStopNext(s)
  PROVE  EdgeInv'
<1> USE DEF TypeInv, DataTypes
<1>1. /\ stack # <<>> /\ Runs("finishStop", s, "next")
      /\ Top.fn = "finishStop" /\ Top.svc = s /\ Top.i <= Len(deps[s])
      /\ UNCHANGED <<status, deps>>
  BY DEF FinishStopNext, Runs, serviceVars
<1>2. Top \in GoodServiceFrame /\ Top.i \in Nat \ {0}
  BY <1>1, ServiceTop
<1>3. Held = {}
  BY <1>1, Walks
<1>4. PICK i \in Nat \ {0} : i = Top.i
  BY <1>2
<1>5. PICK d : d = deps[s][i].name
  OBVIOUS
<1>6. /\ deps[s] \in Seq(Edge) /\ i \in DOMAIN deps[s] /\ i <= Len(deps[s])
      /\ deps[s][i] \in Edge /\ d \in Services /\ dependedBy[d] \in Seq(Edge)
  <2>1. deps[s] \in Seq(Edge)
    OBVIOUS
  <2>2. i \in DOMAIN deps[s] /\ i <= Len(deps[s])
    BY <1>1, <1>4, <2>1
  <2>3. deps[s][i] \in Edge
    BY <2>1, <2>2
  <2>4. d \in Services
    BY <1>5, <2>3 DEF Edge
  <2>5. QED
    BY <2>1, <2>2, <2>3, <2>4
<1>7. dependedBy' = [dependedBy EXCEPT ![d] = WithoutEdgeOf(@, s)]
  BY <1>4, <1>5 DEF FinishStopNext
<1>8. PICK f, g : f = Next1 /\ g = Call("update", d)
  OBVIOUS
<1>9. f.fn = "finishStop" /\ f.svc = s /\ f.i = i + 1 /\ g.fn = "update"
  BY <1>1, <1>2, <1>4, <1>8 DEF Next1, Call, GoodServiceFrame, ServiceFrame
<1>10. Endings' = {f}
  <2>1. stack' = <<g, f>> \o Tail(stack)
    BY <1>4, <1>5, <1>8 DEF FinishStopNext, Invoke
  <2>2. Len(stack) = 1 /\ stack \in Seq(GoodFrame)
    BY <1>1, <1>3, NoneBelow DEF CallTypes
  <2>3. PICK r \in Seq(GoodFrame) : r = Tail(stack) /\ Len(r) = 0
    <3>1. Tail(stack) \in Seq(GoodFrame) /\ Len(Tail(stack)) = Len(stack) - 1
      BY <1>1, <2>2
    <3>2. Len(Tail(stack)) = 0
      BY <2>2, <3>1
    <3>3. QED
      BY <3>1, <3>2
  <2>4. PICK t : t = stack'
    OBVIOUS
  <2>5. <<g, f>> \in Seq({f, g} \union GoodFrame) /\ r \in Seq({f, g} \union GoodFrame)
    OBVIOUS
  <2>6. t = <<g, f>> \o r
    BY <2>1, <2>3, <2>4
  <2>7. DOMAIN t = 1..2 /\ t[1] = g /\ t[2] = f
    BY <2>3, <2>5, <2>6
  <2>8. {t[k] : k \in {j \in DOMAIN t : t[j].fn = "finishStop"}} = {f}
    BY <1>9, <2>7
  <2>9. QED
    BY <2>4, <2>8 DEF Endings
<1>11. /\ \A r : WalksDependencies(r) <=> r = s
       /\ \A r : WalksDependencies(r)' <=> r = s
  <2>1. \A r : WalksDependencies(r) <=> r = s
    BY <1>1, <1>3, Walks
  <2>2. \A r : WalksDependencies(r)' <=> \E h \in Endings' : h.svc = r
    BY DEF WalksDependencies, Endings
  <2>3. QED
    BY <1>9, <1>10, <2>1, <2>2
<1>12. HalfOf(Top)
  <2>1. Top \in Endings
    BY <1>1, Frames DEF Endings
  <2>2. QED
    BY <2>1, ByEndings DEF EdgeInv
<1>13. ASSUME NEW b \in Services
       PROVE  Count(dependedBy'[b], EdgesOf(s)) = Rest(deps[s], i + 1, EdgesOf(b))
  <2>1. Count(dependedBy[b], EdgesOf(s)) = Rest(deps[s], i, EdgesOf(b))
    BY <1>1, <1>4, <1>12 DEF HalfOf
  <2>2. /\ Rest(deps[s], i + 1, EdgesOf(b)) \in Nat
        /\ Rest(deps[s], i, EdgesOf(b))
             = IF deps[s][i] \in EdgesOf(b) THEN Rest(deps[s], i + 1, EdgesOf(b)) + 1
                                            ELSE Rest(deps[s], i + 1, EdgesOf(b))
    BY <1>6, RestOfWalk
  <2>3. CASE b = d
    <3>1. deps[s][i] \in EdgesOf(b)
      BY <1>5, <1>6, <2>3 DEF EdgesOf
    <3>2. Count(dependedBy[b], EdgesOf(s)) # 0
      BY <2>1, <2>2, <3>1
    <3>3. PICK j \in DOMAIN dependedBy[b] : dependedBy[b][j] \in EdgesOf(s)
      <4>1. dependedBy[b] \in Seq(Edge)
        OBVIOUS
      <4>2. Count(dependedBy[b], EdgesOf(s)) = 0
              <=> \A j \in DOMAIN dependedBy[b] : dependedBy[b][j] \notin EdgesOf(s)
        BY <4>1, CountIsNat
      <4>3. QED
        BY <3>2, <4>2
    <3>4. dependedBy[b][j].name = s /\ \A e \in Edge : e.name = s => e \in EdgesOf(s)
      BY <3>3 DEF EdgesOf
    <3>5. Count(WithoutEdgeOf(dependedBy[b], s), EdgesOf(s)) = Count(dependedBy[b], EdgesOf(s)) - 1
      <4>1. PICK q \in Seq(Edge) : q = dependedBy[b]
        BY <1>6, <2>3
      <4>2. PICK S : S = EdgesOf(s)
        OBVIOUS
      <4>3. j \in DOMAIN q /\ q[j].name = s /\ \A e \in Edge : e.name = s => e \in S
        BY <3>4, <4>1, <4>2
      <4>4. Count(WithoutEdgeOf(q, s), S) = Count(q, S) - 1
        BY <4>3, CountOneLess
      <4>5. QED
        BY <4>1, <4>2, <4>4
    <3>6. dependedBy'[b] = WithoutEdgeOf(dependedBy[b], s)
      BY <1>6, <1>7, <2>3
    <3>7. QED
      BY <2>1, <2>2, <3>1, <3>5, <3>6
  <2>4. CASE b # d
    <3>1. deps[s][i] \notin EdgesOf(b)
      BY <1>5, <2>4 DEF EdgesOf
    <3>2. dependedBy'[b] = dependedBy[b]
      BY <1>7, <2>4
    <3>3. QED
      BY <2>1, <2>2, <3>1, <3>2
  <2>5. QED
    BY <2>3, <2>4
<1>14. Half'
  <2>1. HalfOf(f)'
    BY <1>1, <1>9, <1>13 DEF HalfOf
  <2>2. QED
    BY <1>10, <2>1, EndingsNext
<1>15. Mirror'
  <2>1. SUFFICES ASSUME NEW a \in Services, NEW b \in Services, NEW o \in BOOLEAN, a # s
                 PROVE  Count(deps'[a], {To(b, o)}) = Count(dependedBy'[b], {To(a, o)})
    BY <1>11 DEF Mirror
  <2>2. Count(deps[a], {To(b, o)}) = Count(dependedBy[b], {To(a, o)})
    BY <1>11, <2>1 DEF EdgeInv, Mirror
  <2>3. Count(dependedBy'[b], {To(a, o)}) = Count(dependedBy[b], {To(a, o)})
    <3>1. CASE b = d
      <4>1. dependedBy'[b] = WithoutEdgeOf(dependedBy[b], s)
        BY <1>6, <1>7, <3>1
      <4>2. Rest(deps[s], i, EdgesOf(b)) # 0
        <5>1. deps[s][i] \in EdgesOf(b)
          BY <1>5, <1>6, <3>1 DEF EdgesOf
        <5>2. /\ Rest(deps[s], i + 1, EdgesOf(b)) \in Nat
              /\ Rest(deps[s], i, EdgesOf(b))
                   = IF deps[s][i] \in EdgesOf(b) THEN Rest(deps[s], i + 1, EdgesOf(b)) + 1
                                                  ELSE Rest(deps[s], i + 1, EdgesOf(b))
          BY <1>6, RestOfWalk
        <5>3. QED
          BY <5>1, <5>2
      <4>3. Count(dependedBy[b], EdgesOf(s)) # 0
        BY <1>1, <1>4, <1>12, <4>2 DEF HalfOf
      <4>4. PICK j \in DOMAIN dependedBy[b] : dependedBy[b][j] \in EdgesOf(s)
        <5>1. dependedBy[b] \in Seq(Edge)
          OBVIOUS
        <5>2. Count(dependedBy[b], EdgesOf(s)) = 0
                <=> \A j \in DOMAIN dependedBy[b] : dependedBy[b][j] \notin EdgesOf(s)
          BY <5>1, CountIsNat
        <5>3. QED
          BY <4>3, <5>2
      <4>5. dependedBy[b][j].name = s /\ \A e \in Edge : e.name = s => e \notin {To(a, o)}
        BY <2>1, <4>4 DEF EdgesOf, To
      <4>6. PICK q \in Seq(Edge) : q = dependedBy[b]
        BY <1>6, <3>1
      <4>7. PICK S : S = {To(a, o)}
        OBVIOUS
      <4>8. j \in DOMAIN q /\ q[j].name = s /\ \A e \in Edge : e.name = s => e \notin S
        BY <4>5, <4>6, <4>7
      <4>9. Count(WithoutEdgeOf(q, s), S) = Count(q, S)
        BY <4>8, CountOthers
      <4>10. QED
        BY <4>1, <4>6, <4>7, <4>9
    <3>2. CASE b # d
      BY <1>7, <3>2
    <3>3. QED
      BY <3>1, <3>2
  <2>4. QED
    BY <1>1, <2>2, <2>3
<1>16. QED
  BY <1>1, <1>11, <1>14, <1>15 DEF EdgeInv, Excluded

\* finishStop() ends with every edge given back, and clears its list.
LEMMA AllGivenBack ==
  ASSUME TypeInv, FrameInv, EdgeInv, NEW s \in Services, FinishStopEnds(s)
  PROVE  EdgeInv'
<1> USE DEF TypeInv, DataTypes
<1>1. /\ stack # <<>> /\ Runs("finishStop", s, "next")
      /\ Top.fn = "finishStop" /\ Top.svc = s /\ Top.i > Len(deps[s])
      /\ UNCHANGED <<status, dependedBy>> /\ deps' = [deps EXCEPT ![s] = <<>>]
  BY DEF FinishStopEnds, Runs, serviceVars
<1>2. Top.i \in Nat \ {0}
  BY <1>1, ServiceTop
<1>3. Held = {}
  BY <1>1, Walks
<1>4. \A r : WalksDependencies(r) <=> r = s
  BY <1>1, <1>3, Walks
<1>5. stack' = <<>>
  <2>1. stack' = Tail(stack)
    BY DEF FinishStopEnds, ReturnWith
  <2>2. stack \in Seq(GoodFrame) /\ Len(stack) = 1
    BY <1>1, <1>3, NoneBelow DEF CallTypes
  <2>3. Tail(stack) \in Seq(GoodFrame) /\ Len(Tail(stack)) = Len(stack) - 1
    BY <1>1, <2>2
  <2>4. Len(Tail(stack)) = 0
    BY <2>2, <2>3
  <2>5. Tail(stack) = <<>>
    BY <2>3, <2>4, EmptySeq, Zenon
  <2>6. QED
    BY <2>1, <2>5
<1>6. /\ Half' /\ \A r : ~WalksDependencies(r)'
  BY <1>5 DEF Half, WalksDependencies
<1>7. \A b \in Services : Count(dependedBy[b], EdgesOf(s)) = 0
  <2>1. Top \in Endings
    BY <1>1, Frames DEF Endings
  <2>2. HalfOf(Top)
    BY <2>1, ByEndings DEF EdgeInv
  <2>3. deps[s] \in Seq(Edge)
    OBVIOUS
  <2>4. \A b \in Services : Rest(deps[s], Top.i, EdgesOf(b)) = 0
    BY <1>1, <1>2, <2>3, RestOfWalk
  <2>5. QED
    BY <1>1, <2>2, <2>4 DEF HalfOf
<1>8. Mirror'
  <2>1. SUFFICES ASSUME NEW a \in Services, NEW b \in Services, NEW o \in BOOLEAN
                 PROVE  Count(deps'[a], {To(b, o)}) = Count(dependedBy'[b], {To(a, o)})
    BY DEF Mirror
  <2>2. CASE a = s
    <3>1. Count(deps'[a], {To(b, o)}) = 0
      BY <1>1, <2>2, CountEmpty
    <3>2. dependedBy[b] \in Seq(Edge) /\ To(a, o) \in EdgesOf(s)
      BY <2>2 DEF To, EdgesOf, Edge
    <3>3. \A j \in DOMAIN dependedBy[b] : dependedBy[b][j] \notin EdgesOf(s)
      BY <1>7, <3>2, CountIsNat
    <3>4. Count(dependedBy[b], {To(a, o)}) = 0
      BY <3>2, <3>3, CountIsNat
    <3>5. QED
      BY <1>1, <3>1, <3>4
  <2>3. CASE a # s
    <3>1. Count(deps[a], {To(b, o)}) = Count(dependedBy[b], {To(a, o)})
      BY <1>4, <2>3 DEF EdgeInv, Mirror
    <3>2. QED
      BY <1>1, <2>3, <3>1
  <2>4. QED
    BY <2>2, <2>3
<1>9. \A r \in Services : Excluded(r)' => deps'[r] = <<>>
  BY <1>1, <1>4 DEF EdgeInv, Excluded
<1>10. \A r \in Services : \A i \in DOMAIN deps'[r] : deps'[r][i].name \in Below(r)
  <2>1. ASSUME NEW r \in Services, r = s PROVE DOMAIN deps'[r] = {}
    BY <1>1, <2>1
  <2>2. ASSUME NEW r \in Services, r # s PROVE deps'[r] = deps[r]
    BY <1>1, <2>2
  <2>3. QED
    BY <2>1, <2>2 DEF EdgeInv
<1>11. QED
  BY <1>6, <1>8, <1>9, <1>10 DEF EdgeInv

\* finishStop() begins with every edge still to be given back.
LEMMA StopEdges ==
  ASSUME TypeInv, EdgeInv, stack = <<>>, NEW s \in Services, FinishStopService(s)
  PROVE  EdgeInv'
<1> USE DEF TypeInv, DataTypes
<1>1. /\ UNCHANGED <<deps, dependedBy>>
      /\ stack' = <<Call("finishStop", s)>>
      /\ \A r \in Services \ {s} : status'[r] = status[r]
  BY DEF FinishStopService, SetStatus, Serve, edgeVars
<1>2. PICK f : f = Call("finishStop", s)
  OBVIOUS
<1>3. f.fn = "finishStop" /\ f.svc = s /\ f.i = 1
  BY <1>2 DEF Call
<1>4. /\ Endings' = {f}
      /\ \A r : WalksDependencies(r)' <=> r = s
  BY <1>1, <1>2, <1>3 DEF Endings, WalksDependencies
<1>5. \A r : ~WalksDependencies(r)
  BY DEF WalksDependencies
<1>6. ASSUME NEW b \in Services
      PROVE  Count(dependedBy[b], EdgesOf(s)) = Rest(deps[s], 1, EdgesOf(b))
  <2>1. deps[s] \in Seq(Edge) /\ dependedBy[b] \in Seq(Edge)
    OBVIOUS
  <2>2. \A a \in Services : /\ EdgesOf(a) = {To(a, TRUE)} \union {To(a, FALSE)}
                            /\ {To(a, TRUE)} \intersect {To(a, FALSE)} = {}
    <3>1. SUFFICES ASSUME NEW a \in Services
                   PROVE  /\ EdgesOf(a) = {To(a, TRUE)} \union {To(a, FALSE)}
                          /\ {To(a, TRUE)} \intersect {To(a, FALSE)} = {}
      OBVIOUS
    <3>2. \A o \in BOOLEAN : To(a, o) \in Edge /\ To(a, o).name = a
      BY DEF To, Edge
    <3>3. \A e \in Edge : e.name = a => \E o \in BOOLEAN : e = To(a, o)
      BY DEF To, Edge
    <3>4. \A o \in BOOLEAN : o = TRUE \/ o = FALSE
      OBVIOUS
    <3>5. EdgesOf(a) = {To(a, TRUE)} \union {To(a, FALSE)}
      BY <3>2, <3>3, <3>4 DEF EdgesOf
    <3>6. To(a, TRUE) # To(a, FALSE)
      BY DEF To
    <3>7. QED
      BY <3>5, <3>6
  <2>3. /\ Count(dependedBy[b], {To(s, TRUE)} \union {To(s, FALSE)})
             = Count(dependedBy[b], {To(s, TRUE)}) + Count(dependedBy[b], {To(s, FALSE)})
        /\ Count(deps[s], {To(b, TRUE)} \union {To(b, FALSE)})
             = Count(deps[s], {To(b, TRUE)}) + Count(deps[s], {To(b, FALSE)})
    BY <2>1, <2>2, CountDisjoint
  <2>4. \A o \in BOOLEAN : Count(deps[s], {To(b, o)}) = Count(dependedBy[b], {To(s, o)})
    BY <1>5 DEF EdgeInv, Mirror
  <2>5. Count(dependedBy[b], EdgesOf(s)) = Count(deps[s], EdgesOf(b))
    BY <2>2, <2>3, <2>4
  <2>6. Rest(deps[s], 1, EdgesOf(b)) = Count(deps[s], EdgesOf(b))
    BY <2>1, RestOfWalk
  <2>7. QED
    BY <2>5, <2>6
<1>7. Half'
  <2>1. HalfOf(f)'
    BY <1>1, <1>3, <1>6 DEF HalfOf
  <2>2. QED
    BY <1>4, <2>1, EndingsNext
<1>8. Mirror'
  BY <1>1, <1>4, <1>5 DEF EdgeInv, Mirror
<1>9. QED
  BY <1>1, <1>4, <1>5, <1>7, <1>8 DEF EdgeInv, Excluded

\* The other reports leave the edges alone.
LEMMA DeliverEdges ==
  ASSUME TypeInv, EdgeInv, NEW s \in Services, Deliver(s)
  PROVE  EdgeInv'
<1>1. stack = <<>>
  BY DEF Deliver, Idle
<1>2. \/ FinishStartService(s) \/ ServiceFinishes(s) \/ FailService(s) \/ FinishStopService(s)
  <2>1. outbox[s] \in Seq(Message) /\ outbox[s] # <<>> /\ Handler(s, Head(outbox[s]))
    BY DEF Deliver, TypeInv, DataTypes, LaunchTypeOK
  <2>2. Head(outbox[s]) \in Message
    BY <2>1
  <2>3. QED
    BY <2>1, <2>2 DEF Handler, Message
<1>3. CASE FinishStartService(s) \/ ServiceFinishes(s) \/ FailService(s)
  <2>1. UNCHANGED <<deps, dependedBy>>
    BY <1>3 DEF FinishStartService, ServiceFinishes, FailService, edgeVars
  <2>2. PICK f : stack' = <<f>> /\ f.fn # "finishStop"
    <3>1. Call("finishStart", s).fn # "finishStop" /\ Call("update", s).fn # "finishStop"
      BY DEF Call
    <3>2. stack' = <<Call("finishStart", s)>> \/ stack' = <<Call("update", s)>>
      BY <1>3 DEF FinishStartService, ServiceFinishes, FailService, Serve
    <3>3. QED
      BY <3>1, <3>2
  <2>3. Endings = {} /\ Endings' = {}
    BY <1>1, <2>2 DEF Endings
  <2>4. \A r \in Services : Excluded(r)' => Excluded(r)
    BY <1>3 DEF FinishStartService, ServiceFinishes, FailService, SetStatus, Forgive, Excluded,
                TypeInv, DataTypes
  <2>5. QED
    BY <2>1, <2>3, <2>4, SameEdges
<1>4. QED
  BY <1>1, <1>2, <1>3, StopEdges

\* So do requests.
LEMMA RequestEdges ==
  ASSUME TypeInv, LockInv, EdgeInv, Boot \/ \E c \in Clients : Request(c)
  PROVE  EdgeInv'
<1>1. stack = <<>>
  BY DEF Boot, Request, Idle, LockInv
<1>2. UNCHANGED <<deps, dependedBy>>
  BY DEF Boot, Request, StartService, StopService, CascadeStopService, Refuse, SetTarget,
         edgeVars
<1>3. \A r \in Services : Excluded(r)' => Excluded(r)
  <2>1. status' = status \/ \E s \in Services : Forgive(s)
    BY DEF Boot, Request, StartService, StopService, CascadeStopService, Refuse, SetTarget,
           serviceVars
  <2>2. QED
    BY <2>1 DEF Forgive, Excluded, TypeInv, DataTypes
<1>4. Endings = {} /\ Endings' = {}
  <2>1. Endings = {}
    BY <1>1 DEF Endings
  <2>2. \A k \in DOMAIN stack' : stack'[k].fn # "finishStop"
    <3>1. ASSUME NEW t \in Targets, SetTarget(t) PROVE \A k \in DOMAIN stack' : stack'[k].fn # "finishStop"
      BY <1>1, <3>1 DEF SetTarget, EnterTarget, EnterTargetFails, callVars, Serve
    <3>2. ASSUME NEW s \in Services, NEW c \in Clients, StartService(s, c) \/ StopService(s, c)
          PROVE  \A k \in DOMAIN stack' : stack'[k].fn # "finishStop"
      <4>1. stack' = <<>> \/ stack' = <<Call("update", s), Command(c)>>
        BY <1>1, <3>2 DEF StartService, StopService, Refuse, callVars, Serve
      <4>2. Call("update", s).fn # "finishStop" /\ Command(c).fn # "finishStop"
        BY DEF Call, Command
      <4>3. PICK f, g : f = Call("update", s) /\ g = Command(c)
        OBVIOUS
      <4>4. \A k \in DOMAIN <<f, g>> : <<f, g>>[k] = f \/ <<f, g>>[k] = g
        OBVIOUS
      <4>5. QED
        BY <4>1, <4>2, <4>3, <4>4
    <3>3. ASSUME NEW s \in Services, NEW c \in Clients, CascadeStopService(s, c)
          PROVE  \A k \in DOMAIN stack' : stack'[k].fn # "finishStop"
      <4>1. stack' = <<>> \/ stack' = <<CascadeCall(s)>>
        BY <1>1, <3>3 DEF CascadeStopService, callVars, Serve
      <4>2. CascadeCall(s).fn # "finishStop"
        BY DEF CascadeCall, Call
      <4>3. QED
        BY <4>1, <4>2
    <3>4. QED
      BY <3>1, <3>2, <3>3, DaemonAssumption DEF Boot, Request
  <2>3. QED
    BY <2>1, <2>2 DEF Endings
<1>5. QED
  BY <1>2, <1>3, <1>4, SameEdges

\* Every step keeps the edges.
LEMMA NextEdges ==
  ASSUME Acyclic, IgnoreClosed, TypeInv, EdgesInv, [Next]_vars
  PROVE  EdgeInv'
<1> USE DEF EdgesInv
<1>1. CASE UNCHANGED <<deps, dependedBy, stack, status>>
  <2>1. /\ Endings' = Endings
        /\ \A r \in Services : Excluded(r)' => Excluded(r)
    BY <1>1 DEF Endings, Excluded
  <2>2. QED
    BY <1>1, <2>1, SameEdges
<1>2. ASSUME NEW s \in Services, Launch(s) PROVE EdgeInv'
  BY <1>1, <1>2 DEF Launch, serviceVars, edgeVars, callVars
<1>3. CASE UNCHANGED vars
  BY <1>1, <1>3 DEF vars, serviceVars, edgeVars, callVars
<1>4. CASE Run
  BY <1>4, OtherCallsEdges, ManagerEdges, StartEdges, GivenBack, AllGivenBack DEF Run, ServiceStep
<1>5. QED
  BY <1>2, <1>3, <1>4, DeliverEdges, RequestEdges DEF Next

-----------------------------------------------------------------------------
(* The theorems.                                                           *)

\* The whole invariant.
Upright == TypeInv /\ LauncherInv /\ EdgesInv

\* Init establishes it and every step of PxDaemon keeps it.
LEMMA UprightKeeps ==
  ASSUME Acyclic, IgnoreClosed
  PROVE  /\ Init => Upright
         /\ Upright /\ [Next]_vars => Upright'
<1>1. Init => Upright
  BY InitTypes, InitLauncher, InitEdges DEF Upright
<1>2. ASSUME Upright, [Next]_vars PROVE Upright'
  <2>1. TypeInv' /\ LauncherInv'
    BY <1>2, NextTypes, NextLauncher DEF Upright
  <2>2. LockInv' /\ FrameInv' /\ EdgeInv'
    BY <1>2, NextLocks, NextFrames, NextEdges DEF Upright, EdgesInv
  <2>3. QED
    BY <2>1, <2>2 DEF Upright, EdgesInv
<1>3. QED
  BY <1>1, <1>2

\* Between two commands deps and dependedBy (PxService.hpp) are each other's mirror
\* image: no dependency is held up by, or stops under, a service that does not know
\* of it, whatever start(), stop(), finishStop() and their errors did.
THEOREM EdgesMirror == ASSUME Acyclic, IgnoreClosed PROVE Spec => []EdgesMatch
<1>1. Upright => EdgesMatch
  <2>1. \A q, e : Occurrences(q, e) = Count(q, {e})
    <3>1. \A q, e : {i \in DOMAIN q : q[i] = e} = Places(q, {e})
      BY DEF Places
    <3>2. QED
      BY <3>1 DEF Occurrences, Count
  <2>2. Quiescent => \A s : ~WalksDependencies(s)
    BY DEF Quiescent, WalksDependencies
  <2>3. QED
    BY <2>1, <2>2 DEF Upright, EdgesInv, EdgeInv, Mirror, EdgesMatch, To
<1>2. QED
  BY <1>1, UprightKeeps, PTL DEF Spec

\* A service that is down holds on to nothing once finishStop() has returned.
THEOREM TheDeadHoldNothing == ASSUME Acyclic, IgnoreClosed PROVE Spec => []NoEdgeOfTheDead
<1>1. Upright => NoEdgeOfTheDead
  BY DEF Upright, EdgesInv, EdgeInv, NoEdgeOfTheDead, Quiescent, WalksDependencies
<1>2. QED
  BY <1>1, UprightKeeps, PTL DEF Spec

\* No nested call changes a list that stop(), cascadeStop(), finishStart() or
\* finishStop() is walking by reference: no iterator is left dangling.
THEOREM NoListChangesUnderAWalk ==
  ASSUME Acyclic, IgnoreClosed PROVE Spec => WalkedListsStay
<1> DEFINE Stay == \A s \in Services :
                     /\ WalksDependents(s) => dependedBy'[s] = dependedBy[s]
                     /\ WalksDependencies(s) => deps'[s] = deps[s] \/ Len(stack') < Len(stack)
<1>1. ASSUME Upright, [Next]_vars PROVE [Stay]_vars
  <2>1. CASE Run
    BY <1>1, <2>1, WalkedStay DEF Upright, EdgesInv
  <2>2. CASE stack = <<>>
    BY <2>2 DEF WalksDependents, WalksDependencies
  <2>3. CASE UNCHANGED <<deps, dependedBy>>
    BY <2>3
  <2>4. QED
    BY <1>1, <2>1, <2>2, <2>3 DEF Next, Boot, Request, Deliver, Idle, Launch, edgeVars, Upright,
                                  EdgesInv, LockInv
<1>2. QED
  BY <1>1, UprightKeeps, PTL DEF Spec, WalkedListsStay
=============================================================================
