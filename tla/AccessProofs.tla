--------------------------- MODULE AccessProofs -----------------------------
(* Proofs about the components of Platform that let people and programs in: members, sessions, API     *)
(* tokens, apps and their commands, bills, the status page and what it shows, the shield, for any      *)
(* number of requests.                                                                                 *)
EXTENDS Platform, Sequences, FiniteSetTheorems, WellFoundedInduction, TLAPS

-----------------------------------------------------------------------------
(* Requests, and how many there are.                                      *)

LEMMA HandlersCounted ==
  /\ IsFiniteSet(Handlers)
  /\ Cardinality(Handlers) \in Nat /\ Cardinality(Handlers) >= 1
<1>1. IsFiniteSet(Handlers) /\ Cardinality(Handlers) \in Nat
  BY HandlersFinite, FS_CardinalityType
<1>2. Cardinality(Handlers) # 0
  BY HandlersFinite, FS_EmptySet
<1>3. QED
  BY <1>1, <1>2

LEMMA SomeCounted ==
  ASSUME NEW S \in SUBSET Handlers
  PROVE  IsFiniteSet(S) /\ Cardinality(S) \in Nat /\ Cardinality(S) <= Cardinality(Handlers)
BY HandlersFinite, FS_Subset, FS_CardinalityType

\* The requests at some place, before (C) and after (D) a step of h: how many there are changes
\* by h alone.
LEMMA OneMoves ==
  ASSUME NEW h \in Handlers, NEW C \in SUBSET Handlers, NEW D \in SUBSET Handlers,
         D \ {h} = C \ {h}
  PROVE  /\ h \notin D => Cardinality(D) <= Cardinality(C)
         /\ h \in C /\ h \notin D => Cardinality(D) = Cardinality(C) - 1
         /\ h \notin C /\ h \in D => Cardinality(D) = Cardinality(C) + 1
         /\ (h \in C <=> h \in D) => D = C
<1>0. IsFiniteSet(C) /\ Cardinality(C) \in Nat /\ IsFiniteSet(D) /\ Cardinality(D) \in Nat
  BY SomeCounted
<1>1. CASE h \in C /\ h \notin D
  <2>1. D = C \ {h}
    BY <1>1
  <2>2. QED
    BY <1>0, <1>1, <2>1, FS_RemoveElement
<1>2. CASE h \notin C /\ h \in D
  <2>1. D = C \cup {h}
    BY <1>2
  <2>2. QED
    BY <1>0, <1>2, <2>1, FS_AddElement
<1>3. CASE h \in C <=> h \in D
  <2>1. D = C
    BY <1>3
  <2>2. QED
    BY <1>0, <1>3, <2>1
<1>4. QED
  BY <1>1, <1>2, <1>3

\* A request that is elsewhere leaves room for one.
LEMMA RoomForOne ==
  ASSUME NEW h \in Handlers, NEW C \in SUBSET Handlers, h \notin C
  PROVE  Cardinality(C) < Cardinality(Handlers)
<1>1. C \cup {h} \in SUBSET Handlers /\ IsFiniteSet(C) /\ Cardinality(C) \in Nat
  BY SomeCounted
<1>2. Cardinality(C \cup {h}) = Cardinality(C) + 1
  BY <1>1, FS_AddElement
<1>3. QED
  BY <1>1, <1>2, SomeCounted

\* Requests at two places are together at most all.
LEMMA ApartFit ==
  ASSUME NEW C \in SUBSET Handlers, NEW D \in SUBSET Handlers, C \cap D = {}
  PROVE  Cardinality(C) + Cardinality(D) <= Cardinality(Handlers)
<1>1. /\ IsFiniteSet(C) /\ IsFiniteSet(D) /\ C \cup D \in SUBSET Handlers
      /\ Cardinality(C) \in Nat /\ Cardinality(D) \in Nat
  BY SomeCounted
<1>2. Cardinality(C \cup D) = Cardinality(C) + Cardinality(D) - Cardinality(C \cap D)
  BY <1>1, FS_Union
<1>3. Cardinality(C \cap D) = 0
  BY FS_EmptySet
<1>4. QED
  BY <1>1, <1>2, <1>3, SomeCounted

\* A set of natural numbers has a least one, and a bounded one a greatest.
LEMMA Least == ASSUME NEW T \in SUBSET Nat, T # {} PROVE \E x \in T : \A y \in T : x <= y
<1>1. IsWellFoundedOn(OpToRel(<, Nat), Nat)
  BY NatLessThanWellFounded
<1>2. PICK x \in T : \A y \in T : <<y, x>> \notin OpToRel(<, Nat)
  BY <1>1, WFMin
<1>3. \A y \in T : ~(y < x)
  BY <1>2 DEF OpToRel
<1>4. QED
  BY <1>3

LEMMA Greatest == ASSUME NEW n \in Nat, NEW T \in SUBSET (0..n), T # {} PROVE \E x \in T : \A y \in T : y <= x
<1> DEFINE D == {n - x : x \in T}
<1>1. \A x \in T : x \in Nat /\ n - x \in Nat
  OBVIOUS
<1>2. D \subseteq Nat /\ D # {}
  BY <1>1
<1>3. PICK d \in D : \A y \in D : d <= y
  BY <1>2, Least
<1>4. PICK x \in T : d = n - x
  OBVIOUS
<1>5. \A y \in T : n - y \in D
  OBVIOUS
<1>6. \A y \in T : n - x <= n - y
  BY <1>3, <1>4, <1>5
<1>7. QED
  BY <1>1, <1>6

\* A finite set of natural numbers has a bound.
LEMMA Bounded == ASSUME NEW S \in SUBSET Nat, IsFiniteSet(S) PROVE \E n \in Nat : S \subseteq 0..n
<1> DEFINE Open(T) == T \in SUBSET Nat /\ IsFiniteSet(T) /\ \A n \in Nat : ~(T \subseteq 0..n)
           Bad == {k \in Nat : \E T \in SUBSET Nat : Open(T) /\ Cardinality(T) = k}
<1>1. ASSUME Bad # {} PROVE FALSE
  <2>1. PICK k \in Bad : \A i \in Bad : k <= i
    BY <1>1, Least
  <2>2. PICK T \in SUBSET Nat : Open(T) /\ Cardinality(T) = k
    BY <2>1
  <2>3. T # {}
    BY <2>2
  <2>4. PICK x \in T : TRUE
    BY <2>3
  <2>5. IsFiniteSet(T \ {x}) /\ Cardinality(T \ {x}) = k - 1
    BY <2>2, <2>4, FS_RemoveElement
  <2>6. k \in Nat /\ k - 1 \in Nat
    <3>1. k \in Nat
      OBVIOUS
    <3>2. QED
      BY <2>5, <3>1, FS_CardinalityType
  <2>7. ~Open(T \ {x})
    <3> HIDE DEF Open, Bad
    <3>1. k - 1 \notin Bad
      BY <2>1, <2>6
    <3>2. QED
      BY <2>5, <2>6, <3>1 DEF Bad
  <2>8. PICK n \in Nat : T \ {x} \subseteq 0..n
    BY <2>5, <2>7
  <2>9. x \in Nat /\ n + x \in Nat /\ T \subseteq 0..(n + x)
    BY <2>4, <2>8
  <2>10. QED
    BY <2>2, <2>9
<1>2. ASSUME Open(S) PROVE FALSE
  <2>1. Cardinality(S) \in Nat
    BY FS_CardinalityType
  <2> HIDE DEF Open
  <2>2. QED
    BY <1>1, <1>2, <2>1
<1>3. QED
  BY <1>2

\* A function takes no more values than it has arguments.
LEMMA ImageCounted ==
  ASSUME NEW S, IsFiniteSet(S), NEW f
  PROVE  /\ IsFiniteSet({f[x] : x \in S}) /\ Cardinality({f[x] : x \in S}) \in Nat
         /\ Cardinality({f[x] : x \in S}) <= Cardinality(S)
<1> DEFINE T == {f[x] : x \in S}
           g == [x \in S |-> f[x]]
<1>1. g \in Surjection(S, T)
  BY DEF Surjection
<1>2. IsFiniteSet(T) /\ Cardinality(T) <= Cardinality(S)
  <2> HIDE DEF T, g
  <2>1. QED
    BY <1>1, FS_Surjection
<1>3. QED
  BY <1>2, FS_CardinalityType

\* Products of natural numbers.
LEMMA OneMore == ASSUME NEW n \in Nat, NEW k \in Nat PROVE n * (k + 1) = n * k + n
OBVIOUS

LEMMA TimesGrows ==
  ASSUME NEW n \in Nat, NEW k \in Nat, NEW m \in Nat, k <= m
  PROVE  n * k <= n * m
<1>1. PICK d \in Nat : m = k + d
  <2>1. m - k \in Nat /\ m = k + (m - k)
    OBVIOUS
  <2>2. QED
    BY <2>1
<1>2. n * m = n * k + n * d
  BY <1>1
<1>3. n * d \in Nat /\ n * k \in Nat
  OBVIOUS
<1>4. QED
  BY <1>2, <1>3

\* A recursion on functions from D to V, of which e is one: B makes of the values so far the next ones, from those at
\* smaller measures, which are at most n.
Measured(D, V, e, B, n, m) ==
  /\ e \in [D -> V] /\ B \in [[D -> V] -> [D -> V]]
  /\ n \in Nat /\ m \in [D -> 0..n]
  /\ \A f, g \in [D -> V] : \A p \in D :
       (\A q \in D : m[q] < m[p] => f[q] = g[q]) => B[f][p] = B[g][p]

\* Such a recursion has a solution.
LEMMA Recursive ==
  ASSUME NEW D, NEW V, NEW e, NEW B, NEW n, NEW m, Measured(D, V, e, B, n, m)
  PROVE  \E f \in [D -> V] : f = B[f]
<1> USE DEF Measured
<1> DEFINE Solved(k, f) == \A p \in D : m[p] < k => f[p] = B[f][p]
           Bad == {k \in Nat : \A f \in [D -> V] : ~Solved(k, f)}
<1>1. Solved(0, e)
  OBVIOUS
<1>2. ASSUME NEW k \in Nat, NEW f \in [D -> V], Solved(k, f)
      PROVE  \E g \in [D -> V] : Solved(k + 1, g)
  <2> DEFINE g == [p \in D |-> IF m[p] < k THEN f[p] ELSE B[f][p]]
  <2>1. g \in [D -> V]
    OBVIOUS
  <2>2. \A p \in D : g[p] = IF m[p] < k THEN f[p] ELSE B[f][p]
    OBVIOUS
  <2> HIDE DEF g
  <2>3. ASSUME NEW p \in D, m[p] < k + 1 PROVE g[p] = B[g][p]
    <3>1. \A q \in D : m[q] < m[p] => m[q] < k
      BY <2>3
    <3>2. B[f][p] = B[g][p]
      BY <2>1, <2>2, <3>1
    <3>3. QED
      BY <1>2, <2>2, <3>2
  <2>4. QED
    BY <2>1, <2>3
<1> HIDE DEF Solved
<1>3. Bad = {}
  <2>1. SUFFICES ASSUME Bad # {} PROVE FALSE
    OBVIOUS
  <2>2. PICK k \in Bad : \A i \in Bad : k <= i
    BY <2>1, Least
  <2>3. k # 0
    BY <1>1
  <2>4. k - 1 \in Nat /\ k - 1 \notin Bad /\ k = (k - 1) + 1
    BY <2>2, <2>3
  <2>5. PICK f \in [D -> V] : Solved(k - 1, f)
    BY <2>4
  <2>6. \E g \in [D -> V] : Solved(k, g)
    BY <1>2, <2>4, <2>5
  <2>7. QED
    BY <2>6
<1>4. PICK f \in [D -> V] : Solved(n + 1, f)
  <2> DEFINE k == n + 1
  <2>1. k \in Nat
    OBVIOUS
  <2> HIDE DEF k
  <2>2. \E f \in [D -> V] : Solved(k, f)
    BY <1>3, <2>1
  <2>3. QED
    BY <2>2 DEF k
<1>5. \A p \in D : f[p] = B[f][p]
  BY <1>4 DEF Solved
<1>6. B[f] \in [D -> V]
  OBVIOUS
<1>7. QED
  BY <1>5, <1>6

\* What holds of a number and is passed on to the next holds of all up to the last.
LEMMA Climbs ==
  ASSUME NEW a \in Nat, NEW n \in Nat, NEW T, a \in T, \A k \in a..n : k \in T /\ k < n => k + 1 \in T
  PROVE  \A k \in a..n : k \in T
<1> DEFINE Bad == {k \in a..n : k \notin T}
<1>1. SUFFICES ASSUME Bad # {} PROVE FALSE
  OBVIOUS
<1>2. PICK k \in Bad : \A i \in Bad : k <= i
  <2>1. Bad \in SUBSET Nat
    OBVIOUS
  <2> HIDE DEF Bad
  <2>2. QED
    BY <1>1, <2>1, Least
<1>3. k # a /\ k - 1 \in a..n /\ k - 1 < n /\ k = (k - 1) + 1
  BY <1>2
<1>4. k - 1 \in T
  BY <1>2, <1>3
<1>5. QED
  BY <1>2, <1>3, <1>4

\* A step from value to value, from x on, can be repeated from a to n.
Repeatable(a, n, V, x, G) == a \in Nat /\ n \in Nat /\ x \in V /\ G \in [V -> V]

LEMMA Iterated ==
  ASSUME NEW a, NEW n, NEW V, NEW x, NEW G, Repeatable(a, n, V, x, G)
  PROVE  \E f \in [a..n -> V] : f = [k \in a..n |-> IF k = a THEN x ELSE G[f[k - 1]]]
<1> USE DEF Repeatable
<1> DEFINE D == a..n
           B == [f \in [D -> V] |-> [k \in D |-> IF k = a THEN x ELSE G[f[k - 1]]]]
           e == [k \in D |-> x]
           m == [k \in D |-> k]
<1>1. e \in [D -> V] /\ m \in [D -> 0..n]
  OBVIOUS
<1>2. ASSUME NEW k \in D, k # a PROVE k - 1 \in D /\ m[k - 1] < m[k]
  BY <1>2
<1>3. B \in [[D -> V] -> [D -> V]]
  BY <1>2
<1>4. ASSUME NEW f \in [D -> V], NEW g \in [D -> V], NEW p \in D, \A q \in D : m[q] < m[p] => f[q] = g[q]
      PROVE  B[f][p] = B[g][p]
  <2>1. p # a => f[p - 1] = g[p - 1]
    BY <1>2, <1>4
  <2>2. QED
    BY <2>1
<1>5. PICK f \in [D -> V] : f = B[f]
  <2> HIDE DEF B, e, m, D
  <2>1. Measured(D, V, e, B, n, m)
    BY <1>1, <1>3, <1>4 DEF Measured
  <2>2. QED
    BY <2>1, Recursive
<1>6. QED
  BY <1>5

-----------------------------------------------------------------------------
(* Members.                                                                *)

\* Sets are counted as everywhere.
LEMMA MembersCount ==
  \A S : Members!IsFiniteSet(S) = IsFiniteSet(S) /\ Members!Cardinality(S) = Cardinality(S)
BY DEF Members!IsFiniteSet, IsFiniteSet, Members!Cardinality, Cardinality

MembersFrames == {Members!Idle} \cup Members!Requests

MembersInviteOps == {"seats", "lookup", "void", "upsert", "insert"}
MembersInviteStates == {"unsent", "open", "expired", "used"}
MembersMemberStates == {"none", "INVITED", "ACTIVE", "REMOVED"}

\* A step of the request h.
MembersStepOf(h) ==
  \/ Members!InviteSeats(h) \/ Members!InviteLookUp(h) \/ Members!InviteVoid(h) \/ Members!InviteUpsert(h) \/ Members!InviteInsert(h)
  \/ Members!AcceptWrite(h) \/ Members!MemberWrite(h) \/ Members!Lost(h)
  \/ \E p \in People :
       \/ Members!InviteCount(h, p)
       \/ \E s \in {"INVITED", "ACTIVE", "REMOVED"} : Members!MemberRead(h, p, s)
  \/ \E i \in Members!Invites : Members!AcceptRead(h, i)

\* Types.

LEMMA MembersFrameParts ==
  ASSUME Members!TypeOK, NEW h \in Handlers
  PROVE  /\ frame[h].op \in {"idle", "accept", "member"} \cup MembersInviteOps
         /\ frame[h].op \in MembersInviteOps => frame[h].p \in People
         /\ Members!At(h, "accept") => frame[h].i \in Members!Invites /\ frame[h].i[1] \in People
         /\ Members!At(h, "member") => frame[h].p \in People /\ frame[h].to \in {"INVITED", "ACTIVE", "REMOVED"}
<1>1. \/ frame[h] = Members!Idle
      \/ frame[h] \in [op : {"seats", "lookup", "void", "upsert", "insert"}, p : People]
      \/ frame[h] \in [op : {"accept"}, i : Members!Invites]
      \/ frame[h] \in [op : {"member"}, p : People, to : {"INVITED", "ACTIVE", "REMOVED"}]
  BY DEF Members!TypeOK, Members!Requests
<1>2. CASE frame[h] = Members!Idle
  BY <1>2 DEF Members!Idle, Members!At, MembersInviteOps
<1>3. CASE frame[h] \in [op : {"seats", "lookup", "void", "upsert", "insert"}, p : People]
  BY <1>3 DEF Members!At, MembersInviteOps
<1>4. CASE frame[h] \in [op : {"accept"}, i : Members!Invites]
  BY <1>4 DEF Members!At, MembersInviteOps, Members!Invites
<1>5. CASE frame[h] \in [op : {"member"}, p : People, to : {"INVITED", "ACTIVE", "REMOVED"}]
  BY <1>5 DEF Members!At, MembersInviteOps
<1>6. QED
  BY <1>1, <1>2, <1>3, <1>4, <1>5

LEMMA MembersParts ==
  ASSUME Members!TypeOK
  PROVE  /\ frame \in [Handlers -> MembersFrames]
         /\ member \in [People -> MembersMemberStates]
         /\ invite \in [Members!Invites -> MembersInviteStates]
         /\ joins \in [Members!Invites -> Nat] /\ removals \in [People -> 0..MaxRemovals]
         /\ sent \in Nat /\ users \subseteq People /\ linked \subseteq People
BY DEF Members!TypeOK, MembersFrames, MembersInviteStates, MembersMemberStates

LEMMA MembersPartsSuffice ==
  ASSUME frame' \in [Handlers -> MembersFrames],
         member' \in [People -> MembersMemberStates],
         invite' \in [Members!Invites -> MembersInviteStates],
         joins' \in [Members!Invites -> Nat], removals' \in [People -> 0..MaxRemovals],
         sent' \in Nat, users' \subseteq People, linked' \subseteq People
  PROVE  Members!TypeOK'
BY DEF Members!TypeOK, MembersFrames, MembersInviteStates, MembersMemberStates

\* Every record a step writes is one of a request.
LEMMA MembersRecords ==
  /\ Members!Idle \in MembersFrames
  /\ \A op \in MembersInviteOps, p \in People : [op |-> op, p |-> p] \in MembersFrames
  /\ \A i \in Members!Invites : [op |-> "accept", i |-> i] \in MembersFrames
  /\ \A p \in People, s \in {"INVITED", "ACTIVE", "REMOVED"} : [op |-> "member", p |-> p, to |-> s] \in MembersFrames
BY DEF MembersFrames, Members!Requests, MembersInviteOps

\* What h does to the records of the requests.
LEMMA MembersFrameStep ==
  ASSUME Members!TypeOK, NEW h \in Handlers, MembersStepOf(h)
  PROVE  /\ frame' \in [Handlers -> MembersFrames]
         /\ \A g \in Handlers \ {h} : frame'[g] = frame[g]
<1> USE MembersParts, MembersFrameParts, MembersRecords
<1>1. ASSUME NEW f \in MembersFrames, Members!GoOn(h, f)
      PROVE  /\ frame' \in [Handlers -> MembersFrames]
             /\ \A g \in Handlers \ {h} : frame'[g] = frame[g]
  BY <1>1 DEF Members!GoOn
<1>2. CASE Members!InviteSeats(h) \/ Members!InviteLookUp(h) \/ Members!InviteVoid(h) \/ Members!InviteUpsert(h)
  <2>1. frame[h].p \in People
    BY <1>2, MembersCount DEF Members!InviteSeats, Members!InviteLookUp, Members!InviteVoid,
       Members!InviteUpsert, Members!At, MembersInviteOps
  <2>2. /\ Members!Idle \in MembersFrames
        /\ [op |-> "lookup", p |-> frame[h].p] \in MembersFrames /\ [op |-> "void", p |-> frame[h].p] \in MembersFrames
        /\ [op |-> "upsert", p |-> frame[h].p] \in MembersFrames /\ [op |-> "insert", p |-> frame[h].p] \in MembersFrames
    BY <2>1 DEF MembersInviteOps
  <2>3. \E f \in MembersFrames : Members!GoOn(h, f)
    BY <1>2, <2>2, MembersCount DEF Members!InviteSeats, Members!InviteLookUp, Members!InviteVoid,
       Members!InviteUpsert, Members!Finish
  <2>4. QED
    BY <1>1, <2>3
<1>3. CASE Members!InviteInsert(h) \/ Members!AcceptWrite(h) \/ Members!MemberWrite(h) \/ Members!Lost(h)
  BY <1>1, <1>3 DEF Members!InviteInsert, Members!AcceptWrite, Members!MemberWrite, Members!Lost,
     Members!Drop, Members!Finish
<1>4. CASE \E p \in People :
             \/ Members!InviteCount(h, p)
             \/ \E s \in {"INVITED", "ACTIVE", "REMOVED"} : Members!MemberRead(h, p, s)
  BY <1>4 DEF Members!InviteCount, Members!MemberRead, Members!Serve, MembersInviteOps
<1>5. CASE \E i \in Members!Invites : Members!AcceptRead(h, i)
  BY <1>5 DEF Members!AcceptRead, Members!Serve
<1>6. QED
  BY <1>2, <1>3, <1>4, <1>5 DEF MembersStepOf

LEMMA MembersTypeStep == ASSUME Members!TypeOK, [Members!Next]_(Members!vars) PROVE Members!TypeOK'
<1> USE MembersParts DEF Members!memberVars
<1>1. ASSUME NEW h \in Handlers, MembersStepOf(h) PROVE Members!TypeOK'
  <2>0. frame' \in [Handlers -> MembersFrames]
    BY <1>1, MembersFrameStep
  <2>1. CASE \/ Members!InviteSeats(h) \/ Members!InviteLookUp(h) \/ Members!Lost(h)
             \/ \E p \in People :
                  \/ Members!InviteCount(h, p)
                  \/ \E s \in {"INVITED", "ACTIVE", "REMOVED"} : Members!MemberRead(h, p, s)
             \/ \E i \in Members!Invites : Members!AcceptRead(h, i)
    <3>1. UNCHANGED Members!memberVars
      BY <2>1, MembersCount DEF Members!InviteSeats, Members!InviteLookUp, Members!Lost, Members!InviteCount,
         Members!MemberRead, Members!AcceptRead
    <3>2. QED
      BY <2>0, <3>1, MembersPartsSuffice
  <2>2. CASE Members!InviteVoid(h)
    <3>1. invite' \in [Members!Invites -> MembersInviteStates]
      BY <2>2 DEF Members!InviteVoid, MembersInviteStates
    <3>2. QED
      BY <2>0, <2>2, <3>1, MembersPartsSuffice DEF Members!InviteVoid
  <2>3. CASE Members!InviteUpsert(h)
    <3>1. member' \in [People -> MembersMemberStates] /\ linked' \subseteq People
      BY <2>3 DEF Members!InviteUpsert, MembersMemberStates
    <3>2. QED
      BY <2>0, <2>3, <3>1, MembersPartsSuffice DEF Members!InviteUpsert
  <2>4. CASE Members!InviteInsert(h)
    <3>1. invite' \in [Members!Invites -> MembersInviteStates]
      BY <2>4 DEF Members!InviteInsert, MembersInviteStates
    <3>2. QED
      BY <2>0, <2>4, <3>1, MembersPartsSuffice DEF Members!InviteInsert
  <2>5. CASE Members!AcceptWrite(h)
    <3>1. frame[h].i \in Members!Invites /\ frame[h].i[1] \in People
      BY <2>5, MembersFrameParts DEF Members!AcceptWrite
    <3>2. /\ invite' \in [Members!Invites -> MembersInviteStates] /\ joins' \in [Members!Invites -> Nat]
          /\ member' \in [People -> MembersMemberStates] /\ users' \subseteq People /\ linked' \subseteq People
      BY <2>5, <3>1 DEF Members!AcceptWrite, Members!Join, MembersInviteStates, MembersMemberStates
    <3>3. QED
      BY <2>0, <2>5, <3>2, MembersPartsSuffice DEF Members!AcceptWrite
  <2>6. CASE Members!MemberWrite(h)
    <3>1. frame[h].p \in People /\ frame[h].to \in {"INVITED", "ACTIVE", "REMOVED"}
      BY <2>6, MembersFrameParts DEF Members!MemberWrite
    <3>2. member' \in [People -> MembersMemberStates]
      BY <2>6, <3>1 DEF Members!MemberWrite, MembersMemberStates
    <3>3. removals' \in [People -> 0..MaxRemovals]
      BY <2>6, <3>1, MemberConstants DEF Members!MemberWrite
    <3>4. QED
      BY <2>0, <2>6, <3>2, <3>3, MembersPartsSuffice DEF Members!MemberWrite
  <2>7. QED
    BY <1>1, <2>1, <2>2, <2>3, <2>4, <2>5, <2>6 DEF MembersStepOf
<1>2. ASSUME NEW i \in Members!Invites, Members!InviteExpires(i) PROVE Members!TypeOK'
  <2>1. invite' \in [Members!Invites -> MembersInviteStates]
    BY <1>2 DEF Members!InviteExpires, MembersInviteStates
  <2>2. QED
    BY <1>2, <2>1, MembersPartsSuffice DEF Members!InviteExpires
<1>3. ASSUME NEW p \in People, Members!CreateUser(p) PROVE Members!TypeOK'
  BY <1>3, MembersPartsSuffice DEF Members!CreateUser
<1>4. CASE Members!DayPasses
  BY <1>4, MembersPartsSuffice DEF Members!DayPasses
<1>5. CASE UNCHANGED Members!vars
  BY <1>5, MembersPartsSuffice DEF Members!vars
<1>6. QED
  BY <1>1, <1>2, <1>3, <1>4, <1>5 DEF Members!Next, MembersStepOf

(* The records of the requests, the members and the invitations keep their *)
(* types, for any number of people, invitations and requests.              *)
THEOREM MembersTypeCorrect == Members!Spec => []Members!TypeOK
<1>1. Members!Init => Members!TypeOK
  BY MemberConstants DEF Members!Init, Members!ServerInit, Members!TypeOK
<1>2. QED
  BY <1>1, MembersTypeStep, PTL DEF Members!Spec

\* Acceptances.

\* Nothing makes a used invitation acceptable again.
MembersJoinInv == \A i \in Members!Invites : joins[i] <= 1 /\ (joins[i] > 0 => invite[i] = "used")

LEMMA MembersJoinStep == ASSUME Members!TypeOK, MembersJoinInv, [Members!Next]_(Members!vars)
                         PROVE  MembersJoinInv'
<1> USE MembersParts
<1>1. ASSUME joins' = joins, \A i \in Members!Invites : invite[i] = "used" => invite'[i] = "used"
      PROVE  MembersJoinInv'
  BY <1>1 DEF MembersJoinInv
<1>2. ASSUME NEW h \in Handlers, Members!AcceptWrite(h) PROVE MembersJoinInv'
  <2> DEFINE j == frame[h].i
  <2>1. j \in Members!Invites
    BY <1>2, MembersFrameParts DEF Members!AcceptWrite
  <2>2. CASE invite[j] = "used"
    BY <1>1, <1>2, <2>2 DEF Members!AcceptWrite
  <2>3. CASE invite[j] # "used"
    <3>1. invite' = [invite EXCEPT ![j] = "used"] /\ joins' = [joins EXCEPT ![j] = @ + 1]
      BY <1>2, <2>3 DEF Members!AcceptWrite, Members!Join
    <3>2. joins[j] = 0
      BY <2>1, <2>3 DEF MembersJoinInv
    <3>3. ASSUME NEW i \in Members!Invites PROVE joins'[i] <= 1 /\ (joins'[i] > 0 => invite'[i] = "used")
      <4>1. CASE i = j
        BY <2>1, <3>1, <3>2, <4>1
      <4>2. CASE i # j
        BY <2>1, <3>1, <4>2 DEF MembersJoinInv
      <4>3. QED
        BY <4>1, <4>2
    <3>4. QED
      BY <3>3 DEF MembersJoinInv
  <2>4. QED
    BY <2>2, <2>3
<1>3. ASSUME NEW h \in Handlers, Members!InviteVoid(h) \/ Members!InviteInsert(h) PROVE MembersJoinInv'
  BY <1>1, <1>3 DEF Members!InviteVoid, Members!InviteInsert
<1>4. ASSUME NEW h \in Handlers, MembersStepOf(h), ~Members!AcceptWrite(h), ~Members!InviteVoid(h), ~Members!InviteInsert(h)
      PROVE  MembersJoinInv'
  <2>1. joins' = joins /\ invite' = invite
    BY <1>4, MembersCount DEF MembersStepOf, Members!InviteSeats, Members!InviteLookUp, Members!InviteUpsert,
       Members!MemberWrite, Members!Lost, Members!InviteCount, Members!MemberRead,
       Members!AcceptRead, Members!memberVars
  <2>2. QED
    BY <1>1, <2>1
<1>5. ASSUME NEW i \in Members!Invites, Members!InviteExpires(i) PROVE MembersJoinInv'
  BY <1>1, <1>5 DEF Members!InviteExpires
<1>6. ASSUME NEW p \in People, Members!CreateUser(p) PROVE MembersJoinInv'
  BY <1>1, <1>6 DEF Members!CreateUser
<1>7. CASE Members!DayPasses \/ UNCHANGED Members!vars
  BY <1>1, <1>7 DEF Members!DayPasses, Members!vars, Members!memberVars
<1>8. QED
  BY <1>2, <1>3, <1>4, <1>5, <1>6, <1>7 DEF Members!Next, MembersStepOf

(* An invitation makes somebody a member at most once, however many        *)
(* requests present it at the same time, whatever else is sent, removed or *)
(* expires meanwhile (acceptInvite).                                       *)
THEOREM MembersJoinOnce == Members!Spec => []Members!InvitesJoinOnce
<1>1. Members!Init => Members!TypeOK /\ MembersJoinInv
  BY MemberConstants DEF Members!Init, Members!ServerInit, Members!TypeOK, MembersJoinInv
<1>2. Members!TypeOK /\ MembersJoinInv /\ [Members!Next]_(Members!vars) => Members!TypeOK' /\ MembersJoinInv'
  BY MembersTypeStep, MembersJoinStep
<1>3. MembersJoinInv => Members!InvitesJoinOnce
  BY DEF MembersJoinInv, Members!InvitesJoinOnce
<1>4. QED
  BY <1>1, <1>2, <1>3, PTL DEF Members!Spec

\* The daily limit.

\* Requests that have counted the day's invitations and not sent theirs.
MembersInviting == {h \in Handlers : frame[h].op \in MembersInviteOps}

MembersSentInv == sent + Cardinality(MembersInviting) < InviteLimit + Cardinality(Handlers)

LEMMA MembersSentStep == ASSUME Members!TypeOK, MembersSentInv, [Members!Next]_(Members!vars)
                         PROVE  MembersSentInv'
<1>0. /\ Cardinality(Handlers) \in Nat /\ Cardinality(Handlers) >= 1
      /\ Cardinality(MembersInviting) \in Nat /\ Cardinality(MembersInviting) <= Cardinality(Handlers)
      /\ sent \in Nat /\ InviteLimit \in Nat /\ InviteLimit > 0
  BY HandlersCounted, SomeCounted, MembersParts, MemberConstants DEF MembersInviting
<1>1. ASSUME NEW h \in Handlers, MembersStepOf(h) PROVE MembersSentInv'
  <2> DEFINE C == MembersInviting
             D == MembersInviting'
  <2>1. C \in SUBSET Handlers /\ D \in SUBSET Handlers /\ D \ {h} = C \ {h}
    BY <1>1, MembersFrameStep DEF MembersInviting
  <2>2. /\ Cardinality(D) \in Nat /\ Cardinality(D) <= Cardinality(Handlers)
        /\ h \notin D => Cardinality(D) <= Cardinality(C)
        /\ h \in C /\ h \notin D => Cardinality(D) = Cardinality(C) - 1
        /\ h \in C /\ h \in D => D = C
    BY <2>1, OneMoves, SomeCounted
  <2>3. /\ h \in C <=> frame[h].op \in MembersInviteOps
        /\ h \in D <=> frame'[h].op \in MembersInviteOps
    BY DEF MembersInviting
  <2>4. \/ sent' = sent /\ (h \notin D \/ h \in C)
        \/ sent' = sent /\ sent < InviteLimit
        \/ sent' = sent + 1 /\ h \in C /\ h \notin D
    <3> HIDE DEF C, D
    <3>1. Members!Idle.op \notin MembersInviteOps
      BY DEF Members!Idle, MembersInviteOps
    <3>2. CASE \E p \in People : Members!InviteCount(h, p)
      BY <3>2 DEF Members!InviteCount, Members!memberVars
    <3>3. CASE Members!InviteSeats(h) \/ Members!InviteLookUp(h) \/ Members!InviteVoid(h) \/ Members!InviteUpsert(h)
      BY <2>3, <3>3, MembersCount DEF Members!InviteSeats, Members!InviteLookUp, Members!InviteVoid,
         Members!InviteUpsert, Members!At, MembersInviteOps, Members!memberVars
    <3>4. CASE Members!InviteInsert(h)
      <4>1. frame'[h] = Members!Idle /\ frame[h].op = "insert" /\ sent' = sent + 1
        BY <3>4, MembersParts DEF Members!InviteInsert, Members!Finish, Members!GoOn, Members!At
      <4>2. QED
        BY <2>3, <3>1, <4>1 DEF MembersInviteOps
    <3>5. CASE Members!AcceptWrite(h) \/ Members!MemberWrite(h) \/ Members!Lost(h)
      <4>1. frame'[h] = Members!Idle /\ sent' = sent
        BY <3>5, MembersParts DEF Members!AcceptWrite, Members!MemberWrite, Members!Lost, Members!Drop,
           Members!Finish, Members!GoOn, Members!memberVars
      <4>2. QED
        BY <2>3, <3>1, <4>1
    <3>6. CASE \/ \E p \in People, s \in {"INVITED", "ACTIVE", "REMOVED"} : Members!MemberRead(h, p, s)
               \/ \E i \in Members!Invites : Members!AcceptRead(h, i)
      <4>1. frame'[h].op \in {"member", "accept"} /\ sent' = sent
        BY <3>6, MembersParts DEF Members!MemberRead, Members!AcceptRead, Members!Serve, Members!memberVars
      <4>2. QED
        BY <2>3, <4>1 DEF MembersInviteOps
    <3>7. QED
      BY <1>1, <3>2, <3>3, <3>4, <3>5, <3>6 DEF MembersStepOf
  <2>5. sent' + Cardinality(D) < InviteLimit + Cardinality(Handlers)
    <3>1. sent + Cardinality(C) < InviteLimit + Cardinality(Handlers)
      BY DEF MembersSentInv
    <3>2. Cardinality(C) \in Nat
      BY <1>0
    <3> HIDE DEF C, D
    <3>3. CASE sent' = sent /\ (h \notin D \/ h \in C)
      BY <1>0, <2>2, <3>1, <3>2, <3>3
    <3>4. CASE sent' = sent /\ sent < InviteLimit
      BY <1>0, <2>2, <3>4
    <3>5. CASE sent' = sent + 1 /\ h \in C /\ h \notin D
      BY <1>0, <2>2, <3>1, <3>2, <3>5
    <3>6. QED
      BY <2>4, <3>3, <3>4, <3>5
  <2>6. QED
    BY <2>5 DEF MembersSentInv
<1>2. CASE Members!DayPasses
  <2>1. sent' = 0 /\ MembersInviting' = MembersInviting
    BY <1>2 DEF Members!DayPasses, MembersInviting
  <2>2. QED
    BY <1>0, <2>1 DEF MembersSentInv
<1>3. ASSUME NEW i \in Members!Invites, Members!InviteExpires(i) PROVE MembersSentInv'
  BY <1>3 DEF Members!InviteExpires, MembersSentInv, MembersInviting
<1>4. ASSUME NEW p \in People, Members!CreateUser(p) PROVE MembersSentInv'
  BY <1>4 DEF Members!CreateUser, MembersSentInv, MembersInviting
<1>5. CASE UNCHANGED Members!vars
  BY <1>5 DEF Members!vars, Members!memberVars, MembersSentInv, MembersInviting
<1>6. QED
  BY <1>1, <1>2, <1>3, <1>4, <1>5 DEF Members!Next, MembersStepOf

(* Invitations whose requests overlap exceed the daily limit by less than  *)
(* one for each request, though they are counted four round trips before   *)
(* they are stored (enforceInviteRateLimit).                               *)
THEOREM MembersLimitOvershoot == Members!Spec => []Members!InviteOvershoot
<1>1. Members!Init => Members!TypeOK /\ MembersSentInv
  <2> SUFFICES ASSUME Members!Init PROVE MembersSentInv /\ Members!TypeOK
    OBVIOUS
  <2>1. MembersInviting = {} /\ sent = 0
    BY DEF Members!Init, Members!ServerInit, MembersInviting, Members!Idle, MembersInviteOps
  <2>2. QED
    BY <2>1, HandlersCounted, FS_EmptySet, MemberConstants DEF Members!Init, Members!ServerInit,
       Members!TypeOK, MembersSentInv
<1>2. Members!TypeOK /\ MembersSentInv /\ [Members!Next]_(Members!vars) => Members!TypeOK' /\ MembersSentInv'
  BY MembersTypeStep, MembersSentStep
<1>3. Members!TypeOK /\ MembersSentInv => Members!InviteOvershoot
  <2> SUFFICES ASSUME Members!TypeOK, MembersSentInv PROVE Members!InviteOvershoot
    OBVIOUS
  <2>1. /\ Cardinality(MembersInviting) \in Nat /\ Cardinality(Handlers) \in Nat
        /\ sent \in Nat /\ InviteLimit \in Nat
    BY HandlersCounted, SomeCounted, MembersParts, MemberConstants DEF MembersInviting
  <2>2. QED
    BY <2>1, MembersCount DEF MembersSentInv, Members!InviteOvershoot
<1>4. QED
  BY <1>1, <1>2, <1>3, PTL DEF Members!Spec

\* Open invitations.

MembersStoring(p) == {h \in Handlers : frame[h].op = "insert" /\ frame[h].p = p}
MembersUpserting(p) == {h \in Handlers : frame[h].op = "upsert" /\ frame[h].p = p}

\* Somebody who is invited or a member may get one more invitation from each request past the
\* look-up; somebody who is not gets them from the requests that have written the row already.
\* Requests that use up the earlier invitations have seen a row, which may have been removed since.
MembersOpenCounted(p) ==
  LET within == Cardinality(Members!OpenInvites(p)) + Cardinality(MembersStoring(p))
  IN  /\ member[p] \in {"INVITED", "ACTIVE"} =>
           within + Cardinality(MembersUpserting(p)) <= Cardinality(Handlers) * (1 + removals[p])
      /\ member[p] \notin {"INVITED", "ACTIVE"} => within <= Cardinality(Handlers) * removals[p]
      /\ member[p] = "REMOVED" => removals[p] > 0
      /\ (\E h \in Handlers : Members!At(h, "void") /\ frame[h].p = p) => member[p] # "none"
      /\ p \in linked => member[p] # "none"
MembersOpenInv == \A p \in People : MembersOpenCounted(p)

LEMMA MembersOpenFinite ==
  ASSUME NEW p \in People
  PROVE  IsFiniteSet(Members!OpenInvites(p)) /\ Cardinality(Members!OpenInvites(p)) \in Nat
<1>1. IsFiniteSet({p} \X (1..MaxInvites))
  <2>1. IsFiniteSet(1..MaxInvites)
    BY FS_Interval, MemberConstants
  <2>2. IsFiniteSet({p})
    BY FS_Singleton
  <2>3. QED
    BY <2>1, <2>2, FS_Product
<1>2. Members!OpenInvites(p) \subseteq {p} \X (1..MaxInvites)
  BY DEF Members!OpenInvites, Members!Invites
<1>3. QED
  BY <1>1, <1>2, FS_Subset, FS_CardinalityType

LEMMA MembersOpenShrinks ==
  ASSUME NEW p \in People, Members!OpenInvites(p)' \subseteq Members!OpenInvites(p)
  PROVE  /\ IsFiniteSet(Members!OpenInvites(p)') /\ Cardinality(Members!OpenInvites(p)') \in Nat
         /\ Cardinality(Members!OpenInvites(p)') <= Cardinality(Members!OpenInvites(p))
BY MembersOpenFinite, FS_Subset, FS_CardinalityType

LEMMA MembersOpenNumbers ==
  ASSUME Members!TypeOK, NEW p \in People
  PROVE  /\ Cardinality(Handlers) \in Nat
         /\ Cardinality(MembersStoring(p)) \in Nat /\ Cardinality(MembersUpserting(p)) \in Nat
         /\ Cardinality(MembersStoring(p)) + Cardinality(MembersUpserting(p)) <= Cardinality(Handlers)
         /\ removals[p] \in Nat /\ Cardinality(Handlers) * removals[p] \in Nat
         /\ Cardinality(Handlers) * (1 + removals[p]) = Cardinality(Handlers) * removals[p] + Cardinality(Handlers)
         /\ removals[p] > 0 => Cardinality(Handlers) <= Cardinality(Handlers) * removals[p]
<1>1. /\ Cardinality(Handlers) \in Nat
      /\ Cardinality(MembersStoring(p)) \in Nat /\ Cardinality(MembersUpserting(p)) \in Nat
  BY HandlersCounted, SomeCounted DEF MembersStoring, MembersUpserting
<1>2. MembersStoring(p) \cap MembersUpserting(p) = {} /\ MembersStoring(p) \in SUBSET Handlers /\ MembersUpserting(p) \in SUBSET Handlers
  BY DEF MembersStoring, MembersUpserting
<1>3. removals[p] \in Nat
  BY MembersParts, MemberConstants
<1>4. ASSUME NEW k \in Nat, NEW r \in Nat
      PROVE  k * r \in Nat /\ k * (1 + r) = k * r + k /\ (r > 0 => k <= k * r)
  <2>1. k * r \in Nat /\ k * (1 + r) = k * r + k
    OBVIOUS
  <2>2. ASSUME r > 0 PROVE k <= k * r
    <3>1. r - 1 \in Nat /\ k * (r - 1) \in Nat /\ k * r = k * (r - 1) + k
      BY <2>2
    <3>2. QED
      BY <3>1
  <2>3. QED
    BY <2>1, <2>2
<1>5. QED
  BY <1>1, <1>2, <1>3, <1>4, ApartFit

\* So after a step, too.
LEMMA MembersOpenAlways ==
  ASSUME Members!TypeOK', NEW p \in People
  PROVE  /\ Cardinality(MembersStoring(p)') \in Nat /\ Cardinality(MembersUpserting(p)') \in Nat
         /\ Cardinality(MembersStoring(p)') + Cardinality(MembersUpserting(p)') <= Cardinality(Handlers)
<1>1. /\ MembersStoring(p)' \in SUBSET Handlers /\ MembersUpserting(p)' \in SUBSET Handlers
      /\ MembersStoring(p)' \cap MembersUpserting(p)' = {}
  BY DEF MembersStoring, MembersUpserting
<1>2. QED
  BY <1>1, SomeCounted, ApartFit

\* The row is left alone, and no request comes nearer to a new invitation.
LEMMA MembersOpenQuiet ==
  ASSUME Members!TypeOK, Members!TypeOK', NEW p \in People, MembersOpenCounted(p),
         Members!OpenInvites(p)' \subseteq Members!OpenInvites(p),
         MembersStoring(p)' \subseteq MembersStoring(p), MembersUpserting(p)' \subseteq MembersUpserting(p),
         removals'[p] = removals[p], member'[p] = member[p],
         (\E h \in Handlers : Members!At(h, "void")' /\ frame'[h].p = p) => member[p] # "none",
         p \in linked' => member[p] # "none"
  PROVE  MembersOpenCounted(p)'
<1> DEFINE o == Cardinality(Members!OpenInvites(p))
           s == Cardinality(MembersStoring(p))
           u == Cardinality(MembersUpserting(p))
           k == Cardinality(Handlers)
           r == removals[p]
<1>1. /\ o \in Nat /\ o' \in Nat /\ o' <= o
  BY MembersOpenFinite, MembersOpenShrinks
<1>2. /\ s' <= s /\ u' <= u /\ s \in Nat /\ u \in Nat /\ s' \in Nat /\ u' \in Nat
  BY HandlersFinite, FS_Subset, FS_CardinalityType DEF MembersStoring, MembersUpserting
<1>3. /\ k * r \in Nat /\ k * (1 + r) \in Nat /\ r' = r
  BY MembersOpenNumbers
<1>4. /\ member[p] \in {"INVITED", "ACTIVE"} => o + s + u <= k * (1 + r)
      /\ member[p] \notin {"INVITED", "ACTIVE"} => o + s <= k * r
      /\ member[p] = "REMOVED" => r > 0
  BY DEF MembersOpenCounted
<1>5. /\ o' + s' <= o + s /\ o' + s' + u' <= o + s + u
  <2> HIDE DEF o, s, u
  <2>1. QED
    BY <1>1, <1>2
<1>6. /\ member[p] \in {"INVITED", "ACTIVE"} => o' + s' + u' <= k * (1 + r)
      /\ member[p] \notin {"INVITED", "ACTIVE"} => o' + s' <= k * r
  <2> HIDE DEF o, s, u, k, r
  <2>1. QED
    BY <1>1, <1>2, <1>3, <1>4, <1>5
<1>7. QED
  BY <1>3, <1>4, <1>6 DEF MembersOpenCounted

\* Somebody is removed, or becomes a member or invited again.
LEMMA MembersOpenMoved ==
  ASSUME Members!TypeOK, Members!TypeOK', NEW p \in People, MembersOpenCounted(p),
         Members!OpenInvites(p)' \subseteq Members!OpenInvites(p),
         MembersStoring(p)' \subseteq MembersStoring(p), MembersUpserting(p)' \subseteq MembersUpserting(p),
         \/ member'[p] = "REMOVED" /\ removals'[p] = removals[p] + 1
         \/ member'[p] \in {"INVITED", "ACTIVE"} /\ removals'[p] = removals[p]
  PROVE  MembersOpenCounted(p)'
<1> DEFINE o == Cardinality(Members!OpenInvites(p))
           s == Cardinality(MembersStoring(p))
           u == Cardinality(MembersUpserting(p))
           k == Cardinality(Handlers)
           r == removals[p]
<1>1. /\ o \in Nat /\ o' \in Nat /\ o' <= o
  BY MembersOpenFinite, MembersOpenShrinks
<1>2. /\ s' <= s /\ u' <= u /\ s \in Nat /\ u \in Nat /\ s' \in Nat /\ u' \in Nat
  BY HandlersFinite, FS_Subset, FS_CardinalityType DEF MembersStoring, MembersUpserting
<1>3. /\ k \in Nat /\ u <= k /\ r \in Nat /\ k * r \in Nat /\ k * (1 + r) = k * r + k
  BY <1>2, MembersOpenNumbers
<1>4. o + s <= k * r \/ o + s + u <= k * (1 + r)
  BY DEF MembersOpenCounted
<1>5. /\ o' + s' <= k * r + k
      /\ o' + s' + u' <= k * r + k
  <2> DEFINE n == k * r
  <2>1. n \in Nat /\ (o + s <= n \/ o + s + u <= n + k)
    BY <1>3, <1>4
  <2> HIDE DEF o, s, u, k, r, n
  <2>2. o' + s' <= n + k /\ o' + s' + u' <= n + k
    BY <1>1, <1>2, <1>3, <2>1
  <2>3. QED
    BY <2>2 DEF n
<1>6. CASE member'[p] = "REMOVED" /\ removals'[p] = removals[p] + 1
  <2>1. k * r' = k * r + k /\ r' > 0
    BY <1>3, <1>6
  <2>2. o' + s' <= k * r'
    BY <1>5, <2>1
  <2>3. QED
    BY <1>6, <2>1, <2>2 DEF MembersOpenCounted
<1>7. CASE member'[p] \in {"INVITED", "ACTIVE"} /\ removals'[p] = removals[p]
  <2>1. o' + s' + u' <= k * (1 + r')
    BY <1>3, <1>5, <1>7
  <2>2. QED
    BY <1>7, <2>1 DEF MembersOpenCounted
<1>8. QED
  BY <1>6, <1>7

\* A step of h leaves the requests of everybody but h where they were.
LEMMA MembersOpenRequests ==
  ASSUME Members!TypeOK, NEW h \in Handlers, MembersStepOf(h), NEW p \in People
  PROVE  /\ ~(frame'[h].op = "insert" /\ frame'[h].p = p) => MembersStoring(p)' = MembersStoring(p) \ {h}
         /\ ~(frame'[h].op = "upsert" /\ frame'[h].p = p) => MembersUpserting(p)' = MembersUpserting(p) \ {h}
         /\ ~(frame'[h].op = "void" /\ frame'[h].p = p) =>
              \A g \in Handlers : Members!At(g, "void")' /\ frame'[g].p = p => Members!At(g, "void") /\ frame[g].p = p
BY MembersFrameStep DEF MembersStoring, MembersUpserting, Members!At

LEMMA MembersOpenStepOf ==
  ASSUME Members!TypeOK, Members!TypeOK', NEW h \in Handlers, MembersStepOf(h), NEW p \in People, MembersOpenCounted(p)
  PROVE  MembersOpenCounted(p)'
<1> USE MembersParts
<1>1. /\ (\E g \in Handlers : Members!At(g, "void") /\ frame[g].p = p) => member[p] # "none"
      /\ p \in linked => member[p] # "none"
  BY DEF MembersOpenCounted
<1>2. CASE Members!InviteLookUp(h)
  <2> DEFINE q == frame[h].p
  <2>1. /\ UNCHANGED Members!memberVars /\ Members!OpenInvites(p)' = Members!OpenInvites(p)
    BY <1>2 DEF Members!InviteLookUp, Members!memberVars, Members!OpenInvites
  <2>2. \/ frame'[h] = Members!Idle
        \/ frame'[h] = [op |-> "void", p |-> q] /\ member[q] = "INVITED"
        \/ frame'[h] = [op |-> "upsert", p |-> q] /\ member[q] \notin {"INVITED", "ACTIVE"}
    BY <1>2 DEF Members!InviteLookUp, Members!Finish, Members!GoOn
  <2>3. MembersStoring(p)' = MembersStoring(p) \ {h}
    BY <1>2, <2>2, MembersOpenRequests DEF Members!Idle, MembersStepOf
  <2>4. CASE frame'[h] = Members!Idle
    <3>1. MembersUpserting(p)' = MembersUpserting(p) \ {h} /\ \A g \in Handlers : Members!At(g, "void")' /\ frame'[g].p = p => Members!At(g, "void") /\ frame[g].p = p
      BY <2>4, MembersOpenRequests DEF Members!Idle
    <3>2. QED
      BY <1>1, <2>1, <2>3, <3>1, MembersOpenQuiet DEF Members!memberVars
  <2>5. CASE frame'[h] = [op |-> "void", p |-> q] /\ member[q] = "INVITED"
    <3>1. MembersUpserting(p)' = MembersUpserting(p) \ {h}
      BY <2>5, MembersOpenRequests
    <3>2. (\E g \in Handlers : Members!At(g, "void")' /\ frame'[g].p = p) => member[p] # "none"
      BY <1>1, <2>5, MembersFrameStep DEF Members!At
    <3>3. QED
      BY <1>1, <2>1, <2>3, <3>1, <3>2, MembersOpenQuiet DEF Members!memberVars
  <2>6. CASE frame'[h] = [op |-> "upsert", p |-> q] /\ member[q] \notin {"INVITED", "ACTIVE"}
    <3>1. \A g \in Handlers : Members!At(g, "void")' /\ frame'[g].p = p => Members!At(g, "void") /\ frame[g].p = p
      BY <2>6, MembersOpenRequests
    <3>2. CASE q # p
      <4>1. MembersUpserting(p)' = MembersUpserting(p) \ {h}
        BY <2>6, <3>2, MembersOpenRequests
      <4>2. QED
        BY <1>1, <2>1, <2>3, <3>1, <4>1, MembersOpenQuiet DEF Members!memberVars
    <3>3. CASE q = p
      <4>1. /\ Cardinality(MembersStoring(p)') <= Cardinality(MembersStoring(p))
            /\ Cardinality(MembersStoring(p)) \in Nat /\ Cardinality(MembersStoring(p)') \in Nat
        BY <2>3, HandlersFinite, FS_Subset, FS_CardinalityType DEF MembersStoring
      <4>2. Cardinality(Members!OpenInvites(p)) + Cardinality(MembersStoring(p)) <= Cardinality(Handlers) * removals[p]
        BY <2>6, <3>3 DEF MembersOpenCounted
      <4>3. Cardinality(Members!OpenInvites(p)') + Cardinality(MembersStoring(p)') <= Cardinality(Handlers) * removals'[p]
        BY <2>1, <4>1, <4>2, MembersOpenNumbers, MembersOpenFinite DEF Members!memberVars
      <4>4. member'[p] \notin {"INVITED", "ACTIVE"} /\ (member'[p] = "REMOVED" => removals'[p] > 0)
        BY <2>1, <2>6, <3>3 DEF Members!memberVars, MembersOpenCounted
      <4>5. QED
        BY <1>1, <2>1, <3>1, <4>3, <4>4 DEF MembersOpenCounted, Members!memberVars
    <3>4. QED
      BY <3>2, <3>3
  <2>7. QED
    BY <2>2, <2>4, <2>5, <2>6
<1>3. CASE Members!InviteVoid(h)
  <2> DEFINE q == frame[h].p
  <2>1. frame'[h] = [op |-> "upsert", p |-> q] /\ Members!At(h, "void") /\ q \in People
    BY <1>3, MembersFrameParts DEF Members!InviteVoid, Members!GoOn, Members!At, MembersInviteOps
  <2>2. MembersStoring(p)' = MembersStoring(p) \ {h}
    BY <2>1, MembersOpenRequests
  <2>3. \A g \in Handlers : Members!At(g, "void")' /\ frame'[g].p = p => Members!At(g, "void") /\ frame[g].p = p
    BY <2>1, MembersOpenRequests
  <2>4. UNCHANGED <<users, member, linked, sent, joins, removals>>
    BY <1>3 DEF Members!InviteVoid
  <2>5. CASE q # p
    <3>1. Members!OpenInvites(p)' = Members!OpenInvites(p)
      BY <1>3, <2>5 DEF Members!InviteVoid, Members!OpenInvites
    <3>2. MembersUpserting(p)' = MembersUpserting(p) \ {h}
      BY <2>1, <2>5, MembersOpenRequests
    <3>3. QED
      BY <1>1, <2>2, <2>3, <2>4, <3>1, <3>2, MembersOpenQuiet
  <2>6. CASE q = p
    <3>1. Members!OpenInvites(p)' = {}
      <4>1. \A i \in Members!Invites : i[1] = p => invite'[i] # "open"
        BY <1>3, <2>6 DEF Members!InviteVoid
      <4>2. QED
        BY <4>1 DEF Members!OpenInvites
    <3>2. Cardinality(Members!OpenInvites(p)') = 0
      BY <3>1, FS_EmptySet
    <3>3. /\ Cardinality(MembersStoring(p)') \in Nat /\ Cardinality(MembersUpserting(p)') \in Nat
          /\ Cardinality(MembersStoring(p)') + Cardinality(MembersUpserting(p)') <= Cardinality(Handlers)
      BY MembersOpenAlways
    <3>4. member[p] # "none" /\ (member[p] = "REMOVED" => removals[p] > 0)
      BY <1>1, <2>1, <2>6 DEF MembersOpenCounted
    <3>5. member[p] \in {"INVITED", "ACTIVE", "REMOVED"}
      BY <3>4 DEF MembersMemberStates
    <3>6. /\ Cardinality(Members!OpenInvites(p)') + Cardinality(MembersStoring(p)') + Cardinality(MembersUpserting(p)')
               <= Cardinality(Handlers) * (1 + removals[p])
          /\ member[p] = "REMOVED" =>
               Cardinality(Members!OpenInvites(p)') + Cardinality(MembersStoring(p)') <= Cardinality(Handlers) * removals[p]
      BY <3>2, <3>3, <3>4, MembersOpenNumbers
    <3>7. QED
      BY <2>4, <3>4, <3>5, <3>6 DEF MembersOpenCounted
  <2>7. QED
    BY <2>5, <2>6
<1>4. CASE Members!InviteUpsert(h)
  <2> DEFINE q == frame[h].p
  <2>1. frame'[h] = [op |-> "insert", p |-> q] /\ Members!At(h, "upsert") /\ q \in People
    BY <1>4, MembersFrameParts DEF Members!InviteUpsert, Members!GoOn, Members!At, MembersInviteOps
  <2>2. MembersUpserting(p)' = MembersUpserting(p) \ {h}
    BY <2>1, MembersOpenRequests
  <2>3. \A g \in Handlers : Members!At(g, "void")' /\ frame'[g].p = p => Members!At(g, "void") /\ frame[g].p = p
    BY <2>1, MembersOpenRequests
  <2>4. removals' = removals /\ Members!OpenInvites(p)' = Members!OpenInvites(p)
    BY <1>4 DEF Members!InviteUpsert, Members!OpenInvites
  <2>5. CASE q # p
    <3>1. member'[p] = member[p] /\ (p \in linked' => p \in linked)
      BY <1>4, <2>1, <2>5 DEF Members!InviteUpsert
    <3>2. MembersStoring(p)' = MembersStoring(p) \ {h}
      BY <2>1, <2>5, MembersOpenRequests
    <3>3. QED
      BY <1>1, <2>2, <2>3, <2>4, <3>1, <3>2, MembersOpenQuiet
  <2>6. CASE q = p
    <3>1. member'[p] = "INVITED"
      BY <1>4, <2>1, <2>6 DEF Members!InviteUpsert
    <3>2. /\ Cardinality(MembersStoring(p)') \in Nat /\ Cardinality(MembersUpserting(p)') \in Nat
          /\ Cardinality(MembersStoring(p)') + Cardinality(MembersUpserting(p)') <= Cardinality(Handlers)
      BY MembersOpenAlways
    <3>3. /\ Cardinality(MembersStoring(p)') <= Cardinality(MembersStoring(p)) + 1
          /\ Cardinality(MembersUpserting(p)') = Cardinality(MembersUpserting(p)) - 1
      <4>1. h \in MembersUpserting(p) /\ h \notin MembersUpserting(p)' /\ h \notin MembersStoring(p) /\ MembersStoring(p)' \ {h} = MembersStoring(p) \ {h}
        BY <2>1, <2>2, <2>6, MembersFrameStep DEF MembersUpserting, MembersStoring, Members!At
      <4>2. /\ MembersUpserting(p) \in SUBSET Handlers /\ MembersUpserting(p)' \in SUBSET Handlers
            /\ MembersStoring(p) \in SUBSET Handlers /\ MembersStoring(p)' \in SUBSET Handlers
        BY DEF MembersUpserting, MembersStoring
      <4>3. Cardinality(MembersUpserting(p)') = Cardinality(MembersUpserting(p)) - 1
        BY <2>2, <4>1, <4>2, OneMoves
      <4>4. /\ h \notin MembersStoring(p)' => Cardinality(MembersStoring(p)') <= Cardinality(MembersStoring(p))
            /\ h \in MembersStoring(p)' => Cardinality(MembersStoring(p)') = Cardinality(MembersStoring(p)) + 1
            /\ Cardinality(MembersStoring(p)) \in Nat
        BY <4>1, <4>2, OneMoves, SomeCounted
      <4>5. QED
        BY <3>2, <4>3, <4>4
    <3>4. \/ Cardinality(Members!OpenInvites(p)) + Cardinality(MembersStoring(p)) <= Cardinality(Handlers) * removals[p]
          \/ Cardinality(Members!OpenInvites(p)) + Cardinality(MembersStoring(p)) + Cardinality(MembersUpserting(p))
               <= Cardinality(Handlers) * (1 + removals[p])
      BY DEF MembersOpenCounted
    <3>5. Cardinality(Members!OpenInvites(p)') + Cardinality(MembersStoring(p)') + Cardinality(MembersUpserting(p)')
            <= Cardinality(Handlers) * (1 + removals[p])
      BY <2>4, <3>2, <3>3, <3>4, MembersOpenNumbers, MembersOpenFinite
    <3>6. QED
      BY <2>4, <3>1, <3>5 DEF MembersOpenCounted
  <2>7. QED
    BY <2>5, <2>6
<1>5. CASE Members!InviteInsert(h)
  <2> DEFINE q == frame[h].p
  <2>1. frame'[h] = Members!Idle /\ Members!At(h, "insert") /\ q \in People /\ UNCHANGED <<users, member, linked, joins, removals>>
    BY <1>5, MembersFrameParts DEF Members!InviteInsert, Members!Finish, Members!GoOn, Members!At,
       MembersInviteOps
  <2>2. /\ MembersStoring(p)' = MembersStoring(p) \ {h} /\ MembersUpserting(p)' = MembersUpserting(p) \ {h}
        /\ \A g \in Handlers : Members!At(g, "void")' /\ frame'[g].p = p => Members!At(g, "void") /\ frame[g].p = p
    BY <2>1, MembersOpenRequests DEF Members!Idle
  <2>3. PICK n \in 1..MaxInvites : invite' = [invite EXCEPT ![<<q, n>>] = "open"]
    BY <1>5 DEF Members!InviteInsert
  <2>4. CASE q # p
    <3>1. Members!OpenInvites(p)' \subseteq Members!OpenInvites(p)
      BY <2>3, <2>4 DEF Members!OpenInvites
    <3>2. QED
      BY <1>1, <2>1, <2>2, <3>1, MembersOpenQuiet
  <2>5. CASE q = p
    <3>1. Members!OpenInvites(p)' \subseteq Members!OpenInvites(p) \cup {<<p, n>>}
      BY <2>3, <2>5 DEF Members!OpenInvites
    <3>2. /\ Cardinality(Members!OpenInvites(p)') \in Nat
          /\ Cardinality(Members!OpenInvites(p)') <= Cardinality(Members!OpenInvites(p)) + 1
      <4>0. IsFiniteSet(Members!OpenInvites(p)) /\ Cardinality(Members!OpenInvites(p)) \in Nat
        BY MembersOpenFinite
      <4>1. /\ IsFiniteSet(Members!OpenInvites(p) \cup {<<p, n>>})
            /\ \/ Cardinality(Members!OpenInvites(p) \cup {<<p, n>>}) = Cardinality(Members!OpenInvites(p))
               \/ Cardinality(Members!OpenInvites(p) \cup {<<p, n>>}) = Cardinality(Members!OpenInvites(p)) + 1
        BY <4>0, FS_AddElement
      <4>2. /\ IsFiniteSet(Members!OpenInvites(p)')
            /\ Cardinality(Members!OpenInvites(p)') <= Cardinality(Members!OpenInvites(p) \cup {<<p, n>>})
        BY <3>1, <4>1, FS_Subset
      <4>3. Cardinality(Members!OpenInvites(p)') \in Nat
        BY <4>2, FS_CardinalityType
      <4>4. QED
        BY <4>0, <4>1, <4>2, <4>3
    <3>3. /\ Cardinality(MembersStoring(p)') = Cardinality(MembersStoring(p)) - 1
          /\ Cardinality(MembersUpserting(p)') <= Cardinality(MembersUpserting(p))
      <4>1. /\ h \in MembersStoring(p) /\ h \notin MembersStoring(p)' /\ h \notin MembersUpserting(p)'
            /\ MembersUpserting(p) \in SUBSET Handlers /\ MembersUpserting(p)' \in SUBSET Handlers
            /\ MembersStoring(p) \in SUBSET Handlers /\ MembersStoring(p)' \in SUBSET Handlers
        BY <2>1, <2>2, <2>5 DEF MembersUpserting, MembersStoring, Members!At
      <4>2. QED
        BY <2>2, <4>1, OneMoves
    <3>4. /\ Cardinality(Members!OpenInvites(p)') + Cardinality(MembersStoring(p)')
               <= Cardinality(Members!OpenInvites(p)) + Cardinality(MembersStoring(p))
          /\ Cardinality(Members!OpenInvites(p)') + Cardinality(MembersStoring(p)') + Cardinality(MembersUpserting(p)')
               <= Cardinality(Members!OpenInvites(p)) + Cardinality(MembersStoring(p)) + Cardinality(MembersUpserting(p))
      BY <3>2, <3>3, MembersOpenFinite, MembersOpenNumbers, MembersOpenAlways
    <3>5. QED
      <4>1. /\ member[p] \in {"INVITED", "ACTIVE"} =>
                 Cardinality(Members!OpenInvites(p)) + Cardinality(MembersStoring(p)) + Cardinality(MembersUpserting(p))
                   <= Cardinality(Handlers) * (1 + removals[p])
            /\ member[p] \notin {"INVITED", "ACTIVE"} =>
                 Cardinality(Members!OpenInvites(p)) + Cardinality(MembersStoring(p)) <= Cardinality(Handlers) * removals[p]
            /\ member[p] = "REMOVED" => removals[p] > 0
        BY DEF MembersOpenCounted
      <4>2. /\ member[p] \in {"INVITED", "ACTIVE"} =>
                 Cardinality(Members!OpenInvites(p)') + Cardinality(MembersStoring(p)') + Cardinality(MembersUpserting(p)')
                   <= Cardinality(Handlers) * (1 + removals[p])
            /\ member[p] \notin {"INVITED", "ACTIVE"} =>
                 Cardinality(Members!OpenInvites(p)') + Cardinality(MembersStoring(p)') <= Cardinality(Handlers) * removals[p]
        <5> DEFINE o == Cardinality(Members!OpenInvites(p))
                   s == Cardinality(MembersStoring(p))
                   u == Cardinality(MembersUpserting(p))
                   k == Cardinality(Handlers) * removals[p]
                   l == Cardinality(Handlers) * (1 + removals[p])
        <5>1. /\ o \in Nat /\ s \in Nat /\ u \in Nat /\ o' \in Nat /\ s' \in Nat /\ u' \in Nat
              /\ k \in Nat /\ l \in Nat
          BY <3>2, MembersOpenFinite, MembersOpenNumbers, MembersOpenAlways
        <5>2. /\ o' + s' <= o + s /\ o' + s' + u' <= o + s + u
              /\ member[p] \in {"INVITED", "ACTIVE"} => o + s + u <= l
              /\ member[p] \notin {"INVITED", "ACTIVE"} => o + s <= k
          BY <3>4, <4>1
        <5>3. /\ member[p] \in {"INVITED", "ACTIVE"} => o' + s' + u' <= l
              /\ member[p] \notin {"INVITED", "ACTIVE"} => o' + s' <= k
          <6>1. ASSUME NEW a \in Nat, NEW b \in Nat, NEW c \in Nat, a <= b, b <= c PROVE a <= c
            BY <6>1
          <6>2. /\ o' + s' + u' \in Nat /\ o + s + u \in Nat /\ o' + s' \in Nat /\ o + s \in Nat
            BY <5>1
          <6> HIDE DEF o, s, u, k, l
          <6>3. QED
            BY <5>1, <5>2, <6>1, <6>2
        <5>4. QED
          BY <5>3
      <4>3. QED
        BY <1>1, <2>1, <2>2, <4>1, <4>2 DEF MembersOpenCounted
  <2>6. QED
    BY <2>4, <2>5
<1>6. CASE Members!AcceptWrite(h)
  <2> DEFINE i == frame[h].i
  <2>1. frame'[h] = Members!Idle /\ i \in Members!Invites /\ i[1] \in People /\ removals' = removals
    BY <1>6, MembersFrameParts DEF Members!AcceptWrite, Members!Finish, Members!GoOn
  <2>2. /\ MembersStoring(p)' = MembersStoring(p) \ {h} /\ MembersUpserting(p)' = MembersUpserting(p) \ {h}
        /\ \A g \in Handlers : Members!At(g, "void")' /\ frame'[g].p = p => Members!At(g, "void") /\ frame[g].p = p
    BY <2>1, MembersOpenRequests DEF Members!Idle
  <2>3. Members!OpenInvites(p)' \subseteq Members!OpenInvites(p)
    BY <1>6, <2>1 DEF Members!AcceptWrite, Members!Join, Members!OpenInvites
  <2>4. CASE invite[i] # "used" /\ p = i[1]
    <3>1. member'[p] = "ACTIVE"
      BY <1>6, <2>1, <2>4 DEF Members!AcceptWrite, Members!Join
    <3>2. QED
      BY <2>1, <2>2, <2>3, <3>1, MembersOpenMoved
  <2>5. CASE invite[i] = "used" \/ p # i[1]
    <3>1. member'[p] = member[p] /\ (p \in linked' => p \in linked)
      BY <1>6, <2>1, <2>5 DEF Members!AcceptWrite, Members!Join
    <3>2. QED
      BY <1>1, <2>1, <2>2, <2>3, <3>1, MembersOpenQuiet
  <2>6. QED
    BY <2>4, <2>5
<1>7. CASE Members!MemberWrite(h)
  <2> DEFINE q == frame[h].p
  <2>1. /\ frame'[h] = Members!Idle /\ q \in People /\ frame[h].to \in {"INVITED", "ACTIVE", "REMOVED"}
        /\ invite' = invite /\ linked' = linked
    BY <1>7, MembersFrameParts DEF Members!MemberWrite, Members!Finish, Members!GoOn
  <2>2. /\ MembersStoring(p)' = MembersStoring(p) \ {h} /\ MembersUpserting(p)' = MembersUpserting(p) \ {h}
        /\ \A g \in Handlers : Members!At(g, "void")' /\ frame'[g].p = p => Members!At(g, "void") /\ frame[g].p = p
    BY <2>1, MembersOpenRequests DEF Members!Idle
  <2>3. Members!OpenInvites(p)' = Members!OpenInvites(p)
    BY <2>1 DEF Members!OpenInvites
  <2>4. CASE q = p
    <3>1. /\ member'[p] = frame[h].to
          /\ removals'[p] = IF frame[h].to = "REMOVED" THEN removals[p] + 1 ELSE removals[p]
      BY <1>7, <2>1, <2>4 DEF Members!MemberWrite
    <3>2. QED
      BY <2>1, <2>2, <2>3, <3>1, MembersOpenMoved
  <2>5. CASE q # p
    <3>1. member'[p] = member[p] /\ removals'[p] = removals[p]
      BY <1>7, <2>1, <2>5 DEF Members!MemberWrite
    <3>2. QED
      BY <1>1, <2>1, <2>2, <2>3, <3>1, MembersOpenQuiet
  <2>6. QED
    BY <2>4, <2>5
<1>8. CASE \/ Members!InviteSeats(h) \/ Members!Lost(h)
           \/ \E q \in People :
                \/ Members!InviteCount(h, q)
                \/ \E s \in {"INVITED", "ACTIVE", "REMOVED"} : Members!MemberRead(h, q, s)
           \/ \E i \in Members!Invites : Members!AcceptRead(h, i)
  <2>1. frame'[h].op \in {"idle", "lookup", "seats", "member", "accept"} /\ UNCHANGED Members!memberVars
    <3>1. UNCHANGED Members!memberVars
      BY <1>8, MembersCount DEF Members!InviteSeats, Members!Lost, Members!InviteCount, Members!MemberRead,
         Members!AcceptRead
    <3>0. ASSUME NEW f, Members!GoOn(h, f) PROVE frame'[h] = f
      BY <3>0 DEF Members!GoOn
    <3>2. CASE Members!InviteSeats(h) \/ Members!Lost(h)
      <4>1. Members!GoOn(h, [op |-> "lookup", p |-> frame[h].p]) \/ Members!GoOn(h, Members!Idle)
        BY <3>2, MembersCount DEF Members!InviteSeats, Members!Lost, Members!Drop, Members!Finish
      <4>2. frame'[h] = [op |-> "lookup", p |-> frame[h].p] \/ frame'[h] = Members!Idle
        BY <3>0, <4>1
      <4>3. frame'[h].op = "lookup" \/ frame'[h].op = "idle"
        BY <4>2 DEF Members!Idle
      <4>4. QED
        BY <3>1, <4>3
    <3>3. CASE \E q \in People :
                 \/ Members!InviteCount(h, q)
                 \/ \E s \in {"INVITED", "ACTIVE", "REMOVED"} : Members!MemberRead(h, q, s)
      <4>1. PICK q \in People : \/ Members!InviteCount(h, q)
                                \/ \E s \in {"INVITED", "ACTIVE", "REMOVED"} : Members!MemberRead(h, q, s)
        BY <3>3
      <4>2. \/ frame'[h] = [op |-> "seats", p |-> q]
            \/ \E s \in {"INVITED", "ACTIVE", "REMOVED"} : frame'[h] = [op |-> "member", p |-> q, to |-> s]
        BY <4>1 DEF Members!InviteCount, Members!MemberRead, Members!Serve
      <4>3. frame'[h].op = "seats" \/ frame'[h].op = "member"
        BY <4>2
      <4>4. QED
        BY <3>1, <4>3
    <3>4. CASE \E i \in Members!Invites : Members!AcceptRead(h, i)
      BY <3>1, <3>4 DEF Members!AcceptRead, Members!Serve
    <3>5. QED
      BY <1>8, <3>1, <3>2, <3>3, <3>4
  <2>2. /\ MembersStoring(p)' = MembersStoring(p) \ {h} /\ MembersUpserting(p)' = MembersUpserting(p) \ {h}
        /\ \A g \in Handlers : Members!At(g, "void")' /\ frame'[g].p = p => Members!At(g, "void") /\ frame[g].p = p
    BY <2>1, MembersOpenRequests
  <2>3. Members!OpenInvites(p)' = Members!OpenInvites(p) /\ member' = member /\ removals' = removals /\ linked' = linked
    BY <2>1 DEF Members!memberVars, Members!OpenInvites
  <2>4. QED
    BY <1>1, <2>2, <2>3, MembersOpenQuiet
<1>9. QED
  BY <1>2, <1>3, <1>4, <1>5, <1>6, <1>7, <1>8 DEF MembersStepOf

LEMMA MembersOpenStep == ASSUME Members!TypeOK, Members!TypeOK', MembersOpenInv, [Members!Next]_(Members!vars)
                         PROVE  MembersOpenInv'
<1> USE MembersParts
<1>1. ASSUME NEW h \in Handlers, MembersStepOf(h) PROVE MembersOpenInv'
  BY <1>1, MembersOpenStepOf DEF MembersOpenInv
<1>2. ASSUME frame' = frame, member' = member, linked' = linked, removals' = removals,
             \A p \in People : Members!OpenInvites(p)' \subseteq Members!OpenInvites(p)
      PROVE  MembersOpenInv'
  <2>1. ASSUME NEW p \in People PROVE MembersOpenCounted(p)'
    <3>1. MembersStoring(p)' = MembersStoring(p) /\ MembersUpserting(p)' = MembersUpserting(p) /\ MembersOpenCounted(p)
      BY <1>2 DEF MembersStoring, MembersUpserting, MembersOpenInv
    <3>2. (\E h \in Handlers : Members!At(h, "void")' /\ frame'[h].p = p) => member[p] # "none"
      BY <1>2, <3>1 DEF MembersOpenCounted, Members!At
    <3>3. p \in linked' => member[p] # "none"
      BY <1>2, <3>1 DEF MembersOpenCounted
    <3>4. QED
      BY <1>2, <3>1, <3>2, <3>3, MembersOpenQuiet
  <2>2. QED
    BY <2>1 DEF MembersOpenInv
<1>3. ASSUME NEW i \in Members!Invites, Members!InviteExpires(i) PROVE MembersOpenInv'
  BY <1>2, <1>3 DEF Members!InviteExpires, Members!OpenInvites
<1>4. ASSUME NEW p \in People, Members!CreateUser(p) PROVE MembersOpenInv'
  BY <1>2, <1>4 DEF Members!CreateUser, Members!OpenInvites
<1>5. CASE Members!DayPasses \/ UNCHANGED Members!vars
  BY <1>2, <1>5 DEF Members!DayPasses, Members!vars, Members!memberVars, Members!OpenInvites
<1>6. QED
  BY <1>1, <1>3, <1>4, <1>5 DEF Members!Next, MembersStepOf

(* The open invitations of an address are at most one for each request,    *)
(* for each time its member was removed and before: sending one uses up    *)
(* the earlier ones of somebody who is INVITED, and only those (invite,    *)
(* updateMember).                                                          *)
THEOREM MembersInvitesBounded == Members!Spec => []Members!OpenInvitesBounded
<1>1. Members!Init => Members!TypeOK /\ MembersOpenInv
  <2> SUFFICES ASSUME Members!Init PROVE Members!TypeOK /\ MembersOpenInv
    OBVIOUS
  <2>1. Members!TypeOK
    BY MemberConstants DEF Members!Init, Members!ServerInit, Members!TypeOK
  <2>2. ASSUME NEW p \in People PROVE MembersOpenCounted(p)
    <3>1. /\ Members!OpenInvites(p) = {} /\ MembersStoring(p) = {} /\ MembersUpserting(p) = {}
          /\ \A h \in Handlers : ~Members!At(h, "void")
          /\ member[p] = "none" /\ removals[p] = 0 /\ p \notin linked
      BY DEF Members!Init, Members!ServerInit, Members!OpenInvites, MembersStoring, MembersUpserting,
         Members!At, Members!Idle
    <3>2. Cardinality({}) = 0
      BY FS_EmptySet
    <3>3. Cardinality(Handlers) * 0 = 0
      BY HandlersCounted
    <3>4. QED
      BY <3>1, <3>2, <3>3 DEF MembersOpenCounted
  <2>3. QED
    BY <2>1, <2>2 DEF MembersOpenInv
<1>2. Members!TypeOK /\ MembersOpenInv /\ [Members!Next]_(Members!vars) => Members!TypeOK' /\ MembersOpenInv'
  BY MembersTypeStep, MembersOpenStep
<1>3. Members!TypeOK /\ MembersOpenInv => Members!OpenInvitesBounded
  <2> SUFFICES ASSUME Members!TypeOK, MembersOpenInv, NEW p \in People
               PROVE  Cardinality(Members!OpenInvites(p)) <= Cardinality(Handlers) * (1 + removals[p])
    BY MembersCount DEF Members!OpenInvitesBounded
  <2>1. \/ Cardinality(Members!OpenInvites(p)) + Cardinality(MembersStoring(p)) <= Cardinality(Handlers) * removals[p]
        \/ Cardinality(Members!OpenInvites(p)) + Cardinality(MembersStoring(p)) + Cardinality(MembersUpserting(p))
             <= Cardinality(Handlers) * (1 + removals[p])
    BY DEF MembersOpenInv, MembersOpenCounted
  <2>2. QED
    BY <2>1, MembersOpenNumbers, MembersOpenFinite
<1>4. QED
  BY <1>1, <1>2, <1>3, PTL DEF Members!Spec

-----------------------------------------------------------------------------
(* Sessions.                                                               *)

\* Sets are counted as everywhere.
LEMMA SessionsCount ==
  \A S : Sessions!IsFiniteSet(S) = IsFiniteSet(S) /\ Sessions!Cardinality(S) = Cardinality(S)
BY DEF Sessions!IsFiniteSet, IsFiniteSet, Sessions!Cardinality, Cardinality

SessionsFrames == {Sessions!Idle} \cup [op : {"login", "deactivate", "reactivate"}, p : People]
                                  \cup [op : {"refresh", "logout"}, t : Sessions!Tokens]

\* A step of the request h.
SessionsStepOf(h) ==
  \/ Sessions!LoginWrite(h) \/ Sessions!RefreshWrite(h) \/ Sessions!LogoutWrite(h)
  \/ Sessions!DeactivateWrite(h) \/ Sessions!ReactivateWrite(h) \/ Sessions!Lost(h)
  \/ \E p \in People : Sessions!LoginRead(h, p) \/ Sessions!DeactivateRead(h, p) \/ Sessions!ReactivateRead(h, p)
  \/ \E t \in Sessions!Tokens : Sessions!RefreshRead(h, t) \/ Sessions!LogoutRead(h, t)

\* Types.

LEMMA SessionsFrameParts ==
  ASSUME Sessions!TypeOK, NEW h \in Handlers
  PROVE  /\ frame[h].op \in {"idle", "login", "deactivate", "reactivate", "refresh", "logout"}
         /\ Sessions!At(h, "login") \/ Sessions!At(h, "deactivate") \/ Sessions!At(h, "reactivate") => frame[h].p \in People
         /\ Sessions!At(h, "refresh") \/ Sessions!At(h, "logout") =>
              /\ frame[h].t \in Sessions!Tokens /\ frame[h].t[1] \in People
BY DEF Sessions!TypeOK, Sessions!At, Sessions!Idle, Sessions!Tokens

LEMMA SessionsTypeStep == ASSUME Sessions!TypeOK, [Sessions!Next]_(Sessions!vars) PROVE Sessions!TypeOK'
<1> USE DEF Sessions!TypeOK, Sessions!sessionVars
<1>1. ASSUME NEW h \in Handlers, NEW p \in People,
             Sessions!LoginRead(h, p) \/ Sessions!DeactivateRead(h, p) \/ Sessions!ReactivateRead(h, p)
      PROVE  Sessions!TypeOK'
  BY <1>1 DEF Sessions!LoginRead, Sessions!DeactivateRead, Sessions!ReactivateRead, Sessions!Serve
<1>2. ASSUME NEW h \in Handlers, NEW t \in Sessions!Tokens, Sessions!RefreshRead(h, t) \/ Sessions!LogoutRead(h, t)
      PROVE  Sessions!TypeOK'
  BY <1>2 DEF Sessions!RefreshRead, Sessions!LogoutRead, Sessions!Serve
<1>3. ASSUME NEW h \in Handlers, Sessions!LoginWrite(h) PROVE Sessions!TypeOK'
  <2>1. frame[h].p \in People
    BY <1>3, SessionsFrameParts DEF Sessions!LoginWrite
  <2>2. QED
    BY <1>3, <2>1 DEF Sessions!LoginWrite, Sessions!Issue, Sessions!Finish, Sessions!GoOn, Sessions!Tokens
<1>4. ASSUME NEW h \in Handlers, Sessions!RefreshWrite(h) PROVE Sessions!TypeOK'
  <2>1. frame[h].t \in Sessions!Tokens /\ frame[h].t[1] \in People
    BY <1>4, SessionsFrameParts DEF Sessions!RefreshWrite
  <2>2. token' \in [Sessions!Tokens -> {"unissued", "live", "revoked", "expired"}]
    <3>1. PICK n \in 1..MaxTokens :
            token' = [[token EXCEPT ![frame[h].t] = "revoked"] EXCEPT ![<<frame[h].t[1], n>>] = "live"]
      BY <1>4 DEF Sessions!RefreshWrite, Sessions!Issue
    <3>2. QED
      BY <2>1, <3>1
  <2>late. late' \in [People -> Nat]
    BY <1>4, <2>1 DEF Sessions!RefreshWrite, Sessions!Issue
  <2>3. forks' \in [Sessions!Tokens -> Nat]
    BY <1>4, <2>1 DEF Sessions!RefreshWrite
  <2>4. frame' \in [Handlers -> SessionsFrames]
    BY <1>4 DEF Sessions!RefreshWrite, Sessions!Finish, Sessions!GoOn, SessionsFrames
  <2>5. QED
    BY <1>4, <2>2, <2>late, <2>3, <2>4 DEF Sessions!RefreshWrite, SessionsFrames
<1>5. ASSUME NEW h \in Handlers, Sessions!LogoutWrite(h) \/ Sessions!DeactivateWrite(h) \/ Sessions!ReactivateWrite(h) \/ Sessions!Lost(h)
      PROVE  Sessions!TypeOK'
  BY <1>5, SessionsFrameParts DEF Sessions!LogoutWrite, Sessions!DeactivateWrite, Sessions!ReactivateWrite,
     Sessions!Lost, Sessions!Drop, Sessions!Finish, Sessions!GoOn
<1>6. ASSUME NEW t \in Sessions!Tokens, Sessions!TokenExpires(t) PROVE Sessions!TypeOK'
  BY <1>6 DEF Sessions!TokenExpires
<1>7. ASSUME NEW p \in People, Sessions!CreateUser(p) \/ Sessions!MembershipChanges(p) PROVE Sessions!TypeOK'
  BY <1>7 DEF Sessions!CreateUser, Sessions!MembershipChanges
<1>8. CASE UNCHANGED Sessions!vars
  BY <1>8 DEF Sessions!vars
<1>9. QED
  BY <1>1, <1>2, <1>3, <1>4, <1>5, <1>6, <1>7, <1>8 DEF Sessions!Next

(* The records of the requests, the accounts and the tokens keep their     *)
(* types, for any number of people, tokens and requests.                   *)
THEOREM SessionsTypeCorrect == Sessions!Spec => []Sessions!TypeOK
<1>1. Sessions!Init => Sessions!TypeOK
  BY DEF Sessions!Init, Sessions!ServerInit, Sessions!TypeOK
<1>2. QED
  BY <1>1, SessionsTypeStep, PTL DEF Sessions!Spec

\* Exchanges.

SessionsRefreshing(t) == {h \in Handlers : Sessions!At(h, "refresh") /\ frame[h].t = t}

\* Before the first exchange of a token any request may be on its way with it; after it the
\* token is revoked, and those that are left have found it before.
SessionsForkInv ==
  /\ \A h \in Handlers : Sessions!At(h, "refresh") => token[frame[h].t] # "unissued"
  /\ \A t \in Sessions!Tokens : forks[t] > 0 =>
       /\ token[t] = "revoked"
       /\ forks[t] + Cardinality(SessionsRefreshing(t)) <= Cardinality(Handlers)

LEMMA SessionsOthersKeep ==
  ASSUME Sessions!TypeOK, NEW h \in Handlers, SessionsStepOf(h)
  PROVE  \A g \in Handlers \ {h} : frame'[g] = frame[g]
BY DEF Sessions!TypeOK, SessionsStepOf, Sessions!LoginWrite, Sessions!RefreshWrite, Sessions!LogoutWrite,
   Sessions!DeactivateWrite, Sessions!ReactivateWrite, Sessions!Lost,
   Sessions!LoginRead, Sessions!DeactivateRead, Sessions!ReactivateRead, Sessions!RefreshRead, Sessions!LogoutRead, Sessions!Drop, Sessions!Serve, Sessions!Finish, Sessions!GoOn

\* What a step of h does to the token t.
LEMMA SessionsForkCases ==
  ASSUME Sessions!TypeOK, SessionsForkInv, NEW h \in Handlers, SessionsStepOf(h), NEW t \in Sessions!Tokens
  PROVE  \/ /\ forks'[t] = forks[t] /\ h \notin SessionsRefreshing(t)'
            /\ token'[t] = token[t] \/ token'[t] = "revoked" \/ (token[t] = "unissued" /\ token'[t] = "live")
         \/ forks'[t] = forks[t] /\ token[t] = "live" /\ token' = token
         \/ /\ forks'[t] = forks[t] + 1 /\ h \in SessionsRefreshing(t) /\ h \notin SessionsRefreshing(t)'
            /\ token'[t] = "revoked"
<1>0. /\ token \in [Sessions!Tokens -> {"unissued", "live", "revoked", "expired"}] /\ forks \in [Sessions!Tokens -> Nat]
      /\ frame \in [Handlers -> SessionsFrames]
  BY DEF Sessions!TypeOK, SessionsFrames
<1>a. frame'[h].op # "refresh" => h \notin SessionsRefreshing(t)'
  BY DEF SessionsRefreshing, Sessions!At
<1>b. Sessions!Idle.op = "idle"
  BY DEF Sessions!Idle
<1>1. CASE Sessions!LoginWrite(h)
  <2>1. frame[h].p \in People
    BY <1>1, SessionsFrameParts DEF Sessions!LoginWrite
  <2>2. PICK n \in 1..MaxTokens : /\ token[<<frame[h].p, n>>] = "unissued"
                                  /\ token' = [token EXCEPT ![<<frame[h].p, n>>] = "live"]
    BY <1>1 DEF Sessions!LoginWrite, Sessions!Issue
  <2>3. frame'[h] = Sessions!Idle
    BY <1>0, <1>1 DEF Sessions!LoginWrite, Sessions!Finish, Sessions!GoOn
  <2>4. token'[t] = token[t] \/ (token[t] = "unissued" /\ token'[t] = "live")
    BY <1>0, <2>1, <2>2
  <2>5. QED
    BY <1>1, <1>a, <1>b, <2>3, <2>4 DEF Sessions!LoginWrite
<1>2. CASE Sessions!RefreshWrite(h)
  <2> DEFINE u == frame[h].t
  <2>1. u \in Sessions!Tokens /\ u[1] \in People
    BY <1>2, SessionsFrameParts DEF Sessions!RefreshWrite
  <2>2. token[u] # "unissued"
    BY <1>2 DEF Sessions!RefreshWrite, SessionsForkInv
  <2>3. PICK n \in 1..MaxTokens :
          /\ token[<<u[1], n>>] = "unissued"
          /\ token' = [[token EXCEPT ![u] = "revoked"] EXCEPT ![<<u[1], n>>] = "live"]
    BY <1>2 DEF Sessions!RefreshWrite, Sessions!Issue
  <2>4. frame'[h] = Sessions!Idle
    BY <1>0, <1>2 DEF Sessions!RefreshWrite, Sessions!Finish, Sessions!GoOn
  <2>5. forks' = [forks EXCEPT ![u] = @ + 1]
    BY <1>2 DEF Sessions!RefreshWrite
  <2>6. <<u[1], n>> \in Sessions!Tokens /\ <<u[1], n>> # u
    BY <2>1, <2>2, <2>3 DEF Sessions!Tokens
  <2>7. CASE t = u
    <3>1. token'[t] = "revoked" /\ forks'[t] = forks[t] + 1
      BY <1>0, <2>1, <2>3, <2>5, <2>6, <2>7
    <3>2. h \in SessionsRefreshing(t)
      BY <1>2, <2>7 DEF Sessions!RefreshWrite, SessionsRefreshing
    <3>3. QED
      BY <1>a, <1>b, <2>4, <3>1, <3>2
  <2>8. CASE t # u
    <3>1. token'[t] = token[t] \/ (token[t] = "unissued" /\ token'[t] = "live")
      BY <1>0, <2>1, <2>3, <2>6, <2>8
    <3>2. forks'[t] = forks[t]
      BY <1>0, <2>1, <2>5, <2>8
    <3>3. QED
      BY <1>a, <1>b, <2>4, <3>1, <3>2
  <2>9. QED
    BY <2>7, <2>8
<1>3. CASE \E s \in Sessions!Tokens : Sessions!RefreshRead(h, s)
  <2>1. PICK s \in Sessions!Tokens : Sessions!RefreshRead(h, s)
    BY <1>3
  <2>2. /\ token[s] = "live" /\ token' = token /\ forks' = forks
        /\ frame'[h] = [op |-> "refresh", t |-> s]
    BY <1>0, <2>1 DEF Sessions!RefreshRead, Sessions!Serve, Sessions!sessionVars
  <2>3. CASE t = s
    BY <2>2, <2>3
  <2>4. CASE t # s
    BY <2>2, <2>4 DEF SessionsRefreshing
  <2>5. QED
    BY <2>3, <2>4
<1>4. CASE Sessions!LogoutWrite(h)
  <2>1. frame'[h] = Sessions!Idle /\ forks' = forks /\ frame[h].t \in Sessions!Tokens
    BY <1>0, <1>4, SessionsFrameParts DEF Sessions!LogoutWrite, Sessions!Finish, Sessions!GoOn
  <2>2. token'[t] = token[t] \/ token'[t] = "revoked"
    BY <1>0, <1>4, <2>1 DEF Sessions!LogoutWrite
  <2>3. QED
    BY <1>a, <1>b, <2>1, <2>2
<1>5. CASE Sessions!DeactivateWrite(h) \/ Sessions!ReactivateWrite(h) \/ Sessions!Lost(h)
  <2>1. frame'[h] = Sessions!Idle /\ forks' = forks /\ token' = token
    BY <1>0, <1>5 DEF Sessions!DeactivateWrite, Sessions!ReactivateWrite, Sessions!Lost, Sessions!Drop,
       Sessions!Finish, Sessions!GoOn, Sessions!sessionVars
  <2>2. QED
    BY <1>a, <1>b, <2>1
<1>6. CASE \/ \E p \in People : Sessions!LoginRead(h, p) \/ Sessions!DeactivateRead(h, p) \/ Sessions!ReactivateRead(h, p)
           \/ \E s \in Sessions!Tokens : Sessions!LogoutRead(h, s)
  <2>1. frame'[h].op # "refresh" /\ forks' = forks /\ token' = token
    BY <1>0, <1>6 DEF Sessions!LoginRead, Sessions!DeactivateRead, Sessions!ReactivateRead,
       Sessions!LogoutRead, Sessions!Serve, Sessions!sessionVars
  <2>2. QED
    BY <1>a, <2>1
<1>7. QED
  BY <1>1, <1>2, <1>3, <1>4, <1>5, <1>6 DEF SessionsStepOf

LEMMA SessionsForkStep == ASSUME Sessions!TypeOK, SessionsForkInv, [Sessions!Next]_(Sessions!vars)
                          PROVE  SessionsForkInv'
<1>0. Cardinality(Handlers) \in Nat /\ Cardinality(Handlers) >= 1
  BY HandlersCounted
<1>1. ASSUME NEW h \in Handlers, SessionsStepOf(h) PROVE SessionsForkInv'
  <2>1. ASSUME NEW g \in Handlers, Sessions!At(g, "refresh")' PROVE token'[frame'[g].t] # "unissued"
    <3>1. CASE g # h
      <4>1. frame'[g] = frame[g]
        BY <1>1, <3>1, SessionsOthersKeep
      <4>2. frame[g].t \in Sessions!Tokens /\ token[frame[g].t] # "unissued"
        BY <2>1, <4>1, SessionsFrameParts DEF Sessions!At, SessionsForkInv
      <4>3. QED
        BY <1>1, <4>1, <4>2, SessionsForkCases
    <3>2. CASE g = h
      <4>1. PICK s \in Sessions!Tokens : Sessions!RefreshRead(h, s)
        BY <1>1, <2>1, <3>2 DEF SessionsStepOf, Sessions!LoginWrite, Sessions!RefreshWrite,
           Sessions!LogoutWrite, Sessions!DeactivateWrite, Sessions!ReactivateWrite,
           Sessions!Lost, Sessions!LoginRead, Sessions!DeactivateRead, Sessions!ReactivateRead, Sessions!LogoutRead, Sessions!Drop, Sessions!Serve, Sessions!Finish, Sessions!GoOn, Sessions!Idle, Sessions!At, Sessions!TypeOK
      <4>2. token[s] = "live" /\ token' = token /\ frame'[h].t = s
        BY <4>1 DEF Sessions!RefreshRead, Sessions!Serve, Sessions!sessionVars, Sessions!TypeOK
      <4>3. QED
        BY <3>2, <4>2
    <3>3. QED
      BY <3>1, <3>2
  <2>2. ASSUME NEW t \in Sessions!Tokens, forks'[t] > 0
        PROVE  token'[t] = "revoked" /\ forks'[t] + Cardinality(SessionsRefreshing(t)') <= Cardinality(Handlers)
    <3> DEFINE C == SessionsRefreshing(t)
               D == SessionsRefreshing(t)'
    <3>1. C \in SUBSET Handlers /\ D \in SUBSET Handlers /\ D \ {h} = C \ {h}
      BY <1>1, SessionsOthersKeep DEF SessionsRefreshing, Sessions!At
    <3>2. /\ Cardinality(C) \in Nat /\ Cardinality(D) \in Nat /\ forks[t] \in Nat
          /\ Cardinality(C) <= Cardinality(Handlers)
      BY <3>1, SomeCounted DEF Sessions!TypeOK
    <3>3. /\ h \notin D => Cardinality(D) <= Cardinality(C)
          /\ h \in C /\ h \notin D => Cardinality(D) = Cardinality(C) - 1
      BY <3>1, OneMoves
    <3>4. forks[t] > 0 => token[t] = "revoked" /\ forks[t] + Cardinality(C) <= Cardinality(Handlers)
      BY DEF SessionsForkInv
    <3>5. \/ /\ forks'[t] = forks[t] /\ h \notin D
             /\ token'[t] = token[t] \/ token'[t] = "revoked" \/ (token[t] = "unissued" /\ token'[t] = "live")
          \/ forks'[t] = forks[t] /\ token[t] = "live" /\ token' = token
          \/ /\ forks'[t] = forks[t] + 1 /\ h \in C /\ h \notin D
             /\ token'[t] = "revoked"
      BY <1>1, SessionsForkCases
    <3>6. token'[t] = "revoked" /\ forks'[t] + Cardinality(D) <= Cardinality(Handlers)
      <4> HIDE DEF C, D
      <4>1. CASE /\ forks'[t] = forks[t] /\ h \notin D
                 /\ token'[t] = token[t] \/ token'[t] = "revoked" \/ (token[t] = "unissued" /\ token'[t] = "live")
        BY <1>0, <2>2, <3>2, <3>3, <3>4, <4>1
      <4>2. CASE forks'[t] = forks[t] /\ token[t] = "live" /\ token' = token
        BY <2>2, <3>4, <4>2
      <4>3. CASE /\ forks'[t] = forks[t] + 1 /\ h \in C /\ h \notin D
                 /\ token'[t] = "revoked"
        <5>1. CASE forks[t] = 0
          BY <1>0, <3>2, <3>3, <4>3, <5>1
        <5>2. CASE forks[t] > 0
          BY <1>0, <3>2, <3>3, <3>4, <4>3, <5>2
        <5>3. QED
          BY <3>2, <5>1, <5>2
      <4>4. QED
        BY <3>5, <4>1, <4>2, <4>3
    <3>7. QED
      BY <3>6
  <2>3. QED
    BY <2>1, <2>2 DEF SessionsForkInv
<1>2. ASSUME NEW t \in Sessions!Tokens, Sessions!TokenExpires(t) PROVE SessionsForkInv'
  <2>1. token \in [Sessions!Tokens -> {"unissued", "live", "revoked", "expired"}]
    BY DEF Sessions!TypeOK
  <2>2. \A s \in Sessions!Tokens : SessionsRefreshing(s)' = SessionsRefreshing(s)
    BY <1>2 DEF Sessions!TokenExpires, SessionsRefreshing, Sessions!At
  <2>3. \A s \in Sessions!Tokens : /\ token'[s] = "unissued" => token[s] = "unissued"
                                   /\ token[s] = "revoked" => token'[s] = "revoked"
    BY <1>2, <2>1 DEF Sessions!TokenExpires
  <2>4. \A h \in Handlers : Sessions!At(h, "refresh")' => Sessions!At(h, "refresh") /\ frame'[h].t = frame[h].t /\ frame[h].t \in Sessions!Tokens
    BY <1>2, SessionsFrameParts DEF Sessions!TokenExpires, Sessions!At
  <2>5. forks' = forks
    BY <1>2 DEF Sessions!TokenExpires
  <2>6. QED
    BY <2>2, <2>3, <2>4, <2>5 DEF SessionsForkInv
<1>3. ASSUME NEW p \in People, Sessions!CreateUser(p) \/ Sessions!MembershipChanges(p) PROVE SessionsForkInv'
  BY <1>3 DEF Sessions!CreateUser, Sessions!MembershipChanges, SessionsForkInv, SessionsRefreshing, Sessions!At
<1>4. CASE UNCHANGED Sessions!vars
  BY <1>4 DEF Sessions!vars, Sessions!sessionVars, SessionsForkInv, SessionsRefreshing, Sessions!At
<1>5. QED
  BY <1>1, <1>2, <1>3, <1>4 DEF Sessions!Next, SessionsStepOf

LEMMA SessionsForkAlways == Sessions!Spec => [](Sessions!TypeOK /\ SessionsForkInv)
<1>1. Sessions!Init => Sessions!TypeOK /\ SessionsForkInv
  BY DEF Sessions!Init, Sessions!ServerInit, Sessions!TypeOK, SessionsForkInv, Sessions!At, Sessions!Idle
<1>2. Sessions!TypeOK /\ SessionsForkInv /\ [Sessions!Next]_(Sessions!vars) => Sessions!TypeOK' /\ SessionsForkInv'
  BY SessionsTypeStep, SessionsForkStep
<1>3. QED
  BY <1>1, <1>2, PTL DEF Sessions!Spec

(* However many requests present one refresh token at the same time, at    *)
(* most one successor is issued for each of them: after the first exchange *)
(* the token is revoked, and no request finds it any more (refresh).       *)
THEOREM SessionsForks == Sessions!Spec => []Sessions!ForksBounded
<1>1. Sessions!TypeOK /\ SessionsForkInv => Sessions!ForksBounded
  <2> SUFFICES ASSUME Sessions!TypeOK, SessionsForkInv, NEW t \in Sessions!Tokens
               PROVE  forks[t] <= Cardinality(Handlers)
    BY SessionsCount DEF Sessions!ForksBounded
  <2>1. Cardinality(SessionsRefreshing(t)) \in Nat /\ Cardinality(Handlers) \in Nat /\ forks[t] \in Nat
    BY SomeCounted, HandlersCounted DEF SessionsRefreshing, Sessions!TypeOK
  <2>2. QED
    BY <2>1 DEF SessionsForkInv
<1>2. QED
  BY <1>1, SessionsForkAlways, PTL

(* A token that was exchanged stays revoked, whatever order refreshes and  *)
(* logouts write in (refresh, logout).                                     *)
THEOREM SessionsExchanged == Sessions!Spec => []Sessions!ExchangedAreRevoked
<1>1. SessionsForkInv => Sessions!ExchangedAreRevoked
  BY DEF SessionsForkInv, Sessions!ExchangedAreRevoked
<1>2. QED
  BY <1>1, SessionsForkAlways, PTL

\* Deactivated accounts.

\* Requests that will issue a token to p, their look at the account done.
SessionsPast(p) ==
  {h \in Handlers : \/ Sessions!At(h, "login") /\ frame[h].p = p
                    \/ Sessions!At(h, "refresh") /\ frame[h].t[1] = p}

\* The deactivation takes one request for itself, so fewer than all are past their look then.
SessionsLateInv ==
  \A p \in People :
    /\ account[p] = "active" => late[p] = 0
    /\ account[p] = "none" => late[p] = 0 /\ SessionsPast(p) = {}
    /\ account[p] = "inactive" => late[p] + Cardinality(SessionsPast(p)) < Cardinality(Handlers)

\* What a step of h does to p.
LEMMA SessionsLateCases ==
  ASSUME Sessions!TypeOK, NEW h \in Handlers, SessionsStepOf(h), NEW p \in People
  PROVE  \/ account'[p] = account[p] /\ late'[p] = late[p] /\ h \notin SessionsPast(p)'
         \/ account[p] = "active" /\ account'[p] = "active" /\ late'[p] = late[p]
         \/ /\ account'[p] = account[p] /\ h \in SessionsPast(p) /\ h \notin SessionsPast(p)'
            /\ late'[p] = IF account[p] = "active" THEN late[p] ELSE late[p] + 1
         \/ account'[p] = "inactive" /\ late'[p] = late[p] /\ h \notin SessionsPast(p) /\ h \notin SessionsPast(p)'
         \/ account'[p] = "active" /\ late'[p] = 0
<1>0. /\ account \in [People -> {"none", "active", "inactive"}] /\ late \in [People -> Nat]
      /\ frame \in [Handlers -> SessionsFrames]
  BY DEF Sessions!TypeOK, SessionsFrames
<1>a. frame'[h].op \notin {"login", "refresh"} => h \notin SessionsPast(p)'
  BY DEF SessionsPast, Sessions!At
<1>b. Sessions!Idle.op = "idle"
  BY DEF Sessions!Idle
<1>1. ASSUME NEW q \in People, account' = account, frame'[h] = Sessions!Idle,
             late' = [late EXCEPT ![q] = IF account[q] = "active" THEN @ ELSE @ + 1],
             q = p => h \in SessionsPast(p)
      PROVE  \/ account'[p] = account[p] /\ late'[p] = late[p] /\ h \notin SessionsPast(p)'
             \/ /\ account'[p] = account[p] /\ h \in SessionsPast(p) /\ h \notin SessionsPast(p)'
                /\ late'[p] = IF account[p] = "active" THEN late[p] ELSE late[p] + 1
  <2>1. CASE q = p
    BY <1>0, <1>1, <1>a, <1>b, <2>1
  <2>2. CASE q # p
    BY <1>0, <1>1, <1>a, <1>b, <2>2
  <2>3. QED
    BY <2>1, <2>2
<1>2. CASE Sessions!LoginWrite(h)
  <2>1. frame[h].p \in People
    BY <1>2, SessionsFrameParts DEF Sessions!LoginWrite
  <2>2. /\ account' = account /\ frame'[h] = Sessions!Idle
        /\ late' = [late EXCEPT ![frame[h].p] = IF account[frame[h].p] = "active" THEN @ ELSE @ + 1]
    BY <1>0, <1>2 DEF Sessions!LoginWrite, Sessions!Issue, Sessions!Finish, Sessions!GoOn
  <2>3. frame[h].p = p => h \in SessionsPast(p)
    BY <1>2 DEF Sessions!LoginWrite, SessionsPast
  <2>4. QED
    BY <1>1, <2>1, <2>2, <2>3
<1>3. CASE Sessions!RefreshWrite(h)
  <2>1. frame[h].t[1] \in People
    BY <1>3, SessionsFrameParts DEF Sessions!RefreshWrite
  <2>2. /\ account' = account /\ frame'[h] = Sessions!Idle
        /\ late' = [late EXCEPT ![frame[h].t[1]] = IF account[frame[h].t[1]] = "active" THEN @ ELSE @ + 1]
    BY <1>0, <1>3 DEF Sessions!RefreshWrite, Sessions!Issue, Sessions!Finish, Sessions!GoOn
  <2>3. frame[h].t[1] = p => h \in SessionsPast(p)
    BY <1>3 DEF Sessions!RefreshWrite, SessionsPast
  <2>4. QED
    BY <1>1, <2>1, <2>2, <2>3
<1>4. CASE \E q \in People : Sessions!LoginRead(h, q)
  <2>1. PICK q \in People : Sessions!LoginRead(h, q)
    BY <1>4
  <2>2. /\ account[q] = "active" /\ account' = account /\ late' = late
        /\ frame'[h] = [op |-> "login", p |-> q]
    BY <1>0, <2>1 DEF Sessions!LoginRead, Sessions!Serve, Sessions!sessionVars
  <2>3. q # p => h \notin SessionsPast(p)'
    BY <2>2 DEF SessionsPast, Sessions!At
  <2>4. QED
    BY <2>2, <2>3
<1>5. CASE \E t \in Sessions!Tokens : Sessions!RefreshRead(h, t)
  <2>1. PICK t \in Sessions!Tokens : Sessions!RefreshRead(h, t)
    BY <1>5
  <2>2. /\ account[t[1]] = "active" /\ account' = account /\ late' = late
        /\ frame'[h] = [op |-> "refresh", t |-> t]
    BY <1>0, <2>1 DEF Sessions!RefreshRead, Sessions!Serve, Sessions!sessionVars
  <2>3. t[1] # p => h \notin SessionsPast(p)'
    BY <2>2 DEF SessionsPast, Sessions!At
  <2>4. QED
    BY <2>2, <2>3
<1>6. CASE Sessions!DeactivateWrite(h)
  <2>1. /\ frame'[h] = Sessions!Idle /\ late' = late /\ frame[h].op = "deactivate"
        /\ account' = [account EXCEPT ![frame[h].p] = "inactive"]
    BY <1>0, <1>6 DEF Sessions!DeactivateWrite, Sessions!Finish, Sessions!GoOn, Sessions!At
  <2>2. h \notin SessionsPast(p)
    BY <2>1 DEF SessionsPast, Sessions!At
  <2>3. account'[p] \in {account[p], "inactive"}
    BY <1>0, <2>1
  <2>4. QED
    BY <1>a, <1>b, <2>1, <2>2, <2>3
<1>7. CASE Sessions!ReactivateWrite(h)
  <2>1. /\ frame'[h] = Sessions!Idle
        /\ account' = [account EXCEPT ![frame[h].p] = "active"]
        /\ late' = [late EXCEPT ![frame[h].p] = 0]
    BY <1>0, <1>7 DEF Sessions!ReactivateWrite, Sessions!Finish, Sessions!GoOn
  <2>2. (account'[p] = account[p] /\ late'[p] = late[p]) \/ (account'[p] = "active" /\ late'[p] = 0)
    BY <1>0, <2>1
  <2>3. QED
    BY <1>a, <1>b, <2>1, <2>2
<1>8. CASE Sessions!LogoutWrite(h) \/ Sessions!Lost(h)
  <2>1. frame'[h] = Sessions!Idle /\ account' = account /\ late' = late
    BY <1>0, <1>8 DEF Sessions!LogoutWrite, Sessions!Lost, Sessions!Drop, Sessions!Finish, Sessions!GoOn,
       Sessions!sessionVars
  <2>2. QED
    BY <1>a, <1>b, <2>1
<1>9. CASE \/ \E q \in People : Sessions!DeactivateRead(h, q) \/ Sessions!ReactivateRead(h, q)
           \/ \E t \in Sessions!Tokens : Sessions!LogoutRead(h, t)
  <2>1. frame'[h].op \notin {"login", "refresh"} /\ account' = account /\ late' = late
    BY <1>0, <1>9 DEF Sessions!DeactivateRead, Sessions!ReactivateRead, Sessions!LogoutRead, Sessions!Serve,
       Sessions!sessionVars
  <2>2. QED
    BY <1>a, <2>1
<1>10. QED
  BY <1>2, <1>3, <1>4, <1>5, <1>6, <1>7, <1>8, <1>9 DEF SessionsStepOf

LEMMA SessionsLateStep == ASSUME Sessions!TypeOK, SessionsLateInv, [Sessions!Next]_(Sessions!vars)
                          PROVE  SessionsLateInv'
<1>0. Cardinality(Handlers) \in Nat /\ Cardinality(Handlers) >= 1
  BY HandlersCounted
<1>1. ASSUME NEW h \in Handlers, SessionsStepOf(h) PROVE SessionsLateInv'
  <2> SUFFICES ASSUME NEW p \in People
               PROVE  /\ account'[p] = "active" => late'[p] = 0
                      /\ account'[p] = "none" => late'[p] = 0 /\ SessionsPast(p)' = {}
                      /\ account'[p] = "inactive" => late'[p] + Cardinality(SessionsPast(p)') < Cardinality(Handlers)
    BY DEF SessionsLateInv
  <2> DEFINE C == SessionsPast(p)
             D == SessionsPast(p)'
  <2>1. C \in SUBSET Handlers /\ D \in SUBSET Handlers /\ D \ {h} = C \ {h}
    BY <1>1, SessionsOthersKeep DEF SessionsPast, Sessions!At
  <2>2. /\ Cardinality(C) \in Nat /\ Cardinality(D) \in Nat /\ late[p] \in Nat
        /\ Cardinality(C) <= Cardinality(Handlers)
        /\ account[p] \in {"none", "active", "inactive"}
    BY <2>1, SomeCounted DEF Sessions!TypeOK
  <2>3. /\ h \notin D => Cardinality(D) <= Cardinality(C) /\ D \subseteq C
        /\ h \in C /\ h \notin D => Cardinality(D) = Cardinality(C) - 1
    BY <2>1, OneMoves
  <2>4. h \notin C => Cardinality(C) < Cardinality(Handlers)
    <3>1. CASE h \notin C
      <4>1. C \cup {h} \in SUBSET Handlers /\ (C \cup {h}) \ {h} = C \ {h}
        BY <2>1
      <4>2. Cardinality(C \cup {h}) = Cardinality(C) + 1 /\ Cardinality(C \cup {h}) <= Cardinality(Handlers)
        BY <2>1, <3>1, <4>1, OneMoves, SomeCounted
      <4>3. QED
        BY <1>0, <2>2, <4>2
    <3>2. QED
      BY <3>1
  <2>5. /\ account[p] = "active" => late[p] = 0
        /\ account[p] = "none" => late[p] = 0 /\ C = {}
        /\ account[p] = "inactive" => late[p] + Cardinality(C) < Cardinality(Handlers)
    BY DEF SessionsLateInv
  <2>6. \/ account'[p] = account[p] /\ late'[p] = late[p] /\ h \notin D
        \/ account[p] = "active" /\ account'[p] = "active" /\ late'[p] = late[p]
        \/ /\ account'[p] = account[p] /\ h \in C /\ h \notin D
           /\ late'[p] = IF account[p] = "active" THEN late[p] ELSE late[p] + 1
        \/ account'[p] = "inactive" /\ late'[p] = late[p] /\ h \notin C /\ h \notin D
        \/ account'[p] = "active" /\ late'[p] = 0
    BY <1>1, SessionsLateCases
  <2>7. /\ account'[p] = "active" => late'[p] = 0
        /\ account'[p] = "none" => late'[p] = 0 /\ D = {}
        /\ account'[p] = "inactive" => late'[p] + Cardinality(D) < Cardinality(Handlers)
    <3> HIDE DEF C, D
    <3>1. CASE account'[p] = account[p] /\ late'[p] = late[p] /\ h \notin D
      BY <1>0, <2>2, <2>3, <2>5, <3>1
    <3>2. CASE account[p] = "active" /\ account'[p] = "active" /\ late'[p] = late[p]
      BY <2>5, <3>2
    <3>3. CASE /\ account'[p] = account[p] /\ h \in C /\ h \notin D
               /\ late'[p] = IF account[p] = "active" THEN late[p] ELSE late[p] + 1
      BY <1>0, <2>2, <2>3, <2>5, <3>3
    <3>4. CASE account'[p] = "inactive" /\ late'[p] = late[p] /\ h \notin C /\ h \notin D
      <4>1. late[p] = 0 \/ late[p] + Cardinality(C) < Cardinality(Handlers)
        BY <2>2, <2>5
      <4>2. QED
        BY <1>0, <2>2, <2>3, <2>4, <3>4, <4>1
    <3>5. CASE account'[p] = "active" /\ late'[p] = 0
      BY <3>5
    <3>6. QED
      BY <2>6, <3>1, <3>2, <3>3, <3>4, <3>5
  <2>8. QED
    BY <2>7
<1>2. ASSUME NEW t \in Sessions!Tokens, Sessions!TokenExpires(t) PROVE SessionsLateInv'
  BY <1>2 DEF Sessions!TokenExpires, SessionsLateInv, SessionsPast, Sessions!At
<1>3. ASSUME NEW q \in People, Sessions!CreateUser(q) PROVE SessionsLateInv'
  <2>1. \A p \in People : SessionsPast(p)' = SessionsPast(p)
    BY <1>3 DEF Sessions!CreateUser, SessionsPast, Sessions!At
  <2>2. \A p \in People : account'[p] = account[p] \/ (account[p] = "none" /\ account'[p] = "active")
    BY <1>3 DEF Sessions!CreateUser, Sessions!TypeOK
  <2>3. late' = late
    BY <1>3 DEF Sessions!CreateUser
  <2>4. QED
    BY <2>1, <2>2, <2>3 DEF SessionsLateInv
<1>4. ASSUME NEW q \in People, Sessions!MembershipChanges(q) PROVE SessionsLateInv'
  BY <1>4 DEF Sessions!MembershipChanges, SessionsLateInv, SessionsPast, Sessions!At
<1>5. CASE UNCHANGED Sessions!vars
  BY <1>5 DEF Sessions!vars, Sessions!sessionVars, SessionsLateInv, SessionsPast, Sessions!At
<1>6. QED
  BY <1>1, <1>2, <1>3, <1>4, <1>5 DEF Sessions!Next, SessionsStepOf

(* A deactivated account receives fewer new sessions than there are        *)
(* requests at a time, for good: only those that were past their look at   *)
(* isActive issue one, and none of these can be exchanged (login, refresh, *)
(* deactivate).                                                            *)
THEOREM SessionsLateSessions == Sessions!Spec => []Sessions!LateSessionsBounded
<1>1. Sessions!Init => Sessions!TypeOK /\ SessionsLateInv
  <2> SUFFICES ASSUME Sessions!Init, NEW p \in People
               PROVE  late[p] = 0 /\ SessionsPast(p) = {} /\ account[p] = "none"
    BY DEF Sessions!Init, Sessions!ServerInit, Sessions!TypeOK, SessionsLateInv
  <2>1. QED
    BY DEF Sessions!Init, Sessions!ServerInit, SessionsPast, Sessions!At, Sessions!Idle
<1>2. Sessions!TypeOK /\ SessionsLateInv /\ [Sessions!Next]_(Sessions!vars) => Sessions!TypeOK' /\ SessionsLateInv'
  BY SessionsTypeStep, SessionsLateStep
<1>3. Sessions!TypeOK /\ SessionsLateInv => Sessions!LateSessionsBounded
  <2> SUFFICES ASSUME Sessions!TypeOK, SessionsLateInv, NEW p \in People PROVE late[p] < Cardinality(Handlers)
    BY SessionsCount DEF Sessions!LateSessionsBounded
  <2>1. /\ Cardinality(SessionsPast(p)) \in Nat /\ late[p] \in Nat /\ account[p] \in {"none", "active", "inactive"}
        /\ Cardinality(Handlers) \in Nat /\ Cardinality(Handlers) >= 1
    BY SomeCounted, HandlersCounted DEF SessionsPast, Sessions!TypeOK
  <2>2. QED
    BY <2>1 DEF SessionsLateInv
<1>4. QED
  BY <1>1, <1>2, <1>3, PTL DEF Sessions!Spec

-----------------------------------------------------------------------------
(* Organizations and their settings.                                       *)

OrgsFrames == {Orgs!Idle} \cup [op : {"probe", "create"}, slug : 1..MaxSlugs]
              \cup [op : {"policy"}, list : Lists \cup {Orgs!NoChange}, seen : Lists]

\* A step of the request h.
OrgsStepOf(h) ==
  \/ Orgs!CreateBegin(h) \/ Orgs!Probe(h) \/ Orgs!CreateInsert(h)
  \/ \E list \in Lists \cup {Orgs!NoChange} : Orgs!PolicyRead(h, list)
  \/ Orgs!PolicyWrite(h) \/ Orgs!Lost(h)

\* While no changes of the policy overlap, the one under way has read the list that is stored.
OrgsPolicyInv ==
  ~overlapped =>
    /\ allowlist = asked
    /\ \A g, h \in Orgs!Serving("policy") : g = h
    /\ \A h \in Orgs!Serving("policy") : frame[h].seen = allowlist

\* A creation has found every slug before its candidate taken.
OrgsSlugInv ==
  ~renamed =>
    /\ \A s \in slugs : 1..s \subseteq slugs
    /\ \A h \in Orgs!Serving("probe") \cup Orgs!Serving("create") : 1..(frame[h].slug - 1) \subseteq slugs

\* Types.

LEMMA OrgsFrameParts ==
  ASSUME Orgs!TypeOK, NEW h \in Handlers
  PROVE  /\ Orgs!At(h, "probe") \/ Orgs!At(h, "create") => frame[h].slug \in 1..MaxSlugs
         /\ Orgs!At(h, "policy") => frame[h].list \in Lists \cup {Orgs!NoChange} /\ frame[h].seen \in Lists
BY DEF Orgs!TypeOK, Orgs!At, Orgs!Idle

LEMMA OrgsFrameStep ==
  ASSUME Orgs!TypeOK, NEW h \in Handlers, OrgsStepOf(h)
  PROVE  /\ frame' \in [Handlers -> OrgsFrames]
         /\ \A g \in Handlers \ {h} : frame'[g] = frame[g]
<1>1. ASSUME NEW f \in OrgsFrames, Orgs!GoOn(h, f)
      PROVE  /\ frame' \in [Handlers -> OrgsFrames]
             /\ \A g \in Handlers \ {h} : frame'[g] = frame[g]
  BY <1>1 DEF Orgs!GoOn, Orgs!TypeOK, OrgsFrames
<1>2. /\ Orgs!Idle \in OrgsFrames
      /\ \A s \in 1..MaxSlugs : [op |-> "probe", slug |-> s] \in OrgsFrames /\ [op |-> "create", slug |-> s] \in OrgsFrames
      /\ \A l \in Lists \cup {Orgs!NoChange}, s \in Lists : [op |-> "policy", list |-> l, seen |-> s] \in OrgsFrames
  BY DEF OrgsFrames
<1>3. CASE Orgs!CreateBegin(h)
  <2>1. 1 \in 1..MaxSlugs /\ Orgs!GoOn(h, [op |-> "probe", slug |-> 1])
    BY <1>3, OrgConstants DEF Orgs!CreateBegin, Orgs!Serve, Orgs!GoOn
  <2>2. QED
    BY <1>1, <1>2, <2>1
<1>4. CASE Orgs!Probe(h)
  <2>1. frame[h].slug \in 1..MaxSlugs
    BY <1>4, OrgsFrameParts DEF Orgs!Probe
  <2>2. \/ frame[h].slug < MaxSlugs /\ Orgs!GoOn(h, [op |-> "probe", slug |-> frame[h].slug + 1])
        \/ Orgs!GoOn(h, [op |-> "create", slug |-> frame[h].slug])
    BY <1>4 DEF Orgs!Probe
  <2>3. frame[h].slug < MaxSlugs => frame[h].slug + 1 \in 1..MaxSlugs
    BY <2>1, OrgConstants
  <2>4. QED
    BY <1>1, <1>2, <2>1, <2>2, <2>3
<1>5. ASSUME NEW list \in Lists \cup {Orgs!NoChange}, Orgs!PolicyRead(h, list)
      PROVE  /\ frame' \in [Handlers -> OrgsFrames]
             /\ \A g \in Handlers \ {h} : frame'[g] = frame[g]
  <2>1. allowlist \in Lists
    BY DEF Orgs!TypeOK
  <2>2. Orgs!GoOn(h, [op |-> "policy", list |-> list, seen |-> allowlist])
    BY <1>5 DEF Orgs!PolicyRead, Orgs!Serve, Orgs!GoOn
  <2>3. QED
    BY <1>1, <1>2, <2>1, <2>2
<1>6. CASE Orgs!CreateInsert(h) \/ Orgs!PolicyWrite(h) \/ Orgs!Lost(h)
  BY <1>1, <1>2, <1>6 DEF Orgs!CreateInsert, Orgs!PolicyWrite, Orgs!Lost, Orgs!Drop, Orgs!Finish
<1>7. QED
  BY <1>3, <1>4, <1>5, <1>6 DEF OrgsStepOf

(* The types of organizations and their policies, which every step of a    *)
(* request keeps (orgs.service.ts, settings.service.ts).                   *)
THEOREM OrgsTypeCorrect == Orgs!Spec => []Orgs!TypeOK
<1> DEFINE Rest == /\ slugs \subseteq 1..MaxSlugs /\ renamed \in BOOLEAN
                   /\ policy \in BOOLEAN /\ allowlist \in Lists /\ asked \in Lists /\ overlapped \in BOOLEAN
<1>1. Orgs!Init => Orgs!TypeOK
  <2>1. Orgs!Empty \in Lists
    BY OrgConstants DEF Orgs!Empty
  <2>2. QED
    BY <2>1 DEF Orgs!Init, Orgs!ServerInit, Orgs!TypeOK
<1>2. ASSUME Orgs!TypeOK, [Orgs!Next]_(Orgs!vars) PROVE Orgs!TypeOK'
  <2>1. Rest
    BY <1>2 DEF Orgs!TypeOK
  <2>2. ASSUME NEW h \in Handlers, OrgsStepOf(h) PROVE Orgs!TypeOK'
    <3>1. frame' \in [Handlers -> OrgsFrames]
      BY <1>2, <2>2, OrgsFrameStep
    <3>2. CASE Orgs!CreateBegin(h) \/ Orgs!Probe(h) \/ Orgs!Lost(h)
      BY <2>1, <3>1, <3>2 DEF Orgs!CreateBegin, Orgs!Probe, Orgs!Lost, Orgs!orgVars, Orgs!policyVars,
         Orgs!TypeOK, OrgsFrames
    <3>3. CASE Orgs!CreateInsert(h)
      <4>1. frame[h].slug \in 1..MaxSlugs
        BY <1>2, <3>3, OrgsFrameParts DEF Orgs!CreateInsert
      <4>2. QED
        BY <2>1, <3>1, <3>3, <4>1 DEF Orgs!CreateInsert, Orgs!policyVars, Orgs!TypeOK, OrgsFrames
    <3>4. ASSUME NEW list \in Lists \cup {Orgs!NoChange}, Orgs!PolicyRead(h, list) PROVE Orgs!TypeOK'
      BY <2>1, <3>1, <3>4 DEF Orgs!PolicyRead, Orgs!orgVars, Orgs!TypeOK, OrgsFrames
    <3>5. CASE Orgs!PolicyWrite(h)
      <4>1. frame[h].list \in Lists \cup {Orgs!NoChange} /\ frame[h].seen \in Lists
        BY <1>2, <3>5, OrgsFrameParts DEF Orgs!PolicyWrite
      <4>2. QED
        BY <2>1, <3>1, <3>5, <4>1 DEF Orgs!PolicyWrite, Orgs!orgVars, Orgs!TypeOK, OrgsFrames
    <3>6. QED
      BY <2>2, <3>2, <3>3, <3>4, <3>5 DEF OrgsStepOf
  <2>3. CASE Orgs!Rename
    BY <1>2, <2>3 DEF Orgs!Rename, Orgs!policyVars, Orgs!TypeOK
  <2>4. CASE UNCHANGED Orgs!vars
    BY <1>2, <2>4 DEF Orgs!vars, Orgs!orgVars, Orgs!policyVars, Orgs!TypeOK
  <2>5. QED
    BY <1>2, <2>2, <2>3, <2>4 DEF Orgs!Next, OrgsStepOf
<1>3. QED
  BY <1>1, <1>2, PTL DEF Orgs!Spec

\* The allowlist.

LEMMA OrgsPolicyStep == ASSUME Orgs!TypeOK, OrgsPolicyInv, [Orgs!Next]_(Orgs!vars) PROVE OrgsPolicyInv'
<1> SUFFICES ASSUME ~overlapped'
             PROVE  /\ allowlist' = asked'
                    /\ \A g, h \in Orgs!Serving("policy")' : g = h
                    /\ \A h \in Orgs!Serving("policy")' : frame'[h].seen = allowlist'
  BY DEF OrgsPolicyInv
<1>1. ASSUME ~overlapped
      PROVE  /\ allowlist = asked
             /\ \A g, h \in Orgs!Serving("policy") : g = h
             /\ \A h \in Orgs!Serving("policy") : frame[h].seen = allowlist
  BY <1>1 DEF OrgsPolicyInv
<1>2. ASSUME NEW h \in Handlers, OrgsStepOf(h), UNCHANGED Orgs!policyVars, frame'[h].op # "policy"
      PROVE  OrgsPolicyInv'
  BY <1>1, <1>2, OrgsFrameStep DEF OrgsPolicyInv, Orgs!policyVars, Orgs!Serving, Orgs!At
<1>3. ASSUME NEW h \in Handlers, Orgs!CreateBegin(h) \/ Orgs!Probe(h) \/ Orgs!CreateInsert(h) \/ Orgs!Lost(h)
      PROVE  OrgsPolicyInv'
  <2>1. OrgsStepOf(h) /\ UNCHANGED Orgs!policyVars
    BY <1>3 DEF OrgsStepOf, Orgs!CreateBegin, Orgs!Probe, Orgs!CreateInsert, Orgs!Lost
  <2>2. frame'[h].op # "policy"
    BY <1>3 DEF Orgs!CreateBegin, Orgs!Probe, Orgs!CreateInsert, Orgs!Lost, Orgs!Serve, Orgs!GoOn,
       Orgs!Finish, Orgs!Drop, Orgs!Idle, Orgs!TypeOK
  <2>3. QED
    BY <1>2, <2>1, <2>2
<1>4. ASSUME NEW h \in Handlers, NEW list \in Lists \cup {Orgs!NoChange}, Orgs!PolicyRead(h, list)
      PROVE  OrgsPolicyInv'
  <2>1. OrgsStepOf(h) /\ ~overlapped /\ Orgs!Serving("policy") = {} /\ UNCHANGED <<allowlist, asked>>
    BY <1>4 DEF Orgs!PolicyRead, OrgsStepOf
  <2>2. frame'[h].seen = allowlist
    BY <1>4 DEF Orgs!PolicyRead, Orgs!Serve, Orgs!TypeOK
  <2>3. \A g \in Orgs!Serving("policy")' : g = h
    BY <2>1, OrgsFrameStep DEF Orgs!Serving, Orgs!At
  <2>4. QED
    BY <1>1, <2>1, <2>2, <2>3 DEF OrgsPolicyInv
<1>5. ASSUME NEW h \in Handlers, Orgs!PolicyWrite(h) PROVE OrgsPolicyInv'
  <2>1. OrgsStepOf(h) /\ ~overlapped /\ h \in Orgs!Serving("policy")
    BY <1>5 DEF Orgs!PolicyWrite, OrgsStepOf, Orgs!Serving
  <2>2. frame'[h].op # "policy"
    BY <1>5 DEF Orgs!PolicyWrite, Orgs!Finish, Orgs!GoOn, Orgs!Idle, Orgs!TypeOK
  <2>3. Orgs!Serving("policy")' = {}
    BY <1>1, <2>1, <2>2, OrgsFrameStep DEF Orgs!Serving, Orgs!At
  <2>4. allowlist' = asked'
    BY <1>1, <1>5, <2>1 DEF Orgs!PolicyWrite
  <2>5. QED
    BY <2>3, <2>4 DEF OrgsPolicyInv
<1>6. CASE Orgs!Rename \/ UNCHANGED Orgs!vars
  <2>1. UNCHANGED <<frame, Orgs!policyVars>>
    BY <1>6 DEF Orgs!Rename, Orgs!vars
  <2>2. QED
    BY <2>1 DEF OrgsPolicyInv, Orgs!policyVars, Orgs!Serving, Orgs!At
<1>7. QED
  BY <1>3, <1>4, <1>5, <1>6 DEF Orgs!Next, OrgsPolicyInv

(* The allowlist is the one last asked for, whatever other settings are    *)
(* changed in between, as long as no changes overlap (updatePolicies).     *)
THEOREM OrgsAllowlists == Orgs!Spec => []Orgs!AllowlistAsAsked
<1>1. Orgs!Init => OrgsPolicyInv
  BY DEF Orgs!Init, Orgs!ServerInit, OrgsPolicyInv, Orgs!Serving, Orgs!At, Orgs!Idle
<1>2. OrgsPolicyInv => Orgs!AllowlistAsAsked
  BY DEF OrgsPolicyInv, Orgs!AllowlistAsAsked
<1>3. QED
  BY <1>1, <1>2, OrgsPolicyStep, OrgsTypeCorrect, PTL DEF Orgs!Spec

\* Slugs.

LEMMA OrgsSlugStep == ASSUME Orgs!TypeOK, OrgsSlugInv, [Orgs!Next]_(Orgs!vars) PROVE OrgsSlugInv'
<1> SUFFICES ASSUME ~renamed' PROVE OrgsSlugInv'
  BY DEF OrgsSlugInv
<1>1. ASSUME ~renamed
      PROVE  /\ \A s \in slugs : 1..s \subseteq slugs
             /\ \A h \in Orgs!Serving("probe") \cup Orgs!Serving("create") : 1..(frame[h].slug - 1) \subseteq slugs
  BY <1>1 DEF OrgsSlugInv
<1>2. ASSUME NEW h \in Handlers, OrgsStepOf(h), ~renamed, slugs \subseteq slugs',
             \A s \in slugs' \ slugs : 1..s \subseteq slugs',
             h \in Orgs!Serving("probe")' \cup Orgs!Serving("create")' => 1..(frame'[h].slug - 1) \subseteq slugs'
      PROVE  OrgsSlugInv'
  <2>1. \A s \in slugs' : 1..s \subseteq slugs'
    BY <1>1, <1>2
  <2>2. ASSUME NEW g \in Orgs!Serving("probe")' \cup Orgs!Serving("create")'
        PROVE  1..(frame'[g].slug - 1) \subseteq slugs'
    <3>1. CASE g = h
      BY <1>2, <2>2, <3>1
    <3>2. CASE g # h
      <4>1. frame'[g] = frame[g] /\ g \in Handlers
        BY <1>2, <2>2, <3>2, OrgsFrameStep DEF Orgs!Serving
      <4>2. g \in Orgs!Serving("probe") \cup Orgs!Serving("create")
        BY <2>2, <4>1 DEF Orgs!Serving, Orgs!At
      <4>3. QED
        BY <1>1, <1>2, <4>1, <4>2
    <3>3. QED
      BY <3>1, <3>2
  <2>3. QED
    BY <2>1, <2>2 DEF OrgsSlugInv
<1>3. ASSUME NEW h \in Handlers, Orgs!CreateBegin(h) PROVE OrgsSlugInv'
  <2>1. frame'[h].slug = 1 /\ OrgsStepOf(h) /\ UNCHANGED Orgs!orgVars
    BY <1>3 DEF Orgs!CreateBegin, Orgs!Serve, Orgs!TypeOK, OrgsStepOf
  <2>2. 1..(frame'[h].slug - 1) = {}
    BY <2>1
  <2>3. QED
    BY <1>2, <2>1, <2>2 DEF Orgs!orgVars
<1>4. ASSUME NEW h \in Handlers, Orgs!Probe(h) PROVE OrgsSlugInv'
  <2> DEFINE s == frame[h].slug
  <2>1. OrgsStepOf(h) /\ UNCHANGED Orgs!orgVars /\ h \in Orgs!Serving("probe") /\ s \in 1..MaxSlugs
    BY <1>4, OrgsFrameParts DEF Orgs!Probe, OrgsStepOf, Orgs!Serving
  <2>2. 1..(s - 1) \subseteq slugs
    BY <1>1, <2>1 DEF Orgs!orgVars
  <2>3. CASE s \in slugs
    <3>1. frame'[h].slug = s + 1
      BY <1>4, <2>3 DEF Orgs!Probe, Orgs!GoOn, Orgs!TypeOK
    <3>2. 1..s \subseteq slugs /\ frame'[h].slug - 1 = s
      BY <1>1, <2>1, <2>3, <3>1 DEF Orgs!orgVars
    <3>3. QED
      BY <1>2, <2>1, <3>2 DEF Orgs!orgVars
  <2>4. CASE s \notin slugs
    <3>1. frame'[h].slug = s
      BY <1>4, <2>4 DEF Orgs!Probe, Orgs!GoOn, Orgs!TypeOK
    <3>2. QED
      BY <1>2, <2>1, <2>2, <3>1 DEF Orgs!orgVars
  <2>5. QED
    BY <2>3, <2>4
<1>5. ASSUME NEW h \in Handlers, Orgs!CreateInsert(h) PROVE OrgsSlugInv'
  <2> DEFINE s == frame[h].slug
  <2>1. /\ OrgsStepOf(h) /\ ~renamed /\ h \in Orgs!Serving("create") /\ s \in 1..MaxSlugs
        /\ slugs' = slugs \cup {s}
    BY <1>5, OrgsFrameParts DEF Orgs!CreateInsert, OrgsStepOf, Orgs!Serving
  <2>2. 1..(s - 1) \subseteq slugs
    BY <1>1, <2>1
  <2>3. 1..s \subseteq slugs'
    <3>1. \A i \in 1..s : i \in 1..(s - 1) \/ i = s
      BY <2>1
    <3>2. QED
      BY <2>1, <2>2, <3>1
  <2>4. frame'[h] = Orgs!Idle
    BY <1>5 DEF Orgs!CreateInsert, Orgs!Finish, Orgs!GoOn, Orgs!TypeOK
  <2>5. h \notin Orgs!Serving("probe")' \cup Orgs!Serving("create")'
    BY <2>4 DEF Orgs!Serving, Orgs!At, Orgs!Idle
  <2>6. QED
    BY <1>2, <2>1, <2>3, <2>5
<1>6. ASSUME NEW h \in Handlers, Orgs!PolicyWrite(h) \/ Orgs!Lost(h) \/ \E list \in Lists \cup {Orgs!NoChange} : Orgs!PolicyRead(h, list)
      PROVE  OrgsSlugInv'
  <2>1. OrgsStepOf(h) /\ UNCHANGED Orgs!orgVars
    BY <1>6 DEF Orgs!PolicyWrite, Orgs!Lost, Orgs!PolicyRead, OrgsStepOf
  <2>2. frame'[h].op \notin {"probe", "create"}
    BY <1>6 DEF Orgs!PolicyWrite, Orgs!Lost, Orgs!PolicyRead, Orgs!Drop, Orgs!Serve, Orgs!GoOn, Orgs!Finish,
       Orgs!Idle, Orgs!TypeOK
  <2>3. h \notin Orgs!Serving("probe")' \cup Orgs!Serving("create")'
    BY <2>2 DEF Orgs!Serving, Orgs!At
  <2>4. QED
    BY <1>2, <2>1, <2>3 DEF Orgs!orgVars
<1>7. CASE Orgs!Rename
  BY <1>7 DEF Orgs!Rename
<1>8. CASE UNCHANGED Orgs!vars
  BY <1>8 DEF OrgsSlugInv, Orgs!vars, Orgs!orgVars, Orgs!Serving, Orgs!At
<1>9. QED
  BY <1>3, <1>4, <1>5, <1>6, <1>7, <1>8 DEF Orgs!Next

(* Organizations of one name are numbered without a gap, for any number of *)
(* creations at a time, while none leaves its slug (ensureUniqueSlug).     *)
THEOREM OrgsSlugs == Orgs!Spec => []Orgs!SlugsContiguous
<1>1. Orgs!Init => OrgsSlugInv
  BY DEF Orgs!Init, Orgs!ServerInit, OrgsSlugInv, Orgs!Serving, Orgs!At, Orgs!Idle
<1>2. OrgsSlugInv => Orgs!SlugsContiguous
  BY DEF OrgsSlugInv, Orgs!SlugsContiguous
<1>3. QED
  BY <1>1, <1>2, OrgsSlugStep, OrgsTypeCorrect, PTL DEF Orgs!Spec

-----------------------------------------------------------------------------
(* Bills and subscriptions.                                                *)

BillingFrames ==
  {Billing!Idle} \cup [op : {"first"}, next : {"use", "subscribe"}] \cup [op : {"subscribe"}]
  \cup [op : {"store"}, id : Billing!Remotes] \cup [op : {"apply"}, id : Billing!Remotes, event : Billing!Events]

\* A step of the request h.
BillingStepOf(h) ==
  \/ Billing!InsertRow(h) \/ Billing!Subscribe(h) \/ Billing!Store(h) \/ Billing!Apply(h) \/ Billing!Lost(h)
  \/ \E next \in {"use", "subscribe"} : Billing!FindRow(h, next)
  \/ \E i \in Billing!Remotes, k \in 1..MaxEvents, again \in BOOLEAN : Billing!Deliver(h, i, k, again)

\* A request that has the row to change, or will have.
BillingWorking(h) == frame[h].op \in {"subscribe", "store", "apply"} \/ (Billing!At(h, "first") /\ frame[h].next = "subscribe")

\* Whoever works on the row has one, and the row points to a subscription that was made.
BillingRowInv ==
  /\ \A h \in Handlers :
       /\ frame[h].op \in {"subscribe", "store", "apply"} => subscription # Billing!NoRow
       /\ frame[h].op \in {"store", "apply"} => remote[frame[h].id].last # "none"
  /\ subscription # Billing!NoRow => \A i \in Billing!Remotes : subscription.id = i => remote[i].last # "none"
  /\ \A i \in Billing!Remotes :
       /\ reported[i] = 0 <=> remote[i].last \in {"none", "created"}
       /\ reported[i] = 0 => reports[i] = <<>>

\* No report of i has been answered.
BillingFresh(i) == reported[i] = 0 \/ (reports[i] # <<>> /\ reports[i][1] = "activated")

\* The reports of i to come end with what happened last to it.
BillingEndsRight(i) == reports[i] # <<>> => reports[i][Len(reports[i])] = remote[i].last

\* A new subscription has its reports before it; a report that is applied is about the
\* subscription of the row, and the last one when none is to come.
BillingStands(h) ==
  /\ Billing!At(h, "store") => BillingFresh(frame[h].id)
  /\ Billing!At(h, "apply") =>
       /\ subscription.id = frame[h].id
       /\ reports[frame[h].id] = <<>> => frame[h].event = remote[frame[h].id].last

\* The row that points to i has its plan once the activation, the first report of it, is applied,
\* and its status once the last is.
BillingPlanned(i) ==
  \/ BillingFresh(i) \/ subscription.plan = remote[i].plan
  \/ \E h \in Handlers : Billing!At(h, "apply") /\ frame[h].event = "activated"
BillingTold(i) ==
  reported[i] > 0 /\ reports[i] = <<>> /\ (\A h \in Handlers : ~Billing!At(h, "apply")) =>
    subscription.status = Billing!LocalStatus[remote[i].last]

\* Until requests overlap, one at most works on the row, and all of this holds.
BillingOrderInv ==
  ~disturbed =>
    /\ \A g, h \in Handlers : BillingWorking(g) /\ BillingWorking(h) => g = h
    /\ \A i \in Billing!Remotes : BillingEndsRight(i)
    /\ \A h \in Handlers : BillingStands(h)
    /\ subscription # Billing!NoRow => \A i \in Billing!Remotes : subscription.id = i => BillingPlanned(i) /\ BillingTold(i)

\* Types.

LEMMA BillingOneOut ==
  ASSUME NEW S, NEW s \in Seq(S), NEW k \in 1..Len(s)
  PROVE  Billing!Without(s, k) \in Seq(S)
BY DEF Billing!Without

\* What is left without the first ends as it did.
LEMMA BillingFirstOut ==
  ASSUME NEW S, NEW s \in Seq(S), s # <<>>
  PROVE  /\ Billing!Without(s, 1) = <<>> => Len(s) = 1
         /\ Billing!Without(s, 1) # <<>> => Billing!Without(s, 1)[Len(Billing!Without(s, 1))] = s[Len(s)]
<1>1. Len(s) \in Nat /\ Len(s) # 0
  OBVIOUS
<1> DEFINE n == Len(s)
           t == SubSeq(s, 2, n)
<1>2. SubSeq(s, 1, 0) = <<>>
  OBVIOUS
<1>3. t \in Seq(S) /\ Len(t) = n - 1 /\ \A i \in 1..(n - 1) : t[i] = s[i + 1]
  <2>1. n \in Nat /\ n >= 1 /\ \A i \in 2..n : s[i] \in S
    BY <1>1
  <2> HIDE DEF n
  <2>2. QED
    BY <2>1
<1>4. Billing!Without(s, 1) = t
  <2>1. 1 - 1 = 0 /\ 1 + 1 = 2
    OBVIOUS
  <2> HIDE DEF t
  <2>2. <<>> \o t = t
    BY <1>3
  <2>3. QED
    BY <1>2, <2>1, <2>2 DEF Billing!Without, t
<1> HIDE DEF t
<1>5. Len(t) > 0 => t[Len(t)] = s[Len(s)]
  BY <1>1, <1>3
<1>6. t # <<>> <=> Len(t) > 0
  BY <1>3
<1>7. QED
  BY <1>1, <1>3, <1>4, <1>5, <1>6

LEMMA BillingOneAdded ==
  ASSUME NEW S, NEW s \in Seq(S), NEW e \in S
  PROVE  /\ Append(s, e) \in Seq(S) /\ Append(s, e) # <<>>
         /\ Append(s, e)[Len(Append(s, e))] = e
         /\ Append(s, e)[1] = IF s = <<>> THEN e ELSE s[1]
OBVIOUS

LEMMA BillingFrameParts ==
  ASSUME Billing!TypeOK, NEW h \in Handlers
  PROVE  /\ frame[h].op \in {"idle", "first", "subscribe", "store", "apply"}
         /\ Billing!At(h, "idle") => frame[h] = Billing!Idle
         /\ Billing!At(h, "first") => frame[h].next \in {"use", "subscribe"}
         /\ Billing!At(h, "store") => frame[h].id \in Billing!Remotes
         /\ Billing!At(h, "apply") => frame[h].id \in Billing!Remotes /\ frame[h].event \in Billing!Events
BY DEF Billing!TypeOK, Billing!At, Billing!Idle

LEMMA BillingFrameStep ==
  ASSUME Billing!TypeOK, NEW h \in Handlers, BillingStepOf(h)
  PROVE  /\ frame' \in [Handlers -> BillingFrames]
         /\ \A g \in Handlers \ {h} : frame'[g] = frame[g]
<1>0. frame \in [Handlers -> BillingFrames] /\ Billing!Idle \in BillingFrames
  BY DEF Billing!TypeOK, BillingFrames
<1>1. ASSUME NEW f \in BillingFrames, Billing!GoOn(h, f)
      PROVE  /\ frame' \in [Handlers -> BillingFrames]
             /\ \A g \in Handlers \ {h} : frame'[g] = frame[g]
  BY <1>0, <1>1 DEF Billing!GoOn
<1>2. /\ \A next \in {"use", "subscribe"} : [op |-> "first", next |-> next] \in BillingFrames
      /\ [op |-> "subscribe"] \in BillingFrames
      /\ \A i \in Billing!Remotes : [op |-> "store", id |-> i] \in BillingFrames
      /\ \A i \in Billing!Remotes, e \in Billing!Events : [op |-> "apply", id |-> i, event |-> e] \in BillingFrames
  BY DEF BillingFrames
<1>3. CASE Billing!InsertRow(h)
  BY <1>0, <1>1, <1>2, <1>3 DEF Billing!InsertRow, Billing!Finish
<1>4. CASE Billing!Subscribe(h)
  BY <1>1, <1>2, <1>4 DEF Billing!Subscribe
<1>5. CASE Billing!Store(h) \/ Billing!Apply(h) \/ Billing!Lost(h)
  BY <1>0, <1>1, <1>5 DEF Billing!Store, Billing!Apply, Billing!Lost, Billing!Drop, Billing!Finish
<1>6. ASSUME NEW next \in {"use", "subscribe"}, Billing!FindRow(h, next)
      PROVE  /\ frame' \in [Handlers -> BillingFrames]
             /\ \A g \in Handlers \ {h} : frame'[g] = frame[g]
  <2>1. \E f \in BillingFrames : Billing!GoOn(h, f)
    <3>1. CASE subscription = Billing!NoRow
      BY <1>2, <1>6, <3>1 DEF Billing!FindRow, Billing!Serve, Billing!GoOn
    <3>2. CASE subscription # Billing!NoRow
      BY <1>2, <1>6, <3>2 DEF Billing!FindRow, Billing!Serve, Billing!GoOn
    <3>3. QED
      BY <3>1, <3>2
  <2>2. QED
    BY <1>1, <2>1
<1>7. ASSUME NEW i \in Billing!Remotes, NEW k \in 1..MaxEvents, NEW again \in BOOLEAN, Billing!Deliver(h, i, k, again)
      PROVE  /\ frame' \in [Handlers -> BillingFrames]
             /\ \A g \in Handlers \ {h} : frame'[g] = frame[g]
  <2>1. reports[i][k] \in Billing!Events
    <3>1. reports[i] \in Seq(Billing!Events) /\ k \in DOMAIN reports[i]
      BY <1>7 DEF Billing!Deliver, Billing!TypeOK
    <3>2. QED
      BY <3>1
  <2>2. CASE subscription # Billing!NoRow /\ subscription.id = i
    BY <1>1, <1>2, <1>7, <2>1, <2>2 DEF Billing!Deliver, Billing!Serve, Billing!GoOn
  <2>3. CASE ~(subscription # Billing!NoRow /\ subscription.id = i)
    BY <1>0, <1>7, <2>3 DEF Billing!Deliver
  <2>4. QED
    BY <2>2, <2>3
<1>8. QED
  BY <1>3, <1>4, <1>5, <1>6, <1>7 DEF BillingStepOf

LEMMA BillingTypeStep == ASSUME Billing!TypeOK, BillingRowInv, [Billing!Next]_(Billing!vars)
                         PROVE  Billing!TypeOK'
<1> DEFINE RemoteTypes == [Billing!Remotes -> [plan : Plans, last : Billing!Events \cup {"created", "none"}]]
           Rest == /\ subscription \in Billing!Rows
                   /\ remote \in RemoteTypes
                   /\ reports \in [Billing!Remotes -> Seq(Billing!Events)]
                   /\ reported \in [Billing!Remotes -> 0..MaxEvents]
                   /\ disturbed \in BOOLEAN
<1>0. Rest
  BY DEF Billing!TypeOK
<1>1. ASSUME frame' \in [Handlers -> BillingFrames], Rest' PROVE Billing!TypeOK'
  BY <1>1 DEF Billing!TypeOK, BillingFrames
<1>2. subscription # Billing!NoRow =>
        subscription \in [status : {"TRIAL", "ACTIVE", "PAST_DUE", "CANCELED"}, plan : Plans, id : 0..MaxRemote]
  BY DEF Billing!TypeOK, Billing!Rows
<1>3. 0 \in 0..MaxRemote /\ Billing!Remotes \subseteq 0..MaxRemote /\ \A e \in Billing!Events : Billing!LocalStatus[e] \in {"ACTIVE", "PAST_DUE", "CANCELED"}
  BY BillingConstants DEF Billing!Remotes, Billing!Events, Billing!LocalStatus, Billing!Starter
<1>4. ASSUME NEW h \in Handlers, Billing!InsertRow(h) PROVE Rest'
  <2>1. [status |-> "TRIAL", plan |-> Billing!Starter, id |-> 0] \in Billing!Rows
    BY <1>3, BillingConstants DEF Billing!Rows, Billing!Starter
  <2>2. QED
    BY <1>0, <1>4, <2>1 DEF Billing!InsertRow
<1>5. ASSUME NEW h \in Handlers, Billing!Subscribe(h) PROVE Rest'
  <2>1. PICK i \in Billing!Remotes, plan \in Plans : remote' = [remote EXCEPT ![i] = [plan |-> plan, last |-> "created"]]
    BY <1>5 DEF Billing!Subscribe
  <2>2. remote' \in RemoteTypes
    BY <1>0, <2>1
  <2>3. QED
    BY <1>0, <1>5, <2>2 DEF Billing!Subscribe
<1>6. ASSUME NEW h \in Handlers, Billing!Store(h) PROVE Rest'
  <2>1. frame[h].id \in 0..MaxRemote /\ subscription # Billing!NoRow
    BY <1>3, <1>6, BillingFrameParts DEF Billing!Store, BillingRowInv, Billing!At
  <2>2. subscription' \in Billing!Rows
    BY <1>2, <1>6, <2>1 DEF Billing!Store, Billing!Rows
  <2>3. QED
    BY <1>0, <1>6, <2>2 DEF Billing!Store
<1>7. ASSUME NEW h \in Handlers, Billing!Apply(h) PROVE Rest'
  <2>1. /\ frame[h].id \in 0..MaxRemote /\ frame[h].id \in Billing!Remotes /\ frame[h].event \in Billing!Events /\ subscription # Billing!NoRow
    BY <1>3, <1>7, BillingFrameParts DEF Billing!Apply, BillingRowInv, Billing!At
  <2>2. remote[frame[h].id].plan \in Plans
    BY <1>0, <2>1
  <2>3. Billing!Applied(frame[h].id, frame[h].event) \in Billing!Rows
    BY <1>2, <1>3, <2>1, <2>2 DEF Billing!Applied, Billing!Rows
  <2>4. QED
    BY <1>0, <1>7, <2>3 DEF Billing!Apply
<1>8. ASSUME NEW h \in Handlers, Billing!Lost(h) PROVE Rest'
  BY <1>0, <1>8 DEF Billing!Lost
<1>9. ASSUME NEW h \in Handlers, NEW next \in {"use", "subscribe"}, Billing!FindRow(h, next) PROVE Rest'
  BY <1>0, <1>9 DEF Billing!FindRow
<1>10. ASSUME NEW h \in Handlers, NEW i \in Billing!Remotes, NEW k \in 1..MaxEvents, NEW again \in BOOLEAN,
              Billing!Deliver(h, i, k, again)
       PROVE  Rest'
  <2>1. reports[i] \in Seq(Billing!Events) /\ k \in DOMAIN reports[i]
    BY <1>0, <1>10 DEF Billing!Deliver
  <2>2. Billing!Without(reports[i], k) \in Seq(Billing!Events)
    <3>1. k \in 1..Len(reports[i])
      BY <2>1
    <3>2. QED
      BY <2>1, <3>1, BillingOneOut
  <2>3. reports' \in [Billing!Remotes -> Seq(Billing!Events)]
    BY <1>0, <1>10, <2>2 DEF Billing!Deliver
  <2>4. QED
    BY <1>0, <1>10, <2>3 DEF Billing!Deliver
<1>11. ASSUME NEW i \in Billing!Remotes, NEW e \in Billing!Events, Billing!Happens(i, e)
       PROVE  Rest' /\ frame' = frame
  <2>1. reported[i] + 1 \in 0..MaxEvents
    BY <1>0, <1>11, BillingConstants DEF Billing!Happens, Billing!Starter
  <2>2. Append(reports[i], e) \in Seq(Billing!Events)
    BY <1>0, BillingOneAdded
  <2>3. remote' \in RemoteTypes
    BY <1>0, <1>11 DEF Billing!Happens
  <2>4. reports' \in [Billing!Remotes -> Seq(Billing!Events)] /\ reported' \in [Billing!Remotes -> 0..MaxEvents]
    BY <1>0, <1>11, <2>1, <2>2 DEF Billing!Happens
  <2>5. QED
    BY <1>0, <1>11, <2>3, <2>4 DEF Billing!Happens
<1>12. ASSUME UNCHANGED Billing!vars PROVE Rest' /\ frame' = frame
  BY <1>0, <1>12 DEF Billing!vars, Billing!billingVars
<1>13. frame \in [Handlers -> BillingFrames]
  BY DEF Billing!TypeOK, BillingFrames
<1>14. ASSUME NEW h \in Handlers, BillingStepOf(h) PROVE Rest'
  <2> HIDE DEF Rest
  <2>1. QED
    BY <1>4, <1>5, <1>6, <1>7, <1>8, <1>9, <1>10, <1>14 DEF BillingStepOf
<1>15. QED
  <2> HIDE DEF Rest
  <2>1. QED
    BY <1>1, <1>11, <1>12, <1>13, <1>14, BillingFrameStep DEF Billing!Next, BillingStepOf

LEMMA BillingRowStep == ASSUME Billing!TypeOK, BillingRowInv, [Billing!Next]_(Billing!vars) PROVE BillingRowInv'
<1> DEFINE Frame(f, row, r) == /\ f.op \in {"subscribe", "store", "apply"} => row # Billing!NoRow
                               /\ f.op \in {"store", "apply"} => r[f.id].last # "none"
           Row(row, r) == row # Billing!NoRow => \A i \in Billing!Remotes : row.id = i => r[i].last # "none"
           Count(i) == /\ reported[i] = 0 <=> remote[i].last \in {"none", "created"}
                       /\ reported[i] = 0 => reports[i] = <<>>
<1>0. /\ \A h \in Handlers : Frame(frame[h], subscription, remote)
      /\ Row(subscription, remote)
      /\ \A i \in Billing!Remotes : Count(i)
      /\ remote \in [Billing!Remotes -> [plan : Plans, last : Billing!Events \cup {"created", "none"}]]
      /\ reports \in [Billing!Remotes -> Seq(Billing!Events)] /\ reported \in [Billing!Remotes -> 0..MaxEvents]
      /\ Billing!Idle.op = "idle" /\ \A h \in Handlers : \A f : Billing!GoOn(h, f) => frame'[h] = f
  BY DEF Billing!TypeOK, BillingRowInv, Billing!GoOn, Billing!Idle
<1>1. ASSUME \A h \in Handlers : Frame(frame'[h], subscription', remote'), Row(subscription', remote'),
             \A i \in Billing!Remotes : Count(i)'
      PROVE  BillingRowInv'
  BY <1>1 DEF BillingRowInv
<1>2. ASSUME NEW h \in Handlers, Billing!InsertRow(h) PROVE BillingRowInv'
  <2>1. /\ subscription' # Billing!NoRow /\ UNCHANGED <<remote, reports, reported>>
        /\ \/ subscription' = subscription
           \/ subscription' = [status |-> "TRIAL", plan |-> Billing!Starter, id |-> 0]
        /\ frame'[h].op \in {"idle", "subscribe"}
    BY <1>0, <1>2 DEF Billing!InsertRow, Billing!NoRow, Billing!Finish
  <2>2. \A g \in Handlers \ {h} : frame'[g] = frame[g]
    BY <1>2, BillingFrameStep DEF BillingStepOf
  <2>3. \A g \in Handlers : Frame(frame'[g], subscription', remote')
    BY <1>0, <2>1, <2>2
  <2>4. Row(subscription', remote')
    <3>1. 0 \notin Billing!Remotes /\ [status |-> "TRIAL", plan |-> Billing!Starter, id |-> 0].id = 0
      BY BillingConstants DEF Billing!Remotes, Billing!Starter
    <3>2. CASE subscription' = subscription
      BY <1>0, <2>1, <3>2
    <3>3. CASE subscription' = [status |-> "TRIAL", plan |-> Billing!Starter, id |-> 0]
      BY <3>1, <3>3
    <3>4. QED
      BY <2>1, <3>2, <3>3
  <2>5. QED
    BY <1>0, <1>1, <2>1, <2>3, <2>4
<1>3. ASSUME NEW h \in Handlers, Billing!Subscribe(h) PROVE BillingRowInv'
  <2>1. PICK i \in Billing!Remotes, plan \in Plans :
          /\ remote[i].last = "none" /\ remote' = [remote EXCEPT ![i] = [plan |-> plan, last |-> "created"]]
          /\ Billing!GoOn(h, [op |-> "store", id |-> i])
    BY <1>3 DEF Billing!Subscribe
  <2>2. UNCHANGED <<subscription, reports, reported>> /\ subscription # Billing!NoRow
    BY <1>0, <1>3 DEF Billing!Subscribe, Billing!At
  <2>3. \A g \in Handlers \ {h} : frame'[g] = frame[g]
    BY <1>3, BillingFrameStep DEF BillingStepOf
  <2>4. remote'[i].last = "created" /\ \A j \in Billing!Remotes \ {i} : remote'[j] = remote[j]
    BY <1>0, <2>1
  <2>5. ASSUME NEW g \in Handlers PROVE Frame(frame'[g], subscription', remote')
    <3>1. CASE g = h
      BY <1>0, <2>1, <2>2, <2>4, <3>1
    <3>2. CASE g # h
      <4>1. frame[g].op \in {"store", "apply"} => frame[g].id \in Billing!Remotes
        BY BillingFrameParts DEF Billing!At
      <4>2. QED
        BY <1>0, <2>2, <2>3, <2>4, <3>2, <4>1
    <3>3. QED
      BY <3>1, <3>2
  <2>6. Row(subscription', remote')
    BY <1>0, <2>2, <2>4
  <2>7. \A j \in Billing!Remotes : Count(j)'
    BY <1>0, <2>1, <2>2, <2>4
  <2>8. QED
    BY <1>1, <2>5, <2>6, <2>7
<1>4. ASSUME NEW h \in Handlers, Billing!Store(h) \/ Billing!Apply(h) PROVE BillingRowInv'
  <2>1. /\ UNCHANGED <<remote, reports, reported>> /\ frame'[h] = Billing!Idle /\ frame[h].op \in {"store", "apply"}
    BY <1>0, <1>4 DEF Billing!Store, Billing!Apply, Billing!Finish, Billing!At
  <2>2. subscription # Billing!NoRow /\ subscription' # Billing!NoRow /\ subscription'.id = frame[h].id
    <3>1. subscription \in [status : {"TRIAL", "ACTIVE", "PAST_DUE", "CANCELED"}, plan : Plans, id : 0..MaxRemote]
      BY <1>0, <2>1 DEF Billing!TypeOK, Billing!Rows
    <3>2. subscription'.id = frame[h].id
      BY <1>4, <3>1 DEF Billing!Store, Billing!Apply, Billing!Applied
    <3>3. subscription'.plan = subscription'.plan /\ \E x : subscription' = [status |-> x, plan |-> subscription'.plan, id |-> frame[h].id]
      BY <1>4, <3>1 DEF Billing!Store, Billing!Apply, Billing!Applied
    <3>4. subscription' # Billing!NoRow
      BY <3>3 DEF Billing!NoRow
    <3>5. QED
      BY <1>0, <2>1, <3>2, <3>4
  <2>3. \A g \in Handlers \ {h} : frame'[g] = frame[g]
    BY <1>4, BillingFrameStep DEF BillingStepOf
  <2>4. \A g \in Handlers : Frame(frame'[g], subscription', remote')
    BY <1>0, <2>1, <2>2, <2>3
  <2>5. Row(subscription', remote')
    BY <1>0, <2>1, <2>2
  <2>6. QED
    BY <1>0, <1>1, <2>1, <2>4, <2>5
<1>5. ASSUME NEW h \in Handlers, Billing!Lost(h) \/ \E next \in {"use", "subscribe"} : Billing!FindRow(h, next)
      PROVE  BillingRowInv'
  <2>1. UNCHANGED <<subscription, remote, reports, reported>>
    BY <1>5 DEF Billing!Lost, Billing!FindRow
  <2>2. frame'[h].op \in {"idle", "first"} \/ (frame'[h].op = "subscribe" /\ subscription # Billing!NoRow)
    <3>1. CASE Billing!Lost(h)
      BY <1>0, <3>1 DEF Billing!Lost, Billing!Drop, Billing!Finish
    <3>2. ASSUME NEW next \in {"use", "subscribe"}, Billing!FindRow(h, next)
          PROVE  frame'[h].op = "first" \/ (frame'[h].op = "subscribe" /\ subscription # Billing!NoRow)
      <4>1. frame'[h] = IF subscription = Billing!NoRow THEN [op |-> "first", next |-> next] ELSE [op |-> next]
        BY <1>0, <3>2 DEF Billing!FindRow, Billing!Serve, Billing!GoOn
      <4>2. subscription # Billing!NoRow => next = "subscribe"
        BY <3>2 DEF Billing!FindRow
      <4>3. QED
        BY <4>1, <4>2
    <3>3. QED
      BY <1>5, <3>1, <3>2
  <2>3. \A g \in Handlers \ {h} : frame'[g] = frame[g]
    BY <1>5, BillingFrameStep DEF BillingStepOf
  <2>4. QED
    BY <1>0, <1>1, <2>1, <2>2, <2>3
<1>6. ASSUME NEW h \in Handlers, NEW i \in Billing!Remotes, NEW k \in 1..MaxEvents, NEW again \in BOOLEAN,
             Billing!Deliver(h, i, k, again)
      PROVE  BillingRowInv'
  <2>1. UNCHANGED <<subscription, remote, reported>>
    BY <1>6 DEF Billing!Deliver
  <2>2. \/ frame'[h] = frame[h]
        \/ frame'[h].op = "apply" /\ frame'[h].id = i /\ subscription # Billing!NoRow /\ subscription.id = i
    <3>1. CASE subscription # Billing!NoRow /\ subscription.id = i
      <4>1. frame'[h] = [op |-> "apply", id |-> i, event |-> reports[i][k]]
        BY <1>0, <1>6, <3>1 DEF Billing!Deliver, Billing!Serve, Billing!GoOn
      <4>2. QED
        BY <3>1, <4>1
    <3>2. CASE ~(subscription # Billing!NoRow /\ subscription.id = i)
      BY <1>6, <3>2 DEF Billing!Deliver
    <3>3. QED
      BY <3>1, <3>2
  <2>3. \A g \in Handlers \ {h} : frame'[g] = frame[g]
    <3>1. BillingStepOf(h)
      BY <1>6 DEF BillingStepOf
    <3>2. QED
      BY <3>1, BillingFrameStep
  <2>4. \A g \in Handlers : Frame(frame'[g], subscription', remote')
    <3>1. remote[i].last # "none" \/ subscription = Billing!NoRow \/ subscription.id # i
      BY <1>0
    <3>2. Frame(frame'[h], subscription', remote')
      BY <1>0, <2>1, <2>2, <3>1
    <3>3. \A g \in Handlers \ {h} : Frame(frame'[g], subscription', remote')
      BY <1>0, <2>1, <2>3
    <3> HIDE DEF Frame
    <3>4. QED
      BY <3>2, <3>3
  <2>5. reports[i] # <<>> /\ \A j \in Billing!Remotes \ {i} : reports'[j] = reports[j]
    BY <1>0, <1>6 DEF Billing!Deliver
  <2>6. \A j \in Billing!Remotes : Count(j)'
    BY <1>0, <2>1, <2>5
  <2>7. QED
    BY <1>0, <1>1, <2>1, <2>4, <2>6
<1>7. ASSUME NEW i \in Billing!Remotes, NEW e \in Billing!Events, Billing!Happens(i, e) PROVE BillingRowInv'
  <2>1. /\ remote[i].last # "none" /\ UNCHANGED <<frame, subscription>>
        /\ remote'[i].last = e /\ reported'[i] = reported[i] + 1
        /\ \A j \in Billing!Remotes \ {i} : remote'[j] = remote[j] /\ reported'[j] = reported[j] /\ reports'[j] = reports[j]
    BY <1>0, <1>7 DEF Billing!Happens
  <2>2. e \notin {"none", "created"}
    BY DEF Billing!Events, Billing!LocalStatus
  <2>3. \A j \in Billing!Remotes : remote[j].last # "none" => remote'[j].last # "none"
    BY <2>1, <2>2
  <2>4. \A h \in Handlers : frame[h].op \in {"store", "apply"} => frame[h].id \in Billing!Remotes
    BY BillingFrameParts DEF Billing!At
  <2>5. \A h \in Handlers : Frame(frame'[h], subscription', remote')
    BY <1>0, <2>1, <2>3, <2>4
  <2>6. reported[i] \in Nat
    BY <1>0
  <2>7. \A j \in Billing!Remotes : Count(j)'
    BY <1>0, <2>1, <2>2, <2>6
  <2>8. Row(subscription', remote')
    BY <1>0, <2>1, <2>3
  <2>9. QED
    BY <1>1, <2>5, <2>7, <2>8
<1>8. CASE UNCHANGED Billing!vars
  BY <1>8 DEF Billing!vars, Billing!billingVars, BillingRowInv
<1>9. QED
  BY <1>2, <1>3, <1>4, <1>5, <1>6, <1>7, <1>8 DEF Billing!Next

LEMMA BillingTypeStart == ASSUME Billing!Init PROVE Billing!TypeOK /\ BillingRowInv
<1>1. /\ frame = [h \in Handlers |-> Billing!Idle] /\ subscription = Billing!NoRow /\ disturbed = FALSE
      /\ remote = [i \in Billing!Remotes |-> [plan |-> Billing!Starter, last |-> "none"]]
      /\ reports = [i \in Billing!Remotes |-> <<>>] /\ reported = [i \in Billing!Remotes |-> 0]
  BY DEF Billing!Init, Billing!ServerInit
<1>2. 0 \in 0..MaxEvents /\ <<>> \in Seq(Billing!Events) /\ Billing!Idle.op = "idle"
  BY BillingConstants DEF Billing!Idle, Billing!Starter
<1>3. Billing!TypeOK
  BY <1>1, <1>2, BillingConstants DEF Billing!TypeOK, Billing!Rows, Billing!Starter
<1>4. BillingRowInv
  BY <1>1, <1>2 DEF BillingRowInv
<1>5. QED
  BY <1>3, <1>4

(* The types of what an organization pays for: the row points to a         *)
(* subscription the provider has, and has the status of an event           *)
(* (billing.service.ts).                                                   *)
THEOREM BillingTypeCorrect == Billing!Spec => []Billing!TypeOK
BY BillingTypeStart, BillingTypeStep, BillingRowStep, PTL DEF Billing!Spec

\* Reports in their order.

LEMMA BillingOrderStep == ASSUME Billing!TypeOK, BillingRowInv, BillingRowInv', BillingOrderInv, [Billing!Next]_(Billing!vars)
                          PROVE  BillingOrderInv'
<1> DEFINE One == \A g, h \in Handlers : BillingWorking(g) /\ BillingWorking(h) => g = h
<1>0. /\ remote \in [Billing!Remotes -> [plan : Plans, last : Billing!Events \cup {"created", "none"}]]
      /\ reports \in [Billing!Remotes -> Seq(Billing!Events)] /\ reported \in [Billing!Remotes -> 0..MaxEvents]
      /\ Billing!Idle.op = "idle" /\ \A h \in Handlers : \A f : Billing!GoOn(h, f) => frame'[h] = f
  BY DEF Billing!TypeOK, Billing!GoOn, Billing!Idle
<1>1. ASSUME ~disturbed
      PROVE  /\ One /\ \A i \in Billing!Remotes : BillingEndsRight(i)
             /\ \A h \in Handlers : BillingStands(h)
             /\ subscription # Billing!NoRow => \A i \in Billing!Remotes : subscription.id = i => BillingPlanned(i) /\ BillingTold(i)
  BY <1>1 DEF BillingOrderInv
<1>2. ASSUME ~disturbed' =>
               /\ One' /\ \A i \in Billing!Remotes : BillingEndsRight(i)'
               /\ \A h \in Handlers : BillingStands(h)'
               /\ subscription' # Billing!NoRow => \A i \in Billing!Remotes : subscription'.id = i => BillingPlanned(i)' /\ BillingTold(i)'
      PROVE  BillingOrderInv'
  BY <1>2 DEF BillingOrderInv
\* Requests other than h stay where they are.
<1>3. ASSUME NEW h \in Handlers, BillingStepOf(h)
      PROVE  /\ \A g \in Handlers \ {h} : /\ frame'[g] = frame[g] /\ (BillingWorking(g)' <=> BillingWorking(g))
                                         /\ \A op : Billing!At(g, op)' <=> Billing!At(g, op)
             /\ One /\ (BillingWorking(h)' => BillingWorking(h) \/ \A g \in Handlers : ~BillingWorking(g)) => One'
  <2>1. \A g \in Handlers \ {h} : frame'[g] = frame[g]
    BY <1>3, BillingFrameStep
  <2>2. \A g \in Handlers \ {h} : (BillingWorking(g)' <=> BillingWorking(g)) /\ \A op : Billing!At(g, op)' <=> Billing!At(g, op)
    BY <2>1 DEF BillingWorking, Billing!At
  <2>3. QED
    BY <2>1, <2>2
<1>4. \A g \in Handlers : frame[g].op \in {"subscribe", "store", "apply"} => BillingWorking(g)
  BY DEF BillingWorking
<1>5. ASSUME NEW h \in Handlers, Billing!InsertRow(h) PROVE BillingOrderInv'
  <2>1. SUFFICES ASSUME ~disturbed'
                 PROVE  One' /\ (\A i \in Billing!Remotes : BillingEndsRight(i)') /\ (\A g \in Handlers : BillingStands(g)')
          /\ (subscription' # Billing!NoRow => \A i \in Billing!Remotes : subscription'.id = i => BillingPlanned(i)' /\ BillingTold(i)')
    BY <1>2
  <2>2. /\ Billing!At(h, "first") /\ UNCHANGED <<remote, reports, reported, disturbed>> /\ ~disturbed
        /\ frame'[h].op \in {"idle", "subscribe"}
        /\ BillingWorking(h)' => BillingWorking(h)
    <3>1. Billing!At(h, "first") /\ UNCHANGED <<remote, reports, reported, disturbed>>
      BY <1>5 DEF Billing!InsertRow
    <3>2. frame'[h] = Billing!Idle \/ (frame'[h] = [op |-> "subscribe"] /\ frame[h].next # "use")
      BY <1>0, <1>5 DEF Billing!InsertRow, Billing!Finish
    <3>3. frame[h].next \in {"use", "subscribe"}
      BY <3>1, BillingFrameParts
    <3>4. BillingWorking(h)' => BillingWorking(h)
      BY <1>0, <3>1, <3>2, <3>3 DEF BillingWorking, Billing!At
    <3>5. QED
      BY <1>0, <2>1, <3>1, <3>2, <3>4
  <2>3. \A g \in Handlers : (Billing!At(g, "store")' <=> Billing!At(g, "store")) /\ (Billing!At(g, "apply")' <=> Billing!At(g, "apply"))
    BY <1>3, <1>5, <2>2 DEF Billing!At, BillingStepOf
  <2>4. One'
    BY <1>1, <1>3, <1>5, <2>2 DEF BillingStepOf
  <2>5. \A i \in Billing!Remotes : BillingEndsRight(i)'
    BY <1>1, <2>2 DEF BillingEndsRight
  <2>6. CASE subscription = Billing!NoRow
    <3>1. \A g \in Handlers : ~Billing!At(g, "store") /\ ~Billing!At(g, "apply")
      BY <2>6 DEF BillingRowInv, Billing!At
    <3>2. \A g \in Handlers : BillingStands(g)'
      BY <2>3, <3>1 DEF BillingStands
    <3>3. subscription' = [status |-> "TRIAL", plan |-> Billing!Starter, id |-> 0]
      BY <1>5, <2>6 DEF Billing!InsertRow
    <3>4. subscription'.id \notin Billing!Remotes
      BY <3>3, BillingConstants DEF Billing!Remotes, Billing!Starter
    <3>5. QED
      BY <2>4, <2>5, <3>2, <3>4
  <2>7. CASE subscription # Billing!NoRow
    <3>1. subscription' = subscription
      BY <1>5, <2>7 DEF Billing!InsertRow
    <3>2. \A g \in Handlers : BillingStands(g)'
      BY <1>1, <1>3, <1>5, <2>2, <2>3, <3>1 DEF BillingStands, BillingFresh, BillingStepOf, Billing!At
    <3>3. \A i \in Billing!Remotes : subscription.id = i => BillingPlanned(i)' /\ BillingTold(i)'
      BY <1>1, <1>3, <1>5, <2>2, <2>3, <2>7, <3>1 DEF BillingPlanned, BillingTold, BillingFresh,
         BillingStepOf, Billing!At
    <3>4. QED
      BY <2>4, <2>5, <3>1, <3>2, <3>3
  <2>8. QED
    BY <2>6, <2>7
<1>6. ASSUME NEW h \in Handlers, Billing!Subscribe(h) PROVE BillingOrderInv'
  <2>1. SUFFICES ASSUME ~disturbed'
                 PROVE  One' /\ (\A i \in Billing!Remotes : BillingEndsRight(i)') /\ (\A g \in Handlers : BillingStands(g)')
          /\ (subscription' # Billing!NoRow => \A i \in Billing!Remotes : subscription'.id = i => BillingPlanned(i)' /\ BillingTold(i)')
    BY <1>2
  <2>2. PICK i \in Billing!Remotes, plan \in Plans :
          /\ remote[i].last = "none" /\ remote' = [remote EXCEPT ![i] = [plan |-> plan, last |-> "created"]]
          /\ Billing!GoOn(h, [op |-> "store", id |-> i])
    BY <1>6 DEF Billing!Subscribe
  <2>3. /\ Billing!At(h, "subscribe") /\ UNCHANGED <<subscription, reports, reported, disturbed>> /\ ~disturbed
        /\ frame'[h] = [op |-> "store", id |-> i]
    BY <1>0, <1>6, <2>1, <2>2 DEF Billing!Subscribe
  <2>4. \A g \in Handlers \ {h} : ~BillingWorking(g) /\ ~Billing!At(g, "store")' /\ ~Billing!At(g, "apply")' /\ ~Billing!At(g, "apply")
    <3>1. \A g \in Handlers \ {h} : ~BillingWorking(g)
      BY <1>1, <1>4, <2>3 DEF Billing!At
    <3>2. QED
      BY <1>3, <1>4, <1>6, <3>1 DEF BillingStepOf, Billing!At
  <2>5. ~Billing!At(h, "apply") /\ ~Billing!At(h, "apply")'
    BY <2>3 DEF Billing!At
  <2>6. One'
    BY <1>1, <1>3, <1>4, <1>6, <2>3 DEF BillingStepOf, Billing!At
  <2>7. reported[i] = 0 /\ reports[i] = <<>> /\ \A j \in Billing!Remotes \ {i} : remote'[j] = remote[j]
    BY <1>0, <2>2 DEF BillingRowInv
  <2>8. \A j \in Billing!Remotes : BillingEndsRight(j)'
    BY <1>1, <2>3, <2>7 DEF BillingEndsRight
  <2>9. \A g \in Handlers : BillingStands(g)'
    <3>1. BillingStands(h)'
      BY <2>3, <2>7 DEF BillingStands, Billing!At, BillingFresh
    <3>2. \A g \in Handlers \ {h} : BillingStands(g)'
      BY <2>4 DEF BillingStands
    <3>3. QED
      BY <3>1, <3>2
  <2>10. ASSUME subscription # Billing!NoRow, NEW j \in Billing!Remotes, subscription.id = j
         PROVE  BillingPlanned(j)' /\ BillingTold(j)'
    <3>1. j # i
      BY <2>2, <2>10 DEF BillingRowInv
    <3>2. BillingPlanned(j) /\ BillingTold(j) /\ remote'[j] = remote[j]
      BY <1>1, <2>3, <2>7, <2>10, <3>1
    <3>3. QED
      BY <2>3, <2>4, <2>5, <3>2 DEF BillingPlanned, BillingTold, BillingFresh
  <2>11. QED
    BY <2>3, <2>6, <2>8, <2>9, <2>10
<1>7. ASSUME NEW h \in Handlers, Billing!Store(h) \/ Billing!Apply(h) PROVE BillingOrderInv'
  <2>1. SUFFICES ASSUME ~disturbed'
                 PROVE  One' /\ (\A i \in Billing!Remotes : BillingEndsRight(i)') /\ (\A g \in Handlers : BillingStands(g)')
          /\ (subscription' # Billing!NoRow => \A i \in Billing!Remotes : subscription'.id = i => BillingPlanned(i)' /\ BillingTold(i)')
    BY <1>2
  <2>2. /\ Billing!At(h, "store") \/ Billing!At(h, "apply")
        /\ UNCHANGED <<remote, reports, reported, disturbed>> /\ ~disturbed
        /\ frame'[h] = Billing!Idle
    BY <1>0, <1>7, <2>1 DEF Billing!Store, Billing!Apply, Billing!Finish
  <2>3. \A g \in Handlers \ {h} : ~BillingWorking(g) /\ ~Billing!At(g, "store")' /\ ~Billing!At(g, "apply")' /\ ~Billing!At(g, "apply")
    <3>1. \A g \in Handlers \ {h} : ~BillingWorking(g)
      BY <1>1, <1>4, <2>2 DEF Billing!At
    <3>2. QED
      BY <1>3, <1>4, <1>7, <3>1 DEF BillingStepOf, Billing!At
  <2>4. ~Billing!At(h, "apply")' /\ ~Billing!At(h, "store")'
    BY <1>0, <2>2 DEF Billing!At
  <2>5. One'
    BY <1>1, <1>3, <1>4, <1>7, <2>2 DEF BillingStepOf, Billing!At
  <2>6. \A j \in Billing!Remotes : BillingEndsRight(j)'
    BY <1>1, <2>2 DEF BillingEndsRight
  <2>7. \A g \in Handlers : BillingStands(g)'
    BY <2>3, <2>4 DEF BillingStands
  <2>8. subscription # Billing!NoRow /\ frame[h].id \in Billing!Remotes
    BY <2>2, BillingFrameParts DEF BillingRowInv, Billing!At
  <2>9. subscription \in [status : {"TRIAL", "ACTIVE", "PAST_DUE", "CANCELED"}, plan : Plans, id : 0..MaxRemote]
    BY <2>8 DEF Billing!TypeOK, Billing!Rows
  <2>10. CASE Billing!Store(h)
    <3>1. subscription'.id = frame[h].id /\ Billing!At(h, "store")
      BY <2>9, <2>10 DEF Billing!Store
    <3>2. BillingFresh(frame[h].id)
      BY <1>1, <2>2, <3>1 DEF BillingStands
    <3>3. \A i \in Billing!Remotes : subscription'.id = i => BillingFresh(i)'
      BY <2>2, <3>1, <3>2 DEF BillingFresh
    <3>4. \A i \in Billing!Remotes : BillingFresh(i)' => BillingPlanned(i)' /\ BillingTold(i)'
      BY <1>0, <2>2 DEF BillingFresh, BillingPlanned, BillingTold
    <3>5. QED
      BY <2>5, <2>6, <2>7, <3>3, <3>4
  <2>11. CASE Billing!Apply(h)
    <3>1. PICK i \in Billing!Remotes : i = frame[h].id
      BY <2>8
    <3>2. PICK e : e = frame[h].event
      OBVIOUS
    <3>3. Billing!At(h, "apply") /\ subscription' = Billing!Applied(i, e)
      BY <2>11, <3>1, <3>2 DEF Billing!Apply
    <3>4. subscription'.id = i /\ subscription'.status = Billing!LocalStatus[e]
          /\ subscription'.plan = IF e = "activated" THEN remote[i].plan ELSE subscription.plan
      BY <2>9, <3>3 DEF Billing!Applied
    <3>5. subscription.id = i /\ (reports[i] = <<>> => e = remote[i].last)
      BY <1>1, <2>2, <3>1, <3>2, <3>3 DEF BillingStands
    <3>6. BillingPlanned(i) /\ (\A g \in Handlers : Billing!At(g, "apply") => g = h)
      BY <1>1, <2>2, <2>3, <2>8, <3>5
    <3>7. BillingPlanned(i)'
      BY <2>2, <3>2, <3>4, <3>6 DEF BillingPlanned, BillingFresh
    <3>8. BillingTold(i)'
      BY <2>2, <3>4, <3>5 DEF BillingTold
    <3>9. QED
      BY <2>5, <2>6, <2>7, <3>4, <3>7, <3>8
  <2>12. QED
    BY <1>7, <2>10, <2>11
<1>8. ASSUME NEW h \in Handlers, Billing!Lost(h) PROVE BillingOrderInv'
  <2>1. frame[h].op \in {"first", "subscribe", "store", "apply"}
    BY <1>8, BillingFrameParts DEF Billing!Lost, Billing!Drop, Billing!At
  <2>2. disturbed'
    BY <1>8, <2>1 DEF Billing!Lost, Billing!BillingOps
  <2>3. QED
    BY <1>2, <2>2
<1>9. ASSUME NEW h \in Handlers, NEW next \in {"use", "subscribe"}, Billing!FindRow(h, next)
      PROVE  BillingOrderInv'
  <2>1. SUFFICES ASSUME ~disturbed'
                 PROVE  One' /\ (\A i \in Billing!Remotes : BillingEndsRight(i)') /\ (\A g \in Handlers : BillingStands(g)')
          /\ (subscription' # Billing!NoRow => \A i \in Billing!Remotes : subscription'.id = i => BillingPlanned(i)' /\ BillingTold(i)')
    BY <1>2
  <2>2. /\ UNCHANGED <<subscription, remote, reports, reported>> /\ ~disturbed /\ frame[h] = Billing!Idle
        /\ next = "subscribe" => ~Billing!Overlap
    BY <1>9, <2>1 DEF Billing!FindRow, Billing!Serve
  <2>3. \/ frame'[h] = [op |-> "first", next |-> next]
        \/ next = "subscribe" /\ frame'[h] = [op |-> "subscribe"]
    <3>1. frame'[h] = IF subscription = Billing!NoRow THEN [op |-> "first", next |-> next] ELSE [op |-> next]
      BY <1>0, <1>9 DEF Billing!FindRow, Billing!Serve, Billing!GoOn
    <3>2. subscription # Billing!NoRow => next = "subscribe"
      BY <1>9 DEF Billing!FindRow
    <3>3. QED
      BY <3>1, <3>2
  <2>4. BillingWorking(h)' => next = "subscribe"
    BY <2>3 DEF BillingWorking, Billing!At
  <2>5. ~Billing!Overlap => \A g \in Handlers : ~BillingWorking(g)
    BY DEF Billing!Overlap, Billing!BillingOps, BillingWorking, Billing!At
  <2>6. One'
    <3>1. BillingStepOf(h)
      BY <1>9 DEF BillingStepOf
    <3>2. QED
      BY <1>1, <1>3, <2>2, <2>4, <2>5, <3>1
  <2>7. \A g \in Handlers : /\ (Billing!At(g, "store")' <=> Billing!At(g, "store")) /\ (Billing!At(g, "apply")' <=> Billing!At(g, "apply"))
                            /\ Billing!At(g, "store") \/ Billing!At(g, "apply") => frame'[g] = frame[g]
    <3>1. ~Billing!At(h, "store") /\ ~Billing!At(h, "apply") /\ ~Billing!At(h, "store")' /\ ~Billing!At(h, "apply")'
      BY <1>0, <2>2, <2>3 DEF Billing!At
    <3>2. BillingStepOf(h)
      BY <1>9 DEF BillingStepOf
    <3>3. QED
      BY <1>3, <3>1, <3>2
  <2>8. \A i \in Billing!Remotes : BillingEndsRight(i)'
    BY <1>1, <2>2 DEF BillingEndsRight
  <2>9. \A g \in Handlers : BillingStands(g)'
    BY <1>1, <2>2, <2>7 DEF BillingStands, BillingFresh
  <2>10. subscription # Billing!NoRow => \A i \in Billing!Remotes : subscription.id = i => BillingPlanned(i)' /\ BillingTold(i)'
    BY <1>1, <2>2, <2>7 DEF BillingPlanned, BillingTold, BillingFresh
  <2>11. QED
    BY <2>2, <2>6, <2>8, <2>9, <2>10
<1>10. ASSUME NEW h \in Handlers, NEW i \in Billing!Remotes, NEW k \in 1..MaxEvents, NEW again \in BOOLEAN,
              Billing!Deliver(h, i, k, again)
       PROVE  BillingOrderInv'
  <2>1. SUFFICES ASSUME ~disturbed'
                 PROVE  One' /\ (\A j \in Billing!Remotes : BillingEndsRight(j)') /\ (\A g \in Handlers : BillingStands(g)')
          /\ (subscription' # Billing!NoRow => \A j \in Billing!Remotes : subscription'.id = j => BillingPlanned(j)' /\ BillingTold(j)')
    BY <1>2
  <2>2. /\ UNCHANGED <<subscription, remote, reported>> /\ ~disturbed /\ ~Billing!Overlap /\ k = 1
        /\ 1 \in DOMAIN reports[i]
    BY <1>10, <2>1 DEF Billing!Deliver
  <2>3. \A g \in Handlers : ~BillingWorking(g) /\ ~Billing!At(g, "store") /\ ~Billing!At(g, "apply")
    BY <2>2 DEF Billing!Overlap, Billing!BillingOps, BillingWorking, Billing!At
  <2>4. BillingStepOf(h)
    BY <1>10 DEF BillingStepOf
  <2>5. One'
    BY <1>1, <1>3, <2>2, <2>3, <2>4
  <2>6. reports[i] \in Seq(Billing!Events) /\ reports[i] # <<>>
    BY <1>0, <2>2
  <2>7. /\ \A j \in Billing!Remotes \ {i} : reports'[j] = reports[j]
        /\ reports'[i] = reports[i] \/ reports'[i] = Billing!Without(reports[i], 1)
    BY <1>0, <1>10, <2>2 DEF Billing!Deliver
  <2>8. \A j \in Billing!Remotes : BillingEndsRight(j)'
    <3>1. BillingEndsRight(i)'
      BY <1>1, <2>2, <2>6, <2>7, BillingFirstOut DEF BillingEndsRight
    <3>2. \A j \in Billing!Remotes \ {i} : BillingEndsRight(j)'
      BY <1>1, <2>2, <2>7 DEF BillingEndsRight
    <3>3. QED
      BY <3>1, <3>2
  <2>9. CASE subscription # Billing!NoRow /\ subscription.id = i
    <3>1. frame'[h] = [op |-> "apply", id |-> i, event |-> reports[i][1]]
      BY <1>0, <1>10, <2>2, <2>9 DEF Billing!Deliver, Billing!Serve, Billing!GoOn
    <3>2. Billing!At(h, "apply")' /\ ~Billing!At(h, "store")' /\ \A g \in Handlers \ {h} : ~Billing!At(g, "store")' /\ ~Billing!At(g, "apply")'
      BY <1>3, <2>3, <2>4, <3>1 DEF Billing!At
    <3>3. reports'[i] = <<>> => reports[i][1] = remote[i].last
      <4>1. reports[i][Len(reports[i])] = remote[i].last
        BY <1>1, <2>2, <2>6 DEF BillingEndsRight
      <4>2. Billing!Without(reports[i], 1) = <<>> => Len(reports[i]) = 1
        BY <2>6, BillingFirstOut
      <4>3. QED
        BY <2>6, <2>7, <4>1, <4>2
    <3>4. \A g \in Handlers : BillingStands(g)'
      <4>1. BillingStands(h)'
        BY <2>2, <2>9, <3>1, <3>2, <3>3 DEF BillingStands
      <4>2. \A g \in Handlers \ {h} : BillingStands(g)'
        BY <3>2 DEF BillingStands
      <4>3. QED
        BY <4>1, <4>2
    <3>5. BillingTold(i)'
      BY <3>2 DEF BillingTold
    <3>6. BillingPlanned(i)'
      <4>1. BillingPlanned(i)
        BY <1>1, <2>2, <2>9
      <4>2. CASE subscription.plan = remote[i].plan
        BY <2>2, <4>2 DEF BillingPlanned
      <4>3. CASE BillingFresh(i)
        <5>1. reports[i][1] = "activated"
          BY <2>6, <4>3 DEF BillingFresh, BillingRowInv
        <5>2. frame'[h].event = "activated"
          BY <3>1, <5>1
        <5>3. QED
          BY <3>2, <5>2 DEF BillingPlanned
      <4>4. QED
        BY <2>3, <4>1, <4>2, <4>3 DEF BillingPlanned
    <3>7. QED
      BY <2>2, <2>5, <2>8, <2>9, <3>4, <3>5, <3>6
  <2>10. CASE ~(subscription # Billing!NoRow /\ subscription.id = i)
    <3>1. frame' = frame
      BY <1>10, <2>10 DEF Billing!Deliver
    <3>2. \A g \in Handlers : ~Billing!At(g, "store")' /\ ~Billing!At(g, "apply")'
      BY <2>3, <3>1 DEF Billing!At
    <3>3. \A g \in Handlers : BillingStands(g)'
      BY <3>2 DEF BillingStands
    <3>4. ASSUME subscription # Billing!NoRow, NEW j \in Billing!Remotes, subscription.id = j
          PROVE  BillingPlanned(j)' /\ BillingTold(j)'
      <4>1. j # i /\ reports'[j] = reports[j]
        BY <2>7, <2>10, <3>4
      <4>2. BillingPlanned(j) /\ BillingTold(j)
        BY <1>1, <2>2, <3>4
      <4>3. QED
        BY <2>2, <2>3, <3>2, <4>1, <4>2 DEF BillingPlanned, BillingTold, BillingFresh
    <3>5. QED
      BY <2>2, <2>5, <2>8, <3>3, <3>4
  <2>11. QED
    BY <2>9, <2>10
<1>11. ASSUME NEW i \in Billing!Remotes, NEW e \in Billing!Events, Billing!Happens(i, e) PROVE BillingOrderInv'
  <2>1. SUFFICES ASSUME ~disturbed'
                 PROVE  One' /\ (\A j \in Billing!Remotes : BillingEndsRight(j)') /\ (\A g \in Handlers : BillingStands(g)')
          /\ (subscription' # Billing!NoRow => \A j \in Billing!Remotes : subscription'.id = j => BillingPlanned(j)' /\ BillingTold(j)')
    BY <1>2
  <2>2. /\ UNCHANGED <<frame, subscription, disturbed>> /\ ~disturbed
        /\ \A j \in Billing!Remotes \ {i} : remote'[j] = remote[j] /\ reports'[j] = reports[j] /\ reported'[j] = reported[j]
        /\ remote'[i].last = e /\ remote'[i].plan = remote[i].plan /\ reports'[i] = Append(reports[i], e)
        /\ remote[i].last = "created" <=> e = "activated"
        /\ remote[i].last # "none"
    BY <1>0, <1>11, <2>1 DEF Billing!Happens
  <2>3. /\ reports'[i] # <<>> /\ reports'[i][Len(reports'[i])] = e
        /\ reports'[i][1] = IF reports[i] = <<>> THEN e ELSE reports[i][1]
    <3>1. reports[i] \in Seq(Billing!Events)
      BY <1>0
    <3>2. QED
      BY <2>2, <3>1, BillingOneAdded
  <2>4. BillingFresh(i) => BillingFresh(i)'
    BY <2>2, <2>3 DEF BillingFresh, BillingRowInv
  <2>5. \A j \in Billing!Remotes \ {i} : (BillingFresh(j) => BillingFresh(j)') /\ (BillingEndsRight(j) => BillingEndsRight(j)')
                                         /\ (BillingPlanned(j) => BillingPlanned(j)') /\ (BillingTold(j) => BillingTold(j)')
    BY <2>2 DEF BillingFresh, BillingEndsRight, BillingPlanned, BillingTold, Billing!At
  <2>6. BillingEndsRight(i)' /\ BillingTold(i)' /\ (BillingPlanned(i) => BillingPlanned(i)')
    BY <2>2, <2>3, <2>4 DEF BillingEndsRight, BillingTold, BillingPlanned, Billing!At
  <2>7. One'
    BY <1>1, <2>2 DEF BillingWorking, Billing!At
  <2>8. \A g \in Handlers : BillingStands(g)'
    <3>1. \A g \in Handlers : Billing!At(g, "store") \/ Billing!At(g, "apply") => frame[g].id \in Billing!Remotes
      BY BillingFrameParts
    <3>2. \A g \in Handlers : BillingStands(g)
      BY <1>1, <2>2
    <3>3. QED
      BY <2>2, <2>3, <2>4, <2>5, <3>1, <3>2 DEF BillingStands, Billing!At
  <2>9. QED
    BY <1>1, <2>2, <2>5, <2>6, <2>7, <2>8
<1>12. CASE UNCHANGED Billing!vars
  BY <1>12 DEF Billing!vars, Billing!billingVars, BillingOrderInv, BillingWorking, BillingEndsRight,
     BillingStands, BillingPlanned, BillingTold, BillingFresh, Billing!At
<1>13. QED
  BY <1>5, <1>6, <1>7, <1>8, <1>9, <1>10, <1>11, <1>12 DEF Billing!Next

(* Where billing requests came one after the other and the reports of each *)
(* subscription in their order, repeated or not, the row says what         *)
(* happened last to the subscription it points to, and has its plan        *)
(* (handleRazorpayWebhook, createRazorpaySubscription).                    *)
THEOREM BillingTruthTold == Billing!Spec => []Billing!OrderedReportsTellTheTruth
<1>1. ASSUME Billing!Init PROVE BillingOrderInv
  <2>1. /\ frame = [h \in Handlers |-> Billing!Idle] /\ subscription = Billing!NoRow
        /\ reports = [i \in Billing!Remotes |-> <<>>] /\ Billing!Idle.op = "idle"
    BY <1>1 DEF Billing!Init, Billing!ServerInit, Billing!Idle
  <2>2. \A h \in Handlers : ~BillingWorking(h) /\ BillingStands(h)
    BY <2>1 DEF BillingWorking, BillingStands, Billing!At
  <2>3. \A i \in Billing!Remotes : BillingEndsRight(i)
    BY <2>1 DEF BillingEndsRight
  <2>4. QED
    BY <2>1, <2>2, <2>3 DEF BillingOrderInv
<1>2. ASSUME BillingOrderInv PROVE Billing!OrderedReportsTellTheTruth
  <2>1. ASSUME NEW i \in Billing!Remotes, ~disturbed, ~Billing!Overlap, subscription # Billing!NoRow, subscription.id = i,
               reported[i] > 0, reports[i] = <<>>
        PROVE  subscription.status = Billing!LocalStatus[remote[i].last] /\ subscription.plan = remote[i].plan
    <3>1. \A h \in Handlers : ~Billing!At(h, "apply")
      BY <2>1 DEF Billing!Overlap, Billing!BillingOps, Billing!At
    <3>2. BillingPlanned(i) /\ BillingTold(i)
      BY <1>2, <2>1 DEF BillingOrderInv
    <3>3. ~BillingFresh(i)
      BY <2>1 DEF BillingFresh
    <3>4. QED
      BY <2>1, <3>1, <3>2, <3>3 DEF BillingPlanned, BillingTold
  <2>2. QED
    BY <2>1 DEF Billing!OrderedReportsTellTheTruth
<1>3. QED
  BY <1>1, <1>2, BillingTypeStart, BillingTypeStep, BillingRowStep, BillingOrderStep, PTL DEF Billing!Spec

-----------------------------------------------------------------------------
(* Commands of apps.                                                       *)

\* Sets are counted as everywhere.
LEMMA AppCommandsCount ==
  \A S : AppCommands!IsFiniteSet(S) = IsFiniteSet(S) /\ AppCommands!Cardinality(S) = Cardinality(S)
BY DEF AppCommands!IsFiniteSet, IsFiniteSet, AppCommands!Cardinality, Cardinality

AppCommandsFrames == {AppCommands!Idle} \cup [op : {"lookup", "run"}, key : Keys] \cup [op : {"log"}, key : Keys, ok : BOOLEAN]

\* The requests of a key that are about to run its command, or to insert its row.
AppCommandsAtKey(op, k) == {h \in Handlers : AppCommands!At(h, op) /\ frame[h].key = k}

\* Before its row is there, each effect of a key has its request still at the row, or was cut off.
\* Once it is there, no request can come to run the command anew.
AppCommandsKeyCounted(k) ==
  /\ log[k] = "none" => effects[k] <= Cardinality(AppCommandsAtKey("log", k)) + cuts[k]
  /\ log[k] # "none" => effects[k] + Cardinality(AppCommandsAtKey("run", k)) <= Cardinality(Handlers) + cuts[k]

AppCommandsCommandInv == \A k \in Keys : AppCommandsKeyCounted(k)

\* A request that will report a success has seen the command take effect.
AppCommandsTruthInv ==
  /\ AppCommands!LogTellsTheTruth
  /\ \A h \in Handlers : AppCommands!At(h, "log") /\ frame[h].ok => effects[frame[h].key] > 0

\* A step of the request h.
AppCommandsStepOf(h) ==
  \/ \E k \in Keys : AppCommands!CommandBegin(h, k)
  \/ AppCommands!CommandLookUp(h) \/ AppCommands!CommandRun(h) \/ AppCommands!CommandLog(h) \/ AppCommands!Lost(h)

\* Types.

LEMMA AppCommandsParts ==
  ASSUME AppCommands!TypeOK
  PROVE  /\ frame \in [Handlers -> AppCommandsFrames]
         /\ log \in [Keys -> {"none", "ok", "failed"}]
         /\ effects \in [Keys -> Nat] /\ cuts \in [Keys -> 0..MaxCuts]
         /\ count \in 0..RateLimit /\ usable \in BOOLEAN /\ permitted \in BOOLEAN
BY DEF AppCommands!TypeOK, AppCommandsFrames

LEMMA AppCommandsPartsSuffice ==
  ASSUME frame' \in [Handlers -> AppCommandsFrames],
         log' \in [Keys -> {"none", "ok", "failed"}],
         effects' \in [Keys -> Nat], cuts' \in [Keys -> 0..MaxCuts],
         count' \in 0..RateLimit, usable' \in BOOLEAN, permitted' \in BOOLEAN
  PROVE  AppCommands!TypeOK'
BY DEF AppCommands!TypeOK, AppCommandsFrames

LEMMA AppCommandsFrameParts ==
  ASSUME AppCommands!TypeOK, NEW h \in Handlers
  PROVE  /\ frame[h].op \in {"idle", "lookup", "run", "log"}
         /\ AppCommands!At(h, "lookup") \/ AppCommands!At(h, "run") \/ AppCommands!At(h, "log") => frame[h].key \in Keys
         /\ AppCommands!At(h, "lookup") \/ AppCommands!At(h, "run") => frame[h] = [op |-> frame[h].op, key |-> frame[h].key]
         /\ AppCommands!At(h, "log") => frame[h].ok \in BOOLEAN
<1>1. \/ frame[h] = AppCommands!Idle
      \/ frame[h] \in [op : {"lookup", "run"}, key : Keys]
      \/ frame[h] \in [op : {"log"}, key : Keys, ok : BOOLEAN]
  BY DEF AppCommands!TypeOK
<1>2. CASE frame[h] = AppCommands!Idle
  BY <1>2 DEF AppCommands!Idle, AppCommands!At
<1>3. CASE frame[h] \in [op : {"lookup", "run"}, key : Keys]
  BY <1>3 DEF AppCommands!At
<1>4. CASE frame[h] \in [op : {"log"}, key : Keys, ok : BOOLEAN]
  BY <1>4 DEF AppCommands!At
<1>5. QED
  BY <1>1, <1>2, <1>3, <1>4

LEMMA AppCommandsIdleOp == AppCommands!Idle.op = "idle"
BY DEF AppCommands!Idle

LEMMA AppCommandsLookUpFrame ==
  ASSUME AppCommands!TypeOK, NEW h \in Handlers, AppCommands!At(h, "lookup")
  PROVE  [frame[h] EXCEPT !.op = "run"] = [op |-> "run", key |-> frame[h].key]
<1>1. frame[h].op = "lookup"
  BY DEF AppCommands!At
<1>2. frame[h] \in [op : {"lookup", "run"}, key : Keys]
  <2>1. \/ frame[h] = AppCommands!Idle
        \/ frame[h] \in [op : {"lookup", "run"}, key : Keys]
        \/ frame[h] \in [op : {"log"}, key : Keys, ok : BOOLEAN]
    BY DEF AppCommands!TypeOK
  <2>2. frame[h] # AppCommands!Idle
    BY <1>1, AppCommandsIdleOp
  <2>3. frame[h] \notin [op : {"log"}, key : Keys, ok : BOOLEAN]
    BY <1>1
  <2>4. QED
    BY <2>1, <2>2, <2>3
<1>3. QED
  BY <1>2

\* What h does to the records of the requests.
LEMMA AppCommandsFrameStep ==
  ASSUME AppCommands!TypeOK, NEW h \in Handlers, AppCommandsStepOf(h)
  PROVE  /\ frame' \in [Handlers -> AppCommandsFrames]
         /\ \A g \in Handlers \ {h} : frame'[g] = frame[g]
<1>1. ASSUME NEW f \in AppCommandsFrames, AppCommands!GoOn(h, f)
      PROVE  /\ frame' \in [Handlers -> AppCommandsFrames]
             /\ \A g \in Handlers \ {h} : frame'[g] = frame[g]
  BY <1>1, AppCommandsParts DEF AppCommands!GoOn
<1>2. AppCommands!Idle \in AppCommandsFrames
  BY DEF AppCommandsFrames
<1>3. CASE \E k \in Keys : AppCommands!CommandBegin(h, k)
  <2>1. PICK k \in Keys : AppCommands!CommandBegin(h, k)
    BY <1>3
  <2>2. [op |-> "lookup", key |-> k] \in AppCommandsFrames
    BY DEF AppCommandsFrames
  <2>3. AppCommands!GoOn(h, [op |-> "lookup", key |-> k])
    BY <2>1 DEF AppCommands!CommandBegin, AppCommands!Serve, AppCommands!GoOn
  <2>4. QED
    BY <1>1, <2>2, <2>3
<1>4. CASE AppCommands!CommandLookUp(h)
  <2>1. [op |-> "run", key |-> frame[h].key] \in AppCommandsFrames
    BY <1>4, AppCommandsFrameParts DEF AppCommands!CommandLookUp, AppCommandsFrames
  <2>2. [frame[h] EXCEPT !.op = "run"] = [op |-> "run", key |-> frame[h].key]
    BY <1>4, AppCommandsLookUpFrame DEF AppCommands!CommandLookUp
  <2>3. \E f \in AppCommandsFrames : AppCommands!GoOn(h, f)
    BY <1>2, <1>4, <2>1, <2>2 DEF AppCommands!CommandLookUp, AppCommands!Finish
  <2>4. QED
    BY <1>1, <2>3
<1>5. CASE AppCommands!CommandRun(h)
  <2>1. PICK ok \in BOOLEAN : AppCommands!GoOn(h, [op |-> "log", key |-> frame[h].key, ok |-> ok])
    BY <1>5 DEF AppCommands!CommandRun
  <2>2. frame[h].key \in Keys
    BY <1>5, AppCommandsFrameParts DEF AppCommands!CommandRun
  <2>3. [op |-> "log", key |-> frame[h].key, ok |-> ok] \in AppCommandsFrames
    BY <2>2 DEF AppCommandsFrames
  <2>4. QED
    BY <1>1, <2>1, <2>3
<1>6. CASE AppCommands!CommandLog(h) \/ AppCommands!Lost(h)
  BY <1>1, <1>2, <1>6 DEF AppCommands!CommandLog, AppCommands!Lost, AppCommands!Drop, AppCommands!Finish
<1>7. QED
  BY <1>3, <1>4, <1>5, <1>6 DEF AppCommandsStepOf

LEMMA AppCommandsTypeStep == ASSUME AppCommands!TypeOK, [AppCommands!Next]_(AppCommands!vars)
                             PROVE  AppCommands!TypeOK'
<1> USE AppCommandsParts
<1>1. ASSUME NEW h \in Handlers, AppCommandsStepOf(h) PROVE AppCommands!TypeOK'
  <2>1. frame' \in [Handlers -> AppCommandsFrames]
    BY <1>1, AppCommandsFrameStep
  <2>2. CASE (\E k \in Keys : AppCommands!CommandBegin(h, k)) \/ AppCommands!CommandLookUp(h)
    <3>1. log' = log /\ effects' = effects /\ cuts' = cuts /\ usable' = usable /\ permitted' = permitted
      BY <2>2 DEF AppCommands!CommandBegin, AppCommands!CommandLookUp, AppCommands!commandVars
    <3>2. count' \in 0..RateLimit
      <4>1. count' = count \/ (count < RateLimit /\ count' = count + 1)
        BY <2>2 DEF AppCommands!CommandBegin, AppCommands!CommandLookUp, AppCommands!commandVars
      <4>2. QED
        BY <4>1, CommandConstants
    <3>3. QED
      BY <2>1, <3>1, <3>2, AppCommandsPartsSuffice
  <2>3. CASE AppCommands!CommandRun(h)
    <3>1. frame[h].key \in Keys
      BY <2>3, AppCommandsFrameParts DEF AppCommands!CommandRun
    <3>2. effects' \in [Keys -> Nat]
      BY <2>3, <3>1 DEF AppCommands!CommandRun
    <3>3. QED
      BY <2>1, <2>3, <3>2, AppCommandsPartsSuffice DEF AppCommands!CommandRun
  <2>4. CASE AppCommands!CommandLog(h)
    <3>1. log' \in [Keys -> {"none", "ok", "failed"}]
      BY <2>4, AppCommandsFrameParts DEF AppCommands!CommandLog
    <3>2. QED
      BY <2>1, <2>4, <3>1, AppCommandsPartsSuffice DEF AppCommands!CommandLog
  <2>5. CASE AppCommands!Lost(h)
    <3>1. cuts' \in [Keys -> 0..MaxCuts]
      <4>1. CASE AppCommands!At(h, "log")
        <5>1. frame[h].key \in Keys /\ cuts[frame[h].key] < MaxCuts
          BY <2>5, <4>1, AppCommandsFrameParts DEF AppCommands!Lost
        <5>2. cuts' = [cuts EXCEPT ![frame[h].key] = cuts[frame[h].key] + 1]
          BY <2>5, <4>1 DEF AppCommands!Lost
        <5>3. cuts[frame[h].key] + 1 \in 0..MaxCuts
          BY <5>1, CommandConstants
        <5>4. QED
          BY <5>2, <5>3
      <4>2. CASE ~AppCommands!At(h, "log")
        BY <2>5, <4>2 DEF AppCommands!Lost
      <4>3. QED
        BY <4>1, <4>2
    <3>2. QED
      BY <2>1, <2>5, <3>1, AppCommandsPartsSuffice DEF AppCommands!Lost
  <2>6. QED
    BY <1>1, <2>2, <2>3, <2>4, <2>5 DEF AppCommandsStepOf
<1>2. CASE AppCommands!InstallChanges
  BY <1>2, AppCommandsPartsSuffice DEF AppCommands!InstallChanges
<1>3. CASE AppCommands!MinutePasses
  BY <1>3, AppCommandsPartsSuffice, CommandConstants DEF AppCommands!MinutePasses
<1>4. CASE UNCHANGED AppCommands!vars
  BY <1>4, AppCommandsPartsSuffice DEF AppCommands!vars, AppCommands!commandVars
<1>5. QED
  BY <1>1, <1>2, <1>3, <1>4 DEF AppCommands!Next, AppCommandsStepOf

(* The records of the requests and of the keys keep their types.           *)
THEOREM AppCommandsTypeCorrect == AppCommands!Spec => []AppCommands!TypeOK
<1>1. ASSUME AppCommands!Init PROVE AppCommands!TypeOK
  <2>1. frame \in [Handlers -> {AppCommands!Idle} \cup [op : {"lookup", "run"}, key : Keys]
                               \cup [op : {"log"}, key : Keys, ok : BOOLEAN]]
    BY <1>1 DEF AppCommands!Init, AppCommands!ServerInit
  <2>2. count \in 0..RateLimit /\ cuts \in [Keys -> 0..MaxCuts]
    BY <1>1, CommandConstants DEF AppCommands!Init
  <2>3. QED
    BY <1>1, <2>1, <2>2 DEF AppCommands!Init, AppCommands!TypeOK
<1>2. QED
  BY <1>1, AppCommandsTypeStep, PTL DEF AppCommands!Spec

\* Effects of a key.

\* A step of h moves only h between the sets that count the requests.
LEMMA AppCommandsKeyMoves ==
  ASSUME AppCommands!TypeOK, NEW h \in Handlers, AppCommandsStepOf(h), NEW k \in Keys, NEW op \in {"run", "log"}
  PROVE  /\ AppCommandsAtKey(op, k) \in SUBSET Handlers /\ AppCommandsAtKey(op, k)' \in SUBSET Handlers
         /\ AppCommandsAtKey(op, k)' \ {h} = AppCommandsAtKey(op, k) \ {h}
         /\ Cardinality(AppCommandsAtKey(op, k)) \in Nat /\ Cardinality(AppCommandsAtKey(op, k)') \in Nat
         /\ h \in AppCommandsAtKey(op, k) <=> (frame[h].op = op /\ frame[h].key = k)
         /\ h \in AppCommandsAtKey(op, k)' <=> (frame'[h].op = op /\ frame'[h].key = k)
<1>1. AppCommandsAtKey(op, k) \in SUBSET Handlers /\ AppCommandsAtKey(op, k)' \in SUBSET Handlers
  BY DEF AppCommandsAtKey
<1>2. AppCommandsAtKey(op, k)' \ {h} = AppCommandsAtKey(op, k) \ {h}
  BY AppCommandsFrameStep DEF AppCommandsAtKey, AppCommands!At
<1>3. QED
  BY <1>1, <1>2, SomeCounted DEF AppCommandsAtKey, AppCommands!At

\* No request is at both places, so together they are at most all.
LEMMA AppCommandsBothFit ==
  ASSUME NEW k \in Keys
  PROVE  Cardinality(AppCommandsAtKey("log", k)) + Cardinality(AppCommandsAtKey("run", k)) <= Cardinality(Handlers)
<1> DEFINE L == AppCommandsAtKey("log", k)
           R == AppCommandsAtKey("run", k)
<1>1. L \in SUBSET Handlers /\ R \in SUBSET Handlers /\ L \cap R = {} /\ L \cup R \in SUBSET Handlers
  BY DEF AppCommandsAtKey, AppCommands!At
<1>2. IsFiniteSet(L) /\ IsFiniteSet(R)
  BY <1>1, SomeCounted
<1> HIDE DEF L, R
<1>3. Cardinality(L \cup R) = Cardinality(L) + Cardinality(R)
  <2>1. Cardinality(L \cup R) = Cardinality(L) + Cardinality(R) - Cardinality(L \cap R)
    BY <1>2, FS_Union
  <2>2. Cardinality(L \cap R) = 0
    BY <1>1, FS_EmptySet
  <2>3. Cardinality(L) \in Nat /\ Cardinality(R) \in Nat
    BY <1>2, FS_CardinalityType
  <2>4. QED
    BY <2>1, <2>2, <2>3
<1>4. Cardinality(L \cup R) <= Cardinality(Handlers)
  BY <1>1, SomeCounted
<1>5. Cardinality(L) + Cardinality(R) <= Cardinality(Handlers)
  BY <1>3, <1>4
<1>6. QED
  BY <1>5 DEF L, R

LEMMA AppCommandsCountStep ==
  ASSUME AppCommands!TypeOK, NEW h \in Handlers, AppCommandsStepOf(h), NEW k \in Keys, AppCommandsKeyCounted(k)
  PROVE  AppCommandsKeyCounted(k)'
<1> DEFINE L == AppCommandsAtKey("log", k)
           R == AppCommandsAtKey("run", k)
           L1 == AppCommandsAtKey("log", k)'
           R1 == AppCommandsAtKey("run", k)'
           H == Cardinality(Handlers)
<1>0. /\ Cardinality(L) \in Nat /\ Cardinality(L1) \in Nat
      /\ Cardinality(R) \in Nat /\ Cardinality(R1) \in Nat /\ H \in Nat
      /\ effects[k] \in Nat /\ cuts[k] \in Nat
      /\ Cardinality(L) + Cardinality(R) <= H
  BY AppCommandsKeyMoves, HandlersCounted, AppCommandsBothFit, AppCommandsParts
<1>1. /\ h \in L <=> (frame[h].op = "log" /\ frame[h].key = k)
      /\ h \in R <=> (frame[h].op = "run" /\ frame[h].key = k)
      /\ h \in L1 <=> (frame'[h].op = "log" /\ frame'[h].key = k)
      /\ h \in R1 <=> (frame'[h].op = "run" /\ frame'[h].key = k)
  BY AppCommandsKeyMoves
<1>2. /\ h \notin L1 => Cardinality(L1) <= Cardinality(L)
      /\ (h \in L /\ h \notin L1) => Cardinality(L1) = Cardinality(L) - 1
      /\ (h \notin L /\ h \in L1) => Cardinality(L1) = Cardinality(L) + 1
      /\ (h \in L <=> h \in L1) => Cardinality(L1) = Cardinality(L)
  BY AppCommandsKeyMoves, OneMoves
<1>3. /\ h \notin R1 => Cardinality(R1) <= Cardinality(R)
      /\ (h \in R /\ h \notin R1) => Cardinality(R1) = Cardinality(R) - 1
      /\ (h \in R <=> h \in R1) => Cardinality(R1) = Cardinality(R)
  BY AppCommandsKeyMoves, OneMoves
<1>4. /\ log[k] = "none" => effects[k] <= Cardinality(L) + cuts[k]
      /\ log[k] # "none" => effects[k] + Cardinality(R) <= H + cuts[k]
  BY DEF AppCommandsKeyCounted
<1>5. SUFFICES /\ log'[k] = "none" => effects'[k] <= Cardinality(L1) + cuts'[k]
               /\ log'[k] # "none" => effects'[k] + Cardinality(R1) <= H + cuts'[k]
  BY DEF AppCommandsKeyCounted
<1> HIDE DEF L, R, L1, R1, H
<1>6. CASE \E c \in Keys : AppCommands!CommandBegin(h, c)
  <2>1. PICK c \in Keys : AppCommands!CommandBegin(h, c)
    BY <1>6
  <2>2. frame[h].op = "idle" /\ frame'[h].op = "lookup"
    <3>1. frame[h] = AppCommands!Idle /\ frame' = [frame EXCEPT ![h] = [op |-> "lookup", key |-> c]]
      BY <2>1 DEF AppCommands!CommandBegin, AppCommands!Serve
    <3>2. frame'[h] = [op |-> "lookup", key |-> c]
      BY <3>1, AppCommandsParts
    <3>3. QED
      BY <3>1, <3>2, AppCommandsIdleOp
  <2>3. log' = log /\ effects' = effects /\ cuts' = cuts
    BY <1>6 DEF AppCommands!CommandBegin
  <2>4. QED
    BY <1>0, <1>1, <1>2, <1>3, <1>4, <2>2, <2>3
<1>7. CASE AppCommands!CommandLookUp(h)
  <2>1. frame[h].op = "lookup"
    BY <1>7 DEF AppCommands!CommandLookUp, AppCommands!At
  <2>2. \/ frame'[h].op = "run" /\ frame'[h].key = frame[h].key /\ log[frame[h].key] = "none"
        \/ frame'[h].op = "idle"
    <3>1. CASE log[frame[h].key] = "none" /\ permitted
      <4>1. frame' = [frame EXCEPT ![h] = [op |-> "run", key |-> frame[h].key]]
        BY <1>7, <3>1, AppCommandsLookUpFrame DEF AppCommands!CommandLookUp, AppCommands!GoOn
      <4>2. frame'[h] = [op |-> "run", key |-> frame[h].key]
        BY <4>1, AppCommandsParts
      <4>3. QED
        BY <3>1, <4>2
    <3>2. CASE ~(log[frame[h].key] = "none" /\ permitted)
      <4>1. frame' = [frame EXCEPT ![h] = AppCommands!Idle]
        BY <1>7, <3>2 DEF AppCommands!CommandLookUp, AppCommands!GoOn, AppCommands!Finish
      <4>2. frame'[h] = AppCommands!Idle
        BY <4>1, AppCommandsParts
      <4>3. QED
        BY <4>2, AppCommandsIdleOp
    <3>3. QED
      BY <3>1, <3>2
  <2>3. log' = log /\ effects' = effects /\ cuts' = cuts
    BY <1>7 DEF AppCommands!CommandLookUp, AppCommands!commandVars
  <2>4. QED
    BY <1>0, <1>1, <1>2, <1>3, <1>4, <2>1, <2>2, <2>3
<1>8. CASE AppCommands!CommandRun(h)
  <2>1. frame[h].op = "run" /\ frame'[h].op = "log" /\ frame'[h].key = frame[h].key
    BY <1>8, AppCommandsParts DEF AppCommands!CommandRun, AppCommands!At, AppCommands!GoOn
  <2>2. log' = log /\ cuts' = cuts
    BY <1>8 DEF AppCommands!CommandRun
  <2>3. CASE frame[h].key = k
    <3>1. effects'[k] <= effects[k] + 1 /\ effects'[k] \in Nat
      BY <1>0, <1>8, <2>3, AppCommandsParts DEF AppCommands!CommandRun
    <3>2. QED
      BY <1>0, <1>1, <1>2, <1>3, <1>4, <2>1, <2>2, <2>3, <3>1
  <2>4. CASE frame[h].key # k
    <3>1. effects'[k] = effects[k]
      BY <1>8, <2>4, AppCommandsParts DEF AppCommands!CommandRun
    <3>2. QED
      BY <1>0, <1>1, <1>2, <1>3, <1>4, <2>1, <2>2, <2>4, <3>1
  <2>5. QED
    BY <2>3, <2>4
<1>9. CASE AppCommands!CommandLog(h)
  <2>1. frame[h].op = "log" /\ frame'[h].op = "idle"
    BY <1>9, AppCommandsParts DEF AppCommands!CommandLog, AppCommands!At, AppCommands!Finish,
       AppCommands!GoOn, AppCommands!Idle
  <2>2. effects' = effects /\ cuts' = cuts
    BY <1>9 DEF AppCommands!CommandLog
  <2>3. /\ frame[h].key # k => log'[k] = log[k]
        /\ log[k] # "none" => log'[k] = log[k]
        /\ frame[h].key = k => log'[k] # "none"
    BY <1>9, AppCommandsParts, AppCommandsFrameParts DEF AppCommands!CommandLog
  <2>4. QED
    BY <1>0, <1>1, <1>2, <1>3, <1>4, <2>1, <2>2, <2>3
<1>10. CASE AppCommands!Lost(h)
  <2>1. frame'[h].op = "idle"
    BY <1>10, AppCommandsParts DEF AppCommands!Lost, AppCommands!Drop, AppCommands!Finish, AppCommands!GoOn,
       AppCommands!Idle
  <2>2. effects' = effects /\ log' = log
    BY <1>10 DEF AppCommands!Lost
  <2>3. cuts'[k] = IF frame[h].op = "log" /\ frame[h].key = k THEN cuts[k] + 1 ELSE cuts[k]
    BY <1>10, AppCommandsParts DEF AppCommands!Lost, AppCommands!At
  <2>4. QED
    BY <1>0, <1>1, <1>2, <1>3, <1>4, <2>1, <2>2, <2>3
<1>11. QED
  BY <1>6, <1>7, <1>8, <1>9, <1>10 DEF AppCommandsStepOf

LEMMA AppCommandsInvStep == ASSUME AppCommands!TypeOK, AppCommandsCommandInv, [AppCommands!Next]_(AppCommands!vars)
                            PROVE  AppCommandsCommandInv'
<1>1. ASSUME NEW h \in Handlers, AppCommandsStepOf(h) PROVE AppCommandsCommandInv'
  BY <1>1, AppCommandsCountStep DEF AppCommandsCommandInv
<1>2. CASE AppCommands!InstallChanges \/ AppCommands!MinutePasses \/ UNCHANGED AppCommands!vars
  BY <1>2 DEF AppCommands!InstallChanges, AppCommands!MinutePasses, AppCommands!vars,
     AppCommands!commandVars, AppCommandsCommandInv, AppCommandsKeyCounted, AppCommandsAtKey, AppCommands!At
<1>3. QED
  BY <1>1, <1>2 DEF AppCommands!Next, AppCommandsStepOf

(* A command takes effect at most once for each handler and once more for  *)
(* each time it was cut off before its row was inserted (handleCommand).   *)
THEOREM AppCommandsCounted == AppCommands!Spec => []AppCommands!CommandsBounded
<1>1. AppCommands!Init => AppCommandsCommandInv
  <2>1. ASSUME AppCommands!Init, NEW k \in Keys PROVE AppCommandsKeyCounted(k)
    <3>1. AppCommandsAtKey("log", k) \in SUBSET Handlers
      BY DEF AppCommandsAtKey
    <3>2. Cardinality(AppCommandsAtKey("log", k)) \in Nat
      BY <3>1, SomeCounted
    <3>3. QED
      BY <2>1, <3>2, CommandConstants DEF AppCommands!Init, AppCommandsKeyCounted
  <2>2. QED
    BY <2>1 DEF AppCommandsCommandInv
<1>2. ASSUME AppCommands!TypeOK, AppCommandsCommandInv PROVE AppCommands!CommandsBounded
  <2>1. ASSUME NEW k \in Keys PROVE effects[k] <= Cardinality(Handlers) + cuts[k]
    <3>1. AppCommandsAtKey("log", k) \in SUBSET Handlers /\ AppCommandsAtKey("run", k) \in SUBSET Handlers
      BY DEF AppCommandsAtKey
    <3>2. /\ Cardinality(AppCommandsAtKey("log", k)) \in Nat /\ Cardinality(AppCommandsAtKey("run", k)) \in Nat
          /\ Cardinality(AppCommandsAtKey("log", k)) <= Cardinality(Handlers)
          /\ Cardinality(Handlers) \in Nat /\ effects[k] \in Nat /\ cuts[k] \in Nat
      BY <1>2, <3>1, SomeCounted, HandlersCounted, AppCommandsParts
    <3>3. AppCommandsKeyCounted(k)
      BY <1>2 DEF AppCommandsCommandInv
    <3>4. QED
      BY <3>2, <3>3 DEF AppCommandsKeyCounted
  <2>2. QED
    BY <2>1, AppCommandsCount DEF AppCommands!CommandsBounded
<1>3. QED
  BY <1>1, <1>2, AppCommandsInvStep, AppCommandsTypeCorrect, PTL DEF AppCommands!Spec

\* What the log says.

LEMMA AppCommandsTruthStep == ASSUME AppCommands!TypeOK, AppCommandsTruthInv, [AppCommands!Next]_(AppCommands!vars)
                              PROVE  AppCommandsTruthInv'
<1> USE AppCommandsParts DEF AppCommandsTruthInv, AppCommands!LogTellsTheTruth
<1>1. ASSUME NEW h \in Handlers, AppCommandsStepOf(h) PROVE AppCommandsTruthInv'
  <2>1. \A g \in Handlers \ {h} : frame'[g] = frame[g]
    BY <1>1, AppCommandsFrameStep
  <2>2. \A k \in Keys : effects'[k] \in Nat /\ effects'[k] >= effects[k]
    <3>1. effects' = effects \/ effects' = [effects EXCEPT ![frame[h].key] = @ + 1]
      BY <1>1 DEF AppCommandsStepOf, AppCommands!CommandBegin, AppCommands!CommandLookUp,
         AppCommands!CommandRun, AppCommands!CommandLog, AppCommands!Lost, AppCommands!commandVars
    <3>2. QED
      BY <3>1
  <2>3. AppCommands!At(h, "log")' /\ frame'[h].ok => effects'[frame'[h].key] > 0
    <3>1. CASE AppCommands!CommandRun(h)
      <4>1. PICK finished \in BOOLEAN, ok \in BOOLEAN :
              /\ ok => finished
              /\ effects' = IF finished THEN [effects EXCEPT ![frame[h].key] = @ + 1] ELSE effects
              /\ AppCommands!GoOn(h, [op |-> "log", key |-> frame[h].key, ok |-> ok])
        BY <3>1 DEF AppCommands!CommandRun
      <4>2. frame[h].key \in Keys /\ frame'[h] = [op |-> "log", key |-> frame[h].key, ok |-> ok]
        BY <3>1, <4>1, AppCommandsFrameParts DEF AppCommands!CommandRun, AppCommands!GoOn
      <4>3. ok => effects'[frame[h].key] > 0
        BY <4>1, <4>2
      <4>4. QED
        BY <4>2, <4>3
    <3>2. CASE (\E k \in Keys : AppCommands!CommandBegin(h, k)) \/ AppCommands!CommandLookUp(h) \/ AppCommands!CommandLog(h) \/ AppCommands!Lost(h)
      <4>1. frame'[h].op # "log"
        <5>1. CASE \E k \in Keys : AppCommands!CommandBegin(h, k)
          <6>1. PICK k \in Keys : AppCommands!CommandBegin(h, k)
            BY <5>1
          <6>2. frame'[h] = [op |-> "lookup", key |-> k]
            BY <6>1 DEF AppCommands!CommandBegin, AppCommands!Serve
          <6>3. QED
            BY <6>2
        <5>2. CASE AppCommands!CommandLookUp(h)
          <6>1. AppCommands!GoOn(h, [op |-> "run", key |-> frame[h].key]) \/ AppCommands!GoOn(h, AppCommands!Idle)
            BY <5>2, AppCommandsLookUpFrame DEF AppCommands!CommandLookUp, AppCommands!Finish
          <6>2. frame'[h] = [op |-> "run", key |-> frame[h].key] \/ frame'[h] = AppCommands!Idle
            BY <6>1 DEF AppCommands!GoOn
          <6>3. QED
            BY <6>2, AppCommandsIdleOp
        <5>3. CASE AppCommands!CommandLog(h) \/ AppCommands!Lost(h)
          <6>1. frame'[h] = AppCommands!Idle
            BY <5>3 DEF AppCommands!CommandLog, AppCommands!Lost, AppCommands!Drop, AppCommands!Finish,
               AppCommands!GoOn
          <6>2. QED
            BY <6>1, AppCommandsIdleOp
        <5>4. QED
          BY <3>2, <5>1, <5>2, <5>3
      <4>2. QED
        BY <4>1 DEF AppCommands!At
    <3>3. QED
      BY <1>1, <3>1, <3>2 DEF AppCommandsStepOf
  <2>4. \A g \in Handlers : (AppCommands!At(g, "log") /\ frame[g].ok => effects[frame[g].key] > 0)'
    <3>1. ASSUME NEW g \in Handlers \ {h}, AppCommands!At(g, "log")', frame'[g].ok
          PROVE  effects'[frame'[g].key] > 0
      <4>1. AppCommands!At(g, "log") /\ frame[g].ok /\ frame'[g].key = frame[g].key
        BY <2>1, <3>1 DEF AppCommands!At
      <4>2. frame[g].key \in Keys /\ effects[frame[g].key] > 0
        BY <4>1, AppCommandsFrameParts
      <4>3. QED
        BY <2>2, <4>1, <4>2
    <3>2. QED
      BY <2>3, <3>1
  <2>5. \A k \in Keys : log'[k] = "ok" => effects'[k] > 0
    <3>1. \A k \in Keys : log'[k] = "ok" /\ log[k] # "ok" =>
            AppCommands!At(h, "log") /\ frame[h].ok /\ frame[h].key = k
      BY <1>1, AppCommandsFrameParts DEF AppCommandsStepOf, AppCommands!CommandBegin,
         AppCommands!CommandLookUp, AppCommands!CommandRun, AppCommands!CommandLog, AppCommands!Lost,
          AppCommands!commandVars
    <3>2. QED
      BY <2>2, <3>1
  <2>6. QED
    BY <2>4, <2>5
<1>2. CASE AppCommands!InstallChanges \/ AppCommands!MinutePasses \/ UNCHANGED AppCommands!vars
  BY <1>2 DEF AppCommands!InstallChanges, AppCommands!MinutePasses, AppCommands!vars,
     AppCommands!commandVars, AppCommands!At
<1>3. QED
  BY <1>1, <1>2 DEF AppCommands!Next, AppCommandsStepOf

(* A row of the log that says a command succeeded is the truth.            *)
THEOREM AppCommandsLogTrue == AppCommands!Spec => []AppCommands!LogTellsTheTruth
<1>1. AppCommands!Init => AppCommandsTruthInv
  BY DEF AppCommands!Init, AppCommands!ServerInit, AppCommandsTruthInv, AppCommands!LogTellsTheTruth,
     AppCommands!At, AppCommands!Idle
<1>2. AppCommandsTruthInv => AppCommands!LogTellsTheTruth
  BY DEF AppCommandsTruthInv
<1>3. QED
  BY <1>1, <1>2, AppCommandsTruthStep, AppCommandsTypeCorrect, PTL DEF AppCommands!Spec

-----------------------------------------------------------------------------
(* Limits of a plan.                                                       *)

\* Sets are counted as everywhere.
LEMMA QuotasCount ==
  \A S : Quotas!IsFiniteSet(S) = IsFiniteSet(S) /\ Quotas!Cardinality(S) = Cardinality(S)
BY DEF Quotas!IsFiniteSet, IsFiniteSet, Quotas!Cardinality, Cardinality

QuotasFrames == {Quotas!Idle} \cup [op : {"count"}, limit : PlanLimits] \cup [op : {"insert"}]
                \cup [op : {"request"}, next : 1..(HourLimit + 2)]

\* A step of the request h.
QuotasStepOf(h) ==
  \/ Quotas!PlanRead(h) \/ Quotas!Count(h) \/ Quotas!ItemInsert(h)
  \/ Quotas!TokenRead(h) \/ Quotas!TokenWrite(h) \/ Quotas!Lost(h)

\* A request that has counted found fewer items than a limit that was current once, so each of
\* those that are about to insert finds room for all of them above the highest one.
QuotasItemInv ==
  /\ limit <= highest
  /\ \A h \in Handlers : Quotas!At(h, "count") => frame[h].limit <= highest
  /\ items + Cardinality(Quotas!Serving("insert")) < highest + Cardinality(Handlers)

\* While requests do not overlap, the count that is read is the one that is written on.
QuotasHourInv ==
  ~overlapped =>
    /\ passed <= requests /\ passed <= HourLimit
    /\ \A g, h \in Quotas!Serving("request") : g = h
    /\ \A h \in Quotas!Serving("request") :
         frame[h].next = IF requests <= HourLimit THEN requests + 1 ELSE HourLimit + 2

\* No request finds a token that is revoked, and a token is revoked once.
QuotasLateInv ==
  /\ apiToken # "revoked" => late = 0
  /\ late + Cardinality(Quotas!Serving("request")) <= Cardinality(Handlers)

\* Types.

LEMMA QuotasFrameParts ==
  ASSUME Quotas!TypeOK, NEW h \in Handlers
  PROVE  /\ frame[h].op \in {"idle", "count", "insert", "request"}
         /\ Quotas!At(h, "count") => frame[h].limit \in PlanLimits
         /\ Quotas!At(h, "request") => frame[h].next \in 1..(HourLimit + 2)
BY DEF Quotas!TypeOK, Quotas!At, Quotas!Idle

LEMMA QuotasFrameStep ==
  ASSUME Quotas!TypeOK, NEW h \in Handlers, QuotasStepOf(h)
  PROVE  /\ frame' \in [Handlers -> QuotasFrames]
         /\ \A g \in Handlers \ {h} : frame'[g] = frame[g]
<1>1. ASSUME NEW f \in QuotasFrames, Quotas!GoOn(h, f)
      PROVE  /\ frame' \in [Handlers -> QuotasFrames]
             /\ \A g \in Handlers \ {h} : frame'[g] = frame[g]
  BY <1>1 DEF Quotas!GoOn, Quotas!TypeOK, QuotasFrames
<1>2. Quotas!Idle \in QuotasFrames /\ [op |-> "insert"] \in QuotasFrames
  BY DEF QuotasFrames
<1>3. CASE Quotas!PlanRead(h)
  <2>1. [op |-> "count", limit |-> limit] \in QuotasFrames
    BY DEF QuotasFrames, Quotas!TypeOK
  <2>2. QED
    BY <1>1, <1>3, <2>1 DEF Quotas!PlanRead, Quotas!Serve, Quotas!GoOn
<1>4. CASE Quotas!TokenRead(h)
  <2>1. (IF requests <= HourLimit THEN requests + 1 ELSE HourLimit + 2) \in 1..(HourLimit + 2)
    BY QuotaConstants DEF Quotas!TypeOK
  <2>2. [op |-> "request", next |-> IF requests <= HourLimit THEN requests + 1 ELSE HourLimit + 2] \in QuotasFrames
    BY <2>1 DEF QuotasFrames
  <2>3. QED
    BY <1>1, <1>4, <2>2 DEF Quotas!TokenRead, Quotas!Serve, Quotas!GoOn
<1>5. CASE Quotas!Count(h) \/ Quotas!ItemInsert(h) \/ Quotas!TokenWrite(h) \/ Quotas!Lost(h)
  BY <1>1, <1>2, <1>5 DEF Quotas!Count, Quotas!ItemInsert, Quotas!TokenWrite, Quotas!Lost, Quotas!Drop,
     Quotas!Finish
<1>6. QED
  BY <1>3, <1>4, <1>5 DEF QuotasStepOf

LEMMA QuotasTypeStep == ASSUME Quotas!TypeOK, [Quotas!Next]_(Quotas!vars) PROVE Quotas!TypeOK'
<1>1. ASSUME NEW h \in Handlers, QuotasStepOf(h) PROVE Quotas!TypeOK'
  <2>1. frame' \in [Handlers -> {Quotas!Idle} \cup [op : {"count"}, limit : PlanLimits] \cup [op : {"insert"}]
                                \cup [op : {"request"}, next : 1..(HourLimit + 2)]]
    BY <1>1, QuotasFrameStep DEF QuotasFrames
  <2>2. CASE Quotas!PlanRead(h) \/ Quotas!Count(h) \/ Quotas!TokenRead(h) \/ Quotas!Lost(h)
    BY <2>1, <2>2 DEF Quotas!TypeOK, Quotas!PlanRead, Quotas!Count, Quotas!TokenRead, Quotas!Lost,
       Quotas!planVars, Quotas!tokenVars
  <2>3. CASE Quotas!ItemInsert(h)
    <3>1. items' \in 0..MaxPlanItems
      BY <2>3, QuotaConstants DEF Quotas!TypeOK, Quotas!ItemInsert
    <3>2. QED
      BY <2>1, <2>3, <3>1 DEF Quotas!TypeOK, Quotas!ItemInsert, Quotas!tokenVars
  <2>4. CASE Quotas!TokenWrite(h)
    <3>1. frame[h].next \in 1..(HourLimit + 2)
      BY <2>4, QuotasFrameParts DEF Quotas!TokenWrite
    <3>2. requests' \in 0..(HourLimit + 2)
      BY <2>4, <3>1, QuotaConstants DEF Quotas!TokenWrite
    <3>3. passed' \in Nat /\ late' \in Nat
      BY <2>4 DEF Quotas!TypeOK, Quotas!TokenWrite
    <3>4. QED
      BY <2>1, <2>4, <3>2, <3>3 DEF Quotas!TypeOK, Quotas!TokenWrite, Quotas!planVars
  <2>5. QED
    BY <1>1, <2>2, <2>3, <2>4 DEF QuotasStepOf
<1>2. ASSUME NEW l \in PlanLimits, Quotas!PlanChanges(l) PROVE Quotas!TypeOK'
  BY <1>2 DEF Quotas!PlanChanges, Quotas!TypeOK, Quotas!tokenVars
<1>3. CASE Quotas!CreateToken \/ Quotas!RevokeToken
  BY <1>3 DEF Quotas!CreateToken, Quotas!RevokeToken, Quotas!TypeOK, Quotas!planVars
<1>4. CASE Quotas!HourPasses
  <2>1. requests' \in 0..(HourLimit + 2) /\ passed' \in Nat
    BY <1>4, QuotaConstants DEF Quotas!HourPasses
  <2>2. QED
    BY <1>4, <2>1 DEF Quotas!HourPasses, Quotas!TypeOK, Quotas!planVars
<1>5. CASE UNCHANGED Quotas!vars
  BY <1>5 DEF Quotas!vars, Quotas!planVars, Quotas!tokenVars, Quotas!TypeOK
<1>6. QED
  BY <1>1, <1>2, <1>3, <1>4, <1>5 DEF Quotas!Next, QuotasStepOf

(* The requests, the plan and the token keep their types, for any plans,   *)
(* limits and number of requests.                                          *)
THEOREM QuotasTypeCorrect == Quotas!Spec => []Quotas!TypeOK
<1>1. ASSUME Quotas!Init PROVE Quotas!TypeOK
  <2>1. frame \in [Handlers -> {Quotas!Idle} \cup [op : {"count"}, limit : PlanLimits] \cup [op : {"insert"}]
                               \cup [op : {"request"}, next : 1..(HourLimit + 2)]]
    BY <1>1 DEF Quotas!Init, Quotas!ServerInit
  <2>2. items \in 0..MaxPlanItems /\ requests \in 0..(HourLimit + 2) /\ passed \in Nat /\ late \in Nat
    BY <1>1, QuotaConstants DEF Quotas!Init
  <2>3. QED
    BY <1>1, <2>1, <2>2 DEF Quotas!Init, Quotas!TypeOK
<1>2. QED
  BY <1>1, QuotasTypeStep, PTL DEF Quotas!Spec

\* Limits.

\* A step of h moves only h between the places that are counted.
LEMMA QuotasServingMoves ==
  ASSUME Quotas!TypeOK, NEW h \in Handlers, QuotasStepOf(h), NEW op
  PROVE  /\ Quotas!Serving(op) \in SUBSET Handlers /\ Quotas!Serving(op)' \in SUBSET Handlers
         /\ Quotas!Serving(op)' \ {h} = Quotas!Serving(op) \ {h}
         /\ Cardinality(Quotas!Serving(op)) \in Nat /\ Cardinality(Quotas!Serving(op)') \in Nat
         /\ Cardinality(Quotas!Serving(op)') <= Cardinality(Handlers)
<1>1. Quotas!Serving(op) \in SUBSET Handlers /\ Quotas!Serving(op)' \in SUBSET Handlers
  BY DEF Quotas!Serving
<1>2. Quotas!Serving(op)' \ {h} = Quotas!Serving(op) \ {h}
  BY QuotasFrameStep DEF Quotas!Serving, Quotas!At
<1>3. QED
  BY <1>1, <1>2, SomeCounted

\* What a step of h does to the work items.
LEMMA QuotasItemCases ==
  ASSUME Quotas!TypeOK, QuotasItemInv, NEW h \in Handlers, QuotasStepOf(h)
  PROVE  /\ limit' = limit /\ highest' = highest
         /\ Quotas!At(h, "count")' => frame'[h].limit <= highest
         /\ \/ items' = items /\ items < highest /\ h \notin Quotas!Serving("insert")
            \/ items' = items /\ h \notin Quotas!Serving("insert")'
            \/ items' = items + 1 /\ h \in Quotas!Serving("insert") /\ h \notin Quotas!Serving("insert")'
<1>0. /\ frame \in [Handlers -> QuotasFrames] /\ Quotas!Idle.op = "idle"
      /\ limit \in Nat /\ highest \in Nat /\ items \in Nat
  <2>1. frame \in [Handlers -> QuotasFrames]
    BY DEF Quotas!TypeOK, QuotasFrames
  <2>2. Quotas!Idle.op = "idle"
    BY DEF Quotas!Idle
  <2>3. limit \in PlanLimits /\ highest \in PlanLimits /\ items \in 0..MaxPlanItems
    BY DEF Quotas!TypeOK
  <2>4. QED
    BY <2>1, <2>2, <2>3, QuotaConstants
<1>1. CASE Quotas!PlanRead(h)
  <2>1. frame'[h] = [op |-> "count", limit |-> limit]
    BY <1>0, <1>1 DEF Quotas!PlanRead, Quotas!Serve
  <2>2. frame'[h].op = "count" /\ frame'[h].limit = limit
    BY <2>1
  <2>3. QED
    BY <1>1, <2>2 DEF Quotas!PlanRead, Quotas!planVars, QuotasItemInv, Quotas!Serving, Quotas!At
<1>2. CASE Quotas!Count(h)
  <2>1. frame[h].op = "count" /\ frame[h].limit <= highest /\ frame[h].limit \in Nat
    BY <1>2, QuotasFrameParts, QuotaConstants DEF Quotas!Count, QuotasItemInv, Quotas!At
  <2>2. \/ items < frame[h].limit /\ frame'[h] = [op |-> "insert"]
        \/ frame'[h] = Quotas!Idle
    BY <1>0, <1>2 DEF Quotas!Count, Quotas!GoOn, Quotas!Finish
  <2>3. (items < highest /\ frame'[h].op = "insert") \/ frame'[h].op = "idle"
    BY <1>0, <2>1, <2>2
  <2>4. QED
    BY <1>2, <2>1, <2>3 DEF Quotas!Count, Quotas!planVars, Quotas!Serving, Quotas!At
<1>3. CASE Quotas!ItemInsert(h)
  BY <1>0, <1>3 DEF Quotas!ItemInsert, Quotas!Finish, Quotas!GoOn, Quotas!Serving, Quotas!At
<1>4. CASE Quotas!TokenWrite(h) \/ Quotas!Lost(h)
  BY <1>0, <1>4 DEF Quotas!TokenWrite, Quotas!Lost, Quotas!Drop, Quotas!Finish, Quotas!GoOn, Quotas!Serving,
     Quotas!At, Quotas!planVars
<1>5. CASE Quotas!TokenRead(h)
  <2>1. frame'[h].op = "request"
    BY <1>0, <1>5 DEF Quotas!TokenRead, Quotas!Serve
  <2>2. QED
    BY <1>5, <2>1 DEF Quotas!TokenRead, Quotas!planVars, Quotas!Serving, Quotas!At
<1>6. QED
  BY <1>1, <1>2, <1>3, <1>4, <1>5 DEF QuotasStepOf

LEMMA QuotasItemStep == ASSUME Quotas!TypeOK, QuotasItemInv, [Quotas!Next]_(Quotas!vars) PROVE QuotasItemInv'
<1>0. limit \in Nat /\ highest \in Nat /\ items \in Nat /\ Cardinality(Handlers) \in Nat
  BY QuotaConstants, HandlersCounted DEF Quotas!TypeOK
<1>1. ASSUME NEW h \in Handlers, QuotasStepOf(h) PROVE QuotasItemInv'
  <2> DEFINE C == Quotas!Serving("insert")
             D == Quotas!Serving("insert")'
             n == Cardinality(Handlers)
  <2>1. /\ C \in SUBSET Handlers /\ D \in SUBSET Handlers /\ D \ {h} = C \ {h}
        /\ Cardinality(C) \in Nat /\ Cardinality(D) \in Nat /\ Cardinality(D) <= n
    BY <1>1, QuotasServingMoves
  <2>2. /\ h \notin D => Cardinality(D) <= Cardinality(C)
        /\ h \in C /\ h \notin D => Cardinality(D) = Cardinality(C) - 1
    BY <2>1, OneMoves
  <2>3. /\ limit' = limit /\ highest' = highest
        /\ Quotas!At(h, "count")' => frame'[h].limit <= highest
        /\ \/ items' = items /\ items < highest /\ h \notin C
           \/ items' = items /\ h \notin D
           \/ items' = items + 1 /\ h \in C /\ h \notin D
    BY <1>1, QuotasItemCases
  <2>4. items' + Cardinality(D) < highest + n
    <3>1. items + Cardinality(C) < highest + n
      BY DEF QuotasItemInv
    <3> HIDE DEF C, D, n
    <3>2. QED
      BY <1>0, <2>1, <2>2, <2>3, <3>1, HandlersCounted DEF n
  <2>5. \A g \in Handlers : Quotas!At(g, "count")' => frame'[g].limit <= highest
    BY <1>1, <2>3, QuotasFrameStep DEF QuotasItemInv, Quotas!At
  <2>6. QED
    BY <2>3, <2>4, <2>5 DEF QuotasItemInv
<1>2. ASSUME NEW l \in PlanLimits, Quotas!PlanChanges(l) PROVE QuotasItemInv'
  <2>1. /\ frame' = frame /\ items' = items /\ limit' = l /\ l \in Nat
        /\ highest' \in Nat /\ highest' >= highest /\ highest' >= l
    BY <1>0, <1>2, QuotaConstants DEF Quotas!PlanChanges
  <2>2. Quotas!Serving("insert")' = Quotas!Serving("insert")
    BY <2>1 DEF Quotas!Serving, Quotas!At
  <2>3. Cardinality(Quotas!Serving("insert")) \in Nat
    BY SomeCounted DEF Quotas!Serving
  <2>4. items' + Cardinality(Quotas!Serving("insert")') < highest' + Cardinality(Handlers)
    BY <1>0, <2>1, <2>2, <2>3 DEF QuotasItemInv
  <2>5. \A h \in Handlers : Quotas!At(h, "count") => frame[h].limit \in Nat
    BY QuotasFrameParts, QuotaConstants
  <2>6. \A h \in Handlers : Quotas!At(h, "count")' => frame'[h].limit <= highest'
    BY <1>0, <2>1, <2>5 DEF QuotasItemInv, Quotas!At
  <2>7. QED
    BY <2>1, <2>4, <2>6 DEF QuotasItemInv
<1>3. CASE Quotas!CreateToken \/ Quotas!RevokeToken \/ Quotas!HourPasses \/ UNCHANGED Quotas!vars
  BY <1>3 DEF Quotas!CreateToken, Quotas!RevokeToken, Quotas!HourPasses, Quotas!vars, Quotas!planVars,
     Quotas!tokenVars, QuotasItemInv, Quotas!Serving, Quotas!At
<1>4. QED
  BY <1>1, <1>2, <1>3 DEF Quotas!Next, QuotasStepOf

\* At a step of h of a token's request, HourInv and LateInv see one of these.
LEMMA QuotasTokenCases ==
  ASSUME Quotas!TypeOK, NEW h \in Handlers, QuotasStepOf(h)
  PROVE  /\ apiToken' = apiToken
         /\ \/ /\ UNCHANGED Quotas!tokenVars /\ h \notin Quotas!Serving("request")'
            \/ /\ apiToken = "live" /\ UNCHANGED <<requests, passed, late>>
               /\ h \notin Quotas!Serving("request") /\ h \in Quotas!Serving("request")'
               /\ overlapped' = (overlapped \/ Quotas!Serving("request") # {})
               /\ frame'[h].next = IF requests <= HourLimit THEN requests + 1 ELSE HourLimit + 2
            \/ /\ h \in Quotas!Serving("request") /\ h \notin Quotas!Serving("request")'
               /\ overlapped' = overlapped /\ requests' = frame[h].next
               /\ \/ /\ frame[h].next <= HourLimit /\ passed' = passed + 1
                     /\ late' = IF apiToken = "revoked" THEN late + 1 ELSE late
                  \/ UNCHANGED <<passed, late>>
<1>0. /\ frame \in [Handlers -> QuotasFrames] /\ Quotas!Idle.op = "idle"
  BY DEF Quotas!TypeOK, QuotasFrames, Quotas!Idle
<1>1. CASE Quotas!TokenRead(h)
  <2>1. frame[h].op = "idle"
    BY <1>0, <1>1 DEF Quotas!TokenRead, Quotas!Serve
  <2>2. frame'[h] = [op |-> "request", next |-> IF requests <= HourLimit THEN requests + 1 ELSE HourLimit + 2]
    BY <1>0, <1>1 DEF Quotas!TokenRead, Quotas!Serve
  <2>3. frame'[h].op = "request" /\ frame'[h].next = IF requests <= HourLimit THEN requests + 1 ELSE HourLimit + 2
    BY <2>2
  <2>4. QED
    BY <1>1, <2>1, <2>3 DEF Quotas!TokenRead, Quotas!Serving, Quotas!At
<1>2. CASE Quotas!TokenWrite(h)
  <2>1. frame[h].op = "request" /\ frame'[h].op = "idle"
    BY <1>0, <1>2 DEF Quotas!TokenWrite, Quotas!Finish, Quotas!GoOn, Quotas!At
  <2>2. QED
    BY <1>2, <2>1 DEF Quotas!TokenWrite, Quotas!Serving, Quotas!At
<1>3. CASE Quotas!PlanRead(h) \/ Quotas!Count(h) \/ Quotas!ItemInsert(h) \/ Quotas!Lost(h)
  <2>1. frame'[h].op # "request"
    <3>1. CASE Quotas!PlanRead(h)
      <4>1. frame'[h] = [op |-> "count", limit |-> limit]
        BY <1>0, <3>1 DEF Quotas!PlanRead, Quotas!Serve
      <4>2. QED
        BY <4>1
    <3>2. CASE Quotas!Count(h) \/ Quotas!ItemInsert(h) \/ Quotas!Lost(h)
      <4>1. frame'[h] = [op |-> "insert"] \/ frame'[h] = Quotas!Idle
        BY <1>0, <3>2 DEF Quotas!Count, Quotas!ItemInsert, Quotas!Lost, Quotas!Drop, Quotas!Finish, Quotas!GoOn
      <4>2. QED
        BY <1>0, <4>1
    <3>3. QED
      BY <1>3, <3>1, <3>2
  <2>2. QED
    BY <1>3, <2>1 DEF Quotas!PlanRead, Quotas!Count, Quotas!ItemInsert, Quotas!Lost, Quotas!tokenVars,
       Quotas!Serving, Quotas!At
<1>4. QED
  BY <1>1, <1>2, <1>3 DEF QuotasStepOf

LEMMA QuotasHourStep == ASSUME Quotas!TypeOK, QuotasHourInv, [Quotas!Next]_(Quotas!vars) PROVE QuotasHourInv'
<1>0. passed \in Nat /\ requests \in Nat /\ HourLimit \in Nat
  BY QuotaConstants DEF Quotas!TypeOK
<1>1. ASSUME NEW h \in Handlers, QuotasStepOf(h) PROVE QuotasHourInv'
  <2> SUFFICES ASSUME ~overlapped'
               PROVE  /\ passed' <= requests' /\ passed' <= HourLimit
                      /\ \A f, g \in Quotas!Serving("request")' : f = g
                      /\ \A g \in Quotas!Serving("request")' :
                           frame'[g].next = IF requests' <= HourLimit THEN requests' + 1 ELSE HourLimit + 2
    BY DEF QuotasHourInv
  <2>1. \A g \in Handlers \ {h} : frame'[g] = frame[g] /\ (g \in Quotas!Serving("request")' <=> g \in Quotas!Serving("request"))
    BY <1>1, QuotasFrameStep DEF Quotas!Serving, Quotas!At
  <2>2. Quotas!Serving("request") \subseteq Handlers /\ Quotas!Serving("request")' \subseteq Handlers
    BY DEF Quotas!Serving
  <2>3. CASE UNCHANGED Quotas!tokenVars /\ h \notin Quotas!Serving("request")'
    BY <2>1, <2>2, <2>3 DEF Quotas!tokenVars, QuotasHourInv
  <2>4. CASE /\ UNCHANGED <<requests, passed, late>>
             /\ h \notin Quotas!Serving("request") /\ h \in Quotas!Serving("request")'
             /\ overlapped' = (overlapped \/ Quotas!Serving("request") # {})
             /\ frame'[h].next = IF requests <= HourLimit THEN requests + 1 ELSE HourLimit + 2
    <3>1. ~overlapped /\ Quotas!Serving("request") = {}
      BY <2>4
    <3>2. Quotas!Serving("request")' = {h}
      BY <2>1, <2>2, <2>4, <3>1
    <3>3. QED
      BY <2>4, <3>1, <3>2 DEF QuotasHourInv
  <2>5. CASE /\ h \in Quotas!Serving("request") /\ h \notin Quotas!Serving("request")'
             /\ overlapped' = overlapped /\ requests' = frame[h].next
             /\ (frame[h].next <= HourLimit /\ passed' = passed + 1) \/ passed' = passed
    <3>1. /\ ~overlapped /\ passed <= requests /\ passed <= HourLimit
          /\ Quotas!Serving("request") = {h}
          /\ frame[h].next = IF requests <= HourLimit THEN requests + 1 ELSE HourLimit + 2
      BY <2>5 DEF QuotasHourInv
    <3>2. Quotas!Serving("request")' = {}
      BY <2>1, <2>2, <2>5, <3>1
    <3>3. passed' <= requests' /\ passed' <= HourLimit
      BY <1>0, <2>5, <3>1
    <3>4. QED
      BY <3>2, <3>3
  <2>6. QED
    BY <1>1, <2>3, <2>4, <2>5, QuotasTokenCases
<1>2. CASE Quotas!HourPasses
  BY <1>0, <1>2 DEF Quotas!HourPasses, QuotasHourInv, Quotas!Serving, Quotas!At
<1>3. CASE Quotas!CreateToken \/ Quotas!RevokeToken \/ (\E l \in PlanLimits : Quotas!PlanChanges(l)) \/ UNCHANGED Quotas!vars
  BY <1>3 DEF Quotas!CreateToken, Quotas!RevokeToken, Quotas!PlanChanges, Quotas!vars, Quotas!planVars,
     Quotas!tokenVars, QuotasHourInv, Quotas!Serving, Quotas!At
<1>4. QED
  BY <1>1, <1>2, <1>3 DEF Quotas!Next, QuotasStepOf

LEMMA QuotasLateStep == ASSUME Quotas!TypeOK, QuotasLateInv, [Quotas!Next]_(Quotas!vars) PROVE QuotasLateInv'
<1>0. late \in Nat /\ Cardinality(Handlers) \in Nat
  BY HandlersCounted DEF Quotas!TypeOK
<1>1. ASSUME NEW h \in Handlers, QuotasStepOf(h) PROVE QuotasLateInv'
  <2> DEFINE C == Quotas!Serving("request")
             D == Quotas!Serving("request")'
             n == Cardinality(Handlers)
  <2>1. /\ C \in SUBSET Handlers /\ D \in SUBSET Handlers /\ D \ {h} = C \ {h}
        /\ Cardinality(C) \in Nat /\ Cardinality(D) \in Nat /\ Cardinality(D) <= n
    BY <1>1, QuotasServingMoves
  <2>2. /\ h \notin D => Cardinality(D) <= Cardinality(C)
        /\ h \in C /\ h \notin D => Cardinality(D) = Cardinality(C) - 1
    BY <2>1, OneMoves
  <2>3. /\ apiToken' = apiToken
        /\ \/ late' = late /\ h \notin D
           \/ late' = late /\ apiToken = "live"
           \/ h \in C /\ h \notin D /\ late' = IF apiToken = "revoked" THEN late + 1 ELSE late
    BY <1>1, QuotasTokenCases DEF Quotas!tokenVars
  <2>4. apiToken # "revoked" => late = 0
    BY DEF QuotasLateInv
  <2>5. late + Cardinality(C) <= n
    BY DEF QuotasLateInv
  <2>6. late' + Cardinality(D) <= n /\ (apiToken' # "revoked" => late' = 0)
    <3> HIDE DEF C, D
    <3>1. QED
      BY <1>0, <2>1, <2>2, <2>3, <2>4, <2>5
  <2>7. QED
    BY <2>6 DEF QuotasLateInv
<1>2. CASE Quotas!RevokeToken \/ Quotas!CreateToken \/ Quotas!HourPasses \/ (\E l \in PlanLimits : Quotas!PlanChanges(l)) \/ UNCHANGED Quotas!vars
  <2>1. frame' = frame /\ late' = late /\ (apiToken' # "revoked" => apiToken # "revoked")
    BY <1>2 DEF Quotas!RevokeToken, Quotas!CreateToken, Quotas!HourPasses, Quotas!PlanChanges, Quotas!vars,
       Quotas!planVars, Quotas!tokenVars
  <2>2. Quotas!Serving("request")' = Quotas!Serving("request")
    BY <2>1 DEF Quotas!Serving, Quotas!At
  <2>3. QED
    BY <2>1, <2>2 DEF QuotasLateInv
<1>3. QED
  BY <1>1, <1>2 DEF Quotas!Next, QuotasStepOf

LEMMA QuotasNoneServed == ASSUME Quotas!Init, NEW op, op # "idle"
                          PROVE  Quotas!Serving(op) = {} /\ Cardinality(Quotas!Serving(op)) = 0
<1>1. Quotas!Serving(op) = {}
  BY DEF Quotas!Init, Quotas!ServerInit, Quotas!Serving, Quotas!At, Quotas!Idle
<1>2. QED
  BY <1>1, FS_EmptySet

(* Work items exceed the highest limit the organization had by fewer than  *)
(* the requests that counted them at the same time                         *)
(* (assertWorkItemAvailable).                                              *)
THEOREM QuotasItems == Quotas!Spec => []Quotas!PlanLimitOvershoot
<1>1. ASSUME Quotas!Init PROVE QuotasItemInv
  <2>1. Cardinality(Quotas!Serving("insert")) = 0
    BY <1>1, QuotasNoneServed
  <2>2. limit \in Nat /\ highest = limit /\ items = 0
    BY <1>1, QuotaConstants DEF Quotas!Init
  <2>3. \A h \in Handlers : ~Quotas!At(h, "count")
    BY <1>1 DEF Quotas!Init, Quotas!ServerInit, Quotas!At, Quotas!Idle
  <2>4. QED
    BY <2>1, <2>2, <2>3, HandlersCounted DEF QuotasItemInv
<1>2. ASSUME Quotas!TypeOK, QuotasItemInv PROVE Quotas!PlanLimitOvershoot
  <2>1. Cardinality(Quotas!Serving("insert")) \in Nat
    BY SomeCounted DEF Quotas!Serving
  <2>2. items \in Nat /\ highest \in Nat
    BY <1>2, QuotaConstants DEF Quotas!TypeOK
  <2>3. QED
    BY <1>2, <2>1, <2>2, HandlersCounted, QuotasCount DEF QuotasItemInv, Quotas!PlanLimitOvershoot
<1>3. QED
  BY <1>1, <1>2, QuotasItemStep, QuotasTypeCorrect, PTL DEF Quotas!Spec

(* Where requests with a token do not overlap, no more go on in an hour    *)
(* than its limit (JwtAuthGuard).                                          *)
THEOREM QuotasHours == Quotas!Spec => []Quotas!HourLimitKept
<1>1. ASSUME Quotas!Init PROVE QuotasHourInv
  <2>1. Quotas!Serving("request") = {}
    BY <1>1, QuotasNoneServed
  <2>2. QED
    BY <1>1, <2>1, QuotaConstants DEF Quotas!Init, QuotasHourInv
<1>2. QuotasHourInv => Quotas!HourLimitKept
  BY DEF QuotasHourInv, Quotas!HourLimitKept
<1>3. QED
  BY <1>1, <1>2, QuotasHourStep, QuotasTypeCorrect, PTL DEF Quotas!Spec

(* After a token is revoked, only the requests that had already found it   *)
(* are let through, once each (JwtAuthGuard, revoke).                      *)
THEOREM QuotasLateRequests == Quotas!Spec => []Quotas!LateRequestsBounded
<1>1. ASSUME Quotas!Init PROVE QuotasLateInv
  <2>1. Cardinality(Quotas!Serving("request")) = 0
    BY <1>1, QuotasNoneServed
  <2>2. QED
    BY <1>1, <2>1, HandlersCounted DEF Quotas!Init, QuotasLateInv
<1>2. ASSUME Quotas!TypeOK, QuotasLateInv PROVE Quotas!LateRequestsBounded
  <2>1. Cardinality(Quotas!Serving("request")) \in Nat
    BY SomeCounted DEF Quotas!Serving
  <2>2. late \in Nat
    BY <1>2 DEF Quotas!TypeOK
  <2>3. QED
    BY <1>2, <2>1, <2>2, HandlersCounted, QuotasCount DEF QuotasLateInv, Quotas!LateRequestsBounded
<1>3. QED
  BY <1>1, <1>2, QuotasLateStep, QuotasTypeCorrect, PTL DEF Quotas!Spec

-----------------------------------------------------------------------------
(* Installed apps.                                                         *)

\* Sets are counted as everywhere.
LEMMA AppsCount ==
  \A S : Apps!IsFiniteSet(S) = IsFiniteSet(S) /\ Apps!Cardinality(S) = Cardinality(S)
BY DEF Apps!IsFiniteSet, IsFiniteSet, Apps!Cardinality, Cardinality

AppsOps == Apps!RowOps \cup {"exchange", "connect", "renew", "renewed"}

\* A step of the request h.
AppsStepOf(h) ==
  \/ Apps!InstallRead(h) \/ Apps!InstallWrite(h) \/ Apps!RepairWrite(h)
  \/ \E op \in Apps!RowOps \ {"install", "repair"} : Apps!RowRead(h, op)
  \/ Apps!ConfigWrite(h) \/ Apps!RotateWrite(h) \/ Apps!DisableWrite(h) \/ Apps!EnableWrite(h)
  \/ Apps!UninstallWrite(h) \/ Apps!DisconnectWrite(h)
  \/ Apps!CallbackBegin(h) \/ Apps!Exchange(h) \/ Apps!ConnectWrite(h)
  \/ Apps!RenewRead(h) \/ Apps!Renew(h) \/ Apps!RenewWrite(h) \/ Apps!Lost(h)

\* The requests that would still write to a row that is uninstalled now.
AppsWriting == {h \in Handlers : frame[h].op \in {"configure", "rotate", "repair", "renew", "renewed"}}

\* Each of them has one write left, none is added to them while the row is uninstalled, and the
\* tokens that are written then are not enough for another renewal.
AppsRevivalInv ==
  /\ revived < Cardinality(Handlers)
  /\ status = "UNINSTALLED" =>
       /\ "refresh" \notin held
       /\ revived + Cardinality(AppsWriting) < Cardinality(Handlers)

\* Unless a write was under way when the row was uninstalled, none is until it is installed again.
AppsBareInv ==
  ~crossed /\ status = "UNINSTALLED" => held = {} /\ AppsWriting = {}

\* Types.

\* Where a request stands after its step.
LEMMA AppsFrameStep ==
  ASSUME Apps!TypeOK, NEW h \in Handlers, AppsStepOf(h)
  PROVE  /\ frame' \in [Handlers -> {Apps!Idle} \cup [op : AppsOps]]
         /\ \A g \in Handlers \ {h} : frame'[g] = frame[g]
<1>1. ASSUME NEW f \in {Apps!Idle} \cup [op : AppsOps], Apps!GoOn(h, f)
      PROVE  /\ frame' \in [Handlers -> {Apps!Idle} \cup [op : AppsOps]]
             /\ \A g \in Handlers \ {h} : frame'[g] = frame[g]
  BY <1>1 DEF Apps!GoOn, Apps!TypeOK, AppsOps
<1>2. \E f \in {Apps!Idle} \cup [op : AppsOps] : Apps!GoOn(h, f)
  BY DEF AppsStepOf, Apps!InstallRead, Apps!InstallWrite, Apps!RepairWrite, Apps!RowRead, Apps!ConfigWrite,
     Apps!RotateWrite, Apps!DisableWrite,
    Apps!EnableWrite, Apps!UninstallWrite, Apps!DisconnectWrite, Apps!CallbackBegin, Apps!Exchange, Apps!ConnectWrite, Apps!RenewRead, Apps!Renew,
    Apps!RenewWrite, Apps!Lost, Apps!Serve, Apps!GoOn, Apps!Finish, Apps!Drop, AppsOps, Apps!RowOps
<1>3. QED
  BY <1>1, <1>2

LEMMA AppsRowTypes ==
  ASSUME Apps!TypeOK, NEW op, NEW s \in {"INSTALLED", "DISABLED", "UNINSTALLED", status},
         NEW parts \in SUBSET Apps!Parts, Apps!Row(op, s, parts)
  PROVE  /\ status' \in {"none", "INSTALLED", "DISABLED", "UNINSTALLED"}
         /\ held' \subseteq Apps!Parts
         /\ crossed' \in BOOLEAN
         /\ revived' \in Nat
BY DEF Apps!TypeOK, Apps!Row

LEMMA AppsTypeStep == ASSUME Apps!TypeOK, [Apps!Next]_(Apps!vars) PROVE Apps!TypeOK'
<1>1. ASSUME NEW h \in Handlers, AppsStepOf(h) PROVE Apps!TypeOK'
  <2>1. frame' \in [Handlers -> {Apps!Idle} \cup [op : Apps!RowOps \cup {"exchange", "connect", "renew", "renewed"}]]
    BY <1>1, AppsFrameStep DEF AppsOps
  <2>2. CASE \/ Apps!InstallRead(h) \/ Apps!Exchange(h) \/ Apps!Renew(h) \/ Apps!Lost(h)
             \/ \E op \in Apps!RowOps \ {"install", "repair"} : Apps!RowRead(h, op)
    BY <2>1, <2>2 DEF Apps!TypeOK, Apps!InstallRead, Apps!Exchange, Apps!Renew, Apps!Lost, Apps!RowRead,
       Apps!appVars
  <2>3. CASE Apps!CallbackBegin(h) \/ Apps!RenewRead(h)
    <3>1. calls' \in 0..MaxCalls
      BY <2>3, AppConstants DEF Apps!TypeOK, Apps!CallbackBegin, Apps!RenewRead
    <3>2. QED
      BY <2>1, <2>3, <3>1 DEF Apps!TypeOK, Apps!CallbackBegin, Apps!RenewRead
  <2>4. CASE \/ Apps!InstallWrite(h) \/ Apps!RepairWrite(h) \/ Apps!ConfigWrite(h) \/ Apps!RotateWrite(h) \/ Apps!DisableWrite(h)
             \/ Apps!EnableWrite(h) \/ Apps!UninstallWrite(h) \/ Apps!DisconnectWrite(h) \/ Apps!ConnectWrite(h) \/ Apps!RenewWrite(h)
    <3>1. \E op \in AppsOps, s \in {"INSTALLED", "DISABLED", "UNINSTALLED", status}, parts \in SUBSET Apps!Parts :
            Apps!Row(op, s, parts)
      BY <2>4 DEF Apps!TypeOK, Apps!InstallWrite, Apps!RepairWrite, Apps!ConfigWrite, Apps!RotateWrite,
         Apps!DisableWrite, Apps!EnableWrite,
        Apps!UninstallWrite, Apps!DisconnectWrite, Apps!ConnectWrite, Apps!RenewWrite, Apps!Parts, AppsOps, Apps!RowOps, Apps!Tokens
    <3>2. calls' = calls
      BY <2>4 DEF Apps!InstallWrite, Apps!RepairWrite, Apps!ConfigWrite, Apps!RotateWrite, Apps!DisableWrite,
         Apps!EnableWrite,
        Apps!UninstallWrite, Apps!DisconnectWrite, Apps!ConnectWrite, Apps!RenewWrite
    <3>3. QED
      BY <2>1, <3>1, <3>2, AppsRowTypes DEF Apps!TypeOK
  <2>5. QED
    BY <1>1, <2>2, <2>3, <2>4 DEF AppsStepOf
<1>2. CASE UNCHANGED Apps!vars
  BY <1>2 DEF Apps!vars, Apps!appVars, Apps!TypeOK
<1>3. QED
  BY <1>1, <1>2 DEF Apps!Next, AppsStepOf

(* The requests, the installation, the credential and the counts keep      *)
(* their types, for any number of requests.                                *)
THEOREM AppsTypeCorrect == Apps!Spec => []Apps!TypeOK
<1>1. ASSUME Apps!Init PROVE Apps!TypeOK
  <2>1. calls \in 0..MaxCalls /\ revived \in Nat
    BY <1>1, AppConstants DEF Apps!Init
  <2>2. QED
    BY <1>1, <2>1 DEF Apps!Init, Apps!ServerInit, Apps!TypeOK
<1>2. QED
  BY <1>1, AppsTypeStep, PTL DEF Apps!Spec

\* Writes to the uninstalled row.

\* What a step of h does to what RevivalInv counts.
LEMMA AppsRevivalCases ==
  ASSUME Apps!TypeOK, NEW h \in Handlers, AppsStepOf(h)
  PROVE  \/ /\ status' = "UNINSTALLED" /\ revived' = 0 /\ held' = {} /\ h \notin AppsWriting /\ h \notin AppsWriting'
            /\ (crossed' \/ AppsWriting = {})
         \/ status' # "UNINSTALLED" /\ revived' = revived
         \/ /\ status' = status /\ revived' = revived /\ held' \subseteq held
            /\ status = "UNINSTALLED" /\ h \notin AppsWriting /\ "refresh" \notin held => h \notin AppsWriting'
         \/ /\ status' = "UNINSTALLED" /\ status = "UNINSTALLED" /\ revived' \in {revived, revived + 1}
            /\ held' \subseteq held \cup (Apps!Parts \ {"refresh"}) /\ h \in AppsWriting /\ h \notin AppsWriting'
<1>0. /\ frame \in [Handlers -> {Apps!Idle} \cup [op : Apps!RowOps \cup {"exchange", "connect", "renew", "renewed"}]]
      /\ revived \in Nat /\ Apps!Idle.op = "idle"
  BY DEF Apps!TypeOK, Apps!Idle
<1>1. CASE Apps!InstallRead(h) \/ \E op \in Apps!RowOps \ {"install", "repair"} : Apps!RowRead(h, op)
  BY <1>0, <1>1 DEF Apps!InstallRead, Apps!RowRead, Apps!Serve, Apps!appVars, AppsWriting, Apps!RowOps
<1>2. CASE Apps!RenewRead(h)
  BY <1>0, <1>2 DEF Apps!RenewRead, Apps!Tokens
<1>3. CASE Apps!CallbackBegin(h) \/ Apps!Exchange(h) \/ Apps!Renew(h) \/ Apps!Lost(h)
  BY <1>0, <1>3 DEF Apps!CallbackBegin, Apps!Exchange, Apps!Renew, Apps!Lost, Apps!Drop, Apps!Serve,
     Apps!GoOn, Apps!Finish, Apps!At, Apps!appVars, AppsWriting
<1>4. CASE Apps!RepairWrite(h) \/ Apps!ConfigWrite(h) \/ Apps!RotateWrite(h) \/ Apps!RenewWrite(h)
  BY <1>0, <1>4 DEF Apps!RepairWrite, Apps!ConfigWrite, Apps!RotateWrite, Apps!RenewWrite, Apps!Row,
     Apps!GoOn, Apps!Finish, Apps!At, AppsWriting, Apps!Parts
<1>5. CASE Apps!InstallWrite(h) \/ Apps!DisableWrite(h) \/ Apps!EnableWrite(h) \/ Apps!ConnectWrite(h)
  BY <1>0, <1>5 DEF Apps!InstallWrite, Apps!DisableWrite, Apps!EnableWrite, Apps!ConnectWrite, Apps!Row
<1>6. CASE Apps!UninstallWrite(h)
  <2>1. /\ status' = "UNINSTALLED" /\ revived' = 0 /\ held' = {}
        /\ h \notin AppsWriting /\ h \notin AppsWriting'
    BY <1>0, <1>6 DEF Apps!UninstallWrite, Apps!Row, Apps!GoOn, Apps!Finish, Apps!At, AppsWriting
  <2>2. crossed' \/ AppsWriting = {}
    BY <1>0, <1>6 DEF Apps!UninstallWrite, Apps!Row, Apps!Serving, Apps!At, AppsWriting
  <2>3. QED
    BY <2>1, <2>2
<1>7. CASE Apps!DisconnectWrite(h)
  BY <1>0, <1>7 DEF Apps!DisconnectWrite, Apps!Row, Apps!GoOn, Apps!Finish, Apps!At, AppsWriting
<1>8. QED
  BY <1>1, <1>2, <1>3, <1>4, <1>5, <1>6, <1>7 DEF AppsStepOf

LEMMA AppsRevivalStep == ASSUME Apps!TypeOK, AppsRevivalInv, [Apps!Next]_(Apps!vars) PROVE AppsRevivalInv'
<1>1. ASSUME NEW h \in Handlers, AppsStepOf(h) PROVE AppsRevivalInv'
  <2> DEFINE C == AppsWriting
             D == AppsWriting'
             n == Cardinality(Handlers)
  <2>1. C \in SUBSET Handlers /\ D \in SUBSET Handlers /\ D \ {h} = C \ {h}
    BY <1>1, AppsFrameStep DEF AppsWriting
  <2>2. /\ Cardinality(C) \in Nat /\ Cardinality(D) \in Nat /\ n \in Nat /\ n >= 1 /\ revived \in Nat
        /\ h \notin C => Cardinality(C) < n
    BY <2>1, SomeCounted, HandlersCounted, RoomForOne DEF Apps!TypeOK
  <2>3. /\ h \notin D => Cardinality(D) <= Cardinality(C)
        /\ h \in C /\ h \notin D => Cardinality(D) = Cardinality(C) - 1
        /\ (h \in C <=> h \in D) => D = C
    BY <2>1, OneMoves
  <2>4. /\ revived < n
        /\ status = "UNINSTALLED" => "refresh" \notin held /\ revived + Cardinality(C) < n
    BY DEF AppsRevivalInv
  <2>5. \/ status' = "UNINSTALLED" /\ revived' = 0 /\ held' = {} /\ h \notin C /\ h \notin D
        \/ status' # "UNINSTALLED" /\ revived' = revived
        \/ /\ status' = status /\ revived' = revived /\ held' \subseteq held
           /\ status = "UNINSTALLED" /\ h \notin C /\ "refresh" \notin held => h \notin D
        \/ /\ status' = "UNINSTALLED" /\ status = "UNINSTALLED" /\ revived' \in {revived, revived + 1}
           /\ held' \subseteq held \cup (Apps!Parts \ {"refresh"}) /\ h \in C /\ h \notin D
    BY <1>1, AppsRevivalCases
  <2>6. /\ revived' < n
        /\ status' = "UNINSTALLED" => "refresh" \notin held' /\ revived' + Cardinality(D) < n
    <3> HIDE DEF C, D, n
    <3>1. QED
      BY <2>2, <2>3, <2>4, <2>5
  <2>7. QED
    BY <2>6 DEF AppsRevivalInv
<1>2. CASE UNCHANGED Apps!vars
  BY <1>2 DEF Apps!vars, Apps!appVars, AppsRevivalInv, AppsWriting
<1>3. QED
  BY <1>1, <1>2 DEF Apps!Next, AppsStepOf

(* After an app is uninstalled, a credential is written to its row only by *)
(* requests that were past their look at it, by fewer than there are       *)
(* handlers, and what they write starts no further renewal (rotateSecret,  *)
(* updateConfig, ensureValidAccessToken).                                  *)
THEOREM AppsRevivals == Apps!Spec => []Apps!RevivalsBounded
<1>1. Apps!Init => AppsRevivalInv
  BY HandlersCounted DEF Apps!Init, AppsRevivalInv
<1>2. AppsRevivalInv => Apps!RevivalsBounded
  BY AppsCount DEF AppsRevivalInv, Apps!RevivalsBounded
<1>3. QED
  BY <1>1, <1>2, AppsRevivalStep, AppsTypeCorrect, PTL DEF Apps!Spec

\* What an uninstalled row holds.

LEMMA AppsCrossedStays ==
  ASSUME Apps!TypeOK, NEW h \in Handlers, AppsStepOf(h)
  PROVE  crossed => crossed'
BY DEF AppsStepOf, Apps!InstallRead, Apps!InstallWrite, Apps!RepairWrite, Apps!RowRead, Apps!ConfigWrite,
   Apps!RotateWrite, Apps!DisableWrite,
  Apps!EnableWrite, Apps!UninstallWrite, Apps!DisconnectWrite, Apps!CallbackBegin, Apps!Exchange, Apps!ConnectWrite, Apps!RenewRead, Apps!Renew,
  Apps!RenewWrite, Apps!Lost, Apps!Row, Apps!appVars

LEMMA AppsBareStep == ASSUME Apps!TypeOK, AppsRevivalInv, AppsBareInv, [Apps!Next]_(Apps!vars)
                      PROVE  AppsBareInv'
<1>1. ASSUME NEW h \in Handlers, AppsStepOf(h), ~crossed', status' = "UNINSTALLED"
      PROVE  held' = {} /\ AppsWriting' = {}
  <2>1. ~crossed /\ AppsWriting' \ {h} = AppsWriting \ {h} /\ AppsWriting \in SUBSET Handlers /\ AppsWriting' \in SUBSET Handlers
    BY <1>1, AppsCrossedStays, AppsFrameStep DEF AppsWriting
  <2>2. \/ held' = {} /\ AppsWriting = {} /\ h \notin AppsWriting'
        \/ /\ status = "UNINSTALLED" /\ held' \subseteq held
           /\ h \notin AppsWriting /\ "refresh" \notin held => h \notin AppsWriting'
        \/ status = "UNINSTALLED" /\ h \in AppsWriting
    BY <1>1, AppsRevivalCases
  <2>3. status = "UNINSTALLED" => held = {} /\ AppsWriting = {}
    BY <2>1 DEF AppsBareInv
  <2>4. QED
    <3> DEFINE C == AppsWriting
               D == AppsWriting'
    <3>1. /\ D \ {h} = C \ {h}
          /\ (held' = {} /\ C = {} /\ h \notin D)
             \/ (/\ status = "UNINSTALLED" /\ held' \subseteq held
                 /\ h \notin C /\ "refresh" \notin held => h \notin D)
             \/ (status = "UNINSTALLED" /\ h \in C)
          /\ status = "UNINSTALLED" => held = {} /\ C = {}
      BY <2>1, <2>2, <2>3
    <3> HIDE DEF C, D
    <3>2. held' = {} /\ D = {}
      BY <3>1
    <3>3. QED
      BY <3>2 DEF D
<1>2. CASE UNCHANGED Apps!vars
  BY <1>2 DEF Apps!vars, Apps!appVars, AppsBareInv, AppsWriting
<1>3. QED
  BY <1>1, <1>2 DEF Apps!Next, AppsStepOf, AppsBareInv

(* An app that is uninstalled holds no secret, no token and no             *)
(* configuration, unless a request to write one was under way when it was  *)
(* uninstalled: no request started later finds the row and still writes to *)
(* it before it is installed again (uninstall).                            *)
THEOREM AppsBare == Apps!Spec => []Apps!UninstalledIsBare
<1>1. Apps!Init => AppsRevivalInv /\ AppsBareInv
  BY HandlersCounted DEF Apps!Init, AppsRevivalInv, AppsBareInv
<1>2. AppsBareInv => Apps!UninstalledIsBare
  BY DEF AppsBareInv, Apps!UninstalledIsBare
<1>3. QED
  BY <1>1, <1>2, AppsRevivalStep, AppsBareStep, AppsTypeCorrect, PTL DEF Apps!Spec

-----------------------------------------------------------------------------
(* The status page.                                                        *)

StatusPageFrames == {StatusPage!Idle} \cup [op : {"collect"}, version : 1..MaxVersions]
                    \cup [op : {"settings", "clear", "scan", "confirm"}] \cup [op : {"resolve"}, request : 1..MaxDomains]

\* A step of the request h.
StatusPageStepOf(h) ==
  \/ StatusPage!PageRead(h) \/ StatusPage!PageStore(h) \/ StatusPage!SettingsRead(h) \/ StatusPage!SettingsWrite(h) \/ StatusPage!Clear(h) \/ StatusPage!ClearAfterScan(h)
  \/ StatusPage!VerifyRead(h) \/ StatusPage!Resolve(h) \/ StatusPage!VerifyWrite(h) \/ StatusPage!Lost(h)

\* What is collected is shown with the present settings, and an older copy is still to be cleared.
StatusPageCopyInv ==
  ~crossed =>
    /\ \A h \in StatusPage!Serving("collect") : frame[h].version = settings
    /\ copy \in {0, settings} \/ StatusPage!Serving("clear") # {}

\* Who verifies a domain verifies the one that is set.
StatusPageDomainInv ==
  ~moved =>
    /\ \A h \in StatusPage!Serving("resolve") : frame[h].request = domain
    /\ StatusPage!Serving("confirm") # {} \/ verified => domain \in records

\* Types.

LEMMA StatusPageFrameParts ==
  ASSUME StatusPage!TypeOK, NEW h \in Handlers
  PROVE  /\ StatusPage!At(h, "collect") => frame[h].version \in 1..MaxVersions
         /\ StatusPage!At(h, "resolve") => frame[h].request \in 1..MaxDomains
BY DEF StatusPage!TypeOK, StatusPage!At, StatusPage!Idle

LEMMA StatusPageFrameStep ==
  ASSUME StatusPage!TypeOK, NEW h \in Handlers, StatusPageStepOf(h)
  PROVE  /\ frame' \in [Handlers -> StatusPageFrames]
         /\ \A g \in Handlers \ {h} : frame'[g] = frame[g]
<1>1. ASSUME NEW f \in StatusPageFrames, StatusPage!GoOn(h, f)
      PROVE  /\ frame' \in [Handlers -> StatusPageFrames]
             /\ \A g \in Handlers \ {h} : frame'[g] = frame[g]
  BY <1>1 DEF StatusPage!GoOn, StatusPage!TypeOK, StatusPageFrames
<1>2. /\ StatusPage!Idle \in StatusPageFrames
      /\ [op |-> "settings"] \in StatusPageFrames /\ [op |-> "clear"] \in StatusPageFrames /\ [op |-> "confirm"] \in StatusPageFrames
      /\ \A v \in 1..MaxVersions : [op |-> "collect", version |-> v] \in StatusPageFrames
      /\ \A r \in 1..MaxDomains : [op |-> "resolve", request |-> r] \in StatusPageFrames
  BY DEF StatusPageFrames
<1>3. settings \in 1..MaxVersions /\ (domain # 0 => domain \in 1..MaxDomains)
  BY PageConstants DEF StatusPage!TypeOK
<1>4. CASE StatusPage!PageRead(h) \/ StatusPage!VerifyRead(h)
  BY <1>1, <1>2, <1>3, <1>4 DEF StatusPage!PageRead, StatusPage!VerifyRead, StatusPage!Serve, StatusPage!GoOn
<1>5. CASE StatusPage!SettingsRead(h) \/ StatusPage!ClearAfterScan(h)
  BY <1>1, <1>2, <1>5 DEF StatusPage!SettingsRead, StatusPage!ClearAfterScan, StatusPage!Serve, StatusPage!GoOn
<1>6. CASE StatusPage!PageStore(h) \/ StatusPage!SettingsWrite(h) \/ StatusPage!Clear(h) \/ StatusPage!Resolve(h) \/ StatusPage!VerifyWrite(h) \/ StatusPage!Lost(h)
  BY <1>1, <1>2, <1>6 DEF StatusPage!PageStore, StatusPage!SettingsWrite, StatusPage!Clear,
     StatusPage!Resolve, StatusPage!VerifyWrite, StatusPage!Lost, StatusPage!Drop, StatusPage!Finish
<1>7. QED
  BY <1>4, <1>5, <1>6 DEF StatusPageStepOf

(* The types of the status page and its domain (status.service.ts).        *)
THEOREM StatusPageTypeCorrect == StatusPage!Spec => []StatusPage!TypeOK
<1> DEFINE Rest == /\ settings \in 1..MaxVersions /\ visible \in BOOLEAN /\ copy \in 0..MaxVersions /\ crossed \in BOOLEAN
                   /\ domain \in 0..MaxDomains /\ records \subseteq 1..MaxDomains
                   /\ verified \in BOOLEAN /\ moved \in BOOLEAN
<1>1. StatusPage!Init => StatusPage!TypeOK
  <2>1. 1 \in 1..MaxVersions /\ 0 \in 0..MaxVersions /\ 0 \in 0..MaxDomains
    BY PageConstants
  <2>2. QED
    BY <2>1 DEF StatusPage!Init, StatusPage!ServerInit, StatusPage!TypeOK
<1>2. ASSUME StatusPage!TypeOK, [StatusPage!Next]_(StatusPage!vars) PROVE StatusPage!TypeOK'
  <2>1. Rest
    BY <1>2 DEF StatusPage!TypeOK
  <2>2. ASSUME NEW h \in Handlers, StatusPageStepOf(h) PROVE StatusPage!TypeOK'
    <3>1. frame' \in [Handlers -> StatusPageFrames]
      BY <1>2, <2>2, StatusPageFrameStep
    <3>2. ASSUME Rest' PROVE StatusPage!TypeOK'
      BY <3>1, <3>2 DEF StatusPage!TypeOK, StatusPageFrames
    <3>3. ASSUME StatusPage!PageRead(h) \/ StatusPage!SettingsRead(h) \/ StatusPage!ClearAfterScan(h) \/ StatusPage!VerifyRead(h) \/ StatusPage!Resolve(h)
          PROVE  Rest'
      BY <2>1, <3>3 DEF StatusPage!PageRead, StatusPage!SettingsRead, StatusPage!ClearAfterScan,
         StatusPage!VerifyRead, StatusPage!Resolve, StatusPage!pageVars, StatusPage!domainVars
    <3>4. ASSUME StatusPage!PageStore(h) PROVE Rest'
      <4>1. frame[h].version \in 0..MaxVersions
        BY <1>2, <3>4, StatusPageFrameParts DEF StatusPage!PageStore
      <4>2. QED
        BY <2>1, <3>4, <4>1 DEF StatusPage!PageStore, StatusPage!domainVars
    <3>5. ASSUME StatusPage!SettingsWrite(h) PROVE Rest'
      <4>1. settings + 1 \in 1..MaxVersions
        BY <2>1, <3>5, PageConstants DEF StatusPage!SettingsWrite
      <4>2. QED
        BY <2>1, <3>5, <4>1 DEF StatusPage!SettingsWrite, StatusPage!domainVars
    <3>6. ASSUME StatusPage!Clear(h) \/ StatusPage!VerifyWrite(h) \/ StatusPage!Lost(h) PROVE Rest'
      <4>1. 0 \in 0..MaxVersions
        BY PageConstants
      <4>2. QED
        BY <2>1, <3>6, <4>1 DEF StatusPage!Clear, StatusPage!VerifyWrite, StatusPage!Lost, StatusPage!At,
           StatusPage!pageVars, StatusPage!domainVars
    <3>7. QED
      BY <2>2, <3>2, <3>3, <3>4, <3>5, <3>6 DEF StatusPageStepOf
  <2>3. ASSUME Rest', UNCHANGED frame PROVE StatusPage!TypeOK'
    BY <1>2, <2>3 DEF StatusPage!TypeOK
  <2>4. ASSUME StatusPage!CopyExpires PROVE Rest' /\ UNCHANGED frame
    BY <2>1, <2>4, PageConstants DEF StatusPage!CopyExpires, StatusPage!domainVars
  <2>5. ASSUME StatusPage!RequestDomain PROVE Rest' /\ UNCHANGED frame
    <3>1. domain + 1 \in 0..MaxDomains
      BY <2>1, <2>5, PageConstants DEF StatusPage!RequestDomain
    <3>2. QED
      BY <2>1, <2>5, <3>1 DEF StatusPage!RequestDomain, StatusPage!pageVars
  <2>6. ASSUME NEW r \in 1..MaxDomains, StatusPage!PublishRecord(r) PROVE Rest' /\ UNCHANGED frame
    BY <2>1, <2>6 DEF StatusPage!PublishRecord, StatusPage!pageVars
  <2>7. ASSUME UNCHANGED StatusPage!vars PROVE Rest' /\ UNCHANGED frame
    BY <2>1, <2>7 DEF StatusPage!vars, StatusPage!pageVars, StatusPage!domainVars
  <2>8. QED
    BY <1>2, <2>2, <2>3, <2>4, <2>5, <2>6, <2>7 DEF StatusPage!Next, StatusPageStepOf
<1>3. QED
  BY <1>1, <1>2, PTL DEF StatusPage!Spec

\* The copy.

LEMMA StatusPageCopyStep == ASSUME StatusPage!TypeOK, StatusPageCopyInv, [StatusPage!Next]_(StatusPage!vars)
                            PROVE  StatusPageCopyInv'
<1> SUFFICES ASSUME ~crossed' PROVE StatusPageCopyInv'
  BY DEF StatusPageCopyInv
<1>1. ASSUME ~crossed
      PROVE  /\ \A h \in StatusPage!Serving("collect") : frame[h].version = settings
             /\ copy \in {0, settings} \/ StatusPage!Serving("clear") # {}
  BY <1>1 DEF StatusPageCopyInv
\* A step of h that changes neither the settings nor the copy, and does not come from a clear.
<1>2. ASSUME NEW h \in Handlers, StatusPageStepOf(h), UNCHANGED <<settings, copy, crossed>>, ~StatusPage!At(h, "clear"),
             StatusPage!At(h, "collect")' => frame'[h].version = settings
      PROVE  StatusPageCopyInv'
  <2>1. \A g \in Handlers \ {h} : frame'[g] = frame[g]
    BY <1>2, StatusPageFrameStep
  <2>2. \A g \in StatusPage!Serving("collect")' : frame'[g].version = settings'
    BY <1>1, <1>2, <2>1 DEF StatusPage!Serving, StatusPage!At
  <2>3. StatusPage!Serving("clear") \subseteq StatusPage!Serving("clear")'
    BY <1>2, <2>1 DEF StatusPage!Serving, StatusPage!At
  <2>4. QED
    BY <1>1, <1>2, <2>2, <2>3 DEF StatusPageCopyInv
<1>3. ASSUME NEW h \in Handlers, StatusPage!PageRead(h) PROVE StatusPageCopyInv'
  <2>1. frame'[h].version = settings /\ frame[h] = StatusPage!Idle
    BY <1>3 DEF StatusPage!PageRead, StatusPage!Serve, StatusPage!TypeOK
  <2>2. QED
    BY <1>2, <1>3, <2>1 DEF StatusPage!PageRead, StatusPageStepOf, StatusPage!pageVars, StatusPage!At,
       StatusPage!Idle
<1>4. ASSUME NEW h \in Handlers, StatusPage!SettingsRead(h) \/ StatusPage!ClearAfterScan(h) \/ StatusPage!VerifyRead(h) \/ StatusPage!Resolve(h) \/ StatusPage!VerifyWrite(h)
      PROVE  StatusPageCopyInv'
  <2>1. StatusPageStepOf(h) /\ UNCHANGED <<settings, copy, crossed>>
    BY <1>4 DEF StatusPageStepOf, StatusPage!SettingsRead, StatusPage!ClearAfterScan, StatusPage!VerifyRead,
       StatusPage!Resolve, StatusPage!VerifyWrite, StatusPage!pageVars
  <2>2. frame[h].op # "clear" /\ frame'[h].op # "collect"
    BY <1>4 DEF StatusPage!SettingsRead, StatusPage!ClearAfterScan, StatusPage!VerifyRead,
       StatusPage!Resolve, StatusPage!VerifyWrite, StatusPage!At, StatusPage!Serve, StatusPage!GoOn,
        StatusPage!Finish, StatusPage!Idle, StatusPage!TypeOK
  <2>3. QED
    BY <1>2, <2>1, <2>2 DEF StatusPage!At
<1>5. ASSUME NEW h \in Handlers, StatusPage!Lost(h) PROVE StatusPageCopyInv'
  <2>1. StatusPageStepOf(h) /\ UNCHANGED <<settings, copy, crossed>> /\ ~StatusPage!At(h, "clear")
    BY <1>5 DEF StatusPageStepOf, StatusPage!Lost, StatusPage!TypeOK, StatusPage!At
  <2>2. frame'[h].op # "collect"
    BY <1>5 DEF StatusPage!Lost, StatusPage!Drop, StatusPage!Finish, StatusPage!GoOn, StatusPage!Idle,
       StatusPage!TypeOK
  <2>3. QED
    BY <1>2, <2>1, <2>2 DEF StatusPage!At
<1>6. ASSUME NEW h \in Handlers, StatusPage!PageStore(h) PROVE StatusPageCopyInv'
  <2>1. /\ StatusPageStepOf(h) /\ UNCHANGED <<settings, crossed>> /\ copy' = frame[h].version
        /\ h \in StatusPage!Serving("collect") /\ frame'[h] = StatusPage!Idle
    BY <1>6 DEF StatusPageStepOf, StatusPage!PageStore, StatusPage!Finish, StatusPage!GoOn,
       StatusPage!TypeOK, StatusPage!Serving
  <2>2. copy' = settings' /\ h \notin StatusPage!Serving("collect")'
    BY <1>1, <2>1 DEF StatusPage!Serving, StatusPage!At, StatusPage!Idle
  <2>3. QED
    BY <1>1, <2>1, <2>2, StatusPageFrameStep DEF StatusPageCopyInv, StatusPage!Serving, StatusPage!At
<1>7. ASSUME NEW h \in Handlers, StatusPage!SettingsWrite(h) PROVE StatusPageCopyInv'
  <2>1. /\ StatusPageStepOf(h) /\ ~crossed /\ StatusPage!Serving("collect") = {} /\ frame'[h] = [op |-> "clear"]
    BY <1>7 DEF StatusPageStepOf, StatusPage!SettingsWrite, StatusPage!GoOn, StatusPage!TypeOK
  <2>2. h \in StatusPage!Serving("clear")' /\ StatusPage!Serving("collect")' = {}
    BY <2>1, StatusPageFrameStep DEF StatusPage!Serving, StatusPage!At
  <2>3. QED
    BY <2>2 DEF StatusPageCopyInv
<1>8. ASSUME NEW h \in Handlers, StatusPage!Clear(h) PROVE StatusPageCopyInv'
  <2>1. /\ StatusPageStepOf(h) /\ UNCHANGED <<settings, crossed>> /\ copy' = 0 /\ frame'[h] = StatusPage!Idle
    BY <1>8 DEF StatusPageStepOf, StatusPage!Clear, StatusPage!Finish, StatusPage!GoOn, StatusPage!TypeOK
  <2>2. h \notin StatusPage!Serving("collect")'
    BY <2>1 DEF StatusPage!Serving, StatusPage!At, StatusPage!Idle
  <2>3. QED
    BY <1>1, <2>1, <2>2, StatusPageFrameStep DEF StatusPageCopyInv, StatusPage!Serving, StatusPage!At
<1>9. CASE StatusPage!CopyExpires \/ StatusPage!RequestDomain \/ (\E r \in 1..MaxDomains : StatusPage!PublishRecord(r)) \/ UNCHANGED StatusPage!vars
  <2>1. UNCHANGED <<frame, settings, crossed>> /\ copy' \in {0, copy}
    BY <1>9 DEF StatusPage!CopyExpires, StatusPage!RequestDomain, StatusPage!PublishRecord, StatusPage!vars,
       StatusPage!pageVars
  <2>2. QED
    BY <1>1, <2>1 DEF StatusPageCopyInv, StatusPage!Serving, StatusPage!At
<1>10. QED
  BY <1>3, <1>4, <1>5, <1>6, <1>7, <1>8, <1>9 DEF StatusPage!Next

(* The cached page shows the last settings, for any number of readers,     *)
(* changes and scans, unless a page was being collected when they changed  *)
(* or the change was cut off (getPublicStatusByOrgSlug).                   *)
THEOREM StatusPageCopies == StatusPage!Spec => []StatusPage!CopyUpToDate
<1>1. StatusPage!Init => StatusPageCopyInv
  BY DEF StatusPage!Init, StatusPage!ServerInit, StatusPageCopyInv, StatusPage!Serving, StatusPage!At,
     StatusPage!Idle
<1>2. StatusPageCopyInv => StatusPage!CopyUpToDate
  BY DEF StatusPageCopyInv, StatusPage!CopyUpToDate
<1>3. QED
  BY <1>1, <1>2, StatusPageCopyStep, StatusPageTypeCorrect, PTL DEF StatusPage!Spec

\* The custom domain.

LEMMA StatusPageDomainStep == ASSUME StatusPage!TypeOK, StatusPageDomainInv, [StatusPage!Next]_(StatusPage!vars)
                              PROVE  StatusPageDomainInv'
<1> SUFFICES ASSUME ~moved' PROVE StatusPageDomainInv'
  BY DEF StatusPageDomainInv
<1>1. ASSUME ~moved
      PROVE  /\ \A h \in StatusPage!Serving("resolve") : frame[h].request = domain
             /\ StatusPage!Serving("confirm") # {} \/ verified => domain \in records
  BY <1>1 DEF StatusPageDomainInv
\* A step of h that is not about to confirm, or may.
<1>2. ASSUME NEW h \in Handlers, StatusPageStepOf(h), UNCHANGED <<domain, records, moved>>,
             StatusPage!At(h, "resolve")' => frame'[h].request = domain,
             verified' = verified \/ domain \in records,
             StatusPage!At(h, "confirm")' => domain \in records
      PROVE  StatusPageDomainInv'
  <2>1. \A g \in Handlers \ {h} : frame'[g] = frame[g]
    BY <1>2, StatusPageFrameStep
  <2>2. \A g \in StatusPage!Serving("resolve")' : frame'[g].request = domain'
    BY <1>1, <1>2, <2>1 DEF StatusPage!Serving, StatusPage!At
  <2>3. ASSUME StatusPage!Serving("confirm")' # {} PROVE domain \in records
    BY <1>1, <1>2, <2>1, <2>3 DEF StatusPage!Serving, StatusPage!At
  <2>4. QED
    BY <1>1, <1>2, <2>2, <2>3 DEF StatusPageDomainInv
<1>3. ASSUME NEW h \in Handlers, StatusPage!VerifyRead(h) PROVE StatusPageDomainInv'
  <2>1. frame'[h].request = domain /\ frame'[h].op = "resolve"
    BY <1>3 DEF StatusPage!VerifyRead, StatusPage!Serve, StatusPage!TypeOK
  <2>2. QED
    BY <1>2, <1>3, <2>1 DEF StatusPage!VerifyRead, StatusPageStepOf, StatusPage!domainVars, StatusPage!At
<1>4. ASSUME NEW h \in Handlers, StatusPage!Resolve(h) PROVE StatusPageDomainInv'
  <2>1. StatusPageStepOf(h) /\ UNCHANGED StatusPage!domainVars /\ h \in StatusPage!Serving("resolve")
    BY <1>4 DEF StatusPage!Resolve, StatusPageStepOf, StatusPage!Serving
  <2>2. frame[h].request = domain
    BY <1>1, <2>1 DEF StatusPage!domainVars
  <2>3. frame'[h] = IF frame[h].request \in records THEN [op |-> "confirm"] ELSE StatusPage!Idle
    BY <1>4 DEF StatusPage!Resolve, StatusPage!GoOn, StatusPage!Finish, StatusPage!TypeOK
  <2>4. StatusPage!At(h, "confirm")' => domain \in records
    BY <2>2, <2>3 DEF StatusPage!At, StatusPage!Idle
  <2>5. ~StatusPage!At(h, "resolve")'
    BY <2>3 DEF StatusPage!At, StatusPage!Idle
  <2>6. QED
    BY <1>2, <2>1, <2>4, <2>5 DEF StatusPage!domainVars
<1>5. ASSUME NEW h \in Handlers, StatusPage!VerifyWrite(h) PROVE StatusPageDomainInv'
  <2>1. /\ StatusPageStepOf(h) /\ UNCHANGED <<domain, records, moved>> /\ h \in StatusPage!Serving("confirm")
        /\ frame'[h] = [op |-> "clear"]
    BY <1>5 DEF StatusPage!VerifyWrite, StatusPageStepOf, StatusPage!GoOn, StatusPage!Serving, StatusPage!TypeOK
  <2>2. domain \in records
    BY <1>1, <2>1
  <2>3. ~StatusPage!At(h, "resolve")'
    BY <2>1 DEF StatusPage!At
  <2>4. QED
    BY <1>2, <2>1, <2>2, <2>3
<1>6. ASSUME NEW h \in Handlers, \/ StatusPage!PageRead(h) \/ StatusPage!PageStore(h) \/ StatusPage!SettingsRead(h) \/ StatusPage!SettingsWrite(h)
                                 \/ StatusPage!Clear(h) \/ StatusPage!ClearAfterScan(h) \/ StatusPage!Lost(h)
      PROVE  StatusPageDomainInv'
  <2>1. StatusPageStepOf(h) /\ UNCHANGED StatusPage!domainVars
    BY <1>6 DEF StatusPageStepOf, StatusPage!PageRead, StatusPage!PageStore, StatusPage!SettingsRead,
       StatusPage!SettingsWrite, StatusPage!Clear, StatusPage!ClearAfterScan, StatusPage!Lost
  <2>2. frame'[h].op \notin {"resolve", "confirm"}
    BY <1>6 DEF StatusPage!PageRead, StatusPage!PageStore, StatusPage!SettingsRead, StatusPage!SettingsWrite,
       StatusPage!Clear, StatusPage!ClearAfterScan, StatusPage!Lost, StatusPage!Drop,
                StatusPage!Serve, StatusPage!GoOn, StatusPage!Finish, StatusPage!Idle, StatusPage!TypeOK
  <2>3. QED
    BY <1>2, <2>1, <2>2 DEF StatusPage!domainVars, StatusPage!At
<1>7. CASE StatusPage!RequestDomain
  <2>1. StatusPage!Serving("resolve") = {} /\ StatusPage!Serving("confirm") = {} /\ verified' = FALSE /\ UNCHANGED frame
    BY <1>7 DEF StatusPage!RequestDomain
  <2>2. QED
    BY <2>1 DEF StatusPageDomainInv, StatusPage!Serving, StatusPage!At
<1>8. CASE StatusPage!CopyExpires \/ (\E r \in 1..MaxDomains : StatusPage!PublishRecord(r)) \/ UNCHANGED StatusPage!vars
  <2>1. UNCHANGED <<frame, domain, verified, moved>> /\ records \subseteq records'
    BY <1>8 DEF StatusPage!CopyExpires, StatusPage!PublishRecord, StatusPage!vars, StatusPage!domainVars
  <2>2. QED
    BY <1>1, <2>1 DEF StatusPageDomainInv, StatusPage!Serving, StatusPage!At
<1>9. QED
  BY <1>3, <1>4, <1>5, <1>6, <1>7, <1>8 DEF StatusPage!Next

(* A domain that counts as verified had its own token in the DNS, for any  *)
(* number of domains and verifications, unless another was requested       *)
(* during the lookup (verifyCustomDomain).                                 *)
THEOREM StatusPageDomains == StatusPage!Spec => []StatusPage!VerifiedDomainIsProven
<1>1. StatusPage!Init => StatusPageDomainInv
  BY DEF StatusPage!Init, StatusPage!ServerInit, StatusPageDomainInv, StatusPage!Serving, StatusPage!At,
     StatusPage!Idle
<1>2. StatusPageDomainInv => StatusPage!VerifiedDomainIsProven
  BY DEF StatusPageDomainInv, StatusPage!VerifiedDomainIsProven
<1>3. QED
  BY <1>1, <1>2, StatusPageDomainStep, StatusPageTypeCorrect, PTL DEF StatusPage!Spec

-----------------------------------------------------------------------------
(* Access to the status page.                                              *)

\* Sets are counted as everywhere.
LEMMA StatusAccessCount ==
  \A S : StatusAccess!IsFiniteSet(S) = IsFiniteSet(S) /\ StatusAccess!Cardinality(S) = Cardinality(S)
BY DEF StatusAccess!IsFiniteSet, IsFiniteSet, StatusAccess!Cardinality, Cardinality

StatusAccessFrames == {StatusAccess!Idle} \cup [op : {"link", "subscribe"}]
                      \cup [op : {"use", "session"}, link : StatusAccess!Links] \cup [op : {"unsubscribe"}, s : StatusAccess!Subscribers]

\* A step of the request h.
StatusAccessStepOf(h) ==
  \/ StatusAccess!LinkRequest(h) \/ StatusAccess!LinkInsert(h) \/ StatusAccess!LinkUse(h) \/ StatusAccess!LinkSession(h)
  \/ StatusAccess!SubscribeCount(h) \/ StatusAccess!SubscribeInsert(h) \/ StatusAccess!UnsubscribeWrite(h) \/ StatusAccess!Lost(h)
  \/ \E l \in StatusAccess!Links : StatusAccess!LinkRead(h, l)
  \/ \E s \in StatusAccess!Subscribers : StatusAccess!UnsubscribeRead(h, s)

\* The requests that have found a link, and go on to a session with it.
StatusAccessUsing(l) == {h \in Handlers : frame[h].op \in {"use", "session"} /\ frame[h].link = l}

\* A link that is not used yet has started nothing; once it is, no request finds it any more.
StatusAccessLinkCounted(l) ==
  /\ link[l] = "used" => sessions[l] + Cardinality(StatusAccessUsing(l)) <= Cardinality(Handlers)
  /\ link[l] # "used" => /\ sessions[l] = 0
                         /\ \A h \in StatusAccessUsing(l) : frame[h].op = "use"
StatusAccessLinkInv == \A l \in StatusAccess!Links : StatusAccessLinkCounted(l)

\* Whoever is about to insert a subscription has counted fewer than the limit.
StatusAccessSubscriberInv ==
  Cardinality(StatusAccess!Subscribed) + Cardinality(StatusAccess!Serving("subscribe")) < SubscriberLimit + Cardinality(Handlers)

\* Types.

LEMMA StatusAccessFrameParts ==
  ASSUME StatusAccess!TypeOK, NEW h \in Handlers
  PROVE  /\ frame[h].op \in {"idle", "link", "subscribe", "use", "session", "unsubscribe"}
         /\ frame[h].op \in {"use", "session"} => frame[h].link \in StatusAccess!Links
         /\ frame[h].op = "unsubscribe" => frame[h].s \in StatusAccess!Subscribers
<1>1. \/ frame[h] = StatusAccess!Idle
      \/ frame[h] \in [op : {"link", "subscribe"}]
      \/ frame[h] \in [op : {"use", "session"}, link : StatusAccess!Links]
      \/ frame[h] \in [op : {"unsubscribe"}, s : StatusAccess!Subscribers]
  BY DEF StatusAccess!TypeOK
<1>2. CASE frame[h] = StatusAccess!Idle \/ frame[h] \in [op : {"link", "subscribe"}]
  BY <1>2 DEF StatusAccess!Idle
<1>3. CASE frame[h] \in [op : {"use", "session"}, link : StatusAccess!Links]
  BY <1>3
<1>4. CASE frame[h] \in [op : {"unsubscribe"}, s : StatusAccess!Subscribers]
  BY <1>4
<1>5. QED
  BY <1>1, <1>2, <1>3, <1>4

LEMMA StatusAccessFrameStep ==
  ASSUME StatusAccess!TypeOK, NEW h \in Handlers, StatusAccessStepOf(h)
  PROVE  /\ frame' \in [Handlers -> StatusAccessFrames]
         /\ \A g \in Handlers \ {h} : frame'[g] = frame[g]
<1>1. ASSUME NEW f \in StatusAccessFrames, StatusAccess!GoOn(h, f)
      PROVE  /\ frame' \in [Handlers -> StatusAccessFrames]
             /\ \A g \in Handlers \ {h} : frame'[g] = frame[g]
  BY <1>1 DEF StatusAccess!GoOn, StatusAccess!TypeOK, StatusAccessFrames
<1>2. /\ StatusAccess!Idle \in StatusAccessFrames /\ [op |-> "link"] \in StatusAccessFrames /\ [op |-> "subscribe"] \in StatusAccessFrames
      /\ \A op \in {"use", "session"}, l \in StatusAccess!Links : [op |-> op, link |-> l] \in StatusAccessFrames
      /\ \A s \in StatusAccess!Subscribers : [op |-> "unsubscribe", s |-> s] \in StatusAccessFrames
  BY DEF StatusAccessFrames
<1>3. CASE StatusAccess!LinkRequest(h) \/ StatusAccess!SubscribeCount(h) \/ (\E l \in StatusAccess!Links : StatusAccess!LinkRead(h, l))
           \/ \E s \in StatusAccess!Subscribers : StatusAccess!UnsubscribeRead(h, s)
  BY <1>1, <1>2, <1>3, StatusAccessCount DEF StatusAccess!LinkRequest, StatusAccess!SubscribeCount,
     StatusAccess!LinkRead, StatusAccess!UnsubscribeRead, StatusAccess!Serve, StatusAccess!GoOn
<1>4. CASE StatusAccess!LinkInsert(h) \/ StatusAccess!LinkSession(h) \/ StatusAccess!SubscribeInsert(h) \/ StatusAccess!UnsubscribeWrite(h) \/ StatusAccess!Lost(h)
  BY <1>1, <1>2, <1>4 DEF StatusAccess!LinkInsert, StatusAccess!LinkSession, StatusAccess!SubscribeInsert,
     StatusAccess!UnsubscribeWrite, StatusAccess!Lost, StatusAccess!Drop, StatusAccess!Finish
<1>5. CASE StatusAccess!LinkUse(h)
  BY <1>1, <1>2, <1>5, StatusAccessFrameParts DEF StatusAccess!LinkUse, StatusAccess!At
<1>6. QED
  BY <1>3, <1>4, <1>5 DEF StatusAccessStepOf

LEMMA StatusAccessTypeStep == ASSUME StatusAccess!TypeOK, [StatusAccess!Next]_(StatusAccess!vars)
                              PROVE  StatusAccess!TypeOK'
<1>1. ASSUME NEW h \in Handlers, StatusAccessStepOf(h) PROVE StatusAccess!TypeOK'
  <2>1. frame' \in [Handlers -> {StatusAccess!Idle} \cup [op : {"link", "subscribe"}]
          \cup [op : {"use", "session"}, link : StatusAccess!Links] \cup [op : {"unsubscribe"}, s : StatusAccess!Subscribers]]
    BY <1>1, StatusAccessFrameStep DEF StatusAccessFrames
  <2>2. CASE StatusAccess!SubscribeCount(h) \/ StatusAccess!Lost(h) \/ (\E l \in StatusAccess!Links : StatusAccess!LinkRead(h, l))
             \/ \E s \in StatusAccess!Subscribers : StatusAccess!UnsubscribeRead(h, s)
    BY <2>1, <2>2, StatusAccessCount DEF StatusAccess!TypeOK, StatusAccess!SubscribeCount, StatusAccess!Lost,
       StatusAccess!LinkRead, StatusAccess!UnsubscribeRead, StatusAccess!accessVars
  <2>3. CASE StatusAccess!LinkRequest(h)
    <3>1. asked' \in 0..LinkLimit
      BY <2>3, AccessConstants DEF StatusAccess!TypeOK, StatusAccess!LinkRequest
    <3>2. QED
      BY <2>1, <2>3, <3>1 DEF StatusAccess!TypeOK, StatusAccess!LinkRequest
  <2>4. CASE StatusAccess!LinkInsert(h) \/ StatusAccess!LinkUse(h)
    <3>1. link' \in [StatusAccess!Links -> {"none", "open", "expired", "used"}]
      BY <2>4, StatusAccessFrameParts DEF StatusAccess!TypeOK, StatusAccess!LinkInsert, StatusAccess!LinkUse,
         StatusAccess!At
    <3>2. QED
      BY <2>1, <2>4, <3>1 DEF StatusAccess!TypeOK, StatusAccess!LinkInsert, StatusAccess!LinkUse
  <2>5. CASE StatusAccess!LinkSession(h)
    <3>1. sessions' \in [StatusAccess!Links -> Nat]
      BY <2>5, StatusAccessFrameParts DEF StatusAccess!TypeOK, StatusAccess!LinkSession, StatusAccess!At
    <3>2. QED
      BY <2>1, <2>5, <3>1 DEF StatusAccess!TypeOK, StatusAccess!LinkSession
  <2>6. CASE StatusAccess!SubscribeInsert(h) \/ StatusAccess!UnsubscribeWrite(h)
    <3>1. subscriber' \in [StatusAccess!Subscribers -> {"none", "waiting", "confirmed", "gone"}]
      BY <2>6, StatusAccessFrameParts DEF StatusAccess!TypeOK, StatusAccess!SubscribeInsert,
         StatusAccess!UnsubscribeWrite, StatusAccess!At
    <3>2. QED
      BY <2>1, <2>6, <3>1 DEF StatusAccess!TypeOK, StatusAccess!SubscribeInsert, StatusAccess!UnsubscribeWrite
  <2>7. QED
    BY <1>1, <2>2, <2>3, <2>4, <2>5, <2>6 DEF StatusAccessStepOf
<1>2. CASE StatusAccess!AccessChanges
  BY <1>2 DEF StatusAccess!AccessChanges, StatusAccess!TypeOK
<1>3. CASE StatusAccess!HourPasses
  <2>1. asked' \in 0..LinkLimit
    BY <1>3, AccessConstants DEF StatusAccess!HourPasses
  <2>2. QED
    BY <1>3, <2>1 DEF StatusAccess!HourPasses, StatusAccess!TypeOK
<1>4. ASSUME NEW l \in StatusAccess!Links, StatusAccess!LinkExpires(l) PROVE StatusAccess!TypeOK'
  BY <1>4 DEF StatusAccess!LinkExpires, StatusAccess!TypeOK
<1>5. ASSUME NEW s \in StatusAccess!Subscribers, StatusAccess!Confirm(s) PROVE StatusAccess!TypeOK'
  BY <1>5 DEF StatusAccess!Confirm, StatusAccess!TypeOK
<1>6. CASE UNCHANGED StatusAccess!vars
  BY <1>6 DEF StatusAccess!vars, StatusAccess!accessVars, StatusAccess!TypeOK
<1>7. QED
  BY <1>1, <1>2, <1>3, <1>4, <1>5, <1>6 DEF StatusAccess!Next, StatusAccessStepOf

(* The requests, links, sessions and subscriptions keep their types, for   *)
(* any number of requests.                                                 *)
THEOREM StatusAccessTypeCorrect == StatusAccess!Spec => []StatusAccess!TypeOK
<1>1. ASSUME StatusAccess!Init PROVE StatusAccess!TypeOK
  <2>1. frame \in [Handlers -> {StatusAccess!Idle}] /\ asked \in 0..LinkLimit /\ sessions \in [StatusAccess!Links -> Nat]
    BY <1>1, AccessConstants DEF StatusAccess!Init, StatusAccess!ServerInit
  <2>2. QED
    BY <1>1, <2>1 DEF StatusAccess!Init, StatusAccess!TypeOK
<1>2. QED
  BY <1>1, StatusAccessTypeStep, PTL DEF StatusAccess!Spec

\* Links.

\* What a step of h does to a link.
LEMMA StatusAccessLinkCases ==
  ASSUME StatusAccess!TypeOK, NEW h \in Handlers, StatusAccessStepOf(h), NEW l \in StatusAccess!Links
  PROVE  \/ /\ link'[l] = link[l] \/ (link[l] # "used" /\ link'[l] # "used")
            /\ sessions'[l] = sessions[l] /\ h \notin StatusAccessUsing(l)'
         \/ /\ link'[l] = link[l] /\ link[l] # "used" /\ sessions'[l] = sessions[l]
            /\ frame'[h].op = "use"
         \/ link'[l] = "used" /\ sessions'[l] = sessions[l] /\ h \in StatusAccessUsing(l)
         \/ /\ link'[l] = link[l] /\ sessions'[l] = sessions[l] + 1
            /\ h \in StatusAccessUsing(l) /\ frame[h].op = "session" /\ h \notin StatusAccessUsing(l)'
<1>0. /\ frame \in [Handlers -> StatusAccessFrames] /\ StatusAccess!Idle.op = "idle" /\ sessions[l] \in Nat
      /\ h \in StatusAccessUsing(l) <=> (frame[h].op \in {"use", "session"} /\ frame[h].link = l)
      /\ h \in StatusAccessUsing(l)' <=> (frame'[h].op \in {"use", "session"} /\ frame'[h].link = l)
  BY DEF StatusAccess!TypeOK, StatusAccessFrames, StatusAccess!Idle, StatusAccessUsing
<1>1. CASE StatusAccess!LinkUse(h)
  <2>1. frame[h].op = "use" /\ frame[h].link \in StatusAccess!Links
    BY <1>1, StatusAccessFrameParts DEF StatusAccess!LinkUse, StatusAccess!At
  <2>2. frame'[h] = [op |-> "session", link |-> frame[h].link]
    BY <1>0, <1>1 DEF StatusAccess!LinkUse, StatusAccess!GoOn
  <2>3. frame'[h].op = "session" /\ frame'[h].link = frame[h].link
    BY <2>2
  <2>4. link' = [link EXCEPT ![frame[h].link] = "used"] /\ sessions' = sessions
    BY <1>1 DEF StatusAccess!LinkUse
  <2>5. CASE frame[h].link = l
    BY <1>0, <2>1, <2>4, <2>5 DEF StatusAccess!TypeOK
  <2>6. CASE frame[h].link # l
    BY <1>0, <2>1, <2>3, <2>4, <2>6 DEF StatusAccess!TypeOK
  <2>7. QED
    BY <2>5, <2>6
<1>2. CASE StatusAccess!LinkSession(h)
  <2>1. frame[h].op = "session" /\ frame[h].link \in StatusAccess!Links
    BY <1>2, StatusAccessFrameParts DEF StatusAccess!LinkSession, StatusAccess!At
  <2>2. frame'[h].op = "idle" /\ link' = link /\ sessions' = [sessions EXCEPT ![frame[h].link] = @ + 1]
    BY <1>0, <1>2 DEF StatusAccess!LinkSession, StatusAccess!Finish, StatusAccess!GoOn
  <2>3. CASE frame[h].link = l
    BY <1>0, <2>1, <2>2, <2>3 DEF StatusAccess!TypeOK
  <2>4. CASE frame[h].link # l
    BY <1>0, <2>1, <2>2, <2>4 DEF StatusAccess!TypeOK
  <2>5. QED
    BY <2>3, <2>4
<1>3. ASSUME NEW k \in StatusAccess!Links, StatusAccess!LinkRead(h, k)
      PROVE  \/ link'[l] = link[l] /\ sessions'[l] = sessions[l] /\ h \notin StatusAccessUsing(l)'
             \/ /\ link'[l] = link[l] /\ link[l] # "used" /\ sessions'[l] = sessions[l]
                /\ frame'[h].op = "use"
  <2>1. frame'[h] = [op |-> "use", link |-> k] /\ link[k] = "open" /\ link' = link /\ sessions' = sessions
    BY <1>0, <1>3 DEF StatusAccess!LinkRead, StatusAccess!Serve, StatusAccess!accessVars
  <2>2. frame'[h].op = "use" /\ frame'[h].link = k
    BY <2>1
  <2>3. QED
    BY <1>0, <2>1, <2>2
<1>4. CASE StatusAccess!LinkInsert(h)
  <2>1. frame'[h].op = "idle" /\ sessions' = sessions
    BY <1>0, <1>4 DEF StatusAccess!LinkInsert, StatusAccess!Finish, StatusAccess!GoOn
  <2>2. link'[l] = link[l] \/ (link[l] = "none" /\ link'[l] = "open")
    BY <1>4 DEF StatusAccess!LinkInsert, StatusAccess!TypeOK
  <2>3. QED
    BY <1>0, <2>1, <2>2
<1>5. CASE StatusAccess!LinkRequest(h) \/ StatusAccess!SubscribeCount(h) \/ StatusAccess!SubscribeInsert(h) \/ StatusAccess!UnsubscribeWrite(h) \/ StatusAccess!Lost(h)
           \/ \E s \in StatusAccess!Subscribers : StatusAccess!UnsubscribeRead(h, s)
  <2>1. link' = link /\ sessions' = sessions
    BY <1>5, StatusAccessCount DEF StatusAccess!LinkRequest, StatusAccess!SubscribeCount,
       StatusAccess!SubscribeInsert, StatusAccess!UnsubscribeWrite, StatusAccess!Lost,
        StatusAccess!UnsubscribeRead, StatusAccess!accessVars
  <2>2. frame'[h].op \notin {"use", "session"}
    BY <1>0, <1>5, StatusAccessCount DEF StatusAccess!LinkRequest, StatusAccess!SubscribeCount,
       StatusAccess!SubscribeInsert, StatusAccess!UnsubscribeWrite, StatusAccess!Lost,
        StatusAccess!UnsubscribeRead,
      StatusAccess!Drop, StatusAccess!Serve, StatusAccess!Finish, StatusAccess!GoOn
  <2>3. QED
    BY <1>0, <2>1, <2>2
<1>6. QED
  BY <1>1, <1>2, <1>3, <1>4, <1>5 DEF StatusAccessStepOf

LEMMA StatusAccessLinkCountStep ==
  ASSUME StatusAccess!TypeOK, NEW h \in Handlers, StatusAccessStepOf(h), NEW l \in StatusAccess!Links, StatusAccessLinkCounted(l)
  PROVE  StatusAccessLinkCounted(l)'
<1> DEFINE C == StatusAccessUsing(l)
           D == StatusAccessUsing(l)'
           n == Cardinality(Handlers)
<1>1. /\ C \in SUBSET Handlers /\ D \in SUBSET Handlers /\ D \ {h} = C \ {h}
      /\ \A g \in D : g # h => g \in C /\ frame'[g] = frame[g]
  BY StatusAccessFrameStep DEF StatusAccessUsing
<1>2. /\ Cardinality(C) \in Nat /\ Cardinality(D) \in Nat /\ n \in Nat
      /\ Cardinality(D) <= n /\ sessions[l] \in Nat
  BY <1>1, SomeCounted, HandlersCounted DEF StatusAccess!TypeOK
<1>3. /\ h \notin D => Cardinality(D) <= Cardinality(C)
      /\ h \in C /\ h \notin D => Cardinality(D) = Cardinality(C) - 1
      /\ (h \in C <=> h \in D) => D = C
  BY <1>1, OneMoves
<1>4. /\ link[l] = "used" => sessions[l] + Cardinality(C) <= n
      /\ link[l] # "used" => sessions[l] = 0 /\ \A g \in C : frame[g].op = "use"
  BY DEF StatusAccessLinkCounted
<1>c. \/ /\ link'[l] = link[l] \/ (link[l] # "used" /\ link'[l] # "used")
         /\ sessions'[l] = sessions[l] /\ h \notin D
      \/ /\ link'[l] = link[l] /\ link[l] # "used" /\ sessions'[l] = sessions[l]
         /\ frame'[h].op = "use"
      \/ link'[l] = "used" /\ sessions'[l] = sessions[l] /\ h \in C
      \/ /\ link'[l] = link[l] /\ sessions'[l] = sessions[l] + 1
         /\ h \in C /\ frame[h].op = "session" /\ h \notin D
  BY StatusAccessLinkCases
<1>5. SUFFICES /\ link'[l] = "used" => sessions'[l] + Cardinality(D) <= n
               /\ link'[l] # "used" => sessions'[l] = 0 /\ \A g \in D : frame'[g].op = "use"
  BY DEF StatusAccessLinkCounted
<1> HIDE DEF C, D, n
<1>6. CASE /\ link'[l] = link[l] \/ (link[l] # "used" /\ link'[l] # "used")
           /\ sessions'[l] = sessions[l] /\ h \notin D
  BY <1>1, <1>2, <1>3, <1>4, <1>6
<1>7. CASE /\ link'[l] = link[l] /\ link[l] # "used" /\ sessions'[l] = sessions[l]
           /\ frame'[h].op = "use"
  BY <1>1, <1>4, <1>7
<1>8. CASE link'[l] = "used" /\ sessions'[l] = sessions[l] /\ h \in C
  <2>1. Cardinality(D) <= Cardinality(C)
    BY <1>2, <1>3, <1>8
  <2>2. QED
    BY <1>2, <1>4, <1>8, <2>1
<1>9. CASE /\ link'[l] = link[l] /\ sessions'[l] = sessions[l] + 1
           /\ h \in C /\ frame[h].op = "session" /\ h \notin D
  BY <1>2, <1>3, <1>4, <1>9
<1>10. QED
  BY <1>c, <1>6, <1>7, <1>8, <1>9

LEMMA StatusAccessLinkStep == ASSUME StatusAccess!TypeOK, StatusAccessLinkInv, [StatusAccess!Next]_(StatusAccess!vars)
                              PROVE  StatusAccessLinkInv'
<1>1. ASSUME NEW h \in Handlers, StatusAccessStepOf(h) PROVE StatusAccessLinkInv'
  BY <1>1, StatusAccessLinkCountStep DEF StatusAccessLinkInv
<1>2. ASSUME NEW l \in StatusAccess!Links, StatusAccess!LinkExpires(l) PROVE StatusAccessLinkInv'
  <2>1. frame' = frame /\ sessions' = sessions
        /\ \A k \in StatusAccess!Links : link'[k] = link[k] \/ (link[k] # "used" /\ link'[k] # "used")
    BY <1>2 DEF StatusAccess!LinkExpires, StatusAccess!TypeOK
  <2>2. \A k \in StatusAccess!Links : StatusAccessUsing(k)' = StatusAccessUsing(k)
    BY <2>1 DEF StatusAccessUsing
  <2>3. QED
    BY <2>1, <2>2 DEF StatusAccessLinkInv, StatusAccessLinkCounted
<1>3. CASE StatusAccess!AccessChanges \/ StatusAccess!HourPasses \/ (\E s \in StatusAccess!Subscribers : StatusAccess!Confirm(s)) \/ UNCHANGED StatusAccess!vars
  BY <1>3 DEF StatusAccess!AccessChanges, StatusAccess!HourPasses, StatusAccess!Confirm, StatusAccess!vars,
     StatusAccess!accessVars, StatusAccessLinkInv, StatusAccessLinkCounted, StatusAccessUsing
<1>4. QED
  BY <1>1, <1>2, <1>3 DEF StatusAccess!Next, StatusAccessStepOf

\* Subscribers.

LEMMA StatusAccessSubscribedCounted ==
  /\ IsFiniteSet(StatusAccess!Subscribed) /\ Cardinality(StatusAccess!Subscribed) \in Nat
  /\ IsFiniteSet(StatusAccess!Subscribed') /\ Cardinality(StatusAccess!Subscribed') \in Nat
<1>1. IsFiniteSet(StatusAccess!Subscribers)
  BY AccessConstants, FS_Interval DEF StatusAccess!Subscribers
<1>2. StatusAccess!Subscribed \subseteq StatusAccess!Subscribers /\ StatusAccess!Subscribed' \subseteq StatusAccess!Subscribers
  BY DEF StatusAccess!Subscribed
<1>3. QED
  BY <1>1, <1>2, FS_Subset, FS_CardinalityType

\* What a step of h does to the subscriptions.
LEMMA StatusAccessSubscriberCases ==
  ASSUME StatusAccess!TypeOK, NEW h \in Handlers, StatusAccessStepOf(h)
  PROVE  \/ /\ Cardinality(StatusAccess!Subscribed) < SubscriberLimit /\ StatusAccess!Subscribed' = StatusAccess!Subscribed
         \/ /\ StatusAccess!Subscribed' \subseteq StatusAccess!Subscribed /\ h \notin StatusAccess!Serving("subscribe")'
         \/ /\ h \in StatusAccess!Serving("subscribe") /\ h \notin StatusAccess!Serving("subscribe")'
            /\ \E s \in StatusAccess!Subscribers \ StatusAccess!Subscribed : StatusAccess!Subscribed' = StatusAccess!Subscribed \cup {s}
<1>0. /\ frame \in [Handlers -> StatusAccessFrames] /\ StatusAccess!Idle.op = "idle"
      /\ h \in StatusAccess!Serving("subscribe") <=> frame[h].op = "subscribe"
      /\ h \in StatusAccess!Serving("subscribe")' <=> frame'[h].op = "subscribe"
  BY DEF StatusAccess!TypeOK, StatusAccessFrames, StatusAccess!Idle, StatusAccess!Serving, StatusAccess!At
<1>1. CASE StatusAccess!SubscribeCount(h)
  BY <1>1, StatusAccessCount DEF StatusAccess!SubscribeCount, StatusAccess!accessVars, StatusAccess!Subscribed
<1>2. CASE StatusAccess!SubscribeInsert(h)
  <2>1. frame[h].op = "subscribe" /\ frame'[h].op = "idle"
    BY <1>0, <1>2 DEF StatusAccess!SubscribeInsert, StatusAccess!At, StatusAccess!Finish, StatusAccess!GoOn
  <2>2. PICK s \in StatusAccess!Subscribers, state \in {"waiting", "confirmed"} :
          subscriber[s] = "none" /\ subscriber' = [subscriber EXCEPT ![s] = state]
    BY <1>2 DEF StatusAccess!SubscribeInsert
  <2>3. s \notin StatusAccess!Subscribed /\ StatusAccess!Subscribed' = StatusAccess!Subscribed \cup {s}
    BY <2>2 DEF StatusAccess!Subscribed, StatusAccess!TypeOK
  <2>4. QED
    BY <1>0, <2>1, <2>3
<1>3. CASE StatusAccess!UnsubscribeWrite(h)
  <2>1. frame[h].s \in StatusAccess!Subscribers /\ subscriber' = [subscriber EXCEPT ![frame[h].s] = "gone"]
    BY <1>3, StatusAccessFrameParts DEF StatusAccess!UnsubscribeWrite, StatusAccess!At
  <2>2. StatusAccess!Subscribed' \subseteq StatusAccess!Subscribed
    BY <2>1 DEF StatusAccess!Subscribed, StatusAccess!TypeOK
  <2>3. frame'[h].op = "idle"
    BY <1>0, <1>3 DEF StatusAccess!UnsubscribeWrite, StatusAccess!Finish, StatusAccess!GoOn
  <2>4. QED
    BY <1>0, <2>2, <2>3
<1>4. CASE StatusAccess!LinkRequest(h) \/ StatusAccess!LinkInsert(h) \/ StatusAccess!LinkUse(h) \/ StatusAccess!LinkSession(h) \/ StatusAccess!Lost(h)
           \/ (\E l \in StatusAccess!Links : StatusAccess!LinkRead(h, l)) \/ \E s \in StatusAccess!Subscribers : StatusAccess!UnsubscribeRead(h, s)
  <2>1. subscriber' = subscriber
    BY <1>4 DEF StatusAccess!LinkRequest, StatusAccess!LinkInsert, StatusAccess!LinkUse,
       StatusAccess!LinkSession, StatusAccess!Lost, StatusAccess!LinkRead, StatusAccess!UnsubscribeRead,
        StatusAccess!accessVars
  <2>2. frame'[h].op # "subscribe"
    BY <1>0, <1>4 DEF StatusAccess!LinkRequest, StatusAccess!LinkInsert, StatusAccess!LinkUse,
       StatusAccess!LinkSession, StatusAccess!Lost, StatusAccess!LinkRead, StatusAccess!UnsubscribeRead,
      StatusAccess!Drop, StatusAccess!Serve, StatusAccess!Finish, StatusAccess!GoOn
  <2>3. QED
    BY <1>0, <2>1, <2>2 DEF StatusAccess!Subscribed
<1>5. QED
  BY <1>1, <1>2, <1>3, <1>4 DEF StatusAccessStepOf

LEMMA StatusAccessSubscriberStep == ASSUME StatusAccess!TypeOK, StatusAccessSubscriberInv, [StatusAccess!Next]_(StatusAccess!vars)
                                    PROVE  StatusAccessSubscriberInv'
<1>1. ASSUME NEW h \in Handlers, StatusAccessStepOf(h) PROVE StatusAccessSubscriberInv'
  <2> DEFINE C == StatusAccess!Serving("subscribe")
             D == StatusAccess!Serving("subscribe")'
             S == Cardinality(StatusAccess!Subscribed)
             S1 == Cardinality(StatusAccess!Subscribed')
             n == Cardinality(Handlers)
  <2>1. C \in SUBSET Handlers /\ D \in SUBSET Handlers /\ D \ {h} = C \ {h}
    BY <1>1, StatusAccessFrameStep DEF StatusAccess!Serving, StatusAccess!At
  <2>2. /\ Cardinality(C) \in Nat /\ Cardinality(D) \in Nat /\ Cardinality(D) <= n
        /\ n \in Nat /\ S \in Nat /\ S1 \in Nat
    BY <2>1, SomeCounted, HandlersCounted, StatusAccessSubscribedCounted
  <2>3. /\ h \notin D => Cardinality(D) <= Cardinality(C)
        /\ h \in C /\ h \notin D => Cardinality(D) = Cardinality(C) - 1
    BY <2>1, OneMoves
  <2>4. S + Cardinality(C) < SubscriberLimit + n
    BY DEF StatusAccessSubscriberInv
  <2>5. /\ StatusAccess!Subscribed' \subseteq StatusAccess!Subscribed => S1 <= S
        /\ StatusAccess!Subscribed' = StatusAccess!Subscribed => S1 = S
        /\ (\E s \in StatusAccess!Subscribers \ StatusAccess!Subscribed : StatusAccess!Subscribed' = StatusAccess!Subscribed \cup {s}) => S1 = S + 1
    BY StatusAccessSubscribedCounted, FS_Subset, FS_AddElement
  <2>6. \/ S < SubscriberLimit /\ S1 = S
        \/ S1 <= S /\ h \notin D
        \/ S1 = S + 1 /\ h \in C /\ h \notin D
    BY <1>1, <2>5, StatusAccessSubscriberCases
  <2>7. S1 + Cardinality(D) < SubscriberLimit + n
    <3> HIDE DEF C, D, S, S1, n
    <3>1. QED
      BY <2>2, <2>3, <2>4, <2>6, AccessConstants
  <2>8. QED
    BY <2>7 DEF StatusAccessSubscriberInv
<1>2. ASSUME NEW s \in StatusAccess!Subscribers, StatusAccess!Confirm(s) PROVE StatusAccessSubscriberInv'
  <2>1. StatusAccess!Subscribed' = StatusAccess!Subscribed /\ StatusAccess!Serving("subscribe")' = StatusAccess!Serving("subscribe")
    BY <1>2 DEF StatusAccess!Confirm, StatusAccess!Subscribed, StatusAccess!Serving, StatusAccess!At,
       StatusAccess!TypeOK
  <2>2. QED
    BY <2>1 DEF StatusAccessSubscriberInv
<1>3. CASE StatusAccess!AccessChanges \/ StatusAccess!HourPasses \/ (\E l \in StatusAccess!Links : StatusAccess!LinkExpires(l)) \/ UNCHANGED StatusAccess!vars
  BY <1>3 DEF StatusAccess!AccessChanges, StatusAccess!HourPasses, StatusAccess!LinkExpires,
     StatusAccess!vars, StatusAccess!accessVars, StatusAccessSubscriberInv, StatusAccess!Subscribed,
      StatusAccess!Serving, StatusAccess!At
<1>4. QED
  BY <1>1, <1>2, <1>3 DEF StatusAccess!Next, StatusAccessStepOf

\* The properties.

(* A sign-in link starts no more sessions than there are handlers: whoever *)
(* starts one had found it open (verifyMagicLink).                         *)
THEOREM StatusAccessLinksOnce == StatusAccess!Spec => []StatusAccess!LinksStartOnce
<1>1. StatusAccess!Init => StatusAccessLinkInv
  BY DEF StatusAccess!Init, StatusAccess!ServerInit, StatusAccessLinkInv, StatusAccessLinkCounted,
     StatusAccessUsing, StatusAccess!Idle
<1>2. ASSUME StatusAccess!TypeOK, StatusAccessLinkInv PROVE StatusAccess!LinksStartOnce
  <2>1. \A l \in StatusAccess!Links : Cardinality(StatusAccessUsing(l)) \in Nat /\ sessions[l] \in Nat
    BY <1>2, SomeCounted DEF StatusAccessUsing, StatusAccess!TypeOK
  <2>2. QED
    BY <1>2, <2>1, HandlersCounted, StatusAccessCount DEF StatusAccessLinkInv, StatusAccessLinkCounted,
       StatusAccess!LinksStartOnce
<1>3. QED
  BY <1>1, <1>2, StatusAccessLinkStep, StatusAccessTypeCorrect, PTL DEF StatusAccess!Spec

(* Subscriptions exceed the limit by fewer than the requests that counted  *)
(* them at the same time (subscribeForOrg).                                *)
THEOREM StatusAccessSubscribersBounded == StatusAccess!Spec => []StatusAccess!SubscriberOvershoot
<1>1. ASSUME StatusAccess!Init PROVE StatusAccessSubscriberInv
  <2>1. StatusAccess!Subscribed = {} /\ StatusAccess!Serving("subscribe") = {}
    BY <1>1 DEF StatusAccess!Init, StatusAccess!ServerInit, StatusAccess!Subscribed, StatusAccess!Serving,
       StatusAccess!At, StatusAccess!Idle
  <2>2. QED
    BY <2>1, FS_EmptySet, HandlersCounted, AccessConstants DEF StatusAccessSubscriberInv
<1>2. StatusAccessSubscriberInv => StatusAccess!SubscriberOvershoot
  <2>1. Cardinality(StatusAccess!Serving("subscribe")) \in Nat
    BY SomeCounted DEF StatusAccess!Serving
  <2>2. QED
    BY <2>1, HandlersCounted, StatusAccessSubscribedCounted, AccessConstants,
       StatusAccessCount DEF StatusAccessSubscriberInv, StatusAccess!SubscriberOvershoot
<1>3. QED
  BY <1>1, <1>2, StatusAccessSubscriberStep, StatusAccessTypeCorrect, PTL DEF StatusAccess!Spec

-----------------------------------------------------------------------------
(* Incidents.                                                              *)

\* Sets are counted as everywhere.
LEMMA IncidentsCount ==
  \A S : Incidents!IsFiniteSet(S) = IsFiniteSet(S) /\ Incidents!Cardinality(S) = Cardinality(S)
BY DEF Incidents!IsFiniteSet, IsFiniteSet, Incidents!Cardinality, Cardinality

IncidentsFrames == {Incidents!Idle} \cup Incidents!Requests

\* A step of the request h.
IncidentsStepOf(h) ==
  \/ \E op \in {"acknowledge", "resolve", "postmortem", "unpublish"} : Incidents!IncidentRead(h, op)
  \/ \E op \in {"publish", "update"} : Incidents!PostRead(h, op)
  \/ Incidents!AcknowledgeWrite(h) \/ Incidents!ResolveWrite(h) \/ Incidents!PostmortemWrite(h) \/ Incidents!PostmortemStatus(h)
  \/ Incidents!UnpublishWrite(h) \/ Incidents!PublishWrite(h) \/ Incidents!UpdateWrite(h)
  \/ Incidents!NotifyLookUp(h) \/ Incidents!Send(h) \/ Incidents!Log(h) \/ Incidents!Lost(h)

\* The requests that will send a notice, or log one, and those of one type.
IncidentsTelling == Incidents!Serving("notify") \cup Incidents!Serving("send")
IncidentsAtNotice(op, t) == {h \in Handlers : frame[h].op = op /\ frame[h].type = t}

\* A request that posts alone has seen the updates as they are.
IncidentsUpdateInv ==
  ~overlapped =>
    /\ updates = posted
    /\ \A g, h \in Incidents!Posting : g = h
    /\ \A h \in Incidents!Posting : frame[h].seen = updates

\* Each notice that has no log row has its request still at it, or was cut off; once the row is
\* there, no request comes to send another.
IncidentsNoticeCounted(t) ==
  /\ t \notin noticeLog => notices[t] <= Cardinality(IncidentsAtNotice("log", t)) + cuts[t]
  /\ t \in noticeLog => notices[t] + Cardinality(IncidentsAtNotice("send", t)) <= Cardinality(Handlers) + cuts[t]
IncidentsNoticeInv == \A t \in Incidents!NoticeTypes : IncidentsNoticeCounted(t)

\* No request begins to tell about an incident that is not public.
IncidentsLateInv ==
  /\ late < Cardinality(Handlers)
  /\ ~public => late + Cardinality(IncidentsTelling) < Cardinality(Handlers)

\* Types.

LEMMA IncidentsParts ==
  ASSUME Incidents!TypeOK
  PROVE  /\ public \in BOOLEAN /\ late \in Nat /\ overlapped \in BOOLEAN
         /\ updates \subseteq Incidents!Updates /\ posted \subseteq Incidents!Updates /\ noticeLog \subseteq Incidents!NoticeTypes
         /\ notices \in [Incidents!NoticeTypes -> Nat] /\ cuts \in [Incidents!NoticeTypes -> Nat]
BY DEF Incidents!TypeOK

LEMMA IncidentsFrameParts ==
  ASSUME Incidents!TypeOK, NEW h \in Handlers
  PROVE  /\ frame[h].op \in {"idle", "acknowledge", "resolve", "postmortem", "close", "unpublish",
                             "publish", "update", "notify", "send", "log"}
         /\ frame[h].op \in {"publish", "update"} => frame[h].seen \subseteq Incidents!Updates
         /\ frame[h].op \in {"notify", "send", "log"} =>
              /\ frame[h].type \in Incidents!NoticeTypes
              /\ \A o : [frame[h] EXCEPT !.op = o] = [op |-> o, type |-> frame[h].type]
<1>1. \/ frame[h] = Incidents!Idle
      \/ frame[h] \in [op : {"acknowledge", "resolve", "postmortem", "close", "unpublish"}]
      \/ frame[h] \in [op : {"publish", "update"}, seen : SUBSET Incidents!Updates]
      \/ frame[h] \in [op : {"notify", "send", "log"}, type : Incidents!NoticeTypes]
  BY DEF Incidents!TypeOK, Incidents!Requests
<1>2. CASE frame[h] = Incidents!Idle \/ frame[h] \in [op : {"acknowledge", "resolve", "postmortem", "close", "unpublish"}]
  BY <1>2 DEF Incidents!Idle
<1>3. CASE frame[h] \in [op : {"publish", "update"}, seen : SUBSET Incidents!Updates]
  BY <1>3
<1>4. CASE frame[h] \in [op : {"notify", "send", "log"}, type : Incidents!NoticeTypes]
  BY <1>4
<1>5. QED
  BY <1>1, <1>2, <1>3, <1>4

\* Where a request goes on, and what it keeps.
LEMMA IncidentsFrameStep ==
  ASSUME Incidents!TypeOK, NEW h \in Handlers, IncidentsStepOf(h)
  PROVE  /\ frame' \in [Handlers -> IncidentsFrames]
         /\ \A g \in Handlers \ {h} : frame'[g] = frame[g]
<1>1. ASSUME NEW f \in IncidentsFrames, Incidents!GoOn(h, f)
      PROVE  /\ frame' \in [Handlers -> IncidentsFrames]
             /\ \A g \in Handlers \ {h} : frame'[g] = frame[g]
  BY <1>1 DEF Incidents!GoOn, Incidents!TypeOK, IncidentsFrames
<1>2. /\ Incidents!Idle \in IncidentsFrames
      /\ \A op \in {"acknowledge", "resolve", "postmortem", "close", "unpublish"} : [op |-> op] \in IncidentsFrames
      /\ \A op \in {"publish", "update"} : updates \subseteq Incidents!Updates => [op |-> op, seen |-> updates] \in IncidentsFrames
      /\ \A op \in {"notify", "send", "log"}, t \in Incidents!NoticeTypes : [op |-> op, type |-> t] \in IncidentsFrames
  BY DEF IncidentsFrames, Incidents!Requests
<1>3. CASE \/ \E op \in {"acknowledge", "resolve", "postmortem", "unpublish"} : Incidents!IncidentRead(h, op)
           \/ \E op \in {"publish", "update"} : Incidents!PostRead(h, op)
  BY <1>1, <1>2, <1>3 DEF Incidents!TypeOK, Incidents!IncidentRead, Incidents!PostRead, Incidents!Serve,
     Incidents!GoOn
<1>4. CASE Incidents!AcknowledgeWrite(h) \/ Incidents!ResolveWrite(h) \/ Incidents!PostmortemWrite(h) \/ Incidents!PostmortemStatus(h)
           \/ Incidents!UnpublishWrite(h) \/ Incidents!PublishWrite(h) \/ Incidents!UpdateWrite(h) \/ Incidents!Log(h) \/ Incidents!Lost(h)
  BY <1>1, <1>2, <1>4 DEF Incidents!AcknowledgeWrite, Incidents!ResolveWrite, Incidents!PostmortemWrite,
     Incidents!PostmortemStatus, Incidents!UnpublishWrite,
    Incidents!PublishWrite, Incidents!UpdateWrite, Incidents!Log, Incidents!Lost, Incidents!Drop, Incidents!Finish, Incidents!NoticeTypes
<1>5. CASE Incidents!NotifyLookUp(h) \/ Incidents!Send(h)
  <2>1. \A o : [frame[h] EXCEPT !.op = o] = [op |-> o, type |-> frame[h].type]
    BY <1>5, IncidentsFrameParts DEF Incidents!NotifyLookUp, Incidents!Send, Incidents!At
  <2>2. frame[h].type \in Incidents!NoticeTypes
    BY <1>5, IncidentsFrameParts DEF Incidents!NotifyLookUp, Incidents!Send, Incidents!At
  <2>3. \E f \in IncidentsFrames : Incidents!GoOn(h, f)
    BY <1>2, <1>5, <2>1, <2>2 DEF Incidents!NotifyLookUp, Incidents!Send, Incidents!Finish
  <2>4. QED
    BY <1>1, <2>3
<1>6. QED
  BY <1>3, <1>4, <1>5 DEF IncidentsStepOf

LEMMA IncidentsTypeStep == ASSUME Incidents!TypeOK, [Incidents!Next]_(Incidents!vars) PROVE Incidents!TypeOK'
<1>1. ASSUME NEW h \in Handlers, IncidentsStepOf(h) PROVE Incidents!TypeOK'
  <2>1. frame' \in [Handlers -> {Incidents!Idle} \cup Incidents!Requests]
    BY <1>1, IncidentsFrameStep DEF IncidentsFrames
  <2>2. CASE \/ \E op \in {"acknowledge", "resolve", "postmortem", "unpublish"} : Incidents!IncidentRead(h, op)
             \/ \E op \in {"publish", "update"} : Incidents!PostRead(h, op)
             \/ Incidents!PostmortemWrite(h) \/ Incidents!NotifyLookUp(h)
    BY <2>1, <2>2 DEF Incidents!TypeOK, Incidents!IncidentRead, Incidents!PostRead,
       Incidents!PostmortemWrite, Incidents!NotifyLookUp, Incidents!incidentVars, Incidents!noticeVars
  <2>3. CASE Incidents!AcknowledgeWrite(h) \/ Incidents!ResolveWrite(h) \/ Incidents!PostmortemStatus(h) \/ Incidents!UnpublishWrite(h)
    <3>1. /\ status' \in {"none", "OPEN", "ACKNOWLEDGED", "RESOLVED", "POSTMORTEM"}
          /\ dates' \subseteq {"acknowledgedAt", "resolvedAt"}
      BY <2>3 DEF Incidents!TypeOK, Incidents!AcknowledgeWrite, Incidents!ResolveWrite,
         Incidents!PostmortemStatus, Incidents!UnpublishWrite
    <3>2. /\ public' \in {public, FALSE} /\ late' \in {late, 0}
          /\ UNCHANGED <<updates, posted, overlapped, notices, noticeLog, cuts>>
      BY <2>3 DEF Incidents!AcknowledgeWrite, Incidents!ResolveWrite, Incidents!PostmortemStatus,
         Incidents!UnpublishWrite, Incidents!noticeVars
    <3>b. public' \in BOOLEAN
      BY <3>2, IncidentsParts
    <3>3. /\ late' \in Nat /\ updates' \subseteq Incidents!Updates /\ posted' \subseteq Incidents!Updates
          /\ overlapped' \in BOOLEAN /\ notices' \in [Incidents!NoticeTypes -> Nat] /\ noticeLog' \subseteq Incidents!NoticeTypes
          /\ cuts' \in [Incidents!NoticeTypes -> Nat]
      BY <3>2, IncidentsParts
    <3>4. QED
      BY <2>1, <3>1, <3>b, <3>3 DEF Incidents!TypeOK
  <2>4. CASE Incidents!PublishWrite(h) \/ Incidents!UpdateWrite(h)
    <3>1. frame[h].seen \subseteq Incidents!Updates
      BY <2>4, IncidentsFrameParts DEF Incidents!PublishWrite, Incidents!UpdateWrite, Incidents!At
    <3>2. updates' \subseteq Incidents!Updates /\ posted' \subseteq Incidents!Updates
      BY <2>4, <3>1 DEF Incidents!TypeOK, Incidents!PublishWrite, Incidents!UpdateWrite, Incidents!AddTo,
         Incidents!NextUpdate
    <3>3. QED
      BY <2>1, <2>4, <3>2 DEF Incidents!TypeOK, Incidents!PublishWrite, Incidents!UpdateWrite,
         Incidents!noticeVars
  <2>5. CASE Incidents!Send(h)
    <3>1. notices' \in [Incidents!NoticeTypes -> Nat] /\ late' \in Nat
      BY <2>5 DEF Incidents!TypeOK, Incidents!Send
    <3>2. QED
      BY <2>1, <2>5, <3>1 DEF Incidents!TypeOK, Incidents!Send, Incidents!rowVars
  <2>6. CASE Incidents!Log(h) \/ Incidents!Lost(h)
    <3>1. Incidents!At(h, "log") => frame[h].type \in Incidents!NoticeTypes
      BY IncidentsFrameParts DEF Incidents!At
    <3>2. cuts' \in [Incidents!NoticeTypes -> Nat] /\ noticeLog' \subseteq Incidents!NoticeTypes
      BY <2>6, <3>1 DEF Incidents!TypeOK, Incidents!Log, Incidents!Lost
    <3>3. QED
      BY <2>1, <2>6, <3>2 DEF Incidents!TypeOK, Incidents!Log, Incidents!Lost, Incidents!rowVars
  <2>7. QED
    BY <1>1, <2>2, <2>3, <2>4, <2>5, <2>6 DEF IncidentsStepOf
<1>2. CASE Incidents!Raise
  BY <1>2 DEF Incidents!Raise, Incidents!TypeOK, Incidents!noticeVars
<1>3. CASE UNCHANGED Incidents!vars
  BY <1>3 DEF Incidents!vars, Incidents!incidentVars, Incidents!TypeOK
<1>4. QED
  BY <1>1, <1>2, <1>3 DEF Incidents!Next, IncidentsStepOf

(* The requests and the incident, its dates, updates and notices keep      *)
(* their types, for any number of requests.                                *)
THEOREM IncidentsTypeCorrect == Incidents!Spec => []Incidents!TypeOK
<1>1. ASSUME Incidents!Init PROVE Incidents!TypeOK
  <2>1. frame \in [Handlers -> {Incidents!Idle} \cup Incidents!Requests]
    BY <1>1 DEF Incidents!Init, Incidents!ServerInit
  <2>2. notices \in [Incidents!NoticeTypes -> Nat] /\ cuts \in [Incidents!NoticeTypes -> Nat] /\ late \in Nat
    BY <1>1 DEF Incidents!Init
  <2>3. QED
    BY <1>1, <2>1, <2>2 DEF Incidents!Init, Incidents!TypeOK
<1>2. QED
  BY <1>1, IncidentsTypeStep, PTL DEF Incidents!Spec

\* Updates.

LEMMA IncidentsUpdateStep == ASSUME Incidents!TypeOK, IncidentsUpdateInv, [Incidents!Next]_(Incidents!vars)
                             PROVE  IncidentsUpdateInv'
<1>0. frame \in [Handlers -> IncidentsFrames] /\ Incidents!Idle.op = "idle"
  BY DEF Incidents!TypeOK, IncidentsFrames, Incidents!Idle
<1>1. ASSUME NEW h \in Handlers, IncidentsStepOf(h) PROVE IncidentsUpdateInv'
  <2> SUFFICES ASSUME ~overlapped'
               PROVE  /\ updates' = posted'
                      /\ \A f, g \in Incidents!Posting' : f = g
                      /\ \A g \in Incidents!Posting' : frame'[g].seen = updates'
    BY DEF IncidentsUpdateInv
  <2>1. /\ Incidents!Posting \subseteq Handlers /\ Incidents!Posting' \subseteq Handlers
        /\ \A g \in Handlers \ {h} : frame'[g] = frame[g] /\ (g \in Incidents!Posting' <=> g \in Incidents!Posting)
        /\ h \in Incidents!Posting <=> frame[h].op \in {"publish", "update"}
        /\ h \in Incidents!Posting' <=> frame'[h].op \in {"publish", "update"}
    BY <1>1, IncidentsFrameStep DEF Incidents!Posting, Incidents!Serving, Incidents!At
  <2>2. CASE \E op \in {"publish", "update"} : Incidents!PostRead(h, op)
    <3>1. PICK op \in {"publish", "update"} : Incidents!PostRead(h, op)
      BY <2>2
    <3>2. ~overlapped /\ Incidents!Posting = {} /\ updates' = updates /\ posted' = posted
      BY <3>1 DEF Incidents!PostRead
    <3>3. frame'[h] = [op |-> op, seen |-> updates]
      BY <1>0, <3>1 DEF Incidents!PostRead, Incidents!Serve
    <3>4. frame'[h].seen = updates'
      BY <3>2, <3>3
    <3>5. Incidents!Posting' \subseteq {h}
      BY <2>1, <3>2
    <3>6. QED
      BY <3>2, <3>4, <3>5 DEF IncidentsUpdateInv
  <2>3. CASE Incidents!PublishWrite(h) \/ Incidents!UpdateWrite(h)
    <3>1. ~overlapped /\ h \in Incidents!Posting
      BY <2>1, <2>3 DEF Incidents!PublishWrite, Incidents!UpdateWrite, Incidents!At
    <3>2. Incidents!Posting = {h} /\ frame[h].seen = updates /\ updates = posted
      BY <3>1 DEF IncidentsUpdateInv
    <3>3. updates' = posted'
      BY <2>3, <3>2 DEF Incidents!PublishWrite, Incidents!UpdateWrite, Incidents!AddTo
    <3>4. frame'[h].op \notin {"publish", "update"}
      BY <1>0, <2>3 DEF Incidents!PublishWrite, Incidents!UpdateWrite, Incidents!GoOn, Incidents!Finish
    <3>5. Incidents!Posting' = {}
      BY <2>1, <3>2, <3>4
    <3>6. QED
      BY <3>3, <3>5
  <2>4. CASE \/ \E op \in {"acknowledge", "resolve", "postmortem", "unpublish"} : Incidents!IncidentRead(h, op)
             \/ Incidents!AcknowledgeWrite(h) \/ Incidents!ResolveWrite(h) \/ Incidents!PostmortemWrite(h) \/ Incidents!PostmortemStatus(h)
             \/ Incidents!UnpublishWrite(h) \/ Incidents!NotifyLookUp(h) \/ Incidents!Send(h) \/ Incidents!Log(h) \/ Incidents!Lost(h)
    <3>1. UNCHANGED <<updates, posted, overlapped>>
      BY <2>4 DEF Incidents!IncidentRead, Incidents!AcknowledgeWrite, Incidents!ResolveWrite,
         Incidents!PostmortemWrite, Incidents!PostmortemStatus, Incidents!UnpublishWrite,
        Incidents!NotifyLookUp, Incidents!Send, Incidents!Log, Incidents!Lost, Incidents!incidentVars, Incidents!rowVars
    <3>2. frame'[h].op \notin {"publish", "update"}
      <4>1. \E f : /\ f = Incidents!Idle \/ f.op \in {"acknowledge", "resolve", "postmortem", "unpublish", "close", "notify", "send", "log"}
                   /\ Incidents!GoOn(h, f)
        <5>1. CASE Incidents!NotifyLookUp(h) \/ Incidents!Send(h)
          <6>1. \A o : [frame[h] EXCEPT !.op = o] = [op |-> o, type |-> frame[h].type]
            BY <5>1, IncidentsFrameParts DEF Incidents!NotifyLookUp, Incidents!Send, Incidents!At
          <6>2. QED
            BY <5>1, <6>1 DEF Incidents!NotifyLookUp, Incidents!Send, Incidents!Finish
        <5>2. CASE ~(Incidents!NotifyLookUp(h) \/ Incidents!Send(h))
          BY <2>4, <5>2 DEF Incidents!IncidentRead, Incidents!AcknowledgeWrite, Incidents!ResolveWrite,
             Incidents!PostmortemWrite, Incidents!PostmortemStatus,
            Incidents!UnpublishWrite, Incidents!Log, Incidents!Lost, Incidents!Drop, Incidents!Serve, Incidents!GoOn, Incidents!Finish
        <5>3. QED
          BY <5>1, <5>2
      <4>2. QED
        BY <1>0, <4>1 DEF Incidents!GoOn
    <3>3. Incidents!Posting' \subseteq Incidents!Posting /\ \A g \in Incidents!Posting' : frame'[g] = frame[g]
      BY <2>1, <3>2
    <3>4. QED
      BY <3>1, <3>3 DEF IncidentsUpdateInv
  <2>5. QED
    BY <1>1, <2>2, <2>3, <2>4 DEF IncidentsStepOf
<1>2. CASE Incidents!Raise \/ UNCHANGED Incidents!vars
  BY <1>2 DEF Incidents!Raise, Incidents!vars, Incidents!incidentVars, IncidentsUpdateInv, Incidents!Posting,
     Incidents!Serving, Incidents!At
<1>3. QED
  BY <1>1, <1>2 DEF Incidents!Next, IncidentsStepOf

\* Notices.

\* What a step of h does to the notices.
LEMMA IncidentsNoticeCases ==
  ASSUME Incidents!TypeOK, NEW h \in Handlers, IncidentsStepOf(h)
  PROVE  \/ /\ UNCHANGED <<notices, noticeLog, cuts>>
            /\ frame[h].op # "log" /\ frame'[h].op # "log"
            /\ frame'[h].op = "send" => frame'[h].type \notin noticeLog
         \/ /\ UNCHANGED <<noticeLog, cuts>>
            /\ frame[h].op = "send" /\ frame[h].type \in Incidents!NoticeTypes
            /\ frame'[h].op = "log" /\ frame'[h].type = frame[h].type
            /\ notices' = [notices EXCEPT ![frame[h].type] = @ + 1]
         \/ /\ UNCHANGED <<notices, cuts>>
            /\ frame[h].op = "log" /\ frame'[h].op = "idle"
            /\ noticeLog' = noticeLog \cup {frame[h].type}
         \/ /\ UNCHANGED <<notices, noticeLog>>
            /\ frame[h].op = "log" /\ frame'[h].op = "idle" /\ frame[h].type \in Incidents!NoticeTypes
            /\ cuts' = [cuts EXCEPT ![frame[h].type] = @ + 1]
<1>0. frame \in [Handlers -> IncidentsFrames] /\ Incidents!Idle.op = "idle"
  BY DEF Incidents!TypeOK, IncidentsFrames, Incidents!Idle
<1>1. CASE \/ \E op \in {"acknowledge", "resolve", "postmortem", "unpublish"} : Incidents!IncidentRead(h, op)
           \/ Incidents!AcknowledgeWrite(h) \/ Incidents!ResolveWrite(h) \/ Incidents!PostmortemWrite(h) \/ Incidents!PostmortemStatus(h)
           \/ Incidents!UnpublishWrite(h) \/ Incidents!PublishWrite(h) \/ Incidents!UpdateWrite(h)
           \/ \E op \in {"publish", "update"} : Incidents!PostRead(h, op)
  <2>1. UNCHANGED <<notices, noticeLog, cuts>> /\ frame[h].op # "log"
    BY <1>0, <1>1 DEF Incidents!IncidentRead, Incidents!AcknowledgeWrite, Incidents!ResolveWrite,
       Incidents!PostmortemWrite, Incidents!PostmortemStatus, Incidents!UnpublishWrite,
      Incidents!PublishWrite, Incidents!UpdateWrite, Incidents!PostRead, Incidents!At, Incidents!Serve, Incidents!incidentVars, Incidents!noticeVars
  <2>2. frame'[h].op \notin {"log", "send"}
    BY <1>0, <1>1 DEF Incidents!IncidentRead, Incidents!AcknowledgeWrite, Incidents!ResolveWrite,
       Incidents!PostmortemWrite, Incidents!PostmortemStatus, Incidents!UnpublishWrite,
      Incidents!PublishWrite, Incidents!UpdateWrite, Incidents!PostRead, Incidents!Serve, Incidents!GoOn, Incidents!Finish
  <2>3. QED
    BY <2>1, <2>2
<1>2. CASE Incidents!NotifyLookUp(h)
  <2>1. frame[h].op = "notify" /\ [frame[h] EXCEPT !.op = "send"] = [op |-> "send", type |-> frame[h].type]
    BY <1>2, IncidentsFrameParts DEF Incidents!NotifyLookUp, Incidents!At
  <2>2. \/ frame[h].type \notin noticeLog /\ frame'[h] = [op |-> "send", type |-> frame[h].type]
        \/ frame'[h] = Incidents!Idle
    BY <1>0, <1>2, <2>1 DEF Incidents!NotifyLookUp, Incidents!GoOn, Incidents!Finish
  <2>3. \/ frame[h].type \notin noticeLog /\ frame'[h].op = "send" /\ frame'[h].type = frame[h].type
        \/ frame'[h].op = "idle"
    BY <1>0, <2>2
  <2>4. QED
    BY <1>2, <2>1, <2>3 DEF Incidents!NotifyLookUp, Incidents!incidentVars
<1>3. CASE Incidents!Send(h)
  <2>1. /\ frame[h].op = "send" /\ frame[h].type \in Incidents!NoticeTypes
        /\ [frame[h] EXCEPT !.op = "log"] = [op |-> "log", type |-> frame[h].type]
    BY <1>3, IncidentsFrameParts DEF Incidents!Send, Incidents!At
  <2>2. \/ /\ frame'[h] = [op |-> "log", type |-> frame[h].type]
           /\ notices' = [notices EXCEPT ![frame[h].type] = @ + 1]
        \/ frame'[h] = Incidents!Idle /\ notices' = notices
    BY <1>0, <1>3, <2>1 DEF Incidents!Send, Incidents!GoOn, Incidents!Finish
  <2>3. \/ /\ frame'[h].op = "log" /\ frame'[h].type = frame[h].type
           /\ notices' = [notices EXCEPT ![frame[h].type] = @ + 1]
        \/ frame'[h].op = "idle" /\ notices' = notices
    BY <1>0, <2>2
  <2>4. QED
    BY <1>3, <2>1, <2>3 DEF Incidents!Send
<1>4. CASE Incidents!Log(h)
  BY <1>0, <1>4 DEF Incidents!Log, Incidents!At, Incidents!Finish, Incidents!GoOn
<1>5. CASE Incidents!Lost(h)
  <2>1. frame'[h].op = "idle"
    BY <1>0, <1>5 DEF Incidents!Lost, Incidents!Drop, Incidents!Finish, Incidents!GoOn
  <2>2. frame[h].op = "log" => frame[h].type \in Incidents!NoticeTypes
    BY IncidentsFrameParts
  <2>3. QED
    BY <1>5, <2>1, <2>2 DEF Incidents!Lost, Incidents!At
<1>6. QED
  BY <1>1, <1>2, <1>3, <1>4, <1>5 DEF IncidentsStepOf

LEMMA IncidentsNoticeMoves ==
  ASSUME Incidents!TypeOK, NEW h \in Handlers, IncidentsStepOf(h), NEW t \in Incidents!NoticeTypes, NEW op
  PROVE  /\ IncidentsAtNotice(op, t) \in SUBSET Handlers /\ IncidentsAtNotice(op, t)' \in SUBSET Handlers
         /\ IncidentsAtNotice(op, t)' \ {h} = IncidentsAtNotice(op, t) \ {h}
         /\ Cardinality(IncidentsAtNotice(op, t)) \in Nat /\ Cardinality(IncidentsAtNotice(op, t)') \in Nat
         /\ h \in IncidentsAtNotice(op, t) <=> (frame[h].op = op /\ frame[h].type = t)
         /\ h \in IncidentsAtNotice(op, t)' <=> (frame'[h].op = op /\ frame'[h].type = t)
<1>1. IncidentsAtNotice(op, t) \in SUBSET Handlers /\ IncidentsAtNotice(op, t)' \in SUBSET Handlers
  BY DEF IncidentsAtNotice
<1>2. IncidentsAtNotice(op, t)' \ {h} = IncidentsAtNotice(op, t) \ {h}
  BY IncidentsFrameStep DEF IncidentsAtNotice
<1>3. QED
  BY <1>1, <1>2, SomeCounted DEF IncidentsAtNotice

LEMMA IncidentsNoticeCountStep ==
  ASSUME Incidents!TypeOK, NEW h \in Handlers, IncidentsStepOf(h), NEW t \in Incidents!NoticeTypes, IncidentsNoticeCounted(t)
  PROVE  IncidentsNoticeCounted(t)'
<1> DEFINE L == IncidentsAtNotice("log", t)
           R == IncidentsAtNotice("send", t)
           L1 == IncidentsAtNotice("log", t)'
           R1 == IncidentsAtNotice("send", t)'
           n == Cardinality(Handlers)
<1>0. /\ L \in SUBSET Handlers /\ R \in SUBSET Handlers /\ L \cap R = {}
      /\ Cardinality(L) \in Nat /\ Cardinality(L1) \in Nat
      /\ Cardinality(R) \in Nat /\ Cardinality(R1) \in Nat /\ n \in Nat
      /\ notices[t] \in Nat /\ cuts[t] \in Nat
  <2>1. L \cap R = {} /\ notices[t] \in Nat /\ cuts[t] \in Nat
    BY DEF Incidents!TypeOK, IncidentsAtNotice
  <2>2. QED
    BY <2>1, IncidentsNoticeMoves, HandlersCounted
<1>s. Cardinality(L) + Cardinality(R) <= n
  BY <1>0, ApartFit
<1>1. /\ h \in L <=> (frame[h].op = "log" /\ frame[h].type = t)
      /\ h \in R <=> (frame[h].op = "send" /\ frame[h].type = t)
      /\ h \in L1 <=> (frame'[h].op = "log" /\ frame'[h].type = t)
      /\ h \in R1 <=> (frame'[h].op = "send" /\ frame'[h].type = t)
  BY IncidentsNoticeMoves
<1>2. /\ h \notin L1 => Cardinality(L1) <= Cardinality(L)
      /\ (h \in L /\ h \notin L1) => Cardinality(L1) = Cardinality(L) - 1
      /\ (h \notin L /\ h \in L1) => Cardinality(L1) = Cardinality(L) + 1
      /\ (h \in L <=> h \in L1) => Cardinality(L1) = Cardinality(L)
  BY IncidentsNoticeMoves, OneMoves
<1>3. /\ h \notin R1 => Cardinality(R1) <= Cardinality(R)
      /\ (h \in R /\ h \notin R1) => Cardinality(R1) = Cardinality(R) - 1
      /\ (h \in R <=> h \in R1) => Cardinality(R1) = Cardinality(R)
  BY IncidentsNoticeMoves, OneMoves
<1>4. /\ t \notin noticeLog => notices[t] <= Cardinality(L) + cuts[t]
      /\ t \in noticeLog => notices[t] + Cardinality(R) <= n + cuts[t]
  BY DEF IncidentsNoticeCounted
<1>5. SUFFICES /\ t \notin noticeLog' => notices'[t] <= Cardinality(L1) + cuts'[t]
               /\ t \in noticeLog' => notices'[t] + Cardinality(R1) <= n + cuts'[t]
  BY DEF IncidentsNoticeCounted
<1> HIDE DEF L, R, L1, R1, n
<1>6. CASE /\ UNCHANGED <<notices, noticeLog, cuts>>
           /\ frame[h].op # "log" /\ frame'[h].op # "log"
           /\ frame'[h].op = "send" => frame'[h].type \notin noticeLog
  BY <1>0, <1>1, <1>2, <1>3, <1>4, <1>6
<1>7. CASE /\ UNCHANGED <<noticeLog, cuts>>
           /\ frame[h].op = "send" /\ frame'[h].op = "log" /\ frame'[h].type = frame[h].type
           /\ notices' = [notices EXCEPT ![frame[h].type] = @ + 1]
  <2>1. notices'[t] = IF frame[h].type = t THEN notices[t] + 1 ELSE notices[t]
    BY <1>7 DEF Incidents!TypeOK
  <2>2. QED
    BY <1>0, <1>1, <1>2, <1>3, <1>4, <1>7, <2>1
<1>8. CASE /\ UNCHANGED <<notices, cuts>>
           /\ frame[h].op = "log" /\ frame'[h].op = "idle"
           /\ noticeLog' = noticeLog \cup {frame[h].type}
  BY <1>0, <1>s, <1>1, <1>2, <1>3, <1>4, <1>8
<1>9. CASE /\ UNCHANGED <<notices, noticeLog>>
           /\ frame[h].op = "log" /\ frame'[h].op = "idle"
           /\ cuts' = [cuts EXCEPT ![frame[h].type] = @ + 1]
  <2>1. cuts'[t] = IF frame[h].type = t THEN cuts[t] + 1 ELSE cuts[t]
    BY <1>9 DEF Incidents!TypeOK
  <2>2. QED
    BY <1>0, <1>1, <1>2, <1>3, <1>4, <1>9, <2>1
<1>10. QED
  BY <1>6, <1>7, <1>8, <1>9, IncidentsNoticeCases

LEMMA IncidentsNoticeStep == ASSUME Incidents!TypeOK, IncidentsNoticeInv, [Incidents!Next]_(Incidents!vars)
                             PROVE  IncidentsNoticeInv'
<1>1. ASSUME NEW h \in Handlers, IncidentsStepOf(h) PROVE IncidentsNoticeInv'
  BY <1>1, IncidentsNoticeCountStep DEF IncidentsNoticeInv
<1>2. CASE Incidents!Raise \/ UNCHANGED Incidents!vars
  BY <1>2 DEF Incidents!Raise, Incidents!vars, Incidents!incidentVars, Incidents!noticeVars,
     IncidentsNoticeInv, IncidentsNoticeCounted, IncidentsAtNotice
<1>3. QED
  BY <1>1, <1>2 DEF Incidents!Next, IncidentsStepOf

\* What a step of h does to who tells the subscribers, and to the notices after an unpublication.
LEMMA IncidentsLateCases ==
  ASSUME Incidents!TypeOK, NEW h \in Handlers, IncidentsStepOf(h)
  PROVE  \/ public' = FALSE /\ late' = 0 /\ h \notin IncidentsTelling /\ h \notin IncidentsTelling'
         \/ public' = TRUE /\ late' = late
         \/ public' = public /\ late' = late /\ (~public /\ h \notin IncidentsTelling => h \notin IncidentsTelling')
         \/ public' = public /\ late' = late + 1 /\ h \in IncidentsTelling /\ h \notin IncidentsTelling'
<1>0. /\ frame \in [Handlers -> IncidentsFrames] /\ Incidents!Idle.op = "idle" /\ public \in BOOLEAN
      /\ h \in IncidentsTelling <=> frame[h].op \in {"notify", "send"}
      /\ h \in IncidentsTelling' <=> frame'[h].op \in {"notify", "send"}
  BY DEF Incidents!TypeOK, IncidentsFrames, Incidents!Idle, IncidentsTelling, Incidents!Serving, Incidents!At
<1>1. CASE Incidents!UnpublishWrite(h)
  BY <1>0, <1>1 DEF Incidents!UnpublishWrite, Incidents!At, Incidents!Finish, Incidents!GoOn
<1>2. CASE Incidents!PublishWrite(h)
  BY <1>2 DEF Incidents!PublishWrite, Incidents!noticeVars
<1>3. CASE Incidents!ResolveWrite(h) \/ Incidents!UpdateWrite(h)
  <2>1. public' = public /\ late' = late
    BY <1>3 DEF Incidents!ResolveWrite, Incidents!UpdateWrite, Incidents!noticeVars
  <2>2. ~public => frame'[h] = Incidents!Idle
    BY <1>0, <1>3 DEF Incidents!ResolveWrite, Incidents!UpdateWrite, Incidents!Finish, Incidents!GoOn
  <2>3. QED
    BY <1>0, <2>1, <2>2
<1>4. CASE Incidents!NotifyLookUp(h)
  BY <1>0, <1>4 DEF Incidents!NotifyLookUp, Incidents!At, Incidents!incidentVars
<1>5. CASE Incidents!Send(h)
  <2>1. frame[h].op = "send" /\ [frame[h] EXCEPT !.op = "log"] = [op |-> "log", type |-> frame[h].type]
    BY <1>5, IncidentsFrameParts DEF Incidents!Send, Incidents!At
  <2>2. frame'[h] = [op |-> "log", type |-> frame[h].type] \/ frame'[h] = Incidents!Idle
    BY <1>0, <1>5, <2>1 DEF Incidents!Send, Incidents!GoOn, Incidents!Finish
  <2>3. frame'[h].op \in {"log", "idle"}
    BY <1>0, <2>2
  <2>4. public' = public /\ late' \in {late, late + 1}
    BY <1>5 DEF Incidents!Send, Incidents!rowVars
  <2>5. QED
    BY <1>0, <2>1, <2>3, <2>4
<1>6. CASE \/ \E op \in {"acknowledge", "resolve", "postmortem", "unpublish"} : Incidents!IncidentRead(h, op)
           \/ \E op \in {"publish", "update"} : Incidents!PostRead(h, op)
           \/ Incidents!AcknowledgeWrite(h) \/ Incidents!PostmortemWrite(h) \/ Incidents!PostmortemStatus(h) \/ Incidents!Log(h) \/ Incidents!Lost(h)
  <2>1. public' = public /\ late' = late
    BY <1>6 DEF Incidents!IncidentRead, Incidents!PostRead, Incidents!AcknowledgeWrite,
       Incidents!PostmortemWrite, Incidents!PostmortemStatus, Incidents!Log, Incidents!Lost,
      Incidents!incidentVars, Incidents!noticeVars, Incidents!rowVars
  <2>2. frame'[h].op \notin {"notify", "send"}
    BY <1>0, <1>6 DEF Incidents!IncidentRead, Incidents!PostRead, Incidents!AcknowledgeWrite,
       Incidents!PostmortemWrite, Incidents!PostmortemStatus, Incidents!Log, Incidents!Lost,
      Incidents!Drop, Incidents!Serve, Incidents!GoOn, Incidents!Finish
  <2>3. QED
    BY <1>0, <2>1, <2>2
<1>7. QED
  BY <1>1, <1>2, <1>3, <1>4, <1>5, <1>6 DEF IncidentsStepOf

LEMMA IncidentsLateStep == ASSUME Incidents!TypeOK, IncidentsLateInv, [Incidents!Next]_(Incidents!vars)
                           PROVE  IncidentsLateInv'
<1>1. ASSUME NEW h \in Handlers, IncidentsStepOf(h) PROVE IncidentsLateInv'
  <2> DEFINE C == IncidentsTelling
             D == IncidentsTelling'
             n == Cardinality(Handlers)
  <2>1. C \in SUBSET Handlers /\ D \in SUBSET Handlers /\ D \ {h} = C \ {h}
    BY <1>1, IncidentsFrameStep DEF IncidentsTelling, Incidents!Serving, Incidents!At
  <2>2. /\ Cardinality(C) \in Nat /\ Cardinality(D) \in Nat /\ n \in Nat /\ n >= 1 /\ late \in Nat
        /\ h \notin C => Cardinality(C) < n
    BY <2>1, SomeCounted, HandlersCounted, RoomForOne DEF Incidents!TypeOK
  <2>3. /\ h \notin D => Cardinality(D) <= Cardinality(C)
        /\ h \in C /\ h \notin D => Cardinality(D) = Cardinality(C) - 1
        /\ (h \in C <=> h \in D) => D = C
    BY <2>1, OneMoves
  <2>4. late < n /\ (~public => late + Cardinality(C) < n)
    BY DEF IncidentsLateInv
  <2>5. \/ public' = FALSE /\ late' = 0 /\ h \notin C /\ h \notin D
        \/ public' = TRUE /\ late' = late
        \/ public' = public /\ late' = late /\ (~public /\ h \notin C => h \notin D)
        \/ public' = public /\ late' = late + 1 /\ h \in C /\ h \notin D
    BY <1>1, IncidentsLateCases
  <2>6. late' < n /\ (~public' => late' + Cardinality(D) < n)
    <3>1. late' = late + 1 => ~public
      BY <1>1, <2>2 DEF IncidentsStepOf, Incidents!IncidentRead, Incidents!PostRead,
         Incidents!AcknowledgeWrite, Incidents!ResolveWrite, Incidents!PostmortemWrite,
          Incidents!PostmortemStatus,
        Incidents!UnpublishWrite, Incidents!PublishWrite, Incidents!UpdateWrite, Incidents!NotifyLookUp, Incidents!Send, Incidents!Log, Incidents!Lost, Incidents!incidentVars, Incidents!noticeVars, Incidents!rowVars
    <3> HIDE DEF C, D, n
    <3>2. QED
      BY <2>2, <2>3, <2>4, <2>5, <3>1
  <2>7. QED
    BY <2>6 DEF IncidentsLateInv
<1>2. CASE Incidents!Raise \/ UNCHANGED Incidents!vars
  BY <1>2 DEF Incidents!Raise, Incidents!vars, Incidents!incidentVars, Incidents!noticeVars,
     IncidentsLateInv, IncidentsTelling, Incidents!Serving, Incidents!At
<1>3. QED
  BY <1>1, <1>2 DEF Incidents!Next, IncidentsStepOf

\* The properties.

(* Public updates posted one after the other are all kept                  *)
(* (publishIncident, addPublicUpdate).                                     *)
THEOREM IncidentsUpdated == Incidents!Spec => []Incidents!UpdatesKept
<1>1. Incidents!Init => IncidentsUpdateInv
  BY DEF Incidents!Init, Incidents!ServerInit, IncidentsUpdateInv, Incidents!Posting, Incidents!Serving,
     Incidents!At, Incidents!Idle
<1>2. IncidentsUpdateInv => Incidents!UpdatesKept
  BY DEF IncidentsUpdateInv, Incidents!UpdatesKept
<1>3. QED
  BY <1>1, <1>2, IncidentsUpdateStep, IncidentsTypeCorrect, PTL DEF Incidents!Spec

(* A notice goes out at most once for each handler and for each request    *)
(* that was cut off before it logged it (notifyPublicIncidentChange).      *)
THEOREM IncidentsNoticed == Incidents!Spec => []Incidents!NoticesBounded
<1>1. ASSUME Incidents!Init PROVE IncidentsNoticeInv
  <2>1. \A t \in Incidents!NoticeTypes : Cardinality(IncidentsAtNotice("log", t)) \in Nat
    BY SomeCounted DEF IncidentsAtNotice
  <2>2. QED
    BY <1>1, <2>1 DEF Incidents!Init, IncidentsNoticeInv, IncidentsNoticeCounted
<1>2. ASSUME Incidents!TypeOK, IncidentsNoticeInv PROVE Incidents!NoticesBounded
  <2>1. ASSUME NEW t \in Incidents!NoticeTypes PROVE notices[t] <= Cardinality(Handlers) + cuts[t]
    <3>1. IncidentsAtNotice("log", t) \in SUBSET Handlers /\ IncidentsAtNotice("send", t) \in SUBSET Handlers
      BY DEF IncidentsAtNotice
    <3>2. /\ Cardinality(IncidentsAtNotice("log", t)) \in Nat /\ Cardinality(IncidentsAtNotice("send", t)) \in Nat
          /\ Cardinality(IncidentsAtNotice("log", t)) <= Cardinality(Handlers)
          /\ Cardinality(Handlers) \in Nat /\ notices[t] \in Nat /\ cuts[t] \in Nat
      BY <1>2, <3>1, SomeCounted, HandlersCounted DEF Incidents!TypeOK
    <3>3. QED
      BY <1>2, <3>2 DEF IncidentsNoticeInv, IncidentsNoticeCounted
  <2>2. QED
    BY <2>1, IncidentsCount DEF Incidents!NoticesBounded
<1>3. QED
  BY <1>1, <1>2, IncidentsNoticeStep, IncidentsTypeCorrect, PTL DEF Incidents!Spec

(* After an incident is unpublished, notices go out from requests that     *)
(* were under way only, one each (unpublishIncident).                      *)
THEOREM IncidentsLateNotices == Incidents!Spec => []Incidents!LateNoticesBounded
<1>1. ASSUME Incidents!Init PROVE IncidentsLateInv
  <2>1. IncidentsTelling = {}
    BY <1>1 DEF Incidents!Init, Incidents!ServerInit, IncidentsTelling, Incidents!Serving, Incidents!At,
       Incidents!Idle
  <2>2. Cardinality(IncidentsTelling) = 0
    BY <2>1, FS_EmptySet
  <2>3. QED
    BY <1>1, <2>2, HandlersCounted DEF Incidents!Init, IncidentsLateInv
<1>2. IncidentsLateInv => Incidents!LateNoticesBounded
  BY IncidentsCount DEF IncidentsLateInv, Incidents!LateNoticesBounded
<1>3. QED
  BY <1>1, <1>2, IncidentsLateStep, IncidentsTypeCorrect, PTL DEF Incidents!Spec

-----------------------------------------------------------------------------
(* The checks of the uptime.                                               *)

\* Sets are counted as everywhere.
LEMMA UptimeCount ==
  \A S : Uptime!IsFiniteSet(S) = IsFiniteSet(S) /\ Uptime!Cardinality(S) = Cardinality(S)
BY DEF Uptime!IsFiniteSet, IsFiniteSet, Uptime!Cardinality, Cardinality

UptimeFrames == {Uptime!Idle} \cup [op : {"recompute"}, forced : BOOLEAN] \cup [op : {"incident", "write"}, status : Uptime!Statuses]

\* A step of the scan h.
UptimeStepOf(h) ==
  \/ \E ok, force \in BOOLEAN : Uptime!Check(h, ok, force)
  \/ Uptime!RecomputeRead(h) \/ Uptime!IncidentLookUp(h) \/ Uptime!StatusWrite(h) \/ Uptime!Lost(h)

\* The status a scan comes to that has read the checks and found an incident, or none.
UptimeFinal(incident) == IF incident THEN "MAJOR_OUTAGE" ELSE Uptime!FromChecks(forced)

\* A scan that nothing overlaps works on the checks as they are, and leaves their status.
UptimeScanInv ==
  ~disturbed =>
    /\ \A g, h \in Handlers : frame[g] # Uptime!Idle /\ frame[h] # Uptime!Idle => g = h
    /\ \A h \in Uptime!Serving("recompute") : frame[h].forced = forced
    /\ \A h \in Uptime!Serving("incident") : frame[h].status = Uptime!FromChecks(forced)
    /\ \A h \in Uptime!Serving("write") : frame[h].status = UptimeFinal(seen)
    /\ (\A h \in Handlers : frame[h] = Uptime!Idle) => status = UptimeFinal(seen)

\* Types.

LEMMA UptimeFrameParts ==
  ASSUME Uptime!TypeOK, NEW h \in Handlers
  PROVE  /\ Uptime!At(h, "recompute") => frame[h].forced \in BOOLEAN
         /\ Uptime!At(h, "incident") \/ Uptime!At(h, "write") => frame[h].status \in Uptime!Statuses
BY DEF Uptime!TypeOK, Uptime!At, Uptime!Idle

LEMMA UptimeFrameStep ==
  ASSUME Uptime!TypeOK, NEW h \in Handlers, UptimeStepOf(h)
  PROVE  /\ frame' \in [Handlers -> UptimeFrames]
         /\ \A g \in Handlers \ {h} : frame'[g] = frame[g]
<1>1. ASSUME NEW f \in UptimeFrames, Uptime!GoOn(h, f)
      PROVE  /\ frame' \in [Handlers -> UptimeFrames]
             /\ \A g \in Handlers \ {h} : frame'[g] = frame[g]
  BY <1>1 DEF Uptime!GoOn, Uptime!TypeOK, UptimeFrames
<1>2. /\ Uptime!Idle \in UptimeFrames
      /\ \A f \in BOOLEAN : [op |-> "recompute", forced |-> f] \in UptimeFrames
      /\ \A s \in Uptime!Statuses : [op |-> "incident", status |-> s] \in UptimeFrames /\ [op |-> "write", status |-> s] \in UptimeFrames
  BY DEF UptimeFrames
<1>3. Uptime!FromChecks(frame[h].forced) \in Uptime!Statuses /\ "MAJOR_OUTAGE" \in Uptime!Statuses
  BY DEF Uptime!FromChecks, Uptime!Statuses
<1>4. CASE \E ok, force \in BOOLEAN : Uptime!Check(h, ok, force)
  BY <1>1, <1>2, <1>4 DEF Uptime!Check, Uptime!Serve, Uptime!GoOn
<1>5. CASE Uptime!RecomputeRead(h)
  BY <1>1, <1>2, <1>3, <1>5 DEF Uptime!RecomputeRead
<1>6. CASE Uptime!IncidentLookUp(h)
  BY <1>1, <1>2, <1>3, <1>6, UptimeFrameParts DEF Uptime!IncidentLookUp
<1>7. CASE Uptime!StatusWrite(h) \/ Uptime!Lost(h)
  BY <1>1, <1>2, <1>7 DEF Uptime!StatusWrite, Uptime!Lost, Uptime!Drop, Uptime!Finish
<1>8. QED
  BY <1>4, <1>5, <1>6, <1>7 DEF UptimeStepOf

\* The stored checks are a sequence no longer than the window.
LEMMA UptimePushed ==
  ASSUME checks \in Uptime!UpToWindow, NEW ok \in BOOLEAN
  PROVE  Uptime!Push(ok) \in Uptime!UpToWindow
<1>1. PICK n \in 0..Window : checks \in [1..n -> BOOLEAN]
  BY DEF Uptime!UpToWindow
<1>2. Len(checks) = n
  BY <1>1, UptimeConstants
<1> DEFINE m == IF n < Window THEN n + 1 ELSE Window
<1>3. m \in 0..Window /\ \A i \in 1..m : i = 1 \/ i - 1 \in 1..n
  BY UptimeConstants
<1>4. Uptime!Push(ok) = [i \in 1..m |-> IF i = 1 THEN ok ELSE checks[i - 1]]
  BY <1>2 DEF Uptime!Push
<1> HIDE DEF m
<1>5. \A i \in 1..m : (IF i = 1 THEN ok ELSE checks[i - 1]) \in BOOLEAN
  BY <1>1, <1>3
<1>6. Uptime!Push(ok) \in [1..m -> BOOLEAN]
  BY <1>4, <1>5
<1>7. QED
  BY <1>3, <1>6 DEF Uptime!UpToWindow

(* The types of the status of a component: never more checks than the      *)
(* window, and only the three statuses (status.service.ts).                *)
THEOREM UptimeTypeCorrect == Uptime!Spec => []Uptime!TypeOK
<1> DEFINE Rest == /\ checks \in Uptime!UpToWindow
                   /\ forced \in BOOLEAN /\ critical \in BOOLEAN /\ seen \in BOOLEAN /\ disturbed \in BOOLEAN
                   /\ status \in Uptime!Statuses
<1>1. Uptime!Init => Uptime!TypeOK
  <2>1. <<>> \in [1..0 -> BOOLEAN]
    OBVIOUS
  <2>2. <<>> \in Uptime!UpToWindow
    BY <2>1, UptimeConstants DEF Uptime!UpToWindow
  <2>3. QED
    BY <2>2 DEF Uptime!Init, Uptime!ServerInit, Uptime!TypeOK, Uptime!Statuses
<1>2. ASSUME Uptime!TypeOK, [Uptime!Next]_(Uptime!vars) PROVE Uptime!TypeOK'
  <2>1. Rest
    BY <1>2 DEF Uptime!TypeOK
  <2>2. ASSUME NEW h \in Handlers, UptimeStepOf(h) PROVE Uptime!TypeOK'
    <3>1. frame' \in [Handlers -> UptimeFrames]
      BY <1>2, <2>2, UptimeFrameStep
    <3>2. ASSUME Rest' PROVE Uptime!TypeOK'
      BY <3>1, <3>2 DEF Uptime!TypeOK, UptimeFrames
    <3>3. ASSUME NEW ok \in BOOLEAN, NEW force \in BOOLEAN, Uptime!Check(h, ok, force) PROVE Rest'
      BY <2>1, <3>3, UptimePushed DEF Uptime!Check
    <3>4. ASSUME Uptime!RecomputeRead(h) \/ Uptime!IncidentLookUp(h) \/ Uptime!Lost(h) PROVE Rest'
      BY <2>1, <3>4 DEF Uptime!RecomputeRead, Uptime!IncidentLookUp, Uptime!Lost
    <3>5. ASSUME Uptime!StatusWrite(h) PROVE Rest'
      BY <1>2, <2>1, <3>5, UptimeFrameParts DEF Uptime!StatusWrite
    <3>6. QED
      BY <2>2, <3>2, <3>3, <3>4, <3>5 DEF UptimeStepOf
  <2>3. CASE Uptime!IncidentChanges
    BY <1>2, <2>3 DEF Uptime!IncidentChanges, Uptime!TypeOK
  <2>4. CASE UNCHANGED Uptime!vars
    BY <1>2, <2>4 DEF Uptime!vars, Uptime!TypeOK
  <2>5. QED
    BY <1>2, <2>2, <2>3, <2>4 DEF Uptime!Next, UptimeStepOf
<1>3. QED
  BY <1>1, <1>2, PTL DEF Uptime!Spec

\* The status.

LEMMA UptimeScanStep == ASSUME Uptime!TypeOK, UptimeScanInv, [Uptime!Next]_(Uptime!vars) PROVE UptimeScanInv'
<1> SUFFICES ASSUME ~disturbed' PROVE UptimeScanInv'
  BY DEF UptimeScanInv
<1>1. ASSUME NEW h \in Handlers, UptimeStepOf(h), NEW f, frame' = [frame EXCEPT ![h] = f],
             \A g \in Handlers \ {h} : frame[g] = Uptime!Idle,
             /\ f.op = "recompute" => f.forced = forced'
             /\ f.op = "incident" => f.status = Uptime!FromChecks(forced)'
             /\ f.op = "write" => f.status = UptimeFinal(seen)'
             /\ f = Uptime!Idle => status' = UptimeFinal(seen)'
      PROVE  UptimeScanInv'
  <2>1. frame'[h] = f /\ \A g \in Handlers \ {h} : frame'[g] = Uptime!Idle
    BY <1>1 DEF Uptime!TypeOK
  <2>2. \A op : Uptime!At(h, op)' <=> f.op = op
    BY <2>1 DEF Uptime!At
  <2>3. \A g \in Handlers : g # h => ~Uptime!At(g, "recompute")' /\ ~Uptime!At(g, "incident")' /\ ~Uptime!At(g, "write")'
    BY <2>1 DEF Uptime!At, Uptime!Idle
  <2>4. QED
    BY <1>1, <2>1, <2>2, <2>3 DEF UptimeScanInv, Uptime!Serving
<1>2. ASSUME NEW h \in Handlers, NEW ok \in BOOLEAN, NEW force \in BOOLEAN, Uptime!Check(h, ok, force)
      PROVE  UptimeScanInv'
  <2> DEFINE f == [op |-> "recompute", forced |-> force]
  <2>1. UptimeStepOf(h) /\ frame' = [frame EXCEPT ![h] = f] /\ \A g \in Handlers : frame[g] = Uptime!Idle
    BY <1>2 DEF Uptime!Check, Uptime!Serve, UptimeStepOf
  <2>2. f.op = "recompute" /\ f.forced = forced' /\ f # Uptime!Idle
    BY <1>2 DEF Uptime!Check, Uptime!Idle
  <2>3. QED
    BY <1>1, <2>1, <2>2
<1>3. ASSUME NEW h \in Handlers, frame[h] # Uptime!Idle, ~disturbed
      PROVE  /\ \A g \in Handlers \ {h} : frame[g] = Uptime!Idle
             /\ Uptime!At(h, "recompute") => frame[h].forced = forced
             /\ Uptime!At(h, "incident") => frame[h].status = Uptime!FromChecks(forced)
             /\ Uptime!At(h, "write") => frame[h].status = UptimeFinal(seen)
  BY <1>3 DEF UptimeScanInv, Uptime!Serving
<1>4. ASSUME NEW h \in Handlers, Uptime!RecomputeRead(h) PROVE UptimeScanInv'
  <2> DEFINE f == [op |-> "incident", status |-> Uptime!FromChecks(frame[h].forced)]
  <2>1. UptimeStepOf(h) /\ frame' = [frame EXCEPT ![h] = f] /\ Uptime!At(h, "recompute")
        /\ UNCHANGED <<checks, forced, status, seen, disturbed>>
    BY <1>4 DEF Uptime!RecomputeRead, Uptime!GoOn, UptimeStepOf
  <2>2. frame[h] # Uptime!Idle
    BY <2>1 DEF Uptime!At, Uptime!Idle
  <2>3. f.op = "incident" /\ f.status = Uptime!FromChecks(forced)' /\ f # Uptime!Idle
    BY <1>3, <2>1, <2>2 DEF Uptime!FromChecks, Uptime!Idle
  <2>4. QED
    BY <1>1, <1>3, <2>1, <2>2, <2>3
<1>5. ASSUME NEW h \in Handlers, Uptime!IncidentLookUp(h) PROVE UptimeScanInv'
  <2> DEFINE f == [op |-> "write", status |-> IF critical THEN "MAJOR_OUTAGE" ELSE frame[h].status]
  <2>1. UptimeStepOf(h) /\ frame' = [frame EXCEPT ![h] = f] /\ Uptime!At(h, "incident")
        /\ UNCHANGED <<checks, forced, status, disturbed>> /\ seen' = critical
    BY <1>5 DEF Uptime!IncidentLookUp, Uptime!GoOn, UptimeStepOf
  <2>2. frame[h] # Uptime!Idle
    BY <2>1 DEF Uptime!At, Uptime!Idle
  <2>3. frame[h].status = Uptime!FromChecks(forced)'
    BY <1>3, <2>1, <2>2 DEF Uptime!FromChecks
  <2>4. f.op = "write" /\ f.status = UptimeFinal(seen)' /\ f # Uptime!Idle
    BY <2>1, <2>3 DEF UptimeFinal, Uptime!Idle
  <2>5. QED
    BY <1>1, <1>3, <2>1, <2>2, <2>4
<1>6. ASSUME NEW h \in Handlers, Uptime!StatusWrite(h) PROVE UptimeScanInv'
  <2>1. UptimeStepOf(h) /\ frame' = [frame EXCEPT ![h] = Uptime!Idle] /\ Uptime!At(h, "write")
        /\ UNCHANGED <<checks, forced, seen, disturbed>> /\ status' = frame[h].status
    BY <1>6 DEF Uptime!StatusWrite, Uptime!Finish, Uptime!GoOn, UptimeStepOf
  <2>2. frame[h] # Uptime!Idle
    BY <2>1 DEF Uptime!At, Uptime!Idle
  <2>3. status' = UptimeFinal(seen)'
    BY <1>3, <2>1, <2>2 DEF UptimeFinal, Uptime!FromChecks
  <2>4. Uptime!Idle.op = "idle"
    BY DEF Uptime!Idle
  <2>5. QED
    BY <1>1, <1>3, <2>1, <2>2, <2>3, <2>4
<1>7. CASE Uptime!IncidentChanges \/ UNCHANGED Uptime!vars
  <2>1. UNCHANGED <<frame, checks, forced, status, seen, disturbed>>
    BY <1>7 DEF Uptime!IncidentChanges, Uptime!vars
  <2>2. Uptime!FromChecks(forced)' = Uptime!FromChecks(forced) /\ UptimeFinal(seen)' = UptimeFinal(seen)
    BY <2>1 DEF Uptime!FromChecks, UptimeFinal
  <2>3. QED
    BY <2>1, <2>2 DEF UptimeScanInv, Uptime!Serving, Uptime!At
<1>8. ASSUME NEW h \in Handlers, Uptime!Lost(h) PROVE FALSE
  BY <1>8 DEF Uptime!Lost
<1>9. QED
  BY <1>2, <1>4, <1>5, <1>6, <1>7, <1>8 DEF Uptime!Next

(* After a scan that nothing overlapped, the status of a component is what *)
(* its last checks and the incident found make it, for any window and      *)
(* limits (recomputeStatus).                                               *)
THEOREM UptimeFollows == Uptime!Spec => []Uptime!StatusFollowsChecks
<1>1. Uptime!Init => UptimeScanInv
  <2>1. Uptime!Failures(<<>>) = 0
    <3>1. {i \in DOMAIN <<>> : ~<<>>[i]} = {}
      OBVIOUS
    <3>2. QED
      BY <3>1, FS_EmptySet, UptimeCount DEF Uptime!Failures
  <2>2. ASSUME Uptime!Init PROVE UptimeScanInv
    <3>1. Uptime!FromChecks(forced) = "OPERATIONAL"
      BY <2>1, <2>2, UptimeConstants DEF Uptime!Init, Uptime!FromChecks
    <3>2. \A h \in Handlers : frame[h] = Uptime!Idle /\ frame[h].op = "idle"
      BY <2>2 DEF Uptime!Init, Uptime!ServerInit, Uptime!Idle
    <3>3. status = UptimeFinal(seen)
      BY <2>2, <3>1 DEF Uptime!Init, UptimeFinal
    <3>4. QED
      BY <3>2, <3>3 DEF UptimeScanInv, Uptime!Serving, Uptime!At
  <2>3. QED
    BY <2>2
<1>2. ASSUME Uptime!TypeOK, UptimeScanInv PROVE Uptime!StatusFollowsChecks
  <2>1. Uptime!Failures(checks) \in Nat
    <3>1. PICK n \in 0..Window : checks \in [1..n -> BOOLEAN]
      BY <1>2 DEF Uptime!TypeOK, Uptime!UpToWindow
    <3>2. {i \in DOMAIN checks : ~checks[i]} \subseteq 1..n /\ IsFiniteSet(1..n)
      BY <3>1, FS_Interval
    <3>3. QED
      BY <3>2, FS_Subset, FS_CardinalityType, UptimeCount DEF Uptime!Failures
  <2>2. forced \in BOOLEAN /\ seen \in BOOLEAN /\ Major \in Nat /\ Degraded \in Nat /\ Degraded <= Major
    BY <1>2, UptimeConstants DEF Uptime!TypeOK
  <2>3. SUFFICES ASSUME ~disturbed, \A h \in Handlers : frame[h] = Uptime!Idle
                 PROVE  /\ (status = "MAJOR_OUTAGE") <=> (seen \/ Uptime!Failures(checks) >= Major)
                        /\ (status = "OPERATIONAL") <=> (~seen /\ Uptime!Failures(checks) < Degraded /\ ~forced)
    BY DEF Uptime!StatusFollowsChecks
  <2>4. status = UptimeFinal(seen)
    BY <1>2, <2>3 DEF UptimeScanInv
  <2>5. CASE seen
    BY <2>4, <2>5 DEF UptimeFinal
  <2>6. CASE ~seen
    <3>1. status = IF Uptime!Failures(checks) >= Major THEN "MAJOR_OUTAGE"
                   ELSE IF Uptime!Failures(checks) >= Degraded \/ forced THEN "DEGRADED" ELSE "OPERATIONAL"
      BY <2>4, <2>6 DEF UptimeFinal, Uptime!FromChecks
    <3>2. QED
      BY <2>1, <2>2, <2>6, <3>1
  <2>7. QED
    BY <2>2, <2>5, <2>6
<1>3. QED
  BY <1>1, <1>2, UptimeScanStep, UptimeTypeCorrect, PTL DEF Uptime!Spec

-----------------------------------------------------------------------------
(* The security shield.                                                    *)

\* Sets are counted as everywhere.
LEMMA ShieldCount ==
  \A S : Shield!IsFiniteSet(S) = IsFiniteSet(S) /\ Shield!Cardinality(S) = Cardinality(S)
BY DEF Shield!IsFiniteSet, IsFiniteSet, Shield!Cardinality, Cardinality

ShieldFrames == {Shield!Idle} \cup [op : {"spike"}, bucket : Shield!Buckets] \cup [op : {"count", "resolve"}]
                \cup [op : {"look"}, seen : 0..MaxDeactivations] \cup [op : {"bulk"}]
ShieldBucketStates == [fails : 0..MaxFails, warned : BOOLEAN]

\* A step of the request h.
ShieldStepOf(h) ==
  \/ Shield!Fail(h) \/ Shield!SpikeStored(h)
  \/ Shield!DeactivationLogged(h) \/ Shield!BulkCount(h) \/ Shield!BulkLook(h) \/ Shield!BulkStored(h)
  \/ Shield!ResolveRead(h) \/ Shield!ResolveWrite(h) \/ Shield!Lost(h)

\* The buckets that have had an event, and the requests that are to store another of one of them:
\* they found it without.
ShieldWarned == {b \in Shield!Buckets : bucket[b].warned}
ShieldAgain == {h \in Shield!Serving("spike") : bucket[frame[h].bucket].warned}

\* The buckets in use are those made, and a bucket gets an event from each request once, at most.
ShieldSpikeInv ==
  /\ inMap <= made
  /\ \A h \in Shield!Serving("spike") : frame[h].bucket \in 1..made
  /\ ShieldWarned \subseteq 1..made
  /\ spikes + Cardinality(ShieldAgain) <= Cardinality(Handlers) * Cardinality(ShieldWarned)

\* While there is no event about too many deactivations, some request is on its way to one.
ShieldBulkInv ==
  /\ logged > BulkAbove /\ ~cut =>
       \/ bulk > 0
       \/ Shield!Serving("count") \cup Shield!Serving("bulk") # {}
       \/ \E h \in Shield!Serving("look") : frame[h].seen > BulkAbove
  /\ bulk + Cardinality(Shield!Serving("bulk")) <= Cardinality(Handlers)

\* Types.

LEMMA ShieldFrameParts ==
  ASSUME Shield!TypeOK, NEW h \in Handlers
  PROVE  /\ frame[h].op \in {"idle", "spike", "count", "resolve", "look", "bulk"}
         /\ Shield!At(h, "spike") => frame[h].bucket \in Shield!Buckets
         /\ Shield!At(h, "look") => frame[h].seen \in 0..MaxDeactivations
BY DEF Shield!TypeOK, Shield!At, Shield!Idle

LEMMA ShieldFrameStep ==
  ASSUME Shield!TypeOK, NEW h \in Handlers, ShieldStepOf(h)
  PROVE  /\ frame' \in [Handlers -> ShieldFrames]
         /\ \A g \in Handlers \ {h} : frame'[g] = frame[g]
<1>1. ASSUME NEW f \in ShieldFrames, Shield!GoOn(h, f) \/ UNCHANGED frame
      PROVE  /\ frame' \in [Handlers -> ShieldFrames]
             /\ \A g \in Handlers \ {h} : frame'[g] = frame[g]
  BY <1>1 DEF Shield!GoOn, Shield!TypeOK, ShieldFrames
<1>2. Shield!Idle \in ShieldFrames /\ [op |-> "count"] \in ShieldFrames /\ [op |-> "bulk"] \in ShieldFrames /\ [op |-> "resolve"] \in ShieldFrames
  BY DEF ShieldFrames
<1>3. CASE Shield!Fail(h)
  <2> DEFINE b == IF inMap = 0 THEN made + 1 ELSE inMap
  <2>1. b \in Shield!Buckets
    BY <1>3 DEF Shield!Fail
  <2>2. [op |-> "spike", bucket |-> b] \in ShieldFrames
    BY <2>1 DEF ShieldFrames
  <2>3. Shield!GoOn(h, [op |-> "spike", bucket |-> b]) \/ UNCHANGED frame
    BY <1>3 DEF Shield!Fail, Shield!Counted, Shield!Serve, Shield!GoOn
  <2>4. QED
    BY <1>1, <2>2, <2>3
<1>4. CASE Shield!BulkCount(h)
  <2>1. [op |-> "look", seen |-> logged] \in ShieldFrames
    BY DEF ShieldFrames, Shield!TypeOK
  <2>2. QED
    BY <1>1, <1>4, <2>1 DEF Shield!BulkCount
<1>5. CASE Shield!DeactivationLogged(h) \/ Shield!ResolveRead(h)
  BY <1>1, <1>2, <1>5 DEF Shield!DeactivationLogged, Shield!ResolveRead, Shield!Serve, Shield!GoOn
<1>6. CASE Shield!SpikeStored(h) \/ Shield!BulkLook(h) \/ Shield!BulkStored(h) \/ Shield!ResolveWrite(h) \/ Shield!Lost(h)
  BY <1>1, <1>2, <1>6 DEF Shield!SpikeStored, Shield!BulkLook, Shield!BulkStored, Shield!ResolveWrite,
     Shield!Lost, Shield!Drop, Shield!Finish
<1>7. QED
  BY <1>3, <1>4, <1>5, <1>6 DEF ShieldStepOf

\* The variables of failed logins keep their types.
LEMMA ShieldLoginTypes ==
  ASSUME Shield!TypeOK, NEW h \in Handlers, Shield!Fail(h) \/ Shield!SpikeStored(h)
  PROVE  /\ bucket' \in [Shield!Buckets -> ShieldBucketStates]
         /\ inMap' \in 0..MaxBuckets /\ made' \in 0..MaxBuckets /\ spikes' \in Nat
<1>0. bucket \in [Shield!Buckets -> ShieldBucketStates] /\ inMap \in 0..MaxBuckets /\ made \in 0..MaxBuckets /\ spikes \in Nat
  BY DEF Shield!TypeOK, ShieldBucketStates
<1>1. CASE Shield!Fail(h)
  <2> DEFINE b == IF inMap = 0 THEN made + 1 ELSE inMap
  <2>1. b \in Shield!Buckets /\ bucket[b].fails < MaxFails /\ bucket' = [bucket EXCEPT ![b].fails = @ + 1]
        /\ made' = (IF inMap = 0 THEN b ELSE made) /\ inMap' \in {b, inMap} /\ spikes' = spikes
    BY <1>1 DEF Shield!Fail, Shield!Counted
  <2> HIDE DEF b
  <2>2. bucket[b].fails \in 0..MaxFails /\ bucket[b].warned \in BOOLEAN
    BY <1>0, <2>1 DEF ShieldBucketStates
  <2>3. bucket[b].fails + 1 \in 0..MaxFails
    BY <2>1, <2>2, ShieldConstants
  <2>4. [bucket[b] EXCEPT !.fails = @ + 1] \in ShieldBucketStates
    BY <1>0, <2>1, <2>3 DEF ShieldBucketStates
  <2>5. bucket' \in [Shield!Buckets -> ShieldBucketStates]
    BY <1>0, <2>1, <2>4
  <2>6. b \in 0..MaxBuckets
    BY <2>1, ShieldConstants DEF Shield!Buckets
  <2>7. QED
    BY <1>0, <2>1, <2>5, <2>6
<1>2. CASE Shield!SpikeStored(h)
  <2> DEFINE b == frame[h].bucket
  <2>1. b \in Shield!Buckets /\ bucket' = [bucket EXCEPT ![b].warned = TRUE]
        /\ inMap' = b /\ made' = made /\ spikes' = spikes + 1
    BY <1>2, ShieldFrameParts DEF Shield!SpikeStored
  <2> HIDE DEF b
  <2>2. [bucket[b] EXCEPT !.warned = TRUE] \in ShieldBucketStates
    BY <1>0, <2>1 DEF ShieldBucketStates
  <2>3. bucket' \in [Shield!Buckets -> ShieldBucketStates]
    BY <1>0, <2>1, <2>2
  <2>4. b \in 0..MaxBuckets
    BY <2>1, ShieldConstants DEF Shield!Buckets
  <2>5. QED
    BY <1>0, <2>1, <2>3, <2>4
<1>3. QED
  BY <1>1, <1>2

LEMMA ShieldTypeStep == ASSUME Shield!TypeOK, [Shield!Next]_(Shield!vars) PROVE Shield!TypeOK'
<1> DEFINE F == ShieldFrames
           B == ShieldBucketStates
           Rest == /\ frame \in [Handlers -> F]
                   /\ bucket \in [Shield!Buckets -> B]
                   /\ inMap \in 0..MaxBuckets /\ made \in 0..MaxBuckets /\ spikes \in Nat
                   /\ logged \in 0..MaxDeactivations /\ bulk \in Nat /\ cut \in BOOLEAN /\ resolved \in Nat
<1>1. Shield!TypeOK <=> Rest
  BY DEF Shield!TypeOK, ShieldFrames, ShieldBucketStates
<1>2. Shield!TypeOK' <=> Rest'
  BY DEF Shield!TypeOK, ShieldFrames, ShieldBucketStates
<1>3. Rest
  BY <1>1
<1> SUFFICES Rest'
  BY <1>2
<1>4. ASSUME NEW h \in Handlers, ShieldStepOf(h) PROVE Rest'
  <2>1. frame' \in [Handlers -> F]
    BY <1>4, ShieldFrameStep
  <2>2. CASE Shield!Fail(h) \/ Shield!SpikeStored(h)
    <3>1. /\ bucket' \in [Shield!Buckets -> B]
          /\ inMap' \in 0..MaxBuckets /\ made' \in 0..MaxBuckets /\ spikes' \in Nat
      BY <2>2, ShieldLoginTypes
    <3> HIDE DEF F, B
    <3>2. QED
      BY <1>3, <2>1, <2>2, <3>1 DEF Shield!Fail, Shield!SpikeStored, Shield!bulkVars
  <2> HIDE DEF F, B
  <2>3. CASE Shield!DeactivationLogged(h)
    <3>1. logged' \in 0..MaxDeactivations
      BY <1>3, <2>3, ShieldConstants DEF Shield!DeactivationLogged
    <3>2. QED
      BY <1>3, <2>1, <2>3, <3>1 DEF Shield!DeactivationLogged, Shield!loginVars
  <2>4. CASE Shield!BulkCount(h) \/ Shield!BulkLook(h) \/ Shield!BulkStored(h) \/ Shield!ResolveRead(h) \/ Shield!ResolveWrite(h)
    BY <1>3, <2>1, <2>4 DEF Shield!BulkCount, Shield!BulkLook, Shield!BulkStored, Shield!ResolveRead,
       Shield!ResolveWrite, Shield!loginVars, Shield!bulkVars
  <2>5. CASE Shield!Lost(h)
    BY <1>3, <2>1, <2>5 DEF Shield!Lost, Shield!loginVars
  <2>6. QED
    BY <1>4, <2>2, <2>3, <2>4, <2>5 DEF ShieldStepOf
<1>5. CASE Shield!WindowPasses
  <2>1. [b \in Shield!Buckets |-> [fails |-> 0, warned |-> FALSE]] \in [Shield!Buckets -> B]
    BY ShieldConstants DEF ShieldBucketStates
  <2> HIDE DEF F, B
  <2>2. QED
    BY <1>3, <1>5, <2>1 DEF Shield!WindowPasses, Shield!bulkVars
<1>6. CASE Shield!Clear \/ UNCHANGED Shield!vars
  <2> HIDE DEF F, B
  <2>1. inMap' \in 0..MaxBuckets
    BY <1>3, <1>6, ShieldConstants DEF Shield!Clear, Shield!vars, Shield!loginVars
  <2>2. QED
    BY <1>3, <1>6, <2>1 DEF Shield!Clear, Shield!vars, Shield!loginVars, Shield!bulkVars
<1>7. QED
  BY <1>4, <1>5, <1>6 DEF Shield!Next, ShieldStepOf

(* The buckets, the requests and the events keep their types, for any      *)
(* bounds (ShieldService).                                                 *)
THEOREM ShieldTypeCorrect == Shield!Spec => []Shield!TypeOK
<1>1. ASSUME Shield!Init PROVE Shield!TypeOK
  <2>1. frame \in [Handlers -> {Shield!Idle}]
    BY <1>1 DEF Shield!Init, Shield!ServerInit
  <2>2. 0 \in 0..MaxBuckets /\ 0 \in 0..MaxDeactivations /\ 0 \in 0..MaxFails
    BY ShieldConstants
  <2>3. bucket \in [Shield!Buckets -> [fails : 0..MaxFails, warned : BOOLEAN]]
    BY <1>1, <2>2 DEF Shield!Init
  <2>4. QED
    BY <1>1, <2>1, <2>2, <2>3 DEF Shield!Init, Shield!TypeOK
<1>2. QED
  BY <1>1, ShieldTypeStep, PTL DEF Shield!Spec

\* Spikes.

LEMMA ShieldWarnedCounted ==
  ASSUME Shield!TypeOK
  PROVE  IsFiniteSet(ShieldWarned) /\ Cardinality(ShieldWarned) \in Nat
<1>1. IsFiniteSet(Shield!Buckets)
  BY ShieldConstants, FS_Interval DEF Shield!Buckets
<1>2. IsFiniteSet(ShieldWarned)
  BY <1>1, FS_Subset DEF ShieldWarned
<1>3. QED
  BY <1>2, FS_CardinalityType

\* What a step of h does to the spikes.
LEMMA ShieldSpikeCases ==
  ASSUME Shield!TypeOK, ShieldSpikeInv, NEW h \in Handlers, ShieldStepOf(h)
  PROVE  /\ inMap' <= made' /\ made <= made'
         /\ h \in Shield!Serving("spike")' => frame'[h].bucket \in 1..made'
         /\ \/ /\ ShieldWarned' = ShieldWarned /\ spikes' = spikes /\ h \notin ShieldAgain'
               /\ \A b \in Shield!Buckets : bucket'[b].warned = bucket[b].warned
            \/ \E b \in Shield!Buckets :
                 /\ h \in Shield!Serving("spike") /\ frame[h].bucket = b /\ h \notin Shield!Serving("spike")'
                 /\ spikes' = spikes + 1 /\ ShieldWarned' = ShieldWarned \cup {b} /\ b \in 1..made'
                 /\ bucket'[b].warned = TRUE
                 /\ \A c \in Shield!Buckets \ {b} : bucket'[c].warned = bucket[c].warned
<1>0. /\ bucket \in [Shield!Buckets -> ShieldBucketStates] /\ inMap \in Nat /\ made \in Nat /\ spikes \in Nat
      /\ frame \in [Handlers -> ShieldFrames] /\ Shield!Idle.op = "idle" /\ inMap <= made
      /\ Shield!Buckets \subseteq Nat \ {0}
  <2>1. inMap \in 0..MaxBuckets /\ made \in 0..MaxBuckets
    BY DEF Shield!TypeOK
  <2>2. Shield!Buckets \subseteq Nat \ {0}
    BY ShieldConstants DEF Shield!Buckets
  <2>3. inMap \in Nat /\ made \in Nat
    BY <2>1, ShieldConstants
  <2>4. QED
    BY <2>2, <2>3 DEF Shield!TypeOK, ShieldBucketStates, ShieldFrames, Shield!Idle, ShieldSpikeInv
<1>1. CASE Shield!Fail(h)
  <2> DEFINE b == IF inMap = 0 THEN made + 1 ELSE inMap
  <2>1. /\ b \in Shield!Buckets /\ bucket' = [bucket EXCEPT ![b].fails = @ + 1]
        /\ made' = (IF inMap = 0 THEN b ELSE made) /\ spikes' = spikes
        /\ \/ frame' = [frame EXCEPT ![h] = [op |-> "spike", bucket |-> b]] /\ ~bucket[b].warned /\ inMap' = inMap
           \/ frame[h] = Shield!Idle /\ frame' = frame /\ inMap' = b
    BY <1>1 DEF Shield!Fail, Shield!Counted, Shield!Serve
  <2>2. b <= made' /\ made <= made' /\ inMap' <= made' /\ b \in 1..made'
    BY <1>0, <2>1
  <2> HIDE DEF b
  <2>3. bucket'[b] = [bucket[b] EXCEPT !.fails = @ + 1] /\ bucket'[b].warned = bucket[b].warned
    BY <1>0, <2>1 DEF ShieldBucketStates
  <2>4. \A c \in Shield!Buckets : bucket'[c].warned = bucket[c].warned
    BY <1>0, <2>1, <2>3
  <2>5. ShieldWarned' = ShieldWarned
    BY <2>4 DEF ShieldWarned
  <2>6. \/ frame'[h].op = "spike" /\ frame'[h].bucket = b /\ ~bucket[b].warned
        \/ frame'[h].op = "idle"
    <3>1. CASE frame' = [frame EXCEPT ![h] = [op |-> "spike", bucket |-> b]] /\ ~bucket[b].warned
      <4>1. frame'[h] = [op |-> "spike", bucket |-> b]
        BY <1>0, <3>1
      <4>2. QED
        BY <3>1, <4>1
    <3>2. QED
      BY <1>0, <2>1, <3>1
  <2>7. h \in Shield!Serving("spike")' => frame'[h].bucket \in 1..made'
    BY <2>2, <2>6 DEF Shield!Serving, Shield!At
  <2>8. h \notin ShieldAgain'
    BY <2>1, <2>4, <2>6 DEF ShieldAgain, Shield!Serving, Shield!At
  <2>9. QED
    BY <2>1, <2>2, <2>4, <2>5, <2>7, <2>8
<1>2. CASE Shield!SpikeStored(h)
  <2> DEFINE b == frame[h].bucket
  <2>1. /\ h \in Shield!Serving("spike") /\ b \in Shield!Buckets /\ bucket' = [bucket EXCEPT ![b].warned = TRUE]
        /\ inMap' = b /\ made' = made /\ spikes' = spikes + 1
    BY <1>2, ShieldFrameParts DEF Shield!SpikeStored, Shield!Serving
  <2>2. frame'[h].op = "idle"
    BY <1>0, <1>2 DEF Shield!SpikeStored, Shield!Finish, Shield!GoOn
  <2>3. b \in 1..made
    BY <2>1 DEF ShieldSpikeInv
  <2> HIDE DEF b
  <2>4. bucket'[b].warned = TRUE /\ \A c \in Shield!Buckets \ {b} : bucket'[c].warned = bucket[c].warned
    BY <1>0, <2>1 DEF ShieldBucketStates
  <2>5. ShieldWarned' = ShieldWarned \cup {b}
    BY <2>1, <2>4 DEF ShieldWarned
  <2>6. h \notin Shield!Serving("spike")'
    BY <2>2 DEF Shield!Serving, Shield!At
  <2>7. inMap' <= made' /\ made <= made'
    BY <1>0, <2>1, <2>3
  <2>8. QED
    BY <2>1, <2>3, <2>4, <2>5, <2>6, <2>7 DEF b
<1>3. CASE \/ Shield!DeactivationLogged(h) \/ Shield!BulkCount(h) \/ Shield!BulkLook(h) \/ Shield!BulkStored(h)
           \/ Shield!ResolveRead(h) \/ Shield!ResolveWrite(h) \/ Shield!Lost(h)
  <2>1. UNCHANGED Shield!loginVars
    BY <1>3 DEF Shield!DeactivationLogged, Shield!BulkCount, Shield!BulkLook, Shield!BulkStored,
       Shield!ResolveRead, Shield!ResolveWrite, Shield!Lost
  <2>2. bucket' = bucket /\ inMap' = inMap /\ made' = made /\ spikes' = spikes
    BY <2>1 DEF Shield!loginVars
  <2>3. frame'[h].op # "spike"
    <3>1. CASE Shield!BulkCount(h)
      <4>1. frame'[h] = [op |-> "look", seen |-> logged]
        BY <1>0, <3>1 DEF Shield!BulkCount, Shield!GoOn
      <4>2. QED
        BY <4>1
    <3>2. CASE Shield!BulkLook(h) \/ Shield!BulkStored(h) \/ Shield!ResolveWrite(h) \/ Shield!Lost(h) \/ Shield!DeactivationLogged(h) \/ Shield!ResolveRead(h)
      <4>1. frame'[h] \in {Shield!Idle, [op |-> "bulk"], [op |-> "count"], [op |-> "resolve"]}
        BY <1>0, <3>2 DEF Shield!BulkLook, Shield!BulkStored, Shield!ResolveWrite, Shield!Lost, Shield!Drop,
           Shield!Finish, Shield!GoOn, Shield!DeactivationLogged, Shield!ResolveRead, Shield!Serve
      <4>2. QED
        BY <1>0, <4>1
    <3>3. QED
      BY <1>3, <3>1, <3>2
  <2>4. ShieldWarned' = ShieldWarned
    BY <2>2 DEF ShieldWarned
  <2>5. h \notin ShieldAgain' /\ h \notin Shield!Serving("spike")'
    BY <2>3 DEF ShieldAgain, Shield!Serving, Shield!At
  <2>6. QED
    BY <1>0, <2>2, <2>4, <2>5
<1>4. QED
  BY <1>1, <1>2, <1>3 DEF ShieldStepOf

LEMMA ShieldSpikeStep == ASSUME Shield!TypeOK, ShieldSpikeInv, [Shield!Next]_(Shield!vars) PROVE ShieldSpikeInv'
<1> DEFINE n == Cardinality(Handlers)
           C == ShieldAgain
           D == ShieldAgain'
           v == Cardinality(ShieldWarned)
           w == Cardinality(ShieldWarned')
<1>0. /\ n \in Nat /\ n >= 1 /\ v \in Nat /\ spikes \in Nat
      /\ spikes + Cardinality(C) <= n * v
      /\ C \subseteq Handlers /\ Cardinality(C) \in Nat /\ IsFiniteSet(ShieldWarned)
      /\ inMap \in Nat /\ made \in Nat
  <2>1. C \subseteq Handlers
    BY DEF ShieldAgain, Shield!Serving
  <2>2. inMap \in 0..MaxBuckets /\ made \in 0..MaxBuckets
    BY DEF Shield!TypeOK
  <2>3. inMap \in Nat /\ made \in Nat
    BY <2>2, ShieldConstants
  <2>4. QED
    BY <2>1, <2>3, SomeCounted, HandlersCounted, ShieldWarnedCounted DEF Shield!TypeOK, ShieldSpikeInv
<1>1. ASSUME NEW h \in Handlers, ShieldStepOf(h) PROVE ShieldSpikeInv'
  <2>1. \A g \in Handlers \ {h} : frame'[g] = frame[g]
    BY <1>1, ShieldFrameStep
  <2>2. /\ inMap' <= made' /\ made <= made'
        /\ h \in Shield!Serving("spike")' => frame'[h].bucket \in 1..made'
    BY <1>1, ShieldSpikeCases
  <2>3. made' \in Nat
    <3>1. made' \in 0..MaxBuckets
      BY <1>1, ShieldTypeStep DEF Shield!TypeOK, Shield!Next, ShieldStepOf
    <3>2. QED
      BY <3>1, ShieldConstants
  <2>4. \A g \in Shield!Serving("spike")' : frame'[g].bucket \in 1..made'
    <3>1. \A g \in Shield!Serving("spike") : frame[g].bucket \in 1..made'
      BY <1>0, <2>2, <2>3 DEF ShieldSpikeInv
    <3>2. QED
      BY <2>1, <2>2, <3>1 DEF Shield!Serving, Shield!At
  <2>5. D \in SUBSET Handlers /\ Cardinality(D) \in Nat /\ Cardinality(D) <= n
    <3>1. D \in SUBSET Handlers
      BY DEF ShieldAgain, Shield!Serving
    <3>2. QED
      BY <3>1, SomeCounted
  <2>6. ASSUME ShieldWarned' = ShieldWarned, spikes' = spikes, h \notin ShieldAgain',
               \A b \in Shield!Buckets : bucket'[b].warned = bucket[b].warned
        PROVE  ShieldSpikeInv'
    <3>1. D \ {h} = C \ {h}
      <4>1. \A g \in Handlers \ {h} : g \in Shield!Serving("spike") => frame[g].bucket \in Shield!Buckets
        BY ShieldFrameParts DEF Shield!Serving
      <4>2. QED
        BY <2>1, <2>6, <4>1 DEF ShieldAgain, Shield!Serving, Shield!At
    <3>2. Cardinality(D) <= Cardinality(C)
      BY <1>0, <2>5, <2>6, <3>1, OneMoves
    <3>3. spikes' + Cardinality(D) <= n * v
      <4> HIDE DEF C, D, n, v
      <4> DEFINE m == n * v
      <4>1. m \in Nat
        BY <1>0
      <4> HIDE DEF m
      <4>2. spikes + Cardinality(C) <= m
        BY <1>0 DEF m
      <4>3. spikes' + Cardinality(D) <= m
        BY <1>0, <2>5, <2>6, <3>2, <4>1, <4>2
      <4>4. QED
        BY <4>3 DEF m
    <3>4. ShieldWarned' \subseteq 1..made'
      BY <1>0, <2>2, <2>3, <2>6 DEF ShieldSpikeInv
    <3>5. QED
      BY <2>2, <2>4, <2>6, <3>3, <3>4 DEF ShieldSpikeInv
  <2>7. ASSUME NEW b \in Shield!Buckets,
               h \in Shield!Serving("spike"), frame[h].bucket = b, h \notin Shield!Serving("spike")',
               spikes' = spikes + 1, ShieldWarned' = ShieldWarned \cup {b}, b \in 1..made',
               bucket'[b].warned = TRUE,
               \A c \in Shield!Buckets \ {b} : bucket'[c].warned = bucket[c].warned
        PROVE  ShieldSpikeInv'
    <3>1. h \notin D
      BY <2>7 DEF ShieldAgain
    <3>2. ShieldWarned' \subseteq 1..made'
      BY <1>0, <2>2, <2>3, <2>7 DEF ShieldSpikeInv
    <3>3. CASE bucket[b].warned
      <4>1. ShieldWarned' = ShieldWarned
        BY <2>7, <3>3 DEF ShieldWarned
      <4>2. h \in C
        BY <2>7, <3>3 DEF ShieldAgain
      <4>3. \A c \in Shield!Buckets : bucket'[c].warned <=> bucket[c].warned
        BY <2>7, <3>3
      <4>4. \A g \in Handlers \ {h} : g \in Shield!Serving("spike") => frame[g].bucket \in Shield!Buckets
        BY ShieldFrameParts DEF Shield!Serving
      <4>5. D \ {h} = C \ {h}
        BY <2>1, <4>3, <4>4 DEF ShieldAgain, Shield!Serving, Shield!At
      <4>6. Cardinality(D) = Cardinality(C) - 1
        BY <1>0, <2>5, <3>1, <4>2, <4>5, OneMoves
      <4>7. spikes' + Cardinality(D) <= n * v
        <5> HIDE DEF C, D, n, v
        <5> DEFINE m == n * v
        <5>1. m \in Nat
          BY <1>0
        <5> HIDE DEF m
        <5>2. spikes + Cardinality(C) <= m
          BY <1>0 DEF m
        <5>3. spikes' + Cardinality(D) <= m
          BY <1>0, <2>7, <4>6, <5>1, <5>2
        <5>4. QED
          BY <5>3 DEF m
      <4>8. QED
        BY <2>2, <2>4, <3>2, <4>1, <4>7 DEF ShieldSpikeInv
    <3>4. CASE ~bucket[b].warned
      <4>1. b \notin ShieldWarned
        BY <3>4 DEF ShieldWarned
      <4>2. w = v + 1
        BY <1>0, <2>7, <4>1, FS_AddElement
      <4>3. Cardinality(D \ C) < n
        <5>1. D \ C \in SUBSET Handlers /\ h \notin D \ C
          BY <2>5, <3>1
        <5>2. QED
          BY <5>1, RoomForOne
      <4>4. Cardinality(D) <= Cardinality(C) + Cardinality(D \ C)
        <5>1. IsFiniteSet(C) /\ IsFiniteSet(D) /\ IsFiniteSet(D \ C) /\ D \ C \in SUBSET Handlers
          BY <1>0, <2>5, SomeCounted
        <5>2. Cardinality(D) = Cardinality(D \ C) + Cardinality(D \cap C)
          <6>1. Cardinality(D \ C) = Cardinality(D) - Cardinality(D \cap C)
            BY <5>1, FS_Difference
          <6>2. Cardinality(D \cap C) \in Nat /\ Cardinality(D \ C) \in Nat
            BY <5>1, <2>5, SomeCounted
          <6>3. QED
            BY <6>1, <6>2, <2>5
        <5>3. Cardinality(D \cap C) <= Cardinality(C)
          BY <5>1, FS_Subset
        <5>4. Cardinality(D \cap C) \in Nat /\ Cardinality(D \ C) \in Nat
          BY <5>1, <2>5, SomeCounted
        <5>5. QED
          BY <1>0, <5>2, <5>3, <5>4
      <4>5. n * w = n * v + n
        BY <1>0, <4>2, OneMore
      <4>6. spikes' + Cardinality(D) <= n * w
        <5>1. Cardinality(D \ C) \in Nat
          BY <2>5, SomeCounted
        <5>2. n * v \in Nat
          BY <1>0
        <5> DEFINE k == n * v
                   x == Cardinality(D \ C)
                   y == Cardinality(D)
                   z == Cardinality(C)
        <5>3. /\ spikes + z <= k /\ spikes' = spikes + 1 /\ y <= z + x /\ x < n
              /\ k \in Nat /\ x \in Nat /\ y \in Nat /\ z \in Nat /\ n \in Nat /\ spikes \in Nat
          BY <1>0, <2>5, <2>7, <4>3, <4>4, <5>1, <5>2
        <5> HIDE DEF k, x, y, z, n
        <5>4. spikes' + y <= k + n
          BY <5>3
        <5>5. QED
          BY <4>5, <5>4 DEF k, y
      <4>7. QED
        BY <2>2, <2>4, <3>2, <4>6 DEF ShieldSpikeInv
    <3>5. QED
      BY <3>3, <3>4
  <2>8. QED
    BY <1>1, <2>6, <2>7, ShieldSpikeCases
<1>2. CASE Shield!WindowPasses
  <2>1. /\ Shield!Serving("spike") = {} /\ frame' = frame /\ spikes' = 0 /\ made' = inMap /\ inMap' = inMap
        /\ bucket' = [b \in Shield!Buckets |-> [fails |-> 0, warned |-> FALSE]]
    BY <1>2 DEF Shield!WindowPasses
  <2>2. Shield!Serving("spike")' = {}
    BY <2>1 DEF Shield!Serving, Shield!At
  <2>3. ShieldWarned' = {} /\ ShieldAgain' = {}
    BY <2>1, <2>2 DEF ShieldWarned, ShieldAgain
  <2>4. Cardinality({}) = 0
    BY FS_EmptySet
  <2>5. spikes' + Cardinality(ShieldAgain') <= n * Cardinality(ShieldWarned')
    BY <1>0, <2>1, <2>3, <2>4
  <2>6. QED
    BY <1>0, <2>1, <2>2, <2>3, <2>5 DEF ShieldSpikeInv
<1>3. CASE Shield!Clear \/ UNCHANGED Shield!vars
  <2>1. /\ frame' = frame /\ bucket' = bucket /\ made' = made /\ spikes' = spikes /\ inMap' \in {0, inMap}
    BY <1>3 DEF Shield!Clear, Shield!vars, Shield!loginVars
  <2>2. inMap' <= made'
    BY <1>0, <2>1 DEF ShieldSpikeInv
  <2>3. QED
    BY <2>1, <2>2 DEF ShieldSpikeInv, Shield!Serving, Shield!At, ShieldWarned, ShieldAgain
<1>4. QED
  BY <1>1, <1>2, <1>3 DEF Shield!Next, ShieldStepOf

(* A spike of failed logins makes one event in ten minutes; only attempts  *)
(* that overlap make more, one for each handler and each bucket, for any   *)
(* number of attempts (registerFailedLoginAttempt).                        *)
THEOREM ShieldSpikes == Shield!Spec => []Shield!SpikesBounded
<1>1. ASSUME Shield!Init PROVE ShieldSpikeInv
  <2>1. Shield!Serving("spike") = {}
    BY <1>1 DEF Shield!Init, Shield!ServerInit, Shield!Serving, Shield!At, Shield!Idle
  <2>2. ShieldWarned = {} /\ ShieldAgain = {}
    BY <1>1, <2>1 DEF Shield!Init, ShieldWarned, ShieldAgain
  <2>3. Cardinality({}) = 0
    BY FS_EmptySet
  <2>4. spikes + Cardinality(ShieldAgain) <= Cardinality(Handlers) * Cardinality(ShieldWarned)
    BY <1>1, <2>2, <2>3, HandlersCounted DEF Shield!Init
  <2>5. QED
    BY <1>1, <2>1, <2>2, <2>4 DEF Shield!Init, ShieldSpikeInv
<1>2. ASSUME Shield!TypeOK, ShieldSpikeInv PROVE Shield!SpikesBounded
  <2>0. made \in Nat /\ IsFiniteSet(1..made) /\ Cardinality(1..made) = made
    <3>1. made \in 0..MaxBuckets
      BY <1>2 DEF Shield!TypeOK
    <3>2. made \in Nat
      BY <3>1, ShieldConstants
    <3>3. IsFiniteSet(1..made) /\ Cardinality(1..made) = IF 1 > made THEN 0 ELSE made - 1 + 1
      BY <3>2, FS_Interval
    <3>4. QED
      BY <3>2, <3>3
  <2>1. Cardinality(ShieldWarned) <= made
    <3>1. ShieldWarned \subseteq 1..made
      BY <1>2 DEF ShieldSpikeInv
    <3>2. Cardinality(ShieldWarned) <= Cardinality(1..made)
      BY <2>0, <3>1, FS_Subset
    <3>3. QED
      BY <2>0, <3>2
  <2>2. Cardinality(Handlers) * Cardinality(ShieldWarned) <= Cardinality(Handlers) * made
    BY <1>2, <2>0, <2>1, HandlersCounted, ShieldWarnedCounted, TimesGrows
  <2>3. ShieldAgain \in SUBSET Handlers
    BY DEF ShieldAgain, Shield!Serving
  <2>4. Cardinality(ShieldAgain) \in Nat
    BY <2>3, SomeCounted
  <2> DEFINE m == Cardinality(Handlers) * Cardinality(ShieldWarned)
             k == Cardinality(Handlers) * made
  <2>5. m \in Nat /\ k \in Nat /\ spikes \in Nat /\ spikes + Cardinality(ShieldAgain) <= m /\ m <= k
    BY <1>2, <2>0, <2>2, HandlersCounted, ShieldWarnedCounted DEF ShieldSpikeInv, Shield!TypeOK
  <2> HIDE DEF m, k
  <2>6. spikes <= k
    BY <2>4, <2>5
  <2>7. QED
    BY <2>6, ShieldCount DEF Shield!SpikesBounded, k
<1>3. QED
  BY <1>1, <1>2, ShieldSpikeStep, ShieldTypeCorrect, PTL DEF Shield!Spec

\* Deactivations.

\* What a step of h does to the event about deactivations.
LEMMA ShieldBulkCases ==
  ASSUME Shield!TypeOK, NEW h \in Handlers, ShieldStepOf(h)
  PROVE  \/ h \in Shield!Serving("count")' /\ h \notin Shield!Serving("bulk") \cup Shield!Serving("bulk")' /\ bulk' = bulk
         \/ /\ h \in Shield!Serving("count") /\ h \in Shield!Serving("look")' /\ frame'[h].seen = logged
            /\ h \notin Shield!Serving("bulk") \cup Shield!Serving("bulk")' /\ UNCHANGED <<logged, bulk, cut>>
         \/ /\ h \in Shield!Serving("look") /\ h \in Shield!Serving("bulk")' /\ bulk = 0 /\ UNCHANGED <<logged, bulk, cut>>
         \/ /\ h \in Shield!Serving("look") /\ h \notin Shield!Serving("bulk") \cup Shield!Serving("bulk")'
            /\ ~(frame[h].seen > BulkAbove /\ bulk = 0) /\ UNCHANGED <<logged, bulk, cut>>
         \/ h \in Shield!Serving("bulk") /\ h \notin Shield!Serving("bulk")' /\ bulk' = bulk + 1 /\ UNCHANGED <<logged, cut>>
         \/ /\ h \notin Shield!Serving("count") \cup Shield!Serving("look") \cup Shield!Serving("bulk") \cup Shield!Serving("bulk")'
            /\ UNCHANGED <<logged, bulk, cut>>
         \/ h \notin Shield!Serving("bulk")' /\ cut' = TRUE /\ UNCHANGED <<logged, bulk>>
<1>0. frame \in [Handlers -> ShieldFrames] /\ Shield!Idle.op = "idle"
  BY DEF Shield!TypeOK, ShieldFrames, Shield!Idle
<1>1. CASE Shield!DeactivationLogged(h)
  <2>1. frame[h].op = "idle" /\ frame'[h] = [op |-> "count"]
    BY <1>0, <1>1 DEF Shield!DeactivationLogged, Shield!Serve
  <2>2. frame'[h].op = "count"
    BY <2>1
  <2>3. QED
    BY <1>1, <2>1, <2>2 DEF Shield!DeactivationLogged, Shield!Serving, Shield!At
<1>2. CASE Shield!BulkCount(h)
  <2>1. frame[h].op = "count" /\ frame'[h] = [op |-> "look", seen |-> logged]
    BY <1>0, <1>2 DEF Shield!BulkCount, Shield!GoOn, Shield!At
  <2>2. frame'[h].op = "look" /\ frame'[h].seen = logged
    BY <2>1
  <2>3. QED
    BY <1>2, <2>1, <2>2 DEF Shield!BulkCount, Shield!bulkVars, Shield!Serving, Shield!At
<1>3. CASE Shield!BulkLook(h)
  <2>1. frame[h].op = "look" /\ UNCHANGED <<logged, bulk, cut>>
    BY <1>3 DEF Shield!BulkLook, Shield!At, Shield!bulkVars
  <2>2. CASE frame[h].seen > BulkAbove /\ bulk = 0
    <3>1. frame'[h] = [op |-> "bulk"]
      BY <1>0, <1>3, <2>2 DEF Shield!BulkLook, Shield!GoOn
    <3>2. frame'[h].op = "bulk"
      BY <3>1
    <3>3. QED
      BY <2>1, <2>2, <3>2 DEF Shield!Serving, Shield!At
  <2>3. CASE ~(frame[h].seen > BulkAbove /\ bulk = 0)
    <3>1. frame'[h] = Shield!Idle
      BY <1>0, <1>3, <2>3 DEF Shield!BulkLook, Shield!GoOn, Shield!Finish
    <3>2. QED
      BY <1>0, <2>1, <2>3, <3>1 DEF Shield!Serving, Shield!At
  <2>4. QED
    BY <2>2, <2>3
<1>4. CASE Shield!BulkStored(h)
  <2>1. frame[h].op = "bulk" /\ frame'[h] = Shield!Idle /\ bulk' = bulk + 1 /\ UNCHANGED <<logged, cut>>
    BY <1>0, <1>4 DEF Shield!BulkStored, Shield!Finish, Shield!GoOn, Shield!At
  <2>2. QED
    BY <1>0, <2>1 DEF Shield!Serving, Shield!At
<1>5. CASE Shield!Lost(h)
  <2>1. /\ frame'[h] = Shield!Idle /\ cut' = (cut \/ frame[h].op \in {"count", "look", "bulk"})
        /\ UNCHANGED <<logged, bulk>>
    BY <1>0, <1>5 DEF Shield!Lost, Shield!Drop, Shield!Finish, Shield!GoOn
  <2>2. CASE frame[h].op \in {"count", "look", "bulk"}
    BY <1>0, <2>1, <2>2 DEF Shield!Serving, Shield!At
  <2>3. CASE frame[h].op \notin {"count", "look", "bulk"}
    <3>1. cut' = cut
      BY <2>1, <2>3 DEF Shield!TypeOK
    <3>2. QED
      BY <1>0, <2>1, <2>3, <3>1 DEF Shield!Serving, Shield!At
  <2>4. QED
    BY <2>2, <2>3
<1>6. CASE Shield!Fail(h) \/ Shield!SpikeStored(h) \/ Shield!ResolveRead(h) \/ Shield!ResolveWrite(h)
  <2>1. frame[h].op \notin {"count", "look", "bulk"} /\ frame'[h].op # "bulk"
    <3>1. CASE Shield!Fail(h)
      <4> DEFINE b == IF inMap = 0 THEN made + 1 ELSE inMap
      <4>1. frame[h] = Shield!Idle /\ (frame'[h] = Shield!Idle \/ frame'[h] = [op |-> "spike", bucket |-> b])
        BY <1>0, <3>1 DEF Shield!Fail, Shield!Counted, Shield!Serve
      <4> HIDE DEF b
      <4>2. QED
        BY <1>0, <4>1
    <3>2. CASE Shield!SpikeStored(h) \/ Shield!ResolveWrite(h)
      BY <1>0, <3>2 DEF Shield!SpikeStored, Shield!ResolveWrite, Shield!Finish, Shield!GoOn, Shield!At
    <3>3. CASE Shield!ResolveRead(h)
      <4>1. frame[h] = Shield!Idle /\ frame'[h] = [op |-> "resolve"]
        BY <1>0, <3>3 DEF Shield!ResolveRead, Shield!Serve
      <4>2. QED
        BY <1>0, <4>1
    <3>4. QED
      BY <1>6, <3>1, <3>2, <3>3
  <2>2. UNCHANGED <<logged, bulk, cut>>
    BY <1>6 DEF Shield!Fail, Shield!SpikeStored, Shield!ResolveRead, Shield!ResolveWrite, Shield!bulkVars
  <2>3. QED
    BY <2>1, <2>2 DEF Shield!Serving, Shield!At
<1>7. QED
  BY <1>1, <1>2, <1>3, <1>4, <1>5, <1>6 DEF ShieldStepOf

LEMMA ShieldBulkStep == ASSUME Shield!TypeOK, ShieldBulkInv, [Shield!Next]_(Shield!vars) PROVE ShieldBulkInv'
<1>0. bulk \in Nat /\ Cardinality(Handlers) \in Nat
  BY HandlersCounted DEF Shield!TypeOK
<1>1. ASSUME NEW h \in Handlers, ShieldStepOf(h) PROVE ShieldBulkInv'
  <2> DEFINE C == Shield!Serving("bulk")
             D == Shield!Serving("bulk")'
             n == Cardinality(Handlers)
             Coming == \/ bulk > 0
                       \/ Shield!Serving("count") \cup Shield!Serving("bulk") # {}
                       \/ \E g \in Shield!Serving("look") : frame[g].seen > BulkAbove
  <2>1. \A g \in Handlers \ {h} : frame'[g] = frame[g]
    BY <1>1, ShieldFrameStep
  <2>2. /\ C \in SUBSET Handlers /\ D \in SUBSET Handlers /\ D \ {h} = C \ {h}
    BY <2>1 DEF Shield!Serving, Shield!At
  <2>3. /\ Cardinality(C) \in Nat /\ Cardinality(D) \in Nat /\ Cardinality(D) <= n
        /\ h \notin D => Cardinality(D) <= Cardinality(C)
        /\ h \in C /\ h \notin D => Cardinality(D) = Cardinality(C) - 1
    BY <2>2, SomeCounted, OneMoves
  <2>4. bulk' + Cardinality(D) <= n
    <3>1. \/ h \notin D /\ bulk' = bulk
          \/ h \in D /\ bulk' = bulk /\ bulk = 0
          \/ h \in C /\ h \notin D /\ bulk' = bulk + 1
      BY <1>1, ShieldBulkCases
    <3>2. bulk + Cardinality(C) <= n
      BY DEF ShieldBulkInv
    <3> HIDE DEF C, D, n
    <3>3. QED
      BY <1>0, <2>3, <3>1, <3>2 DEF n
  <2>5. ASSUME logged' > BulkAbove, ~cut' PROVE Coming'
    <3>1. ASSUME UNCHANGED <<logged, bulk, cut>>,
                 ~(/\ h \in Shield!Serving("look") /\ frame[h].seen > BulkAbove) \/ h \in Shield!Serving("bulk")',
                 h \notin Shield!Serving("count") \cup Shield!Serving("bulk")
                   \/ (h \in Shield!Serving("look")' /\ frame'[h].seen = logged)
          PROVE  Coming'
      <4>1. Coming
        BY <2>5, <3>1 DEF ShieldBulkInv
      <4>2. CASE h \in Shield!Serving("bulk")' \/ (h \in Shield!Serving("look")' /\ frame'[h].seen = logged)
        BY <2>5, <3>1, <4>2
      <4>3. CASE ~(h \in Shield!Serving("bulk")' \/ (h \in Shield!Serving("look")' /\ frame'[h].seen = logged))
        BY <2>1, <3>1, <4>1, <4>3 DEF Shield!Serving, Shield!At
      <4>4. QED
        BY <4>2, <4>3
    <3>2. CASE h \in Shield!Serving("count")' \/ cut' = TRUE
      BY <2>5, <3>2
    <3>3. CASE /\ h \in Shield!Serving("count") /\ h \in Shield!Serving("look")' /\ frame'[h].seen = logged
               /\ UNCHANGED <<logged, bulk, cut>>
      BY <2>5, <3>3
    <3>4. CASE h \in Shield!Serving("look") /\ h \in Shield!Serving("bulk")'
      BY <3>4
    <3>5. CASE /\ h \in Shield!Serving("look") /\ ~(frame[h].seen > BulkAbove /\ bulk = 0) /\ UNCHANGED <<logged, bulk, cut>>
      <4>1. CASE bulk = 0
        <5>1. h \notin Shield!Serving("count") \cup Shield!Serving("bulk")
          BY <3>5 DEF Shield!Serving, Shield!At
        <5>2. QED
          BY <3>1, <3>5, <4>1, <5>1
      <4>2. CASE bulk # 0
        BY <1>0, <3>5, <4>2
      <4>3. QED
        BY <4>1, <4>2
    <3>6. CASE bulk' = bulk + 1
      BY <1>0, <3>6
    <3>7. CASE /\ h \notin Shield!Serving("count") \cup Shield!Serving("look") \cup Shield!Serving("bulk") \cup Shield!Serving("bulk")'
               /\ UNCHANGED <<logged, bulk, cut>>
      BY <3>1, <3>7
    <3>8. QED
      BY <1>1, <3>2, <3>3, <3>4, <3>5, <3>6, <3>7, ShieldBulkCases
  <2>6. QED
    BY <2>4, <2>5 DEF ShieldBulkInv
<1>2. CASE Shield!Clear \/ Shield!WindowPasses \/ UNCHANGED Shield!vars
  <2>1. UNCHANGED <<frame, logged, bulk, cut>>
    BY <1>2 DEF Shield!Clear, Shield!WindowPasses, Shield!vars, Shield!bulkVars
  <2>2. QED
    BY <2>1 DEF ShieldBulkInv, Shield!Serving, Shield!At
<1>3. QED
  BY <1>1, <1>2 DEF Shield!Next, ShieldStepOf

(* When more users than allowed were deactivated, and every request has    *)
(* ended, there is an event about it, and at most one for each handler, for*)
(* any number of deactivations (detectBulkUserDeactivation).               *)
THEOREM ShieldNoticed == Shield!Spec => []Shield!BulkNoticed
<1>1. ASSUME Shield!Init PROVE ShieldBulkInv
  <2>1. /\ Shield!Serving("bulk") = {} /\ Shield!Serving("count") = {}
    BY <1>1 DEF Shield!Init, Shield!ServerInit, Shield!Serving, Shield!At, Shield!Idle
  <2>2. Cardinality({}) = 0
    BY FS_EmptySet
  <2>3. QED
    <3>1. logged = 0 /\ bulk = 0 /\ BulkAbove \in Nat
      BY <1>1, ShieldConstants DEF Shield!Init
    <3>2. ~(logged > BulkAbove)
      BY <3>1
    <3>3. bulk + Cardinality(Shield!Serving("bulk")) <= Cardinality(Handlers)
      BY <2>1, <2>2, <3>1, HandlersCounted
    <3>4. QED
      BY <3>2, <3>3 DEF ShieldBulkInv
<1>2. ASSUME Shield!TypeOK, ShieldBulkInv PROVE Shield!BulkNoticed
  <2>1. Shield!Serving("bulk") \in SUBSET Handlers
    BY DEF Shield!Serving
  <2>2. Cardinality(Shield!Serving("bulk")) \in Nat /\ bulk \in Nat /\ Cardinality(Handlers) \in Nat
    BY <1>2, <2>1, SomeCounted, HandlersCounted DEF Shield!TypeOK
  <2>3. bulk <= Cardinality(Handlers)
    BY <1>2, <2>2 DEF ShieldBulkInv
  <2>4. QED
    BY <1>2, <2>3, ShieldCount DEF ShieldBulkInv, Shield!BulkNoticed
<1>3. QED
  BY <1>1, <1>2, ShieldBulkStep, ShieldTypeCorrect, PTL DEF Shield!Spec
=============================================================================
