------------------------------ MODULE SumProofs ------------------------------
(***************************************************************************)
(* Smallest sets, and sums of a function over a finite set.  What would be *)
(* induction over sets is argued from a smallest counterexample.           *)
(***************************************************************************)
EXTENDS Integers, FiniteSetTheorems, TLAPS

(* Among sets of elements of a finite set there is a smallest one. *)
LEMMA SmallestSubset ==
  ASSUME NEW S, IsFiniteSet(S), NEW F \in SUBSET SUBSET S, F # {}
  PROVE  \E T \in F : \A U \in F : U \subseteq T => U = T
<1>1. IsWellFoundedOn(StrictSubsetOrdering(S), FiniteSubsetsOf(S))
  BY FS_StrictSubsetOrderingWellFounded
<1>2. IsWellFoundedOn(StrictSubsetOrdering(S), SUBSET S)
  BY <1>1, FS_FiniteSubsetsOfFinite
<1>3. \E T \in F : \A U \in F : <<U, T>> \notin StrictSubsetOrdering(S)
  BY <1>2, WFMin
<1>4. QED
  BY <1>3 DEF StrictSubsetOrdering

-----------------------------------------------------------------------------
(* The fold over a set takes its elements one by one, always in the same order. *)
Pick(s) == CHOOSE x \in s : TRUE
Body(f, it, s) == IF s = {} THEN 0 ELSE f[Pick(s)] + it[s \ {Pick(s)}]
IsSums(f, S, it) == it = [s \in SUBSET S |-> Body(f, it, s)]
PartSums(f, S) == CHOOSE it : IsSums(f, S, it)

LEMMA PickIsIn ==
  ASSUME NEW s, s # {}
  PROVE  /\ Pick(s) \in s
         /\ s \ {Pick(s)} \subseteq s /\ s \ {Pick(s)} # s
BY DEF Pick

(* Two sums over parts of a set agree where both are defined. *)
LEMMA SumsAgree ==
  ASSUME NEW f, NEW S, IsFiniteSet(S), NEW A \in SUBSET S, NEW B \in SUBSET S,
         NEW it, IsSums(f, A, it), NEW jt, IsSums(f, B, jt)
  PROVE  \A s \in SUBSET S : s \subseteq A /\ s \subseteq B => it[s] = jt[s]
<1> DEFINE F == {s \in SUBSET S : s \subseteq A /\ s \subseteq B /\ it[s] # jt[s]}
<1>1. SUFFICES ASSUME F # {}
               PROVE  FALSE
  OBVIOUS
<1>2. F \in SUBSET SUBSET S
  OBVIOUS
<1>3. PICK s \in F : \A u \in F : u \subseteq s => u = s
  <2> HIDE DEF F
  <2>1. QED
    BY <1>1, <1>2, SmallestSubset
<1>4. it[s] = Body(f, it, s) /\ jt[s] = Body(f, jt, s)
  BY <1>3 DEF IsSums
<1>5. s # {}
  BY <1>3, <1>4 DEF Body
<1>6. s \ {Pick(s)} \subseteq s /\ s \ {Pick(s)} # s
  BY <1>5, PickIsIn
<1>7. s \ {Pick(s)} \notin F
  BY <1>3, <1>6
<1>8. it[s \ {Pick(s)}] = jt[s \ {Pick(s)}]
  BY <1>3, <1>6, <1>7
<1>9. QED
  BY <1>3, <1>4, <1>5, <1>8 DEF Body

(* The sums over a finite set exist: over a smallest set without them, they would *)
(* be put together from those over its parts.                                     *)
LEMMA SumsExist ==
  ASSUME NEW f, NEW S, IsFiniteSet(S)
  PROVE  \E it : IsSums(f, S, it)
<1> DEFINE F == {T \in SUBSET S : ~\E it : IsSums(f, T, it)}
<1>1. SUFFICES ASSUME F # {}
               PROVE  FALSE
  OBVIOUS
<1>2. F \in SUBSET SUBSET S
  OBVIOUS
<1>3. PICK T \in F : \A U \in F : U \subseteq T => U = T
  <2> HIDE DEF F
  <2>1. QED
    BY <1>1, <1>2, SmallestSubset
<1> DEFINE part(U) == CHOOSE it : IsSums(f, U, it)
           w == [U \in SUBSET T |-> part(U)[U]]
           g == [s \in SUBSET T |-> Body(f, w, s)]
<1>4. \A U \in SUBSET T : U # T => IsSums(f, U, part(U))
  BY <1>3
<1> HIDE DEF F, part
<1>5. ASSUME NEW U \in SUBSET T, U # T
      PROVE  w[U] = Body(f, w, U)
  <2>1. IsSums(f, U, part(U))
    BY <1>4, <1>5
  <2>2. w[U] = Body(f, part(U), U)
    BY <2>1 DEF IsSums
  <2>3. CASE U = {}
    BY <2>2, <2>3 DEF Body
  <2>4. CASE U # {}
    <3> DEFINE V == U \ {Pick(U)}
    <3>1. V \subseteq U /\ V # U /\ V \in SUBSET T /\ V # T
      BY <2>4, PickIsIn
    <3>2. IsSums(f, V, part(V))
      BY <1>4, <3>1
    <3>3. U \in SUBSET S /\ V \in SUBSET S
      BY <1>2, <1>3, <3>1
    <3>4. part(U)[V] = part(V)[V]
      <4> HIDE DEF V
      <4>1. QED
        BY <2>1, <3>1, <3>2, <3>3, SumsAgree
    <3>5. w[V] = part(V)[V]
      BY <3>1
    <3>6. QED
      BY <2>2, <2>4, <3>4, <3>5 DEF Body
  <2>5. QED
    BY <2>3, <2>4
<1>6. ASSUME NEW s \in SUBSET T
      PROVE  Body(f, w, s) = Body(f, g, s)
  <2>1. CASE s = {}
    BY <2>1 DEF Body
  <2>2. CASE s # {}
    <3> DEFINE V == s \ {Pick(s)}
    <3>1. V \in SUBSET T /\ V # T
      BY <2>2, PickIsIn
    <3>2. w[V] = g[V]
      BY <1>5, <3>1
    <3>3. QED
      BY <2>2, <3>2 DEF Body
  <2>3. QED
    BY <2>1, <2>2
<1>7. IsSums(f, T, g)
  <2> HIDE DEF w
  <2>1. g = [s \in SUBSET T |-> Body(f, g, s)]
    BY <1>6
  <2>2. QED
    BY <2>1 DEF IsSums
<1>8. QED
  BY <1>3, <1>7 DEF F

LEMMA SumsAre ==
  ASSUME NEW f, NEW S, IsFiniteSet(S)
  PROVE  /\ PartSums(f, S)[{}] = 0
         /\ \A s \in SUBSET S : s # {} =>
              PartSums(f, S)[s] = f[Pick(s)] + PartSums(f, S)[s \ {Pick(s)}]
<1>1. IsSums(f, S, PartSums(f, S))
  BY SumsExist DEF PartSums
<1>2. \A s \in SUBSET S : PartSums(f, S)[s] = Body(f, PartSums(f, S), s)
  BY <1>1 DEF IsSums
<1>3. QED
  BY <1>2 DEF Body

LEMMA AnySumsAre ==
  ASSUME NEW S, IsFiniteSet(S)
  PROVE  \A k : /\ PartSums(k, S)[{}] = 0
               /\ \A s \in SUBSET S : s # {} =>
                    PartSums(k, S)[s] = k[Pick(s)] + PartSums(k, S)[s \ {Pick(s)}]
BY SumsAre

(* What is added to one term, a loss perhaps, is added to the sums that have it. *)
LEMMA SumsGrow ==
  ASSUME NEW S, IsFiniteSet(S), NEW f, \A e \in S : f[e] \in Int,
         NEW x, NEW h \in Int, NEW g,
         \A e \in S : e # x => g[e] = f[e], x \in S => g[x] = f[x] + h
  PROVE  /\ PartSums(f, S)[S] \in Int
         /\ x \in S => PartSums(g, S)[S] = PartSums(f, S)[S] + h
         /\ x \notin S => PartSums(g, S)[S] = PartSums(f, S)[S]
<1> DEFINE a(s) == PartSums(f, S)[s]
           b(s) == PartSums(g, S)[s]
           F == {s \in SUBSET S : ~ /\ a(s) \in Int
                                    /\ x \in s => b(s) = a(s) + h
                                    /\ x \notin s => b(s) = a(s)}
<1>1. SUFFICES ASSUME F # {}
               PROVE  FALSE
  OBVIOUS
<1>2. F \in SUBSET SUBSET S
  OBVIOUS
<1>3. /\ a({}) = 0 /\ \A s \in SUBSET S : s # {} => a(s) = f[Pick(s)] + a(s \ {Pick(s)})
      /\ b({}) = 0 /\ \A s \in SUBSET S : s # {} => b(s) = g[Pick(s)] + b(s \ {Pick(s)})
  BY AnySumsAre
<1> HIDE DEF a, b
<1>4. PICK s \in F : \A u \in F : u \subseteq s => u = s
  <2> HIDE DEF F
  <2>1. QED
    BY <1>1, <1>2, SmallestSubset
<1>5. s # {} /\ s \in SUBSET S
  <2>1. {} \notin F
    BY <1>3
  <2>2. QED
    BY <1>4, <2>1
<1> DEFINE u == s \ {Pick(s)}
<1>6. Pick(s) \in s /\ u \subseteq s /\ u # s /\ Pick(s) \notin u
  BY <1>5, PickIsIn
<1>7. /\ a(u) \in Int
      /\ x \in u => b(u) = a(u) + h
      /\ x \notin u => b(u) = a(u)
  BY <1>4, <1>5, <1>6
<1>8. a(s) = f[Pick(s)] + a(u) /\ b(s) = g[Pick(s)] + b(u) /\ f[Pick(s)] \in Int
  BY <1>3, <1>5, <1>6
<1>9. x \in s <=> x \in u \/ x = Pick(s)
  BY <1>6
<1>10. /\ Pick(s) # x => g[Pick(s)] = f[Pick(s)]
       /\ Pick(s) = x => g[Pick(s)] = f[Pick(s)] + h
  BY <1>5, <1>6
<1> HIDE DEF u
<1>11. /\ a(s) \in Int
       /\ x \in s => b(s) = a(s) + h
       /\ x \notin s => b(s) = a(s)
  <2>1. CASE x = Pick(s)
    <3>1. x \notin u /\ x \in s
      BY <1>6, <2>1
    <3>2. QED
      BY <1>7, <1>8, <1>10, <2>1, <3>1
  <2>2. CASE x # Pick(s)
    <3>1. x \in s <=> x \in u
      BY <1>9, <2>2
    <3>2. QED
      BY <1>7, <1>8, <1>10, <2>2, <3>1
  <2>3. QED
    BY <2>1, <2>2
<1>12. QED
  BY <1>4, <1>11

LEMMA SumsOfNothing ==
  ASSUME NEW S, IsFiniteSet(S), NEW f, \A e \in S : f[e] = 0
  PROVE  PartSums(f, S)[S] = 0
<1> DEFINE a(s) == PartSums(f, S)[s]
           F == {s \in SUBSET S : a(s) # 0}
<1>1. SUFFICES ASSUME F # {}
               PROVE  FALSE
  OBVIOUS
<1>2. F \in SUBSET SUBSET S
  OBVIOUS
<1>3. a({}) = 0 /\ \A s \in SUBSET S : s # {} => a(s) = f[Pick(s)] + a(s \ {Pick(s)})
  BY SumsAre
<1> HIDE DEF a
<1>4. PICK s \in F : \A u \in F : u \subseteq s => u = s
  <2> HIDE DEF F
  <2>1. QED
    BY <1>1, <1>2, SmallestSubset
<1>5. s # {} /\ s \in SUBSET S
  BY <1>3, <1>4
<1>6. Pick(s) \in s /\ s \ {Pick(s)} \subseteq s /\ s \ {Pick(s)} # s
  BY <1>5, PickIsIn
<1>7. a(s \ {Pick(s)}) = 0
  BY <1>4, <1>5, <1>6
<1>8. a(s) = 0 + 0
  BY <1>3, <1>5, <1>6, <1>7
<1>9. QED
  BY <1>4, <1>8

(* A sum of natural numbers is one. *)
LEMMA SumsOfNumbers ==
  ASSUME NEW S, IsFiniteSet(S), NEW f, \A e \in S : f[e] \in Nat
  PROVE  PartSums(f, S)[S] \in Nat
<1> DEFINE a(s) == PartSums(f, S)[s]
           F == {s \in SUBSET S : a(s) \notin Nat}
<1>1. SUFFICES ASSUME F # {}
               PROVE  FALSE
  OBVIOUS
<1>2. F \in SUBSET SUBSET S
  OBVIOUS
<1>3. a({}) = 0 /\ \A s \in SUBSET S : s # {} => a(s) = f[Pick(s)] + a(s \ {Pick(s)})
  <2> HIDE DEF F
  <2>1. QED
    BY SumsAre
<1> HIDE DEF a
<1>4. PICK s \in F : \A u \in F : u \subseteq s => u = s
  <2> HIDE DEF F
  <2>1. QED
    BY <1>1, <1>2, SmallestSubset
<1>5. s # {} /\ s \in SUBSET S
  BY <1>3, <1>4
<1>6. Pick(s) \in s /\ s \ {Pick(s)} \subseteq s /\ s \ {Pick(s)} # s
  BY <1>5, PickIsIn
<1>7. a(s \ {Pick(s)}) \in Nat
  BY <1>4, <1>5, <1>6
<1>8. a(s) = f[Pick(s)] + a(s \ {Pick(s)}) /\ f[Pick(s)] \in Nat
  BY <1>3, <1>5, <1>6
<1>9. QED
  BY <1>4, <1>7, <1>8

=============================================================================
