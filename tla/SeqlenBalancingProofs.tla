------------------------ MODULE SeqlenBalancingProofs ------------------------
(***************************************************************************)
(* Proofs about the algorithms that move the rows of a batch, for batches  *)
(* of any size, sequences of any length and any number of ranks, workers   *)
(* and micro-batches: that chunks put together are the batch, that the     *)
(* differencing method and the ways of balancing built on it give every    *)
(* row one place, that restore_dynamic_batch undoes the cut into micro-    *)
(* batches, and that a mesh hands back what was dispatched, in order.      *)
(*                                                                         *)
(* The algorithms are recursive or sort.  The induction they need is one   *)
(* on sets of numbers (SetInduction): what is said of n is said of the set *)
(* of the numbers it holds of.  A sequence "lists" a set when it has every *)
(* element of the set once; every algorithm here turns lists into lists.   *)
(***************************************************************************)
EXTENDS SeqlenBalancing, FiniteSetTheorems, SequenceTheorems, TLAPS

-----------------------------------------------------------------------------
(* Induction over numbers, on sets: a predicate of n is proved for all n   *)
(* by proving that the set of the numbers it holds of is all of Nat.       *)

LEMMA LeastNumber ==
  ASSUME NEW T, T \subseteq Nat, T # {}
  PROVE  \E x \in T : \A y \in T : x <= y
<1> DEFINE Initial == { 0..x : x \in T }
<1>1. Initial \subseteq FiniteSubsetsOf(Nat) /\ Initial # {}
  <2>1. \A x \in T : IsFiniteSet(0..x) /\ 0..x \in SUBSET Nat
    BY FS_Interval
  <2> QED BY <2>1 DEF FiniteSubsetsOf
<1>2. PICK least \in Initial :
        \A other \in Initial : ~ (<< other, least >> \in StrictSubsetOrdering(Nat))
  BY <1>1, FS_StrictSubsetOrderingWellFounded, WFMin
<1>3. PICK x \in T : least = 0..x
  BY <1>2
<1>4. ASSUME NEW y \in T, y < x PROVE FALSE
  <2>1. 0..y \in Initial /\ 0..y \subseteq 0..x /\ x \in 0..x /\ x \notin 0..y
    BY <1>4
  <2>2. << 0..y, least >> \in StrictSubsetOrdering(Nat)
    BY <1>3, <2>1 DEF StrictSubsetOrdering
  <2> QED BY <1>2, <2>1, <2>2
<1> QED BY <1>4

LEMMA SetInduction ==
  ASSUME NEW S, 0 \in S, \A n \in Nat : n \in S => n + 1 \in S
  PROVE  \A n \in Nat : n \in S
<1> DEFINE T == Nat \ S
<1> SUFFICES ASSUME T # {} PROVE FALSE
  OBVIOUS
<1>1. PICK x \in T : \A y \in T : x <= y
  BY LeastNumber
<1>2. x # 0 /\ x \in Nat
  OBVIOUS
<1>3. x - 1 \in Nat /\ x - 1 \notin T
  BY <1>1, <1>2
<1>4. x - 1 + 1 \in S
  BY <1>3
<1> QED BY <1>4, <1>2

LEMMA BoundedInduction ==
  ASSUME NEW n \in Nat, NEW S, 0 \in S, \A i \in 1..n : i - 1 \in S => i \in S
  PROVE  \A i \in 0..n : i \in S
<1> DEFINE T == { m \in Nat : m <= n => m \in S }
<1>1. 0 \in T
  OBVIOUS
<1>2. ASSUME NEW m \in Nat, m \in T PROVE m + 1 \in T
  <2> SUFFICES ASSUME m + 1 <= n PROVE m + 1 \in S
    OBVIOUS
  <2>1. m + 1 \in 1..n /\ (m + 1) - 1 = m /\ m \in S
    BY <1>2
  <2> QED BY <2>1
<1> HIDE DEF T
<1>3. \A m \in Nat : m \in T
  BY <1>1, <1>2, SetInduction
<1> QED BY <1>3 DEF T

\* A function defined by recursion on its argument exists.
Recurs(f, n, base, step) == f = [i \in 0..n |-> IF i = 0 THEN base ELSE step[<< i, f[i - 1] >>]]

LEMMA Recursion ==
  ASSUME NEW n \in Nat, NEW base, NEW step
  PROVE  \E f : Recurs(f, n, base, step)
<1> DEFINE Upto(m) == \E f : Recurs(f, m, base, step)
           S == { m \in Nat : m <= n => Upto(m) }
<1> HIDE DEF Upto
<1>1. 0 \in S
  <2>1. Upto(0)
    <3> DEFINE f == [i \in 0..0 |-> base]
    <3>1. f = [i \in 0..0 |-> IF i = 0 THEN base ELSE step[<< i, f[i - 1] >>]]
      OBVIOUS
    <3>2. Recurs(f, 0, base, step)
      BY <3>1 DEF Recurs
    <3> QED BY <3>2 DEF Upto
  <2> QED BY <2>1
<1>2. ASSUME NEW m \in Nat, m \in S PROVE m + 1 \in S
  <2>1. SUFFICES ASSUME m + 1 <= n PROVE Upto(m + 1)
    OBVIOUS
  <2>2. PICK f : f = [i \in 0..m |-> IF i = 0 THEN base ELSE step[<< i, f[i - 1] >>]]
    BY <1>2, <2>1 DEF Upto, Recurs
  <2> DEFINE g == [i \in 0..(m + 1) |-> IF i = m + 1 THEN step[<< m + 1, f[m] >>] ELSE f[i]]
  <2>3. ASSUME NEW i \in 0..(m + 1)
        PROVE  g[i] = IF i = 0 THEN base ELSE step[<< i, g[i - 1] >>]
    <3>1. CASE i = m + 1
      BY <3>1
    <3>2. CASE i # m + 1
      <4>1. i \in 0..m /\ f[i] = IF i = 0 THEN base ELSE step[<< i, f[i - 1] >>]
        BY <3>2, <2>2
      <4>2. g[i] = f[i] /\ (i # 0 => g[i - 1] = f[i - 1])
        BY <3>2
      <4> QED BY <4>1, <4>2
    <3> QED BY <3>1, <3>2
  <2>4. g = [i \in 0..(m + 1) |-> IF i = 0 THEN base ELSE step[<< i, g[i - 1] >>]]
    <3>1. g = [i \in 0..(m + 1) |-> g[i]]
      OBVIOUS
    <3> HIDE DEF g
    <3> QED BY <2>3, <3>1
  <2>5. Recurs(g, m + 1, base, step)
    <3> HIDE DEF g
    <3> QED BY <2>4 DEF Recurs
  <2> QED BY <2>5 DEF Upto
<1> HIDE DEF S
<1>3. n \in S
  BY <1>1, <1>2, SetInduction
<1> QED BY <1>3 DEF S, Upto

-----------------------------------------------------------------------------
(* Sequences that list the elements of a set, each of them once.           *)

OneToOne(s) == \A i, j \in 1..Len(s) : s[i] = s[j] => i = j
Lists(s, S) == s \in Seq(S) /\ OneToOne(s) /\ \A x \in S : \E i \in 1..Len(s) : s[i] = x

\* t has the entries of s in another order
Permutes(t, s) ==
  \E p \in Seq(1..Len(s)) :
    Lists(p, 1..Len(s)) /\ Len(p) = Len(s) /\ t = [i \in 1..Len(s) |-> s[p[i]]]

\* t is s with x inserted at place
HasInserted(t, s, place, x) ==
  /\ Len(t) = Len(s) + 1
  /\ \A i \in 1..(Len(s) + 1) :
       t[i] = IF i < place THEN s[i] ELSE IF i = place THEN x ELSE s[i - 1]

LEMMA InsertEntries ==
  ASSUME NEW A, NEW s \in Seq(A), NEW x \in A, NEW place \in 1..(Len(s) + 1)
  PROVE  InsertAt(s, place, x) \in Seq(A) /\ HasInserted(InsertAt(s, place, x), s, place, x)
<1> DEFINE front == SubSeq(s, 1, place - 1)
           back == SubSeq(s, place, Len(s))
<1>1. front \in Seq(A) /\ Len(front) = place - 1 /\ \A i \in 1..(place - 1) : front[i] = s[i]
  OBVIOUS
<1>2. back \in Seq(A) /\ Len(back) = Len(s) + 1 - place
      /\ \A i \in 1..(Len(s) + 1 - place) : back[i] = s[place + i - 1]
  OBVIOUS
<1>3. InsertAt(s, place, x) = (front \o << x >>) \o back
  BY DEF InsertAt
<1> HIDE DEF front, back
<1> DEFINE head == front \o << x >>
<1>4. head \in Seq(A) /\ Len(head) = place /\ head[place] = x
      /\ \A i \in 1..(place - 1) : head[i] = front[i]
  BY <1>1
<1> HIDE DEF head
<1>5. /\ head \o back \in Seq(A) /\ Len(head \o back) = Len(s) + 1
      /\ \A i \in 1..(Len(s) + 1) :
           (head \o back)[i] = IF i <= place THEN head[i] ELSE back[i - place]
  <2>1. Len(s) \in Nat /\ Len(head) + Len(back) = Len(s) + 1
    BY <1>2, <1>4
  <2> QED BY <1>2, <1>4, <2>1, ConcatProperties
<1>6. ASSUME NEW i \in 1..(Len(s) + 1)
      PROVE  (head \o back)[i] = IF i < place THEN s[i] ELSE IF i = place THEN x ELSE s[i - 1]
  <2>1. CASE i <= place
    BY <2>1, <1>1, <1>4, <1>5
  <2>2. CASE i > place
    <3>1. (head \o back)[i] = back[i - place] /\ i - place \in 1..(Len(s) + 1 - place)
      BY <2>2, <1>5
    <3>2. place + (i - place) - 1 = i - 1 /\ ~ (i < place) /\ i # place
      BY <2>2
    <3>3. back[i - place] = s[i - 1]
      BY <3>1, <3>2, <1>2
    <3> QED BY <3>1, <3>2, <3>3
  <2>3. i <= place \/ i > place
    OBVIOUS
  <2> QED BY <2>1, <2>2, <2>3
<1> QED BY <1>3, <1>5, <1>6 DEF head, HasInserted

LEMMA InsertLists ==
  ASSUME NEW S, NEW s, Lists(s, S), NEW x, x \notin S, NEW place \in 1..(Len(s) + 1)
  PROVE  Lists(InsertAt(s, place, x), S \cup {x})
<1> DEFINE t == InsertAt(s, place, x)
           A == S \cup {x}
<1>1. s \in Seq(S) /\ Len(s) \in Nat /\ \A i \in 1..Len(s) : s[i] \in S
  BY DEF Lists
<1>2. s \in Seq(A) /\ x \in A
  BY <1>1
<1>3. t \in Seq(A) /\ Len(t) = Len(s) + 1
      /\ \A i \in 1..(Len(s) + 1) :
           t[i] = IF i < place THEN s[i] ELSE IF i = place THEN x ELSE s[i - 1]
  <2> HIDE DEF A
  <2>1. t \in Seq(A) /\ HasInserted(t, s, place, x)
    BY <1>2, InsertEntries
  <2> HIDE DEF t
  <2> QED BY <2>1 DEF HasInserted
<1> HIDE DEF t, A
<1>4. OneToOne(t)
  <2> SUFFICES ASSUME NEW i \in 1..Len(t), NEW j \in 1..Len(t), i < j PROVE t[i] # t[j]
    BY <1>1, <1>3 DEF OneToOne
  <2>1. CASE i # place /\ j # place
    <3> DEFINE a == IF i < place THEN i ELSE i - 1
               b == IF j < place THEN j ELSE j - 1
    <3>1. a \in 1..Len(s) /\ b \in 1..Len(s) /\ a # b /\ t[i] = s[a] /\ t[j] = s[b]
      BY <2>1, <1>1, <1>3
    <3> QED BY <3>1 DEF Lists, OneToOne
  <2>2. CASE i = place
    BY <2>2, <1>1, <1>3
  <2>3. CASE j = place
    BY <2>3, <1>1, <1>3
  <2> QED BY <2>1, <2>2, <2>3
<1>5. ASSUME NEW y \in A PROVE \E i \in 1..Len(t) : t[i] = y
  <2>1. CASE y = x
    BY <2>1, <1>3
  <2>2. CASE y # x
    <3>1. PICK i \in 1..Len(s) : s[i] = y
      BY <2>2, <1>5 DEF Lists, A
    <3>2. CASE i < place
      BY <3>1, <3>2, <1>1, <1>3
    <3>3. CASE i >= place
      <4>1. i + 1 \in 1..Len(t) /\ t[i + 1] = s[i]
        BY <3>1, <3>3, <1>1, <1>3
      <4> QED BY <4>1, <3>1
    <3> QED BY <3>2, <3>3
  <2> QED BY <2>1, <2>2
<1> QED BY <1>3, <1>4, <1>5 DEF Lists, A, t

-----------------------------------------------------------------------------
(* Sorting only changes the order of the entries, whatever the comparison. *)

LEMMA PassedBound ==
  ASSUME NEW n \in Nat, NEW T, T \subseteq 1..n
  PROVE  Cardinality(T) \in 0..n
<1>1. IsFiniteSet(1..n) /\ Cardinality(1..n) = n
  BY FS_Interval
<1>2. Cardinality(T) \in Nat /\ Cardinality(T) <= n
  BY <1>1, FS_Subset, FS_CardinalityType
<1> QED BY <1>2

\* the first m entries of s in some order
Fronts(A, s, m) ==
  { t \in Seq(A) : /\ Len(t) = m
                   /\ \E p \in Seq(1..m) :
                        Lists(p, 1..m) /\ Len(p) = m /\ \A i \in 1..m : t[i] = s[p[i]] }

LEMMA InsertNext ==
  ASSUME NEW A, NEW s \in Seq(A), NEW m \in 1..Len(s), NEW t \in Fronts(A, s, m - 1),
         NEW place \in 1..m
  PROVE  InsertAt(t, place, s[m]) \in Fronts(A, s, m)
<1> DEFINE u == InsertAt(t, place, s[m])
<1>0. m \in Nat /\ m >= 1 /\ m - 1 \in Nat /\ s[m] \in A
  OBVIOUS
<1>1. t \in Seq(A) /\ Len(t) = m - 1
  BY DEF Fronts
<1>2. PICK p \in Seq(1..(m - 1)) : /\ Lists(p, 1..(m - 1)) /\ Len(p) = m - 1
                                   /\ \A i \in 1..(m - 1) : t[i] = s[p[i]]
  BY DEF Fronts
<1>3. place \in 1..(Len(t) + 1) /\ place \in 1..(Len(p) + 1)
  BY <1>0, <1>1, <1>2
<1>4. /\ u \in Seq(A) /\ Len(u) = m
      /\ \A i \in 1..m : u[i] = IF i < place THEN t[i] ELSE IF i = place THEN s[m] ELSE t[i - 1]
  <2>1. u \in Seq(A) /\ HasInserted(u, t, place, s[m])
    BY <1>0, <1>1, <1>3, InsertEntries
  <2>2. Len(t) + 1 = m
    BY <1>0, <1>1
  <2> HIDE DEF u
  <2> QED BY <2>1, <2>2 DEF HasInserted
<1> DEFINE v == InsertAt(p, place, m)
<1>5. Lists(v, 1..m)
  <2>1. m \notin 1..(m - 1) /\ (1..(m - 1)) \cup {m} = 1..m
    BY <1>0
  <2> QED BY <1>2, <1>3, <2>1, InsertLists
<1>6. /\ Len(v) = m
      /\ \A i \in 1..m : v[i] = IF i < place THEN p[i] ELSE IF i = place THEN m ELSE p[i - 1]
  <2>1. p \in Seq(Nat) /\ Len(p) + 1 = m
    BY <1>0, <1>2
  <2>2. HasInserted(v, p, place, m)
    BY <1>0, <2>1, <1>3, InsertEntries
  <2> HIDE DEF v
  <2> QED BY <2>1, <2>2 DEF HasInserted
<1> HIDE DEF u, v
<1>7. ASSUME NEW i \in 1..m PROVE u[i] = s[v[i]]
  <2>1. i \in Nat /\ place \in Nat
    BY <1>0
  <2>2. CASE i < place
    <3>1. i \in 1..(m - 1) /\ i # place
      BY <2>1, <2>2, <1>0
    <3> QED BY <2>2, <3>1, <1>2, <1>4, <1>6
  <2>3. CASE i = place
    BY <2>1, <2>3, <1>0, <1>4, <1>6
  <2>4. CASE i > place
    <3>1. i - 1 \in 1..(m - 1) /\ ~ (i < place) /\ i # place
      BY <2>1, <2>4, <1>0
    <3> QED BY <3>1, <1>2, <1>4, <1>6
  <2> QED BY <2>1, <2>2, <2>3, <2>4
<1>8. v \in Seq(1..m)
  BY <1>5 DEF Lists
<1>9. u \in Fronts(A, s, m)
  BY <1>4, <1>5, <1>6, <1>7, <1>8 DEF Fronts
<1> QED BY <1>9 DEF u

LEMMA SequenceIs ==
  ASSUME NEW A, NEW s \in Seq(A), NEW n, n = Len(s)
  PROVE  s = [i \in 1..n |-> s[i]]
OBVIOUS

LEMMA InsertedPermutes ==
  ASSUME NEW A, NEW s \in Seq(A), NEW less
  PROVE  Inserted(s, less) \in Seq(A) /\ Permutes(Inserted(s, less), s)
<1> DEFINE n == Len(s)
           Place(m, before) == Cardinality({ k \in 1..(m - 1) : << s[m], before[k] >> \notin less }) + 1
           V == [m \in 0..n |-> Fronts(A, s, m)]
           W == UNION { Fronts(A, s, m) : m \in 0..n }
           step == [q \in (1..n) \X W |-> InsertAt(q[2], Place(q[1], q[2]), s[q[1]])]
<1>0. n \in Nat
  OBVIOUS
<1>1. << >> \in V[0]
  <2>1. Lists(<< >>, 1..0)
    <3>1. 1..0 = {} /\ Len(<< >>) = 0 /\ << >> \in Seq({})
      OBVIOUS
    <3> QED BY <3>1 DEF Lists, OneToOne
  <2>2. << >> \in Fronts(A, s, 0)
    <3>1. << >> \in Seq(A) /\ Len(<< >>) = 0 /\ << >> \in Seq(1..0) /\ 1..0 = {}
      OBVIOUS
    <3>2. \E p \in Seq(1..0) : Lists(p, 1..0) /\ Len(p) = 0 /\ \A i \in 1..0 : << >>[i] = s[p[i]]
      BY <2>1, <3>1
    <3> QED BY <3>1, <3>2 DEF Fronts
  <2> QED BY <1>0, <2>2
<1>2. ASSUME NEW m \in 1..n, NEW t \in Fronts(A, s, m - 1)
      PROVE  /\ step[<< m, t >>] = InsertAt(t, Place(m, t), s[m])
             /\ step[<< m, t >>] \in Fronts(A, s, m)
  <2>1. m - 1 \in 0..n /\ t \in W /\ m - 1 \in Nat
    BY <1>0
  <2>2. step[<< m, t >>] = InsertAt(t, Place(m, t), s[m])
    <3> HIDE DEF Place, W
    <3> QED BY <2>1
  <2>3. Place(m, t) \in 1..m
    <3> DEFINE passed == { k \in 1..(m - 1) : << s[m], t[k] >> \notin less }
    <3>1. Cardinality(passed) \in 0..(m - 1)
      BY <2>1, PassedBound
    <3> HIDE DEF passed
    <3>2. Cardinality(passed) + 1 \in 1..m
      BY <2>1, <3>1, <1>0
    <3> QED BY <3>2 DEF passed
  <2> HIDE DEF Place, step
  <2> QED BY <2>2, <2>3, InsertNext
<1> HIDE DEF step, W, Place
<1>3. \A i \in 1..n : \A v \in V[i - 1] : step[<< i, v >>] \in V[i]
  <2> SUFFICES ASSUME NEW i \in 1..n, NEW v \in V[i - 1] PROVE step[<< i, v >>] \in V[i]
    OBVIOUS
  <2>1. i \in 0..n /\ i - 1 \in 0..n
    BY <1>0
  <2> QED BY <2>1, <1>2
<1>4. \A i \in 0..n : V[i] = Fronts(A, s, i)
  OBVIOUS
<1> HIDE DEF V
<1> HIDE DEF n
<1>5. PICK g : Recurs(g, n, << >>, step)
  BY <1>0, Recursion
<1>6. g[0] = << >> /\ (\A i \in 1..n : g[i] = step[<< i, g[i - 1] >>]) /\ g = [i \in 0..n |-> g[i]]
  BY <1>0, <1>5 DEF Recurs
<1>7. ASSUME NEW f, f[0] = << >>,
             \A i \in 1..n : f[i - 1] \in V[i - 1] => f[i] = step[<< i, f[i - 1] >>]
      PROVE  \A i \in 0..n : f[i] \in V[i]
  <2> DEFINE S == { i \in 0..n : f[i] \in V[i] }
  <2>1. 0 \in S
    BY <1>0, <1>1, <1>7
  <2>2. ASSUME NEW i \in 1..n, i - 1 \in S PROVE i \in S
    <3>1. i \in 0..n /\ f[i - 1] \in V[i - 1]
      BY <2>2, <1>0
    <3>2. f[i] = step[<< i, f[i - 1] >>]
      BY <3>1, <1>7
    <3> QED BY <3>1, <3>2, <1>3
  <2> HIDE DEF S
  <2>3. \A i \in 0..n : i \in S
    BY <1>0, <2>1, <2>2, BoundedInduction
  <2> QED BY <2>3 DEF S
<1>8. \A i \in 0..n : g[i] \in V[i]
  BY <1>6, <1>7
<1> DEFINE Entry(f, m) == IF m = 0 THEN << >> ELSE InsertAt(f[m - 1], Place(m, f[m - 1]), s[m])
<1>9. ASSUME NEW m \in 0..n PROVE g[m] = Entry(g, m)
  <2>1. CASE m = 0
    BY <2>1, <1>6
  <2>2. CASE m # 0
    <3>1. m \in 1..n /\ m - 1 \in 0..n
      BY <2>2, <1>0
    <3> QED BY <2>2, <3>1, <1>2, <1>4, <1>6, <1>8
  <2> QED BY <2>1, <2>2
<1> DEFINE IsFront(f) == f = [m \in 0..n |-> Entry(f, m)]
           front == CHOOSE f : IsFront(f)
<1>10. IsFront(front)
  <2>1. IsFront(g)
    <3> HIDE DEF Entry
    <3> QED BY <1>6, <1>9
  <2> HIDE DEF IsFront
  <2> QED BY <2>1
<1>11. Inserted(s, less) = front[n]
  BY DEF Inserted, Place, n
<1> HIDE DEF front
<1>12. front[n] \in V[n]
  <2>1. front[0] = << >> /\ \A i \in 1..n : front[i] = Entry(front, i)
    <3> HIDE DEF Entry
    <3>1. front[0] = Entry(front, 0) /\ \A i \in 1..n : front[i] = Entry(front, i)
      BY <1>10, <1>0
    <3> QED BY <3>1 DEF Entry
  <2>2. ASSUME NEW i \in 1..n, front[i - 1] \in V[i - 1]
        PROVE  front[i] = step[<< i, front[i - 1] >>]
    <3>1. i # 0 /\ i - 1 \in 0..n
      BY <1>0
    <3> QED BY <3>1, <2>1, <2>2, <1>2, <1>4
  <2>3. \A i \in 0..n : front[i] \in V[i]
    <3> HIDE DEF IsFront
    <3> QED BY <2>1, <2>2, <1>7
  <2> QED BY <1>0, <2>3
<1>13. PICK p \in Seq(1..n) : /\ Lists(p, 1..n) /\ Len(p) = n
                              /\ \A i \in 1..n : front[n][i] = s[p[i]]
  BY <1>0, <1>4, <1>12 DEF Fronts
<1>14. front[n] \in Seq(A) /\ Len(front[n]) = n
  BY <1>0, <1>4, <1>12 DEF Fronts
<1>15. front[n] = [i \in 1..n |-> s[p[i]]]
  <2> DEFINE t == front[n]
  <2>1. t = [i \in 1..n |-> t[i]]
    BY <1>14, SequenceIs
  <2>2. \A i \in 1..n : t[i] = s[p[i]]
    BY <1>13
  <2> HIDE DEF t
  <2>3. t = [i \in 1..n |-> s[p[i]]]
    BY <2>1, <2>2
  <2> QED BY <2>3 DEF t
<1> QED BY <1>11, <1>13, <1>14, <1>15 DEF Permutes, n

LEMMA PermutedLists ==
  ASSUME NEW S, NEW s, Lists(s, S), NEW t, Permutes(t, s)
  PROVE  Lists(t, S) /\ Len(t) = Len(s)
<1>1. PICK p \in Seq(1..Len(s)) :
        Lists(p, 1..Len(s)) /\ Len(p) = Len(s) /\ t = [i \in 1..Len(s) |-> s[p[i]]]
  BY DEF Permutes
<1>2. s \in Seq(S) /\ Len(s) \in Nat
  BY DEF Lists
<1>3. \A i \in 1..Len(s) : p[i] \in 1..Len(s) /\ t[i] = s[p[i]] /\ s[p[i]] \in S
  BY <1>1, <1>2
<1>4. t \in Seq(S) /\ Len(t) = Len(s)
  BY <1>1, <1>2, <1>3
<1>5. OneToOne(t)
  <2>1. OneToOne(s) /\ OneToOne(p)
    BY <1>1 DEF Lists
  <2> SUFFICES ASSUME NEW i \in 1..Len(s), NEW j \in 1..Len(s), t[i] = t[j] PROVE i = j
    BY <1>4 DEF OneToOne
  <2>2. p[i] = p[j]
    BY <2>1, <1>3 DEF OneToOne
  <2> QED BY <2>1, <2>2, <1>1 DEF OneToOne
<1>6. ASSUME NEW x \in S PROVE \E i \in 1..Len(t) : t[i] = x
  <2>1. PICK j \in 1..Len(s) : s[j] = x
    BY DEF Lists
  <2>2. PICK i \in 1..Len(s) : p[i] = j
    BY <1>1 DEF Lists
  <2> QED BY <2>1, <2>2, <1>3, <1>4
<1> QED BY <1>4, <1>5, <1>6 DEF Lists

LEMMA InsertedLists ==
  ASSUME NEW S, NEW s, Lists(s, S), NEW less
  PROVE  Lists(Inserted(s, less), S)
<1>1. s \in Seq(S)
  BY DEF Lists
<1>2. Permutes(Inserted(s, less), s)
  BY <1>1, InsertedPermutes
<1> QED BY <1>2, PermutedLists

LEMMA SortedLists ==
  ASSUME NEW S, NEW s, Lists(s, S)
  PROVE  Lists(sorted(s), S)
BY InsertedLists DEF sorted, SortedBy

-----------------------------------------------------------------------------
(* Flattening a sequence of sequences.                                     *)

\* f[i] is what the first i parts flatten to
FlattensTo(f, parts, A) ==
  /\ f \in [0..Len(parts) -> Seq(A)]
  /\ f[0] = << >>
  /\ \A i \in 1..Len(parts) : f[i] = f[i - 1] \o parts[i]
  /\ f[Len(parts)] = FlattenSeq(parts)

LEMMA FlattenPrefixes ==
  ASSUME NEW A, NEW parts \in Seq(Seq(A))
  PROVE  \E f : FlattensTo(f, parts, A)
<1> DEFINE n == Len(parts)
           step == [q \in (1..n) \X Seq(A) |-> q[2] \o parts[q[1]]]
<1>0. n \in Nat /\ << >> \in Seq(A) /\ \A i \in 1..n : parts[i] \in Seq(A) /\ i - 1 \in 0..n
  OBVIOUS
<1>1. \A i \in 1..n : \A v \in Seq(A) : step[<< i, v >>] = v \o parts[i] /\ v \o parts[i] \in Seq(A)
  BY <1>0, ConcatProperties
<1> HIDE DEF n, step
<1>2. PICK g : Recurs(g, n, << >>, step)
  BY <1>0, Recursion
<1>3. g[0] = << >> /\ \A i \in 1..n : g[i] = step[<< i, g[i - 1] >>]
  BY <1>0, <1>2 DEF Recurs
<1>4. ASSUME NEW f, f[0] = << >>,
             \A i \in 1..n : f[i - 1] \in Seq(A) => f[i] = f[i - 1] \o parts[i]
      PROVE  \A i \in 0..n : f[i] \in Seq(A)
  <2> DEFINE S == { i \in 0..n : f[i] \in Seq(A) }
  <2>1. 0 \in S
    <3>1. f[0] \in Seq(A)
      BY <1>0, <1>4, Zenon
    <3>2. 0 \in 0..n
      BY <1>0
    <3> QED BY <3>1, <3>2
  <2>2. ASSUME NEW i \in 1..n, i - 1 \in S PROVE i \in S
    <3>1. i \in 0..n /\ f[i - 1] \in Seq(A)
      BY <2>2, <1>0
    <3>2. f[i] = f[i - 1] \o parts[i]
      BY <3>1, <1>4
    <3>3. f[i - 1] \o parts[i] \in Seq(A)
      BY <3>1, <1>1
    <3> QED BY <3>1, <3>2, <3>3
  <2> HIDE DEF S
  <2>3. \A i \in 0..n : i \in S
    BY <1>0, <2>1, <2>2, BoundedInduction
  <2> QED BY <2>3 DEF S
<1>5. \A i \in 0..n : g[i] \in Seq(A)
  BY <1>1, <1>3, <1>4
<1> DEFINE Entry(f, i) == IF i = 1 THEN parts[i] ELSE f[i - 1] \o parts[i]
           h == [i \in 1..n |-> g[i]]
           Flat(f) == f = [i \in 1..n |-> Entry(f, i)]
           flatten == CHOOSE f : Flat(f)
<1>6. ASSUME NEW i \in 1..n PROVE h[i] = Entry(h, i)
  <2>1. g[i - 1] \in Seq(A) /\ parts[i] \in Seq(A)
    BY <1>0, <1>5
  <2>4. g[i] = g[i - 1] \o parts[i]
    BY <2>1, <1>1, <1>3
  <2>2. CASE i = 1
    <3>1. g[i - 1] = << >> /\ << >> \o parts[i] = parts[i]
      BY <2>1, <2>2, <1>3, ConcatEmptySeq
    <3> QED BY <2>4, <2>2, <3>1
  <2>3. CASE i # 1
    <3>1. i - 1 \in 1..n
      BY <2>3, <1>0
    <3> QED BY <2>4, <2>3, <3>1
  <2> QED BY <2>2, <2>3
<1>7. Flat(flatten)
  <2>1. Flat(h)
    <3>1. h = [i \in 1..n |-> h[i]]
      OBVIOUS
    <3> HIDE DEF h, Entry
    <3> QED BY <1>6, <3>1
  <2> HIDE DEF Flat, h
  <2> QED BY <2>1
<1>8. n # 0 => FlattenSeq(parts) = flatten[n]
  BY DEF FlattenSeq, n
<1> HIDE DEF flatten
<1>9. \A i \in 1..n : flatten[i] = Entry(flatten, i)
  <2> HIDE DEF Entry
  <2> QED BY <1>7
<1> HIDE DEF Flat
<1> DEFINE f == [i \in 0..n |-> IF i = 0 THEN << >> ELSE flatten[i]]
<1>10. ASSUME NEW i \in 1..n PROVE f[i] = f[i - 1] \o parts[i]
  <2>1. CASE i = 1
    BY <2>1, <1>0, <1>9, ConcatEmptySeq
  <2>2. CASE i # 1
    <3>1. i - 1 \in 1..n
      BY <2>2, <1>0
    <3>2. f[i] = flatten[i] /\ f[i - 1] = flatten[i - 1]
      BY <2>2, <3>1, <1>0
    <3>3. flatten[i] = flatten[i - 1] \o parts[i]
      BY <2>2, <1>9
    <3> QED BY <3>2, <3>3
  <2> QED BY <2>1, <2>2
<1>11. f[0] = << >> /\ f = [i \in 0..n |-> f[i]]
  BY <1>0
<1>12. f[n] = FlattenSeq(parts)
  <2>1. CASE n = 0
    <3>1. parts = << >> /\ FlattenSeq(parts) = parts
      BY <2>1 DEF n, FlattenSeq
    <3> QED BY <2>1, <3>1
  <2>2. CASE n # 0
    BY <2>2, <1>0, <1>8
  <2> QED BY <2>1, <2>2
<1> HIDE DEF f
<1>13. \A i \in 0..n : f[i] \in Seq(A)
  BY <1>4, <1>10, <1>11
<1>14. f \in [0..n -> Seq(A)]
  BY <1>11, <1>13
<1>15. FlattensTo(f, parts, A)
  BY <1>10, <1>11, <1>12, <1>14 DEF FlattensTo, n
<1> QED BY <1>15

LEMMA ConcatLists ==
  ASSUME NEW A, NEW B, A \cap B = {}, NEW a, Lists(a, A), NEW b, Lists(b, B)
  PROVE  Lists(a \o b, A \cup B)
<1> DEFINE c == a \o b
           n == Len(a)
           m == Len(b)
<1>1. a \in Seq(A) /\ b \in Seq(B) /\ n \in Nat /\ m \in Nat
  BY DEF Lists
<1>2. a \in Seq(A \cup B) /\ b \in Seq(A \cup B)
  BY <1>1
<1>3. c \in Seq(A \cup B) /\ Len(c) = n + m
      /\ \A i \in 1..(n + m) : c[i] = IF i <= n THEN a[i] ELSE b[i - n]
  BY <1>2, ConcatProperties
<1>4. (\A i \in 1..n : a[i] \in A) /\ (\A i \in 1..m : b[i] \in B)
  BY <1>1
<1> HIDE DEF c, n, m
<1>5. ASSUME NEW i \in 1..(n + m), NEW j \in 1..(n + m), c[i] = c[j] PROVE i = j
  <2>0. i \in Nat /\ j \in Nat
    BY <1>1
  <2>1. CASE i <= n /\ j <= n
    <3>1. i \in 1..n /\ j \in 1..n /\ a[i] = a[j]
      BY <2>0, <2>1, <1>1, <1>3, <1>5
    <3> QED BY <3>1 DEF Lists, OneToOne, n
  <2>2. CASE i > n /\ j > n
    <3>1. i - n \in 1..m /\ j - n \in 1..m
      BY <2>0, <2>2, <1>1
    <3>2. b[i - n] = b[j - n]
      BY <2>0, <2>2, <1>1, <1>3, <1>5
    <3>3. i - n = j - n
      BY <3>1, <3>2 DEF Lists, OneToOne, m
    <3> QED BY <3>3, <2>0, <1>1
  <2>3. CASE i <= n /\ j > n
    <3>1. i \in 1..n /\ j - n \in 1..m
      BY <2>0, <2>3, <1>1
    <3>2. c[i] = a[i] /\ c[j] = b[j - n]
      BY <2>0, <2>3, <1>1, <1>3
    <3> QED BY <3>1, <3>2, <1>4, <1>5
  <2>4. CASE i > n /\ j <= n
    <3>1. j \in 1..n /\ i - n \in 1..m
      BY <2>0, <2>4, <1>1
    <3>2. c[j] = a[j] /\ c[i] = b[i - n]
      BY <2>0, <2>4, <1>1, <1>3
    <3> QED BY <3>1, <3>2, <1>4, <1>5
  <2> QED BY <2>0, <2>1, <2>2, <2>3, <2>4, <1>1
<1>6. ASSUME NEW x \in A \cup B PROVE \E i \in 1..(n + m) : c[i] = x
  <2>1. CASE x \in A
    <3>1. PICK i \in 1..n : a[i] = x
      BY <2>1 DEF Lists, n
    <3>2. i \in 1..(n + m) /\ c[i] = a[i]
      BY <1>1, <1>3
    <3> QED BY <3>1, <3>2
  <2>2. CASE x \in B
    <3>1. PICK i \in 1..m : b[i] = x
      BY <2>2 DEF Lists, m
    <3>2. n + i \in 1..(n + m) /\ ~ (n + i <= n) /\ (n + i) - n = i
      BY <1>1
    <3>3. c[n + i] = b[i]
      BY <3>2, <1>3
    <3> QED BY <3>1, <3>2, <3>3
  <2> QED BY <2>1, <2>2
<1>7. OneToOne(c)
  BY <1>3, <1>5 DEF OneToOne
<1>8. Lists(c, A \cup B)
  BY <1>3, <1>6, <1>7 DEF Lists
<1> QED BY <1>8 DEF c

\* part j lists the set D[j], and the sets are disjoint and cover S
Splits(parts, D, S) ==
  /\ parts \in Seq(Seq(S))
  /\ \A j \in 1..Len(parts) : Lists(parts[j], D[j])
  /\ \A i, j \in 1..Len(parts) : i # j => D[i] \cap D[j] = {}
  /\ S = UNION { D[j] : j \in 1..Len(parts) }

LEMMA FlattenLists ==
  ASSUME NEW S, NEW D, NEW parts, Splits(parts, D, S)
  PROVE  Lists(FlattenSeq(parts), S)
<1> DEFINE n == Len(parts)
           Upto(i) == UNION { D[j] : j \in 1..i }
<1>0. n \in Nat /\ parts \in Seq(Seq(S))
  BY DEF Splits
<1>1. PICK f : FlattensTo(f, parts, S)
  BY <1>0, FlattenPrefixes
<1>2. f[0] = << >> /\ (\A i \in 1..n : f[i] = f[i - 1] \o parts[i]) /\ f[n] = FlattenSeq(parts)
  BY <1>1 DEF FlattensTo
<1> DEFINE T == { i \in 0..n : Lists(f[i], Upto(i)) }
<1>3. 0 \in T
  <2>1. Upto(0) = {}
    OBVIOUS
  <2>2. Lists(<< >>, {})
    BY DEF Lists, OneToOne
  <2> HIDE DEF Upto
  <2>3. Lists(f[0], Upto(0)) /\ 0 \in 0..n
    <3>1. Lists(f[0], Upto(0))
      BY <2>1, <2>2, <1>2, Zenon
    <3> QED BY <3>1, <1>0
  <2> QED BY <2>3
<1>4. ASSUME NEW i \in 1..n, i - 1 \in T PROVE i \in T
  <2>1. Lists(f[i - 1], Upto(i - 1))
    BY <1>4
  <2>2. Upto(i) = Upto(i - 1) \cup D[i]
    <3>1. 1..i = (1..(i - 1)) \cup {i}
      BY <1>0
    <3> QED BY <3>1
  <2>3. Upto(i - 1) \cap D[i] = {}
    <3> SUFFICES ASSUME NEW j \in 1..(i - 1) PROVE D[j] \cap D[i] = {}
      OBVIOUS
    <3>1. j \in 1..n /\ j # i
      BY <1>0
    <3> QED BY <3>1 DEF Splits
  <2>4. Lists(parts[i], D[i])
    BY DEF Splits
  <2> HIDE DEF Upto
  <2>5. Lists(f[i - 1] \o parts[i], Upto(i))
    BY <2>1, <2>2, <2>3, <2>4, ConcatLists
  <2>6. f[i] = f[i - 1] \o parts[i]
    BY <1>2
  <2>7. i \in 0..n
    BY <1>0
  <2> QED BY <2>5, <2>6, <2>7
<1> HIDE DEF T
<1>5. \A i \in 0..n : i \in T
  BY <1>0, <1>3, <1>4, BoundedInduction
<1>6. Lists(f[n], Upto(n))
  <2>1. n \in 0..n
    BY <1>0
  <2> HIDE DEF Upto
  <2> QED BY <2>1, <1>5 DEF T
<1>7. Upto(n) = S
  BY DEF Splits
<1> QED BY <1>2, <1>6, <1>7

\* the entries of the parts replaced through g
Through(parts, g) == [m \in DOMAIN parts |-> [i \in DOMAIN parts[m] |-> g[parts[m][i]]]]

ImageOf(t, s, g) == t = [x \in 1..Len(s) |-> g[s[x]]]

\* they may be replaced before or after flattening
LEMMA FlattenMap ==
  ASSUME NEW S, NEW Y, NEW g \in [S -> Y], NEW parts \in Seq(Seq(S))
  PROVE  /\ FlattenSeq(parts) \in Seq(S)
         /\ ImageOf(FlattenSeq(Through(parts, g)), FlattenSeq(parts), g)
<1> DEFINE n == Len(parts)
           mapped == [m \in DOMAIN parts |-> [i \in DOMAIN parts[m] |-> g[parts[m][i]]]]
           flat == FlattenSeq(parts)
           Image(s) == [x \in 1..Len(s) |-> g[s[x]]]
<1>0. n \in Nat /\ DOMAIN parts = 1..n /\ \A m \in 1..n : parts[m] \in Seq(S)
  OBVIOUS
<1>1. \A s \in Seq(S) : Image(s) \in Seq(Y) /\ Len(Image(s)) = Len(s)
  OBVIOUS
<1>2. mapped \in Seq(Seq(Y)) /\ Len(mapped) = n /\ \A m \in 1..n : mapped[m] = Image(parts[m])
  <2>1. \A m \in 1..n : mapped[m] = Image(parts[m])
    BY <1>0
  <2>2. mapped = [m \in 1..n |-> mapped[m]]
    BY <1>0
  <2> HIDE DEF mapped, Image
  <2> QED BY <2>1, <2>2, <1>0, <1>1
<1>3. PICK f : FlattensTo(f, parts, S)
  BY FlattenPrefixes
<1> HIDE DEF mapped
<1>4. PICK h : FlattensTo(h, mapped, Y)
  BY <1>2, FlattenPrefixes
<1> DEFINE T == { i \in 0..n : h[i] = Image(f[i]) }
<1>5. 0 \in T
  <2>1. f[0] = << >> /\ h[0] = << >>
    BY <1>3, <1>4 DEF FlattensTo
  <2>2. Image(<< >>) = << >>
    OBVIOUS
  <2> HIDE DEF Image
  <2> QED BY <1>0, <2>1, <2>2
<1>6. ASSUME NEW i \in 1..n, i - 1 \in T PROVE i \in T
  <2>1. f[i - 1] \in Seq(S) /\ f[i] = f[i - 1] \o parts[i] /\ h[i] = h[i - 1] \o mapped[i]
    <3>1. i - 1 \in 0..n
      BY <1>0
    <3> QED BY <3>1, <1>2, <1>3, <1>4 DEF FlattensTo
  <2>2. h[i] = Image(f[i - 1]) \o Image(parts[i])
    BY <2>1, <1>2, <1>6
  <2>3. \A s, t \in Seq(S) : Image(s \o t) = Image(s) \o Image(t)
    <3> SUFFICES ASSUME NEW s \in Seq(S), NEW t \in Seq(S)
                 PROVE  Image(s \o t) = Image(s) \o Image(t)
      OBVIOUS
    <3> DEFINE u == s \o t
               v == Image(s) \o Image(t)
    <3>1. u \in Seq(S) /\ Len(u) = Len(s) + Len(t)
          /\ \A x \in 1..(Len(s) + Len(t)) : u[x] = IF x <= Len(s) THEN s[x] ELSE t[x - Len(s)]
      BY ConcatProperties
    <3>2. Image(s) \in Seq(Y) /\ Image(t) \in Seq(Y) /\ Len(Image(s)) = Len(s) /\ Len(Image(t)) = Len(t)
      BY <1>1
    <3>3. v \in Seq(Y) /\ Len(v) = Len(s) + Len(t)
          /\ \A x \in 1..(Len(s) + Len(t)) :
               v[x] = IF x <= Len(s) THEN Image(s)[x] ELSE Image(t)[x - Len(s)]
      <4> DEFINE a == Image(s)
                 b == Image(t)
      <4> HIDE DEF a, b
      <4>1. a \in Seq(Y) /\ b \in Seq(Y) /\ Len(a) = Len(s) /\ Len(b) = Len(t)
        BY <3>2 DEF a, b
      <4>2. /\ a \o b \in Seq(Y) /\ Len(a \o b) = Len(a) + Len(b)
            /\ \A x \in 1..(Len(a) + Len(b)) : (a \o b)[x] = IF x <= Len(a) THEN a[x] ELSE b[x - Len(a)]
        BY <4>1, ConcatProperties
      <4>3. /\ a \o b \in Seq(Y) /\ Len(a \o b) = Len(s) + Len(t)
            /\ \A x \in 1..(Len(s) + Len(t)) : (a \o b)[x] = IF x <= Len(s) THEN a[x] ELSE b[x - Len(s)]
        BY <4>1, <4>2, Zenon
      <4> HIDE DEF Image
      <4> QED BY <4>3 DEF a, b
    <3>4. ASSUME NEW x \in 1..(Len(s) + Len(t)) PROVE v[x] = g[u[x]]
      <4>0. Len(s) \in Nat /\ Len(t) \in Nat /\ x \in Nat
        OBVIOUS
      <4>1. CASE x <= Len(s)
        <5>1. Image(s)[x] = g[s[x]]
          BY <4>0, <4>1
        <5> HIDE DEF Image, u, v
        <5> QED BY <4>1, <5>1, <3>1, <3>3
      <4>2. CASE x > Len(s)
        <5>1. Image(t)[x - Len(s)] = g[t[x - Len(s)]]
          BY <4>0, <4>2
        <5> HIDE DEF Image, u, v
        <5> QED BY <4>0, <4>2, <5>1, <3>1, <3>3
      <4> QED BY <4>0, <4>1, <4>2
    <3> HIDE DEF u, v
    <3>5. v = [x \in 1..(Len(s) + Len(t)) |-> v[x]]
      BY <3>3, SequenceIs
    <3>6. Image(u) = [x \in 1..(Len(s) + Len(t)) |-> g[u[x]]]
      BY <3>1
    <3>7. Image(u) = v
      BY <3>4, <3>5, <3>6
    <3> QED BY <3>7 DEF u, v
  <2> HIDE DEF Image
  <2>4. i \in 0..n /\ parts[i] \in Seq(S)
    BY <1>0
  <2> QED BY <2>1, <2>2, <2>3, <2>4
<1> HIDE DEF T
<1>7. \A i \in 0..n : i \in T
  BY <1>0, <1>5, <1>6, BoundedInduction
<1>8. h[n] = Image(f[n])
  <2>1. n \in 0..n
    BY <1>0
  <2> HIDE DEF Image
  <2> QED BY <2>1, <1>7 DEF T
<1>9. f[n] = flat /\ h[n] = FlattenSeq(mapped) /\ flat \in Seq(S)
  <2>1. n \in 0..n
    BY <1>0
  <2> QED BY <2>1, <1>2, <1>3, <1>4 DEF FlattensTo
<1> HIDE DEF flat
<1>10. flat \in Seq(S) /\ FlattenSeq(mapped) = Image(flat)
  BY <1>8, <1>9
<1> HIDE DEF mapped
<1>11. mapped = Through(parts, g)
  BY DEF mapped, Through
<1> QED BY <1>10, <1>11 DEF flat, ImageOf

-----------------------------------------------------------------------------
(* Chunks: equal parts of a batch put together again are the batch.        *)

LEMMA Division ==
  ASSUME NEW a \in Nat, NEW b \in Nat \ {0}
  PROVE  a \div b \in Nat /\ a % b \in 0..(b - 1) /\ a = b * (a \div b) + (a % b)
OBVIOUS

LEMMA Products ==
  ASSUME NEW size \in Nat, NEW j \in Nat \ {0}
  PROVE  (j - 1) * size \in Nat /\ j * size \in Nat /\ j * size = (j - 1) * size + size
OBVIOUS

LEMMA ProductsGrow ==
  ASSUME NEW size \in Nat, NEW j \in Nat, NEW k \in Nat, j <= k
  PROVE  j * size <= k * size
OBVIOUS

Chunked(parts, rows, k, size, A) ==
  /\ size \in Nat /\ Len(rows) = k * size
  /\ parts \in Seq(Seq(A)) /\ Len(parts) = k
  /\ \A j \in 1..k : /\ parts[j] = SubSeq(rows, (j - 1) * size + 1, j * size)
                     /\ Len(parts[j]) = size
                     /\ \A i \in 1..size : parts[j][i] = rows[(j - 1) * size + i]

LEMMA ChunkRows ==
  ASSUME NEW A, NEW rows \in Seq(A), NEW k \in Nat \ {0}, Len(rows) % k = 0
  PROVE  Chunked(chunk(rows, k), rows, k, Len(rows) \div k, A)
<1> DEFINE size == Len(rows) \div k
<1>0. k \in Nat /\ k # 0 /\ Len(rows) \in Nat
  OBVIOUS
<1>1. size \in Nat /\ Len(rows) = k * size
  <2>1. Len(rows) \div k \in Nat /\ Len(rows) = k * (Len(rows) \div k) + (Len(rows) % k)
    BY <1>0, Division
  <2> HIDE DEF size
  <2>2. size \in Nat /\ Len(rows) = k * size + 0
    BY <2>1, <1>0 DEF size
  <2> QED BY <2>2, <1>0
<1>8. chunk(rows, k) = [j \in 1..k |-> SubSeq(rows, (j - 1) * size + 1, j * size)]
  BY DEF chunk
<1> HIDE DEF size
<1>2. ASSUME NEW j \in 1..k
      PROVE  /\ (j - 1) * size \in Nat /\ j * size \in Nat /\ j * size = (j - 1) * size + size
             /\ j * size <= Len(rows)
  <2>1. j \in Nat \ {0} /\ j \in Nat /\ j <= k
    BY <1>0
  <2>2. (j - 1) * size \in Nat /\ j * size \in Nat /\ j * size = (j - 1) * size + size
    BY <2>1, <1>1, Products, Zenon
  <2>3. j * size <= k * size
    BY <2>1, <1>0, <1>1, ProductsGrow, Zenon
  <2> QED BY <2>2, <2>3, <1>1, Zenon
<1> DEFINE Part(j) == SubSeq(rows, (j - 1) * size + 1, j * size)
<1>3. ASSUME NEW j \in 1..k
      PROVE  /\ Part(j) \in Seq(A) /\ Len(Part(j)) = size
             /\ \A i \in 1..size : Part(j)[i] = rows[(j - 1) * size + i]
  <2> DEFINE a == (j - 1) * size
             b == j * size
  <2>1. a \in Nat /\ b \in Nat /\ b = a + size /\ b <= Len(rows)
    BY <1>2
  <2> HIDE DEF a, b
  <2>2. \A i \in (a + 1)..b : rows[i] \in A
    BY <2>1, <1>0
  <2> DEFINE u == SubSeq(rows, a + 1, b)
  <2>3. /\ u \in Seq(A) /\ Len(u) = IF a + 1 <= b THEN b - (a + 1) + 1 ELSE 0
        /\ \A i \in 1..(b - (a + 1) + 1) : u[i] = rows[(a + 1) + i - 1]
    BY <2>1, <2>2, SubSeqProperties
  <2> HIDE DEF u
  <2>4. Len(u) = size
    BY <2>1, <2>3, <1>1
  <2>5. ASSUME NEW i \in 1..size PROVE u[i] = rows[a + i]
    <3>1. i \in 1..(b - (a + 1) + 1) /\ (a + 1) + i - 1 = a + i
      BY <2>1, <1>1
    <3>2. u[i] = rows[(a + 1) + i - 1]
      BY <3>1, <2>3
    <3> QED BY <3>1, <3>2
  <2> QED BY <2>3, <2>4, <2>5 DEF u, a, b
<1>4. chunk(rows, k) = [j \in 1..k |-> Part(j)]
  BY <1>8
<1> HIDE DEF Part
<1>5. \A j \in 1..k : chunk(rows, k)[j] = Part(j)
  BY <1>4
<1>6. chunk(rows, k) \in Seq(Seq(A)) /\ Len(chunk(rows, k)) = k
  BY <1>0, <1>3, <1>4
<1> DEFINE parts == chunk(rows, k)
<1> HIDE DEF Part, parts
<1>7. ASSUME NEW j \in 1..k
      PROVE  /\ parts[j] = SubSeq(rows, (j - 1) * size + 1, j * size)
             /\ Len(parts[j]) = size
             /\ \A i \in 1..size : parts[j][i] = rows[(j - 1) * size + i]
  <2>1. parts[j] = Part(j)
    BY <1>5 DEF parts
  <2>2. /\ Len(Part(j)) = size
        /\ \A i \in 1..size : Part(j)[i] = rows[(j - 1) * size + i]
    BY <1>3
  <2>3. Part(j) = SubSeq(rows, (j - 1) * size + 1, j * size)
    BY DEF Part
  <2> QED BY <2>1, <2>2, <2>3
<1>9. Chunked(parts, rows, k, size, A)
  <2>1. parts \in Seq(Seq(A)) /\ Len(parts) = k
    BY <1>6 DEF parts
  <2> QED BY <1>1, <1>7, <2>1 DEF Chunked
<1> QED BY <1>9 DEF size, parts

\* DataProto.concat undoes DataProto.chunk
LEMMA ConcatOfChunks ==
  ASSUME NEW A, NEW rows \in Seq(A), NEW k \in Nat \ {0}, Len(rows) % k = 0
  PROVE  concat(chunk(rows, k)) = rows
<1> DEFINE size == Len(rows) \div k
           parts == chunk(rows, k)
           Leading(j) == SubSeq(rows, 1, j * size)
<1>0. k \in Nat /\ k # 0 /\ Len(rows) \in Nat
  OBVIOUS
<1>1. /\ size \in Nat /\ Len(rows) = k * size /\ parts \in Seq(Seq(A)) /\ Len(parts) = k
      /\ \A j \in 1..k : parts[j] = SubSeq(rows, (j - 1) * size + 1, j * size)
  <2>1. Chunked(parts, rows, k, size, A)
    BY <1>0, ChunkRows
  <2> HIDE DEF parts, size
  <2> QED BY <2>1 DEF Chunked
<1> HIDE DEF size, parts
<1>2. PICK f : FlattensTo(f, parts, A)
  BY <1>1, FlattenPrefixes
<1>3. f[0] = << >> /\ (\A j \in 1..k : f[j] = f[j - 1] \o parts[j]) /\ f[k] = FlattenSeq(parts)
  BY <1>1, <1>2 DEF FlattensTo
<1> DEFINE T == { j \in 0..k : f[j] = Leading(j) }
<1>4. 0 \in T
  <2>1. Leading(0) = << >>
    <3>1. 0 * size = 0
      BY <1>1
    <3>2. SubSeq(rows, 1, 0) = << >>
      BY SubSeqEmpty
    <3> QED BY <3>1, <3>2
  <2>2. 0 \in 0..k
    BY <1>0
  <2> HIDE DEF Leading
  <2> QED BY <2>1, <2>2, <1>3
<1>5. ASSUME NEW j \in 1..k, j - 1 \in T PROVE j \in T
  <2> DEFINE a == (j - 1) * size
             b == j * size
  <2>1. a \in Nat /\ b \in Nat /\ b = a + size /\ b <= Len(rows)
    <3>1. j \in Nat \ {0} /\ j \in Nat /\ j <= k
      BY <1>0
    <3> QED BY <3>1, <1>0, <1>1, Products, ProductsGrow
  <2>2. f[j] = SubSeq(rows, 1, a) \o SubSeq(rows, a + 1, b)
    BY <1>1, <1>3, <1>5
  <2> HIDE DEF a, b
  <2>3. SubSeq(rows, 1, a) \o SubSeq(rows, a + 1, b) = SubSeq(rows, 1, b)
    <3>1. 1 \in 1..(Len(rows) + 1) /\ a \in (1 - 1)..Len(rows) /\ b \in a..Len(rows)
      BY <2>1, <1>0, <1>1
    <3> QED BY <3>1, ConcatAdjacentSubSeq
  <2>4. j \in 0..k
    BY <1>0
  <2> QED BY <2>2, <2>3, <2>4 DEF b
<1> HIDE DEF T
<1>6. \A j \in 0..k : j \in T
  BY <1>0, <1>4, <1>5, BoundedInduction
<1>7. f[k] = Leading(k)
  <2>1. k \in 0..k
    BY <1>0
  <2> HIDE DEF Leading
  <2> QED BY <2>1, <1>6 DEF T
<1>8. Leading(k) = rows
  BY <1>1, SubSeqFull
<1> QED BY <1>3, <1>7, <1>8 DEF concat, parts

-----------------------------------------------------------------------------
(* The heap of the differencing method.                                    *)

\* A finite set has an element that no other one precedes.
LEMMA MinimalElement ==
  ASSUME NEW S, IsFiniteSet(S), S # {}, NEW R,
         \A s \in S : << s, s >> \notin R,
         \A s, t, u \in S : << s, t >> \in R /\ << t, u >> \in R => << s, u >> \in R
  PROVE  \E s \in S : \A t \in S : << t, s >> \notin R
<1> DEFINE Before(s) == { t \in S : << t, s >> \in R }
           Counts == { Cardinality(Before(s)) : s \in S }
<1>1. \A s \in S : IsFiniteSet(Before(s)) /\ Cardinality(Before(s)) \in Nat
  <2> TAKE s \in S
  <2>1. Before(s) \subseteq S
    OBVIOUS
  <2> HIDE DEF Before
  <2> QED BY <2>1, FS_Subset, FS_CardinalityType
<1>2. PICK c \in Counts : \A d \in Counts : c <= d
  <2>1. Counts \subseteq Nat /\ Counts # {}
    <3> HIDE DEF Before
    <3> QED BY <1>1
  <2> HIDE DEF Counts
  <2> QED BY <2>1, LeastNumber
<1>3. PICK s \in S : c = Cardinality(Before(s))
  OBVIOUS
<1>4. ASSUME NEW t \in S, << t, s >> \in R PROVE FALSE
  <2>1. Before(t) \subseteq Before(s) /\ t \in Before(s) /\ t \notin Before(t)
    BY <1>4
  <2>2. Cardinality(Before(t)) <= Cardinality(Before(s))
        /\ (Cardinality(Before(t)) = Cardinality(Before(s)) => Before(t) = Before(s))
    <3> HIDE DEF Before
    <3> QED BY <2>1, <1>1, FS_Subset
  <2>3. Cardinality(Before(s)) <= Cardinality(Before(t))
    <3>1. Cardinality(Before(t)) \in Counts
      OBVIOUS
    <3> HIDE DEF Before, Counts
    <3> QED BY <3>1, <1>2, <1>3
  <2>4. Before(t) = Before(s)
    BY <1>1, <2>2, <2>3
  <2> QED BY <2>1, <2>4
<1> QED BY <1>4

SetsOver(I) == [sum : Int, items : Seq(I)]

\* k Sets without a common item; with equal they have the same number of items
StateOver(s, k, I, equal) ==
  /\ s \in Seq(SetsOver(I)) /\ Len(s) = k
  /\ \A j \in 1..k : OneToOne(s[j].items)
  /\ \A i, j \in 1..k : \A x \in 1..Len(s[i].items), y \in 1..Len(s[j].items) :
       s[i].items[x] = s[j].items[y] => i = j
  /\ equal => \A i, j \in 1..k : Len(s[i].items) = Len(s[j].items)

Has(s, x) == \E j \in 1..Len(s) : \E i \in 1..Len(s[j].items) : s[j].items[i] = x

\* every item is in one State, and every State has one
HeapOver(states, k, I, equal) ==
  /\ IsFiniteSet(states)
  /\ \A s \in states : StateOver(s, k, I, equal) /\ \E x \in I : Has(s, x)
  /\ \A s, t \in states : \A x \in I : Has(s, x) /\ Has(t, x) => s = t
  /\ \A x \in I : \E s \in states : Has(s, x)

LEMMA SetOrder ==
  ASSUME NEW I, I \subseteq Int, NEW a \in SetsOver(I), NEW b \in SetsOver(I), NEW c \in SetsOver(I)
  PROVE  ~SetLess(a, a) /\ (SetLess(a, b) /\ SetLess(b, c) => SetLess(a, c))
<1>1. ASSUME NEW s \in SetsOver(I)
      PROVE  /\ s.sum \in Int /\ Len(s.items) \in Nat
             /\ s.items # << >> => s.items[1] \in Int /\ Len(s.items) # 0
             /\ s.items = << >> => Len(s.items) = 0
  <2>1. s.sum \in Int /\ s.items \in Seq(I)
    BY DEF SetsOver
  <2> DEFINE items == s.items
  <2> HIDE DEF items
  <2>2. items \in Seq(I)
    BY <2>1 DEF items
  <2>3. items # << >> => items[1] \in I /\ Len(items) # 0
    BY <2>2
  <2>4. Len(items) \in Nat /\ Len(<< >>) = 0
    BY <2>2
  <2> QED BY <2>1, <2>3, <2>4 DEF items
<1>2. /\ a.sum \in Int /\ b.sum \in Int /\ c.sum \in Int
      /\ Len(a.items) \in Nat /\ Len(b.items) \in Nat /\ Len(c.items) \in Nat
  BY <1>1
<1>3. ~SetLess(a, a)
  BY <1>1, <1>2 DEF SetLess
<1>4. ASSUME SetLess(a, b), SetLess(b, c) PROVE SetLess(a, c)
  <2>1. (a.sum < b.sum \/ b.sum < c.sum) \/ (a.sum = b.sum /\ b.sum = c.sum)
    <3>1. a.sum < b.sum \/ a.sum = b.sum
      BY <1>4, Zenon DEF SetLess
    <3>2. b.sum < c.sum \/ b.sum = c.sum
      BY <1>4, Zenon DEF SetLess
    <3> QED BY <3>1, <3>2, <1>2
  <2>2. CASE a.sum < b.sum \/ b.sum < c.sum
    <3>1. a.sum < c.sum
      BY <2>2, <1>2, <1>4 DEF SetLess
    <3> QED BY <3>1 DEF SetLess
  <2>3. CASE a.sum = b.sum /\ b.sum = c.sum
    <3>1. CASE Len(a.items) < Len(b.items) \/ Len(b.items) < Len(c.items)
      BY <3>1, <2>3, <1>2, <1>4 DEF SetLess
    <3>2. CASE ~(Len(a.items) < Len(b.items) \/ Len(b.items) < Len(c.items))
      <4>1. /\ Len(a.items) = Len(b.items) /\ a.items # << >> /\ a.items[1] < b.items[1]
            /\ Len(b.items) = Len(c.items) /\ b.items # << >> /\ b.items[1] < c.items[1]
        BY <3>2, <2>3, <1>2, <1>4 DEF SetLess
      <4>2. a.items[1] \in Int /\ b.items[1] \in Int /\ c.items # << >> /\ c.items[1] \in Int
        BY <4>1, <1>1, <1>2
      <4>3. a.items[1] < c.items[1]
        BY <4>1, <4>2
      <4> QED BY <4>1, <4>3, <2>3 DEF SetLess
    <3> QED BY <3>1, <3>2
  <2> QED BY <2>1, <2>2, <2>3
<1> QED BY <1>3, <1>4

LEMMA StateOrder ==
  ASSUME NEW I, I \subseteq Int, NEW k \in Nat \ {0}, NEW equal,
         NEW s, StateOver(s, k, I, equal), NEW t, StateOver(t, k, I, equal),
         NEW u, StateOver(u, k, I, equal)
  PROVE  ~StateLess(s, s) /\ (StateLess(s, t) /\ StateLess(t, u) => StateLess(s, u))
<1>1. ASSUME NEW v, StateOver(v, k, I, equal)
      PROVE  v[1] \in SetsOver(I) /\ spread(v) \in Int
  <2>1. v[1] \in SetsOver(I) /\ v[Len(v)] \in SetsOver(I)
    BY <1>1 DEF StateOver
  <2>2. v[1].sum \in Int /\ v[Len(v)].sum \in Int
    BY <2>1 DEF SetsOver
  <2> QED BY <2>1, <2>2 DEF spread
<1>2. spread(s) \in Int /\ spread(t) \in Int /\ spread(u) \in Int
  BY <1>1
<1>3. ~SetLess(s[1], s[1]) /\ (SetLess(u[1], t[1]) /\ SetLess(t[1], s[1]) => SetLess(u[1], s[1]))
  <2>1. s[1] \in SetsOver(I) /\ t[1] \in SetsOver(I) /\ u[1] \in SetsOver(I)
    BY <1>1
  <2> QED BY <2>1, SetOrder, Zenon
<1>4. ~StateLess(s, s)
  BY <1>2, <1>3 DEF StateLess
<1> QED BY <1>2, <1>3, <1>4 DEF StateLess

LEMMA HeapPopState ==
  ASSUME NEW I, I \subseteq Int, NEW k \in Nat \ {0}, NEW equal,
         NEW states, IsFiniteSet(states), states # {},
         \A s \in states : StateOver(s, k, I, equal)
  PROVE  HeapPop(states) \in states
<1> DEFINE R == { p \in states \X states : StateLess(p[1], p[2]) }
<1>3. \A s, t \in states : << s, t >> \in R <=> StateLess(s, t)
  OBVIOUS
<1>0. \A s, t, u \in states :
        ~StateLess(s, s) /\ (StateLess(s, t) /\ StateLess(t, u) => StateLess(s, u))
  <2> TAKE s, t, u \in states
  <2>1. StateOver(s, k, I, equal) /\ StateOver(t, k, I, equal) /\ StateOver(u, k, I, equal)
    OBVIOUS
  <2> HIDE DEF R
  <2> QED BY <2>1, StateOrder, Zenon
<1>1. \A s \in states : << s, s >> \notin R
  <2> HIDE DEF R
  <2> QED BY <1>0, <1>3
<1>2. \A s, t, u \in states : << s, t >> \in R /\ << t, u >> \in R => << s, u >> \in R
  <2> HIDE DEF R
  <2> QED BY <1>0, <1>3
<1> HIDE DEF R
<1>4. PICK s \in states : \A t \in states : << t, s >> \notin R
  BY <1>1, <1>2, MinimalElement
<1> QED BY <1>3, <1>4 DEF HeapPop

LEMMA DecreasingState ==
  ASSUME NEW I, NEW k \in Nat, NEW equal, NEW s, StateOver(s, k, I, equal)
  PROVE  /\ StateOver(DecreasingSets(s), k, I, equal)
         /\ \A x : Has(DecreasingSets(s), x) <=> Has(s, x)
<1> DEFINE t == DecreasingSets(s)
<1>0. s \in Seq(SetsOver(I)) /\ Len(s) = k
  BY DEF StateOver
<1>1. t \in Seq(SetsOver(I)) /\ Permutes(t, s)
  BY <1>0, InsertedPermutes DEF DecreasingSets, SortedBy
<1> HIDE DEF t
<1>2. PICK p \in Seq(1..k) : /\ Lists(p, 1..k) /\ Len(p) = k
                             /\ t = [i \in 1..k |-> s[p[i]]]
  BY <1>0, <1>1 DEF Permutes
<1>3. Len(t) = k /\ \A i \in 1..k : p[i] \in 1..k /\ t[i] = s[p[i]]
  BY <1>2
<1>4. \A i, j \in 1..k : p[i] = p[j] => i = j
  BY <1>2 DEF Lists, OneToOne
<1>5. \A j \in 1..k : \E i \in 1..k : p[i] = j
  BY <1>2 DEF Lists
<1>6. StateOver(t, k, I, equal)
  <2>1. \A j \in 1..k : OneToOne(t[j].items)
    BY <1>3 DEF StateOver
  <2>2. ASSUME NEW i \in 1..k, NEW j \in 1..k, NEW x \in 1..Len(t[i].items),
               NEW y \in 1..Len(t[j].items), t[i].items[x] = t[j].items[y]
        PROVE  i = j
    <3>1. p[i] \in 1..k /\ p[j] \in 1..k /\ t[i] = s[p[i]] /\ t[j] = s[p[j]]
      BY <1>3
    <3>2. x \in 1..Len(s[p[i]].items) /\ y \in 1..Len(s[p[j]].items)
          /\ s[p[i]].items[x] = s[p[j]].items[y]
      BY <3>1, <2>2, Zenon
    <3>3. p[i] = p[j]
      BY <3>1, <3>2, Zenon DEF StateOver
    <3> QED BY <3>3, <1>4
  <2>3. ASSUME equal, NEW i \in 1..k, NEW j \in 1..k
        PROVE  Len(t[i].items) = Len(t[j].items)
    <3>1. p[i] \in 1..k /\ p[j] \in 1..k /\ t[i] = s[p[i]] /\ t[j] = s[p[j]]
      BY <1>3
    <3>2. Len(s[p[i]].items) = Len(s[p[j]].items)
      BY <3>1, <2>3, Zenon DEF StateOver
    <3> QED BY <3>1, <3>2, Zenon
  <2> QED BY <2>1, <2>2, <2>3, <1>1, <1>3 DEF StateOver
<1>7. ASSUME NEW x PROVE Has(t, x) <=> Has(s, x)
  <2>1. ASSUME Has(t, x) PROVE Has(s, x)
    <3>1. PICK j \in 1..k : \E i \in 1..Len(t[j].items) : t[j].items[i] = x
      BY <2>1, <1>3 DEF Has
    <3>2. p[j] \in 1..Len(s) /\ t[j] = s[p[j]]
      BY <1>0, <1>3
    <3> QED BY <3>1, <3>2 DEF Has
  <2>2. ASSUME Has(s, x) PROVE Has(t, x)
    <3>1. PICK j \in 1..k : \E i \in 1..Len(s[j].items) : s[j].items[i] = x
      BY <2>2, <1>0 DEF Has
    <3>2. PICK m \in 1..k : p[m] = j
      BY <1>5
    <3>3. m \in 1..Len(t) /\ t[m] = s[j]
      BY <3>2, <1>3
    <3> QED BY <3>1, <3>3 DEF Has
  <2> QED BY <2>1, <2>2
<1> QED BY <1>6, <1>7 DEF t

LEMMA ConcatOneToOne ==
  ASSUME NEW I, NEW a \in Seq(I), NEW b \in Seq(I), OneToOne(a), OneToOne(b),
         \A x \in 1..Len(a), y \in 1..Len(b) : a[x] # b[y]
  PROVE  OneToOne(a \o b)
<1> DEFINE A == { a[x] : x \in 1..Len(a) }
           B == { b[x] : x \in 1..Len(b) }
<1>1. a \in Seq(A) /\ b \in Seq(B) /\ A \cap B = {}
  OBVIOUS
<1>2. Lists(a, A) /\ Lists(b, B)
  BY <1>1 DEF Lists
<1> HIDE DEF A, B
<1>3. Lists(a \o b, A \cup B)
  BY <1>1, <1>2, ConcatLists
<1> QED BY <1>3 DEF Lists

\* s and t have no common item
Apart(s, t) == \A x : ~(Has(s, x) /\ Has(t, x))

LEMMA MergeState ==
  ASSUME NEW I, NEW k \in Nat, NEW equal, NEW s, StateOver(s, k, I, equal),
         NEW t, StateOver(t, k, I, equal), Apart(s, t)
  PROVE  /\ StateOver(MergeStates(s, t), k, I, equal)
         /\ \A x : Has(MergeStates(s, t), x) <=> Has(s, x) \/ Has(t, x)
<1> DEFINE o(i) == k + 1 - i
           u == [i \in 1..k |-> [sum |-> s[i].sum + t[o(i)].sum,
                                 items |-> s[i].items \o t[o(i)].items]]
<1>1. s \in Seq(SetsOver(I)) /\ t \in Seq(SetsOver(I)) /\ Len(s) = k /\ Len(t) = k
  BY DEF StateOver
<1>2. MergeStates(s, t) = DecreasingSets(u)
  <2> DEFINE v == [i \in DOMAIN s |->
                     [sum |-> s[i].sum + t[Len(t) + 1 - i].sum,
                      items |-> s[i].items \o t[Len(t) + 1 - i].items]]
  <2>1. MergeStates(s, t) = DecreasingSets(v)
    BY DEF MergeStates
  <2>2. DOMAIN s = 1..k
    BY <1>1
  <2>3. v = u
    BY <2>2, <1>1, Zenon
  <2> HIDE DEF v, u
  <2> QED BY <2>1, <2>3
<1>3. ASSUME NEW i \in 1..k
      PROVE  /\ o(i) \in 1..k /\ s[i] \in SetsOver(I) /\ t[o(i)] \in SetsOver(I)
             /\ s[i].sum \in Int /\ t[o(i)].sum \in Int
             /\ s[i].items \in Seq(I) /\ t[o(i)].items \in Seq(I)
             /\ u[i] = [sum |-> s[i].sum + t[o(i)].sum, items |-> s[i].items \o t[o(i)].items]
  <2>1. o(i) \in 1..k /\ s[i] \in SetsOver(I)
    BY <1>1
  <2>2. t[o(i)] \in SetsOver(I)
    <3> HIDE DEF o
    <3> QED BY <2>1, <1>1
  <2> HIDE DEF o
  <2> QED BY <2>1, <2>2 DEF SetsOver
<1>4. ASSUME NEW i \in 1..k
      PROVE  /\ u[i] \in SetsOver(I) /\ u[i].items = s[i].items \o t[o(i)].items
             /\ Len(u[i].items) = Len(s[i].items) + Len(t[o(i)].items)
             /\ \A x \in 1..Len(u[i].items) :
                  \/ \E y \in 1..Len(s[i].items) : s[i].items[y] = u[i].items[x]
                  \/ \E y \in 1..Len(t[o(i)].items) : t[o(i)].items[y] = u[i].items[x]
             /\ \A y \in 1..Len(s[i].items) :
                  \E x \in 1..Len(u[i].items) : u[i].items[x] = s[i].items[y]
             /\ \A y \in 1..Len(t[o(i)].items) :
                  \E x \in 1..Len(u[i].items) : u[i].items[x] = t[o(i)].items[y]
  <2> DEFINE a == s[i].items
             b == t[o(i)].items
             c == a \o b
  <2>1. a \in Seq(I) /\ b \in Seq(I) /\ u[i] = [sum |-> s[i].sum + t[o(i)].sum, items |-> c]
        /\ s[i].sum + t[o(i)].sum \in Int
    BY <1>3
  <2> HIDE DEF a, b, u
  <2>2. c \in Seq(I) /\ Len(c) = Len(a) + Len(b)
        /\ \A x \in 1..(Len(a) + Len(b)) : c[x] = IF x <= Len(a) THEN a[x] ELSE b[x - Len(a)]
    BY <2>1, ConcatProperties
  <2>3. u[i].items = c /\ u[i] \in SetsOver(I)
    BY <2>1, <2>2 DEF SetsOver
  <2> HIDE DEF c
  <2>4. Len(a) \in Nat /\ Len(b) \in Nat
    BY <2>1
  <2>5. ASSUME NEW x \in 1..Len(c)
        PROVE  \/ \E y \in 1..Len(a) : a[y] = c[x]
               \/ \E y \in 1..Len(b) : b[y] = c[x]
    <3>1. CASE x <= Len(a)
      <4>1. x \in 1..Len(a) /\ a[x] = c[x]
        BY <3>1, <2>2, <2>4
      <4> QED BY <4>1
    <3>2. CASE ~(x <= Len(a))
      <4>1. x - Len(a) \in 1..Len(b) /\ b[x - Len(a)] = c[x]
        BY <3>2, <2>2, <2>4
      <4> QED BY <4>1
    <3> QED BY <3>1, <3>2
  <2>6. ASSUME NEW y \in 1..Len(a) PROVE \E x \in 1..Len(c) : c[x] = a[y]
    <3>1. y \in 1..Len(c) /\ c[y] = a[y]
      BY <2>2, <2>4
    <3> QED BY <3>1
  <2>7. ASSUME NEW y \in 1..Len(b) PROVE \E x \in 1..Len(c) : c[x] = b[y]
    <3>1. y + Len(a) \in 1..Len(c) /\ c[y + Len(a)] = b[y]
      BY <2>2, <2>4
    <3> QED BY <3>1
  <2> HIDE DEF o
  <2>8. c = s[i].items \o t[o(i)].items
    BY DEF a, b, c
  <2>9. u[i].items = s[i].items \o t[o(i)].items
    BY <2>8, <2>3, Zenon
  <2> QED BY <2>2, <2>3, <2>5, <2>6, <2>7, <2>9 DEF a, b
<1>5. u \in Seq(SetsOver(I)) /\ Len(u) = k
  <2>1. u = [i \in 1..k |-> u[i]] /\ \A i \in 1..k : u[i] \in SetsOver(I)
    BY <1>4
  <2> HIDE DEF u
  <2>2. u \in [1..k -> SetsOver(I)]
    BY <2>1
  <2> QED BY <2>2
<1> HIDE DEF u
<1>6. \A i, j \in 1..k : o(i) = o(j) => i = j
  OBVIOUS
<1> HIDE DEF o
<1>7. ASSUME NEW i \in 1..k, NEW y \in 1..Len(s[i].items) PROVE Has(s, s[i].items[y])
  BY <1>1 DEF Has
<1>8. ASSUME NEW i \in 1..k, NEW y \in 1..Len(t[i].items) PROVE Has(t, t[i].items[y])
  BY <1>1 DEF Has
<1>9. ASSUME NEW i \in 1..k PROVE OneToOne(u[i].items)
  <2>1. OneToOne(s[i].items) /\ OneToOne(t[o(i)].items)
    BY <1>3 DEF StateOver
  <2>2. \A x \in 1..Len(s[i].items), y \in 1..Len(t[o(i)].items) :
          s[i].items[x] # t[o(i)].items[y]
    BY <1>3, <1>7, <1>8 DEF Apart
  <2>3. OneToOne(s[i].items \o t[o(i)].items)
    BY <2>1, <2>2, <1>3, ConcatOneToOne
  <2> QED BY <2>3, <1>4
<1>10. ASSUME NEW i \in 1..k, NEW j \in 1..k, NEW x \in 1..Len(u[i].items),
              NEW y \in 1..Len(u[j].items), u[i].items[x] = u[j].items[y]
       PROVE  i = j
  <2> DEFINE v == u[i].items[x]
             InS(m) == \E z \in 1..Len(s[m].items) : s[m].items[z] = v
             InT(m) == \E z \in 1..Len(t[o(m)].items) : t[o(m)].items[z] = v
  <2>1. InS(i) \/ InT(i)
    BY <1>4
  <2>2. InS(j) \/ InT(j)
    <3>1. \/ \E z \in 1..Len(s[j].items) : s[j].items[z] = u[j].items[y]
          \/ \E z \in 1..Len(t[o(j)].items) : t[o(j)].items[z] = u[j].items[y]
      BY <1>4, Zenon
    <3> QED BY <3>1, <1>10, Zenon
  <2>3. ASSUME NEW m \in 1..k, InS(m) PROVE Has(s, v)
    BY <2>3, <1>7
  <2>4. ASSUME NEW m \in 1..k, InT(m) PROVE Has(t, v)
    BY <2>4, <1>8, <1>3
  <2>5. CASE InS(i) /\ InS(j)
    <3> HIDE DEF v
    <3> QED BY <2>5 DEF StateOver
  <2>6. CASE InT(i) /\ InT(j)
    <3>1. o(i) \in 1..k /\ o(j) \in 1..k
      BY <1>3
    <3> HIDE DEF v
    <3>2. o(i) = o(j)
      BY <3>1, <2>6 DEF StateOver
    <3> QED BY <3>2, <1>6
  <2>7. ~(Has(s, v) /\ Has(t, v))
    BY DEF Apart
  <2> HIDE DEF InS, InT, v
  <2> QED BY <2>1, <2>2, <2>3, <2>4, <2>5, <2>6, <2>7
<1>11. ASSUME equal, NEW i \in 1..k, NEW j \in 1..k
       PROVE  Len(u[i].items) = Len(u[j].items)
  <2>1. Len(s[i].items) = Len(s[j].items)
    BY <1>11 DEF StateOver
  <2>2. Len(t[o(i)].items) = Len(t[o(j)].items)
    BY <1>11, <1>3 DEF StateOver
  <2> QED BY <2>1, <2>2, <1>4
<1>12. StateOver(u, k, I, equal)
  BY <1>5, <1>9, <1>10, <1>11 DEF StateOver
<1>15. \A i \in 1..k : \A y \in 1..Len(u[i].items) :
         \/ \E z \in 1..Len(s[i].items) : s[i].items[z] = u[i].items[y]
         \/ \E z \in 1..Len(t[o(i)].items) : t[o(i)].items[z] = u[i].items[y]
  BY <1>4
<1>16. \A i \in 1..k : \A y \in 1..Len(s[i].items) :
         \E z \in 1..Len(u[i].items) : u[i].items[z] = s[i].items[y]
  BY <1>4
<1>17. \A i \in 1..k : \A y \in 1..Len(t[o(i)].items) :
         \E z \in 1..Len(u[i].items) : u[i].items[z] = t[o(i)].items[y]
  BY <1>4
<1>13. ASSUME NEW x PROVE Has(u, x) <=> Has(s, x) \/ Has(t, x)
  <2>1. ASSUME Has(u, x) PROVE Has(s, x) \/ Has(t, x)
    <3>1. PICK i \in 1..k : \E y \in 1..Len(u[i].items) : u[i].items[y] = x
      BY <2>1, <1>5 DEF Has
    <3>2. \/ \E y \in 1..Len(s[i].items) : s[i].items[y] = x
          \/ \E y \in 1..Len(t[o(i)].items) : t[o(i)].items[y] = x
      <4>1. PICK y \in 1..Len(u[i].items) : u[i].items[y] = x
        BY <3>1
      <4>2. \/ \E z \in 1..Len(s[i].items) : s[i].items[z] = u[i].items[y]
            \/ \E z \in 1..Len(t[o(i)].items) : t[o(i)].items[z] = u[i].items[y]
        BY <1>15
      <4> QED BY <4>1, <4>2, Zenon
    <3>3. o(i) \in 1..k
      BY <1>3
    <3> QED BY <3>2, <3>3, <1>7, <1>8, Zenon
  <2>2. ASSUME Has(s, x) PROVE Has(u, x)
    <3>1. PICK i \in 1..k : \E y \in 1..Len(s[i].items) : s[i].items[y] = x
      BY <2>2, <1>1 DEF Has
    <3>2. \E y \in 1..Len(u[i].items) : u[i].items[y] = x
      BY <3>1, <1>16, Zenon
    <3> QED BY <3>2, <1>5 DEF Has
  <2>3. ASSUME Has(t, x) PROVE Has(u, x)
    <3>1. PICK i \in 1..k : \E y \in 1..Len(t[i].items) : t[i].items[y] = x
      BY <2>3, <1>1 DEF Has
    <3>2. PICK m \in 1..k : o(m) = i
      <4>1. k + 1 - i \in 1..k /\ o(k + 1 - i) = i
        BY DEF o
      <4> QED BY <4>1
    <3>3. \E y \in 1..Len(u[m].items) : u[m].items[y] = x
      BY <3>1, <3>2, <1>17, Zenon
    <3> QED BY <3>3, <1>5 DEF Has
  <2> QED BY <2>1, <2>2, <2>3
<1>14. /\ StateOver(DecreasingSets(u), k, I, equal)
       /\ \A x : Has(DecreasingSets(u), x) <=> Has(u, x)
  BY <1>12, DecreasingState
<1> QED BY <1>2, <1>13, <1>14

LEMMA HasItem ==
  ASSUME NEW I, NEW k, NEW equal, NEW s, StateOver(s, k, I, equal), NEW x, Has(s, x)
  PROVE  x \in I
<1>1. PICK j \in 1..Len(s) : \E i \in 1..Len(s[j].items) : s[j].items[i] = x
  BY DEF Has
<1>2. s \in Seq(SetsOver(I))
  BY DEF StateOver
<1>3. s[j] \in SetsOver(I)
  BY <1>2
<1>4. s[j].items \in Seq(I)
  BY <1>3 DEF SetsOver
<1> QED BY <1>1, <1>4

LEMMA MergeHeap ==
  ASSUME NEW I, I \subseteq Int, NEW k \in Nat \ {0}, NEW equal,
         NEW states, HeapOver(states, k, I, equal), Cardinality(states) >= 2
  PROVE  /\ HeapOver(MergeTwo(states), k, I, equal)
         /\ Cardinality(MergeTwo(states)) = Cardinality(states) - 1
<1> DEFINE s0 == HeapPop(states)
           rest == states \ {s0}
           s1 == HeapPop(rest)
           others == states \ {s0, s1}
           u == MergeStates(s0, s1)
<1>1. /\ IsFiniteSet(states) /\ Cardinality(states) \in Nat
      /\ \A s \in states : StateOver(s, k, I, equal) /\ \E x \in I : Has(s, x)
      /\ \A s, t \in states : \A x \in I : Has(s, x) /\ Has(t, x) => s = t
      /\ \A x \in I : \E s \in states : Has(s, x)
  BY FS_CardinalityType DEF HeapOver
<1>2. s0 \in states
  <2>1. states # {}
    BY <1>1, FS_EmptySet
  <2>2. \A s \in states : StateOver(s, k, I, equal)
    BY <1>1
  <2>3. IsFiniteSet(states)
    BY <1>1
  <2>4. HeapPop(states) \in states
    BY <2>1, <2>2, <2>3, HeapPopState
  <2> QED BY <2>4
<1> HIDE DEF s0
<1>3. IsFiniteSet(rest) /\ Cardinality(rest) = Cardinality(states) - 1
  BY <1>1, <1>2, FS_RemoveElement
<1>4. s1 \in rest
  <2>1. rest # {}
    BY <1>1, <1>3, FS_EmptySet
  <2>2. \A s \in rest : StateOver(s, k, I, equal)
    BY <1>1
  <2> HIDE DEF rest
  <2> QED BY <2>1, <2>2, <1>3, HeapPopState
<1> HIDE DEF s1
<1>5. IsFiniteSet(others) /\ Cardinality(others) = Cardinality(states) - 2
  <2>1. others = rest \ {s1}
    OBVIOUS
  <2> HIDE DEF others, rest
  <2>2. IsFiniteSet(rest \ {s1}) /\ Cardinality(rest \ {s1}) = Cardinality(rest) - 1
    BY <1>3, <1>4, FS_RemoveElement
  <2> QED BY <2>1, <2>2, <1>3, <1>1
<1>6. s1 \in states /\ s0 # s1
  BY <1>4
<1>7. MergeTwo(states) = others \cup {u}
  BY DEF MergeTwo, s0, s1
<1>8. StateOver(s0, k, I, equal) /\ StateOver(s1, k, I, equal)
  BY <1>1, <1>2, <1>6
<1>9. Apart(s0, s1)
  <2> SUFFICES ASSUME NEW x, Has(s0, x), Has(s1, x) PROVE FALSE
    BY DEF Apart
  <2>1. x \in I
    BY <1>8, HasItem
  <2> QED BY <2>1, <1>1, <1>2, <1>6
<1>10. StateOver(u, k, I, equal) /\ \A x : Has(u, x) <=> Has(s0, x) \/ Has(s1, x)
  <2>1. k \in Nat
    OBVIOUS
  <2> QED BY <2>1, <1>8, <1>9, MergeState
<1> HIDE DEF u
<1>11. ASSUME NEW s \in others, NEW x \in I PROVE ~(Has(s, x) /\ Has(u, x))
  <2>1. s \in states /\ s # s0 /\ s # s1
    OBVIOUS
  <2> QED BY <2>1, <1>10, <1>1, <1>2, <1>6
<1>12. \E x \in I : Has(u, x)
  BY <1>1, <1>2, <1>10
<1>13. u \notin others
  BY <1>11, <1>12
<1>14. IsFiniteSet(others \cup {u}) /\ Cardinality(others \cup {u}) = Cardinality(states) - 1
  <2> HIDE DEF others
  <2>1. IsFiniteSet(others \cup {u}) /\ Cardinality(others \cup {u}) = Cardinality(others) + 1
    BY <1>5, <1>13, FS_AddElement
  <2> QED BY <2>1, <1>5, <1>1
<1>15. \A s \in others \cup {u} : StateOver(s, k, I, equal) /\ \E x \in I : Has(s, x)
  BY <1>1, <1>10, <1>12
<1>16. \A s, t \in others \cup {u} : \A x \in I : Has(s, x) /\ Has(t, x) => s = t
  BY <1>1, <1>11
<1>17. ASSUME NEW x \in I PROVE \E s \in others \cup {u} : Has(s, x)
  <2>1. PICK s \in states : Has(s, x)
    BY <1>1
  <2>2. CASE s \in {s0, s1}
    BY <2>1, <2>2, <1>10
  <2>3. CASE s \notin {s0, s1}
    BY <2>1, <2>3
  <2> QED BY <2>2, <2>3
<1> HIDE DEF others
<1>18. HeapOver(others \cup {u}, k, I, equal)
  BY <1>14, <1>15, <1>16, <1>17 DEF HeapOver
<1> QED BY <1>7, <1>14, <1>18

\* o * k + i, with i from 1 to k, counts the pairs of o and i
LEMMA Positions ==
  ASSUME NEW k \in Nat \ {0}, NEW size \in Nat
  PROVE  /\ \A o \in 0..(size - 1), i \in 1..k : o * k + i \in 1..(size * k)
         /\ \A o, p \in Nat : \A i, j \in 1..k : o * k + i = p * k + j => o = p /\ i = j
         /\ \A x \in 1..(size * k) : \E o \in 0..(size - 1) : \E i \in 1..k : x = o * k + i
<1>0. k \in Nat /\ size * k \in Nat
  OBVIOUS
<1>1. ASSUME NEW o \in Nat PROVE o * k \in Nat /\ (o + 1) * k = o * k + k
  BY <1>0
<1>2. ASSUME NEW o \in 0..(size - 1), NEW i \in 1..k PROVE o * k + i \in 1..(size * k)
  <2>1. o \in Nat /\ o + 1 \in Nat /\ o + 1 <= size
    OBVIOUS
  <2>2. (o + 1) * k <= size * k
    BY <2>1, <1>0, ProductsGrow
  <2>3. o * k \in Nat /\ o * k + k <= size * k
    BY <2>1, <2>2, <1>1, Zenon
  <2> DEFINE a == o * k
             b == size * k
  <2> HIDE DEF a, b
  <2>4. a \in Nat /\ b \in Nat /\ a + k <= b
    BY <2>3, <1>0 DEF a, b
  <2>5. a + i \in 1..b
    BY <2>4
  <2> QED BY <2>5 DEF a, b
<1>3. ASSUME NEW o \in Nat, NEW p \in Nat, NEW i \in 1..k, NEW j \in 1..k, o < p
      PROVE  o * k + i # p * k + j
  <2>1. o + 1 \in Nat /\ o + 1 <= p
    BY <1>3
  <2>2. (o + 1) * k <= p * k
    BY <2>1, <1>0, ProductsGrow
  <2> DEFINE a == o * k
             b == p * k
  <2>3. a \in Nat /\ b \in Nat /\ a + k <= b
    BY <2>2, <1>1
  <2> HIDE DEF a, b
  <2>4. a + i # b + j
    BY <2>3
  <2> QED BY <2>4 DEF a, b
<1>4. ASSUME NEW o \in Nat, NEW p \in Nat, NEW i \in 1..k, NEW j \in 1..k,
             o * k + i = p * k + j
      PROVE  o = p /\ i = j
  <2>1. ~(o < p) /\ ~(p < o)
    BY <1>3, <1>4
  <2>2. o = p
    BY <2>1
  <2>3. o * k \in Nat
    BY <1>1
  <2>4. o * k + i = o * k + j
    BY <2>2, <1>4
  <2> DEFINE a == o * k
  <2> HIDE DEF a
  <2>5. a \in Nat /\ a + i = a + j
    BY <2>3, <2>4 DEF a
  <2>6. i = j
    BY <2>5
  <2> QED BY <2>2, <2>6
<1>5. ASSUME NEW x \in 1..(size * k)
      PROVE  \E o \in 0..(size - 1) : \E i \in 1..k : x = o * k + i
  <2> DEFINE o == (x - 1) \div k
             r == (x - 1) % k
  <2>1. x - 1 \in Nat /\ x <= size * k /\ x \in Nat
    BY <1>0
  <2>2. o \in Nat /\ r \in 0..(k - 1) /\ x - 1 = k * o + r
    BY <2>1, Division
  <2> HIDE DEF o, r
  <2>3. k * o = o * k /\ o * k \in Nat
    BY <2>2, <1>0
  <2>4. r + 1 \in 1..k /\ x = o * k + (r + 1)
    BY <2>1, <2>2, <2>3, <1>0
  <2>5. o \in 0..(size - 1)
    <3> SUFFICES ASSUME size <= o PROVE FALSE
      BY <2>2
    <3>1. size * k <= o * k
      BY <2>2, <1>0, ProductsGrow
    <3> QED BY <3>1, <2>1, <2>3, <2>4, <1>0
  <2> QED BY <2>4, <2>5
<1> QED BY <1>2, <1>4, <1>5

\* The images of a finite set are finite.
LEMMA FiniteImage ==
  ASSUME NEW S, IsFiniteSet(S), NEW f, DOMAIN f = S, f = [x \in S |-> f[x]]
  PROVE  IsFiniteSet({ f[x] : x \in S })
<1> DEFINE T == { f[x] : x \in S }
<1>1. f \in [S -> T]
  OBVIOUS
<1>2. \A y \in T : \E x \in S : f[x] = y
  OBVIOUS
<1> HIDE DEF T
<1>3. f \in Surjection(S, T)
  BY <1>1, <1>2 DEF Surjection
<1>4. IsFiniteSet(T)
  BY <1>3, FS_Surjection
<1> QED BY <1>4 DEF T

LEMMA InitialHeap ==
  ASSUME NEW vals \in Seq(Int), Len(vals) # 0, NEW k \in Nat \ {0}, NEW equal \in BOOLEAN,
         equal => Len(vals) % k = 0
  PROVE  /\ HeapOver(InitialStates(vals, k, equal), k, 1..Len(vals), equal)
         /\ InitialStates(vals, k, equal) # {}
<1> DEFINE n == Len(vals)
           I == 1..n
           states == InitialStates(vals, k, equal)
           One(i) == [sum |-> vals[i], items |-> << i >>]
<1>0. n \in Nat /\ n # 0 /\ DOMAIN vals = I /\ k \in Nat /\ k # 0
  OBVIOUS
<1>1. ASSUME NEW i \in I
      PROVE  One(i) \in SetsOver(I) /\ One(i).items = << i >> /\ Len(One(i).items) = 1
             /\ One(i).items[1] = i
  BY DEF SetsOver
<1>2. EmptySet \in SetsOver(I) /\ EmptySet.items = << >> /\ Len(EmptySet.items) = 0
  BY DEF SetsOver, EmptySet
<1> HIDE DEF One
<1>3. CASE ~equal
  <2> DEFINE f == [i \in I |-> [j \in 1..k |-> IF j = 1 THEN One(i) ELSE EmptySet]]
  <2>1. states = { f[i] : i \in I }
    BY <1>0, <1>3 DEF InitialStates, One
  <2>2. IsFiniteSet(states)
    <3>1. DOMAIN f = I /\ f = [i \in I |-> f[i]] /\ IsFiniteSet(I)
      BY <1>0, FS_Interval
    <3> HIDE DEF f, I
    <3>2. IsFiniteSet({ f[i] : i \in I })
      BY <3>1, FiniteImage
    <3> QED BY <3>2, <2>1
  <2>3. ASSUME NEW i \in I
        PROVE  /\ f[i] \in Seq(SetsOver(I)) /\ Len(f[i]) = k
               /\ f[i][1] = One(i) /\ \A j \in 1..k : j # 1 => f[i][j] = EmptySet
    <3> HIDE DEF I
    <3>1. f[i] = [j \in 1..k |-> IF j = 1 THEN One(i) ELSE EmptySet]
      OBVIOUS
    <3>2. 1 \in 1..k
      BY <1>0
    <3> HIDE DEF f
    <3> QED BY <3>1, <3>2, <1>0, <1>1, <1>2
  <2> HIDE DEF f, I
  <2>4. ASSUME NEW i \in I, NEW j \in 1..k, NEW x \in 1..Len(f[i][j].items)
        PROVE  j = 1 /\ x = 1 /\ f[i][j].items[x] = i
    <3>1. CASE j = 1
      <4>1. f[i][j] = One(i)
        BY <3>1, <2>3
      <4>2. Len(f[i][j].items) = 1 /\ f[i][j].items[1] = i
        BY <4>1, <1>1, Zenon
      <4>3. x = 1
        BY <4>2
      <4> QED BY <3>1, <4>2, <4>3
    <3>2. CASE j # 1
      <4>1. f[i][j] = EmptySet
        BY <3>2, <2>3
      <4>2. Len(f[i][j].items) = 0
        BY <4>1, <1>2, Zenon
      <4> QED BY <4>2
    <3> QED BY <3>1, <3>2
  <2>5. ASSUME NEW i \in I PROVE StateOver(f[i], k, I, equal) /\ \A x : Has(f[i], x) <=> x = i
    <3>1. ASSUME NEW j \in 1..k PROVE OneToOne(f[i][j].items)
      <4>1. \A x \in 1..Len(f[i][j].items) : x = 1
        BY <2>4
      <4> QED BY <4>1 DEF OneToOne
    <3>2. StateOver(f[i], k, I, equal)
      BY <2>3, <2>4, <1>3, <3>1 DEF StateOver
    <3>3. ASSUME NEW x, Has(f[i], x) PROVE x = i
      <4>1. PICK j \in 1..Len(f[i]) : \E y \in 1..Len(f[i][j].items) : f[i][j].items[y] = x
        BY <3>3, Zenon DEF Has
      <4>2. j \in 1..k
        BY <2>3
      <4>3. PICK y \in 1..Len(f[i][j].items) : f[i][j].items[y] = x
        BY <4>1
      <4>4. f[i][j].items[y] = i
        BY <4>2, <2>4, Zenon
      <4> QED BY <4>3, <4>4, Zenon
    <3>4. Has(f[i], i)
      <4>1. 1 \in 1..Len(f[i]) /\ 1 \in 1..Len(f[i][1].items) /\ f[i][1].items[1] = i
        BY <1>0, <1>1, <2>3
      <4> QED BY <4>1 DEF Has
    <3> QED BY <3>2, <3>3, <3>4
  <2>6. HeapOver(states, k, I, equal)
    <3> HIDE DEF states
    <3>1. \A s \in states : StateOver(s, k, I, equal) /\ \E x \in I : Has(s, x)
      <4> TAKE s \in states
      <4>1. PICK i \in I : s = f[i]
        BY <2>1
      <4> QED BY <4>1, <2>5
    <3>2. \A s, t \in states : \A x \in I : Has(s, x) /\ Has(t, x) => s = t
      <4> TAKE s, t \in states
      <4>1. PICK i \in I : s = f[i]
        BY <2>1
      <4>2. PICK j \in I : t = f[j]
        BY <2>1
      <4> QED BY <4>1, <4>2, <2>5
    <3>3. ASSUME NEW x \in I PROVE \E s \in states : Has(s, x)
      <4>1. f[x] \in states
        BY <2>1
      <4> QED BY <4>1, <2>5
    <3> QED BY <2>2, <3>1, <3>2, <3>3 DEF HeapOver
  <2>7. states # {}
    <3>1. 1 \in I
      BY <1>0 DEF I
    <3>2. f[1] \in states
      BY <2>1, <3>1, Zenon
    <3> QED BY <3>2
  <2> QED BY <2>6, <2>7 DEF I, n
<1>4. CASE equal
  <2> DEFINE size == n \div k
             identity == [i \in I |-> i]
             ascending == SortedBy(identity, LAMBDA i, j : vals[i] < vals[j])
             raw(o) == [i \in 1..k |-> One(ascending[o * k + i])]
             f == [o \in 0..(size - 1) |-> DecreasingSets(raw(o))]
  <2>1. states = { f[o] : o \in 0..(size - 1) }
    BY <1>0, <1>4 DEF InitialStates, One
  <2>2. Lists(ascending, I)
    <3>1. Lists(identity, I)
      <4>1. identity \in Seq(I) /\ Len(identity) = n /\ \A i \in I : identity[i] = i
        BY <1>0
      <4> HIDE DEF identity
      <4> QED BY <4>1 DEF Lists, OneToOne
    <3> HIDE DEF identity, I
    <3>2. \A less : Lists(Inserted(identity, less), I)
      BY <3>1, InsertedLists
    <3> QED BY <3>2 DEF SortedBy
  <2>3. size \in Nat /\ n = size * k /\ size # 0
    <3>1. size \in Nat /\ n = k * size + (n % k)
      BY <1>0, Division
    <3> HIDE DEF size
    <3>2. n % k = 0
      BY <1>4
    <3>3. n = k * size
      BY <3>1, <3>2, <1>0
    <3> QED BY <3>1, <3>3, <1>0
  <2> HIDE DEF ascending, size
  <2>4. Len(ascending) = n
    <3>1. ascending = Inserted(identity, { p \in Range(identity) \X Range(identity) : vals[p[1]] < vals[p[2]] })
      BY DEF ascending, SortedBy
    <3>2. identity \in Seq(I) /\ Len(identity) = n
      BY <1>0
    <3> HIDE DEF identity, I
    <3>3. Permutes(ascending, identity)
      BY <3>1, <3>2, InsertedPermutes
    <3> QED BY <3>2, <3>3, <1>0 DEF Permutes
  <2>5. ASSUME NEW o \in 0..(size - 1), NEW i \in 1..k
        PROVE  o * k + i \in 1..n /\ ascending[o * k + i] \in I /\ raw(o)[i] = One(ascending[o * k + i])
    <3>1. o * k + i \in 1..n
      BY <2>3, Positions
    <3>2. ascending[o * k + i] \in I
      <4>1. \A m \in 1..n : ascending[m] \in I
        <5>1. ascending \in Seq(I)
          BY <2>2 DEF Lists
        <5> HIDE DEF I
        <5> QED BY <5>1, <2>4
      <4> HIDE DEF I
      <4> QED BY <3>1, <4>1, Zenon
    <3> QED BY <3>1, <3>2
  <2>6. \A o, p \in 0..(size - 1) : \A i, j \in 1..k :
          ascending[o * k + i] = ascending[p * k + j] => o = p /\ i = j
    <3> TAKE o, p \in 0..(size - 1)
    <3> TAKE i, j \in 1..k
    <3> HAVE ascending[o * k + i] = ascending[p * k + j]
    <3>1. o * k + i \in 1..n /\ p * k + j \in 1..n
      BY <2>5
    <3>2. o * k + i = p * k + j
      BY <3>1, <2>2, <2>4 DEF Lists, OneToOne
    <3>3. o \in Nat /\ p \in Nat
      OBVIOUS
    <3> QED BY <3>2, <3>3, <2>3, Positions
  <2>7. \A x \in I : \E o \in 0..(size - 1) : \E i \in 1..k : ascending[o * k + i] = x
    <3> TAKE x \in I
    <3>1. PICK m \in 1..n : ascending[m] = x
      BY <2>2, <2>4 DEF Lists
    <3>2. m \in 1..(size * k)
      BY <2>3
    <3>3. \A y \in 1..(size * k) : \E o \in 0..(size - 1) : \E i \in 1..k : y = o * k + i
      BY <2>3, Positions, Zenon
    <3>4. PICK o \in 0..(size - 1) : \E i \in 1..k : m = o * k + i
      BY <3>2, <3>3, Zenon
    <3> QED BY <3>1, <3>4
  <2>8. ASSUME NEW o \in 0..(size - 1)
        PROVE  /\ StateOver(raw(o), k, I, equal)
               /\ \A x : Has(raw(o), x) <=> \E i \in 1..k : ascending[o * k + i] = x
    <3>1. ASSUME NEW i \in 1..k
          PROVE  /\ raw(o)[i] \in SetsOver(I) /\ Len(raw(o)[i].items) = 1
                 /\ raw(o)[i].items[1] = ascending[o * k + i]
      BY <2>5, <1>1
    <3> DEFINE s == raw(o)
    <3>2. s \in Seq(SetsOver(I)) /\ Len(s) = k
      <4>1. s = [i \in 1..k |-> s[i]] /\ \A i \in 1..k : s[i] \in SetsOver(I)
        BY <3>1
      <4> HIDE DEF s
      <4> QED BY <4>1, <1>0
    <3>3. \A i \in 1..k : Len(s[i].items) = 1 /\ s[i].items[1] = ascending[o * k + i]
      BY <3>1
    <3> HIDE DEF s
    <3>4. \A j \in 1..k : OneToOne(s[j].items)
      BY <3>3 DEF OneToOne
    <3>5. \A i, j \in 1..k : s[i].items[1] = s[j].items[1] => i = j
      <4> TAKE i, j \in 1..k
      <4> HAVE s[i].items[1] = s[j].items[1]
      <4>1. ascending[o * k + i] = ascending[o * k + j]
        BY <3>3, Zenon
      <4> QED BY <4>1, <2>6, Zenon
    <3>6. ASSUME NEW i \in 1..k, NEW j \in 1..k, NEW x \in 1..Len(s[i].items),
                 NEW y \in 1..Len(s[j].items), s[i].items[x] = s[j].items[y]
          PROVE  i = j
      <4>1. Len(s[i].items) = 1 /\ Len(s[j].items) = 1
        BY <3>3
      <4>2. x = 1 /\ y = 1
        BY <4>1
      <4> QED BY <4>2, <3>5, <3>6, Zenon
    <3>7. StateOver(s, k, I, equal)
      BY <3>2, <3>3, <3>4, <3>6 DEF StateOver
    <3>8. ASSUME NEW x PROVE Has(s, x) <=> \E i \in 1..k : ascending[o * k + i] = x
      <4>1. ASSUME Has(s, x) PROVE \E i \in 1..k : ascending[o * k + i] = x
        <5>1. PICK i \in 1..k : \E y \in 1..Len(s[i].items) : s[i].items[y] = x
          BY <3>2, <4>1 DEF Has
        <5>2. PICK y \in 1..Len(s[i].items) : s[i].items[y] = x
          BY <5>1
        <5>3. Len(s[i].items) = 1 /\ s[i].items[1] = ascending[o * k + i]
          BY <3>3
        <5>4. y = 1
          BY <5>3
        <5> QED BY <5>2, <5>3, <5>4, Zenon
      <4>2. ASSUME NEW i \in 1..k PROVE Has(s, ascending[o * k + i])
        <5>1. Len(s[i].items) = 1 /\ s[i].items[1] = ascending[o * k + i]
          BY <3>3
        <5>2. 1 \in 1..Len(s[i].items) /\ i \in 1..Len(s)
          BY <5>1, <3>2
        <5> QED BY <5>1, <5>2, Zenon DEF Has
      <4> QED BY <4>1, <4>2, Zenon
    <3> QED BY <3>7, <3>8 DEF s
  <2> HIDE DEF raw
  <2>9. ASSUME NEW o \in 0..(size - 1)
        PROVE  /\ StateOver(f[o], k, I, equal)
               /\ \A x : Has(f[o], x) <=> \E i \in 1..k : ascending[o * k + i] = x
    <3>1. f[o] = DecreasingSets(raw(o))
      OBVIOUS
    <3>2. StateOver(raw(o), k, I, equal)
      BY <2>8
    <3>3. /\ StateOver(DecreasingSets(raw(o)), k, I, equal)
          /\ \A x : Has(DecreasingSets(raw(o)), x) <=> Has(raw(o), x)
      BY <3>2, <1>0, DecreasingState
    <3> QED BY <3>1, <3>3, <2>8
  <2>10. IsFiniteSet(states)
    <3>1. DOMAIN f = 0..(size - 1) /\ f = [o \in 0..(size - 1) |-> f[o]] /\ IsFiniteSet(0..(size - 1))
      BY <2>3, FS_Interval
    <3> HIDE DEF f
    <3>2. IsFiniteSet({ f[o] : o \in 0..(size - 1) })
      BY <3>1, FiniteImage
    <3> QED BY <3>2, <2>1
  <2> HIDE DEF f
  <2>11. ASSUME NEW s \in states PROVE StateOver(s, k, I, equal) /\ \E x \in I : Has(s, x)
    <3>1. PICK o \in 0..(size - 1) : s = f[o]
      BY <2>1
    <3>2. 1 \in 1..k /\ ascending[o * k + 1] \in I
      BY <1>0, <2>5
    <3>3. Has(s, ascending[o * k + 1])
      BY <3>1, <3>2, <2>9
    <3> QED BY <3>1, <3>2, <3>3, <2>9
  <2>12. \A s, t \in states : \A x \in I : Has(s, x) /\ Has(t, x) => s = t
    <3> TAKE s, t \in states
    <3> TAKE x \in I
    <3> HAVE Has(s, x) /\ Has(t, x)
    <3>1. PICK o \in 0..(size - 1) : s = f[o]
      BY <2>1
    <3>2. PICK p \in 0..(size - 1) : t = f[p]
      BY <2>1
    <3>3. PICK i \in 1..k : ascending[o * k + i] = x
      BY <3>1, <2>9
    <3>4. PICK j \in 1..k : ascending[p * k + j] = x
      BY <3>2, <2>9
    <3>5. o = p
      BY <3>3, <3>4, <2>6
    <3> QED BY <3>1, <3>2, <3>5
  <2>13. \A x \in I : \E s \in states : Has(s, x)
    <3> HIDE DEF states
    <3> TAKE x \in I
    <3>1. PICK o \in 0..(size - 1) : \E i \in 1..k : ascending[o * k + i] = x
      BY <2>7, Zenon
    <3>2. Has(f[o], x)
      BY <3>1, <2>9, Zenon
    <3>3. f[o] \in states
      BY <2>1, Zenon
    <3> QED BY <3>2, <3>3
  <2>14. states # {}
    <3>1. 0 \in 0..(size - 1)
      BY <2>3
    <3> QED BY <3>1, <2>1
  <2> HIDE DEF I, states
  <2>15. HeapOver(states, k, I, equal)
    BY <2>10, <2>11, <2>12, <2>13 DEF HeapOver
  <2> QED BY <2>14, <2>15 DEF I, n, states
<1> QED BY <1>3, <1>4

\* The differencing method ends with one State, which has every item.
LEMMA KarmarkarKarp ==
  ASSUME NEW vals \in Seq(Int), Len(vals) # 0, NEW k \in Nat \ {0}, NEW equal \in BOOLEAN,
         equal => Len(vals) % k = 0
  PROVE  \E s : /\ HeapOver({s}, k, 1..Len(vals), equal)
                /\ karmarkar_karp(vals, k, equal) = [j \in 1..k |-> s[j].items]
<1> DEFINE I == 1..Len(vals)
           states == InitialStates(vals, k, equal)
           rounds == Cardinality(states) - 1
           Heap(S, count) == HeapOver(S, k, I, equal) /\ Cardinality(S) = Cardinality(states) - count
           W == SUBSET Seq(SetsOver(I))
           step == [q \in (1..rounds) \X W |-> MergeTwo(q[2])]
           Merged(f, count) == IF count = 0 THEN states ELSE MergeTwo(f[count - 1])
           IsMerged(f) == f = [count \in 0..rounds |-> Merged(f, count)]
           merged == CHOOSE f : IsMerged(f)
           final == CHOOSE s \in merged[rounds] : TRUE
<1>1. karmarkar_karp(vals, k, equal) = [j \in 1..k |-> final[j].items]
  BY DEF karmarkar_karp
<1>2. HeapOver(states, k, I, equal) /\ states # {} /\ I \subseteq Int
  BY InitialHeap
<1> HIDE DEF states, I
<1>3. Cardinality(states) \in Nat /\ Cardinality(states) # 0 /\ rounds \in Nat
  <2>1. IsFiniteSet(states)
    BY <1>2 DEF HeapOver
  <2>2. Cardinality(states) \in Nat /\ Cardinality(states) # 0
    BY <2>1, <1>2, FS_EmptySet, FS_CardinalityType
  <2> QED BY <2>2
<1>4. \A S : HeapOver(S, k, I, equal) => S \in W
  BY DEF HeapOver, StateOver
<1>5. ASSUME NEW count \in 1..rounds, NEW S, Heap(S, count - 1)
      PROVE  step[<< count, S >>] = MergeTwo(S) /\ Heap(MergeTwo(S), count)
  <2>1. S \in W
    BY <1>4, <1>5
  <2>2. step[<< count, S >>] = MergeTwo(S)
    <3> HIDE DEF W
    <3> QED BY <2>1
  <2>3. Cardinality(S) >= 2 /\ Cardinality(S) = Cardinality(states) - (count - 1)
    BY <1>3, <1>5
  <2>4. HeapOver(S, k, I, equal)
    BY <1>5
  <2>5. HeapOver(MergeTwo(S), k, I, equal) /\ Cardinality(MergeTwo(S)) = Cardinality(S) - 1
    BY <2>3, <2>4, <1>2, MergeHeap
  <2>6. Cardinality(MergeTwo(S)) = Cardinality(states) - count
    BY <2>3, <2>5, <1>3
  <2> QED BY <2>2, <2>5, <2>6
<1> HIDE DEF W, step
<1>6. Heap(states, 0)
  BY <1>2, <1>3
<1> HIDE DEF rounds, Heap
<1>7. ASSUME NEW f, f[0] = states,
             \A i \in 1..rounds : Heap(f[i - 1], i - 1) => f[i] = MergeTwo(f[i - 1])
      PROVE  \A i \in 0..rounds : Heap(f[i], i)
  <2> DEFINE S == { i \in 0..rounds : Heap(f[i], i) }
  <2>1. 0 \in S
    <3>1. Heap(f[0], 0)
      BY <1>6, <1>7, Zenon
    <3> QED BY <3>1, <1>3
  <2>2. ASSUME NEW i \in 1..rounds, i - 1 \in S PROVE i \in S
    <3>1. i \in 0..rounds /\ Heap(f[i - 1], i - 1)
      BY <2>2, <1>3
    <3>2. f[i] = MergeTwo(f[i - 1])
      BY <3>1, <1>7
    <3>3. Heap(MergeTwo(f[i - 1]), i)
      BY <3>1, <1>5
    <3> QED BY <3>1, <3>2, <3>3
  <2> HIDE DEF S
  <2>3. \A i \in 0..rounds : i \in S
    BY <1>3, <2>1, <2>2, BoundedInduction
  <2> QED BY <2>3 DEF S
<1>8. IsMerged(merged)
  <2>1. PICK g : Recurs(g, rounds, states, step)
    BY <1>3, Recursion
  <2>2. g[0] = states /\ (\A i \in 1..rounds : g[i] = step[<< i, g[i - 1] >>])
        /\ g = [i \in 0..rounds |-> g[i]]
    BY <1>3, <2>1 DEF Recurs
  <2>3. ASSUME NEW i \in 1..rounds, Heap(g[i - 1], i - 1) PROVE g[i] = MergeTwo(g[i - 1])
    BY <2>2, <2>3, <1>5
  <2>4. \A i \in 0..rounds : Heap(g[i], i)
    BY <2>2, <2>3, <1>7
  <2>5. ASSUME NEW i \in 0..rounds PROVE g[i] = Merged(g, i)
    <3>1. CASE i = 0
      BY <3>1, <2>2
    <3>2. CASE i # 0
      <4>1. i \in 1..rounds /\ i - 1 \in 0..rounds
        BY <3>2, <1>3
      <4>2. Heap(g[i - 1], i - 1)
        BY <4>1, <2>4
      <4> QED BY <3>2, <4>1, <4>2, <2>3
    <3> QED BY <3>1, <3>2
  <2>6. IsMerged(g)
    <3> HIDE DEF Merged
    <3> QED BY <2>2, <2>5
  <2> HIDE DEF IsMerged
  <2> QED BY <2>6
<1> HIDE DEF merged
<1>9. Heap(merged[rounds], rounds)
  <2>1. \A i \in 0..rounds : merged[i] = Merged(merged, i)
    <3> HIDE DEF Merged
    <3> QED BY <1>8
  <2> HIDE DEF IsMerged
  <2>2. merged[0] = states
    <3>1. 0 \in 0..rounds
      BY <1>3
    <3> QED BY <3>1, <2>1
  <2>3. \A i \in 1..rounds : merged[i] = MergeTwo(merged[i - 1])
    <3> TAKE i \in 1..rounds
    <3>1. i \in 0..rounds /\ i # 0
      BY <1>3
    <3> QED BY <3>1, <2>1
  <2>4. \A i \in 0..rounds : Heap(merged[i], i)
    BY <2>2, <2>3, <1>7
  <2>5. rounds \in 0..rounds
    BY <1>3
  <2> QED BY <2>4, <2>5
<1> DEFINE last == merged[rounds]
<1>10. HeapOver(last, k, I, equal) /\ Cardinality(last) = 1
  BY <1>3, <1>9 DEF Heap, rounds
<1>11. final = CHOOSE s \in last : TRUE
  OBVIOUS
<1> HIDE DEF last, final
<1>12. IsFiniteSet(last)
  BY <1>10 DEF HeapOver
<1>13. PICK s : last = {s}
  BY <1>10, <1>12, FS_Singleton
<1>14. final = s
  BY <1>11, <1>13
<1> QED BY <1>1, <1>10, <1>13, <1>14 DEF I

\* the entries of a list
EntriesOf(p) == { p[i] : i \in 1..Len(p) }

\* k lists of the numbers 1..n, each number in one of them, once
Partition(parts, k, n, equal) ==
  /\ Splits(parts, [j \in 1..k |-> EntriesOf(parts[j])], 1..n)
  /\ Len(parts) = k
  /\ equal => \A i, j \in 1..k : Len(parts[i]) = Len(parts[j])

(* The partitions of get_seqlen_balanced_partitions have every index once, *)
(* and with equal_size the same number of them ("assert len(partition) *   *)
(* k_partitions == len(seqlen_list)").                                     *)
THEOREM PartitionsSplit ==
  ASSUME NEW vals \in Seq(Int), Len(vals) # 0, NEW k \in Nat \ {0}, NEW equal \in BOOLEAN,
         equal => Len(vals) % k = 0
  PROVE  Partition(get_seqlen_balanced_partitions(vals, k, equal), k, Len(vals), equal)
<1> DEFINE I == 1..Len(vals)
           parts == get_seqlen_balanced_partitions(vals, k, equal)
           kk == karmarkar_karp(vals, k, equal)
<1>0. k \in Nat /\ k # 0
  OBVIOUS
<1>1. PICK s : HeapOver({s}, k, I, equal) /\ kk = [j \in 1..k |-> s[j].items]
  BY KarmarkarKarp
<1>2. parts = [j \in 1..k |-> sorted(kk[j])]
  BY DEF get_seqlen_balanced_partitions
<1> HIDE DEF parts, kk, I
<1>3. StateOver(s, k, I, equal) /\ \A x \in I : Has(s, x)
  BY <1>1 DEF HeapOver
<1>4. ASSUME NEW j \in 1..k
      PROVE  /\ kk[j] = s[j].items /\ parts[j] = sorted(kk[j])
             /\ Lists(kk[j], EntriesOf(kk[j])) /\ kk[j] \in Seq(I)
  <2>1. kk[j] = s[j].items /\ parts[j] = sorted(kk[j])
    BY <1>1, <1>2
  <2>2. s \in Seq(SetsOver(I)) /\ Len(s) = k /\ OneToOne(s[j].items)
    BY <1>3 DEF StateOver
  <2>3. s[j] \in SetsOver(I)
    BY <2>2
  <2>4. kk[j] \in Seq(I)
    BY <2>1, <2>3 DEF SetsOver
  <2> DEFINE p == kk[j]
  <2>5. OneToOne(p)
    BY <2>1, <2>2
  <2> HIDE DEF p
  <2>6. p \in Seq(I)
    BY <2>4 DEF p
  <2>7. p \in Seq(EntriesOf(p))
    BY <2>6 DEF EntriesOf
  <2>8. Lists(p, EntriesOf(p))
    BY <2>5, <2>7 DEF Lists, EntriesOf
  <2> QED BY <2>1, <2>4, <2>8 DEF p
<1>5. ASSUME NEW j \in 1..k
      PROVE  /\ Lists(parts[j], EntriesOf(parts[j])) /\ EntriesOf(parts[j]) = EntriesOf(kk[j])
             /\ Len(parts[j]) = Len(kk[j])
  <2> DEFINE p == kk[j]
             q == sorted(p)
  <2>1. Lists(p, EntriesOf(p)) /\ parts[j] = q /\ p \in Seq(EntriesOf(p))
    BY <1>4 DEF Lists
  <2> HIDE DEF p
  <2>2. \A less : Permutes(Inserted(p, less), p)
    BY <2>1, InsertedPermutes
  <2>3. Permutes(q, p)
    BY <2>2 DEF sorted, SortedBy
  <2> HIDE DEF q
  <2>4. Lists(q, EntriesOf(p)) /\ Len(q) = Len(p)
    BY <2>1, <2>3, PermutedLists
  <2>5. EntriesOf(q) = EntriesOf(p)
    <3>1. EntriesOf(q) \subseteq EntriesOf(p)
      <4>1. q \in Seq(EntriesOf(p))
        BY <2>4 DEF Lists
      <4> DEFINE E == EntriesOf(p)
      <4> HIDE DEF E
      <4>2. \A i \in 1..Len(q) : q[i] \in E
        BY <4>1 DEF E
      <4> QED BY <4>2 DEF EntriesOf, E
    <3>2. EntriesOf(p) \subseteq EntriesOf(q)
      <4> SUFFICES ASSUME NEW x \in EntriesOf(p) PROVE x \in EntriesOf(q)
        OBVIOUS
      <4>1. \E i \in 1..Len(q) : q[i] = x
        BY <2>4 DEF Lists
      <4> QED BY <4>1 DEF EntriesOf
    <3> QED BY <3>1, <3>2
  <2> QED BY <2>1, <2>4, <2>5 DEF p
<1>6. EntriesOf(kk[1]) = EntriesOf(kk[1])
  OBVIOUS
<1>7. \A j \in 1..k : parts[j] \in Seq(I)
  <2> TAKE j \in 1..k
  <2>1. EntriesOf(kk[j]) \subseteq I
    <3>1. \A i \in 1..Len(kk[j]) : kk[j][i] \in I
      BY <1>4
    <3> QED BY <3>1 DEF EntriesOf
  <2>2. parts[j] \in Seq(EntriesOf(kk[j]))
    BY <1>5 DEF Lists
  <2> DEFINE p == parts[j]
             E == EntriesOf(kk[j])
  <2> HIDE DEF p, E
  <2>3. p \in Seq(E) /\ E \subseteq I
    BY <2>1, <2>2 DEF p, E
  <2>4. p \in Seq(I)
    BY <2>3
  <2> QED BY <2>4 DEF p
<1>8. parts \in Seq(Seq(I)) /\ Len(parts) = k
  <2>1. parts = [j \in 1..k |-> parts[j]]
    BY <1>2
  <2>2. parts \in [1..k -> Seq(I)]
    BY <2>1, <1>7
  <2> QED BY <2>2, <1>0
<1>9. ASSUME NEW i \in 1..k, NEW j \in 1..k, i # j
      PROVE  EntriesOf(parts[i]) \cap EntriesOf(parts[j]) = {}
  <2> SUFFICES ASSUME NEW x \in EntriesOf(kk[i]), x \in EntriesOf(kk[j]) PROVE FALSE
    BY <1>5
  <2>1. PICK y \in 1..Len(kk[i]) : kk[i][y] = x
    BY DEF EntriesOf
  <2>2. PICK z \in 1..Len(kk[j]) : kk[j][z] = x
    BY DEF EntriesOf
  <2>3. y \in 1..Len(s[i].items) /\ z \in 1..Len(s[j].items) /\ s[i].items[y] = s[j].items[z]
    BY <2>1, <2>2, <1>4
  <2> QED BY <2>3, <1>9, <1>3 DEF StateOver
<1>10. ASSUME NEW x \in I PROVE \E j \in 1..k : x \in EntriesOf(parts[j])
  <2>1. Has(s, x) /\ Len(s) = k
    BY <1>3 DEF StateOver
  <2>2. PICK j \in 1..k : \E i \in 1..Len(s[j].items) : s[j].items[i] = x
    BY <2>1, Zenon DEF Has
  <2>3. \E i \in 1..Len(kk[j]) : kk[j][i] = x
    BY <2>2, <1>4
  <2>4. x \in EntriesOf(kk[j])
    BY <2>3 DEF EntriesOf
  <2> QED BY <2>4, <1>5
<1>11. I = UNION { EntriesOf(parts[j]) : j \in 1..k }
  <2>1. \A j \in 1..k : EntriesOf(parts[j]) \subseteq I
    <3> TAKE j \in 1..k
    <3>1. \A i \in 1..Len(parts[j]) : parts[j][i] \in I
      BY <1>7
    <3> QED BY <3>1 DEF EntriesOf
  <2> QED BY <2>1, <1>10
<1> DEFINE D == [j \in 1..k |-> EntriesOf(parts[j])]
<1>12. \A j \in 1..k : D[j] = EntriesOf(parts[j])
  OBVIOUS
<1>13. UNION { D[j] : j \in 1..k } = I
  BY <1>11
<1> HIDE DEF D
<1>14. Splits(parts, D, I)
  BY <1>5, <1>8, <1>9, <1>12, <1>13 DEF Splits
<1>15. equal => \A i, j \in 1..k : Len(parts[i]) = Len(parts[j])
  <2>1. ASSUME equal, NEW i \in 1..k, NEW j \in 1..k PROVE Len(parts[i]) = Len(parts[j])
    <3>1. Len(s[i].items) = Len(s[j].items)
      BY <1>3, <2>1 DEF StateOver
    <3>2. Len(parts[i]) = Len(kk[i]) /\ Len(parts[j]) = Len(kk[j])
      BY <1>5
    <3> QED BY <3>1, <3>2, <1>4
  <2> QED BY <2>1
<1> QED BY <1>8, <1>14, <1>15 DEF Partition, D, parts, I

-----------------------------------------------------------------------------
(* Rearrangements of a sequence.                                           *)

LEMMA Rearranged ==
  ASSUME NEW A, NEW s \in Seq(A), NEW t, NEW p, DOMAIN p = 1..Len(s), Len(t) = Len(s),
         t = [i \in 1..Len(s) |-> t[i]],
         \A i \in 1..Len(s) : p[i] \in 1..Len(s) /\ t[i] = s[p[i]],
         \A i, j \in 1..Len(s) : p[i] = p[j] => i = j,
         \A j \in 1..Len(s) : \E i \in 1..Len(s) : p[i] = j
  PROVE  Permutes(t, s) /\ t \in Seq(A)
<1> DEFINE n == Len(s)
           q == [i \in 1..n |-> p[i]]
<1>0. n \in Nat
  OBVIOUS
<1>1. q \in Seq(1..n) /\ Len(q) = n /\ \A i \in 1..n : q[i] = p[i]
  BY <1>0
<1> HIDE DEF q
<1>2. Lists(q, 1..n)
  BY <1>1 DEF Lists, OneToOne
<1>3. t = [i \in 1..n |-> s[q[i]]]
  <2>1. \A i \in 1..n : t[i] = s[q[i]]
    BY <1>1
  <2>2. t = [i \in 1..n |-> t[i]]
    OBVIOUS
  <2> HIDE DEF n
  <2> QED BY <2>1, <2>2
<1>4. Permutes(t, s)
  BY <1>1, <1>2, <1>3 DEF Permutes
<1>5. \A i \in 1..n : t[i] \in A
  OBVIOUS
<1>6. t \in [1..n -> A]
  BY <1>5
<1> QED BY <1>0, <1>4, <1>6

LEMMA ReverseEntries ==
  ASSUME NEW A, NEW s \in Seq(A)
  PROVE  /\ Reverse(s) \in Seq(A) /\ Len(Reverse(s)) = Len(s)
         /\ \A i \in 1..Len(s) : Reverse(s)[i] = s[Len(s) - i + 1]
<1>1. Reverse(s) = [i \in 1..Len(s) |-> s[(Len(s) - i) + 1]]
  BY DEF Reverse
<1>2. \A i \in 1..Len(s) : (Len(s) - i) + 1 \in 1..Len(s)
  OBVIOUS
<1>3. Len(s) \in Nat /\ \A i \in 1..Len(s) : s[i] \in A
  OBVIOUS
<1>4. \A i \in 1..Len(s) : s[(Len(s) - i) + 1] \in A
  BY <1>2, <1>3, Zenon
<1>5. Reverse(s) \in [1..Len(s) -> A]
  BY <1>1, <1>4
<1> QED BY <1>1, <1>3, <1>5

LEMMA Halves ==
  ASSUME NEW A, NEW s \in Seq(A)
  PROVE  LET c == (Len(s) + 1) \div 2
             h == Len(s) \div 2
         IN  /\ c \in Nat /\ h \in Nat /\ c + h = Len(s) /\ (c = h \/ c = h + 1)
             /\ EvenIndices(s) \in Seq(A) /\ Len(EvenIndices(s)) = c
             /\ \A i \in 1..c : EvenIndices(s)[i] = s[2 * i - 1] /\ 2 * i - 1 \in 1..Len(s)
             /\ OddIndices(s) \in Seq(A) /\ Len(OddIndices(s)) = h
             /\ \A i \in 1..h : OddIndices(s)[i] = s[2 * i] /\ 2 * i \in 1..Len(s)
<1> DEFINE n == Len(s)
           c == (n + 1) \div 2
           h == n \div 2
<1>0. n \in Nat /\ \A i \in 1..n : s[i] \in A
  OBVIOUS
<1>1. EvenIndices(s) = [i \in 1..c |-> s[2 * i - 1]]
  <2>1. ceildiv(n, 2) = (n + 2 - 1) \div 2 /\ n + 2 - 1 = n + 1
    BY <1>0 DEF ceildiv
  <2> QED BY <2>1 DEF EvenIndices
<1>2. OddIndices(s) = [i \in 1..h |-> s[2 * i]]
  BY DEF OddIndices
<1> HIDE DEF n
<1>3. c \in Nat /\ h \in Nat /\ c + h = n /\ (c = h \/ c = h + 1)
  BY <1>0
<1> HIDE DEF c, h
<1>4. \A i \in 1..c : 2 * i - 1 \in 1..n
  BY <1>0, <1>3
<1>5. \A i \in 1..h : 2 * i \in 1..n
  BY <1>0, <1>3
<1>6. EvenIndices(s) \in [1..c -> A]
  BY <1>0, <1>1, <1>4
<1>7. OddIndices(s) \in [1..h -> A]
  BY <1>0, <1>2, <1>5
<1>8. /\ EvenIndices(s) \in Seq(A) /\ Len(EvenIndices(s)) = c
      /\ OddIndices(s) \in Seq(A) /\ Len(OddIndices(s)) = h
  BY <1>3, <1>6, <1>7
<1>9. \A i \in 1..c : EvenIndices(s)[i] = s[2 * i - 1]
  BY <1>1
<1>10. \A i \in 1..h : OddIndices(s)[i] = s[2 * i]
  BY <1>2
<1> QED BY <1>3, <1>4, <1>5, <1>8, <1>9, <1>10 DEF c, h, n

LEMMA MiddleHeavy ==
  ASSUME NEW A, NEW s \in Seq(A)
  PROVE  Permutes(Reverse(EvenIndices(s)) \o OddIndices(s), s)
<1> DEFINE n == Len(s)
           c == (n + 1) \div 2
           h == n \div 2
           a == Reverse(EvenIndices(s))
           b == OddIndices(s)
           t == a \o b
           p == [i \in 1..n |-> IF i <= c THEN 2 * (c - i + 1) - 1 ELSE 2 * (i - c)]
<1>0. n \in Nat
  OBVIOUS
<1>1. /\ c \in Nat /\ h \in Nat /\ c + h = n /\ (c = h \/ c = h + 1)
      /\ EvenIndices(s) \in Seq(A) /\ Len(EvenIndices(s)) = c
      /\ \A i \in 1..c : EvenIndices(s)[i] = s[2 * i - 1] /\ 2 * i - 1 \in 1..n
      /\ b \in Seq(A) /\ Len(b) = h
      /\ \A i \in 1..h : b[i] = s[2 * i] /\ 2 * i \in 1..n
  BY Halves
<1> HIDE DEF n, c, h, b
<1>2. a \in Seq(A) /\ Len(a) = c /\ \A i \in 1..c : a[i] = EvenIndices(s)[c - i + 1]
  BY <1>1, ReverseEntries
<1> HIDE DEF a
<1>3. t \in Seq(A) /\ Len(t) = c + h
      /\ \A i \in 1..(c + h) : t[i] = IF i <= c THEN a[i] ELSE b[i - c]
  <2>1. a \in Seq(A) /\ b \in Seq(A)
    BY <1>1, <1>2
  <2>2. t \in Seq(A) /\ Len(t) = Len(a) + Len(b)
        /\ \A i \in 1..(Len(a) + Len(b)) : t[i] = IF i <= Len(a) THEN a[i] ELSE b[i - Len(a)]
    BY <2>1, ConcatProperties
  <2>3. Len(a) = c /\ Len(b) = h
    BY <1>1, <1>2
  <2> HIDE DEF t
  <2> QED BY <2>2, <2>3
<1> HIDE DEF t
<1>4. ASSUME NEW i \in 1..n PROVE p[i] \in 1..n /\ t[i] = s[p[i]]
  <2>1. CASE i <= c
    <3>1. c - i + 1 \in 1..c /\ i \in 1..c
      BY <2>1, <1>0, <1>1
    <3>2. t[i] = a[i] /\ a[i] = EvenIndices(s)[c - i + 1]
      BY <2>1, <3>1, <1>1, <1>2, <1>3
    <3>3. EvenIndices(s)[c - i + 1] = s[2 * (c - i + 1) - 1] /\ 2 * (c - i + 1) - 1 \in 1..n
      BY <3>1, <1>1, Zenon
    <3> QED BY <3>2, <3>3, <2>1
  <2>2. CASE ~(i <= c)
    <3>1. i - c \in 1..h
      BY <2>2, <1>0, <1>1
    <3>2. t[i] = b[i - c] /\ b[i - c] = s[2 * (i - c)] /\ 2 * (i - c) \in 1..n
      BY <2>2, <3>1, <1>1, <1>3
    <3> QED BY <3>2, <2>2
  <2> QED BY <2>1, <2>2
<1>5. ASSUME NEW i \in 1..n, NEW j \in 1..n, p[i] = p[j] PROVE i = j
  <2>1. p[i] = IF i <= c THEN 2 * (c - i + 1) - 1 ELSE 2 * (i - c)
    OBVIOUS
  <2>2. p[j] = IF j <= c THEN 2 * (c - j + 1) - 1 ELSE 2 * (j - c)
    OBVIOUS
  <2> HIDE DEF p
  <2>3. i \in Nat /\ j \in Nat /\ c \in Nat /\ h \in Nat /\ i >= 1 /\ j >= 1
        /\ i <= c + h /\ j <= c + h
    BY <1>0, <1>1
  <2> QED BY <2>1, <2>2, <2>3, <1>5
<1>6. ASSUME NEW j \in 1..n PROVE \E i \in 1..n : p[i] = j
  <2>1. PICK m \in 0..n : j = 2 * m \/ j = 2 * m + 1
    <3>1. j \div 2 \in 0..n /\ (j = 2 * (j \div 2) \/ j = 2 * (j \div 2) + 1)
      BY <1>0
    <3> QED BY <3>1
  <2>2. CASE j = 2 * m
    <3>1. m + c \in 1..n /\ ~(m + c <= c) /\ (m + c) - c = m
      BY <2>2, <1>0, <1>1
    <3>2. p[m + c] = 2 * ((m + c) - c)
      BY <3>1
    <3> QED BY <3>1, <3>2, <2>2
  <2>3. CASE j = 2 * m + 1
    <3>1. c - m \in 1..n /\ c - m <= c /\ 2 * (c - (c - m) + 1) - 1 = j
      BY <2>3, <1>0, <1>1
    <3>2. p[c - m] = 2 * (c - (c - m) + 1) - 1
      BY <3>1
    <3> QED BY <3>1, <3>2
  <2> QED BY <2>1, <2>2, <2>3
<1>7. DOMAIN p = 1..n /\ Len(t) = n
  BY <1>1, <1>3
<1> HIDE DEF p
<1>8. t = [i \in 1..n |-> t[i]]
  BY <1>3, <1>7
<1>9. Permutes(t, s)
  BY <1>4, <1>5, <1>6, <1>7, <1>8, Rearranged DEF n
<1> QED BY <1>9 DEF t, a, b

LEMMA EndsLighter ==
  ASSUME NEW A, NEW s \in Seq(A)
  PROVE  Permutes(EvenIndices(s) \o Reverse(OddIndices(s)), s)
<1> DEFINE n == Len(s)
           c == (n + 1) \div 2
           h == n \div 2
           a == EvenIndices(s)
           b == Reverse(OddIndices(s))
           t == a \o b
           p == [i \in 1..n |-> IF i <= c THEN 2 * i - 1 ELSE 2 * (h - (i - c) + 1)]
<1>0. n \in Nat
  OBVIOUS
<1>1. /\ c \in Nat /\ h \in Nat /\ c + h = n /\ (c = h \/ c = h + 1)
      /\ a \in Seq(A) /\ Len(a) = c
      /\ \A i \in 1..c : a[i] = s[2 * i - 1] /\ 2 * i - 1 \in 1..n
      /\ OddIndices(s) \in Seq(A) /\ Len(OddIndices(s)) = h
      /\ \A i \in 1..h : OddIndices(s)[i] = s[2 * i] /\ 2 * i \in 1..n
  BY Halves
<1> HIDE DEF n, c, h, a
<1>2. b \in Seq(A) /\ Len(b) = h /\ \A i \in 1..h : b[i] = OddIndices(s)[h - i + 1]
  BY <1>1, ReverseEntries
<1> HIDE DEF b
<1>3. t \in Seq(A) /\ Len(t) = c + h
      /\ \A i \in 1..(c + h) : t[i] = IF i <= c THEN a[i] ELSE b[i - c]
  <2>1. a \in Seq(A) /\ b \in Seq(A)
    BY <1>1, <1>2
  <2>2. t \in Seq(A) /\ Len(t) = Len(a) + Len(b)
        /\ \A i \in 1..(Len(a) + Len(b)) : t[i] = IF i <= Len(a) THEN a[i] ELSE b[i - Len(a)]
    BY <2>1, ConcatProperties
  <2>3. Len(a) = c /\ Len(b) = h
    BY <1>1, <1>2
  <2> HIDE DEF t
  <2> QED BY <2>2, <2>3
<1> HIDE DEF t
<1>4. ASSUME NEW i \in 1..n PROVE p[i] \in 1..n /\ t[i] = s[p[i]]
  <2>1. CASE i <= c
    <3>1. i \in 1..c
      BY <2>1, <1>0, <1>1
    <3>2. t[i] = a[i] /\ a[i] = s[2 * i - 1] /\ 2 * i - 1 \in 1..n
      BY <2>1, <3>1, <1>1, <1>3
    <3> QED BY <3>2, <2>1
  <2>2. CASE ~(i <= c)
    <3>1. i - c \in 1..h /\ h - (i - c) + 1 \in 1..h
      BY <2>2, <1>0, <1>1
    <3>2. t[i] = b[i - c] /\ b[i - c] = OddIndices(s)[h - (i - c) + 1]
      BY <2>2, <3>1, <1>1, <1>2, <1>3
    <3>3. OddIndices(s)[h - (i - c) + 1] = s[2 * (h - (i - c) + 1)]
          /\ 2 * (h - (i - c) + 1) \in 1..n
      BY <3>1, <1>1, Zenon
    <3> QED BY <3>2, <3>3, <2>2
  <2> QED BY <2>1, <2>2
<1>5. ASSUME NEW i \in 1..n, NEW j \in 1..n, p[i] = p[j] PROVE i = j
  <2>1. p[i] = IF i <= c THEN 2 * i - 1 ELSE 2 * (h - (i - c) + 1)
    OBVIOUS
  <2>2. p[j] = IF j <= c THEN 2 * j - 1 ELSE 2 * (h - (j - c) + 1)
    OBVIOUS
  <2> HIDE DEF p
  <2>3. i \in Nat /\ j \in Nat /\ c \in Nat /\ h \in Nat /\ i >= 1 /\ j >= 1
        /\ i <= c + h /\ j <= c + h
    BY <1>0, <1>1
  <2> QED BY <2>1, <2>2, <2>3, <1>5
<1>6. ASSUME NEW j \in 1..n PROVE \E i \in 1..n : p[i] = j
  <2>1. PICK m \in 0..n : j = 2 * m \/ j = 2 * m + 1
    <3>1. j \div 2 \in 0..n /\ (j = 2 * (j \div 2) \/ j = 2 * (j \div 2) + 1)
      BY <1>0
    <3> QED BY <3>1
  <2>2. CASE j = 2 * m
    <3>1. n - m + 1 \in 1..n /\ ~(n - m + 1 <= c) /\ 2 * (h - ((n - m + 1) - c) + 1) = j
      BY <2>2, <1>0, <1>1
    <3>2. p[n - m + 1] = 2 * (h - ((n - m + 1) - c) + 1)
      BY <3>1
    <3> QED BY <3>1, <3>2
  <2>3. CASE j = 2 * m + 1
    <3>1. m + 1 \in 1..n /\ m + 1 <= c /\ 2 * (m + 1) - 1 = j
      BY <2>3, <1>0, <1>1
    <3>2. p[m + 1] = 2 * (m + 1) - 1
      BY <3>1
    <3> QED BY <3>1, <3>2
  <2> QED BY <2>1, <2>2, <2>3
<1>7. DOMAIN p = 1..n /\ Len(t) = n
  BY <1>1, <1>3
<1> HIDE DEF p
<1>8. t = [i \in 1..n |-> t[i]]
  BY <1>3, <1>7
<1>9. Permutes(t, s)
  BY <1>4, <1>5, <1>6, <1>7, <1>8, Rearranged DEF n
<1> QED BY <1>9 DEF t, a, b

LEMMA PermutedSplits ==
  ASSUME NEW S, NEW D, NEW parts, Splits(parts, D, S), NEW t, Permutes(t, parts)
  PROVE  \E E : Splits(t, E, S) /\ Len(t) = Len(parts)
<1> DEFINE n == Len(parts)
<1>1. PICK p \in Seq(1..n) : Lists(p, 1..n) /\ Len(p) = n /\ t = [i \in 1..n |-> parts[p[i]]]
  BY DEF Permutes
<1>2. parts \in Seq(Seq(S)) /\ n \in Nat
  BY DEF Splits
<1> DEFINE E == [i \in 1..n |-> D[p[i]]]
<1>3. \A i \in 1..n : p[i] \in 1..n /\ t[i] = parts[p[i]] /\ E[i] = D[p[i]]
  BY <1>1, <1>2
<1>4. \A i, j \in 1..n : p[i] = p[j] => i = j
  BY <1>1 DEF Lists, OneToOne
<1>5. \A j \in 1..n : \E i \in 1..n : p[i] = j
  BY <1>1 DEF Lists
<1> HIDE DEF E
<1>6. t \in Seq(Seq(S)) /\ Len(t) = n
  <2>0. \A i \in 1..n : parts[i] \in Seq(S)
    BY <1>2
  <2>1. \A i \in 1..n : t[i] \in Seq(S)
    BY <2>0, <1>3
  <2>2. t = [i \in 1..n |-> parts[p[i]]]
    BY <1>1
  <2> HIDE DEF n
  <2>3. t \in [1..n -> Seq(S)]
    BY <2>1, <2>2
  <2> QED BY <2>3, <1>2
<1>7. \A j \in 1..n : Lists(t[j], E[j])
  BY <1>3 DEF Splits
<1>8. ASSUME NEW i \in 1..n, NEW j \in 1..n, i # j PROVE E[i] \cap E[j] = {}
  <2>1. p[i] \in 1..n /\ p[j] \in 1..n /\ p[i] # p[j] /\ E[i] = D[p[i]] /\ E[j] = D[p[j]]
    BY <1>3, <1>4, <1>8
  <2>2. \A x, y \in 1..n : x # y => D[x] \cap D[y] = {}
    BY DEF Splits
  <2> QED BY <2>1, <2>2, Zenon
<1>9. S = UNION { E[j] : j \in 1..n }
  <2>1. S = UNION { D[j] : j \in 1..n }
    BY DEF Splits
  <2>2. ASSUME NEW j \in 1..n PROVE \E i \in 1..n : E[i] = D[j]
    <3>1. PICK i \in 1..n : p[i] = j
      BY <1>5
    <3>2. E[i] = D[j]
      BY <3>1, <1>3
    <3> QED BY <3>2
  <2>3. \A i \in 1..n : \E j \in 1..n : E[i] = D[j]
    BY <1>3, Zenon
  <2> HIDE DEF n
  <2> QED BY <2>1, <2>2, <2>3
<1>10. Splits(t, E, S)
  BY <1>6, <1>7, <1>8, <1>9 DEF Splits
<1> QED BY <1>6, <1>10

-----------------------------------------------------------------------------
(* Sums.                                                                   *)

\* the sum of a list of numbers from a set that addition keeps in the set
LEMMA SumSeqIn ==
  ASSUME NEW T, T \subseteq Int, 0 \in T, \A a, b \in T : a + b \in T, NEW s \in Seq(T)
  PROVE  /\ SumSeq(s) \in T
         /\ Len(s) # 0 /\ T \subseteq Nat /\ (\A i \in 1..Len(s) : s[i] # 0) => SumSeq(s) # 0
<1> DEFINE n == Len(s)
           step == [q \in (1..n) \X T |-> q[2] + s[q[1]]]
           Total(f, i) == IF i = 0 THEN 0 ELSE f[i - 1] + s[i]
           IsTotal(f) == f = [i \in 0..n |-> Total(f, i)]
           total == CHOOSE f : IsTotal(f)
<1>0. n \in Nat /\ \A i \in 1..n : s[i] \in T
  OBVIOUS
<1>1. SumSeq(s) = total[n]
  BY DEF SumSeq
<1> HIDE DEF n
<1>2. \A i \in 1..n : \A v \in T : step[<< i, v >>] = v + s[i] /\ v + s[i] \in T
  BY <1>0
<1> HIDE DEF step
<1>3. ASSUME NEW f, f[0] = 0, \A i \in 1..n : f[i - 1] \in T => f[i] = f[i - 1] + s[i]
      PROVE  \A i \in 0..n : f[i] \in T
  <2> DEFINE S == { i \in 0..n : f[i] \in T }
  <2>1. 0 \in S
    <3>1. f[0] \in T
      BY <1>3, Zenon
    <3> QED BY <3>1, <1>0
  <2>2. ASSUME NEW i \in 1..n, i - 1 \in S PROVE i \in S
    <3>1. i \in 0..n /\ f[i - 1] \in T
      BY <2>2, <1>0
    <3>2. f[i] = f[i - 1] + s[i] /\ f[i - 1] + s[i] \in T
      BY <3>1, <1>2, <1>3
    <3> QED BY <3>1, <3>2
  <2> HIDE DEF S
  <2>3. \A i \in 0..n : i \in S
    BY <1>0, <2>1, <2>2, BoundedInduction
  <2> QED BY <2>3 DEF S
<1>4. IsTotal(total)
  <2>1. PICK g : Recurs(g, n, 0, step)
    BY <1>0, Recursion
  <2>2. g[0] = 0 /\ (\A i \in 1..n : g[i] = step[<< i, g[i - 1] >>]) /\ g = [i \in 0..n |-> g[i]]
    BY <1>0, <2>1 DEF Recurs
  <2>3. \A i \in 1..n : g[i - 1] \in T => g[i] = g[i - 1] + s[i]
    BY <2>2, <1>2
  <2>4. \A i \in 0..n : g[i] \in T
    BY <2>2, <2>3, <1>3
  <2>5. ASSUME NEW i \in 0..n PROVE g[i] = Total(g, i)
    <3>1. CASE i = 0
      BY <3>1, <2>2
    <3>2. CASE i # 0
      <4>1. i \in 1..n /\ i - 1 \in 0..n
        BY <3>2, <1>0
      <4> QED BY <3>2, <4>1, <2>3, <2>4
    <3> QED BY <3>1, <3>2
  <2>6. IsTotal(g)
    <3> HIDE DEF Total
    <3> QED BY <2>2, <2>5
  <2> HIDE DEF IsTotal
  <2> QED BY <2>6
<1> HIDE DEF total
<1>5. total[0] = 0 /\ \A i \in 1..n : total[i] = total[i - 1] + s[i]
  <2>1. \A i \in 0..n : total[i] = Total(total, i)
    <3> HIDE DEF Total
    <3> QED BY <1>4
  <2>2. 0 \in 0..n /\ \A i \in 1..n : i \in 0..n /\ i # 0
    BY <1>0
  <2> HIDE DEF IsTotal
  <2> QED BY <2>1, <2>2
<1> HIDE DEF IsTotal
<1>6. \A i \in 0..n : total[i] \in T
  BY <1>3, <1>5
<1>7. SumSeq(s) \in T
  <2>1. n \in 0..n
    BY <1>0
  <2> QED BY <2>1, <1>1, <1>6
<1>8. ASSUME n # 0, T \subseteq Nat, \A i \in 1..n : s[i] # 0 PROVE SumSeq(s) # 0
  <2>1. n \in 1..n /\ n - 1 \in 0..n
    BY <1>0, <1>8
  <2>2. total[n] = total[n - 1] + s[n] /\ total[n - 1] \in Nat /\ s[n] \in Nat /\ s[n] # 0
    BY <2>1, <1>0, <1>5, <1>6, <1>8
  <2> DEFINE a == total[n - 1]
             b == s[n]
  <2> HIDE DEF a, b
  <2>3. a \in Nat /\ b \in Nat /\ b # 0 /\ total[n] = a + b
    BY <2>2 DEF a, b
  <2> QED BY <2>2, <2>3, <1>1
<1> QED BY <1>7, <1>8 DEF n

-----------------------------------------------------------------------------
(* Micro-batches.                                                          *)

LEMMA ListsLength ==
  ASSUME NEW n \in Nat, NEW s, Lists(s, 1..n)
  PROVE  Len(s) = n
<1>1. s \in Seq(1..n) /\ Len(s) \in Nat /\ OneToOne(s) /\ \A x \in 1..n : \E i \in 1..Len(s) : s[i] = x
  BY DEF Lists
<1> DEFINE M == 1..n
           L == 1..Len(s)
<1>2. s \in [L -> M]
  <2>1. s \in Seq(M)
    BY <1>1
  <2> HIDE DEF M
  <2> QED BY <2>1
<1>7. (\A i, j \in L : s[i] = s[j] => i = j) /\ \A x \in M : \E i \in L : s[i] = x
  BY <1>1 DEF OneToOne
<1> HIDE DEF M, L
<1>3. s \in Bijection(L, M)
  BY <1>2, <1>7 DEF Bijection, Injection, Surjection, IsInjective
<1>4. ExistsBijection(L, M)
  BY <1>3 DEF ExistsBijection
<1>5. \A m \in Nat : IsFiniteSet(1..m) /\ Cardinality(1..m) = m
  BY FS_Interval
<1>8. IsFiniteSet(L) /\ Cardinality(L) = Len(s) /\ Cardinality(M) = n
  BY <1>1, <1>5 DEF L, M
<1>6. Cardinality(M) = Cardinality(L)
  BY <1>4, <1>8, FS_Bijection
<1> QED BY <1>6, <1>8

\* values at the places where parts have their indices, restored to the order
\* of the indices
LEMMA RestoreInverts ==
  ASSUME NEW n \in Nat, NEW Y, NEW g \in [1..n -> Y], NEW D, NEW parts, Splits(parts, D, 1..n)
  PROVE  restore_dynamic_batch(FlattenSeq(Through(parts, g)), parts) = g
<1> DEFINE flat == FlattenSeq(parts)
           data == FlattenSeq(Through(parts, g))
           reverse == get_reverse_idx(flat)
<1>1. Lists(flat, 1..n)
  BY FlattenLists
<1>2. Len(flat) = n /\ flat \in Seq(1..n)
  BY <1>1, ListsLength DEF Lists
<1>3. data = [x \in 1..n |-> g[flat[x]]]
  <2>1. parts \in Seq(Seq(1..n))
    BY DEF Splits
  <2>2. ImageOf(data, flat, g)
    BY <2>1, FlattenMap
  <2> QED BY <2>2, <1>2 DEF ImageOf
<1>4. restore_dynamic_batch(data, parts) = [j \in DOMAIN data |-> data[reverse[j]]]
  BY DEF restore_dynamic_batch
<1> HIDE DEF data, flat
<1>5. ASSUME NEW j \in 1..n PROVE data[reverse[j]] = g[j]
  <2>1. DOMAIN flat = 1..n
    BY <1>2
  <2>2. reverse[j] = CHOOSE i \in 1..n : flat[i] = j
    BY <2>1 DEF get_reverse_idx
  <2>3. \E i \in 1..n : flat[i] = j
    BY <1>1, <1>2 DEF Lists
  <2> HIDE DEF reverse
  <2>4. reverse[j] \in 1..n /\ flat[reverse[j]] = j
    BY <2>2, <2>3
  <2> QED BY <2>4, <1>3
<1> HIDE DEF reverse
<1>6. DOMAIN data = 1..n
  BY <1>3
<1>7. g = [j \in 1..n |-> g[j]]
  OBVIOUS
<1> QED BY <1>4, <1>5, <1>6, <1>7 DEF data

LEMMA MicroBatchesSplit ==
  ASSUME NEW lens \in Seq(Int), Len(lens) # 0, NEW num \in Nat \ {0}
  PROVE  \E D : Splits(rearrange_micro_batches(lens, num), D, 1..Len(lens))
                /\ Len(rearrange_micro_batches(lens, num)) = num
<1> DEFINE n == Len(lens)
           workloads == [i \in DOMAIN lens |-> calculate_workload(lens[i])]
           partitions == get_seqlen_balanced_partitions(workloads, num, FALSE)
           load(p) == SumSeq([i \in DOMAIN p |-> workloads[p[i]]])
           first(p) == IF p = << >> THEN 0 ELSE p[1]
           less == { p \in Range(partitions) \X Range(partitions) :
                       load(p[1]) > load(p[2])
                       \/ (load(p[1]) = load(p[2]) /\ first(p[1]) > first(p[2])) }
           descending == Inserted(partitions, less)
<1>1. rearrange_micro_batches(lens, num) = Reverse(EvenIndices(descending)) \o OddIndices(descending)
  BY DEF rearrange_micro_batches, SortedBy
<1>2. workloads \in Seq(Int) /\ Len(workloads) = n /\ n # 0
  <2>1. \A i \in 1..n : lens[i] \in Int /\ calculate_workload(lens[i]) \in Int
    BY DEF calculate_workload
  <2>2. DOMAIN lens = 1..n /\ n \in Nat
    OBVIOUS
  <2>3. workloads \in [1..n -> Int]
    BY <2>1, <2>2
  <2> HIDE DEF workloads, n
  <2>4. workloads \in Seq(Int) /\ Len(workloads) = n
    BY <2>2, <2>3
  <2> QED BY <2>4 DEF n
<1> HIDE DEF workloads, less
<1>3. Partition(partitions, num, n, FALSE)
  BY <1>2, PartitionsSplit
<1> HIDE DEF partitions
<1>4. PICK D : Splits(partitions, D, 1..n)
  BY <1>3 DEF Partition
<1>5. partitions \in Seq(Seq(1..n)) /\ Len(partitions) = num
  BY <1>3, <1>4 DEF Splits, Partition
<1>6. descending \in Seq(Seq(1..n)) /\ Permutes(descending, partitions)
  BY <1>5, InsertedPermutes
<1> HIDE DEF descending, n
<1>7. PICK E : Splits(descending, E, 1..n) /\ Len(descending) = Len(partitions)
  BY <1>4, <1>6, PermutedSplits
<1>8. Permutes(Reverse(EvenIndices(descending)) \o OddIndices(descending), descending)
  BY <1>6, MiddleHeavy
<1> DEFINE t == Reverse(EvenIndices(descending)) \o OddIndices(descending)
<1> HIDE DEF t
<1>9. \E F : Splits(t, F, 1..n) /\ Len(t) = Len(descending)
  BY <1>7, <1>8, PermutedSplits DEF t
<1> QED BY <1>1, <1>5, <1>7, <1>9 DEF t, n

(* What rearrange_micro_batches has taken apart, restore_dynamic_batch puts *)
(* together: the results of the micro-batches come back in the order of the *)
(* rows, whatever their lengths and the number of micro-batches.            *)
THEOREM MicroBatchesRestore ==
  ASSUME NEW lens \in Seq(Int), Len(lens) # 0, NEW num \in Nat \ {0},
         NEW Y, NEW g \in [1..Len(lens) -> Y]
  PROVE  LET indices == rearrange_micro_batches(lens, num)
         IN  restore_dynamic_batch(FlattenSeq(Through(indices, g)), indices) = g
<1> DEFINE indices == rearrange_micro_batches(lens, num)
           n == Len(lens)
<1>1. PICK D : Splits(indices, D, 1..n)
  BY MicroBatchesSplit
<1>2. n \in Nat
  OBVIOUS
<1> HIDE DEF indices, n
<1>3. g \in [1..n -> Y]
  BY DEF n
<1>4. restore_dynamic_batch(FlattenSeq(Through(indices, g)), indices) = g
  BY <1>1, <1>2, <1>3, RestoreInverts
<1> QED BY <1>4 DEF indices

-----------------------------------------------------------------------------
(* Dispatch to the workers of a mesh, and back.                            *)

Increases(f) == \A i, j \in 1..Len(f) : i < j => f[i] < f[j]

LEMMA IncreasingCount ==
  ASSUME NEW f \in Seq(Int), Increases(f), NEW m \in 0..Len(f)
  PROVE  LET S == { f[j] : j \in 1..m } IN IsFiniteSet(S) /\ Cardinality(S) = m
<1> DEFINE L == 1..m
           S == { f[j] : j \in L }
           g == [j \in L |-> f[j]]
<1>0. m \in Nat /\ m <= Len(f) /\ Len(f) \in Nat
  OBVIOUS
<1>1. ASSUME NEW i \in L, NEW j \in L, f[i] = f[j] PROVE i = j
  <2>1. i \in 1..Len(f) /\ j \in 1..Len(f) /\ f[i] \in Int
    BY <1>0
  <2>2. ~(i < j) /\ ~(j < i)
    BY <2>1, <1>1 DEF Increases
  <2> QED BY <2>1, <2>2
<1>2. g \in [L -> S] /\ (\A i, j \in L : g[i] = g[j] => i = j) /\ \A x \in S : \E i \in L : g[i] = x
  BY <1>1
<1>3. \A k \in Nat : IsFiniteSet(1..k) /\ Cardinality(1..k) = k
  BY FS_Interval
<1>4. IsFiniteSet(L) /\ Cardinality(L) = m
  BY <1>0, <1>3
<1> HIDE DEF L, S, g
<1>5. g \in Bijection(L, S)
  BY <1>2 DEF Bijection, Injection, Surjection, IsInjective
<1>6. ExistsBijection(L, S)
  BY <1>5 DEF ExistsBijection
<1>7. IsFiniteSet(S) /\ Cardinality(S) = m
  BY <1>4, <1>6, FS_Bijection
<1> QED BY <1>7 DEF S, L

LEMMA AscendingIs ==
  ASSUME NEW f \in Seq(Int), Increases(f), NEW S, S = EntriesOf(f)
  PROVE  Ascending(S) = f
<1> DEFINE n == Len(f)
           Below(x) == { y \in S : y < x }
<1>0. n \in Nat /\ S = { f[j] : j \in 1..n } /\ \A i \in 1..n : f[i] \in Int
  BY DEF EntriesOf
<1>1. Cardinality(S) = n
  <2>1. n \in 0..Len(f)
    BY <1>0
  <2> QED BY <1>0, <2>1, IncreasingCount
<1>2. ASSUME NEW i \in 1..n PROVE Cardinality(Below(f[i])) = i - 1
  <2>1. Below(f[i]) = { f[j] : j \in 1..(i - 1) }
    <3>1. ASSUME NEW j \in 1..n, f[j] < f[i] PROVE j \in 1..(i - 1)
      <4>1. ~(i < j) /\ i # j
        <5>1. i < j => f[i] < f[j]
          BY DEF Increases
        <5>2. f[i] \in Int /\ f[j] \in Int
          BY <1>0
        <5> QED BY <5>1, <5>2, <3>1
      <4> QED BY <4>1, <1>0
    <3>2. ASSUME NEW j \in 1..(i - 1) PROVE j \in 1..n /\ f[j] < f[i]
      <4>1. j \in 1..n /\ j < i
        BY <1>0
      <4> QED BY <4>1 DEF Increases
    <3> QED BY <3>1, <3>2, <1>0
  <2>2. i - 1 \in 0..Len(f)
    BY <1>0
  <2>3. Cardinality({ f[j] : j \in 1..(i - 1) }) = i - 1
    BY <2>2, IncreasingCount
  <2> QED BY <2>1, <2>3
<1>3. Ascending(S) = [i \in 1..n |-> CHOOSE x \in S : Cardinality(Below(x)) = i - 1]
  BY <1>1 DEF Ascending
<1> HIDE DEF Below
<1>4. ASSUME NEW i \in 1..n PROVE (CHOOSE x \in S : Cardinality(Below(x)) = i - 1) = f[i]
  <2> DEFINE x == CHOOSE y \in S : Cardinality(Below(y)) = i - 1
  <2>1. f[i] \in S
    BY <1>0
  <2>2. x \in S /\ Cardinality(Below(x)) = i - 1
    BY <2>1, <1>2
  <2> HIDE DEF x
  <2>3. PICK j \in 1..n : x = f[j]
    BY <2>2, <1>0
  <2>4. j - 1 = i - 1
    BY <2>2, <2>3, <1>2
  <2>5. j = i
    BY <2>4, <1>0
  <2> QED BY <2>3, <2>5 DEF x
<1>5. f = [i \in 1..n |-> f[i]]
  OBVIOUS
<1> HIDE DEF n
<1> QED BY <1>3, <1>4, <1>5

\* the greatest of finitely many numbers
LEMMA Greatest ==
  ASSUME NEW f \in Seq(Nat), f # << >>
  PROVE  \E c \in EntriesOf(f) : \A d \in EntriesOf(f) : d <= c
<1> DEFINE S == EntriesOf(f)
           W == DOMAIN f
           R == { p \in Nat \X Nat : p[1] > p[2] }
<1>0. W = 1..Len(f) /\ Len(f) \in Nat /\ Len(f) # 0 /\ \A w \in W : f[w] \in Nat
  OBVIOUS
<1>1. IsFiniteSet(S) /\ S # {} /\ S \subseteq Nat
  <2>1. IsFiniteSet(W)
    BY <1>0, FS_Interval
  <2>2. DOMAIN f = W /\ f = [w \in W |-> f[w]]
    OBVIOUS
  <2>3. S = { f[w] : w \in W }
    BY <1>0 DEF EntriesOf
  <2>4. S # {} /\ S \subseteq Nat
    <3>1. 1 \in W
      BY <1>0
    <3> QED BY <1>0, <2>3, <3>1
  <2> HIDE DEF W
  <2>5. IsFiniteSet({ f[w] : w \in W })
    BY <2>1, <2>2, FiniteImage
  <2> QED BY <2>3, <2>4, <2>5
<1> HIDE DEF S, W
<1>3. \A s, t \in S : << s, t >> \in R <=> s > t
  BY <1>1
<1> HIDE DEF R
<1>4. PICK d \in S : \A t \in S : << t, d >> \notin R
  <2>1. \A s \in S : << s, s >> \notin R
    BY <1>1, <1>3
  <2>2. \A s, t, u \in S : << s, t >> \in R /\ << t, u >> \in R => << s, u >> \in R
    BY <1>1, <1>3
  <2> QED BY <1>1, <2>1, <2>2, MinimalElement
<1>5. ASSUME NEW t \in S PROVE t <= d
  <2>1. t \in Nat /\ d \in Nat
    BY <1>1
  <2>2. ~(t > d)
    BY <1>3, <1>4
  <2> QED BY <2>1, <2>2
<1> QED BY <1>5 DEF S

LEMMA MeshRanks ==
  ASSUME NEW mesh, mesh.dp_rank \in Seq(Nat), mesh.dp_rank # << >>
  PROVE  /\ dp_size(mesh) \in Nat \ {0}
         /\ \A w \in DOMAIN mesh.dp_rank : mesh.dp_rank[w] \in 0..(dp_size(mesh) - 1)
<1> DEFINE ranks == mesh.dp_rank
           W == DOMAIN ranks
           S == EntriesOf(ranks)
           Most(d) == \A w \in W : ranks[w] <= d
<1>0. W = 1..Len(ranks) /\ \A w \in W : ranks[w] \in Nat
  OBVIOUS
<1>1. S = { ranks[w] : w \in W }
  BY <1>0 DEF EntriesOf
<1>2. (\A w \in W : ranks[w] \in S) /\ S \subseteq Nat
  BY <1>0, <1>1
<1>3. dp_size(mesh) = (CHOOSE d \in S : Most(d)) + 1
  BY <1>1 DEF dp_size
<1>4. PICK c \in S : \A d \in S : d <= c
  BY Greatest
<1> HIDE DEF ranks, W, S
<1>5. Most(c)
  BY <1>2, <1>4
<1> HIDE DEF Most
<1> DEFINE top == CHOOSE e \in S : Most(e)
<1>6. top \in S /\ Most(top)
  BY <1>5
<1> HIDE DEF top
<1>7. top \in Nat /\ dp_size(mesh) = top + 1 /\ \A w \in W : ranks[w] <= top
  BY <1>2, <1>3, <1>6 DEF top, Most
<1>8. \A w \in W : ranks[w] \in 0..(dp_size(mesh) - 1)
  BY <1>0, <1>7
<1> QED BY <1>7, <1>8 DEF W, ranks

(* What a mesh computes of its chunks, whichever workers answer for a dp    *)
(* rank, reaches the driver in the order of the rows (collect_nd_compute    *)
(* undoes dispatch_nd_compute).                                             *)
THEOREM CollectDispatched ==
  ASSUME NEW mesh, MeshSound(mesh), NEW Y, NEW results \in Seq(Y),
         Len(results) % dp_size(mesh) = 0,
         NEW outputs, DOMAIN outputs = DOMAIN mesh.dp_rank,
         \A w \in DOMAIN outputs : outputs[w] = dispatch_nd_compute(mesh, results)[w]
  PROVE  collect_nd_compute(mesh, outputs) = results
<1> DEFINE dp == dp_size(mesh)
           ranks == mesh.dp_rank
           W == DOMAIN ranks
           K == { w \in W : mesh.collect[w] }
           f == [i \in 1..dp |-> CHOOSE w \in K : ranks[w] = i - 1]
<1>1. dp \in Nat \ {0} /\ (\A w \in W : ranks[w] \in 0..(dp - 1)) /\ W = 1..Len(ranks) /\ Len(ranks) \in Nat
  BY MeshRanks DEF MeshSound
<1>2. /\ \A d \in 0..(dp - 1) : \E w \in K : ranks[w] = d
      /\ \A v, w \in K : v < w => ranks[v] < ranks[w]
  <2>1. ASSUME NEW d \in 0..(dp - 1) PROVE \E w \in K : ranks[w] = d
    <3>1. PICK w \in W : ranks[w] = d
      BY DEF MeshSound
    <3>2. PICK v \in W : mesh.collect[v] /\ ranks[v] = ranks[w]
      BY DEF MeshSound
    <3>3. v \in K /\ ranks[v] = d
      BY <3>1, <3>2
    <3> QED BY <3>3
  <2>2. ASSUME NEW v \in K, NEW w \in K, v < w PROVE ranks[v] < ranks[w]
    <3>1. v \in W /\ w \in W /\ mesh.collect[v] /\ mesh.collect[w]
      OBVIOUS
    <3> QED BY <3>1, <2>2 DEF MeshSound
  <2> QED BY <2>1, <2>2
<1>3. collect_nd_compute(mesh, outputs)
        = concat([i \in DOMAIN Ascending(K) |-> outputs[Ascending(K)[i]]])
  BY DEF collect_nd_compute
<1>10. \A w \in W : outputs[w] = chunk(results, dp)[ranks[w] + 1]
  BY DEF dispatch_nd_compute
<1>11. \A w \in K : w \in W
  OBVIOUS
<1> HIDE DEF dp, ranks, K, W
<1>4. ASSUME NEW i \in 1..dp PROVE f[i] \in K /\ ranks[f[i]] = i - 1
  <2>1. i - 1 \in 0..(dp - 1)
    BY <1>1
  <2> QED BY <2>1, <1>2
<1>5. f \in Seq(Int) /\ Len(f) = dp
  <2>1. \A i \in 1..dp : f[i] \in Int
    BY <1>1, <1>4, <1>11
  <2>2. f = [i \in 1..dp |-> f[i]]
    OBVIOUS
  <2> HIDE DEF f
  <2>3. f \in [1..dp -> Int]
    BY <2>1, <2>2
  <2> QED BY <2>3, <1>1
<1> HIDE DEF f
<1>6. ASSUME NEW i \in 1..dp, NEW j \in 1..dp, i < j PROVE f[i] < f[j]
  <2>1. f[i] \in Int /\ f[j] \in Int /\ ranks[f[i]] = i - 1 /\ ranks[f[j]] = j - 1
    BY <1>1, <1>4, <1>11
  <2>2. f[j] < f[i] => ranks[f[j]] < ranks[f[i]]
    BY <1>2, <1>4
  <2>3. ~(f[j] < f[i]) /\ f[i] # f[j]
    BY <2>1, <2>2, <1>1, <1>6
  <2> QED BY <2>1, <2>3
<1>7. K = EntriesOf(f)
  <2>1. \A i \in 1..dp : f[i] \in K
    BY <1>4
  <2>2. ASSUME NEW w \in K PROVE \E i \in 1..dp : f[i] = w
    <3>1. ranks[w] \in 0..(dp - 1) /\ ranks[w] + 1 \in 1..dp
      BY <1>1, <1>11
    <3> DEFINE i == ranks[w] + 1
    <3>2. i \in 1..dp /\ f[i] \in K /\ ranks[f[i]] = ranks[w]
      BY <3>1, <1>1, <1>4
    <3> HIDE DEF i
    <3>3. f[i] \in Int /\ w \in Int /\ ranks[f[i]] \in Int
      BY <3>1, <3>2, <1>1, <1>11
    <3>4. ~(f[i] < w) /\ ~(w < f[i])
      BY <3>2, <3>3, <1>2
    <3>5. f[i] = w
      BY <3>3, <3>4
    <3> QED BY <3>2, <3>5
  <2> QED BY <2>1, <2>2, <1>5 DEF EntriesOf
<1>8. Ascending(K) = f
  <2>1. Increases(f)
    BY <1>5, <1>6 DEF Increases
  <2> QED BY <2>1, <1>5, <1>7, AscendingIs
<1>9. [i \in DOMAIN f |-> outputs[f[i]]] = chunk(results, dp)
  <2>1. \A i \in 1..dp : outputs[f[i]] = chunk(results, dp)[i]
    <3> TAKE i \in 1..dp
    <3>1. outputs[f[i]] = chunk(results, dp)[ranks[f[i]] + 1] /\ ranks[f[i]] = i - 1
      BY <1>4, <1>10, <1>11
    <3>2. (i - 1) + 1 = i
      BY <1>1
    <3> QED BY <3>1, <3>2
  <2>2. DOMAIN f = 1..dp
    BY <1>5
  <2>3. chunk(results, dp) = [i \in 1..dp |-> chunk(results, dp)[i]]
    BY DEF chunk
  <2> QED BY <2>1, <2>2, <2>3
<1>12. concat(chunk(results, dp)) = results
  BY <1>1, ConcatOfChunks DEF dp
<1> QED BY <1>3, <1>8, <1>9, <1>12

-----------------------------------------------------------------------------
(* Chunks and padding of a batch.                                          *)

LEMMA Exact ==
  ASSUME NEW n \in Nat, NEW k \in Nat \ {0}, n % k = 0
  PROVE  n \div k \in Nat /\ n = (n \div k) * k
<1> DEFINE q == n \div k
           r == n % k
<1>1. q \in Nat /\ r = 0 /\ n = k * q + r
  BY Division
<1> HIDE DEF q, r
<1>2. n = q * k
  BY <1>1
<1> QED BY <1>1, <1>2 DEF q

\* A part is dispatched to a worker for every part of its rank.
LEMMA DispatchedRows ==
  ASSUME NEW mesh, MeshSound(mesh), NEW A, NEW rows \in Seq(A), Len(rows) # 0,
         Len(rows) % dp_size(mesh) = 0, NEW w \in DOMAIN mesh.dp_rank
  PROVE  LET size == Len(rows) \div dp_size(mesh)
             part == dispatch_nd_compute(mesh, rows)[w]
         IN  /\ size \in Nat \ {0}
             /\ part \in Seq(A) /\ Len(part) = size
             /\ \A i \in 1..size : /\ mesh.dp_rank[w] * size + i \in 1..Len(rows)
                                   /\ part[i] = rows[mesh.dp_rank[w] * size + i]
<1> DEFINE dp == dp_size(mesh)
           size == Len(rows) \div dp
           parts == chunk(rows, dp)
           r == mesh.dp_rank[w]
           N == Len(rows)
<1>1. dp \in Nat \ {0} /\ r \in 0..(dp - 1)
  BY MeshRanks DEF MeshSound
<1>2. dispatch_nd_compute(mesh, rows)[w] = parts[r + 1]
  BY DEF dispatch_nd_compute
<1>3. Chunked(parts, rows, dp, size, A)
  BY <1>1, ChunkRows
<1>4. N \in Nat /\ N # 0
  OBVIOUS
<1> HIDE DEF dp, size, parts, r, N
<1>5. size \in Nat /\ N = dp * size /\ parts \in Seq(Seq(A)) /\ Len(parts) = dp
  BY <1>3 DEF Chunked, N
<1>6. r + 1 \in 1..dp /\ (r + 1) - 1 = r
  BY <1>1
<1>7. Len(parts[r + 1]) = size /\ \A i \in 1..size : parts[r + 1][i] = rows[r * size + i]
  BY <1>3, <1>6 DEF Chunked
<1>8. size # 0
  BY <1>1, <1>4, <1>5
<1>9. parts[r + 1] \in Seq(A)
  BY <1>5, <1>6
<1>10. \A i \in 1..size : r * size + i \in 1..N
  <2>1. (r + 1) * size <= dp * size
    BY <1>1, <1>5, <1>6, ProductsGrow
  <2>2. r * size \in Nat /\ (r + 1) * size = r * size + size
    BY <1>1, <1>5, <1>6, Products
  <2> QED BY <2>1, <2>2, <1>4, <1>5
<1> QED BY <1>2, <1>5, <1>7, <1>8, <1>9, <1>10 DEF dp, size, parts, r, N

\* The padding that a batch is dispatched with is what is dropped at the end.
LEMMA PaddedRows ==
  ASSUME NEW A, NEW rows \in Seq(A), NEW k \in Nat \ {0}
  PROVE  LET padded == pad_dataproto_to_divisor(rows, k)
         IN  unpad_dataproto(concat(chunk(padded, k)), pad_size(rows, k)) = rows
<1> DEFINE N == Len(rows)
           pad == pad_size(rows, k)
           tail == [i \in 1..pad |-> rows[((i - 1) % N) + 1]]
           padded == rows \o tail
<1>1. N \in Nat /\ N % k \in 0..(k - 1)
  OBVIOUS
<1>2. pad \in Nat /\ (N = 0 => pad = 0) /\ (N + pad) % k = 0
  <2>1. CASE N % k = 0
    <3>1. pad = 0
      BY <2>1 DEF pad_size
    <3> QED BY <2>1, <3>1, <1>1
  <2>2. CASE N % k # 0
    <3>1. pad = k - (N % k) /\ pad \in Nat
      BY <2>2, <1>1 DEF pad_size
    <3>2. N # 0
      BY <2>2
    <3> DEFINE q == N \div k
               r == N % k
    <3>3. q \in Nat /\ r \in 0..(k - 1) /\ N = k * q + r
      BY <1>1, Division
    <3> HIDE DEF q, r
    <3>4. N + (k - r) = k * (q + 1)
      BY <3>3
    <3>5. (k * (q + 1)) % k = 0
      <4>1. \A x \in Nat : (k * x) % k = 0
        OBVIOUS
      <4>2. q + 1 \in Nat
        BY <3>3
      <4> QED BY <4>1, <4>2
    <3>6. pad = k - r
      BY <3>1 DEF r
    <3> QED BY <3>1, <3>2, <3>4, <3>5, <3>6
  <2> QED BY <2>1, <2>2
<1> HIDE DEF pad
<1>3. tail \in Seq(A) /\ Len(tail) = pad
  <2>1. ASSUME NEW i \in 1..pad PROVE rows[((i - 1) % N) + 1] \in A
    <3>1. N # 0 /\ i - 1 \in Nat
      BY <2>1, <1>1, <1>2
    <3>2. (i - 1) % N \in 0..(N - 1)
      BY <3>1, <1>1, Division
    <3>3. ((i - 1) % N) + 1 \in 1..N
      BY <3>1, <3>2, <1>1
    <3> HIDE DEF N
    <3>4. \A x \in 1..N : rows[x] \in A
      BY DEF N
    <3> QED BY <3>3, <3>4
  <2>2. tail \in [1..pad -> A]
    BY <2>1
  <2> QED BY <2>2, <1>2
<1> HIDE DEF tail
<1>4. padded \in Seq(A) /\ Len(padded) = N + pad /\ \A i \in 1..N : padded[i] = rows[i]
  BY <1>3, <1>1, <1>2
<1>5. pad_dataproto_to_divisor(rows, k) = padded
  BY DEF pad_dataproto_to_divisor, tail, pad
<1> HIDE DEF padded
<1>6. Len(padded) % k = 0
  BY <1>2, <1>4
<1>7. concat(chunk(padded, k)) = padded
  BY <1>4, <1>6, ConcatOfChunks
<1>8. SubSeq(padded, 1, N) = rows
  <2>1. SubSeq(padded, 1, N) = [i \in 1..N |-> padded[i]]
    BY <1>1, <1>2, <1>4
  <2>2. rows = [i \in 1..N |-> rows[i]]
    OBVIOUS
  <2> QED BY <2>1, <2>2, <1>4
<1>9. Len(padded) - pad = N
  BY <1>1, <1>2, <1>4
<1> QED BY <1>5, <1>7, <1>8, <1>9 DEF unpad_dataproto, pad

\* the quotients of consecutive numbers
LEMMA Quotient ==
  ASSUME NEW n \in Nat \ {0}, NEW o \in Nat, NEW i \in 1..n
  PROVE  (o * n + i - 1) \div n = o
<1>1. i - 1 \in 0..(n - 1)
  OBVIOUS
<1> DEFINE a == o * n + (i - 1)
           q == a \div n
<1>2. a \in Nat
  OBVIOUS
<1>3. q \in Nat /\ a % n \in 0..(n - 1) /\ a = n * q + (a % n)
  BY <1>2, Division
<1> DEFINE r == a % n
<1>4. r \in 0..(n - 1) /\ n * q + r = o * n + (i - 1)
  BY <1>3
<1>5. a = o * n + i - 1
  OBVIOUS
<1> HIDE DEF q, r
<1>6. q * n + (r + 1) = o * n + i
  BY <1>3, <1>4
<1>7. q = o
  <2>1. r + 1 \in 1..n
    BY <1>4
  <2> QED BY <2>1, <1>3, <1>6, Positions
<1> QED BY <1>5, <1>7 DEF q

\* the rows of n responses to each prompt, in the order of the prompts
LEMMA RepeatedPrompts ==
  ASSUME NEW n \in Nat \ {0}, NEW N \in Nat, N % n = 0, NEW k \in Nat \ {0}, N % k = 0
  PROVE  LET prompts == [i \in 1..(N \div n) |-> i]
             generated == concat(chunk(repeat_interleave(prompts, n), k))
         IN  generated = [i \in 1..N |-> (i - 1) \div n + 1]
<1> DEFINE q == N \div n
           prompts == [i \in 1..q |-> i]
           repeated == repeat_interleave(prompts, n)
<1>1. q \in Nat /\ N = q * n
  BY Division
<1> HIDE DEF q
<1>2. Len(prompts) = q
  BY <1>1
<1>3. repeated = [i \in 1..N |-> prompts[(i - 1) \div n + 1]]
  BY <1>1, <1>2 DEF repeat_interleave
<1>4. ASSUME NEW i \in 1..N PROVE prompts[(i - 1) \div n + 1] = (i - 1) \div n + 1 /\ (i - 1) \div n + 1 \in Nat
  <2>1. i \in 1..(q * n)
    BY <1>1
  <2>2. PICK o \in 0..(q - 1) : \E j \in 1..n : i = o * n + j
    <3>1. \A x \in 1..(q * n) : \E o \in 0..(q - 1) : \E j \in 1..n : x = o * n + j
      BY <1>1, Positions
    <3> QED BY <2>1, <3>1
  <2>3. PICK j \in 1..n : i = o * n + j
    BY <2>2
  <2>4. o \in Nat /\ i - 1 = o * n + j - 1
    BY <2>3
  <2>5. (i - 1) \div n = o
    BY <2>4, Quotient
  <2>6. o + 1 \in 1..q
    BY <1>1
  <2> QED BY <2>5, <2>6
<1>5. repeated = [i \in 1..N |-> (i - 1) \div n + 1]
  BY <1>3, <1>4
<1> HIDE DEF repeated
<1>6. repeated \in [1..N -> Nat]
  BY <1>5, <1>4
<1>7. repeated \in Seq(Nat) /\ Len(repeated) = N
  BY <1>6
<1>8. concat(chunk(repeated, k)) = repeated
  BY <1>7, ConcatOfChunks
<1> QED BY <1>5, <1>8 DEF repeated, q

-----------------------------------------------------------------------------
(* Parts whose rows move, and the micro-batches.                           *)

LEMMA EachPermuted ==
  ASSUME NEW S, NEW D, NEW parts, Splits(parts, D, S), NEW k, k = Len(parts),
         NEW t, t = [j \in 1..k |-> t[j]], \A j \in 1..k : Permutes(t[j], parts[j])
  PROVE  Splits(t, D, S) /\ Len(t) = k
<1>1. k \in Nat /\ parts \in Seq(Seq(S))
  BY DEF Splits
<1>2. \A j \in 1..k : Lists(parts[j], D[j])
  BY DEF Splits
<1>3. \A j \in 1..k : Lists(t[j], D[j])
  BY <1>2, PermutedLists
<1>4. \A j \in 1..k : D[j] \subseteq S
  BY DEF Splits
<1>5. \A j \in 1..k : t[j] \in Seq(S)
  <2> TAKE j \in 1..k
  <2>1. t[j] \in Seq(D[j]) /\ D[j] \subseteq S
    BY <1>3, <1>4 DEF Lists
  <2> DEFINE E == D[j]
             u == t[j]
  <2> HIDE DEF E, u
  <2>2. u \in Seq(E) /\ E \subseteq S
    BY <2>1 DEF u, E
  <2>3. u \in Seq(S)
    BY <2>2
  <2> QED BY <2>3 DEF u
<1>6. t \in Seq(Seq(S)) /\ Len(t) = k
  <2>1. t \in [1..k -> Seq(S)]
    BY <1>5, Zenon
  <2> QED BY <2>1, <1>1
<1>7. /\ \A i, j \in 1..k : i # j => D[i] \cap D[j] = {}
      /\ S = UNION { D[j] : j \in 1..k }
  BY DEF Splits
<1>8. Splits(t, D, S)
  BY <1>3, <1>6, <1>7 DEF Splits
<1> QED BY <1>6, <1>8

\* p with c added to its entries
Shifted(p, c) == [i \in DOMAIN p |-> p[i] + c]
ShiftedSet(E, c) == { e + c : e \in E }

LEMMA ShiftedLists ==
  ASSUME NEW E, E \subseteq Int, NEW p, Lists(p, E), NEW c \in Int
  PROVE  Lists(Shifted(p, c), ShiftedSet(E, c))
<1> DEFINE F == ShiftedSet(E, c)
           q == Shifted(p, c)
           n == Len(p)
<1>1. p \in Seq(E) /\ n \in Nat /\ DOMAIN p = 1..n /\ \A i \in 1..n : p[i] \in E
  BY DEF Lists
<1>2. \A e \in E : e + c \in F
  BY DEF ShiftedSet
<1>3. q = [i \in 1..n |-> p[i] + c]
  BY <1>1 DEF Shifted
<1> HIDE DEF q, F
<1>4. \A i \in 1..n : q[i] \in F
  BY <1>1, <1>2, <1>3
<1>5. q \in Seq(F) /\ Len(q) = n
  <2>1. q \in [1..n -> F]
    BY <1>3, <1>4
  <2> QED BY <2>1, <1>1
<1>6. OneToOne(q)
  <2>1. ASSUME NEW i \in 1..n, NEW j \in 1..n, q[i] = q[j] PROVE i = j
    <3>1. p[i] \in Int /\ p[j] \in Int /\ p[i] + c = p[j] + c
      BY <2>1, <1>1, <1>3
    <3>2. p[i] = p[j]
      BY <3>1
    <3> QED BY <3>2 DEF Lists, OneToOne
  <2> QED BY <2>1, <1>5 DEF OneToOne
<1>7. ASSUME NEW x \in F PROVE \E i \in 1..n : q[i] = x
  <2>1. PICK e \in E : x = e + c
    BY DEF F, ShiftedSet
  <2>2. PICK i \in 1..n : p[i] = e
    BY DEF Lists
  <2>3. q[i] = x
    BY <2>1, <2>2, <1>3
  <2> QED BY <2>3
<1> QED BY <1>5, <1>6, <1>7 DEF Lists, q, F

\* the sum of lists of disjoint sets that are known by their place
LEMMA ListsTogether ==
  ASSUME NEW k \in Nat, NEW D, NEW parts, parts = [j \in 1..k |-> parts[j]],
         \A j \in 1..k : Lists(parts[j], D[j]),
         \A i, j \in 1..k : i # j => D[i] \cap D[j] = {},
         NEW S, S = UNION { D[j] : j \in 1..k }
  PROVE  Splits(parts, D, S) /\ Len(parts) = k
<1>1. \A j \in 1..k : D[j] \subseteq S
  OBVIOUS
<1>2. \A j \in 1..k : parts[j] \in Seq(S)
  <2> TAKE j \in 1..k
  <2> DEFINE E == D[j]
             u == parts[j]
  <2>1. u \in Seq(E) /\ E \subseteq S
    BY <1>1 DEF Lists
  <2> HIDE DEF E, u
  <2>2. u \in Seq(S)
    BY <2>1
  <2> QED BY <2>2 DEF u
<1>3. parts \in Seq(Seq(S)) /\ Len(parts) = k
  <2>1. parts \in [1..k -> Seq(S)]
    BY <1>2, Zenon
  <2> QED BY <2>1
<1>4. Splits(parts, D, S)
  BY <1>3 DEF Splits
<1> QED BY <1>3, <1>4

\* the indices of part d of mini-batch m in the whole batch
IndicesOf(part, m, d, size) == ShiftedSet(EntriesOf(part[m][d]), (m - 1) * size)

JoinedMinibatches(part, count, dp, size) ==
  [d \in 1..dp |-> FlattenSeq([m \in 1..count |-> Shifted(part[m][d], (m - 1) * size)])]

\* The mini-batches are partitioned one by one, and the parts of a rank joined.
LEMMA MinibatchesSplit ==
  ASSUME NEW size \in Nat \ {0}, NEW dp \in Nat \ {0}, NEW count \in Nat,
         NEW part, \A m \in 1..count : Partition(part[m], dp, size, TRUE)
  PROVE  \E D : /\ Splits(JoinedMinibatches(part, count, dp, size), D, 1..(count * size))
                /\ Len(JoinedMinibatches(part, count, dp, size)) = dp
<1> DEFINE joined == JoinedMinibatches(part, count, dp, size)
           F(m, d) == IndicesOf(part, m, d, size)
           D == [d \in 1..dp |-> UNION { F(m, d) : m \in 1..count }]
<1>1. ASSUME NEW m \in 1..count
      PROVE  /\ \A d \in 1..dp : EntriesOf(part[m][d]) \subseteq 1..size
             /\ \A d \in 1..dp : Lists(part[m][d], EntriesOf(part[m][d]))
             /\ \A c, d \in 1..dp : c # d => EntriesOf(part[m][c]) \cap EntriesOf(part[m][d]) = {}
             /\ \A x \in 1..size : \E d \in 1..dp : x \in EntriesOf(part[m][d])
             /\ m - 1 \in Nat /\ (m - 1) * size \in Int
  <2> DEFINE C == [j \in 1..dp |-> EntriesOf(part[m][j])]
  <2>1. Splits(part[m], C, 1..size) /\ Len(part[m]) = dp
    BY DEF Partition
  <2>2. \A d \in 1..dp : C[d] = EntriesOf(part[m][d])
    OBVIOUS
  <2> HIDE DEF C
  <2>3. /\ \A d \in 1..dp : Lists(part[m][d], C[d])
        /\ \A c, d \in 1..dp : c # d => C[c] \cap C[d] = {}
        /\ 1..size = UNION { C[d] : d \in 1..dp }
    BY <2>1 DEF Splits
  <2>4. \A d \in 1..dp : C[d] \subseteq 1..size
    BY <2>3
  <2>5. \A x \in 1..size : \E d \in 1..dp : x \in C[d]
    BY <2>3
  <2>6. m - 1 \in Nat /\ (m - 1) * size \in Int
    OBVIOUS
  <2> QED BY <2>2, <2>3, <2>4, <2>5, <2>6
<1>2. ASSUME NEW m \in 1..count, NEW d \in 1..dp, NEW x
      PROVE  x \in F(m, d) <=> \E e \in EntriesOf(part[m][d]) : x = (m - 1) * size + e
  <2>1. \A e \in EntriesOf(part[m][d]) : e \in Int
    BY <1>1
  <2>2. (m - 1) * size \in Int
    BY <1>1
  <2>3. \A e \in EntriesOf(part[m][d]) : e + (m - 1) * size = (m - 1) * size + e
    BY <2>1, <2>2
  <2> QED BY <2>3 DEF IndicesOf, ShiftedSet
<1>3. ASSUME NEW m \in 1..count, NEW l \in 1..count, NEW c \in 1..dp, NEW d \in 1..dp,
             NEW x, x \in F(m, c), x \in F(l, d)
      PROVE  m = l /\ c = d
  <2>1. PICK e \in EntriesOf(part[m][c]) : x = (m - 1) * size + e
    BY <1>2, <1>3
  <2>2. PICK f \in EntriesOf(part[l][d]) : x = (l - 1) * size + f
    BY <1>2, <1>3
  <2>3. e \in 1..size /\ f \in 1..size /\ m - 1 \in Nat /\ l - 1 \in Nat
    BY <1>1
  <2>4. m - 1 = l - 1 /\ e = f
    BY <2>1, <2>2, <2>3, Positions
  <2>5. m = l
    BY <2>4
  <2>6. c = d
    BY <2>4, <2>5, <1>1
  <2> QED BY <2>5, <2>6
<1>4. ASSUME NEW d \in 1..dp PROVE Lists(joined[d], D[d])
  <2> DEFINE parts == [m \in 1..count |-> Shifted(part[m][d], (m - 1) * size)]
             E == [m \in 1..count |-> F(m, d)]
             S == D[d]
  <2>1. ASSUME NEW m \in 1..count PROVE Lists(parts[m], E[m])
    <3>1. Lists(part[m][d], EntriesOf(part[m][d])) /\ EntriesOf(part[m][d]) \subseteq Int
          /\ (m - 1) * size \in Int
      BY <1>1
    <3>2. Lists(Shifted(part[m][d], (m - 1) * size), F(m, d))
      BY <3>1, ShiftedLists DEF IndicesOf
    <3> QED BY <3>2
  <2>2. ASSUME NEW i \in 1..count, NEW j \in 1..count, i # j PROVE E[i] \cap E[j] = {}
    <3>1. E[i] = F(i, d) /\ E[j] = F(j, d)
      OBVIOUS
    <3>2. \A x : ~(x \in F(i, d) /\ x \in F(j, d))
      BY <1>3, <2>2
    <3> QED BY <3>1, <3>2
  <2>3. S = UNION { E[m] : m \in 1..count }
    OBVIOUS
  <2>4. parts = [m \in 1..count |-> parts[m]]
    OBVIOUS
  <2>5. joined[d] = FlattenSeq(parts)
    BY DEF JoinedMinibatches
  <2> HIDE DEF parts, E, S
  <2>6. Splits(parts, E, S)
    BY <2>1, <2>2, <2>3, <2>4, ListsTogether
  <2>7. Lists(FlattenSeq(parts), S)
    BY <2>6, FlattenLists
  <2> QED BY <2>5, <2>7 DEF S
<1>5. ASSUME NEW c \in 1..dp, NEW d \in 1..dp, c # d PROVE D[c] \cap D[d] = {}
  <2>1. ASSUME NEW x \in D[c], x \in D[d] PROVE FALSE
    <3>1. PICK m \in 1..count : x \in F(m, c)
      OBVIOUS
    <3>2. PICK l \in 1..count : x \in F(l, d)
      BY <2>1
    <3> QED BY <3>1, <3>2, <1>3, <1>5
  <2> HIDE DEF D
  <2> QED BY <2>1
<1>6. 1..(count * size) = UNION { D[d] : d \in 1..dp }
  <2>1. ASSUME NEW d \in 1..dp, NEW x \in D[d] PROVE x \in 1..(count * size)
    <3>1. PICK m \in 1..count : x \in F(m, d)
      OBVIOUS
    <3>2. PICK e \in EntriesOf(part[m][d]) : x = (m - 1) * size + e
      BY <3>1, <1>2
    <3>3. e \in 1..size
      BY <1>1
    <3>4. m - 1 \in 0..(count - 1)
      OBVIOUS
    <3> QED BY <3>2, <3>3, <3>4, Positions
  <2>2. ASSUME NEW x \in 1..(count * size) PROVE \E d \in 1..dp : x \in D[d]
    <3>0. \A y \in 1..(count * size) : \E o \in 0..(count - 1) : \E i \in 1..size : y = o * size + i
      BY Positions
    <3>1. PICK o \in 0..(count - 1) : \E i \in 1..size : x = o * size + i
      BY <3>0
    <3>2. PICK e \in 1..size : x = o * size + e
      BY <3>1
    <3> DEFINE m == o + 1
    <3>3. m \in 1..count /\ m - 1 = o
      OBVIOUS
    <3> HIDE DEF m
    <3>4. PICK d \in 1..dp : e \in EntriesOf(part[m][d])
      BY <3>3, <1>1
    <3>5. x \in F(m, d)
      BY <3>2, <3>3, <3>4, <1>2
    <3>6. x \in D[d]
      BY <3>3, <3>5
    <3> QED BY <3>6
  <2> HIDE DEF D
  <2> QED BY <2>1, <2>2
<1>7. joined = [d \in 1..dp |-> joined[d]]
  BY DEF JoinedMinibatches
<1> HIDE DEF D, joined
<1>8. Splits(joined, D, 1..(count * size)) /\ Len(joined) = dp
  BY <1>4, <1>5, <1>6, <1>7, ListsTogether
<1> QED BY <1>8 DEF joined

-----------------------------------------------------------------------------
(* The rows of the prompts.                                                *)

\* the rows of prompt g
RowsOfPrompt(n, g) == [i \in 1..n |-> (g - 1) * n + i]
PromptSet(n, g) == { (g - 1) * n + i : i \in 1..n }

\* each of k parts has all the rows of a prompt or none
PromptsWhole(D, k, n, G) ==
  \A j \in 1..k, g \in 1..G : PromptSet(n, g) \subseteq D[j] \/ PromptSet(n, g) \cap D[j] = {}

LEMMA PromptLists ==
  ASSUME NEW n \in Nat \ {0}, NEW g \in Nat \ {0}
  PROVE  Lists(RowsOfPrompt(n, g), PromptSet(n, g)) /\ PromptSet(n, g) \subseteq Nat
<1> DEFINE c == (g - 1) * n
           id == [i \in 1..n |-> i]
<1>1. c \in Nat
  BY Products
<1>2. RowsOfPrompt(n, g) = [i \in 1..n |-> c + i] /\ PromptSet(n, g) = { c + i : i \in 1..n }
  BY DEF RowsOfPrompt, PromptSet
<1> HIDE DEF c
<1> DEFINE q == [i \in 1..n |-> c + i]
           F == { c + i : i \in 1..n }
<1>3. F \subseteq Nat
  BY <1>1
<1>4. \A i \in 1..n : q[i] \in F
  OBVIOUS
<1>5. \A x \in F : \E i \in 1..n : q[i] = x
  OBVIOUS
<1>6. \A i, j \in 1..n : q[i] = q[j] => i = j
  BY <1>1
<1>7. q = [i \in 1..n |-> q[i]]
  OBVIOUS
<1> HIDE DEF q, F
<1>8. q \in Seq(F) /\ Len(q) = n
  <2>1. q \in [1..n -> F]
    BY <1>4, <1>7
  <2> QED BY <2>1
<1>9. Lists(q, F)
  BY <1>5, <1>6, <1>8 DEF Lists, OneToOne
<1> QED BY <1>2, <1>3, <1>9 DEF q, F

\* where the rows of a prompt begin
StartsOf(uids) == { i \in DOMAIN uids : i = 1 \/ uids[i] # uids[i - 1] }
FirstRows(n, G) == [g \in 1..G |-> (g - 1) * n + 1]
UidsOfPrompts(N, n) == [i \in 1..N |-> (i - 1) \div n + 1]
\* the rows of the prompts of each part
JoinedPrompts(n, parts, k) ==
  [j \in 1..k |-> sorted(FlattenSeq([x \in 1..Len(parts[j]) |-> RowsOfPrompt(n, parts[j][x])]))]

LEMMA PromptStarts ==
  ASSUME NEW n \in Nat \ {0}, NEW G \in Nat, NEW N, N = G * n,
         NEW uids, uids = UidsOfPrompts(N, n)
  PROVE  Ascending(StartsOf(uids)) = FirstRows(n, G)
<1> DEFINE S == { i \in DOMAIN uids : i = 1 \/ uids[i] # uids[i - 1] }
           f == [g \in 1..G |-> (g - 1) * n + 1]
<1>0. N \in Nat /\ uids = [i \in 1..N |-> (i - 1) \div n + 1]
  BY DEF UidsOfPrompts
<1>1. ASSUME NEW o \in 0..(G - 1), NEW i \in 1..n
      PROVE  o * n + i \in 1..N /\ uids[o * n + i] = o + 1
  <2>1. o * n + i \in 1..N
    BY Positions
  <2>2. (o * n + i - 1) \div n = o
    <3>1. o \in Nat
      OBVIOUS
    <3> QED BY <3>1, Quotient
  <2> QED BY <2>1, <2>2, <1>0
<1>2. \A x \in 1..N : \E o \in 0..(G - 1) : \E i \in 1..n : x = o * n + i
  BY Positions
<1>3. \A g \in 1..G : f[g] = (g - 1) * n + 1 /\ g - 1 \in 0..(G - 1)
  OBVIOUS
<1>4. ASSUME NEW g \in 1..G PROVE f[g] \in S
  <2> DEFINE o == g - 1
             x == o * n + 1
  <2>1. o \in 0..(G - 1) /\ 1 \in 1..n /\ f[g] = x
    BY <1>3
  <2>2. x \in 1..N /\ uids[x] = o + 1
    BY <2>1, <1>1
  <2>3. CASE o = 0
    <3>1. x = 1
      BY <2>3
    <3> QED BY <3>1, <2>1, <2>2, <1>0
  <2>4. CASE o # 0
    <3>1. o - 1 \in 0..(G - 1) /\ n \in 1..n /\ o \in Nat \ {0}
      BY <2>1, <2>4
    <3>2. (o - 1) * n + n \in 1..N /\ uids[(o - 1) * n + n] = (o - 1) + 1
      BY <3>1, <1>1
    <3>3. o * n = (o - 1) * n + n /\ o * n \in Nat
      BY <3>1, Products
    <3>4. x - 1 = (o - 1) * n + n
      BY <3>3
    <3>5. uids[x - 1] # uids[x]
      BY <3>1, <3>2, <3>4, <2>2
    <3> QED BY <3>5, <2>1, <2>2, <1>0
  <2> QED BY <2>3, <2>4
<1>5. ASSUME NEW x \in S PROVE \E g \in 1..G : f[g] = x
  <2>0. x \in 1..N
    BY <1>0
  <2>1. PICK o \in 0..(G - 1) : \E i \in 1..n : x = o * n + i
    BY <2>0, <1>2
  <2>2. PICK i \in 1..n : x = o * n + i
    BY <2>1
  <2>3. o + 1 \in 1..G /\ (o + 1) - 1 = o /\ o * n \in Nat
    OBVIOUS
  <2>4. i = 1
    <3>1. SUFFICES ASSUME i # 1 PROVE FALSE
      OBVIOUS
    <3>2. i - 1 \in 1..n
      BY <3>1
    <3>3. uids[o * n + (i - 1)] = o + 1 /\ uids[o * n + i] = o + 1
      BY <3>2, <1>1
    <3>4. o * n + (i - 1) = x - 1 /\ x # 1
      BY <2>2, <2>3, <3>1
    <3> QED BY <2>2, <3>3, <3>4
  <2>5. f[o + 1] = x
    BY <2>2, <2>3, <2>4
  <2> QED BY <2>3, <2>5
<1>6. ASSUME NEW g \in 1..G, NEW h \in 1..G, g < h PROVE f[g] < f[h]
  <2>1. g \in Nat \ {0} /\ g <= h - 1 /\ h - 1 \in Nat
    BY <1>6
  <2>2. g * n <= (h - 1) * n
    BY <2>1, ProductsGrow
  <2>3. (g - 1) * n \in Nat /\ g * n = (g - 1) * n + n /\ (h - 1) * n \in Nat
    BY <2>1, Products
  <2> DEFINE a == (g - 1) * n
             b == (h - 1) * n
  <2>4. a \in Nat /\ b \in Nat /\ a + n <= b
    BY <2>2, <2>3
  <2>5. f[g] = a + 1 /\ f[h] = b + 1
    OBVIOUS
  <2> HIDE DEF a, b, f
  <2> QED BY <2>4, <2>5
<1>7. f \in Seq(Int) /\ Len(f) = G
  <2>1. \A g \in 1..G : (g - 1) * n + 1 \in Int
    OBVIOUS
  <2>2. f \in [1..G -> Int]
    BY <2>1
  <2> QED BY <2>2
<1> HIDE DEF S, f
<1>8. Increases(f)
  BY <1>6, <1>7 DEF Increases
<1>9. S = EntriesOf(f)
  BY <1>4, <1>5, <1>7 DEF EntriesOf
<1>10. Ascending(S) = f
  BY <1>7, <1>8, <1>9, AscendingIs
<1> QED BY <1>10 DEF S, f, StartsOf, FirstRows

LEMMA WorkloadOfGroup ==
  ASSUME NEW lens \in Seq(Nat), NEW p, Len(p) \in Nat, \A i \in 1..Len(p) : p[i] \in 1..Len(lens)
  PROVE  SumSeq([i \in 1..Len(p) |-> calculate_workload(lens[p[i]])]) \in Int
<1> DEFINE s == [i \in 1..Len(p) |-> calculate_workload(lens[p[i]])]
<1>1. ASSUME NEW i \in 1..Len(p) PROVE calculate_workload(lens[p[i]]) \in Int
  <2>1. lens[p[i]] \in Int
    OBVIOUS
  <2> DEFINE l == lens[p[i]]
  <2> HIDE DEF l
  <2>2. l \in Int
    BY <2>1 DEF l
  <2>3. calculate_workload(l) \in Int
    BY <2>2 DEF calculate_workload
  <2> QED BY <2>3 DEF l
<1>2. s \in [1..Len(p) -> Int]
  BY <1>1
<1>3. s \in Seq(Int)
  BY <1>2
<1> HIDE DEF s
<1> DEFINE T == Int
<1>4. T \subseteq Int /\ 0 \in T /\ s \in Seq(T)
  BY <1>3
<1>6. \A a, b \in T : a + b \in T
  OBVIOUS
<1> HIDE DEF T
<1>7. SumSeq(s) \in T
  BY <1>4, <1>6, SumSeqIn
<1>5. SumSeq(s) \in Int
  BY <1>7 DEF T
<1> QED BY <1>5 DEF s

\* every prompt's rows go to one part
LEMMA PromptsSplit ==
  ASSUME NEW n \in Nat \ {0}, NEW G \in Nat, NEW k \in Nat,
         NEW D, NEW parts, Splits(parts, D, 1..G), Len(parts) = k
  PROVE  \E E : /\ Splits(JoinedPrompts(n, parts, k), E, 1..(G * n))
                /\ Len(JoinedPrompts(n, parts, k)) = k
                /\ PromptsWhole(E, k, n, G)
<1> DEFINE joined == JoinedPrompts(n, parts, k)
<1> DEFINE E == [j \in 1..k |-> UNION { PromptSet(n, g) : g \in D[j] }]
<1>1. /\ \A j \in 1..k : Lists(parts[j], D[j])
      /\ \A i, j \in 1..k : i # j => D[i] \cap D[j] = {}
      /\ 1..G = UNION { D[j] : j \in 1..k }
  BY DEF Splits
<1>2. \A j \in 1..k : D[j] \subseteq 1..G
  BY <1>1
<1>3. ASSUME NEW g \in 1..G, NEW h \in 1..G, NEW x \in PromptSet(n, g), x \in PromptSet(n, h)
      PROVE  g = h
  <2>1. PICK i \in 1..n : x = (g - 1) * n + i
    BY DEF PromptSet
  <2>2. PICK j \in 1..n : x = (h - 1) * n + j
    BY <1>3 DEF PromptSet
  <2>3. g - 1 \in Nat /\ h - 1 \in Nat
    OBVIOUS
  <2>4. g - 1 = h - 1
    BY <2>1, <2>2, <2>3, Positions
  <2> QED BY <2>4
<1>4. ASSUME NEW j \in 1..k PROVE Lists(joined[j], E[j])
  <2> DEFINE p == parts[j]
             m == Len(p)
             rows == [x \in 1..m |-> RowsOfPrompt(n, p[x])]
             F == [x \in 1..m |-> PromptSet(n, p[x])]
             S == E[j]
  <2>1. p \in Seq(D[j]) /\ OneToOne(p) /\ \A g \in D[j] : \E x \in 1..Len(p) : p[x] = g
    BY <1>1 DEF Lists
  <2>2. m \in Nat /\ \A x \in 1..m : p[x] \in D[j]
    BY <2>1
  <2>3. \A x \in 1..m : p[x] \in 1..G
    BY <2>2, <1>2
  <2>4. S = UNION { PromptSet(n, g) : g \in D[j] }
    OBVIOUS
  <2>5. joined[j] = sorted(FlattenSeq(rows))
    BY DEF JoinedPrompts
  <2>6. \A x \in 1..m : rows[x] = RowsOfPrompt(n, p[x]) /\ F[x] = PromptSet(n, p[x])
    OBVIOUS
  <2>7. rows = [x \in 1..m |-> rows[x]]
    OBVIOUS
  <2>14. m = Len(p)
    OBVIOUS
  <2> HIDE DEF E, rows, F, p, S, m
  <2>8. ASSUME NEW x \in 1..m PROVE Lists(rows[x], F[x])
    <3>1. p[x] \in Nat \ {0}
      BY <2>3
    <3> QED BY <3>1, <2>6, PromptLists
  <2>9. ASSUME NEW x \in 1..m, NEW y \in 1..m, x # y PROVE F[x] \cap F[y] = {}
    <3>1. p[x] # p[y]
      BY <2>1, <2>9, <2>14 DEF OneToOne
    <3>2. \A z : ~(z \in PromptSet(n, p[x]) /\ z \in PromptSet(n, p[y]))
      BY <3>1, <2>3, <1>3
    <3> QED BY <3>2, <2>6
  <2>10. S = UNION { F[x] : x \in 1..m }
    <3>1. ASSUME NEW z, z \in S PROVE \E x \in 1..m : z \in F[x]
      <4>1. PICK g \in D[j] : z \in PromptSet(n, g)
        BY <3>1, <2>4
      <4>2. PICK x \in 1..m : p[x] = g
        BY <2>1, <2>14
      <4> QED BY <4>1, <4>2, <2>6
    <3>2. ASSUME NEW x \in 1..m, NEW z, z \in F[x] PROVE z \in S
      BY <3>2, <2>2, <2>4, <2>6
    <3> QED BY <3>1, <3>2
  <2>11. Splits(rows, F, S)
    BY <2>2, <2>7, <2>8, <2>9, <2>10, ListsTogether
  <2>12. Lists(FlattenSeq(rows), S)
    BY <2>11, FlattenLists
  <2>13. Lists(sorted(FlattenSeq(rows)), S)
    BY <2>12, SortedLists
  <2> QED BY <2>5, <2>13 DEF S
<1>5. ASSUME NEW i \in 1..k, NEW j \in 1..k, i # j PROVE E[i] \cap E[j] = {}
  <2>1. ASSUME NEW x \in E[i], x \in E[j] PROVE FALSE
    <3>1. PICK g \in D[i] : x \in PromptSet(n, g)
      OBVIOUS
    <3>2. PICK h \in D[j] : x \in PromptSet(n, h)
      BY <2>1
    <3>3. g \in 1..G /\ h \in 1..G
      BY <1>2
    <3>4. g = h
      BY <3>1, <3>2, <3>3, <1>3
    <3> QED BY <3>4, <1>1, <1>5
  <2> HIDE DEF E
  <2> QED BY <2>1
<1>6. 1..(G * n) = UNION { E[j] : j \in 1..k }
  <2>1. ASSUME NEW j \in 1..k, NEW x \in E[j] PROVE x \in 1..(G * n)
    <3>1. PICK g \in D[j] : x \in PromptSet(n, g)
      OBVIOUS
    <3>2. PICK i \in 1..n : x = (g - 1) * n + i
      BY <3>1 DEF PromptSet
    <3>3. g \in 1..G
      BY <1>2
    <3>4. g - 1 \in 0..(G - 1)
      BY <3>3
    <3> QED BY <3>2, <3>4, Positions
  <2>2. ASSUME NEW x \in 1..(G * n) PROVE \E j \in 1..k : x \in E[j]
    <3>0. \A y \in 1..(G * n) : \E o \in 0..(G - 1) : \E i \in 1..n : y = o * n + i
      BY Positions
    <3>1. PICK o \in 0..(G - 1) : \E i \in 1..n : x = o * n + i
      BY <3>0
    <3>2. PICK i \in 1..n : x = o * n + i
      BY <3>1
    <3> DEFINE g == o + 1
    <3>3. g \in 1..G /\ g - 1 = o
      OBVIOUS
    <3> HIDE DEF g
    <3>4. x \in PromptSet(n, g)
      BY <3>2, <3>3 DEF PromptSet
    <3>5. PICK j \in 1..k : g \in D[j]
      BY <3>3, <1>1
    <3>6. x \in E[j]
      BY <3>4, <3>5
    <3> QED BY <3>6
  <2> HIDE DEF E
  <2> QED BY <2>1, <2>2
<1>10. PromptsWhole(E, k, n, G)
  <2>1. ASSUME NEW j \in 1..k, NEW g \in 1..G
        PROVE  PromptSet(n, g) \subseteq E[j] \/ PromptSet(n, g) \cap E[j] = {}
    <3>1. CASE g \in D[j]
      BY <3>1
    <3>2. CASE g \notin D[j]
      <4>1. ASSUME NEW x \in PromptSet(n, g), x \in E[j] PROVE FALSE
        <5>1. PICK h \in D[j] : x \in PromptSet(n, h)
          BY <4>1
        <5>2. h \in 1..G
          BY <1>2
        <5>3. g = h
          BY <5>1, <5>2, <1>3
        <5> QED BY <5>3, <3>2
      <4> HIDE DEF E
      <4> QED BY <4>1
    <3> QED BY <3>1, <3>2
  <2> HIDE DEF E
  <2> QED BY <2>1 DEF PromptsWhole
<1>7. joined = [j \in 1..k |-> joined[j]]
  BY DEF JoinedPrompts
<1> DEFINE M == 1..(G * n)
<1>9. M = UNION { E[j] : j \in 1..k }
  BY <1>6
<1> HIDE DEF E, M, joined
<1>8. Splits(joined, E, M) /\ Len(joined) = k
  <2>1. \A j \in 1..k : Lists(joined[j], E[j])
    BY <1>4
  <2>2. \A i, j \in 1..k : i # j => E[i] \cap E[j] = {}
    BY <1>5
  <2> QED BY <2>1, <2>2, <1>7, <1>9, ListsTogether
<1> QED BY <1>8, <1>10 DEF M, joined

(* The partitions of get_group_balanced_partitions have every row of the   *)
(* batch once, and "Samples with the same uid are guaranteed to be in the  *)
(* same partition".                                                        *)
THEOREM GroupsSplit ==
  ASSUME NEW n \in Nat \ {0}, NEW G \in Nat \ {0}, NEW N, N = G * n,
         NEW k \in Nat \ {0}, G % k = 0, NEW lens \in Seq(Nat), Len(lens) = N,
         NEW uids, uids = UidsOfPrompts(N, n)
  PROVE  \E D : /\ Splits(get_group_balanced_partitions(lens, uids, k), D, 1..N)
                /\ Len(get_group_balanced_partitions(lens, uids, k)) = k
                /\ PromptsWhole(D, k, n, G)
<1> DEFINE starts == Ascending(StartsOf(uids))
           end(g) == IF g = Len(starts) THEN Len(uids) ELSE starts[g + 1] - 1
           group(g) == [i \in 1..(end(g) - starts[g] + 1) |-> starts[g] + i - 1]
           workload(g) == SumSeq([i \in 1..Len(group(g)) |-> calculate_workload(lens[group(g)[i]])])
           workloads == [g \in 1..Len(starts) |-> workload(g)]
           parts == get_seqlen_balanced_partitions(workloads, k, TRUE)
           joined == [j \in 1..k |-> sorted(FlattenSeq([x \in 1..Len(parts[j]) |->
                                                          group(parts[j][x])]))]
<1>0. N \in Nat /\ Len(uids) = N
  BY DEF UidsOfPrompts
<1>1. get_group_balanced_partitions(lens, uids, k) = joined
  BY DEF get_group_balanced_partitions, StartsOf
<1>2. starts = [g \in 1..G |-> (g - 1) * n + 1]
  <2>1. G \in Nat
    OBVIOUS
  <2>2. Ascending(StartsOf(uids)) = FirstRows(n, G)
    BY <2>1, PromptStarts
  <2> QED BY <2>2 DEF FirstRows
<1> HIDE DEF starts
<1>3. Len(starts) = G
  BY <1>2
<1>4. ASSUME NEW g \in 1..G PROVE group(g) = RowsOfPrompt(n, g)
  <2> DEFINE c == (g - 1) * n
  <2>1. c \in Nat /\ g * n = c + n
    BY Products
  <2>2. starts[g] = c + 1
    BY <1>2
  <2>3. end(g) = c + n
    <3>1. CASE g = G
      BY <3>1, <1>0, <1>3, <2>1
    <3>2. CASE g # G
      <4>1. g + 1 \in 1..G /\ (g + 1) - 1 = g
        BY <3>2
      <4>2. starts[g + 1] = g * n + 1
        BY <4>1, <1>2
      <4> QED BY <4>2, <3>2, <1>3, <2>1
    <3> QED BY <3>1, <3>2
  <2> HIDE DEF c, end
  <2>4. (c + n) - (c + 1) + 1 = n
    BY <2>1
  <2>5. \A i \in 1..n : (c + 1) + i - 1 = c + i
    BY <2>1
  <2>6. group(g) = [i \in 1..n |-> c + i]
    BY <2>2, <2>3, <2>4, <2>5
  <2> QED BY <2>6 DEF c, RowsOfPrompt
<1>5. \A g \in 1..G : workload(g) \in Int
  <2> TAKE g \in 1..G
  <2> DEFINE p == RowsOfPrompt(n, g)
  <2>1. Len(p) = n /\ \A i \in 1..n : p[i] = (g - 1) * n + i
    BY DEF RowsOfPrompt
  <2>2. \A i \in 1..n : (g - 1) * n + i \in 1..N
    <3>1. g - 1 \in 0..(G - 1)
      OBVIOUS
    <3> QED BY <3>1, Positions
  <2> HIDE DEF p
  <2>3. Len(p) \in Nat /\ \A i \in 1..Len(p) : p[i] \in 1..Len(lens)
    BY <2>1, <2>2
  <2>4. SumSeq([i \in 1..Len(p) |-> calculate_workload(lens[p[i]])]) \in Int
    BY <2>3, WorkloadOfGroup
  <2>5. group(g) = p
    BY <1>4 DEF p
  <2> HIDE DEF group
  <2> QED BY <2>4, <2>5
<1> HIDE DEF workload
<1>6. workloads \in Seq(Int) /\ Len(workloads) = G
  <2>1. workloads \in [1..G -> Int]
    BY <1>3, <1>5
  <2> QED BY <2>1
<1> HIDE DEF workloads
<1>7. Partition(parts, k, G, TRUE)
  BY <1>6, PartitionsSplit
<1> HIDE DEF parts
<1> DEFINE D == [j \in 1..k |-> EntriesOf(parts[j])]
<1>8. Splits(parts, D, 1..G) /\ Len(parts) = k
  BY <1>7 DEF Partition
<1>10. \A j \in 1..k : Len(parts[j]) \in Nat /\ \A x \in 1..Len(parts[j]) : parts[j][x] \in 1..G
  <2> TAKE j \in 1..k
  <2>1. parts[j] \in Seq(1..G)
    BY <1>8 DEF Splits
  <2> QED BY <2>1
<1> HIDE DEF D, group
<1>11. \A j \in 1..k : [x \in 1..Len(parts[j]) |-> group(parts[j][x])]
                         = [x \in 1..Len(parts[j]) |-> RowsOfPrompt(n, parts[j][x])]
  BY <1>4, <1>10
<1>12. joined = JoinedPrompts(n, parts, k)
  BY <1>11 DEF JoinedPrompts
<1> HIDE DEF joined
<1>13. \E E : /\ Splits(JoinedPrompts(n, parts, k), E, 1..(G * n))
              /\ Len(JoinedPrompts(n, parts, k)) = k
              /\ PromptsWhole(E, k, n, G)
  <2>1. G \in Nat /\ k \in Nat
    OBVIOUS
  <2> QED BY <2>1, <1>8, PromptsSplit
<1> QED BY <1>1, <1>12, <1>13

=============================================================================
