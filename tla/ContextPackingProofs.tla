------------------------ MODULE ContextPackingProofs ------------------------
(***************************************************************************)
(* What every prompt is and costs, for any history a session can have, any *)
(* number of feedback messages, any lengths of the texts and any budget.   *)
(***************************************************************************)
EXTENDS ContextPacking, AgentSessionProofs, FiniteSetTheorems

(* Induction over the naturals, for a set: the least number that is not in *)
(* it would have a predecessor that is.                                    *)
LEMMA SetInduction ==
  ASSUME NEW T, T \subseteq Nat, 0 \in T, \A n \in T : n + 1 \in T
  PROVE  T = Nat
<1>. DEFINE R == OpToRel(<, Nat)
            M == Nat \ T
<1>1. IsWellFoundedOn(R, Nat)
  BY NatLessThanWellFounded
<1>2. \A x, y \in Nat : x < y => <<x, y>> \in R
  BY DEF OpToRel
<1>3. ASSUME M # {} PROVE FALSE
  <2>1. M \subseteq Nat
    OBVIOUS
  <2>. HIDE DEF M, R
  <2>2. PICK x \in M : \A y \in M : <<y, x>> \notin R
    BY <1>1, <1>3, <2>1, WFMin
  <2>3. x \in Nat /\ x \notin T /\ x # 0
    BY DEF M
  <2>4. x - 1 \in Nat /\ x - 1 \notin M
    <3>1. x - 1 \in Nat /\ x - 1 < x
      BY <2>3
    <3>2. <<x - 1, x>> \in R
      BY <1>2, <2>3, <3>1
    <3>. QED BY <2>2, <3>1, <3>2
  <2>5. x - 1 \in T
    BY <2>4 DEF M
  <2>6. (x - 1) + 1 \in T
    BY <2>5
  <2>. QED BY <2>3, <2>6
<1>. QED BY <1>3

-----------------------------------------------------------------------------
(* Parts of a prompt, and what they cost together. *)

Parts(last) ==
  [priority : 0..3, order : 0..(last - 1), kind : Kinds, at : Seq(Nat), cost : Nat, cut : BOOLEAN]

(* No two have one place. *)
OneEach(S) == \A c, d \in S : c.priority = d.priority /\ c.order = d.order => c = d

CostTo(S, n) ==
  \E sum : sum = [i \in 0..n |-> IF i = 0 THEN 0
                                 ELSE IF \E c \in S : c.order = i - 1
                                      THEN sum[i - 1] + (CHOOSE c \in S : c.order = i - 1).cost
                                      ELSE sum[i - 1]]

(* The recursion of CostOfPriority defines a function. *)
LEMMA CostExists ==
  ASSUME NEW S, NEW n \in Nat
  PROVE  CostTo(S, n)
<1>. DEFINE T == {m \in Nat : CostTo(S, m)}
            Step(f, i) == IF i = 0 THEN 0
                          ELSE IF \E c \in S : c.order = i - 1
                               THEN f[i - 1] + (CHOOSE c \in S : c.order = i - 1).cost
                               ELSE f[i - 1]
<1>1. 0 \in T
  <2>. DEFINE f == [i \in 0..0 |-> 0]
  <2>1. f = [i \in 0..0 |-> Step(f, i)]
    OBVIOUS
  <2>. HIDE DEF f
  <2>. QED BY <2>1 DEF CostTo
<1>2. ASSUME NEW m \in T PROVE m + 1 \in T
  <2>1. PICK f : f = [i \in 0..m |-> Step(f, i)]
    BY DEF CostTo
  <2>. DEFINE g == [i \in 0..(m + 1) |-> IF i = m + 1 THEN Step(f, i) ELSE f[i]]
  <2>2. ASSUME NEW i \in 0..(m + 1) PROVE g[i] = Step(g, i)
    <3>1. i # 0 => g[i - 1] = f[i - 1]
      OBVIOUS
    <3>2. i # m + 1 => f[i] = Step(f, i)
      BY <2>1
    <3>. QED BY <3>1, <3>2
  <2>3. g = [i \in 0..(m + 1) |-> Step(g, i)]
    <3>1. g = [i \in 0..(m + 1) |-> g[i]]
      OBVIOUS
    <3>. HIDE DEF g, Step
    <3>. QED BY <2>2, <3>1
  <2>. HIDE DEF g
  <2>. QED BY <2>3 DEF CostTo
<1>3. T \subseteq Nat
  OBVIOUS
<1>. HIDE DEF T
<1>4. T = Nat
  BY <1>1, <1>2, <1>3, SetInduction
<1>. QED BY <1>4 DEF T

(* Nothing costs nothing. *)
LEMMA NothingCosts ==
  ASSUME NEW last \in Nat
  PROVE  CostOfPriority({}, last) = 0
<1>. DEFINE Step(f, i) == IF i = 0 THEN 0
                          ELSE IF \E c \in {} : c.order = i - 1
                               THEN f[i - 1] + (CHOOSE c \in {} : c.order = i - 1).cost
                               ELSE f[i - 1]
            sum == CHOOSE f : f = [i \in 0..last |-> Step(f, i)]
            T == {i \in Nat : i <= last => sum[i] = 0}
<1>1. sum = [i \in 0..last |-> Step(sum, i)] /\ CostOfPriority({}, last) = sum[last]
  <2>1. \E f : f = [i \in 0..last |-> Step(f, i)]
    <3>1. CostTo({}, last)
      BY CostExists
    <3>. QED BY <3>1 DEF CostTo
  <2>. QED BY <2>1 DEF CostOfPriority
<1>. HIDE DEF sum
<1>2. 0 \in T
  BY <1>1
<1>3. ASSUME NEW i \in T PROVE i + 1 \in T
  <2>1. i + 1 <= last => sum[i + 1] = sum[i]
    BY <1>1
  <2>. QED BY <2>1
<1>4. T \subseteq Nat
  OBVIOUS
<1>. HIDE DEF T, Step
<1>5. T = Nat
  BY <1>2, <1>3, <1>4, SetInduction
<1>. QED BY <1>1, <1>5 DEF T

LEMMA CostIsNatural ==
  ASSUME NEW last \in Nat, NEW S, S \subseteq Parts(last)
  PROVE  CostOfPriority(S, last) \in Nat
<1>. DEFINE Step(f, i) == IF i = 0 THEN 0
                          ELSE IF \E c \in S : c.order = i - 1
                               THEN f[i - 1] + (CHOOSE c \in S : c.order = i - 1).cost
                               ELSE f[i - 1]
            sum == CHOOSE f : f = [i \in 0..last |-> Step(f, i)]
            T == {i \in Nat : i <= last => sum[i] \in Nat}
<1>1. sum = [i \in 0..last |-> Step(sum, i)] /\ CostOfPriority(S, last) = sum[last]
  <2>1. \E f : f = [i \in 0..last |-> Step(f, i)]
    <3>1. CostTo(S, last)
      BY CostExists
    <3>. QED BY <3>1 DEF CostTo
  <2>. QED BY <2>1 DEF CostOfPriority
<1>. HIDE DEF sum
<1>2. 0 \in T
  BY <1>1
<1>3. ASSUME NEW i \in T PROVE i + 1 \in T
  <2>. SUFFICES ASSUME i + 1 <= last PROVE sum[i + 1] \in Nat
    OBVIOUS
  <2>1. i \in Nat /\ sum[i] \in Nat /\ i + 1 \in 0..last /\ i + 1 # 0 /\ (i + 1) - 1 = i
    OBVIOUS
  <2>2. sum[i + 1] = Step(sum, i + 1)
    BY <1>1, <2>1
  <2>3. (\E c \in S : c.order = i) => (CHOOSE c \in S : c.order = i).cost \in Nat
    <3>1. \A c \in S : c.cost \in Nat
      BY DEF Parts
    <3>. QED BY <3>1
  <2>. QED BY <2>1, <2>2, <2>3
<1>4. T \subseteq Nat
  OBVIOUS
<1>. HIDE DEF T, Step
<1>5. T = Nat
  BY <1>2, <1>3, <1>4, SetInduction
<1>6. sum[last] \in Nat
  <2>1. last \in T
    BY <1>5
  <2>. QED BY <2>1 DEF T
<1>. QED BY <1>1, <1>6

(* One more part, of an order no other has, costs what it costs. *)
LEMMA OneMoreCosts ==
  ASSUME NEW last \in Nat, NEW S, S \subseteq Parts(last), NEW e \in Parts(last),
         \A c, d \in S : c.order = d.order => c = d,
         \A c \in S : c.order # e.order
  PROVE  CostOfPriority(S \cup {e}, last) = CostOfPriority(S, last) + e.cost
<1>. DEFINE U == S \cup {e}
            Step(f, i) == IF i = 0 THEN 0
                          ELSE IF \E c \in S : c.order = i - 1
                               THEN f[i - 1] + (CHOOSE c \in S : c.order = i - 1).cost
                               ELSE f[i - 1]
            More(f, i) == IF i = 0 THEN 0
                          ELSE IF \E c \in U : c.order = i - 1
                               THEN f[i - 1] + (CHOOSE c \in U : c.order = i - 1).cost
                               ELSE f[i - 1]
            sum == CHOOSE f : f = [i \in 0..last |-> Step(f, i)]
            more == CHOOSE f : f = [i \in 0..last |-> More(f, i)]
            Agree(i) == sum[i] \in Nat /\ more[i] = sum[i] + (IF i > e.order THEN e.cost ELSE 0)
            T == {i \in Nat : i <= last => Agree(i)}
<1>0. e.order \in 0..(last - 1) /\ e.cost \in Nat /\ \A c \in S : c.cost \in Nat
  BY DEF Parts
<1>1. sum = [i \in 0..last |-> Step(sum, i)] /\ CostOfPriority(S, last) = sum[last]
  <2>1. \E f : f = [i \in 0..last |-> Step(f, i)]
    <3>1. CostTo(S, last)
      BY CostExists
    <3>. QED BY <3>1 DEF CostTo
  <2>. QED BY <2>1 DEF CostOfPriority
<1>2. more = [i \in 0..last |-> More(more, i)] /\ CostOfPriority(U, last) = more[last]
  <2>1. \E f : f = [i \in 0..last |-> More(f, i)]
    <3>1. CostTo(U, last)
      BY CostExists
    <3>. QED BY <3>1 DEF CostTo
  <2>. QED BY <2>1 DEF CostOfPriority
<1>. HIDE DEF sum, more
<1>3. 0 \in T
  BY <1>0, <1>1, <1>2
<1>4. ASSUME NEW i \in T PROVE i + 1 \in T
  <2>. SUFFICES ASSUME i + 1 <= last PROVE Agree(i + 1)
    OBVIOUS
  <2>1. i \in Nat /\ Agree(i) /\ i + 1 \in 0..last /\ i + 1 # 0 /\ (i + 1) - 1 = i
    OBVIOUS
  <2>2. sum[i + 1] = Step(sum, i + 1) /\ more[i + 1] = More(more, i + 1)
    BY <1>1, <1>2, <2>1
  <2>. HIDE DEF U
  <2>3. CASE i = e.order
    <3>1. sum[i + 1] = sum[i]
      BY <2>1, <2>2, <2>3
    <3>2. e = CHOOSE c \in U : c.order = i
      <4>1. e \in U /\ \A c \in U : c.order = i => c = e
        BY <2>3 DEF U
      <4>. QED BY <2>3, <4>1
    <3>3. more[i + 1] = more[i] + e.cost
      <4>1. \E c \in U : c.order = i
        BY <2>3 DEF U
      <4>. QED BY <2>1, <2>2, <3>2, <4>1
    <3>. QED BY <1>0, <2>1, <2>3, <3>1, <3>3
  <2>4. CASE i # e.order /\ \E c \in S : c.order = i
    <3>1. PICK c \in S : c.order = i
      BY <2>4
    <3>2. c = CHOOSE d \in S : d.order = i
      <4>1. \A d \in S : d.order = i => d = c
        BY <3>1
      <4>. QED BY <3>1, <4>1
    <3>3. c = CHOOSE d \in U : d.order = i
      <4>1. c \in U /\ \A d \in U : d.order = i => d = c
        BY <2>4, <3>1 DEF U
      <4>. QED BY <3>1, <4>1
    <3>4. sum[i + 1] = sum[i] + c.cost
      BY <2>1, <2>2, <3>1, <3>2
    <3>5. more[i + 1] = more[i] + c.cost
      <4>1. \E d \in U : d.order = i
        BY <3>1 DEF U
      <4>. QED BY <2>1, <2>2, <3>3, <4>1
    <3>. QED BY <1>0, <2>1, <2>4, <3>4, <3>5
  <2>5. CASE i # e.order /\ ~ \E c \in S : c.order = i
    <3>1. ~ \E c \in U : c.order = i
      BY <2>5 DEF U
    <3>. QED BY <1>0, <2>1, <2>2, <2>5, <3>1
  <2>. QED BY <2>3, <2>4, <2>5
<1>5. T \subseteq Nat
  OBVIOUS
<1>. HIDE DEF T, Step, More, U
<1>6. T = Nat
  BY <1>3, <1>4, <1>5, SetInduction
<1>7. Agree(last)
  BY <1>6 DEF T
<1>. QED BY <1>0, <1>1, <1>2, <1>7 DEF U

(* So it does among parts of every priority. *)
LEMMA CostGrows ==
  ASSUME NEW last \in Nat, NEW S, S \subseteq Parts(last), OneEach(S), NEW e \in Parts(last),
         \A c \in S : c.priority # e.priority \/ c.order # e.order
  PROVE  /\ Cost(S, last) \in Nat
         /\ Cost(S \cup {e}, last) = Cost(S, last) + e.cost
<1>. DEFINE cost(p) == CostOfPriority(OfPriority(S, p), last)
            more(p) == CostOfPriority(OfPriority(S \cup {e}, p), last)
<1>1. e.priority \in 0..3 /\ e.cost \in Nat
  BY DEF Parts
<1>2. ASSUME NEW p \in 0..3
      PROVE  cost(p) \in Nat /\ more(p) = cost(p) + (IF p = e.priority THEN e.cost ELSE 0)
  <2>. DEFINE Q == OfPriority(S, p)
  <2>1. Q \subseteq Parts(last) /\ \A c, d \in Q : c.order = d.order => c = d
    BY DEF OfPriority, OneEach
  <2>2. CostOfPriority(Q, last) \in Nat
    BY <2>1, CostIsNatural
  <2>3. CASE p = e.priority
    <3>1. \A c \in Q : c.order # e.order
      BY <2>3 DEF OfPriority
    <3>2. OfPriority(S \cup {e}, p) = Q \cup {e}
      BY <2>3 DEF OfPriority
    <3>. HIDE DEF Q
    <3>3. CostOfPriority(Q \cup {e}, last) = CostOfPriority(Q, last) + e.cost
      BY <2>1, <3>1, OneMoreCosts
    <3>. QED BY <2>2, <2>3, <3>2, <3>3 DEF Q
  <2>4. CASE p # e.priority
    <3>1. OfPriority(S \cup {e}, p) = Q
      BY <2>4 DEF OfPriority
    <3>. QED BY <1>1, <2>2, <2>4, <3>1
  <2>. QED BY <2>3, <2>4
<1>. QED BY <1>1, <1>2 DEF Cost

-----------------------------------------------------------------------------
(* The packing. *)

(* What is true of a packing when the candidates of D have been seen.      *)
Packs(acc, D, last, budget) ==
  /\ acc \in [total : Nat, kept : SUBSET Parts(last)]
  /\ OneEach(acc.kept)
  /\ acc.total = Cost(acc.kept, last)
  /\ \A e \in acc.kept : \E c \in D : SamePart(e, c) /\ (e = c \/ (e.cut /\ e.priority = 0))
  /\ \A c \in D : \/ \E e \in acc.kept : SamePart(c, e)
                  \/ c.priority # 0 /\ acc.total + c.cost > budget
  /\ acc.total > budget => (\E e \in acc.kept : e.cut) /\ \A e \in acc.kept : e.priority = 0

LEMMA NothingIsPacked ==
  ASSUME NEW last \in Nat, NEW budget \in Nat
  PROVE  Packs([total |-> 0, kept |-> {}], {}, last, budget)
<1>1. OfPriority({}, 0) = {} /\ OfPriority({}, 1) = {} /\ OfPriority({}, 2) = {} /\ OfPriority({}, 3) = {}
  BY DEF OfPriority
<1>2. Cost({}, last) = 0
  <2>1. CostOfPriority({}, last) = 0
    BY NothingCosts
  <2>2. Cost({}, last) = 0 + 0 + 0 + 0
    BY <1>1, <2>1, Zenon DEF Cost
  <2>. QED BY <2>2
<1>. QED BY <1>2 DEF Packs, OneEach

LEMMA TruncatedPart ==
  ASSUME NEW last \in Nat, NEW c \in Parts(last), NEW remaining \in Nat
  PROVE  /\ Truncated(c, remaining) \in Parts(last)
         /\ Truncated(c, remaining).cut
         /\ SamePart(Truncated(c, remaining), c)
<1>. DEFINE prefix == IF remaining > Overhead THEN remaining - Overhead ELSE 0
            cost == Overhead + prefix + Tokens["note"]
<1>1. Tokens["note"] \in Nat
  BY PackingAssumption DEF Kinds
<1>2. cost \in Nat
  BY <1>1 DEF Overhead
<1>3. Truncated(c, remaining) = [c EXCEPT !.cost = cost, !.cut = TRUE]
  BY DEF Truncated
<1>. HIDE DEF cost
<1>. QED BY <1>2, <1>3 DEF Parts, SamePart

(* A part that is taken for a candidate c. *)
LEMMA TakenKeeps ==
  ASSUME NEW last \in Nat, NEW budget \in Nat, NEW D, D \subseteq Parts(last), NEW acc,
         Packs(acc, D, last, budget), NEW c, \A d \in D : d.priority # c.priority \/ d.order # c.order,
         NEW e \in Parts(last), SamePart(e, c),
         \/ e = c /\ acc.total + c.cost <= budget
         \/ e.cut /\ e.priority = 0 /\ \A d \in D : d.priority = 0
  PROVE  Packs(Taken(acc, e), D \cup {c}, last, budget)
<1>. DEFINE new == Taken(acc, e)
<1>1. acc.total \in Nat /\ acc.kept \subseteq Parts(last) /\ e.cost \in Nat /\ OneEach(acc.kept)
      /\ acc.total = Cost(acc.kept, last)
  BY DEF Packs, Parts
<1>2. new.total = acc.total + e.cost /\ new.kept = acc.kept \cup {e}
      /\ new \in [total : Nat, kept : SUBSET Parts(last)]
  BY <1>1 DEF Taken
<1>3. \A k \in acc.kept : \E d \in D : SamePart(k, d) /\ (k = d \/ (k.cut /\ k.priority = 0))
  BY DEF Packs
<1>4. \A k \in acc.kept : k.priority # e.priority \/ k.order # e.order
  BY <1>3 DEF SamePart
<1>5. new.total = Cost(new.kept, last)
  BY <1>1, <1>2, <1>4, CostGrows
<1>6. OneEach(new.kept)
  BY <1>1, <1>2, <1>4 DEF OneEach
<1>7. \A k \in new.kept : \E d \in D \cup {c} : SamePart(k, d) /\ (k = d \/ (k.cut /\ k.priority = 0))
  BY <1>2, <1>3
<1>8. ASSUME NEW d \in D \cup {c}
      PROVE  (\E k \in new.kept : SamePart(d, k)) \/ (d.priority # 0 /\ new.total + d.cost > budget)
  <2>1. CASE d = c
    BY <1>2, <2>1 DEF SamePart
  <2>2. CASE d \in D /\ \E k \in acc.kept : SamePart(d, k)
    BY <1>2, <2>2
  <2>3. CASE d \in D /\ d.priority # 0 /\ acc.total + d.cost > budget
    <3>1. d.cost \in Nat
      BY <2>3 DEF Parts
    <3>. QED BY <1>1, <1>2, <2>3, <3>1
  <2>. QED BY <2>1, <2>2, <2>3 DEF Packs
<1>9. ASSUME new.total > budget
      PROVE  (\E k \in new.kept : k.cut) /\ \A k \in new.kept : k.priority = 0
  <2>1. e.cut /\ e.priority = 0 /\ \A d \in D : d.priority = 0
    BY <1>1, <1>2, <1>9
  <2>2. \A k \in acc.kept : k.priority = 0
    BY <1>3, <2>1 DEF SamePart
  <2>. QED BY <1>2, <2>1, <2>2
<1>. HIDE DEF new
<1>. QED BY <1>2, <1>5, <1>6, <1>7, <1>8, <1>9 DEF Packs, new

LEMMA TakeKeeps ==
  ASSUME NEW last \in Nat, NEW budget \in Nat, NEW D, D \subseteq Parts(last), NEW acc,
         Packs(acc, D, last, budget), NEW c \in Parts(last),
         \A d \in D : d.priority <= c.priority /\ (d.priority # c.priority \/ d.order # c.order)
  PROVE  Packs(Take(acc, c, budget), D \cup {c}, last, budget)
<1>1. acc.total \in Nat /\ c.cost \in Nat /\ c.priority \in 0..3 /\ \A d \in D : d.priority \in 0..3
  BY DEF Packs, Parts
<1>2. CASE acc.total + c.cost <= budget
  <2>1. Take(acc, c, budget) = Taken(acc, c)
    BY <1>1, <1>2 DEF Take
  <2>2. SamePart(c, c)
    BY DEF SamePart
  <2>. QED BY <1>2, <2>1, <2>2, TakenKeeps
<1>3. CASE acc.total + c.cost > budget /\ c.priority = 0
  <2>. DEFINE remaining == IF budget > acc.total THEN budget - acc.total ELSE 1
              e == Truncated(c, remaining)
  <2>1. remaining \in Nat
    BY <1>1
  <2>2. Take(acc, c, budget) = Taken(acc, e)
    BY <1>1, <1>3 DEF Take
  <2>. HIDE DEF remaining
  <2>3. e \in Parts(last) /\ e.cut /\ SamePart(e, c)
    BY <2>1, TruncatedPart
  <2>. HIDE DEF e
  <2>4. e.priority = 0
    BY <1>3, <2>3 DEF SamePart
  <2>5. \A d \in D : d.priority = 0
    BY <1>1, <1>3
  <2>. QED BY <2>2, <2>3, <2>4, <2>5, TakenKeeps
<1>4. CASE acc.total + c.cost > budget /\ c.priority # 0
  <2>1. Take(acc, c, budget) = acc
    BY <1>1, <1>4 DEF Take
  <2>. QED BY <1>4, <2>1 DEF Packs
<1>. QED BY <1>1, <1>2, <1>3, <1>4

RoundTo(acc, S, budget, n) ==
  \E taken : taken = [i \in 0..n |->
                        IF i = 0 THEN acc
                        ELSE IF \E c \in S : c.order = i - 1
                             THEN Take(taken[i - 1], CHOOSE c \in S : c.order = i - 1, budget)
                             ELSE taken[i - 1]]

(* The recursion of Round defines a function. *)
LEMMA RoundExists ==
  ASSUME NEW acc, NEW S, NEW budget, NEW n \in Nat
  PROVE  RoundTo(acc, S, budget, n)
<1>. DEFINE T == {m \in Nat : RoundTo(acc, S, budget, m)}
            Step(f, i) == IF i = 0 THEN acc
                          ELSE IF \E c \in S : c.order = i - 1
                               THEN Take(f[i - 1], CHOOSE c \in S : c.order = i - 1, budget)
                               ELSE f[i - 1]
<1>1. 0 \in T
  <2>. DEFINE f == [i \in 0..0 |-> acc]
  <2>1. f = [i \in 0..0 |-> Step(f, i)]
    OBVIOUS
  <2>. HIDE DEF f
  <2>. QED BY <2>1 DEF RoundTo
<1>2. ASSUME NEW m \in T PROVE m + 1 \in T
  <2>1. PICK f : f = [i \in 0..m |-> Step(f, i)]
    BY DEF RoundTo
  <2>. DEFINE g == [i \in 0..(m + 1) |-> IF i = m + 1 THEN Step(f, i) ELSE f[i]]
  <2>2. ASSUME NEW i \in 0..(m + 1) PROVE g[i] = Step(g, i)
    <3>1. i # 0 => g[i - 1] = f[i - 1]
      OBVIOUS
    <3>2. i # m + 1 => f[i] = Step(f, i)
      BY <2>1
    <3>. QED BY <3>1, <3>2
  <2>3. g = [i \in 0..(m + 1) |-> Step(g, i)]
    <3>1. g = [i \in 0..(m + 1) |-> g[i]]
      OBVIOUS
    <3>. HIDE DEF g, Step
    <3>. QED BY <2>2, <3>1
  <2>. HIDE DEF g
  <2>. QED BY <2>3 DEF RoundTo
<1>3. T \subseteq Nat
  OBVIOUS
<1>. HIDE DEF T
<1>4. T = Nat
  BY <1>1, <1>2, <1>3, SetInduction
<1>. QED BY <1>4 DEF T

(* The candidates of one priority, all others seen are of a higher one.    *)
LEMMA RoundKeeps ==
  ASSUME NEW last \in Nat, NEW budget \in Nat, NEW p \in 0..3,
         NEW D, D \subseteq Parts(last), \A d \in D : d.priority < p,
         NEW S, S \subseteq Parts(last), \A c \in S : c.priority = p, OneEach(S),
         NEW acc, Packs(acc, D, last, budget)
  PROVE  Packs(Round(acc, S, last, budget), D \cup S, last, budget)
<1>. DEFINE Step(f, i) == IF i = 0 THEN acc
                          ELSE IF \E c \in S : c.order = i - 1
                               THEN Take(f[i - 1], CHOOSE c \in S : c.order = i - 1, budget)
                               ELSE f[i - 1]
            taken == CHOOSE f : f = [i \in 0..last |-> Step(f, i)]
            Seen(i) == D \cup {c \in S : c.order < i}
            T == {i \in Nat : i <= last => Packs(taken[i], Seen(i), last, budget)}
<1>0. \A c \in S : c.order \in 0..(last - 1)
  BY DEF Parts
<1>1. taken = [i \in 0..last |-> Step(taken, i)] /\ Round(acc, S, last, budget) = taken[last]
  <2>1. \E f : f = [i \in 0..last |-> Step(f, i)]
    <3>1. RoundTo(acc, S, budget, last)
      BY RoundExists
    <3>. QED BY <3>1 DEF RoundTo
  <2>. QED BY <2>1 DEF Round
<1>. HIDE DEF taken
<1>2. 0 \in T
  <2>1. Seen(0) = D
    BY <1>0
  <2>2. taken[0] = acc
    BY <1>1
  <2>. HIDE DEF Seen
  <2>. QED BY <2>1, <2>2
<1>3. ASSUME NEW i \in T PROVE i + 1 \in T
  <2>. HIDE DEF Seen
  <2>. SUFFICES ASSUME i + 1 <= last PROVE Packs(taken[i + 1], Seen(i + 1), last, budget)
    OBVIOUS
  <2>1. i \in Nat /\ Packs(taken[i], Seen(i), last, budget)
        /\ i + 1 \in 0..last /\ i + 1 # 0 /\ (i + 1) - 1 = i
    OBVIOUS
  <2>2. taken[i + 1] = Step(taken, i + 1)
    BY <1>1, <2>1
  <2>3. CASE \E c \in S : c.order = i
    <3>1. PICK c \in S : c.order = i
      BY <2>3
    <3>2. \A d \in S : d.order = i => d = c
      BY <3>1 DEF OneEach
    <3>3. c = CHOOSE d \in S : d.order = i
      BY <3>1, <3>2
    <3>4. taken[i + 1] = Take(taken[i], c, budget)
      BY <2>1, <2>2, <2>3, <3>3
    <3>5. Seen(i + 1) = Seen(i) \cup {c}
      BY <1>0, <2>1, <3>1, <3>2 DEF Seen
    <3>6. /\ Seen(i) \subseteq Parts(last)
          /\ \A d \in Seen(i) : d.priority <= c.priority /\ (d.priority # c.priority \/ d.order # c.order)
      <4>1. \A d \in D : d.priority <= c.priority /\ d.priority # c.priority
        <5>1. \A d \in D : d.priority \in 0..3 /\ d.priority < p
          BY DEF Parts
        <5>2. c.priority = p
          BY <3>1
        <5>. QED BY <5>1, <5>2
      <4>2. \A d \in S : d.priority <= c.priority
        BY <3>1
      <4>. QED BY <1>0, <2>1, <3>1, <4>1, <4>2 DEF Seen
    <3>7. Packs(Take(taken[i], c, budget), Seen(i) \cup {c}, last, budget)
      BY <2>1, <3>6, TakeKeeps
    <3>. QED BY <3>4, <3>5, <3>7
  <2>4. CASE ~ \E c \in S : c.order = i
    <3>1. Seen(i + 1) = Seen(i)
      BY <1>0, <2>1, <2>4 DEF Seen
    <3>2. taken[i + 1] = taken[i]
      BY <2>1, <2>2, <2>4
    <3>. QED BY <2>1, <3>1, <3>2
  <2>. QED BY <2>3, <2>4
<1>4. T \subseteq Nat
  OBVIOUS
<1>. HIDE DEF T, Step
<1>5. T = Nat
  BY <1>2, <1>3, <1>4, SetInduction
<1>6. Packs(taken[last], Seen(last), last, budget)
  <2>1. last \in T
    BY <1>5
  <2>. QED BY <2>1 DEF T
<1>7. Seen(last) = D \cup S
  BY <1>0
<1>. HIDE DEF Seen
<1>. QED BY <1>1, <1>6, <1>7

LEMMA PackedKeeps ==
  ASSUME NEW last \in Nat, NEW budget \in Nat, NEW S, S \subseteq Parts(last), OneEach(S)
  PROVE  Packs(Packed(S, last, budget), S, last, budget)
<1>. DEFINE of(p) == OfPriority(S, p)
            r0 == Round([total |-> 0, kept |-> {}], of(0), last, budget)
            r1 == Round(r0, of(1), last, budget)
            r2 == Round(r1, of(2), last, budget)
            r3 == Round(r2, of(3), last, budget)
<1>1. \A p \in 0..3 : of(p) \subseteq Parts(last) /\ OneEach(of(p)) /\ \A c \in of(p) : c.priority = p
  BY DEF OfPriority, OneEach
<1>2. Packed(S, last, budget) = r3
  BY DEF Packed
<1>3. S = of(0) \cup of(1) \cup of(2) \cup of(3)
  BY DEF OfPriority, Parts
<1>. HIDE DEF of
<1>4. Packs(r0, {} \cup of(0), last, budget)
  BY <1>1, NothingIsPacked, RoundKeeps
<1>. HIDE DEF r0
<1>5. Packs(r1, of(0) \cup of(1), last, budget)
  <2>1. of(0) \subseteq Parts(last) /\ \A d \in of(0) : d.priority < 1
    BY <1>1
  <2>2. Packs(r0, of(0), last, budget)
    BY <1>4
  <2>. QED BY <1>1, <2>1, <2>2, RoundKeeps
<1>. HIDE DEF r1
<1>6. Packs(r2, of(0) \cup of(1) \cup of(2), last, budget)
  <2>. DEFINE D == of(0) \cup of(1)
  <2>1. D \subseteq Parts(last) /\ \A d \in D : d.priority < 2
    BY <1>1
  <2>. HIDE DEF D
  <2>2. Packs(r1, D, last, budget)
    BY <1>5 DEF D
  <2>3. Packs(r2, D \cup of(2), last, budget)
    BY <1>1, <2>1, <2>2, RoundKeeps
  <2>. QED BY <2>3 DEF D
<1>. HIDE DEF r2
<1>7. Packs(r3, of(0) \cup of(1) \cup of(2) \cup of(3), last, budget)
  <2>. DEFINE D == of(0) \cup of(1) \cup of(2)
  <2>1. D \subseteq Parts(last) /\ \A d \in D : d.priority < 3
    BY <1>1
  <2>. HIDE DEF D
  <2>2. Packs(r2, D, last, budget)
    BY <1>6 DEF D
  <2>3. Packs(r3, D \cup of(3), last, budget)
    BY <1>1, <2>1, <2>2, RoundKeeps
  <2>. QED BY <2>3 DEF D
<1>. HIDE DEF r3
<1>. QED BY <1>2, <1>3, <1>7

-----------------------------------------------------------------------------
(* How far a budget can be exceeded. *)

(* What a message that is cut may cost beyond what was left. *)
Excess == Overhead + Tokens["note"]

LEMMA ExcessIsNatural == Excess \in Nat
<1>1. Tokens["note"] \in Nat
  BY PackingAssumption DEF Kinds
<1>. QED BY <1>1 DEF Excess, Overhead

LEMMA TakeBounded ==
  ASSUME NEW budget \in Nat, NEW m \in Nat, NEW last \in Nat, NEW c \in Parts(last),
         NEW acc, acc.total \in Nat, acc.total <= budget + m
  PROVE  /\ Take(acc, c, budget).total \in Nat
         /\ Take(acc, c, budget).total <= budget + m + Excess
         /\ c.priority # 0 => Take(acc, c, budget).total <= budget + m
<1>. DEFINE t == acc.total
            remaining == IF budget > t THEN budget - t ELSE 1
            prefix == IF remaining > Overhead THEN remaining - Overhead ELSE 0
<1>1. c.cost \in Nat /\ Excess \in Nat /\ Tokens["note"] \in Nat
  BY ExcessIsNatural, PackingAssumption DEF Parts, Kinds
<1>2. CASE t + c.cost <= budget
  <2>1. Take(acc, c, budget).total = t + c.cost
    BY <1>1, <1>2 DEF Take, Taken
  <2>. QED BY <1>1, <1>2, <2>1
<1>3. CASE t + c.cost > budget /\ c.priority = 0
  <2>1. Take(acc, c, budget) = Taken(acc, Truncated(c, remaining))
    BY <1>1, <1>3 DEF Take
  <2>2. Truncated(c, remaining).cost = Overhead + prefix + Tokens["note"]
    BY DEF Truncated, Parts
  <2>3. Take(acc, c, budget).total = t + (Overhead + prefix + Tokens["note"])
    BY <2>1, <2>2 DEF Taken
  <2>4. prefix \in Nat /\ (prefix = 0 \/ t + Overhead + prefix = budget)
    BY DEF Overhead
  <2>. HIDE DEF prefix
  <2>. QED BY <1>1, <1>3, <2>3, <2>4 DEF Excess, Overhead
<1>4. CASE t + c.cost > budget /\ c.priority # 0
  <2>1. Take(acc, c, budget) = acc
    BY <1>1, <1>4 DEF Take
  <2>. QED BY <1>1, <2>1
<1>. QED BY <1>1, <1>2, <1>3, <1>4

(* Of the messages of the first priority, which have the numbers below h,  *)
(* each may add the excess.                                                *)
LEMMA RoundBounded ==
  ASSUME NEW last \in Nat, NEW budget \in Nat, NEW m \in Nat, NEW h \in Nat,
         NEW S, S \subseteq Parts(last), \A c \in S : c.priority = 0 => c.order < h,
         NEW acc, acc.total \in Nat, acc.total <= budget + m
  PROVE  /\ Round(acc, S, last, budget).total \in Nat
         /\ Round(acc, S, last, budget).total <= budget + (m + h * Excess)
<1>. DEFINE Step(f, i) == IF i = 0 THEN acc
                          ELSE IF \E c \in S : c.order = i - 1
                               THEN Take(f[i - 1], CHOOSE c \in S : c.order = i - 1, budget)
                               ELSE f[i - 1]
            taken == CHOOSE f : f = [i \in 0..last |-> Step(f, i)]
            most(i) == m + (IF i < h THEN i ELSE h) * Excess
            Bounded(i) == taken[i].total \in Nat /\ taken[i].total <= budget + most(i)
            T == {i \in Nat : i <= last => Bounded(i)}
<1>0. Excess \in Nat
  BY ExcessIsNatural
<1>1. taken = [i \in 0..last |-> Step(taken, i)] /\ Round(acc, S, last, budget) = taken[last]
  <2>1. \E f : f = [i \in 0..last |-> Step(f, i)]
    <3>1. RoundTo(acc, S, budget, last)
      BY RoundExists
    <3>. QED BY <3>1 DEF RoundTo
  <2>. QED BY <2>1 DEF Round
<1>. HIDE DEF taken
<1>2. \A i \in Nat : most(i) \in Nat
  BY <1>0
<1>3. \A i \in Nat : most(i) <= most(i + 1) /\ (i < h => most(i + 1) = most(i) + Excess)
  <2>. SUFFICES ASSUME NEW i \in Nat
                PROVE  most(i) <= most(i + 1) /\ (i < h => most(i + 1) = most(i) + Excess)
    OBVIOUS
  <2>1. (i + 1) * Excess = i * Excess + Excess
    BY <1>0
  <2>2. CASE i < h /\ i + 1 < h
    BY <1>0, <2>1, <2>2
  <2>3. CASE i < h /\ ~(i + 1 < h)
    <3>1. h = i + 1
      BY <2>3
    <3>. QED BY <1>0, <2>1, <2>3, <3>1
  <2>4. CASE ~(i < h)
    BY <1>0, <2>4
  <2>. QED BY <2>2, <2>3, <2>4
<1>4. 0 \in T
  <2>1. taken[0] = acc
    BY <1>1
  <2>2. most(0) \in Nat /\ m <= most(0)
    <3>1. 0 * Excess = 0 /\ h * Excess \in Nat
      BY <1>0
    <3>. QED BY <3>1
  <2>. HIDE DEF most
  <2>. QED BY <2>1, <2>2
<1>5. most(last) <= m + h * Excess
  <2>1. CASE last < h
    <3>1. last * Excess <= h * Excess
      <4>1. h * Excess = last * Excess + (h - last) * Excess /\ (h - last) * Excess \in Nat
            /\ last * Excess \in Nat
        BY <1>0, <2>1
      <4>. QED BY <4>1
    <3>. QED BY <1>0, <2>1, <3>1
  <2>2. CASE ~(last < h)
    BY <1>0, <2>2
  <2>. QED BY <2>1, <2>2
<1>. HIDE DEF most
<1>6. ASSUME NEW i \in T PROVE i + 1 \in T
  <2>. SUFFICES ASSUME i + 1 <= last PROVE Bounded(i + 1)
    OBVIOUS
  <2>1. /\ i \in Nat /\ Bounded(i) /\ i + 1 \in 0..last /\ i + 1 # 0 /\ (i + 1) - 1 = i
        /\ most(i) \in Nat /\ most(i + 1) \in Nat
    BY <1>2
  <2>2. taken[i + 1] = Step(taken, i + 1)
    BY <1>1, <2>1
  <2>3. CASE \E c \in S : c.order = i
    <3>. DEFINE c == CHOOSE d \in S : d.order = i
    <3>1. c \in S /\ c.order = i
      BY <2>3
    <3>2. taken[i + 1] = Take(taken[i], c, budget)
      BY <2>1, <2>2, <2>3
    <3>. HIDE DEF c
    <3>3. /\ taken[i + 1].total \in Nat
          /\ taken[i + 1].total <= budget + most(i) + Excess
          /\ c.priority # 0 => taken[i + 1].total <= budget + most(i)
      BY <2>1, <3>1, <3>2, TakeBounded
    <3>4. most(i) <= most(i + 1) /\ (c.priority = 0 => most(i + 1) = most(i) + Excess)
      BY <1>3, <2>1, <3>1
    <3>. QED BY <1>0, <2>1, <3>3, <3>4
  <2>4. CASE ~ \E c \in S : c.order = i
    <3>1. taken[i + 1] = taken[i]
      BY <2>1, <2>2, <2>4
    <3>2. most(i) <= most(i + 1)
      BY <1>3, <2>1
    <3>. QED BY <2>1, <3>1, <3>2
  <2>. QED BY <2>3, <2>4
<1>7. T \subseteq Nat
  OBVIOUS
<1>. HIDE DEF T, Step
<1>8. T = Nat
  BY <1>4, <1>6, <1>7, SetInduction
<1>9. Bounded(last)
  <2>1. last \in T
    BY <1>8
  <2>. QED BY <2>1 DEF T
<1>10. most(last) \in Nat /\ m + h * Excess \in Nat
  BY <1>0, <1>2
<1>. QED BY <1>1, <1>5, <1>9, <1>10

LEMMA PackedBounded ==
  ASSUME NEW last \in Nat, NEW budget \in Nat, NEW h \in Nat,
         NEW S, S \subseteq Parts(last), \A c \in S : c.priority = 0 => c.order < h
  PROVE  Packed(S, last, budget).total <= budget + h * Excess
<1>. DEFINE of(p) == OfPriority(S, p)
            nothing == [total |-> 0, kept |-> {}]
            r0 == Round(nothing, of(0), last, budget)
            r1 == Round(r0, of(1), last, budget)
            r2 == Round(r1, of(2), last, budget)
            r3 == Round(r2, of(3), last, budget)
            n == h * Excess
<1>1. /\ of(0) \subseteq Parts(last) /\ of(1) \subseteq Parts(last)
      /\ of(2) \subseteq Parts(last) /\ of(3) \subseteq Parts(last)
      /\ \A c \in of(0) : c.priority = 0 => c.order < h
      /\ \A c \in of(1) : c.priority = 0 => c.order < 0
      /\ \A c \in of(2) : c.priority = 0 => c.order < 0
      /\ \A c \in of(3) : c.priority = 0 => c.order < 0
  BY DEF OfPriority
<1>2. Packed(S, last, budget) = r3
  BY DEF Packed
<1>3. Excess \in Nat /\ n \in Nat /\ 0 * Excess = 0
  BY ExcessIsNatural
<1>4. nothing.total = 0
  OBVIOUS
<1>. HIDE DEF of, nothing
<1>5. r0.total \in Nat /\ r0.total <= budget + (0 + h * Excess)
  BY <1>1, <1>4, RoundBounded
<1>6. r0.total <= budget + n
  BY <1>3, <1>5
<1>. HIDE DEF r0, n
<1>7. r1.total \in Nat /\ r1.total <= budget + (n + 0 * Excess)
  BY <1>1, <1>3, <1>5, <1>6, RoundBounded
<1>8. r1.total <= budget + n
  BY <1>3, <1>7
<1>. HIDE DEF r1
<1>9. r2.total \in Nat /\ r2.total <= budget + (n + 0 * Excess)
  BY <1>1, <1>3, <1>7, <1>8, RoundBounded
<1>10. r2.total <= budget + n
  BY <1>3, <1>9
<1>. HIDE DEF r2
<1>11. r3.total \in Nat /\ r3.total <= budget + (n + 0 * Excess)
  BY <1>1, <1>3, <1>9, <1>10, RoundBounded
<1>. QED BY <1>2, <1>3, <1>11 DEF n

-----------------------------------------------------------------------------
(* The candidates. *)

(* The number of the candidate that stands for a fact. *)
OrderOf(i) == Cardinality({j \in Shown : j < i})

(* Facts are numbered in the order of the history. *)
LEMMA FactsAreNumbered ==
  ASSUME SessionTypeOK
  PROVE  /\ Len(messages) \in Nat /\ DOMAIN messages = 1..Len(messages)
         /\ Cardinality(Shown) \in 0..Len(messages)
         /\ \A i \in Shown : OrderOf(i) \in 0..(Cardinality(Shown) - 1)
         /\ \A i, k \in Shown : i < k => OrderOf(i) < OrderOf(k)
<1>1. Len(messages) \in Nat /\ DOMAIN messages = 1..Len(messages)
  BY DEF SessionTypeOK
<1>2. IsFiniteSet(1..Len(messages)) /\ Cardinality(1..Len(messages)) = Len(messages)
  <2>1. /\ IsFiniteSet(1..Len(messages))
        /\ Cardinality(1..Len(messages)) = IF 1 > Len(messages) THEN 0 ELSE Len(messages) - 1 + 1
    <3>1. 1 \in Int /\ Len(messages) \in Int
      BY <1>1
    <3>. QED BY <3>1, FS_Interval
  <2>. QED BY <1>1, <2>1
<1>3. Shown \subseteq 1..Len(messages)
  BY <1>1 DEF Shown
<1>4. IsFiniteSet(Shown) /\ Cardinality(Shown) <= Len(messages) /\ Cardinality(Shown) \in Nat
  BY <1>2, <1>3, FS_Subset, FS_CardinalityType
<1>5. ASSUME NEW i \in Shown, NEW U, {j \in Shown : j < i} \subseteq U, U \subseteq Shown, i \in U
      PROVE  OrderOf(i) \in Nat /\ OrderOf(i) < Cardinality(U)
  <2>. DEFINE V == {j \in Shown : j < i}
  <2>1. IsFiniteSet(U) /\ Cardinality(U) \in Nat
    BY <1>4, <1>5, FS_Subset, FS_CardinalityType
  <2>2. i \in Nat /\ i \notin V
    BY <1>1, <1>3
  <2>3. V # U /\ V \subseteq U
    BY <1>5, <2>2
  <2>4. IsFiniteSet(V) /\ Cardinality(V) <= Cardinality(U) /\ Cardinality(U) # Cardinality(V)
    BY <2>1, <2>3, FS_Subset
  <2>5. Cardinality(V) \in Nat
    BY <2>4, FS_CardinalityType
  <2>6. OrderOf(i) = Cardinality(V)
    BY DEF OrderOf
  <2>. QED BY <2>1, <2>4, <2>5, <2>6
<1>6. \A i \in Shown : OrderOf(i) \in Nat /\ OrderOf(i) < Cardinality(Shown)
  BY <1>5
<1>7. ASSUME NEW i \in Shown, NEW k \in Shown, i < k PROVE OrderOf(i) < OrderOf(k)
  <2>. DEFINE U == {j \in Shown : j < k}
  <2>1. {j \in Shown : j < i} \subseteq U /\ U \subseteq Shown /\ i \in U
    <3>1. \A j \in Shown : j \in Nat
      BY <1>3
    <3>. QED BY <1>7, <3>1
  <2>. HIDE DEF U
  <2>2. OrderOf(i) < Cardinality(U)
    BY <1>5, <2>1
  <2>. QED BY <2>2 DEF U, OrderOf
<1>. QED BY <1>1, <1>4, <1>6, <1>7

(* A result of a call is the only one, and the result of its own run.      *)
LEMMA ResultOfCall ==
  ASSUME SessionTypeOK, ToolFactsPaired, NEW i \in DOMAIN messages, IsCall(messages[i]),
         NEW j \in Results(i)
  PROVE  /\ j \in DOMAIN messages /\ i < j
         /\ messages[j] = ResultFact(messages[i].run, messages[i].call, messages[i].tool)
         /\ \A k \in Results(i) : k = j
<1>1. Len(messages) \in Nat /\ DOMAIN messages = 1..Len(messages) /\ i \in Nat
  BY DEF SessionTypeOK
<1>2. \A k \in Results(i) : /\ k \in DOMAIN messages /\ i < k /\ IsResult(messages[k])
                           /\ SameCall(messages[i], messages[k])
  BY <1>1 DEF Results
<1>3. \A k \in DOMAIN messages : messages[k] \in Message
  BY DEF SessionTypeOK
<1>4. PICK h \in DOMAIN messages :
        messages[h] = CallFact(messages[j].run, messages[j].call, messages[j].tool)
  BY <1>2 DEF ToolFactsPaired, ResultsFollowCalls
<1>5. h = i
  <2>1. /\ SameCall(messages[i], messages[h]) /\ messages[i].role = messages[h].role
        /\ messages[i].call # NoCall
    BY <1>2, <1>4 DEF SameCall, CallFact, IsCall
  <2>. QED BY <2>1 DEF ToolFactsPaired, ToolFactsUnique
<1>6. messages[j] = ResultFact(messages[i].run, messages[i].call, messages[i].tool)
  <2>1. messages[i].tool = messages[j].tool
    BY <1>4, <1>5 DEF CallFact
  <2>. QED BY <1>2, <1>3, <2>1 DEF ResultFact, Message, IsResult, SameCall
<1>7. ASSUME NEW k \in Results(i) PROVE k = j
  <2>1. /\ SameCall(messages[k], messages[j]) /\ messages[k].role = messages[j].role
        /\ messages[k].call # NoCall
    BY <1>2 DEF SameCall, IsResult, IsCall
  <2>. QED BY <1>2, <2>1 DEF ToolFactsPaired, ToolFactsUnique
<1>. QED BY <1>2, <1>6, <1>7

(* What the candidate of a fact is: a text, or a pair of two facts.        *)
IsText(c, i) ==
  /\ c.kind = "text" /\ c.at = <<i>> /\ c.priority = (IF IsCall(messages[i]) THEN 2 ELSE 3)
  /\ ~IsResult(messages[i]) /\ messages[i] # UserFact(active)
  /\ IsCall(messages[i]) => messages[i].tool = FinishTool

IsPair(c, i) ==
  /\ c.kind = "pair" /\ c.priority = 2 /\ IsCall(messages[i])
  /\ \E j \in DOMAIN messages :
       /\ c.at = <<i, j>>
       /\ messages[j] = ResultFact(messages[i].run, messages[i].call, messages[i].tool)

IsPart(c, last, priority, order, kind, at) ==
  c \in Parts(last) /\ c.priority = priority /\ c.order = order /\ c.kind = kind /\ c.at = at

LEMMA CandidateIsPart ==
  ASSUME NEW last \in Nat, NEW priority \in 0..3, NEW order \in 0..(last - 1),
         NEW kind \in Kinds, NEW at \in Seq(Nat)
  PROVE  IsPart(Candidate(priority, order, kind, at), last, priority, order, kind, at)
<1>1. Tokens[kind] \in Nat
  BY PackingAssumption
<1>. QED BY <1>1 DEF Candidate, Parts, Overhead, IsPart

LEMMA FactCandidates ==
  ASSUME SessionTypeOK, ToolFactsPaired, NEW last \in Nat, Len(messages) < last, NEW i \in Shown
  PROVE  LET c == FactCandidate(i, OrderOf(i))
         IN  /\ c \in Parts(last) /\ c.priority \in {2, 3} /\ c.order = OrderOf(i)
             /\ IsText(c, i) \/ IsPair(c, i)
<1>. DEFINE m == messages[i]
            c == FactCandidate(i, OrderOf(i))
<1>1. i \in DOMAIN messages /\ i \in Nat /\ OrderOf(i) \in 0..(last - 1)
  BY FactsAreNumbered DEF Shown
<1>2. m.role \in {"user", "assistant"} /\ (m.role = "user" => m.run # active)
      /\ (IsCall(m) /\ m.tool # FinishTool => Results(i) # {})
  BY DEF Shown, IsShown, IsCall
<1>3. ~IsResult(m) /\ m # UserFact(active)
  BY <1>2 DEF IsResult, UserFact
<1>4. "text" \in Kinds /\ "pair" \in Kinds /\ <<i>> \in Seq(Nat) /\ 2 \in 0..3 /\ 3 \in 0..3
  BY <1>1 DEF Kinds
<1>5. CASE ~IsCall(m)
  <2>1. c = Candidate(3, OrderOf(i), "text", <<i>>)
    BY <1>5 DEF FactCandidate
  <2>. HIDE DEF c, m
  <2>2. IsPart(c, last, 3, OrderOf(i), "text", <<i>>)
    BY <1>1, <1>4, <2>1, CandidateIsPart
  <2>. QED BY <1>3, <1>5, <2>2 DEF IsText, IsPart, c, m
<1>6. CASE IsCall(m) /\ m.tool = FinishTool
  <2>1. c = Candidate(2, OrderOf(i), "text", <<i>>)
    BY <1>6 DEF FactCandidate
  <2>. HIDE DEF c, m
  <2>2. IsPart(c, last, 2, OrderOf(i), "text", <<i>>)
    BY <1>1, <1>4, <2>1, CandidateIsPart
  <2>. QED BY <1>3, <1>6, <2>2 DEF IsText, IsPart, c, m
<1>7. CASE IsCall(m) /\ m.tool # FinishTool
  <2>1. PICK j \in Results(i) : TRUE
    BY <1>2, <1>7
  <2>2. /\ j \in DOMAIN messages /\ messages[j] = ResultFact(m.run, m.call, m.tool)
        /\ \A k \in Results(i) : k = j
    BY <1>1, <1>7, ResultOfCall
  <2>3. j \in Nat
    BY <2>2, FactsAreNumbered
  <2>4. j = CHOOSE r \in Results(i) : \A k \in Results(i) : r <= k
    BY <2>2, <2>3
  <2>5. c = Candidate(2, OrderOf(i), "pair", <<i, j>>)
    BY <1>7, <2>4 DEF FactCandidate
  <2>6. <<i, j>> \in Seq(Nat)
    BY <1>1, <2>3
  <2>. HIDE DEF c, m
  <2>7. IsPart(c, last, 2, OrderOf(i), "pair", <<i, j>>)
    BY <1>1, <1>4, <2>5, <2>6, CandidateIsPart
  <2>. QED BY <1>7, <2>2, <2>7 DEF IsPair, IsPart, c, m
<1>. QED BY <1>5, <1>6, <1>7

(* The fixed parts have places of their own before those of the session.   *)
LEMMA BaseIsPlaced ==
  ASSUME NEW f \in Nat, NEW d \in 0..2, NEW last \in Nat, f + 5 <= last
  PROVE  /\ BaseCandidates(f, d) \subseteq Parts(last)
         /\ OneEach(BaseCandidates(f, d))
         /\ \A c \in BaseCandidates(f, d) :
              /\ c.at = <<>> /\ c.priority \in {0, 1} /\ c.kind \notin {"text", "pair"}
              /\ c.kind = "task" => c.priority = 0 /\ c.order = f + 1
              /\ c.priority = 0 => c.order < f + 2
         /\ Candidate(0, 0, "system", <<>>) \in BaseCandidates(f, d)
         /\ Candidate(0, f + 1, "task", <<>>) \in BaseCandidates(f, d)
<1>. DEFINE B == BaseCandidates(f, d)
            system == Candidate(0, 0, "system", <<>>)
            task == Candidate(0, f + 1, "task", <<>>)
            brief == Candidate(1, f + 2, "brief", <<>>)
            feedback(n) == Candidate(0, n, "feedback", <<>>)
            derived(n) == Candidate(1, f + 2 + n, <<"state", "hint">>[n], <<>>)
            Is(c, priority, order, kind) == IsPart(c, last, priority, order, kind, <<>>)
<1>1. B = {system, task, brief} \cup {feedback(n) : n \in 1..f} \cup {derived(n) : n \in 1..d}
  BY DEF BaseCandidates
<1>2. /\ "system" \in Kinds /\ "task" \in Kinds /\ "brief" \in Kinds /\ "feedback" \in Kinds
      /\ "state" \in Kinds /\ "hint" \in Kinds /\ <<>> \in Seq(Nat) /\ 0 \in 0..3 /\ 1 \in 0..3
      /\ 0 \in 0..(last - 1) /\ f + 1 \in 0..(last - 1) /\ f + 2 \in 0..(last - 1)
  BY DEF Kinds
<1>. HIDE DEF B
<1>3. Is(system, 0, 0, "system") /\ Is(task, 0, f + 1, "task") /\ Is(brief, 1, f + 2, "brief")
  BY <1>2, CandidateIsPart
<1>4. ASSUME NEW n \in 1..f PROVE Is(feedback(n), 0, n, "feedback")
  <2>1. n \in 0..(last - 1)
    OBVIOUS
  <2>. QED BY <1>2, <2>1, CandidateIsPart
<1>5. ASSUME NEW n \in 1..d
      PROVE  Is(derived(n), 1, f + 2 + n, <<"state", "hint">>[n]) /\ <<"state", "hint">>[n] \in {"state", "hint"}
  <2>1. n \in {1, 2}
    OBVIOUS
  <2>2. <<"state", "hint">>[n] \in {"state", "hint"}
    BY <2>1
  <2>3. <<"state", "hint">>[n] \in Kinds /\ f + 2 + n \in 0..(last - 1)
    BY <1>2, <2>1, <2>2
  <2>. QED BY <1>2, <2>2, <2>3, CandidateIsPart
<1>. HIDE DEF system, task, brief, feedback, derived
<1>6. ASSUME NEW c \in B
      PROVE  \/ c = system \/ c = task \/ c = brief
             \/ \E n \in 1..f : c = feedback(n)
             \/ \E n \in 1..d : c = derived(n)
  BY <1>1
<1>7. ASSUME NEW c \in B
      PROVE  /\ c \in Parts(last) /\ c.at = <<>> /\ c.priority \in {0, 1} /\ c.kind \notin {"text", "pair"}
             /\ c.kind = "task" => c.priority = 0 /\ c.order = f + 1
             /\ c.priority = 0 => \/ c.order = 0 /\ c = system
                                  \/ c.order = f + 1 /\ c = task
                                  \/ c.order \in 1..f /\ c = feedback(c.order)
             /\ c.priority = 1 => \/ c.order = f + 2 /\ c = brief
                                  \/ c.order - (f + 2) \in 1..d /\ c = derived(c.order - (f + 2))
  <2>1. CASE c \in {system, task, brief}
    BY <1>3, <2>1 DEF IsPart
  <2>2. CASE \E n \in 1..f : c = feedback(n)
    BY <1>4, <2>2 DEF IsPart
  <2>3. CASE \E n \in 1..d : c = derived(n)
    <3>1. PICK n \in 1..d : c = derived(n)
      BY <2>3
    <3>2. /\ c \in Parts(last) /\ c.at = <<>> /\ c.priority = 1 /\ c.order = f + 2 + n
          /\ c.kind \in {"state", "hint"}
      BY <1>5, <3>1 DEF IsPart
    <3>3. c.order - (f + 2) = n
      BY <3>2
    <3>. QED BY <3>1, <3>2, <3>3
  <2>. QED BY <1>6, <2>1, <2>2, <2>3
<1>8. ASSUME NEW a \in B, NEW b \in B, a.priority = b.priority, a.order = b.order PROVE a = b
  <2>1. CASE a.priority = 0
    BY <1>7, <1>8, <2>1
  <2>2. CASE a.priority = 1
    BY <1>7, <1>8, <2>2
  <2>. QED BY <1>7, <2>1, <2>2
<1>. QED BY <1>1, <1>7, <1>8 DEF OneEach, B, system, task

(* A candidate is one of the fixed parts, stands for a fact, or is the     *)
(* snapshot; each has a place of its own.                                  *)
LEMMA CandidatesArePlaced ==
  ASSUME SessionTypeOK, ToolFactsPaired, NEW f \in Nat, NEW d \in 0..2
  PROVE  /\ LastOrder(f) \in Nat
         /\ Candidates(f, d) \subseteq Parts(LastOrder(f))
         /\ OneEach(Candidates(f, d))
         /\ \A c \in Candidates(f, d) : c.priority = 0 => c.order < f + 2
         /\ \A c \in Candidates(f, d) :
              \/ c \in BaseCandidates(f, d)
              \/ /\ c.kind \in {"text", "pair"}
                 /\ \E i \in Shown : c.order = OrderOf(i) /\ (IsText(c, i) \/ IsPair(c, i))
              \/ c.at = <<>> /\ c.kind = "snapshot"
<1>. DEFINE last == LastOrder(f)
            B == BaseCandidates(f, d)
            final == Candidate(2, Cardinality(Shown), "snapshot", <<>>)
<1>0. Len(messages) \in Nat /\ last = f + 5 + Len(messages)
  BY FactsAreNumbered DEF LastOrder
<1>1. last \in Nat /\ f + 5 <= last /\ Len(messages) < last
  BY <1>0
<1>. HIDE DEF last
<1>2. /\ B \subseteq Parts(last) /\ OneEach(B)
      /\ \A c \in B : c.priority \in {0, 1} /\ (c.priority = 0 => c.order < f + 2)
  BY <1>1, BaseIsPlaced
<1>3. ASSUME NEW i \in Shown
      PROVE  /\ FactCandidate(i, OrderOf(i)) \in Parts(last) /\ FactCandidate(i, OrderOf(i)).priority \in {2, 3}
             /\ FactCandidate(i, OrderOf(i)).order = OrderOf(i)
             /\ IsText(FactCandidate(i, OrderOf(i)), i) \/ IsPair(FactCandidate(i, OrderOf(i)), i)
  BY <1>1, FactCandidates
<1>4. IsPart(final, last, 2, Cardinality(Shown), "snapshot", <<>>)
  <2>1. /\ 2 \in 0..3 /\ Cardinality(Shown) \in 0..(last - 1) /\ "snapshot" \in Kinds
        /\ <<>> \in Seq(Nat)
    BY <1>1, FactsAreNumbered DEF Kinds
  <2>. QED BY <1>1, <2>1, CandidateIsPart
<1>5. \A c \in Candidates(f, d) : c \in B \/ c = final \/ \E i \in Shown : c = FactCandidate(i, OrderOf(i))
  BY DEF Candidates, SessionCandidates, OrderOf
<1>. HIDE DEF B, final
<1>6. ASSUME NEW a \in Candidates(f, d), NEW b \in Candidates(f, d), a.priority = b.priority, a.order = b.order
      PROVE  a = b
  <2>1. CASE a \in B
    <3>1. b \in B
      BY <1>2, <1>3, <1>4, <1>5, <1>6, <2>1 DEF IsPart
    <3>. QED BY <1>2, <1>6, <2>1, <3>1 DEF OneEach
  <2>2. CASE a = final
    <3>1. b \notin B
      BY <1>2, <1>4, <1>6, <2>2 DEF IsPart
    <3>2. \A i \in Shown : b # FactCandidate(i, OrderOf(i))
      <4>1. \A i \in Shown : OrderOf(i) # Cardinality(Shown)
        BY FactsAreNumbered
      <4>. QED BY <1>3, <1>4, <1>6, <2>2, <4>1 DEF IsPart
    <3>. QED BY <1>5, <2>2, <3>1, <3>2
  <2>3. ASSUME NEW i \in Shown, a = FactCandidate(i, OrderOf(i)) PROVE a = b
    <3>1. b \notin B
      BY <1>2, <1>3, <1>6, <2>3
    <3>2. b # final
      <4>1. OrderOf(i) # Cardinality(Shown)
        BY FactsAreNumbered
      <4>. QED BY <1>3, <1>4, <1>6, <2>3, <4>1 DEF IsPart
    <3>3. PICK k \in Shown : b = FactCandidate(k, OrderOf(k))
      BY <1>5, <3>1, <3>2
    <3>4. OrderOf(i) = OrderOf(k)
      BY <1>3, <1>6, <2>3, <3>3
    <3>5. i = k
      <4>1. i \in Nat /\ k \in Nat /\ OrderOf(i) \in Nat
        BY FactsAreNumbered DEF Shown
      <4>2. ~(i < k) /\ ~(k < i)
        BY <3>4, <4>1, FactsAreNumbered
      <4>. QED BY <4>1, <4>2
    <3>. QED BY <2>3, <3>3, <3>5
  <2>. QED BY <1>5, <2>1, <2>2, <2>3
<1>7. ASSUME NEW c \in Candidates(f, d)
      PROVE  /\ c \in Parts(last)
             /\ c.priority = 0 => c.order < f + 2
             /\ \/ c \in B
                \/ /\ c.kind \in {"text", "pair"}
                   /\ \E i \in Shown : c.order = OrderOf(i) /\ (IsText(c, i) \/ IsPair(c, i))
                \/ c.at = <<>> /\ c.kind = "snapshot"
  <2>1. CASE c \in B
    BY <1>2, <2>1
  <2>2. CASE c = final
    BY <1>4, <2>2 DEF IsPart
  <2>3. CASE \E i \in Shown : c = FactCandidate(i, OrderOf(i))
    BY <1>3, <2>3 DEF IsText, IsPair
  <2>. QED BY <1>5, <2>1, <2>2, <2>3
<1>. QED BY <1>1, <1>6, <1>7 DEF OneEach, last, B

-----------------------------------------------------------------------------
(* The theorems. *)

(* A prompt keeps to its budget or a message of the first priority was     *)
(* cut, and what is missing would not fit (manager.py:360-437).            *)
THEOREM PromptsFit == SessionSpec => []PromptFits
<1>1. SessionTypeOK /\ ToolFactsPaired => PromptFits
  <2>. SUFFICES ASSUME SessionTypeOK, ToolFactsPaired, NEW x \in Extras, NEW b \in Budgets
                PROVE  LET candidates == Candidates(x[1], x[2])
                           prompt     == Prompt(x[1], x[2], b)
                           cost       == Cost(prompt, LastOrder(x[1]))
                       IN  /\ cost > b => (\E c \in prompt : c.cut) /\ \A c \in prompt : c.priority = 0
                           /\ cost <= b + (x[1] + 2) * (Overhead + Tokens["note"])
                           /\ \A c \in prompt : \/ c \in candidates
                                                \/ c.cut /\ c.priority = 0 /\ \E d \in candidates : SamePart(c, d)
                           /\ \A c \in candidates :
                                \/ \E d \in prompt : SamePart(c, d)
                                \/ c.priority # 0 /\ cost + c.cost > b
    BY DEF PromptFits
  <2>. DEFINE S == Candidates(x[1], x[2])
              last == LastOrder(x[1])
              acc == Packed(S, last, b)
  <2>1. x[1] \in Nat /\ x[2] \in 0..2 /\ b \in Nat
    BY PackingAssumption
  <2>2. /\ last \in Nat /\ S \subseteq Parts(last) /\ OneEach(S)
        /\ \A c \in S : c.priority = 0 => c.order < x[1] + 2
    BY <2>1, CandidatesArePlaced
  <2>3. Prompt(x[1], x[2], b) = acc.kept
    BY DEF Prompt
  <2>. HIDE DEF S, last
  <2>4. Packs(acc, S, last, b)
    BY <2>1, <2>2, PackedKeeps
  <2>. HIDE DEF acc
  <2>5. Cost(acc.kept, last) = acc.total
    BY <2>4 DEF Packs
  <2>6. acc.total <= b + (x[1] + 2) * Excess
    <3>1. x[1] + 2 \in Nat
      BY <2>1
    <3>. QED BY <2>1, <2>2, <3>1, PackedBounded DEF acc
  <2>7. /\ acc.total > b => (\E c \in acc.kept : c.cut) /\ \A c \in acc.kept : c.priority = 0
        /\ \A c \in acc.kept : c \in S \/ (c.cut /\ c.priority = 0 /\ \E d \in S : SamePart(c, d))
        /\ \A c \in S : (\E d \in acc.kept : SamePart(c, d)) \/ (c.priority # 0 /\ acc.total + c.cost > b)
    BY <2>4 DEF Packs
  <2>. QED BY <2>3, <2>5, <2>6, <2>7 DEF S, last, Excess
<1>. QED BY <1>1, TypeCorrect, ToolFactsArePaired, PTL

(* A part that stands for facts, whole or cut. *)
LEMMA PartOfFact ==
  ASSUME SessionTypeOK, ToolFactsPaired, NEW f \in Nat, NEW d \in 0..2,
         NEW e, NEW c \in Candidates(f, d), SamePart(e, c)
  PROVE  \/ e.at = <<>> /\ e.kind \notin {"text", "pair"}
         \/ \E i \in Shown : e.order = OrderOf(i) /\ (IsText(e, i) \/ IsPair(e, i))
<1>1. f + 5 \in Nat /\ f + 5 <= f + 5
  OBVIOUS
<1>2. \A b \in BaseCandidates(f, d) : b.at = <<>> /\ b.kind \notin {"text", "pair"}
  BY <1>1, BaseIsPlaced
<1>3. CASE c \in BaseCandidates(f, d) \/ (c.at = <<>> /\ c.kind = "snapshot")
  BY <1>2, <1>3 DEF SamePart
<1>4. CASE \E i \in Shown : c.order = OrderOf(i) /\ (IsText(c, i) \/ IsPair(c, i))
  BY <1>4 DEF SamePart, IsText, IsPair
<1>. QED BY <1>3, <1>4, CandidatesArePlaced

(* The facts of a part: one that is not a result, and perhaps its result.  *)
LEMMA FactsOfPart ==
  ASSUME SessionTypeOK, ToolFactsPaired, NEW e, NEW i \in Shown, IsText(e, i) \/ IsPair(e, i)
  PROVE  /\ e.at # <<>> /\ e.at[1] = i /\ i \in DOMAIN messages /\ ~IsResult(messages[i])
         /\ \A k \in DOMAIN e.at :
              e.at[k] # i => /\ IsPair(e, i) /\ e.at[k] \in DOMAIN messages /\ IsResult(messages[e.at[k]])
                             /\ SameCall(messages[i], messages[e.at[k]])
<1>1. i \in DOMAIN messages
  BY DEF Shown
<1>2. CASE IsText(e, i)
  BY <1>1, <1>2 DEF IsText
<1>3. CASE IsPair(e, i)
  <2>1. PICK j \in DOMAIN messages :
          /\ e.at = <<i, j>>
          /\ messages[j] = ResultFact(messages[i].run, messages[i].call, messages[i].tool)
    BY <1>3 DEF IsPair
  <2>2. IsResult(messages[j]) /\ SameCall(messages[i], messages[j])
    BY <2>1 DEF IsResult, SameCall, ResultFact
  <2>3. ~IsResult(messages[i])
    BY <1>3 DEF IsPair, IsCall, IsResult
  <2>4. DOMAIN e.at = {1, 2} /\ e.at[1] = i /\ e.at[2] = j /\ e.at # <<>>
    BY <2>1
  <2>. QED BY <1>1, <1>3, <2>2, <2>3, <2>4
<1>. QED BY <1>2, <1>3

(* No two parts of different facts share one. *)
LEMMA FactsAreApart ==
  ASSUME SessionTypeOK, ToolFactsPaired,
         NEW c, NEW i \in Shown, IsText(c, i) \/ IsPair(c, i),
         NEW d, NEW k \in Shown, IsText(d, k) \/ IsPair(d, k), i # k
  PROVE  {c.at[n] : n \in DOMAIN c.at} \cap {d.at[n] : n \in DOMAIN d.at} = {}
<1>. SUFFICES ASSUME NEW m \in DOMAIN c.at, NEW n \in DOMAIN d.at, c.at[m] = d.at[n] PROVE FALSE
  OBVIOUS
<1>1. ~IsResult(messages[i]) /\ ~IsResult(messages[k]) /\ i \in DOMAIN messages /\ k \in DOMAIN messages
  BY FactsOfPart
<1>2. c.at[m] # i /\ d.at[n] # k
  <2>1. c.at[m] # i => IsResult(messages[c.at[m]])
    BY FactsOfPart
  <2>2. d.at[n] # k => IsResult(messages[d.at[n]])
    BY FactsOfPart
  <2>. QED BY <1>1, <2>1, <2>2
<1>3. IsPair(c, i) /\ SameCall(messages[i], messages[c.at[m]])
  BY <1>2, FactsOfPart
<1>4. IsPair(d, k) /\ SameCall(messages[k], messages[d.at[n]])
  BY <1>2, FactsOfPart
<1>5. /\ SameCall(messages[i], messages[k]) /\ messages[i].role = messages[k].role
      /\ messages[i].call # NoCall
  BY <1>3, <1>4 DEF IsPair, IsCall, SameCall
<1>. QED BY <1>1, <1>5 DEF ToolFactsPaired, ToolFactsUnique

(* A prompt is one a provider accepts and tells every fact once            *)
(* (manager.py:244-333, 391-396).                                          *)
THEOREM PromptsAreWhole == SessionSpec => []PromptIsWhole
<1>1. SessionTypeOK /\ ToolFactsPaired => PromptIsWhole
  <2>. SUFFICES ASSUME SessionTypeOK, ToolFactsPaired, NEW x \in Extras, NEW b \in Budgets
                PROVE  IsWhole(Prompt(x[1], x[2], b))
    BY DEF PromptIsWhole, Prompts
  <2>. DEFINE f == x[1]
              S == Candidates(f, x[2])
              last == LastOrder(f)
              acc == Packed(S, last, b)
              prompt == Prompt(f, x[2], b)
              IsFact(c, i) == c.order = OrderOf(i) /\ (IsText(c, i) \/ IsPair(c, i))
  <2>1. f \in Nat /\ x[2] \in 0..2 /\ b \in Nat
    BY PackingAssumption
  <2>2. last \in Nat /\ S \subseteq Parts(last) /\ OneEach(S)
    BY <2>1, CandidatesArePlaced
  <2>3. prompt = acc.kept
    BY DEF Prompt
  <2>. HIDE DEF prompt
  <2>4. Packs(acc, S, last, b)
    <3>. HIDE DEF S, last
    <3>. QED BY <2>1, <2>2, PackedKeeps
  <2>. HIDE DEF last, acc
  <2>5. /\ prompt \subseteq Parts(last) /\ OneEach(prompt)
        /\ \A e \in prompt : \E c \in S : SamePart(e, c)
        /\ \A c \in S : c.priority = 0 => \E e \in prompt : SamePart(c, e)
    BY <2>3, <2>4 DEF Packs
  <2>6. \A e \in prompt : (e.at = <<>> /\ e.kind \notin {"text", "pair"}) \/ \E i \in Shown : IsFact(e, i)
    BY <2>1, <2>5, PartOfFact
  <2>7. \A e \in prompt : e.order \in Nat /\ e.priority \in Nat
    <3>1. prompt \subseteq Parts(last)
      BY <2>5
    <3>. QED BY <3>1 DEF Parts
  <2>8. \A c, d \in prompt : c = d \/ Precedes(c, d) \/ Precedes(d, c)
    BY <2>5, <2>7 DEF OneEach, Precedes
  <2>9. f + 5 \in Nat /\ f + 5 <= f + 5
    BY <2>1
  <2>10. \E c \in prompt : c.kind = "system" /\ \A d \in prompt \ {c} : Precedes(c, d)
    <3>1. Candidate(0, 0, "system", <<>>) \in S
      BY <2>1, <2>9, BaseIsPlaced DEF Candidates
    <3>2. PICK c \in prompt : c.kind = "system" /\ c.priority = 0 /\ c.order = 0
      BY <2>5, <3>1 DEF SamePart, Candidate
    <3>. QED BY <2>5, <2>7, <3>2 DEF OneEach, Precedes
  <2>11. \E c \in prompt : {d \in prompt : d.kind = "task"} = {c}
    <3>1. Candidate(0, f + 1, "task", <<>>) \in S
      BY <2>1, <2>9, BaseIsPlaced DEF Candidates
    <3>2. PICK c \in prompt : c.kind = "task" /\ c.priority = 0 /\ c.order = f + 1
      BY <2>5, <3>1 DEF SamePart, Candidate
    <3>3. ASSUME NEW d \in prompt, d.kind = "task" PROVE d = c
      <4>1. PICK e \in S : SamePart(d, e)
        BY <2>5
      <4>2. e \in BaseCandidates(f, x[2])
        BY <2>1, <3>3, <4>1, CandidatesArePlaced DEF SamePart
      <4>3. e.priority = 0 /\ e.order = f + 1
        BY <2>1, <2>9, <3>3, <4>1, <4>2, BaseIsPlaced DEF SamePart
      <4>. QED BY <2>5, <3>2, <4>1, <4>3 DEF OneEach, SamePart
    <3>. QED BY <3>2, <3>3
  <2>. HIDE DEF S
  <2>12. ASSUME NEW c \in prompt, c.kind = "pair"
         PROVE  /\ IsCall(messages[c.at[1]])
                /\ messages[c.at[2]] = ResultFact(messages[c.at[1]].run, messages[c.at[1]].call, messages[c.at[1]].tool)
    <3>1. PICK i \in Shown : IsPair(c, i)
      BY <2>6, <2>12 DEF IsText
    <3>2. PICK j \in DOMAIN messages :
            /\ c.at = <<i, j>>
            /\ messages[j] = ResultFact(messages[i].run, messages[i].call, messages[i].tool)
      BY <3>1 DEF IsPair
    <3>3. c.at[1] = i /\ c.at[2] = j
      BY <3>2
    <3>. QED BY <3>1, <3>2, <3>3 DEF IsPair
  <2>13. ASSUME NEW c \in prompt, c.kind = "text"
         PROVE  /\ ~IsResult(messages[c.at[1]])
                /\ messages[c.at[1]] # UserFact(active)
                /\ IsCall(messages[c.at[1]]) => messages[c.at[1]].tool = FinishTool
    <3>1. PICK i \in Shown : IsText(c, i)
      BY <2>6, <2>13 DEF IsPair
    <3>2. c.at[1] = i
      BY <3>1 DEF IsText
    <3>. QED BY <3>1, <3>2 DEF IsText
  <2>14. ASSUME NEW c \in prompt, NEW d \in prompt, NEW i \in Shown, IsFact(c, i), IsFact(d, i)
         PROVE  c = d
    <3>1. c.priority = d.priority
      BY <2>14 DEF IsText, IsPair
    <3>. QED BY <2>5, <2>14, <3>1 DEF OneEach
  <2>15. ASSUME NEW c \in prompt, NEW d \in prompt, c # d
         PROVE  {c.at[k] : k \in DOMAIN c.at} \cap {d.at[k] : k \in DOMAIN d.at} = {}
    <3>1. CASE c.at = <<>> \/ d.at = <<>>
      BY <3>1
    <3>2. CASE c.at # <<>> /\ d.at # <<>>
      <4>1. PICK i \in Shown, k \in Shown : IsFact(c, i) /\ IsFact(d, k)
        BY <2>6, <3>2
      <4>2. i # k
        BY <2>14, <2>15, <4>1
      <4>3. (IsText(c, i) \/ IsPair(c, i)) /\ (IsText(d, k) \/ IsPair(d, k))
        BY <4>1
      <4>. HIDE DEF IsFact
      <4>. QED BY <4>2, <4>3, FactsAreApart
    <3>. QED BY <3>1, <3>2
  <2>16. ASSUME NEW c \in prompt, NEW d \in prompt, c.at # <<>>, d.at # <<>>, Precedes(c, d)
         PROVE  c.at[1] < d.at[1]
    <3>1. PICK i \in Shown, k \in Shown : IsFact(c, i) /\ IsFact(d, k)
      BY <2>6, <2>16
    <3>2. c.at[1] = i /\ d.at[1] = k /\ i \in Nat /\ k \in Nat
      BY <3>1, FactsOfPart, FactsAreNumbered
    <3>3. i # k
      BY <2>7, <2>14, <2>16, <3>1 DEF Precedes
    <3>4. ~(k < i)
      <4>1. k < i => OrderOf(k) < OrderOf(i)
        BY FactsAreNumbered
      <4>. QED BY <2>7, <2>16, <3>1, <4>1 DEF Precedes
    <3>. QED BY <3>2, <3>3, <3>4
  <2>17. IsWhole(prompt)
    BY <2>8, <2>10, <2>11, <2>12, <2>13, <2>15, <2>16 DEF IsWhole
  <2>. QED BY <2>17 DEF prompt
<1>. QED BY <1>1, TypeCorrect, ToolFactsArePaired, PTL
=============================================================================
