--------------------------- MODULE PropagationProofs ---------------------------
(***************************************************************************)
(* Proofs about Propagation, for any stories, any checkers and users, and  *)
(* any schema.                                                             *)
(*                                                                         *)
(* The first part is about the lists that the rules are built from, the    *)
(* second about the rules: the child that has a gap in both views of a     *)
(* rule is among its findings.  The inductive invariant then says that a   *)
(* gap that has stayed since a check began is found, reported with the     *)
(* rule that failed, or still to be looked for.                            *)
(*                                                                         *)
(* The other half is about the rounds of checks and fixes.  What the rules *)
(* ask a child to get is a function of the tags of its parents and of its  *)
(* own; what a check has found so far, and what an apply has left to do,   *)
(* are compared with it, for the children at the levels that the rounds    *)
(* have reached.                                                           *)
(***************************************************************************)
EXTENDS Propagation, GovernanceRulesProofs, FiniteSetTheorems

-----------------------------------------------------------------------------
(***************************************************************************)
(* Lists                                                                   *)
(***************************************************************************)

\* Induction, for a set of numbers.
LEMMA Counting ==
    ASSUME NEW I, 0 \in I, \A n \in Nat : n \in I => n + 1 \in I
    PROVE  Nat \subseteq I
  <1>. SUFFICES ASSUME Nat \ I # {} PROVE FALSE
    OBVIOUS
  <1>1. PICK i \in Nat \ I : \A j \in Nat \ I : i <= j
    BY FirstPosition
  <1>2. i # 0 /\ i - 1 \in Nat
    BY <1>1
  <1>3. i - 1 \in I
    BY <1>1, <1>2
  <1>. QED
    BY <1>1, <1>2, <1>3

IsSeq(s) == s \in Seq(ToSet(s))

LEMMA SeqFacts ==
    ASSUME NEW s, IsSeq(s)
    PROVE  /\ DOMAIN s = 1..Len(s) /\ Len(s) \in Nat
           /\ \A x : x \in ToSet(s) <=> \E i \in 1..Len(s) : s[i] = x
BY DEF IsSeq, ToSet

LEMMA SeqIsSeq ==
    ASSUME NEW T, NEW s \in Seq(T)
    PROVE  IsSeq(s) /\ ToSet(s) \subseteq T
BY DEF IsSeq, ToSet

\* A function on 1..n is a sequence of its values.
LEMMA ListIsSeq ==
    ASSUME NEW n \in Nat, NEW s, DOMAIN s = 1..n, s = [i \in 1..n |-> s[i]]
    PROVE  IsSeq(s) /\ Len(s) = n
  <1>1. s \in [1..n -> ToSet(s)]
    BY DEF ToSet
  <1>. QED
    BY <1>1 DEF IsSeq

LEMMA ConcatMembers ==
    ASSUME NEW s, NEW t, IsSeq(s), IsSeq(t)
    PROVE  IsSeq(s \o t) /\ ToSet(s \o t) = ToSet(s) \cup ToSet(t)
  <1> DEFINE T == ToSet(s) \cup ToSet(t)
  <1>1. s \in Seq(T) /\ t \in Seq(T)
    BY DEF IsSeq
  <1>2. s \o t \in Seq(T) /\ Len(s \o t) = Len(s) + Len(t)
    BY <1>1
  <1>3. ASSUME NEW i \in 1..Len(s \o t) PROVE (s \o t)[i] \in T
    BY <1>2, <1>3
  <1>4. ASSUME NEW x \in ToSet(s) PROVE x \in ToSet(s \o t)
    <2>1. PICK i \in 1..Len(s) : s[i] = x
      BY SeqFacts
    <2>2. (s \o t)[i] = x /\ i \in 1..Len(s \o t)
      BY <1>1, <1>2, <2>1
    <2>. QED
      BY <1>2, <2>2 DEF ToSet
  <1>5. ASSUME NEW x \in ToSet(t) PROVE x \in ToSet(s \o t)
    <2>1. PICK i \in 1..Len(t) : t[i] = x
      BY SeqFacts
    <2>2. (s \o t)[Len(s) + i] = x /\ Len(s) + i \in 1..Len(s \o t)
      BY <1>1, <1>2, <2>1
    <2>. QED
      BY <1>2, <2>2 DEF ToSet
  <1>6. ToSet(s \o t) \subseteq T
    BY <1>2, <1>3 DEF ToSet
  <1>7. ToSet(s \o t) = T
    BY <1>4, <1>5, <1>6
  <1>. QED
    BY <1>2, <1>7 DEF IsSeq

\* FlattenSeq joins the lists from the first one to the last one.
LEMMA FlattenUnroll ==
    ASSUME NEW ss, DOMAIN ss = 1..Len(ss), Len(ss) \in Nat \ {0}
    PROVE  \E all : /\ FlattenSeq(ss) = all[Len(ss)]
                    /\ \A i \in 1..Len(ss) : all[i] = IF i = 1 THEN ss[i] ELSE all[i - 1] \o ss[i]
  <1> DEFINE Of(f, n) == [i \in 1..n |-> IF i = 1 THEN ss[i] ELSE f[i - 1] \o ss[i]]
             all == CHOOSE f : f = Of(f, Len(ss))
  <1>1. \A n \in Nat : \E f : f = Of(f, n)
    <2> DEFINE I == {n \in Nat : \E f : f = Of(f, n)}
    <2>1. 0 \in I
      <3>1. [i \in {} |-> {}] = Of([i \in {} |-> {}], 0)
        OBVIOUS
      <3>. QED
        BY <3>1
    <2>2. ASSUME NEW n \in Nat, n \in I PROVE n + 1 \in I
      <3>1. PICK f : f = Of(f, n)
        BY <2>2
      <3> DEFINE g == [i \in 1..n + 1 |-> IF i <= n THEN f[i]
                          ELSE IF i = 1 THEN ss[i] ELSE f[i - 1] \o ss[i]]
      <3>2. ASSUME NEW i \in 1..n
            PROVE  f[i] = IF i = 1 THEN ss[i] ELSE f[i - 1] \o ss[i]
        <4>1. Of(f, n)[i] = IF i = 1 THEN ss[i] ELSE f[i - 1] \o ss[i]
          BY <3>2
        <4>. HIDE DEF Of
        <4>. QED
          BY <3>1, <4>1
      <3>3. ASSUME NEW i \in 1..n + 1
            PROVE  g[i] = IF i = 1 THEN ss[i] ELSE g[i - 1] \o ss[i]
        <4>1. i # 1 => i - 1 \in 1..n /\ g[i - 1] = f[i - 1]
          BY <3>3
        <4>. QED
          BY <4>1, <3>2
      <3>4. g = [i \in 1..n + 1 |-> g[i]]
        OBVIOUS
      <3>. HIDE DEF g
      <3>5. g = Of(g, n + 1)
        BY <3>3, <3>4
      <3>. HIDE DEF Of
      <3>. QED
        BY <3>5
    <2>. HIDE DEF I
    <2>3. Nat \subseteq I
      BY <2>1, <2>2, Counting
    <2>. QED
      BY <2>3 DEF I
  <1>. HIDE DEF Of
  <1>2. all = Of(all, Len(ss))
    BY <1>1
  <1>3. FlattenSeq(ss) = all[Len(ss)]
    BY DEF FlattenSeq, all, Of
  <1>. HIDE DEF all
  <1>4. \A i \in 1..Len(ss) : all[i] = IF i = 1 THEN ss[i] ELSE all[i - 1] \o ss[i]
    <2>1. \A i \in 1..Len(ss) : Of(all, Len(ss))[i] = IF i = 1 THEN ss[i] ELSE all[i - 1] \o ss[i]
      BY DEF Of
    <2>. QED
      BY <1>2, <2>1
  <1>. QED
    BY <1>3, <1>4

\* FlattenSeq joins the members of all its lists.
LEMMA FlattenMembers ==
    ASSUME NEW ss, IsSeq(ss), \A i \in DOMAIN ss : IsSeq(ss[i])
    PROVE  /\ IsSeq(FlattenSeq(ss))
           /\ ToSet(FlattenSeq(ss)) = UNION {ToSet(ss[i]) : i \in DOMAIN ss}
  <1>. DOMAIN ss = 1..Len(ss) /\ Len(ss) \in Nat
    BY SeqFacts
  <1>1. CASE Len(ss) = 0
    <2>1. FlattenSeq(ss) = ss /\ DOMAIN ss = {}
      BY <1>1 DEF FlattenSeq
    <2>. QED
      BY <2>1 DEF ToSet
  <1>2. CASE Len(ss) # 0
    <2>1. PICK all : /\ FlattenSeq(ss) = all[Len(ss)]
                     /\ \A i \in 1..Len(ss) : all[i] = IF i = 1 THEN ss[i] ELSE all[i - 1] \o ss[i]
      BY <1>2, FlattenUnroll
    <2> DEFINE J == {n \in Nat : n + 1 <= Len(ss) =>
                      /\ IsSeq(all[n + 1])
                      /\ ToSet(all[n + 1]) = UNION {ToSet(ss[i]) : i \in 1..n + 1}}
    <2>5. 0 \in J
      <3>1. all[1] = ss[1] /\ IsSeq(ss[1])
        BY <1>2, <2>1
      <3>2. UNION {ToSet(ss[i]) : i \in 1..0 + 1} = ToSet(ss[1])
        OBVIOUS
      <3>. QED
        BY <3>1, <3>2
    <2>6. ASSUME NEW n \in Nat, n \in J PROVE n + 1 \in J
      <3>. SUFFICES ASSUME n + 2 <= Len(ss)
                    PROVE  /\ IsSeq(all[n + 2])
                           /\ ToSet(all[n + 2]) = UNION {ToSet(ss[i]) : i \in 1..n + 2}
        OBVIOUS
      <3>1. /\ IsSeq(all[n + 1]) /\ ToSet(all[n + 1]) = UNION {ToSet(ss[i]) : i \in 1..n + 1}
            /\ IsSeq(ss[n + 2])
        BY <2>6
      <3>2. all[n + 2] = all[n + 1] \o ss[n + 2]
        <4>1. n + 2 \in 1..Len(ss) /\ n + 2 # 1 /\ (n + 2) - 1 = n + 1
          OBVIOUS
        <4>. QED
          BY <2>1, <4>1
      <3>3. IsSeq(all[n + 2]) /\ ToSet(all[n + 2]) = ToSet(all[n + 1]) \cup ToSet(ss[n + 2])
        BY <3>1, <3>2, ConcatMembers
      <3>4. 1..n + 2 = (1..n + 1) \cup {n + 2}
        OBVIOUS
      <3>5. UNION {ToSet(ss[i]) : i \in 1..n + 2}
               = (UNION {ToSet(ss[i]) : i \in 1..n + 1}) \cup ToSet(ss[n + 2])
        BY <3>4
      <3>. QED
        BY <3>1, <3>3, <3>5
    <2>. HIDE DEF J
    <2>7. Len(ss) - 1 \in J
      BY <1>2, <2>5, <2>6, Counting
    <2>. QED
      BY <1>2, <2>1, <2>7 DEF J
  <1>. QED
    BY <1>1, <1>2

\* Where keeps the members of the set.
LEMMA WhereMembers ==
    ASSUME NEW s, IsSeq(s), NEW S
    PROVE  IsSeq(Where(s, S)) /\ ToSet(Where(s, S)) = ToSet(s) \cap S
  <1> DEFINE ss == [i \in DOMAIN s |-> IF s[i] \in S THEN <<s[i]>> ELSE <<>>]
  <1>1. IsSeq(ss) /\ DOMAIN ss = 1..Len(s)
    BY SeqFacts, ListIsSeq
  <1>2. ASSUME NEW x PROVE IsSeq(<<x>>) /\ ToSet(<<x>>) = {x} /\ IsSeq(<<>>) /\ ToSet(<<>>) = {}
    BY DEF IsSeq, ToSet
  <1>3. \A i \in DOMAIN ss : IsSeq(ss[i]) /\ ToSet(ss[i]) = {s[i]} \cap S
    BY <1>2
  <1>4. IsSeq(Where(s, S)) /\ ToSet(Where(s, S)) = UNION {ToSet(ss[i]) : i \in DOMAIN ss}
    BY <1>1, <1>3, FlattenMembers DEF Where
  <1>5. DOMAIN ss = DOMAIN s
    OBVIOUS
  <1>. HIDE DEF ss
  <1>6. ASSUME NEW x
        PROVE  x \in UNION {ToSet(ss[i]) : i \in DOMAIN ss} <=> \E i \in DOMAIN s : x \in {s[i]} \cap S
    BY <1>3, <1>5
  <1>7. \A x : x \in ToSet(s) <=> \E i \in DOMAIN s : x = s[i]
    BY DEF ToSet
  <1>. QED
    BY <1>4, <1>6, <1>7

LEMMA SetToSeqMembers ==
    ASSUME NEW S, IsFiniteSet(S)
    PROVE  IsSeq(SetToSeq(S)) /\ ToSet(SetToSeq(S)) = S
  <1> DEFINE n == Cardinality(S)
  <1>1. n \in Nat /\ ExistsBijection(1..n, S)
    BY FS_CardinalityType
  <1>2. \E f \in [1..n -> S] : IsInjective(f)
    BY <1>1 DEF ExistsBijection, Bijection, Injection
  <1>3. SetToSeq(S) \in [1..n -> S] /\ IsInjective(SetToSeq(S))
    BY <1>2 DEF SetToSeq
  <1>. HIDE DEF n
  <1>4. SetToSeq(S) \in Injection(1..n, S)
    BY <1>3 DEF Injection
  <1>5. Cardinality(1..n) = n
    BY <1>1, FS_Interval
  <1>6. SetToSeq(S) \in Surjection(1..n, S)
    BY <1>4, <1>5, FS_Injection DEF n
  <1>7. \A x \in S : \E i \in 1..n : SetToSeq(S)[i] = x
    BY <1>6 DEF Surjection
  <1>8. ToSet(SetToSeq(S)) = S
    BY <1>3, <1>7 DEF ToSet
  <1>9. SetToSeq(S) \in Seq(S)
    BY <1>1, <1>3
  <1>. QED
    BY <1>8, <1>9 DEF IsSeq

\* A stretch of a sequence.
LEMMA SubSeqMembers ==
    ASSUME NEW s, IsSeq(s), NEW m \in Nat \ {0}, m <= Len(s) + 1
    PROVE  /\ IsSeq(SubSeq(s, m, Len(s))) /\ ToSet(SubSeq(s, m, Len(s))) \subseteq ToSet(s)
           /\ Len(SubSeq(s, m, Len(s))) = Len(s) + 1 - m
  <1>1. SubSeq(s, m, Len(s)) \in Seq(ToSet(s)) /\ Len(SubSeq(s, m, Len(s))) = Len(s) + 1 - m
    BY DEF IsSeq
  <1>. QED
    BY <1>1, SeqIsSeq

LEMMA AppendMembers ==
    ASSUME NEW s, IsSeq(s), NEW x
    PROVE  /\ IsSeq(Append(s, x)) /\ ToSet(Append(s, x)) = ToSet(s) \cup {x}
           /\ Len(Append(s, x)) = Len(s) + 1
  <1> DEFINE T == ToSet(s) \cup {x}
  <1>1. s \in Seq(T)
    BY DEF IsSeq
  <1>2. Append(s, x) \in Seq(T) /\ Len(Append(s, x)) = Len(s) + 1
    BY <1>1
  <1>3. /\ \A i \in 1..Len(s) : Append(s, x)[i] = s[i]
        /\ Append(s, x)[Len(s) + 1] = x
    BY <1>1
  <1>4. DOMAIN Append(s, x) = DOMAIN s \cup {Len(s) + 1} /\ DOMAIN s = 1..Len(s)
    BY <1>1, <1>2
  <1>5. ToSet(Append(s, x)) = T
    BY <1>3, <1>4 DEF ToSet
  <1>. QED
    BY <1>2, <1>5 DEF IsSeq

\* The members after the first one, and the first one.
LEMMA TailMembers ==
    ASSUME NEW s, IsSeq(s), s # <<>>
    PROVE  /\ IsSeq(Tail(s)) /\ Head(s) \in ToSet(s)
           /\ ToSet(s) = {Head(s)} \cup ToSet(Tail(s))
  <1>1. /\ s \in Seq(ToSet(s)) /\ Len(s) \in Nat /\ Len(s) # 0 /\ DOMAIN s = 1..Len(s)
        /\ Head(s) = s[1]
    BY DEF IsSeq
  <1>2. /\ Tail(s) \in Seq(ToSet(s)) /\ Len(Tail(s)) = Len(s) - 1
        /\ \A i \in 1..Len(s) - 1 : Tail(s)[i] = s[i + 1]
    BY <1>1
  <1>3. IsSeq(Tail(s)) /\ ToSet(Tail(s)) \subseteq ToSet(s)
    BY <1>2, SeqIsSeq
  <1>4. ASSUME NEW x \in ToSet(s), x # Head(s) PROVE x \in ToSet(Tail(s))
    <2>1. PICK i \in 1..Len(s) : s[i] = x
      BY SeqFacts
    <2>2. i - 1 \in 1..Len(s) - 1 /\ Tail(s)[i - 1] = x
      BY <1>1, <1>2, <1>4, <2>1
    <2>. QED
      BY <1>2, <1>3, <2>2, SeqFacts
  <1>5. Head(s) \in ToSet(s)
    BY <1>1, SeqFacts
  <1>. QED
    BY <1>3, <1>4, <1>5

\* A check goes through every rule in every place.
LEMMA TasksMembers ==
    ASSUME NEW places, IsFiniteSet(places), NEW rules, IsSeq(rules)
    PROVE  /\ IsSeq(Tasks(places, rules))
           /\ ToSet(Tasks(places, rules)) = {[place |-> p, rule |-> r] : p \in places, r \in ToSet(rules)}
  <1> DEFINE ps == SetToSeq(places)
             ss == [i \in DOMAIN ps |-> [j \in DOMAIN rules |-> [place |-> ps[i], rule |-> rules[j]]]]
  <1>1. IsSeq(ps) /\ ToSet(ps) = places
    BY SetToSeqMembers
  <1>2. IsSeq(ss) /\ DOMAIN ss = DOMAIN ps
    BY <1>1, SeqFacts, ListIsSeq
  <1>3. \A i \in DOMAIN ss : /\ IsSeq(ss[i])
                             /\ ToSet(ss[i]) = {[place |-> ps[i], rule |-> r] : r \in ToSet(rules)}
    <2>. TAKE i \in DOMAIN ss
    <2>1. ss[i] = [j \in 1..Len(rules) |-> [place |-> ps[i], rule |-> rules[j]]] /\ Len(rules) \in Nat
      BY SeqFacts
    <2>2. IsSeq(ss[i])
      BY <2>1, ListIsSeq
    <2>3. ToSet(ss[i]) = {[place |-> ps[i], rule |-> rules[j]] : j \in 1..Len(rules)}
      BY <2>1 DEF ToSet
    <2>. QED
      BY <2>2, <2>3, SeqFacts
  <1>4. Tasks(places, rules) = FlattenSeq(ss)
    BY DEF Tasks
  <1>. HIDE DEF ss
  <1>5. IsSeq(Tasks(places, rules)) /\ ToSet(Tasks(places, rules)) = UNION {ToSet(ss[i]) : i \in DOMAIN ss}
    BY <1>2, <1>3, <1>4, FlattenMembers
  <1>6. ASSUME NEW x
        PROVE  x \in ToSet(Tasks(places, rules)) <=>
                   \E i \in DOMAIN ps : \E r \in ToSet(rules) : x = [place |-> ps[i], rule |-> r]
    BY <1>2, <1>3, <1>5
  <1>7. \A p : p \in places <=> \E i \in DOMAIN ps : ps[i] = p
    BY <1>1 DEF ToSet
  <1>. QED
    BY <1>5, <1>6, <1>7

LEMMA SmallSets == IsFiniteSet({}) /\ \A x : IsFiniteSet({x})
BY FS_EmptySet, FS_Singleton

LEMMA PrefixMembers ==
    ASSUME NEW s, IsSeq(s), NEW n \in Nat, n <= Len(s)
    PROVE  IsSeq(SubSeq(s, 1, n)) /\ (n = Len(s) => SubSeq(s, 1, n) = s)
  <1>1. s \in Seq(ToSet(s))
    BY DEF IsSeq
  <1>2. SubSeq(s, 1, n) \in Seq(ToSet(s))
    BY <1>1
  <1>3. n = Len(s) => SubSeq(s, 1, n) = s
    BY <1>1
  <1>. QED
    BY <1>2, <1>3, SeqIsSeq

\* Nothing is left out when all are wanted.
LEMMA WhereAll ==
    ASSUME NEW s, IsSeq(s), NEW S, ToSet(s) \subseteq S
    PROVE  Where(s, S) = s
  <1> DEFINE ss == [i \in DOMAIN s |-> IF s[i] \in S THEN <<s[i]>> ELSE <<>>]
  <1>1. DOMAIN s = 1..Len(s) /\ Len(s) \in Nat /\ s \in Seq(ToSet(s))
    BY SeqFacts DEF IsSeq
  <1>2. IsSeq(ss) /\ DOMAIN ss = 1..Len(s) /\ Len(ss) = Len(s)
    BY <1>1, SeqFacts, ListIsSeq
  <1>3. \A i \in 1..Len(s) : ss[i] = <<s[i]>>
    BY <1>1 DEF ToSet
  <1>. HIDE DEF ss
  <1>4. CASE Len(s) = 0
    <2>1. FlattenSeq(ss) = ss /\ s = <<>> /\ ss = <<>>
      BY <1>1, <1>2, <1>4 DEF FlattenSeq, IsSeq
    <2>. QED
      BY <2>1 DEF Where, ss
  <1>5. CASE Len(s) # 0
    <2>1. PICK all : /\ FlattenSeq(ss) = all[Len(ss)]
                     /\ \A i \in 1..Len(ss) : all[i] = IF i = 1 THEN ss[i] ELSE all[i - 1] \o ss[i]
      BY <1>1, <1>2, <1>5, FlattenUnroll
    <2> DEFINE J == {n \in Nat : n + 1 <= Len(s) => all[n + 1] = SubSeq(s, 1, n + 1)}
    <2>2. 0 \in J
      <3>1. all[1] = <<s[1]>> /\ 1 \in 1..Len(s)
        BY <1>1, <1>2, <1>3, <1>5, <2>1
      <3>2. SubSeq(s, 1, 1) \in Seq(ToSet(s)) /\ Len(SubSeq(s, 1, 1)) = 1 /\ SubSeq(s, 1, 1)[1] = s[1]
        BY <1>1, <3>1
      <3>3. <<s[1]>> \in Seq(ToSet(s)) /\ Len(<<s[1]>>) = 1 /\ <<s[1]>>[1] = s[1]
        BY <1>1, <3>1
      <3>4. SubSeq(s, 1, 1) = <<s[1]>>
        <4>1. \A a \in Seq(ToSet(s)) : a = [i \in 1..Len(a) |-> a[i]]
          OBVIOUS
        <4>2. SubSeq(s, 1, 1) = [i \in 1..1 |-> SubSeq(s, 1, 1)[i]] /\ <<s[1]>> = [i \in 1..1 |-> <<s[1]>>[i]]
          BY <3>2, <3>3, <4>1
        <4>3. \A i \in 1..1 : SubSeq(s, 1, 1)[i] = <<s[1]>>[i]
          BY <3>2, <3>3
        <4>. QED
          BY <4>2, <4>3, Zenon
      <3>. QED
        BY <3>1, <3>4
    <2>3. ASSUME NEW n \in Nat, n \in J PROVE n + 1 \in J
      <3>. SUFFICES ASSUME n + 2 <= Len(s) PROVE all[n + 2] = SubSeq(s, 1, n + 2)
        OBVIOUS
      <3>1. n + 2 \in 1..Len(s) /\ n + 2 # 1 /\ (n + 2) - 1 = n + 1 /\ n + 1 <= Len(s)
        BY <1>1
      <3>2. all[n + 2] = SubSeq(s, 1, n + 1) \o <<s[n + 2]>>
        BY <1>2, <1>3, <2>1, <2>3, <3>1
      <3>3. SubSeq(s, 1, n + 1) \o <<s[n + 2]>> = SubSeq(s, 1, n + 2)
        BY <1>1, <3>1
      <3>. QED
        BY <3>2, <3>3
    <2>. HIDE DEF J
    <2>4. Len(s) - 1 \in J
      BY <1>1, <1>5, <2>2, <2>3, Counting
    <2>5. all[Len(s)] = SubSeq(s, 1, Len(s))
      BY <1>1, <1>5, <2>4 DEF J
    <2>6. FlattenSeq(ss) = s
      BY <1>1, <1>2, <2>1, <2>5, PrefixMembers
    <2>. QED
      BY <2>6 DEF Where, ss
  <1>. QED
    BY <1>1, <1>4, <1>5

-----------------------------------------------------------------------------
(***************************************************************************)
(* What a rule reports                                                     *)
(***************************************************************************)

\* A view holds the tags of all resources.
IsView(v, resources) == DOMAIN v.tags = resources /\ \A r \in resources : IsTagSet(v.tags[r])

LEMMA RestrictTags ==
    ASSUME NEW ts, IsTagSet(ts), NEW S, S \subseteq DOMAIN ts
    PROVE  /\ IsTagSet(Restrict(ts, S)) /\ DOMAIN Restrict(ts, S) = S
           /\ \A k \in S : Restrict(ts, S)[k] = ts[k]
BY DEF IsTagSet, Restrict

LEMMA PropagatedTags ==
    ASSUME NEW ts, IsTagSet(ts)
    PROVE  /\ IsTagSet(propagated_keys(ts)) /\ DOMAIN propagated_keys(ts) \subseteq DOMAIN ts
           /\ \A k \in DOMAIN propagated_keys(ts) : propagated_keys(ts)[k] = ts[k]
  <1>1. ASSUME NEW S, S \subseteq DOMAIN ts, propagated_keys(ts) = Restrict(ts, S)
        PROVE  /\ IsTagSet(propagated_keys(ts)) /\ DOMAIN propagated_keys(ts) \subseteq DOMAIN ts
               /\ \A k \in DOMAIN propagated_keys(ts) : propagated_keys(ts)[k] = ts[k]
    BY <1>1, RestrictTags
  <1>2. \E S \in SUBSET DOMAIN ts : propagated_keys(ts) = Restrict(ts, S)
    BY DEF propagated_keys
  <1>. QED
    BY <1>1, <1>2

\* A parent is reported with its tags, and what is wrong with its configuration.
GoodRel(rel) ==
    /\ IsTagSet(rel.tags) /\ IsSeq(rel.children)
    /\ IsFiniteSet(rel.config) /\ \A op \in rel.config : IsTagSet(op.tags)

\* The two sides of a gap: what the parent has and the child should have, and
\* what the child has instead.
ParentHas(ts, g) == g.key \in DOMAIN propagated_keys(ts) /\ ts[g.key] = g.want
ChildHas(ts, g) ==
    IF g.have = None THEN g.key \notin DOMAIN ts ELSE g.key \in DOMAIN ts /\ ts[g.key] = g.have
GapIn(v, g) ==
    /\ ParentHas(v.tags[g.pair.parent], g) /\ ChildHas(v.tags[g.pair.child], g)
    /\ g.have # g.want

\* A rule shows the gap of a child: it reports the child with its parent, each
\* with tags in which the gap is seen.
Shows(rel, g) ==
    /\ rel.parent = g.pair.parent /\ ParentHas(rel.tags, g)
    /\ \E k \in ToSet(rel.children) : k.arn = g.pair.child /\ ChildHas(k.tags, g)

Reports(rels, rule, w, first, second) ==
    /\ IsSeq(rels) /\ \A rel \in ToSet(rels) : GoodRel(rel)
    /\ \A g : IsChild(rule, w, g.pair.parent, g.pair.child) /\ GapIn(first, g) /\ GapIn(second, g)
                 => \E rel \in ToSet(rels) : Shows(rel, g)

\* It is enough that the parents are listed and that each is reported well.
LEMMA ListReports ==
    ASSUME NEW ps, IsSeq(ps), NEW rels, DOMAIN rels = DOMAIN ps, rels = [i \in DOMAIN ps |-> rels[i]],
           \A i \in DOMAIN ps : GoodRel(rels[i]),
           NEW rule, NEW w, NEW first, NEW second,
           ASSUME NEW g, IsChild(rule, w, g.pair.parent, g.pair.child), GapIn(first, g), GapIn(second, g)
           PROVE  /\ g.pair.parent \in ToSet(ps)
                  /\ \A i \in DOMAIN ps : ps[i] = g.pair.parent => Shows(rels[i], g)
    PROVE  Reports(rels, rule, w, first, second)
  <1>1. IsSeq(rels)
    BY SeqFacts, ListIsSeq
  <1>2. \A rel \in ToSet(rels) : GoodRel(rel)
    BY DEF ToSet
  <1>3. ASSUME NEW g, IsChild(rule, w, g.pair.parent, g.pair.child), GapIn(first, g), GapIn(second, g)
        PROVE  \E rel \in ToSet(rels) : Shows(rel, g)
    <2>1. PICK i \in DOMAIN ps : ps[i] = g.pair.parent
      BY <1>3 DEF ToSet
    <2>2. Shows(rels[i], g) /\ rels[i] \in ToSet(rels)
      BY <1>3, <2>1 DEF ToSet
    <2>. QED
      BY <2>2
  <1>. QED
    BY <1>1, <1>2, <1>3 DEF Reports

LEMMA ListedMembers ==
    ASSUME NEW w, IsSeq(w), NEW kinds
    PROVE  IsSeq(Listed(w, kinds)) /\ ToSet(Listed(w, kinds)) = {r \in ToSet(w) : r.kind \in kinds}
BY WhereMembers DEF Listed

LEMMA AttachedMembers ==
    ASSUME NEW w, IsSeq(w), NEW p, NEW kinds
    PROVE  /\ IsSeq(Attached(w, p, kinds))
           /\ ToSet(Attached(w, p, kinds)) = {r \in ToSet(w) : r.kind \in kinds /\ p.name \in r.of}
BY WhereMembers DEF Attached

LEMMA SeenMembers ==
    ASSUME NEW rs, IsSeq(rs), NEW view
    PROVE  /\ IsSeq(Seen(rs, view))
           /\ \A r \in ToSet(rs) : [arn |-> r, tags |-> view.tags[r]] \in ToSet(Seen(rs, view))
  <1>1. IsSeq(Seen(rs, view))
    BY SeqFacts, ListIsSeq DEF Seen
  <1>2. ASSUME NEW i \in DOMAIN rs
        PROVE  [arn |-> rs[i], tags |-> view.tags[rs[i]]] \in ToSet(Seen(rs, view))
    <2>1. Seen(rs, view)[i] = [arn |-> rs[i], tags |-> view.tags[rs[i]]] /\ i \in DOMAIN Seen(rs, view)
      BY DEF Seen
    <2>. QED
      BY <2>1 DEF ToSet
  <1>. QED
    BY <1>1, <1>2 DEF ToSet

\* Parents that are reported with the children of a list, seen in one view.
LEMMA RelOfList ==
    ASSUME NEW p, NEW kids, IsSeq(kids), NEW pview, NEW cview, IsTagSet(pview.tags[p])
    PROVE  /\ GoodRel(_rel(p, pview, Seen(kids, cview)))
           /\ \A g : /\ g.pair.parent = p /\ g.pair.child \in ToSet(kids)
                     /\ GapIn(pview, g) /\ GapIn(cview, g)
                     => Shows(_rel(p, pview, Seen(kids, cview)), g)
  <1> DEFINE rel == _rel(p, pview, Seen(kids, cview))
  <1>1. /\ rel.parent = p /\ rel.tags = pview.tags[p] /\ rel.children = Seen(kids, cview)
        /\ rel.config = {}
    BY DEF _rel
  <1>. HIDE DEF rel
  <1>2. GoodRel(rel)
    BY <1>1, SeenMembers, FS_EmptySet DEF GoodRel
  <1>3. ASSUME NEW g, g.pair.parent = p, g.pair.child \in ToSet(kids), GapIn(pview, g), GapIn(cview, g)
        PROVE  Shows(rel, g)
    <2> DEFINE k == [arn |-> g.pair.child, tags |-> cview.tags[g.pair.child]]
    <2>1. k \in ToSet(Seen(kids, cview))
      BY <1>3, SeenMembers
    <2>2. k.arn = g.pair.child /\ ChildHas(k.tags, g)
      BY <1>3 DEF GapIn
    <2>. HIDE DEF k
    <2>. QED
      BY <1>1, <1>3, <2>1, <2>2 DEF Shows, GapIn
  <1>. QED
    BY <1>2, <1>3 DEF rel

\* Most rules describe all parents in one view and all children in one view.
Plain(rels, rule, w, ps, pview, kids, cview) ==
    /\ IsSeq(ps) /\ DOMAIN rels = DOMAIN ps /\ rels = [i \in DOMAIN ps |-> rels[i]]
    /\ \A i \in DOMAIN ps : /\ rels[i] = _rel(ps[i], pview, Seen(kids[i], cview))
                           /\ IsSeq(kids[i]) /\ IsTagSet(pview.tags[ps[i]])
    /\ \A g : IsChild(rule, w, g.pair.parent, g.pair.child) =>
                  /\ g.pair.parent \in ToSet(ps)
                  /\ \A i \in DOMAIN ps : ps[i] = g.pair.parent => g.pair.child \in ToSet(kids[i])

LEMMA PlainReports ==
    ASSUME NEW rels, NEW rule, NEW w, NEW ps, NEW pview, NEW kids, NEW cview,
           Plain(rels, rule, w, ps, pview, kids, cview),
           NEW first, NEW second, pview \in {first, second}, cview \in {first, second}
    PROVE  Reports(rels, rule, w, first, second)
  <1>. USE DEF Plain
  <1>1. \A i \in DOMAIN ps : GoodRel(rels[i])
    BY RelOfList
  <1>2. ASSUME NEW g, IsChild(rule, w, g.pair.parent, g.pair.child), GapIn(first, g), GapIn(second, g)
        PROVE  /\ g.pair.parent \in ToSet(ps)
               /\ \A i \in DOMAIN ps : ps[i] = g.pair.parent => Shows(rels[i], g)
    <2>1. /\ g.pair.parent \in ToSet(ps)
          /\ \A i \in DOMAIN ps : ps[i] = g.pair.parent => g.pair.child \in ToSet(kids[i])
      BY <1>2
    <2>. QED
      BY <1>2, <2>1, RelOfList
  <1>. QED
    BY <1>1, <1>2, ListReports

LEMMA VpcReports ==
    ASSUME NEW resources, NEW w \in Seq(resources), NEW first, NEW second,
           IsView(first, resources), IsView(second, resources)
    PROVE  Reports(_vpc(w, first, second), "vpc", w, first, second)
  <1> DEFINE Kids(p) == Where(Attached(w, p, VpcKinds),
                              {r \in ToSet(w) : r.kind = "natgateway" => r.state # "deleted"})
             ps == Listed(w, {"vpc"})
             kids == [i \in DOMAIN ps |-> Kids(ps[i])]
             rels == _vpc(w, first, second)
  <1>1. IsSeq(w) /\ ToSet(w) \subseteq resources
    BY SeqIsSeq
  <1>2. ASSUME NEW p
        PROVE  /\ IsSeq(Kids(p))
               /\ ToSet(Kids(p)) = {r \in ToSet(w) : /\ r.kind \in VpcKinds /\ p.name \in r.of
                                                     /\ r.kind = "natgateway" => r.state # "deleted"}
    BY <1>1, AttachedMembers, WhereMembers DEF Live
  <1>3. IsSeq(ps) /\ ToSet(ps) = {r \in ToSet(w) : r.kind \in {"vpc"}}
    BY <1>1, ListedMembers
  <1>. HIDE DEF Kids, ps
  <1>4. \A i \in DOMAIN ps : IsSeq(kids[i]) /\ IsTagSet(first.tags[ps[i]])
    BY <1>1, <1>2, <1>3 DEF ToSet, IsView
  <1>5. ASSUME NEW g, IsChild("vpc", w, g.pair.parent, g.pair.child)
        PROVE  /\ g.pair.parent \in ToSet(ps)
               /\ \A i \in DOMAIN ps : ps[i] = g.pair.parent => g.pair.child \in ToSet(kids[i])
    BY <1>2, <1>3, <1>5 DEF IsChild
  <1>6. /\ DOMAIN rels = DOMAIN ps /\ rels = [i \in DOMAIN ps |-> rels[i]]
        /\ \A i \in DOMAIN ps : rels[i] = _rel(ps[i], first, Seen(kids[i], second))
    BY DEF _vpc, Kids, ps
  <1>. HIDE DEF kids, rels
  <1>7. Plain(rels, "vpc", w, ps, first, kids, second)
    BY <1>3, <1>4, <1>5, <1>6 DEF Plain
  <1>. QED
    BY <1>7, PlainReports DEF rels

LEMMA EbsVolumeReports ==
    ASSUME NEW resources, NEW w \in Seq(resources), NEW first, NEW second,
           IsView(first, resources), IsView(second, resources)
    PROVE  Reports(_ebs_volume(w, first, second), "ebs_volume", w, first, second)
  <1> DEFINE Kids(p) == Attached(w, p, {"snapshot"})
             ps == Where(Listed(w, {"volume"}), {v \in ToSet(w) : Attached(w, v, {"snapshot"}) # <<>>})
             kids == [i \in DOMAIN ps |-> Kids(ps[i])]
             rels == _ebs_volume(w, first, second)
  <1>1. IsSeq(w) /\ ToSet(w) \subseteq resources
    BY SeqIsSeq
  <1>2. ASSUME NEW p
        PROVE  /\ IsSeq(Kids(p))
               /\ ToSet(Kids(p)) = {r \in ToSet(w) : r.kind \in {"snapshot"} /\ p.name \in r.of}
    BY <1>1, AttachedMembers, WhereMembers DEF Live
  <1>3. IsSeq(ps) /\ ToSet(ps) = {r \in ToSet(w) : r.kind \in {"volume"} /\ Attached(w, r, {"snapshot"}) # <<>>}
    BY <1>1, ListedMembers, WhereMembers
  <1>. HIDE DEF Kids, ps
  <1>4. \A i \in DOMAIN ps : IsSeq(kids[i]) /\ IsTagSet(first.tags[ps[i]])
    BY <1>1, <1>2, <1>3 DEF ToSet, IsView
  <1>5. ASSUME NEW g, IsChild("ebs_volume", w, g.pair.parent, g.pair.child)
        PROVE  /\ g.pair.parent \in ToSet(ps)
               /\ \A i \in DOMAIN ps : ps[i] = g.pair.parent => g.pair.child \in ToSet(kids[i])
    <2>1. g.pair.child \in ToSet(Kids(g.pair.parent))
      BY <1>2, <1>5 DEF IsChild
    <2>2. ToSet(<<>>) = {}
      BY DEF ToSet
    <2>3. Attached(w, g.pair.parent, {"snapshot"}) # <<>>
      BY <2>1, <2>2 DEF Kids
    <2>. QED
      BY <1>2, <1>3, <1>5, <2>1, <2>3 DEF IsChild
  <1>6. /\ DOMAIN rels = DOMAIN ps /\ rels = [i \in DOMAIN ps |-> rels[i]]
        /\ \A i \in DOMAIN ps : rels[i] = _rel(ps[i], first, Seen(kids[i], second))
    BY DEF _ebs_volume, Kids, ps
  <1>. HIDE DEF kids, rels
  <1>7. Plain(rels, "ebs_volume", w, ps, first, kids, second)
    BY <1>3, <1>4, <1>5, <1>6 DEF Plain
  <1>. QED
    BY <1>7, PlainReports DEF rels

LEMMA CloudformationReports ==
    ASSUME NEW resources, NEW w \in Seq(resources), NEW first, NEW second,
           IsView(first, resources), IsView(second, resources)
    PROVE  Reports(_cloudformation(w, first, second), "cloudformation", w, first, second)
  <1> DEFINE Kids(p) == Where(w, {r \in ToSet(w) : r.kind # "stack" /\ p.name \in r.of})
             ps == Where(Listed(w, {"stack"}), Live(w, "deleted"))
             kids == [i \in DOMAIN ps |-> Kids(ps[i])]
             rels == _cloudformation(w, first, second)
  <1>1. IsSeq(w) /\ ToSet(w) \subseteq resources
    BY SeqIsSeq
  <1>2. ASSUME NEW p
        PROVE  /\ IsSeq(Kids(p))
               /\ ToSet(Kids(p)) = {r \in ToSet(w) : r.kind # "stack" /\ p.name \in r.of}
    BY <1>1, AttachedMembers, WhereMembers DEF Live
  <1>3. IsSeq(ps) /\ ToSet(ps) = {r \in ToSet(w) : r.kind \in {"stack"} /\ r.state # "deleted"}
    BY <1>1, ListedMembers, WhereMembers DEF Live
  <1>. HIDE DEF Kids, ps
  <1>4. \A i \in DOMAIN ps : IsSeq(kids[i]) /\ IsTagSet(second.tags[ps[i]])
    BY <1>1, <1>2, <1>3 DEF ToSet, IsView
  <1>5. ASSUME NEW g, IsChild("cloudformation", w, g.pair.parent, g.pair.child)
        PROVE  /\ g.pair.parent \in ToSet(ps)
               /\ \A i \in DOMAIN ps : ps[i] = g.pair.parent => g.pair.child \in ToSet(kids[i])
    BY <1>2, <1>3, <1>5 DEF IsChild
  <1>6. /\ DOMAIN rels = DOMAIN ps /\ rels = [i \in DOMAIN ps |-> rels[i]]
        /\ \A i \in DOMAIN ps : rels[i] = _rel(ps[i], second, Seen(kids[i], first))
    BY DEF _cloudformation, Kids, ps
  <1>. HIDE DEF kids, rels
  <1>7. Plain(rels, "cloudformation", w, ps, second, kids, first)
    BY <1>3, <1>4, <1>5, <1>6 DEF Plain
  <1>. QED
    BY <1>7, PlainReports DEF rels

LEMMA RdsClusterReports ==
    ASSUME NEW resources, NEW w \in Seq(resources), NEW first, NEW second,
           IsView(first, resources), IsView(second, resources)
    PROVE  Reports(_rds_cluster(w, first, second), "rds_cluster", w, first, second)
  <1> DEFINE Kids(p) == Where(Attached(w, p, {"db"}), Live(w, "gone"))
             ps == Listed(w, {"dbcluster"})
             kids == [i \in DOMAIN ps |-> Kids(ps[i])]
             rels == _rds_cluster(w, first, second)
  <1>1. IsSeq(w) /\ ToSet(w) \subseteq resources
    BY SeqIsSeq
  <1>2. ASSUME NEW p
        PROVE  /\ IsSeq(Kids(p))
               /\ ToSet(Kids(p)) = {r \in ToSet(w) : r.kind \in {"db"} /\ p.name \in r.of /\ r.state # "gone"}
    BY <1>1, AttachedMembers, WhereMembers DEF Live
  <1>3. IsSeq(ps) /\ ToSet(ps) = {r \in ToSet(w) : r.kind \in {"dbcluster"}}
    BY <1>1, ListedMembers
  <1>. HIDE DEF Kids, ps
  <1>4. \A i \in DOMAIN ps : IsSeq(kids[i]) /\ IsTagSet(second.tags[ps[i]])
    BY <1>1, <1>2, <1>3 DEF ToSet, IsView
  <1>5. ASSUME NEW g, IsChild("rds_cluster", w, g.pair.parent, g.pair.child)
        PROVE  /\ g.pair.parent \in ToSet(ps)
               /\ \A i \in DOMAIN ps : ps[i] = g.pair.parent => g.pair.child \in ToSet(kids[i])
    BY <1>2, <1>3, <1>5 DEF IsChild
  <1>6. /\ DOMAIN rels = DOMAIN ps /\ rels = [i \in DOMAIN ps |-> rels[i]]
        /\ \A i \in DOMAIN ps : rels[i] = _rel(ps[i], second, Seen(kids[i], first))
    BY DEF _rds_cluster, Kids, ps
  <1>. HIDE DEF kids, rels
  <1>7. Plain(rels, "rds_cluster", w, ps, second, kids, first)
    BY <1>3, <1>4, <1>5, <1>6 DEF Plain
  <1>. QED
    BY <1>7, PlainReports DEF rels

LEMMA EksClusterReports ==
    ASSUME NEW resources, NEW w \in Seq(resources), NEW first, NEW second,
           IsView(first, resources), IsView(second, resources)
    PROVE  Reports(_eks_cluster(w, first, second), "eks_cluster", w, first, second)
  <1> DEFINE Kids(p) == Attached(w, p, {"nodegroup"})
             ps == Listed(w, {"ekscluster"})
             kids == [i \in DOMAIN ps |-> Kids(ps[i])]
             rels == _eks_cluster(w, first, second)
  <1>1. IsSeq(w) /\ ToSet(w) \subseteq resources
    BY SeqIsSeq
  <1>2. ASSUME NEW p
        PROVE  /\ IsSeq(Kids(p))
               /\ ToSet(Kids(p)) = {r \in ToSet(w) : r.kind \in {"nodegroup"} /\ p.name \in r.of}
    BY <1>1, AttachedMembers, WhereMembers DEF Live
  <1>3. IsSeq(ps) /\ ToSet(ps) = {r \in ToSet(w) : r.kind \in {"ekscluster"}}
    BY <1>1, ListedMembers
  <1>. HIDE DEF Kids, ps
  <1>4. \A i \in DOMAIN ps : IsSeq(kids[i]) /\ IsTagSet(first.tags[ps[i]])
    BY <1>1, <1>2, <1>3 DEF ToSet, IsView
  <1>5. ASSUME NEW g, IsChild("eks_cluster", w, g.pair.parent, g.pair.child)
        PROVE  /\ g.pair.parent \in ToSet(ps)
               /\ \A i \in DOMAIN ps : ps[i] = g.pair.parent => g.pair.child \in ToSet(kids[i])
    BY <1>2, <1>3, <1>5 DEF IsChild
  <1>6. /\ DOMAIN rels = DOMAIN ps /\ rels = [i \in DOMAIN ps |-> rels[i]]
        /\ \A i \in DOMAIN ps : rels[i] = _rel(ps[i], first, Seen(kids[i], second))
    BY DEF _eks_cluster, Kids, ps
  <1>. HIDE DEF kids, rels
  <1>7. Plain(rels, "eks_cluster", w, ps, first, kids, second)
    BY <1>3, <1>4, <1>5, <1>6 DEF Plain
  <1>. QED
    BY <1>7, PlainReports DEF rels

LEMMA Elbv2Reports ==
    ASSUME NEW resources, NEW w \in Seq(resources), NEW first, NEW second,
           IsView(first, resources), IsView(second, resources)
    PROVE  Reports(_elbv2(w, first, second), "elbv2", w, first, second)
  <1> DEFINE Kids(p) == Attached(w, p, {"targetgroup"})
             ps == Listed(w, {"loadbalancer"})
             kids == [i \in DOMAIN ps |-> Kids(ps[i])]
             rels == _elbv2(w, first, second)
  <1>1. IsSeq(w) /\ ToSet(w) \subseteq resources
    BY SeqIsSeq
  <1>2. ASSUME NEW p
        PROVE  /\ IsSeq(Kids(p))
               /\ ToSet(Kids(p)) = {r \in ToSet(w) : r.kind \in {"targetgroup"} /\ p.name \in r.of}
    BY <1>1, AttachedMembers, WhereMembers DEF Live
  <1>3. IsSeq(ps) /\ ToSet(ps) = {r \in ToSet(w) : r.kind \in {"loadbalancer"}}
    BY <1>1, ListedMembers
  <1>. HIDE DEF Kids, ps
  <1>4. \A i \in DOMAIN ps : IsSeq(kids[i]) /\ IsTagSet(second.tags[ps[i]])
    BY <1>1, <1>2, <1>3 DEF ToSet, IsView
  <1>5. ASSUME NEW g, IsChild("elbv2", w, g.pair.parent, g.pair.child)
        PROVE  /\ g.pair.parent \in ToSet(ps)
               /\ \A i \in DOMAIN ps : ps[i] = g.pair.parent => g.pair.child \in ToSet(kids[i])
    BY <1>2, <1>3, <1>5 DEF IsChild
  <1>6. /\ DOMAIN rels = DOMAIN ps /\ rels = [i \in DOMAIN ps |-> rels[i]]
        /\ \A i \in DOMAIN ps : rels[i] = _rel(ps[i], second, Seen(kids[i], second))
    BY DEF _elbv2, Kids, ps
  <1>. HIDE DEF kids, rels
  <1>7. Plain(rels, "elbv2", w, ps, second, kids, second)
    BY <1>3, <1>4, <1>5, <1>6 DEF Plain
  <1>. QED
    BY <1>7, PlainReports DEF rels

\* Of what is attached to an instance, what was described is shown.
LEMMA Ec2InstanceReports ==
    ASSUME NEW resources, NEW w \in Seq(resources), NEW first, NEW second,
           IsView(first, resources), IsView(second, resources)
    PROVE  Reports(_ec2_instance(w, first, second), "ec2_instance", w, first, second)
  <1> DEFINE Devices(p) == Attached(w, p, {"volume", "network-interface"})
             Kid(r) == [arn |-> r, tags |-> IF r.state = "gone" THEN NoTags ELSE first.tags[r]]
             Kids(p) == [j \in DOMAIN Devices(p) |-> Kid(Devices(p)[j])]
             ps == _instances(w)
             rels == _ec2_instance(w, first, second)
  <1>1. IsSeq(w) /\ ToSet(w) \subseteq resources
    BY SeqIsSeq
  <1>2. ASSUME NEW p
        PROVE  /\ IsSeq(Devices(p))
               /\ ToSet(Devices(p)) = {r \in ToSet(w) : /\ r.kind \in {"volume", "network-interface"}
                                                        /\ p.name \in r.of}
    BY <1>1, AttachedMembers
  <1>. HIDE DEF Devices
  <1>3. ASSUME NEW p
        PROVE  IsSeq(Kids(p))
    BY <1>2, SeqFacts, ListIsSeq
  <1>4. ASSUME NEW p
        PROVE  \A r \in ToSet(Devices(p)) : Kid(r) \in ToSet(Kids(p))
    BY DEF ToSet
  <1>5. IsSeq(ps) /\ ToSet(ps) = {r \in ToSet(w) : r.kind \in {"instance"} /\ r.state # "terminated"}
    BY <1>1, ListedMembers, WhereMembers DEF Live, _instances
  <1>6. /\ DOMAIN rels = DOMAIN ps /\ rels = [i \in DOMAIN ps |-> rels[i]]
        /\ \A i \in DOMAIN ps : rels[i] = _rel(ps[i], second, Kids(ps[i]))
    BY DEF _ec2_instance, Devices
  <1>. HIDE DEF Kids, ps, rels
  <1>7. \A i \in DOMAIN ps : ps[i] \in ToSet(ps) /\ IsTagSet(second.tags[ps[i]])
    BY <1>1, <1>5 DEF ToSet, IsView
  <1>8. \A i \in DOMAIN ps : /\ rels[i].parent = ps[i] /\ rels[i].tags = second.tags[ps[i]]
                             /\ rels[i].children = Kids(ps[i]) /\ rels[i].config = {}
    BY <1>6 DEF _rel
  <1>9. ASSUME NEW i \in DOMAIN ps PROVE GoodRel(rels[i])
    <2>1. IsSeq(rels[i].children) /\ IsTagSet(rels[i].tags) /\ rels[i].config = {}
      BY <1>3, <1>7, <1>8
    <2>. QED
      BY <2>1, SmallSets DEF GoodRel
  <1>10. ASSUME NEW g, IsChild("ec2_instance", w, g.pair.parent, g.pair.child),
               GapIn(first, g), GapIn(second, g)
        PROVE  /\ g.pair.parent \in ToSet(ps)
               /\ \A i \in DOMAIN ps : ps[i] = g.pair.parent => Shows(rels[i], g)
    <2>1. /\ g.pair.parent \in ToSet(ps) /\ g.pair.child \in ToSet(Devices(g.pair.parent))
          /\ g.pair.child.state # "gone"
      BY <1>2, <1>5, <1>10 DEF IsChild
    <2>2. Kid(g.pair.child) \in ToSet(Kids(g.pair.parent))
      BY <1>4, <2>1
    <2>3. Kid(g.pair.child).arn = g.pair.child /\ ChildHas(Kid(g.pair.child).tags, g)
      BY <1>10, <2>1 DEF GapIn
    <2>. HIDE DEF Kid
    <2>. QED
      BY <1>8, <1>10, <2>1, <2>2, <2>3 DEF Shows, GapIn
  <1>11. Reports(rels, "ec2_instance", w, first, second)
    BY <1>5, <1>6, <1>9, <1>10, ListReports
  <1>. QED
    BY <1>11 DEF rels

\* The instances of a group that still run are shown.
LEMMA AsgReports ==
    ASSUME NEW resources, NEW w \in Seq(resources), NEW first, NEW second,
           IsView(first, resources), IsView(second, resources)
    PROVE  Reports(_asg(w, first, second), "asg", w, first, second)
  <1> DEFINE Instances(p) == Attached(w, p, {"instance"})
             Kid(r) == IF r \in ToSet(_instances(w)) THEN [arn |-> r, tags |-> first.tags[r]]
                       ELSE [arn |-> NoAccount(r), tags |-> NoTags]
             Kids(p) == [j \in DOMAIN Instances(p) |-> Kid(Instances(p)[j])]
             off(p) == DOMAIN propagated_keys(second.tags[p]) \ second.on[p]
             Config(p) == IF off(p) = {} THEN {}
                          ELSE {[op |-> "asg_propagate", target |-> p,
                                 tags |-> Restrict(second.tags[p], off(p))]}
             ps == Listed(w, {"asg"})
             rels == _asg(w, first, second)
  <1>1. IsSeq(w) /\ ToSet(w) \subseteq resources
    BY SeqIsSeq
  <1>2. ASSUME NEW p
        PROVE  /\ IsSeq(Instances(p))
               /\ ToSet(Instances(p)) = {r \in ToSet(w) : r.kind \in {"instance"} /\ p.name \in r.of}
    BY <1>1, AttachedMembers
  <1>. HIDE DEF Instances
  <1>3. ASSUME NEW p
        PROVE  IsSeq(Kids(p))
    BY <1>2, SeqFacts, ListIsSeq
  <1>4. ASSUME NEW p
        PROVE  \A r \in ToSet(Instances(p)) : Kid(r) \in ToSet(Kids(p))
    BY DEF ToSet
  <1>5. IsSeq(ps) /\ ToSet(ps) = {r \in ToSet(w) : r.kind \in {"asg"}}
    BY <1>1, ListedMembers
  <1>6. /\ DOMAIN rels = DOMAIN ps /\ rels = [i \in DOMAIN ps |-> rels[i]]
        /\ \A i \in DOMAIN ps : rels[i] =
             [_rel(ps[i], second, Kids(ps[i])) EXCEPT !.config = Config(ps[i])]
    BY DEF _asg, Instances
  <1>. HIDE DEF Kids, ps, rels, Config
  <1>7. \A i \in DOMAIN ps : ps[i] \in ToSet(ps) /\ IsTagSet(second.tags[ps[i]])
    BY <1>1, <1>5 DEF ToSet, IsView
  <1>8. ASSUME NEW i \in DOMAIN ps
        PROVE  /\ rels[i].parent = ps[i] /\ rels[i].tags = second.tags[ps[i]]
               /\ rels[i].children = Kids(ps[i]) /\ rels[i].config = Config(ps[i])
    <2>1. rels[i] = [_rel(ps[i], second, Kids(ps[i])) EXCEPT !.config = Config(ps[i])]
      BY <1>6
    <2>. HIDE DEF Kids, Config
    <2>. QED
      BY <2>1 DEF _rel
  <1>9. ASSUME NEW i \in DOMAIN ps PROVE GoodRel(rels[i])
    <2>1. off(ps[i]) \subseteq DOMAIN second.tags[ps[i]]
      BY <1>7, PropagatedTags
    <2>2. IsTagSet(Restrict(second.tags[ps[i]], off(ps[i])))
      BY <1>7, <2>1, RestrictTags
    <2>. HIDE DEF off
    <2>3. IsFiniteSet(Config(ps[i])) /\ \A op \in Config(ps[i]) : IsTagSet(op.tags)
      <3> DEFINE op == [op |-> "asg_propagate", target |-> ps[i],
                        tags |-> Restrict(second.tags[ps[i]], off(ps[i]))]
      <3>1. Config(ps[i]) \in {{}, {op}} /\ IsTagSet(op.tags)
        BY <2>2 DEF Config
      <3>. HIDE DEF op
      <3>. QED
        BY <3>1, SmallSets
    <2>. QED
      BY <1>3, <1>7, <1>8, <2>3 DEF GoodRel
  <1>. HIDE DEF off
  <1>10. ASSUME NEW g, IsChild("asg", w, g.pair.parent, g.pair.child), GapIn(first, g), GapIn(second, g)
        PROVE  /\ g.pair.parent \in ToSet(ps)
               /\ \A i \in DOMAIN ps : ps[i] = g.pair.parent => Shows(rels[i], g)
    <2>1. g.pair.parent \in ToSet(ps) /\ g.pair.child \in ToSet(Instances(g.pair.parent))
      BY <1>2, <1>5, <1>10 DEF IsChild
    <2>2. g.pair.child \in ToSet(_instances(w))
      BY <1>1, <1>10, ListedMembers, WhereMembers DEF IsChild, Live, _instances
    <2>3. Kid(g.pair.child) \in ToSet(Kids(g.pair.parent))
      BY <1>4, <2>1
    <2>4. Kid(g.pair.child).arn = g.pair.child /\ ChildHas(Kid(g.pair.child).tags, g)
      BY <1>10, <2>2 DEF GapIn
    <2>. HIDE DEF Kid
    <2>. QED
      BY <1>8, <1>10, <2>1, <2>3, <2>4 DEF Shows, GapIn
  <1>11. Reports(rels, "asg", w, first, second)
    BY <1>5, <1>6, <1>9, <1>10, ListReports
  <1>. QED
    BY <1>11 DEF rels

\* The tasks of a service are shown when there are no more than are looked at.
LEMMA EcsServiceReports ==
    ASSUME NEW resources, NEW w \in Seq(resources), NEW first, NEW second,
           IsView(first, resources), IsView(second, resources)
    PROVE  Reports(_ecs_service(w, first, second), "ecs_service", w, first, second)
  <1> DEFINE Tasked(p) == Attached(w, p, {"task"})
             Kids(p) == SubSeq(Tasked(p), 1, IF Len(Tasked(p)) < max_tasks THEN Len(Tasked(p)) ELSE max_tasks)
             Config(p) == IF first.on[p] = {} /\ propagated_keys(first.tags[p]) # NoTags
                          THEN {[op |-> "ecs_propagate", target |-> p, tags |-> NoTags]} ELSE {}
             Shown(p) == Seen(Kids(p), second)
             ps == Listed(w, {"service"})
             rels == _ecs_service(w, first, second)
  <1>1. IsSeq(w) /\ ToSet(w) \subseteq resources /\ max_tasks \in Nat
    BY SeqIsSeq, PropagationAssumption
  <1>2. ASSUME NEW p
        PROVE  /\ IsSeq(Tasked(p))
               /\ ToSet(Tasked(p)) = {r \in ToSet(w) : r.kind \in {"task"} /\ p.name \in r.of}
    BY <1>1, AttachedMembers
  <1>3. ASSUME NEW p
        PROVE  IsSeq(Kids(p)) /\ (Len(Tasked(p)) <= max_tasks => Kids(p) = Tasked(p))
    <2>. HIDE DEF Tasked
    <2>1. Len(Tasked(p)) \in Nat
      BY <1>2, SeqFacts
    <2>2. CASE Len(Tasked(p)) < max_tasks
      BY <1>1, <1>2, <2>1, <2>2, PrefixMembers
    <2>3. CASE ~(Len(Tasked(p)) < max_tasks)
      BY <1>1, <1>2, <2>1, <2>3, PrefixMembers
    <2>. QED
      BY <2>2, <2>3
  <1>4. IsSeq(ps) /\ ToSet(ps) = {r \in ToSet(w) : r.kind \in {"service"}}
    BY <1>1, ListedMembers
  <1>5. ASSUME NEW p PROVE IsFiniteSet(Config(p)) /\ \A op \in Config(p) : IsTagSet(op.tags)
    <2> DEFINE op == [op |-> "ecs_propagate", target |-> p, tags |-> NoTags]
    <2>1. IsTagSet(NoTags)
      BY DEF IsTagSet, NoTags
    <2>2. Config(p) \in {{}, {op}} /\ IsTagSet(op.tags)
      BY <2>1
    <2>. HIDE DEF op
    <2>. QED
      BY <2>2, SmallSets
  <1>6. /\ DOMAIN rels = DOMAIN ps /\ rels = [i \in DOMAIN ps |-> rels[i]]
        /\ \A i \in DOMAIN ps : rels[i] =
             [_rel(ps[i], first, Shown(ps[i])) EXCEPT !.config = Config(ps[i])]
    BY DEF _ecs_service
  <1>. HIDE DEF Shown, ps, rels, Config
  <1>7. \A i \in DOMAIN ps : ps[i] \in ToSet(ps) /\ IsTagSet(first.tags[ps[i]])
    BY <1>1, <1>4 DEF ToSet, IsView
  <1>8. ASSUME NEW i \in DOMAIN ps
        PROVE  /\ rels[i].parent = ps[i] /\ rels[i].tags = first.tags[ps[i]]
               /\ rels[i].children = Shown(ps[i]) /\ rels[i].config = Config(ps[i])
    <2>1. rels[i] = [_rel(ps[i], first, Shown(ps[i])) EXCEPT !.config = Config(ps[i])]
      BY <1>6
    <2>. HIDE DEF Shown, Config
    <2>. QED
      BY <2>1 DEF _rel
  <1>. HIDE DEF Kids
  <1>9. ASSUME NEW i \in DOMAIN ps PROVE GoodRel(rels[i])
    <2>1. IsSeq(Shown(ps[i]))
      BY <1>3, SeenMembers DEF Shown
    <2>. QED
      BY <1>5, <1>7, <1>8, <2>1 DEF GoodRel
  <1>10. ASSUME NEW g, IsChild("ecs_service", w, g.pair.parent, g.pair.child),
                GapIn(first, g), GapIn(second, g)
         PROVE  /\ g.pair.parent \in ToSet(ps)
                /\ \A i \in DOMAIN ps : ps[i] = g.pair.parent => Shows(rels[i], g)
    <2>1. g.pair.parent \in ToSet(ps) /\ g.pair.child \in ToSet(Kids(g.pair.parent))
      BY <1>2, <1>3, <1>4, <1>10 DEF IsChild
    <2> DEFINE k == [arn |-> g.pair.child, tags |-> second.tags[g.pair.child]]
    <2>2. k \in ToSet(Shown(g.pair.parent))
      BY <1>3, <2>1, SeenMembers DEF Shown
    <2>3. k.arn = g.pair.child /\ ChildHas(k.tags, g)
      BY <1>10 DEF GapIn
    <2>. HIDE DEF k
    <2>. QED
      BY <1>8, <1>10, <2>1, <2>2, <2>3 DEF Shows, GapIn
  <1>11. Reports(rels, "ecs_service", w, first, second)
    BY <1>4, <1>6, <1>9, <1>10, ListReports
  <1>. QED
    BY <1>11 DEF rels

\* Each function has one child, its log group.
LEMMA LambdaReports ==
    ASSUME NEW resources, NEW w \in Seq(resources), NEW first, NEW second,
           IsView(first, resources), IsView(second, resources)
    PROVE  Reports(_lambda(w, first, second), "lambda", w, first, second)
  <1> DEFINE Kid(f) == [arn |-> LogGroup(f),
                        tags |-> IF LogGroup(f) \in DOMAIN second.tags THEN second.tags[LogGroup(f)] ELSE NoTags]
             ps == Listed(w, {"function"})
             rels == _lambda(w, first, second)
  <1>1. IsSeq(w) /\ ToSet(w) \subseteq resources
    BY SeqIsSeq
  <1>2. ASSUME NEW x PROVE IsSeq(<<x>>) /\ x \in ToSet(<<x>>)
    BY DEF IsSeq, ToSet
  <1>3. IsSeq(ps) /\ ToSet(ps) = {r \in ToSet(w) : r.kind \in {"function"}}
    BY <1>1, ListedMembers
  <1>4. /\ DOMAIN rels = DOMAIN ps /\ rels = [i \in DOMAIN ps |-> rels[i]]
        /\ \A i \in DOMAIN ps : rels[i] = _rel(ps[i], first, <<Kid(ps[i])>>)
    BY DEF _lambda
  <1>5. ASSUME NEW g, IsChild("lambda", w, g.pair.parent, g.pair.child), GapIn(second, g)
        PROVE  Kid(g.pair.parent).arn = g.pair.child /\ ChildHas(Kid(g.pair.parent).tags, g)
    <2>1. g.pair.child = LogGroup(g.pair.parent) /\ g.pair.child \in resources
      BY <1>1, <1>5 DEF IsChild
    <2>2. g.pair.child \in DOMAIN second.tags
      BY <2>1 DEF IsView
    <2>. QED
      BY <1>5, <2>1, <2>2 DEF GapIn
  <1>. HIDE DEF Kid, ps, rels
  <1>6. \A i \in DOMAIN ps : ps[i] \in ToSet(ps) /\ IsTagSet(first.tags[ps[i]])
    BY <1>1, <1>3 DEF ToSet, IsView
  <1>7. \A i \in DOMAIN ps : /\ rels[i].parent = ps[i] /\ rels[i].tags = first.tags[ps[i]]
                             /\ rels[i].children = <<Kid(ps[i])>> /\ rels[i].config = {}
    BY <1>4 DEF _rel
  <1>8. ASSUME NEW i \in DOMAIN ps PROVE GoodRel(rels[i])
    <2>1. IsSeq(rels[i].children) /\ IsTagSet(rels[i].tags) /\ rels[i].config = {}
      BY <1>2, <1>6, <1>7
    <2>. QED
      BY <2>1, SmallSets DEF GoodRel
  <1>9. ASSUME NEW g, IsChild("lambda", w, g.pair.parent, g.pair.child), GapIn(first, g), GapIn(second, g)
        PROVE  /\ g.pair.parent \in ToSet(ps)
               /\ \A i \in DOMAIN ps : ps[i] = g.pair.parent => Shows(rels[i], g)
    <2>1. g.pair.parent \in ToSet(ps)
      BY <1>3, <1>9 DEF IsChild
    <2>2. Kid(g.pair.parent).arn = g.pair.child /\ ChildHas(Kid(g.pair.parent).tags, g)
      BY <1>5, <1>9
    <2>. QED
      BY <1>2, <1>7, <1>9, <2>1, <2>2 DEF Shows, GapIn
  <1>10. Reports(rels, "lambda", w, first, second)
    BY <1>3, <1>4, <1>8, <1>9, ListReports
  <1>. QED
    BY <1>10 DEF rels

\* Every rule shows the gaps of its children, whatever happens between its two
\* views, when the gap is in both.
LEMMA RulesReport ==
    ASSUME NEW resources, NEW w \in Seq(resources), NEW first, NEW second,
           IsView(first, resources), IsView(second, resources), NEW rule \in RuleNames
    PROVE  Reports(RULES(rule, w, first, second), rule, w, first, second)
BY VpcReports, Ec2InstanceReports, EbsVolumeReports, AsgReports, EcsServiceReports,
   CloudformationReports, RdsClusterReports, EksClusterReports, Elbv2Reports, LambdaReports
   DEF RULES, RuleNames

-----------------------------------------------------------------------------
(***************************************************************************)
(* Findings                                                                *)
(***************************************************************************)

\* What a fix takes from a finding is tags.
GoodFinding(f) ==
    /\ IsTagSet(f.missing) /\ IsTagSet(f.mismatched)
    /\ IsConfig(f) => IsTagSet(f.op.tags)

Answers(f, g) ==
    /\ f.id = [rule |-> g.pair.rule, parent |-> g.pair.parent, child |-> g.pair.child]
    /\ g.key \in DOMAIN (IF g.have = None THEN f.missing ELSE f.mismatched)

LEMMA EmptyTags == IsTagSet(NoTags) /\ DOMAIN NoTags = {}
BY DEF IsTagSet, NoTags

LEMMA Differences ==
    ASSUME NEW expected, IsTagSet(expected), NEW have
    PROVE  /\ IsTagSet(missing(expected, have)) /\ IsTagSet(mismatched(expected, have))
           /\ DOMAIN missing(expected, have) = DOMAIN expected \ DOMAIN have
           /\ DOMAIN mismatched(expected, have) =
                 {k \in DOMAIN expected \cap DOMAIN have : have[k] # expected[k]}
  <1> DEFINE S == {k \in DOMAIN expected \cap DOMAIN have : have[k] # expected[k]}
  <1>1. S \subseteq DOMAIN expected
    OBVIOUS
  <1>. HIDE DEF S
  <1>2. mismatched(expected, have) = Restrict(expected, S)
    BY DEF mismatched, S
  <1>3. IsTagSet(mismatched(expected, have)) /\ DOMAIN mismatched(expected, have) = S
    BY <1>1, <1>2, RestrictTags
  <1>4. /\ IsTagSet(missing(expected, have))
        /\ DOMAIN missing(expected, have) = DOMAIN expected \ DOMAIN have
    BY RestrictTags DEF missing
  <1>. QED
    BY <1>3, <1>4 DEF S

\* The gaps that a rule shows are among its findings.
LEMMA RelFindingsFacts ==
    ASSUME NEW rule, NEW rel, GoodRel(rel)
    PROVE  /\ IsSeq(RelFindings(rule, rel)) /\ \A f \in ToSet(RelFindings(rule, rel)) : GoodFinding(f)
           /\ \A g : Shows(rel, g) /\ g.have # g.want /\ g.pair.rule = rule
                        => \E f \in ToSet(RelFindings(rule, rel)) : Answers(f, g)
  <1> DEFINE expected == propagated_keys(rel.tags)
             miss(c) == missing(expected, c.tags)
             mis(c) == mismatched(expected, c.tags)
             issues == SetToSeq(rel.config)
             config == [i \in DOMAIN issues |->
                           Finding(rule, rel.parent, rel.parent, NoTags, NoTags, issues[i])]
             Wrong == {c \in ToSet(rel.children) : miss(c) # NoTags \/ mis(c) # NoTags}
             wrong == Where(rel.children, Wrong)
             found == [i \in DOMAIN wrong |->
                           Finding(rule, rel.parent, wrong[i].arn, miss(wrong[i]), mis(wrong[i]), NoTags)]
  <1>1. RelFindings(rule, rel) = config \o found
    BY DEF RelFindings
  <1>2. /\ IsTagSet(rel.tags) /\ IsTagSet(expected) /\ DOMAIN expected \subseteq DOMAIN rel.tags
        /\ \A k \in DOMAIN expected : expected[k] = rel.tags[k]
    BY PropagatedTags DEF GoodRel
  <1>3. IsSeq(issues) /\ ToSet(issues) = rel.config /\ \A op \in rel.config : IsTagSet(op.tags)
    BY SetToSeqMembers DEF GoodRel
  <1>4. IsSeq(wrong) /\ ToSet(wrong) = Wrong
    BY WhereMembers DEF GoodRel
  <1>5. /\ IsSeq(config) /\ DOMAIN config = DOMAIN issues
        /\ IsSeq(found) /\ DOMAIN found = DOMAIN wrong
    BY <1>3, <1>4, SeqFacts, ListIsSeq
  <1>. HIDE DEF expected, issues, wrong
  <1>d. ASSUME NEW c
        PROVE  /\ IsTagSet(miss(c)) /\ IsTagSet(mis(c))
               /\ DOMAIN miss(c) = DOMAIN expected \ DOMAIN c.tags
               /\ DOMAIN mis(c) =
                     {k \in DOMAIN expected \cap DOMAIN c.tags : c.tags[k] # expected[k]}
    <2>1. IsTagSet(expected)
      BY <1>2
    <2>. QED
      BY <2>1, Differences
  <1>6. ASSUME NEW f \in ToSet(config) PROVE GoodFinding(f)
    <2>1. PICK i \in DOMAIN issues : f = Finding(rule, rel.parent, rel.parent, NoTags, NoTags, issues[i])
      BY <1>6 DEF ToSet
    <2>2. issues[i] \in rel.config
      BY <1>3 DEF ToSet
    <2>3. f.missing = NoTags /\ f.mismatched = NoTags /\ f.op = issues[i]
      BY <2>1 DEF Finding
    <2>. QED
      BY <1>3, <2>2, <2>3, EmptyTags DEF GoodFinding
  <1>7. ASSUME NEW i \in DOMAIN wrong
        PROVE  /\ found[i].id = [rule |-> rule, parent |-> rel.parent, child |-> wrong[i].arn]
               /\ found[i].missing = miss(wrong[i]) /\ found[i].mismatched = mis(wrong[i])
               /\ found[i].op = NoTags
    BY <1>7 DEF Finding
  <1>8. ASSUME NEW f \in ToSet(found) PROVE GoodFinding(f)
    <2>1. PICK i \in DOMAIN wrong : f = found[i]
      BY <1>5, <1>8 DEF ToSet
    <2>. HIDE DEF miss, mis, found
    <2>. QED
      BY <1>7, <1>d, <2>1 DEF GoodFinding, IsConfig
  <1>9. ASSUME NEW g, Shows(rel, g), g.have # g.want, g.pair.rule = rule
        PROVE  \E f \in ToSet(found) : Answers(f, g)
    <2>1. PICK k \in ToSet(rel.children) : k.arn = g.pair.child /\ ChildHas(k.tags, g)
      BY <1>9 DEF Shows
    <2>2. g.key \in DOMAIN expected /\ expected[g.key] = g.want
      BY <1>2, <1>9 DEF Shows, ParentHas, expected
    <2>3. g.key \in DOMAIN (IF g.have = None THEN miss(k) ELSE mis(k))
      <3>. HIDE DEF miss, mis
      <3>. QED
        BY <1>d, <1>9, <2>1, <2>2 DEF ChildHas
    <2>4. k \in Wrong
      BY <2>3, EmptyTags
    <2>5. PICK i \in DOMAIN wrong : wrong[i] = k
      BY <1>4, <2>4 DEF ToSet
    <2>6. found[i] \in ToSet(found)
      BY <1>5, <2>5 DEF ToSet
    <2>. HIDE DEF found, miss, mis
    <2>7. Answers(found[i], g)
      BY <1>7, <1>9, <2>1, <2>3, <2>5 DEF Answers, Shows
    <2>. QED
      BY <2>6, <2>7
  <1>. HIDE DEF config, found
  <1>. QED
    BY <1>1, <1>5, <1>6, <1>8, <1>9, ConcatMembers

\* The gaps that the rule shows of the parents listed are found.
LEMMA FindingsFacts ==
    ASSUME NEW rule, NEW rels, IsSeq(rels), \A rel \in ToSet(rels) : GoodRel(rel)
    PROVE  /\ IsSeq(findings_for(rule, rels)) /\ \A f \in ToSet(findings_for(rule, rels)) : GoodFinding(f)
           /\ \A g : /\ \E rel \in ToSet(rels) : Shows(rel, g)
                     /\ g.have # g.want /\ g.pair.rule = rule
                     => \E f \in ToSet(findings_for(rule, rels)) : Answers(f, g)
  <1> DEFINE ss == [i \in DOMAIN rels |-> RelFindings(rule, rels[i])]
  <1>1. IsSeq(ss) /\ DOMAIN ss = DOMAIN rels
    BY SeqFacts, ListIsSeq
  <1>2. \A i \in DOMAIN rels : rels[i] \in ToSet(rels) /\ ss[i] = RelFindings(rule, rels[i])
    BY DEF ToSet
  <1>3. findings_for(rule, rels) = FlattenSeq(ss)
    BY DEF findings_for
  <1>. HIDE DEF ss
  <1>4. \A i \in DOMAIN ss : IsSeq(ss[i]) /\ \A f \in ToSet(ss[i]) : GoodFinding(f)
    BY <1>1, <1>2, RelFindingsFacts
  <1>5. /\ IsSeq(findings_for(rule, rels))
        /\ ToSet(findings_for(rule, rels)) = UNION {ToSet(ss[i]) : i \in DOMAIN ss}
    BY <1>1, <1>3, <1>4, FlattenMembers
  <1>6. \A f : f \in ToSet(findings_for(rule, rels)) <=> \E i \in DOMAIN ss : f \in ToSet(ss[i])
    BY <1>5
  <1>7. ASSUME NEW g, \E rel \in ToSet(rels) : Shows(rel, g), g.have # g.want, g.pair.rule = rule
        PROVE  \E f \in ToSet(findings_for(rule, rels)) : Answers(f, g)
    <2>1. PICK i \in DOMAIN rels : Shows(rels[i], g)
      BY <1>7 DEF ToSet
    <2>2. \E f \in ToSet(ss[i]) : Answers(f, g)
      BY <1>2, <1>7, <2>1, RelFindingsFacts
    <2>. QED
      BY <1>1, <1>6, <2>2
  <1>. QED
    BY <1>4, <1>5, <1>6, <1>7

-----------------------------------------------------------------------------
(***************************************************************************)
(* Plans                                                                   *)
(***************************************************************************)
LEMMA WrittenTagSet ==
    ASSUME NEW ts, IsTagSet(ts), NEW w, IsTagSet(w)
    PROVE  IsTagSet(Written(ts, w))
BY DEF IsTagSet, Written

LEMMA SomeNormalized ==
    ASSUME NEW ts
    PROVE  (CHOOSE n \in normalize(ts) : TRUE) \in normalize(ts)
  <1> DEFINE n == [k \in CanonicalKeys(ts) |-> ts[CHOOSE o \in DOMAIN ts : Canonical(o) = k]]
  <1>1. \A k \in CanonicalKeys(ts) : \E o \in DOMAIN ts : Canonical(o) = k
    BY DEF CanonicalKeys
  <1>2. ASSUME NEW k \in CanonicalKeys(ts)
        PROVE  \E o \in DOMAIN ts : Canonical(o) = k /\ n[k] = ts[o]
    BY <1>1
  <1>3. n \in [CanonicalKeys(ts) -> {ts[o] : o \in DOMAIN ts}] /\ DOMAIN n = CanonicalKeys(ts)
    BY <1>2
  <1>. HIDE DEF n
  <1>4. n \in normalize(ts)
    BY <1>2, <1>3 DEF normalize
  <1>. QED
    BY <1>4

LEMMA AskedTagSet ==
    ASSUME NEW f, GoodFinding(f), NEW overwrite
    PROVE  IsTagSet(Asked(f, overwrite))
BY WrittenTagSet, EmptyTags DEF Asked, GoodFinding

LEMMA FixPlanTags ==
    ASSUME NEW fs, IsSeq(fs), \A f \in ToSet(fs) : GoodFinding(f), NEW overwrite
    PROVE  \A c \in DOMAIN fix_plan(fs, overwrite) : IsTagSet(fix_plan(fs, overwrite)[c])
  <1> DEFINE For(c, k) == {i \in DOMAIN fs : fs[i].id.child = c /\ k \in DOMAIN Asked(fs[i], overwrite)}
             Latest(c, k) == CHOOSE i \in For(c, k) : \A j \in For(c, k) : j <= i
             Of(c) == [k \in {x \in Keys : For(c, x) # {}} |-> Asked(fs[Latest(c, k)], overwrite)[k]]
  <1>1. ASSUME NEW c, NEW k, For(c, k) # {} PROVE Latest(c, k) \in For(c, k)
    <2>1. For(c, k) \subseteq 1..Len(fs) /\ Len(fs) \in Nat
      BY SeqFacts
    <2>. HIDE DEF For
    <2>2. \E i \in For(c, k) : \A j \in For(c, k) : j <= i
      BY <1>1, <2>1, LastPosition
    <2>. QED
      BY <2>2
  <1>. HIDE DEF Latest
  <1>2. ASSUME NEW c, NEW k, For(c, k) # {} PROVE Asked(fs[Latest(c, k)], overwrite)[k] \in Values
    <2>1. fs[Latest(c, k)] \in ToSet(fs) /\ k \in DOMAIN Asked(fs[Latest(c, k)], overwrite)
      BY <1>1, <1>2 DEF ToSet
    <2>2. IsTagSet(Asked(fs[Latest(c, k)], overwrite))
      BY <2>1, AskedTagSet
    <2>. QED
      BY <2>1, <2>2 DEF IsTagSet
  <1>3. \A c \in DOMAIN fix_plan(fs, overwrite) : fix_plan(fs, overwrite)[c] = Of(c)
    BY DEF fix_plan, Latest
  <1>. HIDE DEF For
  <1>4. ASSUME NEW c PROVE IsTagSet(Of(c))
    BY <1>2 DEF IsTagSet
  <1>. HIDE DEF Of
  <1>. QED
    BY <1>3, <1>4

\* A plan writes tags.
LEMMA PlanTags ==
    ASSUME NEW targets, \A c \in DOMAIN targets : IsTagSet(targets[c]), NEW have, NEW overwrite
    PROVE  \A c \in DOMAIN build_plan(targets, have, overwrite) :
              IsTagSet(build_plan(targets, have, overwrite)[c].changes)
  <1>. SUFFICES ASSUME NEW c \in DOMAIN targets
                PROVE  IsTagSet(build_plan(targets, have, overwrite)[c].changes)
    BY DEF build_plan
  <1> DEFINE set == CHOOSE n \in normalize(targets[c]) : TRUE
             cur == IF c \in DOMAIN have THEN have[c] ELSE NoTags
             S == {k \in DOMAIN set : k \in DOMAIN cur => overwrite /\ cur[k] # set[k]}
  <1>1. build_plan(targets, have, overwrite)[c].changes = Restrict(set, S)
    BY DEF build_plan
  <1>2. IsTagSet(set)
    BY SomeNormalized, NormalizedTags
  <1>3. S \subseteq DOMAIN set
    OBVIOUS
  <1>. HIDE DEF set, S
  <1>. QED
    BY <1>1, <1>2, <1>3, RestrictTags

-----------------------------------------------------------------------------
(***************************************************************************)
(* The invariant of the types                                              *)
(***************************************************************************)
Spots == {"idle", "first", "second", "ending", "previewed", "tag"}

\* The locals of a thread: what is to be looked at are rules in places, and
\* what is to be written are tags.
IsLocal(c, places) ==
    /\ DOMAIN c = DOMAIN NoCtx
    /\ IsSeq(c.todo) /\ \A x \in ToSet(c.todo) : x.place \in places /\ x.rule \in RuleNames
    /\ IsSeq(c.findings) /\ \A f \in ToSet(c.findings) : GoodFinding(f)
    /\ c.left \subseteq DOMAIN c.plan /\ \A r \in DOMAIN c.plan : IsTagSet(c.plan[r].changes)
    /\ \A op \in c.ops : IsTagSet(op.tags)

\* A thread t at p with the locals c.  The first view of a rule is kept until
\* the second one.
ThreadOK(t, p, c, places, resources) ==
    /\ IsLocal(c, places) /\ p \in Spots
    /\ t \in Checkers => p \in {"idle", "first", "second", "ending"} /\ c.parent = NoTags
    /\ p = "second" => c.todo # <<>> /\ IsView(c.first, resources)

Tagged ==
    /\ story \in Stories /\ exists = DOMAIN story.tags /\ DOMAIN on = exists
    /\ \A r \in exists : IsTagSet(tags[r]) /\ on[r] \subseteq Keys

Threaded ==
    /\ DOMAIN pc = Threads /\ DOMAIN ctx = Threads
    /\ \A t \in Threads : ThreadOK(t, pc[t], ctx[t], Places, exists)

Stored ==
    /\ IsSeq(runs) /\ Len(runs) <= KeepRuns /\ last_error \in BOOLEAN
    /\ \A run \in ToSet(runs) : IsSeq(run.findings) /\ \A f \in ToSet(run.findings) : GoodFinding(f)

Running == {t \in Checkers : pc[t] # "idle"}
OneCheck == IF running THEN \E t \in Checkers : Running = {t} ELSE Running = {}

Typed == Tagged /\ Threaded /\ Stored /\ OneCheck

LEMMA StoryFacts ==
    ASSUME Tagged
    PROVE  /\ IsFiniteSet(Places) /\ story.rules \in Seq(RuleNames)
           /\ \A p \in Places : story.inventory[p] \in Seq(exists)
           /\ \A e \in story.edits : IsTagSet(e.tags)
           /\ \A q \in story.pairs : /\ q.place \in Places /\ q.rule \in ToSet(story.rules)
                                     /\ q.rule \in RuleNames
                                     /\ IsChild(q.rule, story.inventory[q.place], q.parent, q.child)
  <1>1. IsStory(story)
    BY PropagationAssumption DEF Tagged
  <1>2. ToSet(story.rules) \subseteq RuleNames
    BY <1>1, SeqIsSeq DEF IsStory
  <1>. QED
    BY <1>1, <1>2 DEF IsStory, Tagged, Places

\* Which steps write tags.
LEMMA Writers ==
    ASSUME Step
    PROVE  /\ story' = story
           /\ \/ UNCHANGED live
              \/ \E u \in Users : TagChild(u) \/ DoOp(u)
              \/ \E e \in story.edits : Edit(e)
  <1>1. ASSUME NEW t \in Checkers, run_in_background(t) PROVE UNCHANGED <<story, live>>
    BY <1>1 DEF run_in_background
  <1>2. ASSUME NEW t, CheckerStep(t) PROVE UNCHANGED <<story, live>>
    BY <1>2 DEF CheckerStep, ReadFirst, ReadSecond, RuleFails, save_run, CheckRaises, EndCheck
  <1>3. ASSUME NEW u, NEW ids, NEW o, api_propagation_preview(u, ids, o) \/ StartApply(u, ids, o)
        PROVE  UNCHANGED <<story, live>>
    BY <1>3 DEF api_propagation_preview, StartApply
  <1>4. ASSUME NEW u \in Users, FixStep(u)
        PROVE  UNCHANGED <<story, live>> \/ (story' = story /\ (TagChild(u) \/ DoOp(u)))
    <2>1. CASE TagChild(u) \/ DoOp(u)
      BY <2>1 DEF TagChild, DoOp
    <2>2. CASE EndApply(u)
      BY <2>2 DEF EndApply
    <2>. QED
      BY <1>3, <1>4, <2>1, <2>2 DEF FixStep
  <1>5. ASSUME NEW u \in Users, SyncStep(u) PROVE UNCHANGED <<story, live>>
    BY <1>5 DEF SyncStep, propagate, ReadFirst, ReadSecond, RuleFails, SyncApply, SyncRaises
  <1>6. ASSUME NEW e, Edit(e) PROVE story' = story
    BY <1>6 DEF Edit
  <1>. QED
    BY <1>1, <1>2, <1>4, <1>5, <1>6 DEF Step

LEMMA TaggedStep ==
    ASSUME Typed, Step
    PROVE  Tagged' /\ Places' = Places /\ exists' = exists
  <1>. USE DEF Typed
  <1>1. story' = story /\ Places' = Places
    BY Writers DEF Places
  <1>2. CASE UNCHANGED live
    BY <1>1, <1>2 DEF Tagged, live, exists
  <1>3. ASSUME NEW u \in Users, TagChild(u) PROVE Tagged' /\ exists' = exists
    <2>1. ThreadOK(u, pc[u], ctx[u], Places, exists)
      BY DEF Threaded, Threads
    <2>2. ASSUME NEW r \in ctx[u].left, tags' = [tags EXCEPT ![r] = Written(@, ctx[u].plan[r].changes)]
          PROVE  DOMAIN tags' = DOMAIN tags /\ \A x \in exists : IsTagSet(tags'[x])
      <3>1. IsTagSet(ctx[u].plan[r].changes)
        BY <2>1 DEF ThreadOK, IsLocal
      <3>. QED
        BY <2>2, <3>1, WrittenTagSet DEF Tagged, exists
    <2>3. DOMAIN tags' = DOMAIN tags /\ \A x \in exists : IsTagSet(tags'[x])
      BY <1>3, <2>2 DEF TagChild, Tagged
    <2>4. on' = on
      BY <1>3 DEF TagChild
    <2>. QED
      BY <1>1, <2>3, <2>4 DEF Tagged, exists
  <1>4. ASSUME NEW u \in Users, DoOp(u) PROVE Tagged' /\ exists' = exists
    <2>1. ThreadOK(u, pc[u], ctx[u], Places, exists)
      BY DEF Threaded, Threads
    <2>2. CASE UNCHANGED live
      BY <1>2, <2>2
    <2>3. ASSUME NEW op \in ctx[u].ops, NEW r,
                 tags' = [tags EXCEPT ![r] = Written(@, op.tags)],
                 on' = [on EXCEPT ![r] = IF op.op = "asg_propagate" THEN @ \cup DOMAIN op.tags ELSE Keys]
          PROVE  Tagged' /\ exists' = exists
      <3>1. IsTagSet(op.tags) /\ DOMAIN op.tags \subseteq Keys
        BY <2>1 DEF ThreadOK, IsLocal, IsTagSet
      <3>2. DOMAIN tags' = DOMAIN tags /\ \A x \in exists : IsTagSet(tags'[x])
        BY <2>3, <3>1, WrittenTagSet DEF Tagged, exists
      <3>3. DOMAIN on' = DOMAIN on /\ \A x \in exists : on'[x] \subseteq Keys
        BY <2>3, <3>1 DEF Tagged
      <3>. QED
        BY <1>1, <3>2, <3>3 DEF Tagged, exists
    <2>. QED
      BY <1>4, <2>2, <2>3 DEF DoOp
  <1>5. ASSUME NEW e \in story.edits, Edit(e) PROVE Tagged' /\ exists' = exists
    <2>1. IsTagSet(e.tags)
      BY StoryFacts
    <2>2. DOMAIN tags' = DOMAIN tags /\ on' = on /\ \A x \in exists : IsTagSet(tags'[x])
      BY <1>5, <2>1 DEF Edit, Tagged, exists
    <2>. QED
      BY <1>1, <2>2 DEF Tagged, exists
  <1>. QED
    BY <1>1, <1>2, <1>3, <1>4, <1>5, Writers

\* A step of one thread.
LEMMA ThreadMoves ==
    ASSUME Threaded, NEW t \in Threads, DOMAIN pc' = DOMAIN pc, DOMAIN ctx' = DOMAIN ctx,
           \A s \in Threads \ {t} : pc'[s] = pc[s] /\ ctx'[s] = ctx[s],
           ThreadOK(t, pc'[t], ctx'[t], Places, exists), Places' = Places, exists' = exists
    PROVE  Threaded'
BY DEF Threaded, Threads

LEMMA FirstLocals ==
    ASSUME NEW t, NEW places, NEW resources
    PROVE  ThreadOK(t, "idle", NoCtx, places, resources)
  <1>1. /\ NoCtx.todo = <<>> /\ NoCtx.findings = <<>> /\ NoCtx.left = {} /\ NoCtx.plan = NoTags
        /\ NoCtx.ops = {} /\ NoCtx.parent = NoTags
    BY DEF NoCtx
  <1>2. IsSeq(<<>>) /\ ToSet(<<>>) = {}
    BY DEF IsSeq, ToSet
  <1>3. IsLocal(NoCtx, places)
    BY <1>1, <1>2, EmptyTags DEF IsLocal
  <1>. QED
    BY <1>1, <1>3 DEF ThreadOK, Spots

LEMMA Returning ==
    ASSUME Threaded, NEW t \in Threads, Return(t), Places' = Places, exists' = exists
    PROVE  Threaded'
  <1>1. /\ DOMAIN pc' = DOMAIN pc /\ DOMAIN ctx' = DOMAIN ctx
        /\ \A s \in Threads \ {t} : pc'[s] = pc[s] /\ ctx'[s] = ctx[s]
        /\ pc'[t] = "idle" /\ ctx'[t] = NoCtx
    BY DEF Return, Goto, Threaded
  <1>. QED
    BY <1>1, FirstLocals, ThreadMoves

\* The locals that ThreadOK is about are fields.
LEMMA Fields ==
    {"todo", "first", "findings", "errors", "parents", "parent", "left", "plan", "ops",
     "round"} \subseteq DOMAIN NoCtx
BY DEF NoCtx

\* A sequence of rules in places.
IsTodo(todo, places) ==
    IsSeq(todo) /\ \A x \in ToSet(todo) : x.place \in places /\ x.rule \in RuleNames

LEMMA TodoOfTasks ==
    ASSUME Tagged, NEW places \in SUBSET Places, NEW rules \in Seq(RuleNames)
    PROVE  IsTodo(Tasks(places, rules), Places)
  <1>1. IsFiniteSet(places) /\ IsSeq(rules) /\ ToSet(rules) \subseteq RuleNames
    BY StoryFacts, FS_Subset, SeqIsSeq
  <1>. QED
    BY <1>1, TasksMembers DEF IsTodo

\* The background check begins with all rules in all places.
LEMMA BeginOK ==
    ASSUME Typed, NEW t \in Checkers, run_in_background(t), Places' = Places, exists' = exists
    PROVE  Threaded'
  <1>1. t \in Threads /\ ThreadOK(t, pc[t], ctx[t], Places, exists)
    BY DEF Typed, Threaded, Threads
  <1>2. IsTodo(Tasks(Places, story.rules), Places)
    BY TodoOfTasks, StoryFacts DEF Typed
  <1>3. /\ DOMAIN pc' = DOMAIN pc /\ DOMAIN ctx' = DOMAIN ctx /\ pc'[t] = "first"
        /\ \A s \in Threads \ {t} : pc'[s] = pc[s] /\ ctx'[s] = ctx[s]
    BY <1>1 DEF run_in_background, Goto, Typed, Threaded
  <1>4. /\ DOMAIN ctx'[t] = DOMAIN ctx[t]
        /\ ctx'[t].todo = Tasks(Places, story.rules) /\ ctx'[t].findings = ctx[t].findings
        /\ ctx'[t].left = ctx[t].left /\ ctx'[t].plan = ctx[t].plan /\ ctx'[t].ops = ctx[t].ops
        /\ ctx'[t].parent = ctx[t].parent
    BY <1>1, Fields DEF run_in_background, Typed, Threaded, ThreadOK, IsLocal
  <1>5. ThreadOK(t, pc'[t], ctx'[t], Places, exists)
    BY <1>1, <1>2, <1>3, <1>4 DEF ThreadOK, IsLocal, IsTodo, Spots
  <1>. QED
    BY <1>1, <1>3, <1>5, ThreadMoves DEF Typed

LEMMA ReadFirstOK ==
    ASSUME Typed, NEW t \in Threads, ReadFirst(t), Places' = Places, exists' = exists
    PROVE  Threaded' /\ ctx'[t].first = View /\ ctx'[t].todo = ctx[t].todo
           /\ ctx'[t].findings = ctx[t].findings /\ ctx'[t].errors = ctx[t].errors
  <1>1. ThreadOK(t, pc[t], ctx[t], Places, exists)
    BY DEF Typed, Threaded
  <1>2. IsView(View, exists)
    BY DEF IsView, View, Typed, Tagged, exists
  <1>3. /\ DOMAIN pc' = DOMAIN pc /\ DOMAIN ctx' = DOMAIN ctx /\ pc'[t] = "second" /\ pc[t] = "first"
        /\ ctx[t].todo # <<>>
        /\ \A s \in Threads \ {t} : pc'[s] = pc[s] /\ ctx'[s] = ctx[s]
    BY <1>1 DEF ReadFirst, Checking, At, Goto, Typed, Threaded
  <1>4. /\ DOMAIN ctx'[t] = DOMAIN ctx[t] /\ ctx'[t].first = View
        /\ ctx'[t].todo = ctx[t].todo /\ ctx'[t].findings = ctx[t].findings
        /\ ctx'[t].left = ctx[t].left /\ ctx'[t].plan = ctx[t].plan /\ ctx'[t].ops = ctx[t].ops
        /\ ctx'[t].parent = ctx[t].parent /\ ctx'[t].errors = ctx[t].errors
    BY <1>1, Fields DEF ReadFirst, Typed, Threaded, ThreadOK, IsLocal
  <1>5. ThreadOK(t, pc'[t], ctx'[t], Places, exists)
    BY <1>1, <1>2, <1>3, <1>4 DEF ThreadOK, IsLocal, Spots
  <1>. QED
    BY <1>1, <1>3, <1>4, <1>5, ThreadMoves DEF Typed

\* The second view: what the rule finds is added to the findings.
LEMMA ReadSecondOK ==
    ASSUME Typed, NEW t \in Threads, ReadSecond(t), Places' = Places, exists' = exists
    PROVE  /\ Threaded'
           /\ ctx'[t].todo = Tail(ctx[t].todo) /\ ctx'[t].errors = ctx[t].errors
           /\ ToSet(ctx[t].findings) \subseteq ToSet(ctx'[t].findings)
           /\ \A g : /\ t \in Checkers /\ Task(t).rule = g.pair.rule /\ g.have # g.want
                     /\ IsChild(g.pair.rule, story.inventory[Task(t).place], g.pair.parent, g.pair.child)
                     /\ GapIn(ctx[t].first, g) /\ GapIn(View, g)
                     => \E f \in ToSet(ctx'[t].findings) : Answers(f, g)
  <1> DEFINE w == story.inventory[Task(t).place]
             all == RULES(Task(t).rule, w, ctx[t].first, View)
             Wanted == {r \in ToSet(all) : ctx[t].parent \in {NoTags, r.parent}}
             rels == Where(all, Wanted)
             new == findings_for(Task(t).rule, rels)
  <1>1. ThreadOK(t, pc[t], ctx[t], Places, exists)
    BY DEF Typed, Threaded
  <1>2. IsView(View, exists)
    BY DEF IsView, View, Typed, Tagged, exists
  <1>3. pc[t] = "second" /\ ctx[t].todo # <<>> /\ IsSeq(ctx[t].todo) /\ IsView(ctx[t].first, exists)
    BY <1>1 DEF ReadSecond, At, ThreadOK, IsLocal
  <1>4. Task(t).place \in Places /\ Task(t).rule \in RuleNames
    BY <1>1, <1>3, TailMembers DEF ThreadOK, IsLocal, Task
  <1>5. w \in Seq(exists)
    BY <1>4, StoryFacts DEF Typed
  <1>6. Reports(all, Task(t).rule, w, ctx[t].first, View)
    BY <1>2, <1>3, <1>4, <1>5, RulesReport
  <1>7. ctx' = [ctx EXCEPT ![t].todo = Tail(@), ![t].first = NoTags, ![t].parents = @ + Len(rels),
                           ![t].findings = @ \o new]
    BY DEF ReadSecond
  <1>8. IsSeq(rels) /\ ToSet(rels) = Wanted
    BY <1>6, WhereMembers DEF Reports
  <1>9. \A rel \in ToSet(rels) : GoodRel(rel)
    BY <1>6, <1>8 DEF Reports
  <1>. HIDE DEF w, all, rels
  <1>10. /\ IsSeq(new) /\ \A f \in ToSet(new) : GoodFinding(f)
         /\ \A g : /\ \E rel \in ToSet(rels) : Shows(rel, g)
                   /\ g.have # g.want /\ g.pair.rule = Task(t).rule
                   => \E f \in ToSet(new) : Answers(f, g)
    BY <1>8, <1>9, FindingsFacts
  <1>. HIDE DEF new
  <1>11. /\ DOMAIN pc' = DOMAIN pc /\ DOMAIN ctx' = DOMAIN ctx /\ pc'[t] = "first"
         /\ \A s \in Threads \ {t} : pc'[s] = pc[s] /\ ctx'[s] = ctx[s]
    BY <1>1, <1>7 DEF ReadSecond, Goto, Typed, Threaded
  <1>12. /\ DOMAIN ctx'[t] = DOMAIN ctx[t]
         /\ ctx'[t].todo = Tail(ctx[t].todo) /\ ctx'[t].findings = ctx[t].findings \o new
         /\ ctx'[t].left = ctx[t].left /\ ctx'[t].plan = ctx[t].plan /\ ctx'[t].ops = ctx[t].ops
         /\ ctx'[t].parent = ctx[t].parent /\ ctx'[t].errors = ctx[t].errors
    BY <1>1, <1>7, Fields DEF Typed, Threaded, ThreadOK, IsLocal
  <1>13. /\ IsSeq(ctx'[t].findings)
         /\ ToSet(ctx'[t].findings) = ToSet(ctx[t].findings) \cup ToSet(new)
    BY <1>1, <1>10, <1>12, ConcatMembers DEF ThreadOK, IsLocal
  <1>14. IsSeq(ctx'[t].todo) /\ ToSet(ctx'[t].todo) \subseteq ToSet(ctx[t].todo)
    BY <1>3, <1>12, TailMembers
  <1>15. ThreadOK(t, pc'[t], ctx'[t], Places, exists)
    BY <1>1, <1>3, <1>10, <1>11, <1>12, <1>13, <1>14 DEF ThreadOK, IsLocal, Spots
  <1>16. Threaded'
    BY <1>11, <1>15, ThreadMoves DEF Typed
  <1>17. ASSUME NEW g, t \in Checkers, Task(t).rule = g.pair.rule, g.have # g.want,
                IsChild(g.pair.rule, w, g.pair.parent, g.pair.child),
                GapIn(ctx[t].first, g), GapIn(View, g)
         PROVE  \E f \in ToSet(ctx'[t].findings) : Answers(f, g)
    <2>1. PICK rel \in ToSet(all) : Shows(rel, g)
      BY <1>6, <1>17 DEF Reports
    <2>2. ctx[t].parent = NoTags
      BY <1>1, <1>17 DEF ThreadOK
    <2>3. rel \in ToSet(rels)
      BY <1>8, <2>1, <2>2
    <2>. QED
      BY <1>10, <1>13, <1>17, <2>1, <2>3
  <1>. QED
    BY <1>12, <1>13, <1>16, <1>17 DEF w

\* A failed rule is left out, and reported.
LEMMA RuleFailsOK ==
    ASSUME Typed, NEW t \in Threads, RuleFails(t), Places' = Places, exists' = exists
    PROVE  /\ Threaded'
           /\ ctx'[t].todo = Tail(ctx[t].todo) /\ ctx'[t].errors = ctx[t].errors \cup {Task(t)}
           /\ ctx'[t].findings = ctx[t].findings
  <1>1. ThreadOK(t, pc[t], ctx[t], Places, exists)
    BY DEF Typed, Threaded
  <1>2. pc[t] \in {"first", "second"} /\ ctx[t].todo # <<>> /\ IsSeq(ctx[t].todo)
    BY <1>1 DEF RuleFails, Checking, ThreadOK, IsLocal
  <1>3. /\ DOMAIN pc' = DOMAIN pc /\ DOMAIN ctx' = DOMAIN ctx /\ pc'[t] = "first"
        /\ \A s \in Threads \ {t} : pc'[s] = pc[s] /\ ctx'[s] = ctx[s]
    BY <1>1 DEF RuleFails, Goto, Typed, Threaded
  <1>4. /\ DOMAIN ctx'[t] = DOMAIN ctx[t]
        /\ ctx'[t].todo = Tail(ctx[t].todo) /\ ctx'[t].findings = ctx[t].findings
        /\ ctx'[t].left = ctx[t].left /\ ctx'[t].plan = ctx[t].plan /\ ctx'[t].ops = ctx[t].ops
        /\ ctx'[t].parent = ctx[t].parent /\ ctx'[t].errors = ctx[t].errors \cup {Task(t)}
    BY <1>1, Fields DEF RuleFails, Typed, Threaded, ThreadOK, IsLocal
  <1>5. IsSeq(ctx'[t].todo) /\ ToSet(ctx'[t].todo) \subseteq ToSet(ctx[t].todo)
    BY <1>2, <1>4, TailMembers
  <1>6. ThreadOK(t, pc'[t], ctx'[t], Places, exists)
    BY <1>1, <1>2, <1>3, <1>4, <1>5 DEF ThreadOK, IsLocal, Spots
  <1>. QED
    BY <1>3, <1>4, <1>6, ThreadMoves DEF Typed

\* The check ends, with its run stored or not.
LEMMA EndingOK ==
    ASSUME Typed, NEW t \in Threads, Goto(t, "ending"), UNCHANGED ctx,
           Places' = Places, exists' = exists
    PROVE  Threaded'
  <1>1. ThreadOK(t, pc[t], ctx[t], Places, exists)
    BY DEF Typed, Threaded
  <1>2. /\ DOMAIN pc' = DOMAIN pc /\ DOMAIN ctx' = DOMAIN ctx /\ pc'[t] = "ending"
        /\ \A s \in Threads \ {t} : pc'[s] = pc[s] /\ ctx'[s] = ctx[s]
    BY DEF Goto, Typed, Threaded
  <1>3. ThreadOK(t, pc'[t], ctx'[t], Places, exists)
    BY <1>1, <1>2 DEF ThreadOK, Spots
  <1>. QED
    BY <1>2, <1>3, ThreadMoves DEF Typed

LEMMA ApplyingOK ==
    ASSUME NEW c, NEW places, IsLocal(c, places), NEW overwrite,
           NEW fs, IsSeq(fs), \A f \in ToSet(fs) : GoodFinding(f)
    PROVE  IsLocal(Applying(c, fs, overwrite), places)
  <1> DEFINE plan == PlanFor(fs, overwrite)
             left == {r \in DOMAIN plan : plan[r].valid /\ plan[r].changes # NoTags}
  <1>1. \A r \in DOMAIN plan : IsTagSet(plan[r].changes)
    BY FixPlanTags, PlanTags DEF PlanFor
  <1>2. ASSUME NEW op \in ops(fs) PROVE IsTagSet(op.tags)
    <2>1. PICK i \in DOMAIN fs : IsConfig(fs[i]) /\ op = fs[i].op
      BY <1>2 DEF ops
    <2>2. GoodFinding(fs[i])
      BY DEF ToSet
    <2>. QED
      BY <2>1, <2>2 DEF GoodFinding
  <1>3. left \subseteq DOMAIN plan
    OBVIOUS
  <1>4. Applying(c, fs, overwrite) =
          [c EXCEPT !.plan = plan, !.ops = ops(fs), !.overwrite = overwrite, !.left = left]
    BY DEF Applying
  <1>. HIDE DEF plan, left
  <1>5. LET d == Applying(c, fs, overwrite) IN
        /\ DOMAIN d = DOMAIN c /\ d.plan = plan /\ d.left = left /\ d.ops = ops(fs)
        /\ d.todo = c.todo /\ d.findings = c.findings
    BY <1>4, Fields DEF IsLocal
  <1>. QED
    BY <1>1, <1>2, <1>3, <1>5 DEF IsLocal

LEMMA SelectedFindings ==
    ASSUME Stored, NEW ids
    PROVE  /\ IsSeq(_selected_findings(ids))
           /\ \A f \in ToSet(_selected_findings(ids)) : GoodFinding(f)
  <1>1. CASE runs = <<>>
    BY <1>1 DEF _selected_findings, IsSeq, ToSet
  <1>2. CASE runs # <<>>
    <2>1. latest_run \in ToSet(runs)
      <3>1. runs \in Seq(ToSet(runs))
        BY DEF Stored, IsSeq
      <3>2. Len(runs) \in 1..Len(runs)
        BY <1>2, <3>1
      <3>. QED
        BY <3>1, <3>2, SeqFacts DEF Stored, latest_run
    <2>2. IsSeq(latest_run.findings) /\ \A f \in ToSet(latest_run.findings) : GoodFinding(f)
      BY <2>1 DEF Stored
    <2>. QED
      BY <1>2, <2>2, WhereMembers DEF _selected_findings
  <1>. QED
    BY <1>1, <1>2

LEMMA PreviewOK ==
    ASSUME Typed, NEW u \in Users, NEW ids, NEW overwrite,
           api_propagation_preview(u, ids, overwrite), Places' = Places, exists' = exists
    PROVE  Threaded'
  <1>1. u \in Threads /\ u \notin Checkers /\ ThreadOK(u, pc[u], ctx[u], Places, exists)
    BY PropagationAssumption DEF Typed, Threaded, Threads
  <1>2. /\ DOMAIN pc' = DOMAIN pc /\ DOMAIN ctx' = DOMAIN ctx /\ pc'[u] = "previewed"
        /\ \A s \in Threads \ {u} : pc'[s] = pc[s] /\ ctx'[s] = ctx[s]
    BY <1>1 DEF api_propagation_preview, Goto, Typed, Threaded
  <1>3. /\ DOMAIN ctx'[u] = DOMAIN ctx[u]
        /\ ctx'[u].todo = ctx[u].todo /\ ctx'[u].findings = ctx[u].findings
        /\ ctx'[u].left = ctx[u].left /\ ctx'[u].plan = ctx[u].plan /\ ctx'[u].ops = ctx[u].ops
    BY <1>1, Fields DEF api_propagation_preview, Typed, Threaded, ThreadOK, IsLocal
  <1>4. ThreadOK(u, pc'[u], ctx'[u], Places, exists)
    BY <1>1, <1>2, <1>3 DEF ThreadOK, IsLocal, Spots
  <1>. QED
    BY <1>1, <1>2, <1>4, ThreadMoves DEF Typed

LEMMA StartApplyOK ==
    ASSUME Typed, NEW u \in Users, NEW ids, NEW overwrite, StartApply(u, ids, overwrite),
           Places' = Places, exists' = exists
    PROVE  Threaded'
  <1> DEFINE fs == _selected_findings(ids)
             next == Applying(ctx[u], fs, overwrite)
  <1>1. u \in Threads /\ u \notin Checkers /\ ThreadOK(u, pc[u], ctx[u], Places, exists)
    BY PropagationAssumption DEF Typed, Threaded, Threads
  <1>2. CASE Return(u)
    BY <1>1, <1>2, Returning DEF Typed
  <1>3. CASE /\ ctx' = [ctx EXCEPT ![u] = [next EXCEPT !.ids = ids, !.round = latest_run.round]]
             /\ Goto(u, "tag")
    <2>1. IsLocal(next, Places)
      BY <1>1, SelectedFindings, ApplyingOK DEF Typed, ThreadOK
    <2>. HIDE DEF next
    <2>2. /\ DOMAIN pc' = DOMAIN pc /\ DOMAIN ctx' = DOMAIN ctx /\ pc'[u] = "tag"
          /\ \A s \in Threads \ {u} : pc'[s] = pc[s] /\ ctx'[s] = ctx[s]
      BY <1>1, <1>3 DEF Goto, Typed, Threaded
    <2>3. ctx'[u] = [next EXCEPT !.ids = ids, !.round = latest_run.round]
      BY <1>1, <1>3 DEF Typed, Threaded
    <2>4. /\ DOMAIN ctx'[u] = DOMAIN next
          /\ ctx'[u].todo = next.todo /\ ctx'[u].findings = next.findings
          /\ ctx'[u].left = next.left /\ ctx'[u].plan = next.plan /\ ctx'[u].ops = next.ops
      BY <2>1, <2>3, Fields DEF IsLocal
    <2>5. ThreadOK(u, pc'[u], ctx'[u], Places, exists)
      BY <1>1, <2>1, <2>2, <2>4 DEF ThreadOK, IsLocal, Spots
    <2>. QED
      BY <1>1, <2>2, <2>5, ThreadMoves DEF Typed
  <1>. QED
    BY <1>2, <1>3 DEF StartApply

\* The steps of an apply leave less to write.
LEMMA ApplyStepOK ==
    ASSUME Typed, NEW u \in Users, TagChild(u) \/ DoOp(u), Places' = Places, exists' = exists
    PROVE  Threaded'
  <1>1. u \in Threads /\ u \notin Checkers /\ ThreadOK(u, pc[u], ctx[u], Places, exists)
    BY PropagationAssumption DEF Typed, Threaded, Threads
  <1>2. DOMAIN ctx = Threads /\ DOMAIN ctx[u] = DOMAIN NoCtx
    BY <1>1 DEF Typed, Threaded, ThreadOK, IsLocal
  <1> DEFINE Less == /\ DOMAIN ctx' = DOMAIN ctx /\ pc' = pc
                     /\ \A s \in Threads \ {u} : ctx'[s] = ctx[s]
                     /\ DOMAIN ctx'[u] = DOMAIN ctx[u]
                     /\ ctx'[u].todo = ctx[u].todo /\ ctx'[u].findings = ctx[u].findings
                     /\ ctx'[u].left \subseteq ctx[u].left /\ ctx'[u].plan = ctx[u].plan
                     /\ ctx'[u].ops \subseteq ctx[u].ops /\ ctx'[u].first = ctx[u].first
  <1>3. ASSUME NEW r, pc' = pc, ctx' = [ctx EXCEPT ![u].left = @ \ {r}]
        PROVE  Less
    BY <1>1, <1>2, <1>3, Fields
  <1>4. ASSUME NEW op, pc' = pc, ctx' = [ctx EXCEPT ![u].ops = @ \ {op}]
        PROVE  Less
    BY <1>1, <1>2, <1>4, Fields
  <1>5. Less
    <2>. HIDE DEF Less
    <2>1. CASE TagChild(u)
      BY <1>3, <2>1 DEF TagChild
    <2>2. CASE DoOp(u)
      BY <1>4, <2>2 DEF DoOp
    <2>. QED
      BY <2>1, <2>2
  <1>6. ThreadOK(u, pc'[u], ctx'[u], Places, exists)
    BY <1>1, <1>5 DEF ThreadOK, IsLocal, Spots
  <1>. QED
    BY <1>1, <1>5, <1>6, ThreadMoves DEF Typed

LEMMA PropagateOK ==
    ASSUME Typed, NEW u \in Users, NEW q \in story.pairs, NEW o, NEW d, NEW c,
           propagate(u, q.place, q.rule, q.parent, o, d, c), Places' = Places, exists' = exists
    PROVE  Threaded'
  <1> DEFINE todo == Tasks({p \in Places : p[2] = q.place[2]}, <<q.rule>>)
  <1>1. u \in Threads /\ u \notin Checkers /\ ThreadOK(u, pc[u], ctx[u], Places, exists)
    BY PropagationAssumption DEF Typed, Threaded, Threads
  <1>2. IsTodo(todo, Places)
    <2>1. <<q.rule>> \in Seq(RuleNames)
      BY StoryFacts DEF Typed
    <2>. QED
      BY <2>1, TodoOfTasks DEF Typed
  <1>. HIDE DEF todo
  <1>3. /\ DOMAIN pc' = DOMAIN pc /\ DOMAIN ctx' = DOMAIN ctx /\ pc'[u] = "first"
        /\ \A s \in Threads \ {u} : pc'[s] = pc[s] /\ ctx'[s] = ctx[s]
    BY <1>1 DEF propagate, Goto, Typed, Threaded
  <1>4. /\ DOMAIN ctx'[u] = DOMAIN ctx[u]
        /\ ctx'[u].todo = todo /\ ctx'[u].findings = ctx[u].findings
        /\ ctx'[u].left = ctx[u].left /\ ctx'[u].plan = ctx[u].plan /\ ctx'[u].ops = ctx[u].ops
    BY <1>1, Fields DEF propagate, todo, Typed, Threaded, ThreadOK, IsLocal
  <1>5. ThreadOK(u, pc'[u], ctx'[u], Places, exists)
    BY <1>1, <1>2, <1>3, <1>4 DEF ThreadOK, IsLocal, IsTodo, Spots
  <1>. QED
    BY <1>1, <1>3, <1>5, ThreadMoves DEF Typed

LEMMA SyncApplyOK ==
    ASSUME Typed, NEW u \in Users, SyncApply(u), Places' = Places, exists' = exists
    PROVE  Threaded'
  <1> DEFINE Some == {f \in ToSet(ctx[u].findings) : ctx[u].fix_config \/ ~IsConfig(f)}
             fs == Where(ctx[u].findings, Some)
             next == Applying(ctx[u], fs, ctx[u].overwrite)
  <1>1. u \in Threads /\ u \notin Checkers /\ ThreadOK(u, pc[u], ctx[u], Places, exists)
    BY PropagationAssumption DEF Typed, Threaded, Threads
  <1>2. CASE Return(u)
    BY <1>1, <1>2, Returning DEF Typed
  <1>3. CASE ctx' = [ctx EXCEPT ![u] = next] /\ Goto(u, "tag")
    <2>1. IsSeq(fs) /\ \A f \in ToSet(fs) : GoodFinding(f)
      BY <1>1, WhereMembers DEF ThreadOK, IsLocal
    <2>. HIDE DEF fs
    <2>2. IsLocal(next, Places)
      BY <1>1, <2>1, ApplyingOK DEF ThreadOK
    <2>. HIDE DEF next
    <2>3. /\ DOMAIN pc' = DOMAIN pc /\ DOMAIN ctx' = DOMAIN ctx /\ pc'[u] = "tag" /\ ctx'[u] = next
          /\ \A s \in Threads \ {u} : pc'[s] = pc[s] /\ ctx'[s] = ctx[s]
      BY <1>1, <1>3 DEF Goto, Typed, Threaded
    <2>4. ThreadOK(u, pc'[u], ctx'[u], Places, exists)
      BY <1>1, <2>2, <2>3 DEF ThreadOK, Spots
    <2>. QED
      BY <1>1, <2>3, <2>4, ThreadMoves DEF Typed
  <1>. QED
    BY <1>2, <1>3 DEF SyncApply

LEMMA ThreadedStep ==
    ASSUME Typed, Step
    PROVE  Threaded'
  <1>1. Places' = Places /\ exists' = exists
    BY TaggedStep
  <1>2. Checkers \subseteq Threads /\ Users \subseteq Threads
    BY DEF Threads
  <1>3. ASSUME NEW t \in Checkers, CheckerStep(t) PROVE Threaded'
    <2>1. CASE save_run(t) \/ CheckRaises(t)
      <3>1. Goto(t, "ending") /\ UNCHANGED ctx
        BY <2>1 DEF save_run, CheckRaises
      <3>. QED
        BY <1>1, <1>2, <3>1, EndingOK
    <2>2. CASE EndCheck(t)
      BY <1>1, <1>2, <2>2, Returning DEF EndCheck, Typed
    <2>3. CASE ReadFirst(t) \/ ReadSecond(t) \/ RuleFails(t)
      BY <1>1, <1>2, <2>3, ReadFirstOK, ReadSecondOK, RuleFailsOK
    <2>. QED
      BY <1>3, <2>1, <2>2, <2>3 DEF CheckerStep
  <1>4. ASSUME NEW u \in Users, FixStep(u) PROVE Threaded'
    <2>1. CASE EndApply(u)
      BY <1>1, <1>2, <2>1, Returning DEF EndApply, Typed
    <2>2. CASE TagChild(u) \/ DoOp(u)
      BY <1>1, <2>2, ApplyStepOK
    <2>. QED
      BY <1>1, <1>4, <2>1, <2>2, PreviewOK, StartApplyOK DEF FixStep
  <1>5. ASSUME NEW u \in Users, SyncStep(u) PROVE Threaded'
    <2>1. CASE SyncRaises(u)
      BY <1>1, <1>2, <2>1, Returning DEF SyncRaises, Typed
    <2>2. CASE ReadFirst(u) \/ ReadSecond(u) \/ RuleFails(u)
      BY <1>1, <1>2, <2>2, ReadFirstOK, ReadSecondOK, RuleFailsOK
    <2>. QED
      BY <1>1, <1>5, <2>1, <2>2, PropagateOK, SyncApplyOK DEF SyncStep
  <1>6. ASSUME NEW e, Edit(e) PROVE Threaded'
    BY <1>1, <1>6 DEF Edit, Typed, Threaded, Threads
  <1>. QED
    BY <1>1, <1>3, <1>4, <1>5, <1>6, BeginOK DEF Step

\* A thread's step changes neither the table, nor who is checking.
Quiet ==
    /\ runs' = runs /\ last_error' \in {last_error, TRUE}
    /\ running' = running /\ Running' = Running

\* A thread that stays at work, or is no checker.
LEMMA KeepsRunning ==
    ASSUME Typed, NEW t, NEW l, Goto(t, l), (t \in Checkers => pc[t] # "idle" /\ l # "idle")
    PROVE  Running' = Running
  <1>1. DOMAIN pc = Threads /\ Checkers \subseteq Threads
    BY DEF Typed, Threaded, Threads
  <1>2. \A s \in Checkers : pc'[s] = IF s = t THEN l ELSE pc[s]
    BY <1>1 DEF Goto
  <1>. QED
    BY <1>2 DEF Running

LEMMA QuietSteps ==
    ASSUME Typed, Step
    PROVE  \/ Quiet
           \/ \E t \in Checkers : run_in_background(t) \/ save_run(t) \/ EndCheck(t)
  <1>0. \A u \in Users : u \notin Checkers
    BY PropagationAssumption
  <1>1. ASSUME NEW t, ReadFirst(t) \/ ReadSecond(t) \/ RuleFails(t) PROVE Quiet
    <2>1. /\ \E l \in {"first", "second"} : Goto(t, l)
          /\ pc[t] \in {"first", "second"} /\ UNCHANGED <<runs, last_error, running>>
      BY <1>1 DEF ReadFirst, ReadSecond, RuleFails, Checking, At
    <2>2. Running' = Running
      BY <2>1, KeepsRunning
    <2>. QED
      BY <2>1, <2>2 DEF Quiet
  <1>2. ASSUME NEW t, CheckRaises(t) PROVE Quiet
    <2>1. Goto(t, "ending") /\ pc[t] = "first" /\ UNCHANGED <<runs, running>> /\ last_error' = TRUE
      BY <1>2 DEF CheckRaises, At
    <2>2. Running' = Running
      BY <2>1, KeepsRunning
    <2>. QED
      BY <2>1, <2>2 DEF Quiet
  <1>3. ASSUME NEW u \in Users, UNCHANGED <<runs, last_error, running>>,
               UNCHANGED pc \/ \E l : Goto(u, l)
        PROVE  Quiet
    <2>1. Running' = Running
      BY <1>0, <1>3, KeepsRunning DEF Running
    <2>. QED
      BY <1>3, <2>1 DEF Quiet
  <1>4. ASSUME NEW u \in Users, FixStep(u) PROVE Quiet
    <2>1. ASSUME NEW ids, NEW o, api_propagation_preview(u, ids, o) \/ StartApply(u, ids, o) PROVE Quiet
      BY <1>3, <2>1 DEF api_propagation_preview, StartApply, Return
    <2>2. CASE TagChild(u) \/ DoOp(u) \/ EndApply(u)
      BY <1>3, <2>2 DEF TagChild, DoOp, EndApply, Return
    <2>. QED
      BY <1>4, <2>1, <2>2 DEF FixStep
  <1>5. ASSUME NEW u \in Users, SyncStep(u) PROVE Quiet
    <2>1. ASSUME NEW q, NEW o, NEW d, NEW c, propagate(u, q.place, q.rule, q.parent, o, d, c) PROVE Quiet
      BY <1>3, <2>1 DEF propagate
    <2>2. CASE SyncApply(u) \/ SyncRaises(u)
      BY <1>3, <2>2 DEF SyncApply, SyncRaises, Return
    <2>. QED
      BY <1>1, <1>5, <2>1, <2>2 DEF SyncStep
  <1>6. ASSUME NEW e, Edit(e) PROVE Quiet
    BY <1>6 DEF Edit, Quiet, Running
  <1>. QED
    BY <1>1, <1>2, <1>4, <1>5, <1>6 DEF Step, CheckerStep

LEMMA NewestMembers ==
    ASSUME NEW rs, IsSeq(rs)
    PROVE  IsSeq(Newest(rs)) /\ ToSet(Newest(rs)) \subseteq ToSet(rs) /\ Len(Newest(rs)) <= KeepRuns
  <1>1. Len(rs) \in Nat /\ KeepRuns \in Nat \ {0}
    BY SeqFacts, PropagationAssumption
  <1>2. CASE Len(rs) > KeepRuns
    <2>1. Len(rs) - KeepRuns + 1 \in Nat \ {0} /\ Len(rs) - KeepRuns + 1 <= Len(rs) + 1
      BY <1>1, <1>2
    <2>2. Newest(rs) = SubSeq(rs, Len(rs) - KeepRuns + 1, Len(rs))
      BY <1>2 DEF Newest
    <2>. QED
      BY <1>1, <1>2, <2>1, <2>2, SubSeqMembers
  <1>3. CASE ~(Len(rs) > KeepRuns)
    <2>1. Newest(rs) = SubSeq(rs, 1, Len(rs))
      BY <1>3 DEF Newest
    <2>. QED
      BY <1>1, <1>3, <2>1, SubSeqMembers
  <1>. QED
    BY <1>2, <1>3

\* The table gets one more run.
NewRun(t) ==
    [findings |-> ctx[t].findings, errors |-> ctx[t].errors, round |-> ctx[t].round,
     stayed |-> stayed[t]]

LEMMA RunIsAdded ==
    ASSUME Typed, NEW t \in Checkers, save_run(t)
    PROVE  /\ IsSeq(runs') /\ Len(runs') <= KeepRuns /\ ToSet(runs') \subseteq ToSet(runs) \cup {NewRun(t)}
  <1>1. IsSeq(runs)
    BY DEF Typed, Stored
  <1>2. /\ IsSeq(Append(runs, NewRun(t)))
        /\ ToSet(Append(runs, NewRun(t))) = ToSet(runs) \cup {NewRun(t)}
    BY <1>1, AppendMembers
  <1>3. runs' = Newest(Append(runs, NewRun(t)))
    BY DEF save_run, NewRun
  <1>. QED
    BY <1>2, <1>3, NewestMembers

LEMMA StoredStep ==
    ASSUME Typed, Step
    PROVE  Stored'
  <1>1. CASE Quiet
    BY <1>1 DEF Quiet, Typed, Stored
  <1>2. ASSUME NEW t \in Checkers, run_in_background(t) \/ EndCheck(t) PROVE Stored'
    BY <1>2 DEF run_in_background, EndCheck, Typed, Stored
  <1>3. ASSUME NEW t \in Checkers, save_run(t) PROVE Stored'
    <2>1. IsLocal(ctx[t], Places)
      BY DEF Typed, Threaded, Threads, ThreadOK
    <2>2. NewRun(t).findings = ctx[t].findings
      BY DEF NewRun
    <2>3. IsSeq(NewRun(t).findings) /\ \A f \in ToSet(NewRun(t).findings) : GoodFinding(f)
      BY <2>1, <2>2 DEF IsLocal
    <2>4. last_error' = last_error
      BY <1>3 DEF save_run
    <2>. QED
      BY <1>3, <2>3, <2>4, RunIsAdded DEF Typed, Stored
  <1>. QED
    BY <1>1, <1>2, <1>3, QuietSteps

LEMMA OneCheckStep ==
    ASSUME Typed, Step
    PROVE  OneCheck'
  <1>0. DOMAIN pc = Threads /\ Checkers \subseteq Threads
    BY DEF Typed, Threaded, Threads
  <1>1. CASE Quiet
    BY <1>1 DEF Quiet, Typed, OneCheck
  <1>2. ASSUME NEW t \in Checkers, run_in_background(t) PROVE OneCheck'
    <2>1. Running = {} /\ running' = TRUE
      BY <1>2 DEF run_in_background, Typed, OneCheck
    <2>2. \A s \in Checkers : pc'[s] = IF s = t THEN "first" ELSE pc[s]
      BY <1>0, <1>2 DEF run_in_background, Goto
    <2>3. Running' = {t}
      BY <2>1, <2>2 DEF Running
    <2>. QED
      BY <2>1, <2>3 DEF OneCheck
  <1>3. ASSUME NEW t \in Checkers, save_run(t) PROVE OneCheck'
    <2>1. Goto(t, "ending") /\ pc[t] = "first" /\ running' = running
      BY <1>3 DEF save_run, At
    <2>2. Running' = Running
      BY <2>1, KeepsRunning
    <2>. QED
      BY <2>1, <2>2 DEF Typed, OneCheck
  <1>4. ASSUME NEW t \in Checkers, EndCheck(t) PROVE OneCheck'
    <2>1. t \in Running /\ running' = FALSE
      BY <1>4 DEF EndCheck, At, Running
    <2>2. Running = {t}
      BY <2>1 DEF Typed, OneCheck
    <2>3. \A s \in Checkers : pc'[s] = IF s = t THEN "idle" ELSE pc[s]
      BY <1>0, <1>4 DEF EndCheck, Return, Goto
    <2>4. Running' = {}
      BY <2>2, <2>3 DEF Running
    <2>. QED
      BY <2>1, <2>4 DEF OneCheck
  <1>. QED
    BY <1>1, <1>2, <1>3, <1>4, QuietSteps

LEMMA TypedInit == Init => Typed
  <1>. SUFFICES ASSUME Init PROVE Typed
    OBVIOUS
  <1>1. Tagged
    BY PropagationAssumption DEF Init, Tagged, exists, IsStory
  <1>2. Threaded
    BY FirstLocals DEF Init, Threaded
  <1>3. Stored
    <2>1. IsSeq(<<>>) /\ ToSet(<<>>) = {} /\ Len(<<>>) <= KeepRuns
      BY PropagationAssumption DEF IsSeq, ToSet
    <2>. QED
      BY <2>1 DEF Init, Stored
  <1>4. OneCheck
    BY DEF Init, OneCheck, Running, Threads
  <1>. QED
    BY <1>1, <1>2, <1>3, <1>4 DEF Typed

LEMMA TypedStep == Typed /\ [Next]_vars => Typed'
  <1>1. ASSUME Typed, Step PROVE Typed'
    BY <1>1, TaggedStep, ThreadedStep, StoredStep, OneCheckStep DEF Typed
  <1>2. ASSUME Typed, UNCHANGED vars PROVE Typed'
    BY <1>2 DEF vars, live, Typed, Tagged, Threaded, Stored, OneCheck, Running, Places, exists
  <1>. QED
    BY <1>1, <1>2 DEF Next

LEMMA TypedMeans == Typed => TypeOK
  <1>. SUFFICES ASSUME Typed PROVE TypeOK
    OBVIOUS
  <1>1. \A t \in Threads : pc[t] \in Spots /\ ctx[t].left \subseteq DOMAIN ctx[t].plan
    BY DEF Typed, Threaded, ThreadOK, IsLocal
  <1>2. Cardinality(Running) = IF running THEN 1 ELSE 0
    BY FS_EmptySet, FS_Singleton DEF Typed, OneCheck
  <1>. QED
    BY <1>1, <1>2 DEF Typed, Tagged, Stored, TypeOK, Running, Spots, Threads

\* The types: at most one check runs in the background, and the flag tells
\* whether one does; tags stay tags through plans, operations and edits.
THEOREM TypeCorrect == Spec => []TypeOK
BY TypedInit, TypedStep, TypedMeans, PTL DEF Spec

-----------------------------------------------------------------------------
(***************************************************************************)
(* The invariant of the gaps                                               *)
(***************************************************************************)

\* What a run, or the locals of a check, say of a gap.
Known(run, g) ==
    \/ [place |-> g.pair.place, rule |-> g.pair.rule] \in run.errors
    \/ \E f \in ToSet(run.findings) : Answers(f, g)

Ahead(c, g) == [place |-> g.pair.place, rule |-> g.pair.rule] \in ToSet(c.todo)

\* A gap that has stayed since the check began is known or still to be looked
\* for; between the two views of a rule, the first one has it.
Pursued(t) ==
    /\ stayed[t] \subseteq Gaps
    /\ pc[t] \in {"first", "second"} => \A g \in stayed[t] : Known(ctx[t], g) \/ Ahead(ctx[t], g)
    /\ pc[t] = "second" => \A g \in stayed[t] : GapIn(ctx[t].first, g)

AllKnown == \A run \in ToSet(runs) : \A g \in run.stayed : Known(run, g)

GapsInv == Typed /\ (\A t \in Checkers : Pursued(t)) /\ AllKnown

\* A gap is one in the tags as they are.
LEMMA GapFacts ==
    ASSUME Tagged, NEW g \in Gaps
    PROVE  /\ g.pair \in story.pairs /\ GapIn(View, g) /\ g.have # g.want
           /\ Ahead([todo |-> Tasks(Places, story.rules)], g)
           /\ IsChild(g.pair.rule, story.inventory[g.pair.place], g.pair.parent, g.pair.child)
  <1>1. PICK q \in story.pairs : g \in GapsOf(q)
    BY DEF Gaps
  <1>2. PICK k \in DOMAIN propagated_keys(tags[q.parent]) :
           /\ Value(q.child, k) # Value(q.parent, k)
           /\ g = [pair |-> q, key |-> k, want |-> Value(q.parent, k), have |-> Value(q.child, k)]
    BY <1>1 DEF GapsOf
  <1>3. g.pair = q /\ g.key = k /\ g.want = Value(q.parent, k) /\ g.have = Value(q.child, k)
    BY <1>2
  <1>4. /\ q.place \in Places /\ q.rule \in ToSet(story.rules)
        /\ IsChild(q.rule, story.inventory[q.place], q.parent, q.child)
    BY StoryFacts
  <1>5. q.parent \in exists /\ q.child \in exists
    <2>1. ToSet(story.inventory[q.place]) \subseteq exists
      BY <1>4, StoryFacts, SeqIsSeq
    <2>2. {q.parent, q.child} \subseteq ToSet(story.inventory[q.place])
      BY <1>4 DEF IsChild
    <2>. QED
      BY <2>1, <2>2
  <1>6. IsTagSet(tags[q.parent]) /\ IsTagSet(tags[q.child])
    BY <1>5 DEF Tagged
  <1>7. ParentHas(tags[q.parent], g)
    <2>1. k \in DOMAIN tags[q.parent]
      BY <1>2, <1>6, PropagatedTags
    <2>. QED
      BY <1>2, <1>3, <2>1 DEF ParentHas, Value
  <1>8. ChildHas(tags[q.child], g)
    <2>1. \A x \in DOMAIN tags[q.child] : tags[q.child][x] # None
      BY <1>6, PropagationAssumption DEF IsTagSet
    <2>. QED
      BY <1>3, <2>1 DEF ChildHas, Value
  <1>9. View.tags = tags
    BY DEF View
  <1>10. Ahead([todo |-> Tasks(Places, story.rules)], g)
    <2>1. IsFiniteSet(Places) /\ IsSeq(story.rules)
      BY StoryFacts, SeqIsSeq
    <2>. QED
      BY <1>3, <1>4, <2>1, TasksMembers DEF Ahead
  <1>. QED
    BY <1>2, <1>3, <1>4, <1>7, <1>8, <1>9, <1>10 DEF GapIn

\* The history of a checker goes on with gaps that there are now and were there
\* in the state before.
LEMMA StayedShrinks ==
    ASSUME Typed, Observe, NEW t \in Checkers
    PROVE  /\ stayed'[t] \subseteq Gaps'
           /\ pc'[t] = "idle" => stayed'[t] = {}
           /\ pc[t] # "idle" => stayed'[t] \subseteq stayed[t]
           /\ pc[t] = "idle" => stayed'[t] \subseteq Gaps
  <1>1. t \in Threads /\ t \notin Users
    BY PropagationAssumption DEF Threads
  <1> DEFINE kept(s) == Gaps' \cap IF pc[s] = "idle" THEN Gaps ELSE stayed[s]
  <1>2. stayed' = [s \in Threads |-> CASE s \in Users \/ pc'[s] = "idle" -> {}
                                       [] s \in Checkers /\ pc'[s] # "idle" -> kept(s)]
    BY DEF Observe
  <1>3. stayed'[t] = IF pc'[t] = "idle" THEN {} ELSE kept(t)
    <2>. HIDE DEF kept
    <2>. QED
      BY <1>1, <1>2
  <1>. QED
    BY <1>3

LEMMA KnownStays ==
    ASSUME NEW c, NEW d, c.errors \subseteq d.errors, ToSet(c.findings) \subseteq ToSet(d.findings),
           NEW g, Known(c, g)
    PROVE  Known(d, g)
BY DEF Known

\* A step is one of one thread.
Only(s) == \A t \in Threads \ {s} : pc'[t] = pc[t] /\ ctx'[t] = ctx[t]

LEMMA OneMoves ==
    ASSUME Typed, Step
    PROVE  \/ UNCHANGED <<pc, ctx>> \/ \E u \in Users : Only(u)
           \/ \E t \in Checkers : Only(t) /\ (run_in_background(t) \/ CheckerStep(t))
  <1>0. /\ DOMAIN pc = Threads /\ DOMAIN ctx = Threads
        /\ \A t \in Threads \ Users : t \in Checkers
    BY DEF Typed, Threaded, Threads
  <1>1. ASSUME NEW s, Return(s) PROVE Only(s)
    BY <1>0, <1>1 DEF Return, Goto, Only
  <1>2. ASSUME NEW s, ReadFirst(s) \/ ReadSecond(s) \/ RuleFails(s) PROVE Only(s)
    BY <1>0, <1>2 DEF ReadFirst, ReadSecond, RuleFails, Goto, Only
  <1>3. ASSUME NEW t \in Checkers, run_in_background(t) PROVE Only(t)
    BY <1>0, <1>3 DEF run_in_background, Goto, Only
  <1>4. ASSUME NEW t \in Checkers, CheckerStep(t) PROVE Only(t)
    <2>1. ASSUME save_run(t) \/ CheckRaises(t) PROVE Only(t)
      BY <1>0, <2>1 DEF save_run, CheckRaises, Goto, Only
    <2>. QED
      BY <1>1, <1>2, <1>4, <2>1 DEF CheckerStep, EndCheck
  <1>5. ASSUME NEW u \in Users, FixStep(u) PROVE Only(u)
    <2>1. ASSUME NEW ids, NEW o, api_propagation_preview(u, ids, o) PROVE Only(u)
      BY <1>0, <2>1 DEF api_propagation_preview, Goto, Only
    <2>2. ASSUME NEW ids, NEW o, StartApply(u, ids, o) PROVE Only(u)
      <3>1. \/ Return(u)
            \/ (\E c : ctx' = [ctx EXCEPT ![u] = c]) /\ Goto(u, "tag")
        BY <2>2 DEF StartApply
      <3>2. ASSUME NEW c, ctx' = [ctx EXCEPT ![u] = c], Goto(u, "tag") PROVE Only(u)
        BY <1>0, <3>2 DEF Goto, Only
      <3>. QED
        BY <1>1, <3>1, <3>2
    <2>3. CASE TagChild(u) \/ DoOp(u)
      <3>1. /\ UNCHANGED pc
            /\ \/ \E r : ctx' = [ctx EXCEPT ![u].left = @ \ {r}]
               \/ \E op : ctx' = [ctx EXCEPT ![u].ops = @ \ {op}]
        BY <2>3 DEF TagChild, DoOp
      <3>. QED
        BY <1>0, <3>1 DEF Only
    <2>. QED
      BY <1>1, <1>5, <2>1, <2>2, <2>3 DEF FixStep, EndApply
  <1>6. ASSUME NEW u \in Users, SyncStep(u) PROVE Only(u)
    <2>1. ASSUME NEW q, NEW o, NEW d, NEW c, propagate(u, q.place, q.rule, q.parent, o, d, c)
          PROVE  Only(u)
      BY <1>0, <2>1 DEF propagate, Goto, Only
    <2>2. ASSUME SyncApply(u) PROVE Only(u)
      <3>1. \/ Return(u)
            \/ (\E c : ctx' = [ctx EXCEPT ![u] = c]) /\ Goto(u, "tag")
        BY <2>2 DEF SyncApply
      <3>2. ASSUME NEW c, ctx' = [ctx EXCEPT ![u] = c], Goto(u, "tag") PROVE Only(u)
        BY <1>0, <3>2 DEF Goto, Only
      <3>. QED
        BY <1>1, <3>1, <3>2
    <2>. QED
      BY <1>1, <1>2, <1>6, <2>1, <2>2 DEF SyncStep, SyncRaises
  <1>7. ASSUME NEW e, Edit(e) PROVE UNCHANGED <<pc, ctx>>
    BY <1>7 DEF Edit
  <1>. QED
    BY <1>3, <1>4, <1>5, <1>6, <1>7 DEF Step

\* A thread that stays where it is.
LEMMA PursuedElsewhere ==
    ASSUME GapsInv, Observe, NEW t \in Checkers, pc'[t] = pc[t], ctx'[t] = ctx[t]
    PROVE  Pursued(t)'
  <1>1. /\ stayed'[t] \subseteq Gaps' /\ (pc'[t] = "idle" => stayed'[t] = {})
        /\ pc[t] # "idle" => stayed'[t] \subseteq stayed[t]
    BY StayedShrinks DEF GapsInv
  <1>2. Pursued(t)
    BY DEF GapsInv
  <1>3. \A g : Known(ctx[t], g)' <=> Known(ctx[t], g)
    BY DEF Known
  <1>4. \A g : Ahead(ctx[t], g)' <=> Ahead(ctx[t], g)
    BY DEF Ahead
  <1>5. \A g : GapIn(ctx[t].first, g)' <=> GapIn(ctx[t].first, g)
    BY DEF GapIn
  <1>6. pc[t] \in {"first", "second"} => stayed'[t] \subseteq stayed[t]
    BY <1>1
  <1>. QED
    BY <1>1, <1>2, <1>3, <1>4, <1>5, <1>6 DEF Pursued

\* The first view has the gaps there are, and those have stayed.
LEMMA PursuedStep ==
    ASSUME GapsInv, Step, Observe, NEW t \in Checkers
    PROVE  Pursued(t)'
  <1>0. Typed /\ Tagged /\ Pursued(t) /\ t \in Threads /\ Places' = Places /\ exists' = exists
    BY TaggedStep DEF GapsInv, Typed, Threads
  <1>1. /\ stayed'[t] \subseteq Gaps' /\ (pc'[t] = "idle" => stayed'[t] = {})
        /\ pc[t] # "idle" => stayed'[t] \subseteq stayed[t]
        /\ pc[t] = "idle" => stayed'[t] \subseteq Gaps
    BY <1>0, StayedShrinks
  <1>2. CASE pc'[t] = pc[t] /\ ctx'[t] = ctx[t]
    BY <1>2, PursuedElsewhere
  <1>3. CASE pc'[t] \notin {"first", "second"}
    BY <1>1, <1>3 DEF Pursued
  <1>4. CASE run_in_background(t)
    <2>1. pc[t] = "idle" /\ pc'[t] = "first"
      BY <1>0, <1>4 DEF run_in_background, At, Goto, Typed, Threaded
    <2>2. ctx'[t].todo = Tasks(Places, story.rules)
      <3>1. DOMAIN ctx = Threads /\ "todo" \in DOMAIN ctx[t]
        BY <1>0, Fields DEF Typed, Threaded, ThreadOK, IsLocal
      <3>. QED
        BY <1>0, <1>4, <3>1 DEF run_in_background
    <2>3. ASSUME NEW g \in stayed'[t] PROVE Ahead(ctx[t], g)'
      <3>1. Ahead([todo |-> Tasks(Places, story.rules)], g)
        BY <1>0, <1>1, <2>1, GapFacts
      <3>. QED
        BY <2>2, <3>1 DEF Ahead
    <2>. QED
      BY <1>1, <2>1, <2>3 DEF Pursued
  <1>5. CASE ReadFirst(t)
    <2>1. pc[t] = "first" /\ pc'[t] = "second"
      BY <1>0, <1>5 DEF ReadFirst, At, Goto, Typed, Threaded
    <2>2. /\ ctx'[t].first = View /\ ctx'[t].todo = ctx[t].todo
          /\ ctx'[t].findings = ctx[t].findings /\ ctx'[t].errors = ctx[t].errors
      BY <1>0, <1>5, ReadFirstOK
    <2>3. stayed'[t] \subseteq stayed[t] /\ stayed[t] \subseteq Gaps
      BY <1>0, <1>1, <2>1 DEF Pursued
    <2>4. ASSUME NEW g \in stayed'[t]
          PROVE  (Known(ctx[t], g)' \/ Ahead(ctx[t], g)') /\ GapIn(ctx[t].first, g)'
      <3>1. Known(ctx[t], g) \/ Ahead(ctx[t], g)
        BY <1>0, <2>1, <2>3 DEF Pursued
      <3>2. Known(ctx[t], g) => Known(ctx[t], g)'
        BY <2>2 DEF Known
      <3>3. Ahead(ctx[t], g) => Ahead(ctx[t], g)'
        BY <2>2 DEF Ahead
      <3>4. GapIn(View, g)
        BY <1>0, <2>3, GapFacts
      <3>5. GapIn(ctx[t].first, g)'
        BY <2>2, <3>4 DEF GapIn
      <3>. QED
        BY <3>1, <3>2, <3>3, <3>5
    <2>. QED
      BY <1>1, <2>1, <2>4 DEF Pursued
  <1>6. ASSUME ctx'[t].todo = Tail(ctx[t].todo), pc[t] \in {"first", "second"}, pc'[t] = "first",
               ctx[t].todo # <<>>, ctx[t].errors \subseteq ctx'[t].errors,
               ToSet(ctx[t].findings) \subseteq ToSet(ctx'[t].findings),
               \A g \in stayed[t] : Task(t) = [place |-> g.pair.place, rule |-> g.pair.rule]
                                        => Known(ctx'[t], g)
        PROVE  Pursued(t)'
    <2>1. stayed'[t] \subseteq stayed[t]
      BY <1>1, <1>6
    <2>2. ASSUME NEW g \in stayed'[t] PROVE Known(ctx[t], g)' \/ Ahead(ctx[t], g)'
      <3>1. Known(ctx[t], g) \/ Ahead(ctx[t], g)
        BY <1>0, <1>6, <2>1 DEF Pursued
      <3>2. Known(ctx[t], g) => Known(ctx'[t], g)
        BY <1>6, KnownStays
      <3>3. IsSeq(ctx[t].todo)
        BY <1>0 DEF Typed, Threaded, ThreadOK, IsLocal
      <3>4. ToSet(ctx[t].todo) = {Task(t)} \cup ToSet(ctx'[t].todo)
        BY <1>6, <3>3, TailMembers DEF Task
      <3>5. Ahead(ctx[t], g) => Known(ctx'[t], g) \/ Ahead(ctx'[t], g)
        BY <1>6, <2>1, <3>4 DEF Ahead
      <3>6. (Known(ctx'[t], g) => Known(ctx[t], g)') /\ (Ahead(ctx'[t], g) => Ahead(ctx[t], g)')
        BY DEF Known, Ahead
      <3>. QED
        BY <3>1, <3>2, <3>5, <3>6
    <2>. QED
      BY <1>1, <1>6, <2>2 DEF Pursued
  <1>7. CASE ReadSecond(t)
    <2>1. pc[t] = "second" /\ pc'[t] = "first" /\ ctx[t].todo # <<>>
      BY <1>0, <1>7 DEF ReadSecond, At, Goto, Typed, Threaded, ThreadOK
    <2>2. /\ ctx'[t].todo = Tail(ctx[t].todo) /\ ctx'[t].errors = ctx[t].errors
          /\ ToSet(ctx[t].findings) \subseteq ToSet(ctx'[t].findings)
      BY <1>0, <1>7, ReadSecondOK
    <2>3. ASSUME NEW g \in stayed[t], Task(t) = [place |-> g.pair.place, rule |-> g.pair.rule]
          PROVE  Known(ctx'[t], g)
      <3>1. g \in Gaps /\ GapIn(ctx[t].first, g)
        BY <1>0, <2>1 DEF Pursued
      <3>2. /\ GapIn(View, g) /\ g.have # g.want
            /\ IsChild(g.pair.rule, story.inventory[g.pair.place], g.pair.parent, g.pair.child)
        BY <1>0, <3>1, GapFacts
      <3>3. Task(t).place = g.pair.place /\ Task(t).rule = g.pair.rule
        BY <2>3
      <3>4. \E f \in ToSet(ctx'[t].findings) : Answers(f, g)
        BY <1>0, <1>7, <3>1, <3>2, <3>3, ReadSecondOK
      <3>. QED
        BY <3>4 DEF Known
    <2>. QED
      BY <1>6, <2>1, <2>2, <2>3
  <1>8. CASE RuleFails(t)
    <2>1. pc[t] \in {"first", "second"} /\ pc'[t] = "first" /\ ctx[t].todo # <<>>
      BY <1>0, <1>8 DEF RuleFails, Checking, Goto, Typed, Threaded
    <2>2. /\ ctx'[t].todo = Tail(ctx[t].todo) /\ ctx'[t].errors = ctx[t].errors \cup {Task(t)}
          /\ ctx'[t].findings = ctx[t].findings
      BY <1>0, <1>8, RuleFailsOK
    <2>3. \A g : Task(t) = [place |-> g.pair.place, rule |-> g.pair.rule] => Known(ctx'[t], g)
      BY <2>2 DEF Known
    <2>. QED
      BY <1>6, <2>1, <2>2, <2>3
  <1>9. CASE save_run(t) \/ CheckRaises(t) \/ EndCheck(t)
    <2>1. pc'[t] \in {"ending", "idle"}
      BY <1>0, <1>9 DEF save_run, CheckRaises, EndCheck, Return, Goto, Typed, Threaded
    <2>. QED
      BY <1>3, <2>1
  <1>10. CASE Only(t) /\ (run_in_background(t) \/ CheckerStep(t))
    BY <1>4, <1>5, <1>7, <1>8, <1>9, <1>10 DEF CheckerStep
  <1>11. ASSUME NEW s, s # t, Only(s) PROVE Pursued(t)'
    BY <1>0, <1>2, <1>11 DEF Only
  <1>12. \A u \in Users : u # t
    BY PropagationAssumption
  <1>. QED
    BY <1>0, <1>2, <1>10, <1>11, <1>12, OneMoves

\* When a check has looked everywhere, its run knows what has stayed.
LEMMA AllKnownStep ==
    ASSUME GapsInv, Step
    PROVE  AllKnown'
  <1>0. Typed /\ AllKnown
    BY DEF GapsInv
  <1>1. CASE runs' = runs
    BY <1>0, <1>1 DEF AllKnown, Known
  <1>2. ASSUME NEW t \in Checkers, save_run(t) PROVE AllKnown'
    <2>1. pc[t] = "first" /\ ctx[t].todo = <<>> /\ Pursued(t)
      BY <1>2 DEF save_run, At, GapsInv
    <2>2. ASSUME NEW g \in stayed[t] PROVE Known(ctx[t], g)
      <3>1. ToSet(<<>>) = {}
        BY DEF ToSet
      <3>. QED
        BY <2>1, <3>1 DEF Pursued, Ahead
    <2>3. /\ NewRun(t).stayed = stayed[t] /\ NewRun(t).errors = ctx[t].errors
          /\ NewRun(t).findings = ctx[t].findings
      BY DEF NewRun
    <2>4. \A g \in NewRun(t).stayed : Known(NewRun(t), g)
      BY <2>2, <2>3 DEF Known
    <2>5. \A run \in ToSet(runs') : \A g \in run.stayed : Known(run, g)
      BY <1>0, <1>2, <2>4, RunIsAdded DEF AllKnown
    <2>6. \A run, g : Known(run, g)' <=> Known(run, g)
      BY DEF Known
    <2>. QED
      BY <2>5, <2>6 DEF AllKnown
  <1>3. CASE Quiet
    BY <1>1, <1>3 DEF Quiet
  <1>4. ASSUME NEW t \in Checkers, run_in_background(t) \/ EndCheck(t) PROVE AllKnown'
    BY <1>1, <1>4 DEF run_in_background, EndCheck
  <1>. QED
    BY <1>0, <1>2, <1>3, <1>4, QuietSteps

LEMMA GapsInit == Init => GapsInv
  <1>. SUFFICES ASSUME Init PROVE GapsInv
    OBVIOUS
  <1>1. \A t \in Checkers : Pursued(t)
    BY DEF Init, Pursued, Threads
  <1>2. AllKnown
    <2>1. ToSet(<<>>) = {}
      BY DEF ToSet
    <2>. QED
      BY <2>1 DEF Init, AllKnown
  <1>. QED
    BY <1>1, <1>2, TypedInit DEF GapsInv

LEMMA GapsStep == GapsInv /\ [Next]_vars => GapsInv'
  <1>1. ASSUME GapsInv, Step, Observe PROVE GapsInv'
    <2>1. Typed'
      BY <1>1, TaggedStep, ThreadedStep, StoredStep, OneCheckStep DEF GapsInv, Typed
    <2>. QED
      BY <1>1, <2>1, PursuedStep, AllKnownStep DEF GapsInv
  <1>2. ASSUME GapsInv, UNCHANGED vars PROVE GapsInv'
    <2>1. Typed'
      BY <1>2, TypedStep DEF GapsInv
    <2>2. Gaps' = Gaps
      BY <1>2 DEF vars, live, Gaps, GapsOf, Value
    <2>3. ASSUME NEW t \in Checkers PROVE Pursued(t)'
      BY <1>2, <2>2 DEF vars, GapsInv, Pursued, Known, Ahead, GapIn
    <2>4. AllKnown'
      BY <1>2 DEF vars, GapsInv, AllKnown, Known
    <2>. QED
      BY <2>1, <2>3, <2>4 DEF GapsInv
  <1>. QED
    BY <1>1, <1>2 DEF Next

LEMMA GapsInvMeans == GapsInv => GapsAreFound
  <1>. SUFFICES ASSUME GapsInv, NEW i \in DOMAIN runs, NEW g \in runs[i].stayed
                PROVE  Finds(runs[i], g)
    BY DEF GapsAreFound
  <1>1. Known(runs[i], g)
    BY DEF GapsInv, AllKnown, ToSet
  <1>. QED
    BY <1>1 DEF Known, Finds, Answers, ToSet

\* A child's gap that stays while a check runs is in the run that it stores,
\* or its rule is reported to have failed there, for every rule, whatever
\* others write between the two views of a rule and whichever rules fail.
THEOREM GapsAreFoundHolds == Spec => []GapsAreFound
BY GapsInit, GapsStep, GapsInvMeans, PTL DEF Spec

-----------------------------------------------------------------------------
(***************************************************************************)
(* What is asked of a child, one finding after another: the last one that  *)
(* asks for a key has its way                                              *)
(***************************************************************************)
Over(a, b) == IF b = None THEN a ELSE b

LastOf(T) == CHOOSE i \in T : \A j \in T : j <= i
Said(s) == {i \in DOMAIN s : s[i] # None}
LastSaid(s) == IF Said(s) = {} THEN None ELSE s[LastOf(Said(s))]

LEMMA LastOfIs ==
    ASSUME NEW n \in Nat, NEW T \in SUBSET (1..n), NEW i \in T, \A j \in T : j <= i
    PROVE  LastOf(T) = i
  <1>1. \A j \in T : (\A m \in T : m <= j) => j = i
    OBVIOUS
  <1>. QED
    BY <1>1 DEF LastOf

LEMMA LastSaidAt ==
    ASSUME NEW s, NEW n \in Nat, DOMAIN s = 1..n,
           NEW i \in 1..n, s[i] # None, \A j \in 1..n : j > i => s[j] = None
    PROVE  LastSaid(s) = s[i]
  <1>1. i \in Said(s) /\ Said(s) \subseteq 1..n /\ \A j \in Said(s) : j <= i
    BY DEF Said
  <1>2. LastOf(Said(s)) = i
    BY <1>1, LastOfIs
  <1>. QED
    BY <1>1, <1>2 DEF LastSaid

LEMMA LastSaidIs ==
    ASSUME NEW s, NEW n \in Nat, DOMAIN s = 1..n
    PROVE  /\ (\A i \in 1..n : s[i] = None) => LastSaid(s) = None
           /\ (\E i \in 1..n : s[i] # None)
                => \E i \in 1..n : /\ s[i] # None /\ LastSaid(s) = s[i]
                                   /\ \A j \in 1..n : j > i => s[j] = None
  <1>1. Said(s) \subseteq 1..n
    BY DEF Said
  <1>2. (\A i \in 1..n : s[i] = None) => LastSaid(s) = None
    BY DEF LastSaid, Said
  <1>3. ASSUME \E i \in 1..n : s[i] # None
        PROVE  \E i \in 1..n : s[i] # None /\ \A j \in 1..n : j > i => s[j] = None
    <2>1. Said(s) # {}
      BY <1>3 DEF Said
    <2>2. PICK i \in Said(s) : \A j \in Said(s) : j <= i
      BY <1>1, <2>1, LastPosition
    <2>3. \A j \in 1..n : j > i => j \notin Said(s)
      BY <1>1, <2>2
    <2>. QED
      BY <2>2, <2>3 DEF Said
  <1>. QED
    BY <1>2, <1>3, LastSaidAt

\* What was said is said by one, and not by none.
LEMMA SaidBySome ==
    ASSUME NEW s, NEW n \in Nat, DOMAIN s = 1..n
    PROVE  LastSaid(s) # None <=> \E i \in 1..n : s[i] # None
BY LastSaidIs

\* Of two lists after one another, the second one goes before.
LEMMA LastSaidOfTwo ==
    ASSUME NEW s, NEW t, NEW st, NEW m \in Nat, NEW n \in Nat,
           DOMAIN s = 1..m, DOMAIN t = 1..n, DOMAIN st = 1..m + n,
           \A i \in 1..m : st[i] = s[i], \A i \in 1..n : st[m + i] = t[i]
    PROVE  LastSaid(st) = Over(LastSaid(s), LastSaid(t))
  <1>1. CASE \E i \in 1..n : t[i] # None
    <2>1. PICK i \in 1..n : /\ t[i] # None /\ LastSaid(t) = t[i]
                            /\ \A j \in 1..n : j > i => t[j] = None
      BY <1>1, LastSaidIs
    <2>2. ASSUME NEW j \in 1..m + n, j > m + i PROVE st[j] = None
      <3>1. j - m \in 1..n /\ j - m > i /\ m + (j - m) = j
        BY <2>2
      <3>. QED
        BY <2>1, <3>1
    <2>3. m + i \in 1..m + n /\ st[m + i] = t[i]
      OBVIOUS
    <2>4. LastSaid(st) = st[m + i]
      BY <2>1, <2>2, <2>3, m + n \in Nat, LastSaidAt
    <2>. QED
      BY <2>1, <2>3, <2>4 DEF Over
  <1>2. CASE \A i \in 1..n : t[i] = None
    <2>0. LastSaid(t) = None
      BY <1>2, LastSaidIs
    <2>00. ASSUME NEW j \in 1..m + n, j > m PROVE st[j] = None
      <3>1. j - m \in 1..n /\ m + (j - m) = j
        BY <2>00
      <3>. QED
        BY <1>2, <3>1
    <2>1. CASE \E i \in 1..m : s[i] # None
      <3>1. PICK i \in 1..m : /\ s[i] # None /\ LastSaid(s) = s[i]
                              /\ \A j \in 1..m : j > i => s[j] = None
        BY <2>1, LastSaidIs
      <3>2. \A j \in 1..m + n : j > i => st[j] = None
        BY <2>00, <3>1
      <3>3. i \in 1..m + n /\ st[i] = s[i]
        OBVIOUS
      <3>4. LastSaid(st) = st[i]
        BY <3>1, <3>2, <3>3, m + n \in Nat, LastSaidAt
      <3>. QED
        BY <2>0, <3>1, <3>3, <3>4 DEF Over
    <2>2. CASE \A i \in 1..m : s[i] = None
      <3>1. \A j \in 1..m + n : st[j] = None
        BY <2>00, <2>2
      <3>2. LastSaid(st) = None
        BY <3>1, m + n \in Nat, SaidBySome
      <3>3. LastSaid(s) = None
        BY <2>2, SaidBySome
      <3>. QED
        BY <2>0, <3>2, <3>3 DEF Over
    <2>. QED
      BY <2>1, <2>2
  <1>. QED
    BY <1>1, <1>2

LEMMA LastSaidOfOne ==
    ASSUME NEW s, DOMAIN s = 1..1
    PROVE  LastSaid(s) = s[1]
  <1>1. CASE s[1] = None
    <2>1. \A i \in 1..1 : s[i] = None
      BY <1>1
    <2>. QED
      BY <1>1, <2>1, SaidBySome
  <1>2. CASE s[1] # None
    <2>1. 1 \in 1..1 /\ \A j \in 1..1 : j > 1 => s[j] = None
      OBVIOUS
    <2>. QED
      BY <1>2, <2>1, LastSaidAt
  <1>. QED
    BY <1>1, <1>2

\* One more goes before all.
LEMMA LastSaidOfMore ==
    ASSUME NEW s, NEW st, NEW n \in Nat, DOMAIN s = 1..n, DOMAIN st = 1..n + 1,
           \A i \in 1..n : st[i] = s[i]
    PROVE  LastSaid(st) = Over(LastSaid(s), st[n + 1])
  <1> DEFINE one == [i \in 1..1 |-> st[n + 1]]
  <1>1. DOMAIN one = 1..1 /\ one[1] = st[n + 1] /\ \A i \in 1..1 : st[n + i] = one[i]
    OBVIOUS
  <1>. HIDE DEF one
  <1>2. LastSaid(one) = st[n + 1]
    BY <1>1, LastSaidOfOne
  <1>3. LastSaid(st) = Over(LastSaid(s), LastSaid(one))
    BY <1>1, 1 \in Nat, LastSaidOfTwo
  <1>. QED
    BY <1>2, <1>3

\* What a finding asks a child to get for a key, and what a list of findings does.
AskedOf(f, c, k) == IF f.id.child = c /\ k \in DOMAIN Asked(f, FALSE) THEN Asked(f, FALSE)[k] ELSE None
AskOf(fs, c, k) == LastSaid([i \in DOMAIN fs |-> AskedOf(fs[i], c, k)])

LEMMA NothingAsked == \A c, k : AskOf(<<>>, c, k) = None
  <1>. TAKE c, k
  <1>1. Said([i \in DOMAIN <<>> |-> AskedOf(<<>>[i], c, k)]) = {}
    BY DEF Said
  <1>. QED
    BY <1>1 DEF AskOf, LastSaid

LEMMA AskOfTwo ==
    ASSUME NEW fs, IsSeq(fs), NEW gs, IsSeq(gs), NEW c, NEW k
    PROVE  AskOf(fs \o gs, c, k) = Over(AskOf(fs, c, k), AskOf(gs, c, k))
  <1> DEFINE s == [i \in DOMAIN fs |-> AskedOf(fs[i], c, k)]
             t == [i \in DOMAIN gs |-> AskedOf(gs[i], c, k)]
             st == [i \in DOMAIN (fs \o gs) |-> AskedOf((fs \o gs)[i], c, k)]
             T == ToSet(fs) \cup ToSet(gs)
  <1>1. fs \in Seq(T) /\ gs \in Seq(T)
    BY DEF IsSeq
  <1>2. /\ DOMAIN fs = 1..Len(fs) /\ DOMAIN gs = 1..Len(gs) /\ Len(fs) \in Nat /\ Len(gs) \in Nat
        /\ DOMAIN (fs \o gs) = 1..Len(fs) + Len(gs)
    BY <1>1
  <1>3. /\ \A i \in 1..Len(fs) : (fs \o gs)[i] = fs[i]
        /\ \A i \in 1..Len(gs) : (fs \o gs)[Len(fs) + i] = gs[i]
    BY <1>1
  <1>4. \A i \in 1..Len(fs) : i \in 1..Len(fs) + Len(gs) /\ st[i] = s[i]
    BY <1>2, <1>3
  <1>5. \A i \in 1..Len(gs) : st[Len(fs) + i] = t[i]
    <2>1. \A i \in 1..Len(gs) : Len(fs) + i \in 1..Len(fs) + Len(gs)
      BY <1>2
    <2>. QED
      BY <1>2, <1>3, <2>1
  <1>6. DOMAIN s = 1..Len(fs) /\ DOMAIN t = 1..Len(gs) /\ DOMAIN st = 1..Len(fs) + Len(gs)
    BY <1>2
  <1>. HIDE DEF s, t, st
  <1>7. LastSaid(st) = Over(LastSaid(s), LastSaid(t))
    BY <1>2, <1>4, <1>5, <1>6, LastSaidOfTwo
  <1>. QED
    BY <1>7 DEF s, t, st, AskOf

\* The last of the lists that are joined has its way.
LEMMA AskOfMany ==
    ASSUME NEW ss, IsSeq(ss), \A i \in DOMAIN ss : IsSeq(ss[i]), NEW c, NEW k
    PROVE  AskOf(FlattenSeq(ss), c, k) = LastSaid([i \in DOMAIN ss |-> AskOf(ss[i], c, k)])
  <1>. DOMAIN ss = 1..Len(ss) /\ Len(ss) \in Nat
    BY SeqFacts
  <1> DEFINE ask(n) == [i \in 1..n |-> AskOf(ss[i], c, k)]
  <1>1. CASE Len(ss) = 0
    <2>1. FlattenSeq(ss) = ss /\ ss = <<>>
      <3>1. ss \in Seq(ToSet(ss))
        BY DEF IsSeq
      <3>. QED
        BY <1>1, <3>1 DEF FlattenSeq
    <2>2. Said(ask(0)) = {}
      BY DEF Said
    <2>. QED
      BY <1>1, <2>1, <2>2, NothingAsked DEF LastSaid
  <1>2. CASE Len(ss) # 0
    <2>1. PICK all : /\ FlattenSeq(ss) = all[Len(ss)]
                     /\ \A i \in 1..Len(ss) : all[i] = IF i = 1 THEN ss[i] ELSE all[i - 1] \o ss[i]
      BY <1>2, FlattenUnroll
    <2> DEFINE J == {n \in Nat : n + 1 <= Len(ss) =>
                      IsSeq(all[n + 1]) /\ AskOf(all[n + 1], c, k) = LastSaid(ask(n + 1))}
    <2>2. ASSUME NEW n \in Nat, n + 1 <= Len(ss)
          PROVE  LastSaid(ask(n + 1)) = Over(LastSaid(ask(n)), AskOf(ss[n + 1], c, k))
      <3>1. /\ DOMAIN ask(n) = 1..n /\ DOMAIN ask(n + 1) = 1..n + 1
            /\ \A i \in 1..n : ask(n + 1)[i] = ask(n)[i]
            /\ ask(n + 1)[n + 1] = AskOf(ss[n + 1], c, k)
        OBVIOUS
      <3>. HIDE DEF ask
      <3>. QED
        BY <3>1, LastSaidOfMore
    <2>3. 0 \in J
      <3>1. all[1] = ss[1] /\ IsSeq(ss[1])
        BY <1>2, <2>1
      <3>2. LastSaid(ask(0)) = None
        <4>1. Said(ask(0)) = {}
          BY DEF Said
        <4>. QED
          BY <4>1 DEF LastSaid
      <3>. HIDE DEF ask
      <3>3. LastSaid(ask(0 + 1)) = Over(LastSaid(ask(0)), AskOf(ss[0 + 1], c, k))
        BY <1>2, <2>2
      <3>. QED
        BY <3>1, <3>2, <3>3 DEF Over
    <2>4. ASSUME NEW n \in Nat, n \in J PROVE n + 1 \in J
      <3>. HIDE DEF ask
      <3>. SUFFICES ASSUME n + 2 <= Len(ss)
                    PROVE  IsSeq(all[n + 2]) /\ AskOf(all[n + 2], c, k) = LastSaid(ask(n + 2))
        BY n + 1 \in Nat /\ (n + 1) + 1 = n + 2
      <3>1. /\ IsSeq(all[n + 1]) /\ AskOf(all[n + 1], c, k) = LastSaid(ask(n + 1))
            /\ IsSeq(ss[n + 2])
        BY <2>4
      <3>2. all[n + 2] = all[n + 1] \o ss[n + 2]
        <4>1. n + 2 \in 1..Len(ss) /\ n + 2 # 1 /\ (n + 2) - 1 = n + 1
          OBVIOUS
        <4>. QED
          BY <2>1, <4>1
      <3>3. LastSaid(ask(n + 2)) = Over(LastSaid(ask(n + 1)), AskOf(ss[n + 2], c, k))
        <4>1. n + 1 \in Nat /\ (n + 1) + 1 = n + 2
          OBVIOUS
        <4>. QED
          BY <2>2, <4>1
      <3>. QED
        BY <3>1, <3>2, <3>3, ConcatMembers, AskOfTwo
    <2>. HIDE DEF J
    <2>5. Len(ss) - 1 \in J
      BY <1>2, <2>3, <2>4, Counting
    <2>. QED
      BY <1>2, <2>1, <2>5 DEF J
  <1>. QED
    BY <1>1, <1>2

\* What a parent and its children, as a rule reports them, ask a child to get.
RelAsk(rel, c, k) ==
    IF /\ k \in DOMAIN propagated_keys(rel.tags)
       /\ \E kid \in ToSet(rel.children) : kid.arn = c /\ k \notin DOMAIN kid.tags
    THEN rel.tags[k] ELSE None

LEMMA ValuesAreSome == ASSUME NEW ts, IsTagSet(ts) PROVE \A k \in DOMAIN ts : ts[k] # None
BY PropagationAssumption DEF IsTagSet

\* The values of a list that is silent, or says one thing only.
LEMMA SaysOnly ==
    ASSUME NEW s, NEW n \in Nat, DOMAIN s = 1..n, NEW v, v # None, \A i \in 1..n : s[i] \in {v, None}
    PROVE  LastSaid(s) = IF \E i \in 1..n : s[i] = v THEN v ELSE None
  <1>1. CASE \E i \in 1..n : s[i] = v
    <2>1. \E i \in 1..n : s[i] # None
      BY <1>1
    <2>2. PICK i \in 1..n : s[i] # None /\ LastSaid(s) = s[i]
      BY <2>1, LastSaidIs
    <2>. QED
      BY <1>1, <2>2
  <1>2. CASE ~\E i \in 1..n : s[i] = v
    <2>1. \A i \in 1..n : s[i] = None
      BY <1>2
    <2>. QED
      BY <1>2, <2>1, SaidBySome
  <1>. QED
    BY <1>1, <1>2

LEMMA RelFindingsAsk ==
    ASSUME NEW rule, NEW rel, GoodRel(rel), NEW c, NEW k
    PROVE  /\ IsSeq(RelFindings(rule, rel))
           /\ AskOf(RelFindings(rule, rel), c, k) = RelAsk(rel, c, k)
  <1> DEFINE expected == propagated_keys(rel.tags)
             miss(d) == missing(expected, d.tags)
             mis(d) == mismatched(expected, d.tags)
             issues == SetToSeq(rel.config)
             config == [i \in DOMAIN issues |->
                           Finding(rule, rel.parent, rel.parent, NoTags, NoTags, issues[i])]
             Wrong == {d \in ToSet(rel.children) : miss(d) # NoTags \/ mis(d) # NoTags}
             wrong == Where(rel.children, Wrong)
             found == [i \in DOMAIN wrong |->
                           Finding(rule, rel.parent, wrong[i].arn, miss(wrong[i]), mis(wrong[i]), NoTags)]
             conf == [i \in DOMAIN config |-> AskedOf(config[i], c, k)]
             kids == [i \in DOMAIN found |-> AskedOf(found[i], c, k)]
             Lacks(d) == k \in DOMAIN expected /\ d.arn = c /\ k \notin DOMAIN d.tags
  <1>1. RelFindings(rule, rel) = config \o found
    BY DEF RelFindings
  <1>2. /\ IsTagSet(rel.tags) /\ IsTagSet(expected) /\ DOMAIN expected \subseteq DOMAIN rel.tags
        /\ \A x \in DOMAIN expected : expected[x] = rel.tags[x]
    BY PropagatedTags DEF GoodRel
  <1>3. IsSeq(issues) /\ ToSet(issues) = rel.config
    BY SetToSeqMembers DEF GoodRel
  <1>4. IsSeq(wrong) /\ ToSet(wrong) = Wrong
    BY WhereMembers DEF GoodRel
  <1>5. /\ IsSeq(config) /\ DOMAIN config = DOMAIN issues
        /\ IsSeq(found) /\ DOMAIN found = DOMAIN wrong
    BY <1>3, <1>4, SeqFacts, ListIsSeq
  <1>. HIDE DEF issues, wrong
  <1>6. AskOf(config, c, k) = None
    <2>1. ASSUME NEW i \in DOMAIN config PROVE AskedOf(config[i], c, k) = None
      <3>1. Asked(config[i], FALSE) = NoTags
        BY <1>5 DEF Finding, Asked
      <3>. QED
        BY <3>1, EmptyTags DEF AskedOf
    <2>2. Said(conf) = {}
      BY <2>1 DEF Said
    <2>3. LastSaid(conf) = None
      BY <2>2 DEF LastSaid
    <2>. QED
      BY <2>3 DEF AskOf
  <1>7. ASSUME NEW i \in DOMAIN wrong
        PROVE  AskedOf(found[i], c, k) = IF Lacks(wrong[i]) THEN expected[k] ELSE None
    <2>1. /\ found[i].id.child = wrong[i].arn /\ found[i].missing = miss(wrong[i])
          /\ found[i].op = NoTags
      BY DEF Finding
    <2>2. Asked(found[i], FALSE) = miss(wrong[i])
      BY <2>1 DEF Asked, IsConfig
    <2>. HIDE DEF expected, found
    <2>3. /\ DOMAIN miss(wrong[i]) = DOMAIN expected \ DOMAIN wrong[i].tags
          /\ \A x \in DOMAIN miss(wrong[i]) : miss(wrong[i])[x] = expected[x]
      BY <1>2, RestrictTags DEF missing
    <2>. HIDE DEF miss
    <2>. QED
      BY <2>1, <2>2, <2>3 DEF AskedOf
  <1>8. \A d \in ToSet(rel.children) : Lacks(d) => d \in Wrong
    <2>. TAKE d \in ToSet(rel.children)
    <2>. HAVE Lacks(d)
    <2>. HIDE DEF expected
    <2>1. IsTagSet(expected)
      BY <1>2
    <2>2. DOMAIN miss(d) = DOMAIN expected \ DOMAIN d.tags
      BY <2>1, Differences
    <2>. HIDE DEF miss
    <2>3. k \in DOMAIN miss(d)
      BY <2>2
    <2>. QED
      BY <2>3, EmptyTags
  <1>. HIDE DEF Wrong, config, conf, found, kids
  <1>9. (\E i \in DOMAIN wrong : Lacks(wrong[i])) <=> \E d \in ToSet(rel.children) : Lacks(d)
    <2>1. \A d \in Wrong : \E i \in DOMAIN wrong : wrong[i] = d
      BY <1>4 DEF ToSet
    <2>2. \A i \in DOMAIN wrong : wrong[i] \in ToSet(rel.children)
      BY <1>4 DEF ToSet, Wrong
    <2>. QED
      BY <1>8, <2>1, <2>2
  <1>10. AskOf(found, c, k) = RelAsk(rel, c, k)
    <2>1. DOMAIN wrong = 1..Len(wrong) /\ Len(wrong) \in Nat /\ DOMAIN kids = DOMAIN wrong
      BY <1>4, <1>5, SeqFacts DEF kids
    <2>2. \A i \in DOMAIN wrong : kids[i] = IF Lacks(wrong[i]) THEN expected[k] ELSE None
      BY <1>5, <1>7 DEF kids
    <2>3. AskOf(found, c, k) = LastSaid(kids)
      BY DEF AskOf, kids
    <2>4. CASE k \in DOMAIN expected
      <3>1. expected[k] = rel.tags[k] /\ expected[k] # None
        BY <1>2, <2>4, ValuesAreSome
      <3>. HIDE DEF expected, Lacks
      <3>2. LastSaid(kids) = IF \E i \in 1..Len(wrong) : kids[i] = expected[k] THEN expected[k] ELSE None
        BY <2>1, <2>2, <3>1, SaysOnly
      <3>3. (\E i \in 1..Len(wrong) : kids[i] = expected[k]) <=> \E d \in ToSet(rel.children) : Lacks(d)
        BY <1>9, <2>1, <2>2, <3>1
      <3>. QED
        BY <2>3, <2>4, <3>1, <3>2, <3>3 DEF RelAsk, expected, Lacks
    <2>5. CASE k \notin DOMAIN expected
      <3>1. \A i \in DOMAIN wrong : kids[i] = None
        BY <2>2, <2>5
      <3>2. LastSaid(kids) = None
        BY <2>1, <3>1, SaidBySome
      <3>. QED
        BY <2>3, <2>5, <3>2 DEF RelAsk
    <2>. QED
      BY <2>4, <2>5
  <1>11. AskOf(config \o found, c, k) = AskOf(found, c, k)
    <2>1. AskOf(config \o found, c, k) = Over(None, AskOf(found, c, k))
      BY <1>5, <1>6, AskOfTwo
    <2>. QED
      BY <2>1 DEF Over
  <1>. QED
    BY <1>1, <1>5, <1>10, <1>11, ConcatMembers

\* What a rule asks for with what it reports.
LEMMA FindingsAsk ==
    ASSUME NEW rule, NEW rels, IsSeq(rels), \A rel \in ToSet(rels) : GoodRel(rel), NEW c, NEW k
    PROVE  AskOf(findings_for(rule, rels), c, k) = LastSaid([i \in DOMAIN rels |-> RelAsk(rels[i], c, k)])
  <1> DEFINE ss == [i \in DOMAIN rels |-> RelFindings(rule, rels[i])]
  <1>1. IsSeq(ss) /\ DOMAIN ss = DOMAIN rels
    BY SeqFacts, ListIsSeq
  <1>2. \A i \in DOMAIN rels : rels[i] \in ToSet(rels) /\ ss[i] = RelFindings(rule, rels[i])
    BY DEF ToSet
  <1>3. findings_for(rule, rels) = FlattenSeq(ss)
    BY DEF findings_for
  <1>. HIDE DEF ss
  <1>4. \A i \in DOMAIN rels : IsSeq(ss[i]) /\ AskOf(ss[i], c, k) = RelAsk(rels[i], c, k)
    BY <1>2, RelFindingsAsk
  <1>5. AskOf(FlattenSeq(ss), c, k) = LastSaid([i \in DOMAIN ss |-> AskOf(ss[i], c, k)])
    BY <1>1, <1>4, AskOfMany
  <1>6. [i \in DOMAIN ss |-> AskOf(ss[i], c, k)] = [i \in DOMAIN rels |-> RelAsk(rels[i], c, k)]
    BY <1>1, <1>4
  <1>. QED
    BY <1>3, <1>5, <1>6

-----------------------------------------------------------------------------
(***************************************************************************)
(* What a rule looks at does not depend on the tags: its parents, their    *)
(* children and which of those are described                               *)
(***************************************************************************)

\* The children of a parent, as they are reported; one that is not described
\* is reported without tags.
AsReported(m, view) == [arn |-> m.arn, tags |-> IF m.known THEN view.tags[m.arn] ELSE NoTags]
ReportedAs(members, view) == {AsReported(m, view) : m \in members}

Shape(rels, ps, kids, pview, cview) ==
    /\ DOMAIN rels = DOMAIN ps
    /\ \A i \in DOMAIN ps : /\ rels[i].tags = pview.tags[ps[i]]
                            /\ ToSet(rels[i].children) = ReportedAs(kids[i], cview)

Family(ps, kids, resources) ==
    /\ IsSeq(ps) /\ ToSet(ps) \subseteq resources
    /\ \A i \in DOMAIN ps : \A m \in kids[i] :
          m.arn \in resources => /\ HandsOn(ps[i], m.arn)
                                 /\ m.known \/ m.arn.state \in {"gone", "unknown"}

Described(rs) == {[arn |-> r, known |-> TRUE] : r \in ToSet(rs)}

LEMMA SeenAs ==
    ASSUME NEW rs, NEW view
    PROVE  ToSet(Seen(rs, view)) = ReportedAs(Described(rs), view)
  <1>1. ToSet(Seen(rs, view)) = {[arn |-> r, tags |-> view.tags[r]] : r \in ToSet(rs)}
    BY DEF Seen, ToSet
  <1>2. \A r : AsReported([arn |-> r, known |-> TRUE], view) = [arn |-> r, tags |-> view.tags[r]]
    BY DEF AsReported
  <1>. QED
    BY <1>1, <1>2 DEF ReportedAs, Described

LEMMA PlainShape ==
    ASSUME NEW ps, NEW lists, NEW rels, NEW pview, NEW cview, DOMAIN rels = DOMAIN ps,
           \A i \in DOMAIN ps : /\ rels[i].tags = pview.tags[ps[i]]
                                /\ rels[i].children = Seen(lists[i], cview)
    PROVE  Shape(rels, ps, [i \in DOMAIN ps |-> Described(lists[i])], pview, cview)
BY SeenAs DEF Shape

LEMMA PlainFamily ==
    ASSUME NEW ps, IsSeq(ps), NEW resources, ToSet(ps) \subseteq resources, NEW lists,
           \A i \in DOMAIN ps : \A r \in ToSet(lists[i]) : HandsOn(ps[i], r)
    PROVE  Family(ps, [i \in DOMAIN ps |-> Described(lists[i])], resources)
BY DEF Family, Described

LEMMA VpcShape ==
    ASSUME NEW resources, NEW w \in Seq(resources)
    PROVE  \E ps, kids : /\ Family(ps, kids, resources)
                         /\ \A first, second : Shape(_vpc(w, first, second), ps, kids, first, second)
  <1> DEFINE Kids(p) == Where(Attached(w, p, VpcKinds), {r \in ToSet(w) : r.kind = "natgateway" => r.state # "deleted"})
             ps == Listed(w, {"vpc"})
             lists == [i \in DOMAIN ps |-> Kids(ps[i])]
             kids == [i \in DOMAIN ps |-> Described(lists[i])]
  <1>1. IsSeq(w) /\ ToSet(w) \subseteq resources
    BY SeqIsSeq
  <1>2. ASSUME NEW p, NEW r \in ToSet(Kids(p)) PROVE HandsOn(p, r)
    BY <1>1, <1>2, AttachedMembers, WhereMembers DEF HandsOn
  <1>3. IsSeq(ps) /\ ToSet(ps) \subseteq resources
    BY <1>1, ListedMembers, WhereMembers
  <1>4. ASSUME NEW first, NEW second PROVE Shape(_vpc(w, first, second), ps, kids, first, second)
    <2> DEFINE rels == _vpc(w, first, second)
    <2>1. DOMAIN rels = DOMAIN ps /\ \A i \in DOMAIN ps : rels[i] = _rel(ps[i], first, Seen(lists[i], second))
      BY DEF _vpc
    <2>. HIDE DEF rels, ps, lists
    <2>2. \A i \in DOMAIN ps : /\ rels[i].tags = first.tags[ps[i]]
                               /\ rels[i].children = Seen(lists[i], second)
      BY <2>1 DEF _rel
    <2>3. Shape(rels, ps, kids, first, second)
      BY <2>1, <2>2, PlainShape
    <2>. QED
      BY <2>3 DEF rels
  <1>. HIDE DEF Kids, ps
  <1>5. Family(ps, kids, resources)
    BY <1>2, <1>3, PlainFamily
  <1>. QED
    BY <1>4, <1>5

LEMMA EbsVolumeShape ==
    ASSUME NEW resources, NEW w \in Seq(resources)
    PROVE  \E ps, kids : /\ Family(ps, kids, resources)
                         /\ \A first, second : Shape(_ebs_volume(w, first, second), ps, kids, first, second)
  <1> DEFINE Kids(p) == Attached(w, p, {"snapshot"})
             ps == Where(Listed(w, {"volume"}), {v \in ToSet(w) : Attached(w, v, {"snapshot"}) # <<>>})
             lists == [i \in DOMAIN ps |-> Kids(ps[i])]
             kids == [i \in DOMAIN ps |-> Described(lists[i])]
  <1>1. IsSeq(w) /\ ToSet(w) \subseteq resources
    BY SeqIsSeq
  <1>2. ASSUME NEW p, NEW r \in ToSet(Kids(p)) PROVE HandsOn(p, r)
    BY <1>1, <1>2, AttachedMembers, WhereMembers DEF HandsOn
  <1>3. IsSeq(ps) /\ ToSet(ps) \subseteq resources
    BY <1>1, ListedMembers, WhereMembers
  <1>4. ASSUME NEW first, NEW second PROVE Shape(_ebs_volume(w, first, second), ps, kids, first, second)
    <2> DEFINE rels == _ebs_volume(w, first, second)
    <2>1. DOMAIN rels = DOMAIN ps /\ \A i \in DOMAIN ps : rels[i] = _rel(ps[i], first, Seen(lists[i], second))
      BY DEF _ebs_volume
    <2>. HIDE DEF rels, ps, lists
    <2>2. \A i \in DOMAIN ps : /\ rels[i].tags = first.tags[ps[i]]
                               /\ rels[i].children = Seen(lists[i], second)
      BY <2>1 DEF _rel
    <2>3. Shape(rels, ps, kids, first, second)
      BY <2>1, <2>2, PlainShape
    <2>. QED
      BY <2>3 DEF rels
  <1>. HIDE DEF Kids, ps
  <1>5. Family(ps, kids, resources)
    BY <1>2, <1>3, PlainFamily
  <1>. QED
    BY <1>4, <1>5

LEMMA CloudformationShape ==
    ASSUME NEW resources, NEW w \in Seq(resources)
    PROVE  \E ps, kids : /\ Family(ps, kids, resources)
                         /\ \A first, second : Shape(_cloudformation(w, first, second), ps, kids, second, first)
  <1> DEFINE Kids(p) == Where(w, {r \in ToSet(w) : r.kind # "stack" /\ p.name \in r.of})
             ps == Where(Listed(w, {"stack"}), Live(w, "deleted"))
             lists == [i \in DOMAIN ps |-> Kids(ps[i])]
             kids == [i \in DOMAIN ps |-> Described(lists[i])]
  <1>1. IsSeq(w) /\ ToSet(w) \subseteq resources
    BY SeqIsSeq
  <1>2. ASSUME NEW p, NEW r \in ToSet(Kids(p)) PROVE HandsOn(p, r)
    BY <1>1, <1>2, AttachedMembers, WhereMembers DEF HandsOn
  <1>3. IsSeq(ps) /\ ToSet(ps) \subseteq resources
    BY <1>1, ListedMembers, WhereMembers
  <1>4. ASSUME NEW first, NEW second PROVE Shape(_cloudformation(w, first, second), ps, kids, second, first)
    <2> DEFINE rels == _cloudformation(w, first, second)
    <2>1. DOMAIN rels = DOMAIN ps /\ \A i \in DOMAIN ps : rels[i] = _rel(ps[i], second, Seen(lists[i], first))
      BY DEF _cloudformation
    <2>. HIDE DEF rels, ps, lists
    <2>2. \A i \in DOMAIN ps : /\ rels[i].tags = second.tags[ps[i]]
                               /\ rels[i].children = Seen(lists[i], first)
      BY <2>1 DEF _rel
    <2>3. Shape(rels, ps, kids, second, first)
      BY <2>1, <2>2, PlainShape
    <2>. QED
      BY <2>3 DEF rels
  <1>. HIDE DEF Kids, ps
  <1>5. Family(ps, kids, resources)
    BY <1>2, <1>3, PlainFamily
  <1>. QED
    BY <1>4, <1>5

LEMMA RdsClusterShape ==
    ASSUME NEW resources, NEW w \in Seq(resources)
    PROVE  \E ps, kids : /\ Family(ps, kids, resources)
                         /\ \A first, second : Shape(_rds_cluster(w, first, second), ps, kids, second, first)
  <1> DEFINE Kids(p) == Where(Attached(w, p, {"db"}), Live(w, "gone"))
             ps == Listed(w, {"dbcluster"})
             lists == [i \in DOMAIN ps |-> Kids(ps[i])]
             kids == [i \in DOMAIN ps |-> Described(lists[i])]
  <1>1. IsSeq(w) /\ ToSet(w) \subseteq resources
    BY SeqIsSeq
  <1>2. ASSUME NEW p, NEW r \in ToSet(Kids(p)) PROVE HandsOn(p, r)
    BY <1>1, <1>2, AttachedMembers, WhereMembers DEF HandsOn
  <1>3. IsSeq(ps) /\ ToSet(ps) \subseteq resources
    BY <1>1, ListedMembers, WhereMembers
  <1>4. ASSUME NEW first, NEW second PROVE Shape(_rds_cluster(w, first, second), ps, kids, second, first)
    <2> DEFINE rels == _rds_cluster(w, first, second)
    <2>1. DOMAIN rels = DOMAIN ps /\ \A i \in DOMAIN ps : rels[i] = _rel(ps[i], second, Seen(lists[i], first))
      BY DEF _rds_cluster
    <2>. HIDE DEF rels, ps, lists
    <2>2. \A i \in DOMAIN ps : /\ rels[i].tags = second.tags[ps[i]]
                               /\ rels[i].children = Seen(lists[i], first)
      BY <2>1 DEF _rel
    <2>3. Shape(rels, ps, kids, second, first)
      BY <2>1, <2>2, PlainShape
    <2>. QED
      BY <2>3 DEF rels
  <1>. HIDE DEF Kids, ps
  <1>5. Family(ps, kids, resources)
    BY <1>2, <1>3, PlainFamily
  <1>. QED
    BY <1>4, <1>5

LEMMA EksClusterShape ==
    ASSUME NEW resources, NEW w \in Seq(resources)
    PROVE  \E ps, kids : /\ Family(ps, kids, resources)
                         /\ \A first, second : Shape(_eks_cluster(w, first, second), ps, kids, first, second)
  <1> DEFINE Kids(p) == Attached(w, p, {"nodegroup"})
             ps == Listed(w, {"ekscluster"})
             lists == [i \in DOMAIN ps |-> Kids(ps[i])]
             kids == [i \in DOMAIN ps |-> Described(lists[i])]
  <1>1. IsSeq(w) /\ ToSet(w) \subseteq resources
    BY SeqIsSeq
  <1>2. ASSUME NEW p, NEW r \in ToSet(Kids(p)) PROVE HandsOn(p, r)
    BY <1>1, <1>2, AttachedMembers, WhereMembers DEF HandsOn
  <1>3. IsSeq(ps) /\ ToSet(ps) \subseteq resources
    BY <1>1, ListedMembers, WhereMembers
  <1>4. ASSUME NEW first, NEW second PROVE Shape(_eks_cluster(w, first, second), ps, kids, first, second)
    <2> DEFINE rels == _eks_cluster(w, first, second)
    <2>1. DOMAIN rels = DOMAIN ps /\ \A i \in DOMAIN ps : rels[i] = _rel(ps[i], first, Seen(lists[i], second))
      BY DEF _eks_cluster
    <2>. HIDE DEF rels, ps, lists
    <2>2. \A i \in DOMAIN ps : /\ rels[i].tags = first.tags[ps[i]]
                               /\ rels[i].children = Seen(lists[i], second)
      BY <2>1 DEF _rel
    <2>3. Shape(rels, ps, kids, first, second)
      BY <2>1, <2>2, PlainShape
    <2>. QED
      BY <2>3 DEF rels
  <1>. HIDE DEF Kids, ps
  <1>5. Family(ps, kids, resources)
    BY <1>2, <1>3, PlainFamily
  <1>. QED
    BY <1>4, <1>5

LEMMA Elbv2Shape ==
    ASSUME NEW resources, NEW w \in Seq(resources)
    PROVE  \E ps, kids : /\ Family(ps, kids, resources)
                         /\ \A first, second : Shape(_elbv2(w, first, second), ps, kids, second, second)
  <1> DEFINE Kids(p) == Attached(w, p, {"targetgroup"})
             ps == Listed(w, {"loadbalancer"})
             lists == [i \in DOMAIN ps |-> Kids(ps[i])]
             kids == [i \in DOMAIN ps |-> Described(lists[i])]
  <1>1. IsSeq(w) /\ ToSet(w) \subseteq resources
    BY SeqIsSeq
  <1>2. ASSUME NEW p, NEW r \in ToSet(Kids(p)) PROVE HandsOn(p, r)
    BY <1>1, <1>2, AttachedMembers, WhereMembers DEF HandsOn
  <1>3. IsSeq(ps) /\ ToSet(ps) \subseteq resources
    BY <1>1, ListedMembers, WhereMembers
  <1>4. ASSUME NEW first, NEW second PROVE Shape(_elbv2(w, first, second), ps, kids, second, second)
    <2> DEFINE rels == _elbv2(w, first, second)
    <2>1. DOMAIN rels = DOMAIN ps /\ \A i \in DOMAIN ps : rels[i] = _rel(ps[i], second, Seen(lists[i], second))
      BY DEF _elbv2
    <2>. HIDE DEF rels, ps, lists
    <2>2. \A i \in DOMAIN ps : /\ rels[i].tags = second.tags[ps[i]]
                               /\ rels[i].children = Seen(lists[i], second)
      BY <2>1 DEF _rel
    <2>3. Shape(rels, ps, kids, second, second)
      BY <2>1, <2>2, PlainShape
    <2>. QED
      BY <2>3 DEF rels
  <1>. HIDE DEF Kids, ps
  <1>5. Family(ps, kids, resources)
    BY <1>2, <1>3, PlainFamily
  <1>. QED
    BY <1>4, <1>5

LEMMA EcsServiceShape ==
    ASSUME NEW resources, NEW w \in Seq(resources)
    PROVE  \E ps, kids : /\ Family(ps, kids, resources)
                         /\ \A first, second : Shape(_ecs_service(w, first, second), ps, kids, first, second)
  <1> DEFINE Tasked(p) == Attached(w, p, {"task"})
             Kids(p) == SubSeq(Tasked(p), 1, IF Len(Tasked(p)) < max_tasks THEN Len(Tasked(p)) ELSE max_tasks)
             ps == Listed(w, {"service"})
             lists == [i \in DOMAIN ps |-> Kids(ps[i])]
             kids == [i \in DOMAIN ps |-> Described(lists[i])]
  <1>1. IsSeq(w) /\ ToSet(w) \subseteq resources /\ max_tasks \in Nat
    BY SeqIsSeq, PropagationAssumption
  <1>2. ASSUME NEW p, NEW r \in ToSet(Kids(p)) PROVE HandsOn(p, r)
    <2>1. IsSeq(Tasked(p)) /\ Len(Tasked(p)) \in Nat /\ \A x \in ToSet(Tasked(p)) : HandsOn(p, x)
      BY <1>1, AttachedMembers, SeqFacts DEF HandsOn
    <2> DEFINE n == IF Len(Tasked(p)) < max_tasks THEN Len(Tasked(p)) ELSE max_tasks
    <2>2. n \in Nat /\ n <= Len(Tasked(p))
      BY <1>1, <2>1
    <2>. HIDE DEF Tasked, n
    <2>3. ToSet(SubSeq(Tasked(p), 1, n)) \subseteq ToSet(Tasked(p))
      <3>1. Tasked(p) \in Seq(ToSet(Tasked(p)))
        BY <2>1 DEF IsSeq
      <3>2. SubSeq(Tasked(p), 1, n) \in Seq(ToSet(Tasked(p)))
        BY <2>2, <3>1
      <3>. QED
        BY <3>2, SeqIsSeq
    <2>. QED
      BY <1>2, <2>1, <2>3 DEF n
  <1>3. IsSeq(ps) /\ ToSet(ps) \subseteq resources
    BY <1>1, ListedMembers
  <1>4. ASSUME NEW first, NEW second PROVE Shape(_ecs_service(w, first, second), ps, kids, first, second)
    <2> DEFINE rels == _ecs_service(w, first, second)
               Config(p) == IF first.on[p] = {} /\ propagated_keys(first.tags[p]) # NoTags
                            THEN {[op |-> "ecs_propagate", target |-> p, tags |-> NoTags]} ELSE {}
    <2>1. /\ DOMAIN rels = DOMAIN ps
          /\ \A i \in DOMAIN ps : rels[i] = [_rel(ps[i], first, Seen(lists[i], second))
                                                EXCEPT !.config = Config(ps[i])]
      BY DEF _ecs_service
    <2>. HIDE DEF rels, ps, lists, Config
    <2>2. \A i \in DOMAIN ps : /\ rels[i].tags = first.tags[ps[i]]
                               /\ rels[i].children = Seen(lists[i], second)
      BY <2>1 DEF _rel
    <2>3. Shape(rels, ps, kids, first, second)
      BY <2>1, <2>2, PlainShape
    <2>. QED
      BY <2>3 DEF rels
  <1>. HIDE DEF Kids, ps
  <1>5. Family(ps, kids, resources)
    BY <1>2, <1>3, PlainFamily
  <1>. QED
    BY <1>4, <1>5

\* A list of children, some of which are described.
LEMMA ListAs ==
    ASSUME NEW rs, NEW members, NEW view, NEW children, DOMAIN children = DOMAIN rs,
           DOMAIN members = DOMAIN rs,
           \A j \in DOMAIN rs : children[j] = AsReported(members[j], view)
    PROVE  ToSet(children) = ReportedAs({members[j] : j \in DOMAIN rs}, view)
BY DEF ToSet, ReportedAs

LEMMA Ec2InstanceShape ==
    ASSUME NEW resources, NEW w \in Seq(resources)
    PROVE  \E ps, kids : /\ Family(ps, kids, resources)
                         /\ \A first, second : Shape(_ec2_instance(w, first, second), ps, kids, second, first)
  <1> DEFINE Devices(p) == Attached(w, p, {"volume", "network-interface"})
             ps == _instances(w)
             members(p) == [j \in DOMAIN Devices(p) |->
                               [arn |-> Devices(p)[j], known |-> Devices(p)[j].state # "gone"]]
             Members(p) == {members(p)[j] : j \in DOMAIN Devices(p)}
             kids == [i \in DOMAIN ps |-> Members(ps[i])]
  <1>1. IsSeq(w) /\ ToSet(w) \subseteq resources
    BY SeqIsSeq
  <1>2. ASSUME NEW p, NEW m \in Members(p)
        PROVE  HandsOn(p, m.arn) /\ (m.known \/ m.arn.state = "gone")
    <2>1. PICK j \in DOMAIN Devices(p) :
             m = [arn |-> Devices(p)[j], known |-> Devices(p)[j].state # "gone"]
      BY <1>2
    <2>2. Devices(p)[j] \in ToSet(Devices(p))
      BY DEF ToSet
    <2>3. HandsOn(p, Devices(p)[j])
      BY <1>1, <2>2, AttachedMembers DEF HandsOn
    <2>. QED
      BY <2>1, <2>3
  <1>3. IsSeq(ps) /\ ToSet(ps) \subseteq resources
    BY <1>1, ListedMembers, WhereMembers DEF _instances
  <1>4. ASSUME NEW first, NEW second PROVE Shape(_ec2_instance(w, first, second), ps, kids, second, first)
    <2> DEFINE rels == _ec2_instance(w, first, second)
               Kid(r) == [arn |-> r, tags |-> IF r.state = "gone" THEN NoTags ELSE first.tags[r]]
               children(p) == [j \in DOMAIN Devices(p) |-> Kid(Devices(p)[j])]
    <2>1. DOMAIN rels = DOMAIN ps /\ \A i \in DOMAIN ps : rels[i] = _rel(ps[i], second, children(ps[i]))
      BY DEF _ec2_instance
    <2>2. ASSUME NEW p PROVE ToSet(children(p)) = ReportedAs(Members(p), first)
      <3>1. \A j \in DOMAIN Devices(p) : children(p)[j] = AsReported(members(p)[j], first)
        BY DEF AsReported
      <3>2. DOMAIN children(p) = DOMAIN Devices(p) /\ DOMAIN members(p) = DOMAIN Devices(p)
        OBVIOUS
      <3>. HIDE DEF children, members, Devices
      <3>. QED
        BY <3>1, <3>2, ListAs
    <2>. HIDE DEF rels, ps, children, Members
    <2>3. \A i \in DOMAIN ps : rels[i].tags = second.tags[ps[i]] /\ rels[i].children = children(ps[i])
      BY <2>1 DEF _rel
    <2>4. Shape(rels, ps, kids, second, first)
      BY <2>1, <2>2, <2>3 DEF Shape
    <2>. QED
      BY <2>4 DEF rels
  <1>. HIDE DEF Members, ps
  <1>5. Family(ps, kids, resources)
    BY <1>2, <1>3 DEF Family
  <1>. QED
    BY <1>4, <1>5

\* An instance that is terminated is reported as something else.
LEMMA AsgShape ==
    ASSUME NEW resources, NEW w \in Seq(resources)
    PROVE  \E ps, kids : /\ Family(ps, kids, resources)
                         /\ \A first, second : Shape(_asg(w, first, second), ps, kids, second, first)
  <1> DEFINE Listing(p) == Attached(w, p, {"instance"})
             ps == Listed(w, {"asg"})
             Is(r) == r \in ToSet(_instances(w))
             members(p) == [j \in DOMAIN Listing(p) |->
                               [arn |-> IF Is(Listing(p)[j]) THEN Listing(p)[j] ELSE NoAccount(Listing(p)[j]),
                                known |-> Is(Listing(p)[j])]]
             Members(p) == {members(p)[j] : j \in DOMAIN Listing(p)}
             kids == [i \in DOMAIN ps |-> Members(ps[i])]
  <1>1. IsSeq(w) /\ ToSet(w) \subseteq resources
    BY SeqIsSeq
  <1>2. ASSUME NEW p, NEW m \in Members(p), m.arn \in resources
        PROVE  HandsOn(p, m.arn) /\ (m.known \/ m.arn.state = "unknown")
    <2>1. PICK j \in DOMAIN Listing(p) :
             m = [arn |-> IF Is(Listing(p)[j]) THEN Listing(p)[j] ELSE NoAccount(Listing(p)[j]),
                  known |-> Is(Listing(p)[j])]
      BY <1>2
    <2> DEFINE r == Listing(p)[j]
    <2>2. r \in ToSet(Listing(p))
      BY DEF ToSet
    <2>3. p.name \in r.of
      BY <1>1, <2>2, AttachedMembers
    <2>. HIDE DEF r
    <2>4. CASE Is(r)
      BY <2>1, <2>3, <2>4 DEF r, HandsOn
    <2>5. CASE ~Is(r)
      <3>1. m.arn = NoAccount(r)
        BY <2>1, <2>5 DEF r
      <3>2. m.arn.of = r.of /\ m.arn.state = "unknown"
        BY <3>1 DEF NoAccount
      <3>. QED
        BY <2>3, <3>2 DEF HandsOn
    <2>. QED
      BY <2>4, <2>5
  <1>3. IsSeq(ps) /\ ToSet(ps) \subseteq resources
    BY <1>1, ListedMembers
  <1>4. ASSUME NEW first, NEW second PROVE Shape(_asg(w, first, second), ps, kids, second, first)
    <2> DEFINE rels == _asg(w, first, second)
               Kid(r) == IF Is(r) THEN [arn |-> r, tags |-> first.tags[r]]
                         ELSE [arn |-> NoAccount(r), tags |-> NoTags]
               children(p) == [j \in DOMAIN Listing(p) |-> Kid(Listing(p)[j])]
               off(g) == DOMAIN propagated_keys(second.tags[g]) \ second.on[g]
               Config(g) == IF off(g) = {} THEN {}
                            ELSE {[op |-> "asg_propagate", target |-> g,
                                   tags |-> Restrict(second.tags[g], off(g))]}
    <2>1. /\ DOMAIN rels = DOMAIN ps
          /\ \A i \in DOMAIN ps : rels[i] = [_rel(ps[i], second, children(ps[i]))
                                                EXCEPT !.config = Config(ps[i])]
      BY DEF _asg
    <2>2. ASSUME NEW p PROVE ToSet(children(p)) = ReportedAs(Members(p), first)
      <3>1. \A j \in DOMAIN Listing(p) : children(p)[j] = AsReported(members(p)[j], first)
        <4>. HIDE DEF Is, Listing
        <4>. QED
          BY DEF AsReported
      <3>2. DOMAIN children(p) = DOMAIN Listing(p) /\ DOMAIN members(p) = DOMAIN Listing(p)
        OBVIOUS
      <3>. HIDE DEF children, members, Listing
      <3>. QED
        BY <3>1, <3>2, ListAs
    <2>. HIDE DEF rels, ps, children, Members, Config
    <2>3. \A i \in DOMAIN ps : rels[i].tags = second.tags[ps[i]] /\ rels[i].children = children(ps[i])
      BY <2>1 DEF _rel
    <2>4. Shape(rels, ps, kids, second, first)
      BY <2>1, <2>2, <2>3 DEF Shape
    <2>. QED
      BY <2>4 DEF rels
  <1>. HIDE DEF Members, ps
  <1>5. Family(ps, kids, resources)
    BY <1>2, <1>3 DEF Family
  <1>. QED
    BY <1>4, <1>5

\* The log group of a function is described when it exists.
LEMMA LambdaShape ==
    ASSUME NEW resources, NEW w \in Seq(resources)
    PROVE  \E ps, kids : /\ Family(ps, kids, resources)
                         /\ \A first, second : DOMAIN second.tags = resources =>
                               Shape(_lambda(w, first, second), ps, kids, first, second)
  <1> DEFINE ps == Listed(w, {"function"})
             Member(p) == [arn |-> LogGroup(p), known |-> LogGroup(p) \in resources]
             kids == [i \in DOMAIN ps |-> {Member(ps[i])}]
  <1>1. IsSeq(w) /\ ToSet(w) \subseteq resources
    BY SeqIsSeq
  <1>2. /\ IsSeq(ps) /\ ToSet(ps) \subseteq resources
        /\ \A i \in DOMAIN ps : ps[i].kind = "function"
    <2>1. \A i \in DOMAIN ps : ps[i] \in ToSet(ps)
      BY DEF ToSet
    <2>. QED
      BY <1>1, <2>1, ListedMembers
  <1>3. ASSUME NEW first, NEW second, DOMAIN second.tags = resources
        PROVE  Shape(_lambda(w, first, second), ps, kids, first, second)
    <2> DEFINE rels == _lambda(w, first, second)
               Kid(f) == [arn |-> LogGroup(f),
                          tags |-> IF LogGroup(f) \in DOMAIN second.tags THEN second.tags[LogGroup(f)]
                                   ELSE NoTags]
    <2>1. DOMAIN rels = DOMAIN ps /\ \A i \in DOMAIN ps : rels[i] = _rel(ps[i], first, <<Kid(ps[i])>>)
      BY DEF _lambda
    <2>2. \A p : Kid(p) = AsReported(Member(p), second)
      BY <1>3 DEF AsReported
    <2>3. \A x : ToSet(<<x>>) = {x}
      BY DEF ToSet
    <2>. HIDE DEF rels, ps, Kid, Member
    <2>4. \A i \in DOMAIN ps : rels[i].tags = first.tags[ps[i]] /\ rels[i].children = <<Kid(ps[i])>>
      BY <2>1 DEF _rel
    <2>5. \A p : ReportedAs({Member(p)}, second) = {AsReported(Member(p), second)}
      BY DEF ReportedAs
    <2>6. \A i \in DOMAIN ps : ToSet(rels[i].children) = ReportedAs(kids[i], second)
      BY <2>2, <2>3, <2>4, <2>5
    <2>. HIDE DEF kids
    <2>7. Shape(rels, ps, kids, first, second)
      BY <2>1, <2>4, <2>6 DEF Shape
    <2>. QED
      BY <2>7 DEF rels
  <1>. HIDE DEF ps
  <1>4. Family(ps, kids, resources)
    <2>1. ASSUME NEW p, p.kind = "function", NEW m \in {Member(p)}, m.arn \in resources
          PROVE  HandsOn(p, m.arn) /\ m.known
      <3>1. m = Member(p)
        BY <2>1
      <3>2. Member(p).arn = LogGroup(p) /\ (LogGroup(p) \in resources => Member(p).known)
        OBVIOUS
      <3>. HIDE DEF Member
      <3>. QED
        BY <2>1, <3>1, <3>2 DEF HandsOn
    <2>. HIDE DEF Member
    <2>2. \A i \in DOMAIN ps : \A m \in kids[i] : m.arn \in resources => HandsOn(ps[i], m.arn) /\ m.known
      BY <1>2, <2>1
    <2>. HIDE DEF kids
    <2>. QED
      BY <1>2, <2>2 DEF Family
  <1>. QED
    BY <1>3, <1>4

\* All rules: of the two views, one is for the parents and one for the children.
LEMMA RulesShape ==
    ASSUME NEW resources, NEW w \in Seq(resources), NEW rule \in RuleNames
    PROVE  \E ps, kids : /\ Family(ps, kids, resources)
                         /\ \E a \in 1..2, b \in 1..2 : \A first, second : DOMAIN second.tags = resources =>
                               Shape(RULES(rule, w, first, second), ps, kids,
                                     IF a = 1 THEN first ELSE second, IF b = 1 THEN first ELSE second)
  <1> DEFINE Good(ps, kids, a, b) ==
               /\ Family(ps, kids, resources)
               /\ \A first, second : DOMAIN second.tags = resources =>
                     Shape(RULES(rule, w, first, second), ps, kids,
                           IF a = 1 THEN first ELSE second, IF b = 1 THEN first ELSE second)
  <1>1. CASE rule = "vpc"
    <2>1. \A first, second : RULES(rule, w, first, second) = _vpc(w, first, second)
      BY <1>1 DEF RULES
    <2>2. \E ps, kids : Good(ps, kids, 1, 2)
      BY <2>1, VpcShape
    <2>. QED
      BY <2>2
  <1>2. CASE rule = "ec2_instance"
    <2>1. \A first, second : RULES(rule, w, first, second) = _ec2_instance(w, first, second)
      BY <1>2 DEF RULES
    <2>2. \E ps, kids : Good(ps, kids, 2, 1)
      BY <2>1, Ec2InstanceShape
    <2>. QED
      BY <2>2
  <1>3. CASE rule = "ebs_volume"
    <2>1. \A first, second : RULES(rule, w, first, second) = _ebs_volume(w, first, second)
      BY <1>3 DEF RULES
    <2>2. \E ps, kids : Good(ps, kids, 1, 2)
      BY <2>1, EbsVolumeShape
    <2>. QED
      BY <2>2
  <1>4. CASE rule = "asg"
    <2>1. \A first, second : RULES(rule, w, first, second) = _asg(w, first, second)
      BY <1>4 DEF RULES
    <2>2. \E ps, kids : Good(ps, kids, 2, 1)
      BY <2>1, AsgShape
    <2>. QED
      BY <2>2
  <1>5. CASE rule = "ecs_service"
    <2>1. \A first, second : RULES(rule, w, first, second) = _ecs_service(w, first, second)
      BY <1>5 DEF RULES
    <2>2. \E ps, kids : Good(ps, kids, 1, 2)
      BY <2>1, EcsServiceShape
    <2>. QED
      BY <2>2
  <1>6. CASE rule = "cloudformation"
    <2>1. \A first, second : RULES(rule, w, first, second) = _cloudformation(w, first, second)
      BY <1>6 DEF RULES
    <2>2. \E ps, kids : Good(ps, kids, 2, 1)
      BY <2>1, CloudformationShape
    <2>. QED
      BY <2>2
  <1>7. CASE rule = "rds_cluster"
    <2>1. \A first, second : RULES(rule, w, first, second) = _rds_cluster(w, first, second)
      BY <1>7 DEF RULES
    <2>2. \E ps, kids : Good(ps, kids, 2, 1)
      BY <2>1, RdsClusterShape
    <2>. QED
      BY <2>2
  <1>8. CASE rule = "eks_cluster"
    <2>1. \A first, second : RULES(rule, w, first, second) = _eks_cluster(w, first, second)
      BY <1>8 DEF RULES
    <2>2. \E ps, kids : Good(ps, kids, 1, 2)
      BY <2>1, EksClusterShape
    <2>. QED
      BY <2>2
  <1>9. CASE rule = "elbv2"
    <2>1. \A first, second : RULES(rule, w, first, second) = _elbv2(w, first, second)
      BY <1>9 DEF RULES
    <2>2. \E ps, kids : Good(ps, kids, 2, 2)
      BY <2>1, Elbv2Shape
    <2>. QED
      BY <2>2
  <1>10. CASE rule = "lambda"
    <2>1. \A first, second : RULES(rule, w, first, second) = _lambda(w, first, second)
      BY <1>10 DEF RULES
    <2>2. \E ps, kids : Good(ps, kids, 1, 2)
      BY <2>1, LambdaShape
    <2>. QED
      BY <2>2
  <1>. QED
    BY <1>1, <1>2, <1>3, <1>4, <1>5, <1>6, <1>7, <1>8, <1>9, <1>10 DEF RuleNames

-----------------------------------------------------------------------------
(***************************************************************************)
(* What a rule asks of a child                                             *)
(***************************************************************************)
RuleAsk(rule, w, first, second, c, k) == AskOf(findings_for(rule, RULES(rule, w, first, second)), c, k)

\* What one parent asks of c, which may be among its children.
ParentAsk(p, members, pview, cview, c, k) ==
    IF /\ k \in DOMAIN propagated_keys(pview.tags[p])
       /\ \E m \in members : m.arn = c /\ (m.known => k \notin DOMAIN cview.tags[c])
    THEN pview.tags[p][k] ELSE None

LEMMA ShapeAsk ==
    ASSUME NEW rels, NEW ps, NEW kids, NEW pview, NEW cview, Shape(rels, ps, kids, pview, cview),
           IsSeq(rels), \A rel \in ToSet(rels) : GoodRel(rel), NEW rule, NEW c, NEW k
    PROVE  AskOf(findings_for(rule, rels), c, k)
              = LastSaid([i \in DOMAIN ps |-> ParentAsk(ps[i], kids[i], pview, cview, c, k)])
  <1>1. AskOf(findings_for(rule, rels), c, k) = LastSaid([i \in DOMAIN rels |-> RelAsk(rels[i], c, k)])
    BY FindingsAsk
  <1>2. ASSUME NEW i \in DOMAIN ps
        PROVE  RelAsk(rels[i], c, k) = ParentAsk(ps[i], kids[i], pview, cview, c, k)
    <2>1. rels[i].tags = pview.tags[ps[i]] /\ ToSet(rels[i].children) = ReportedAs(kids[i], cview)
      BY DEF Shape
    <2>2. \A m : AsReported(m, cview).arn = m.arn
                 /\ AsReported(m, cview).tags = IF m.known THEN cview.tags[m.arn] ELSE NoTags
      BY DEF AsReported
    <2>3. \A m : k \notin DOMAIN AsReported(m, cview).tags
                    <=> (m.known => k \notin DOMAIN cview.tags[m.arn])
      <3>. TAKE m
      <3>1. CASE m.known
        BY <2>2, <3>1
      <3>2. CASE ~m.known
        BY <2>2, <3>2, EmptyTags
      <3>. QED
        BY <3>1, <3>2
    <2>4. (\E kid \in ToSet(rels[i].children) : kid.arn = c /\ k \notin DOMAIN kid.tags)
             <=> \E m \in kids[i] : m.arn = c /\ (m.known => k \notin DOMAIN cview.tags[c])
      <3>1. \A x : x \in ToSet(rels[i].children) <=> \E m \in kids[i] : x = AsReported(m, cview)
        BY <2>1 DEF ReportedAs
      <3>2. \A m : AsReported(m, cview).arn = m.arn
        BY <2>2
      <3>3. \A m : m.arn = c /\ (m.known => k \notin DOMAIN cview.tags[c])
                      <=> /\ AsReported(m, cview).arn = c
                          /\ k \notin DOMAIN AsReported(m, cview).tags
        BY <2>3, <3>2
      <3>. QED
        BY <3>1, <3>3
    <2>. QED
      BY <2>1, <2>4 DEF RelAsk, ParentAsk
  <1>3. DOMAIN rels = DOMAIN ps
    BY DEF Shape
  <1>4. [i \in DOMAIN rels |-> RelAsk(rels[i], c, k)]
           = [i \in DOMAIN ps |-> ParentAsk(ps[i], kids[i], pview, cview, c, k)]
    BY <1>2, <1>3
  <1>. QED
    BY <1>1, <1>4

Asks(ps, kids, pview, cview, c, k) == [i \in DOMAIN ps |-> ParentAsk(ps[i], kids[i], pview, cview, c, k)]

LEMMA RuleAskIs ==
    ASSUME NEW resources, NEW w \in Seq(resources), NEW rule \in RuleNames
    PROVE  \E ps, kids : /\ Family(ps, kids, resources)
                         /\ \E a \in 1..2, b \in 1..2 : \A first, second, c, k :
                               IsView(first, resources) /\ IsView(second, resources) =>
                               RuleAsk(rule, w, first, second, c, k)
                                  = LastSaid(Asks(ps, kids, IF a = 1 THEN first ELSE second,
                                                  IF b = 1 THEN first ELSE second, c, k))
  <1>1. PICK ps, kids : /\ Family(ps, kids, resources)
                        /\ \E a \in 1..2, b \in 1..2 : \A first, second : DOMAIN second.tags = resources =>
                              Shape(RULES(rule, w, first, second), ps, kids,
                                    IF a = 1 THEN first ELSE second, IF b = 1 THEN first ELSE second)
    BY RulesShape
  <1>2. PICK a \in 1..2, b \in 1..2 : \A first, second : DOMAIN second.tags = resources =>
           Shape(RULES(rule, w, first, second), ps, kids,
                 IF a = 1 THEN first ELSE second, IF b = 1 THEN first ELSE second)
    BY <1>1
  <1>3. ASSUME NEW first, NEW second, IsView(first, resources), IsView(second, resources), NEW c, NEW k
        PROVE  RuleAsk(rule, w, first, second, c, k)
                  = LastSaid(Asks(ps, kids, IF a = 1 THEN first ELSE second,
                                  IF b = 1 THEN first ELSE second, c, k))
    <2> DEFINE rels == RULES(rule, w, first, second)
               pview == IF a = 1 THEN first ELSE second
               cview == IF b = 1 THEN first ELSE second
    <2>1. IsSeq(rels) /\ \A rel \in ToSet(rels) : GoodRel(rel)
      BY <1>3, RulesReport DEF Reports
    <2>2. Shape(rels, ps, kids, pview, cview)
      BY <1>2, <1>3 DEF IsView
    <2>. HIDE DEF rels, pview, cview
    <2>3. AskOf(findings_for(rule, rels), c, k) = LastSaid(Asks(ps, kids, pview, cview, c, k))
      BY <2>1, <2>2, ShapeAsk DEF Asks
    <2>. QED
      BY <2>3 DEF RuleAsk, rels, pview, cview
  <1>. QED
    BY <1>1, <1>2, <1>3

\* Views in which all that c may get tags from has the same tags.
SameParents(v1, v2, c, resources) ==
    \A p \in resources : HandsOn(p, c) => v1.tags[p] = v2.tags[p]

\* A parent and those of its children that are resources.
Hanging(p, members, resources) ==
    /\ p \in resources
    /\ \A m \in members : m.arn \in resources => /\ HandsOn(p, m.arn)
                                                 /\ m.known \/ m.arn.state \in {"gone", "unknown"}

LEMMA FamilyHangs ==
    ASSUME NEW resources, NEW ps, NEW kids, Family(ps, kids, resources)
    PROVE  \A i \in DOMAIN ps : Hanging(ps[i], kids[i], resources)
  <1>1. \A i \in DOMAIN ps : ps[i] \in resources
    BY DEF Family, ToSet
  <1>. QED
    BY <1>1 DEF Family, Hanging

LEMMA ParentAskIs ==
    ASSUME NEW resources, NEW p, NEW members, Hanging(p, members, resources), NEW c \in resources,
           NEW k, NEW pview, NEW cview, ParentAsk(p, members, pview, cview, c, k) # None
    PROVE  /\ ParentAsk(p, members, pview, cview, c, k) = pview.tags[p][k]
           /\ k \in DOMAIN propagated_keys(pview.tags[p]) /\ HandsOn(p, c)
           /\ c.state \notin {"gone", "unknown"} => k \notin DOMAIN cview.tags[c]
  <1>1. /\ k \in DOMAIN propagated_keys(pview.tags[p])
        /\ ParentAsk(p, members, pview, cview, c, k) = pview.tags[p][k]
    BY DEF ParentAsk
  <1>2. PICK m \in members : m.arn = c /\ (m.known => k \notin DOMAIN cview.tags[c])
    BY DEF ParentAsk
  <1>3. HandsOn(p, c) /\ (m.known \/ c.state \in {"gone", "unknown"})
    BY <1>2 DEF Hanging
  <1>. QED
    BY <1>1, <1>2, <1>3

\* What it asks for in one view it asks for in another, when c lacks it there too.
LEMMA ParentAsksFirst ==
    ASSUME NEW resources, NEW p, NEW members, Hanging(p, members, resources), NEW c \in resources,
           NEW k, NEW p1, NEW p2, SameParents(p1, p2, c, resources),
           NEW c1, NEW c2, k \notin DOMAIN c1.tags[c] => k \notin DOMAIN c2.tags[c],
           ParentAsk(p, members, p1, c1, c, k) # None
    PROVE  ParentAsk(p, members, p2, c2, c, k) = ParentAsk(p, members, p1, c1, c, k)
  <1>1. /\ k \in DOMAIN propagated_keys(p1.tags[p]) /\ HandsOn(p, c)
        /\ ParentAsk(p, members, p1, c1, c, k) = p1.tags[p][k]
    BY ParentAskIs
  <1>2. PICK m \in members : m.arn = c /\ (m.known => k \notin DOMAIN c1.tags[c])
    BY DEF ParentAsk
  <1>3. p1.tags[p] = p2.tags[p]
    BY <1>1 DEF SameParents, Hanging
  <1>. QED
    BY <1>1, <1>2, <1>3 DEF ParentAsk

\* What is asked of c depends on what the parents have, and on which keys c has.
LEMMA RuleAsksAlike ==
    ASSUME NEW resources, NEW w \in Seq(resources), NEW rule \in RuleNames, NEW c \in resources, NEW k,
           NEW a1, NEW a2, NEW b1, NEW b2,
           \A v \in {a1, a2, b1, b2} : IsView(v, resources) /\ SameParents(v, a1, c, resources)
    PROVE  /\ (\A x \in {a1, a2}, y \in {b1, b2} : k \in DOMAIN x.tags[c] <=> k \in DOMAIN y.tags[c])
                 => RuleAsk(rule, w, a1, a2, c, k) = RuleAsk(rule, w, b1, b2, c, k)
           /\ (\A x \in {a1, a2}, y \in {b1, b2} : k \notin DOMAIN x.tags[c] => k \notin DOMAIN y.tags[c])
                 => (RuleAsk(rule, w, a1, a2, c, k) # None => RuleAsk(rule, w, b1, b2, c, k) # None)
  <1>1. PICK ps, kids : /\ Family(ps, kids, resources)
                        /\ \E a \in 1..2, b \in 1..2 : \A first, second, d, x :
                              IsView(first, resources) /\ IsView(second, resources) =>
                              RuleAsk(rule, w, first, second, d, x)
                                 = LastSaid(Asks(ps, kids, IF a = 1 THEN first ELSE second,
                                                 IF b = 1 THEN first ELSE second, d, x))
    BY RuleAskIs
  <1>2. PICK a \in 1..2, b \in 1..2 : \A first, second, d, x :
           IsView(first, resources) /\ IsView(second, resources) =>
           RuleAsk(rule, w, first, second, d, x)
              = LastSaid(Asks(ps, kids, IF a = 1 THEN first ELSE second,
                              IF b = 1 THEN first ELSE second, d, x))
    BY <1>1
  <1> DEFINE pa == IF a = 1 THEN a1 ELSE a2
             ca == IF b = 1 THEN a1 ELSE a2
             pb == IF a = 1 THEN b1 ELSE b2
             cb == IF b = 1 THEN b1 ELSE b2
             A == Asks(ps, kids, pa, ca, c, k)
             B == Asks(ps, kids, pb, cb, c, k)
  <1>0. Family(ps, kids, resources)
    BY <1>1
  <1>3. RuleAsk(rule, w, a1, a2, c, k) = LastSaid(A) /\ RuleAsk(rule, w, b1, b2, c, k) = LastSaid(B)
    BY <1>2
  <1>4. pa \in {a1, a2} /\ ca \in {a1, a2} /\ pb \in {b1, b2} /\ cb \in {b1, b2}
    BY <1>2
  <1>. HIDE DEF pa, ca, pb, cb
  <1>5. /\ SameParents(pa, pb, c, resources) /\ SameParents(pb, pa, c, resources)
        /\ IsView(pa, resources) /\ IsView(pb, resources)
    BY <1>4 DEF SameParents
  <1>6. DOMAIN ps = 1..Len(ps) /\ Len(ps) \in Nat
    BY <1>1, SeqFacts DEF Family
  <1>7. /\ DOMAIN A = 1..Len(ps) /\ DOMAIN B = 1..Len(ps)
        /\ \A i \in DOMAIN ps : /\ A[i] = ParentAsk(ps[i], kids[i], pa, ca, c, k)
                                /\ B[i] = ParentAsk(ps[i], kids[i], pb, cb, c, k)
    BY <1>6 DEF Asks
  <1>8. ASSUME k \notin DOMAIN ca.tags[c] => k \notin DOMAIN cb.tags[c], NEW i \in DOMAIN ps, A[i] # None
        PROVE  B[i] = A[i]
    <2>1. ParentAsk(ps[i], kids[i], pa, ca, c, k) # None
      BY <1>7, <1>8
    <2>. HIDE DEF A, B
    <2>2. ParentAsk(ps[i], kids[i], pb, cb, c, k) = ParentAsk(ps[i], kids[i], pa, ca, c, k)
      <3> DEFINE p == ps[i]
                 members == kids[i]
      <3>1. Hanging(p, members, resources)
        BY <1>0, FamilyHangs
      <3>. HIDE DEF p, members
      <3>2. ParentAsk(p, members, pa, ca, c, k) # None
        BY <2>1 DEF p, members
      <3>3. ParentAsk(p, members, pb, cb, c, k) = ParentAsk(p, members, pa, ca, c, k)
        BY <1>5, <1>8, <3>1, <3>2, ParentAsksFirst
      <3>. QED
        BY <3>3 DEF p, members
    <2>. QED
      BY <1>7, <2>2
  <1>9. ASSUME k \notin DOMAIN cb.tags[c] => k \notin DOMAIN ca.tags[c], NEW i \in DOMAIN ps, B[i] # None
        PROVE  A[i] = B[i]
    <2>1. ParentAsk(ps[i], kids[i], pb, cb, c, k) # None
      BY <1>7, <1>9
    <2>. HIDE DEF A, B
    <2>2. ParentAsk(ps[i], kids[i], pa, ca, c, k) = ParentAsk(ps[i], kids[i], pb, cb, c, k)
      <3> DEFINE p == ps[i]
                 members == kids[i]
      <3>1. Hanging(p, members, resources)
        BY <1>0, FamilyHangs
      <3>. HIDE DEF p, members
      <3>2. ParentAsk(p, members, pb, cb, c, k) # None
        BY <2>1 DEF p, members
      <3>3. ParentAsk(p, members, pa, ca, c, k) = ParentAsk(p, members, pb, cb, c, k)
        BY <1>5, <1>9, <3>1, <3>2, ParentAsksFirst
      <3>. QED
        BY <3>3 DEF p, members
    <2>. QED
      BY <1>7, <2>2
  <1>10. ASSUME \A x \in {a1, a2}, y \in {b1, b2} : k \in DOMAIN x.tags[c] <=> k \in DOMAIN y.tags[c]
         PROVE  LastSaid(A) = LastSaid(B)
    <2>1. k \in DOMAIN ca.tags[c] <=> k \in DOMAIN cb.tags[c]
      BY <1>4, <1>10
    <2>2. \A i \in DOMAIN ps : A[i] = B[i]
      BY <1>8, <1>9, <2>1
    <2>3. A = B
      BY <1>7, <2>2 DEF Asks
    <2>. QED
      BY <2>3
  <1>11. ASSUME \A x \in {a1, a2}, y \in {b1, b2} : k \notin DOMAIN x.tags[c] => k \notin DOMAIN y.tags[c],
                LastSaid(A) # None
         PROVE  LastSaid(B) # None
    <2>1. k \notin DOMAIN ca.tags[c] => k \notin DOMAIN cb.tags[c]
      BY <1>4, <1>11
    <2>. HIDE DEF A, B
    <2>2. PICK i \in 1..Len(ps) : A[i] # None
      BY <1>6, <1>7, <1>11, SaidBySome
    <2>3. B[i] # None
      BY <1>6, <1>8, <2>1, <2>2
    <2>. QED
      BY <1>6, <1>7, <2>3, SaidBySome
  <1>. QED
    BY <1>3, <1>10, <1>11

\* What is asked of c is what one that it hangs on has, and it does not.
LEMMA RuleAskOrigin ==
    ASSUME NEW resources, NEW w \in Seq(resources), NEW rule \in RuleNames, NEW c \in resources, NEW k,
           NEW v, IsView(v, resources), RuleAsk(rule, w, v, v, c, k) # None
    PROVE  \E p \in resources : /\ HandsOn(p, c) /\ k \in DOMAIN propagated_keys(v.tags[p])
                                /\ RuleAsk(rule, w, v, v, c, k) = v.tags[p][k]
                                /\ c.state \notin {"gone", "unknown"} => k \notin DOMAIN v.tags[c]
  <1>1. PICK ps, kids : /\ Family(ps, kids, resources)
                        /\ \E a \in 1..2, b \in 1..2 : \A first, second, d, x :
                              IsView(first, resources) /\ IsView(second, resources) =>
                              RuleAsk(rule, w, first, second, d, x)
                                 = LastSaid(Asks(ps, kids, IF a = 1 THEN first ELSE second,
                                                 IF b = 1 THEN first ELSE second, d, x))
    BY RuleAskIs
  <1> DEFINE A == Asks(ps, kids, v, v, c, k)
  <1>2. RuleAsk(rule, w, v, v, c, k) = LastSaid(A)
    BY <1>1
  <1>3. DOMAIN ps = 1..Len(ps) /\ Len(ps) \in Nat
    BY <1>1, SeqFacts DEF Family
  <1>4. DOMAIN A = 1..Len(ps) /\ \A i \in DOMAIN ps : A[i] = ParentAsk(ps[i], kids[i], v, v, c, k)
    BY <1>3 DEF Asks
  <1>. HIDE DEF A
  <1>5. PICK i \in 1..Len(ps) : A[i] # None /\ LastSaid(A) = A[i]
    <2>1. \E i \in 1..Len(ps) : A[i] # None
      BY <1>2, <1>3, <1>4, SaidBySome
    <2>. QED
      BY <1>3, <1>4, <2>1, LastSaidIs
  <1>7. Family(ps, kids, resources) /\ i \in DOMAIN ps
    BY <1>1, <1>3
  <1>8. ParentAsk(ps[i], kids[i], v, v, c, k) # None
    BY <1>4, <1>5, <1>7
  <1>9. /\ ParentAsk(ps[i], kids[i], v, v, c, k) = v.tags[ps[i]][k]
        /\ k \in DOMAIN propagated_keys(v.tags[ps[i]]) /\ HandsOn(ps[i], c) /\ ps[i] \in resources
        /\ c.state \notin {"gone", "unknown"} => k \notin DOMAIN v.tags[c]
    <2> DEFINE p == ps[i]
               members == kids[i]
    <2>1. Hanging(p, members, resources)
      BY <1>7, FamilyHangs
    <2>2. p \in resources
      BY <2>1 DEF Hanging
    <2>. HIDE DEF p, members
    <2>3. ParentAsk(p, members, v, v, c, k) # None
      BY <1>8 DEF p, members
    <2>4. /\ ParentAsk(p, members, v, v, c, k) = v.tags[p][k]
          /\ k \in DOMAIN propagated_keys(v.tags[p]) /\ HandsOn(p, c)
          /\ c.state \notin {"gone", "unknown"} => k \notin DOMAIN v.tags[c]
      BY <2>1, <2>3, ParentAskIs
    <2>. QED
      BY <2>2, <2>4 DEF p, members
  <1>10. RuleAsk(rule, w, v, v, c, k) = v.tags[ps[i]][k]
    BY <1>2, <1>4, <1>5, <1>7, <1>9
  <1>. QED
    BY <1>9, <1>10

\* What is asked for by the rules of a check, and by all that it goes through.
AllTasks(st) == Tasks(DOMAIN st.inventory, st.rules)
TaskAsk(x, st, v, c, k) == RuleAsk(x.rule, st.inventory[x.place], v, v, c, k)
TasksAsk(todo, st, v, c, k) == LastSaid([i \in DOMAIN todo |-> TaskAsk(todo[i], st, v, c, k)])
Wish(st, v, c, k) == TasksAsk(AllTasks(st), st, v, c, k)

LEMMA AllTasksTodo ==
    ASSUME NEW st, IsStory(st)
    PROVE  /\ IsTodo(AllTasks(st), DOMAIN st.inventory)
           /\ \A x : x \in ToSet(AllTasks(st)) <=>
                  \E p \in DOMAIN st.inventory, r \in ToSet(st.rules) : x = [place |-> p, rule |-> r]
  <1>1. IsFiniteSet(DOMAIN st.inventory) /\ IsSeq(st.rules) /\ ToSet(st.rules) \subseteq RuleNames
    BY SeqIsSeq DEF IsStory
  <1>. QED
    BY <1>1, TasksMembers DEF IsTodo, AllTasks

LEMMA TaskFacts ==
    ASSUME NEW st, IsStory(st), NEW todo, IsTodo(todo, DOMAIN st.inventory)
    PROVE  /\ DOMAIN todo = 1..Len(todo) /\ Len(todo) \in Nat
           /\ \A i \in DOMAIN todo : /\ todo[i].rule \in RuleNames
                                     /\ st.inventory[todo[i].place] \in Seq(DOMAIN st.tags)
  <1>1. DOMAIN todo = 1..Len(todo) /\ Len(todo) \in Nat
    BY SeqFacts DEF IsTodo
  <1>2. \A i \in DOMAIN todo : todo[i] \in ToSet(todo)
    BY DEF ToSet
  <1>. QED
    BY <1>1, <1>2 DEF IsTodo, IsStory

LEMMA TasksAskAlike ==
    ASSUME NEW st, IsStory(st), NEW todo, IsTodo(todo, DOMAIN st.inventory),
           NEW c \in DOMAIN st.tags, NEW k, NEW v1, NEW v2,
           IsView(v1, DOMAIN st.tags), IsView(v2, DOMAIN st.tags), SameParents(v1, v2, c, DOMAIN st.tags)
    PROVE  /\ (k \in DOMAIN v1.tags[c] <=> k \in DOMAIN v2.tags[c])
                 => TasksAsk(todo, st, v1, c, k) = TasksAsk(todo, st, v2, c, k)
           /\ (k \notin DOMAIN v1.tags[c] => k \notin DOMAIN v2.tags[c])
                 => (TasksAsk(todo, st, v1, c, k) # None => TasksAsk(todo, st, v2, c, k) # None)
  <1> DEFINE ask(v) == [i \in DOMAIN todo |-> TaskAsk(todo[i], st, v, c, k)]
  <1>1. DOMAIN todo = 1..Len(todo) /\ Len(todo) \in Nat
    BY TaskFacts
  <1>2. /\ SameParents(v1, v1, c, DOMAIN st.tags) /\ SameParents(v2, v1, c, DOMAIN st.tags)
    BY DEF SameParents
  <1>3. ASSUME NEW i \in DOMAIN todo
        PROVE  /\ (k \in DOMAIN v1.tags[c] <=> k \in DOMAIN v2.tags[c])
                     => TaskAsk(todo[i], st, v1, c, k) = TaskAsk(todo[i], st, v2, c, k)
               /\ (k \notin DOMAIN v1.tags[c] => k \notin DOMAIN v2.tags[c])
                     => (TaskAsk(todo[i], st, v1, c, k) # None => TaskAsk(todo[i], st, v2, c, k) # None)
    <2> DEFINE w == st.inventory[todo[i].place]
               rule == todo[i].rule
               R == DOMAIN st.tags
    <2>1. w \in Seq(R) /\ rule \in RuleNames
      BY TaskFacts
    <2>2. \A v \in {v1, v1, v2, v2} : IsView(v, R) /\ SameParents(v, v1, c, R)
      BY <1>2
    <2>3. c \in R
      OBVIOUS
    <2>. HIDE DEF w, rule, R
    <2>4. /\ (\A x \in {v1, v1}, y \in {v2, v2} : k \in DOMAIN x.tags[c] <=> k \in DOMAIN y.tags[c])
                => RuleAsk(rule, w, v1, v1, c, k) = RuleAsk(rule, w, v2, v2, c, k)
          /\ (\A x \in {v1, v1}, y \in {v2, v2} : k \notin DOMAIN x.tags[c] => k \notin DOMAIN y.tags[c])
                => (RuleAsk(rule, w, v1, v1, c, k) # None => RuleAsk(rule, w, v2, v2, c, k) # None)
      BY <2>1, <2>2, <2>3, RuleAsksAlike
    <2>. QED
      BY <2>4 DEF TaskAsk, w, rule
  <1>4. ASSUME k \in DOMAIN v1.tags[c] <=> k \in DOMAIN v2.tags[c]
        PROVE  ask(v1) = ask(v2)
    BY <1>3, <1>4
  <1>5. ASSUME k \notin DOMAIN v1.tags[c] => k \notin DOMAIN v2.tags[c], LastSaid(ask(v1)) # None
        PROVE  LastSaid(ask(v2)) # None
    <2>1. /\ DOMAIN ask(v1) = 1..Len(todo) /\ DOMAIN ask(v2) = 1..Len(todo)
          /\ \A i \in 1..Len(todo) : ask(v1)[i] # None => ask(v2)[i] # None
      BY <1>1, <1>3, <1>5
    <2>. HIDE DEF ask
    <2>2. PICK i \in 1..Len(todo) : ask(v1)[i] # None
      BY <1>1, <1>5, <2>1, SaidBySome
    <2>. QED
      BY <1>1, <2>1, <2>2, SaidBySome
  <1>. QED
    BY <1>4, <1>5 DEF TasksAsk

LEMMA TasksAskOrigin ==
    ASSUME NEW st, IsStory(st), NEW todo, IsTodo(todo, DOMAIN st.inventory),
           NEW c \in DOMAIN st.tags, NEW k, NEW v, IsView(v, DOMAIN st.tags),
           TasksAsk(todo, st, v, c, k) # None
    PROVE  \E p \in DOMAIN st.tags :
              /\ HandsOn(p, c) /\ k \in DOMAIN propagated_keys(v.tags[p])
              /\ TasksAsk(todo, st, v, c, k) = v.tags[p][k]
              /\ c.state # "gone" => k \notin DOMAIN v.tags[c]
  <1> DEFINE ask == [i \in DOMAIN todo |-> TaskAsk(todo[i], st, v, c, k)]
  <1>1. DOMAIN todo = 1..Len(todo) /\ Len(todo) \in Nat
    BY TaskFacts
  <1>2. DOMAIN ask = 1..Len(todo) /\ \A i \in 1..Len(todo) : ask[i] = TaskAsk(todo[i], st, v, c, k)
    BY <1>1
  <1>3. TasksAsk(todo, st, v, c, k) = LastSaid(ask)
    BY DEF TasksAsk
  <1>. HIDE DEF ask
  <1>4. \E i \in 1..Len(todo) : ask[i] # None
    BY <1>1, <1>2, <1>3, SaidBySome
  <1>5. PICK i \in 1..Len(todo) : ask[i] # None /\ LastSaid(ask) = ask[i]
    BY <1>1, <1>2, <1>4, LastSaidIs
  <1> DEFINE w == st.inventory[todo[i].place]
             rule == todo[i].rule
             R == DOMAIN st.tags
  <1>6. w \in Seq(R) /\ rule \in RuleNames /\ c \in R /\ IsView(v, R)
    BY <1>1, TaskFacts
  <1>7. RuleAsk(rule, w, v, v, c, k) = ask[i]
    BY <1>2 DEF TaskAsk
  <1>8. c.state # "unknown"
    BY DEF IsStory
  <1>. HIDE DEF w, rule
  <1>9. PICK p \in R : /\ HandsOn(p, c) /\ k \in DOMAIN propagated_keys(v.tags[p])
                       /\ RuleAsk(rule, w, v, v, c, k) = v.tags[p][k]
                       /\ c.state \notin {"gone", "unknown"} => k \notin DOMAIN v.tags[c]
    BY <1>5, <1>6, <1>7, RuleAskOrigin
  <1>. QED
    BY <1>3, <1>5, <1>7, <1>8, <1>9

LEMMA WishedByOne ==
    ASSUME NEW st, IsStory(st), NEW x \in ToSet(AllTasks(st)), NEW v, NEW c, NEW k,
           TaskAsk(x, st, v, c, k) # None
    PROVE  Wish(st, v, c, k) # None
  <1> DEFINE todo == AllTasks(st)
             ask == [i \in DOMAIN todo |-> TaskAsk(todo[i], st, v, c, k)]
  <1>1. DOMAIN todo = 1..Len(todo) /\ Len(todo) \in Nat
    BY TaskFacts, AllTasksTodo
  <1>2. PICK i \in DOMAIN todo : todo[i] = x
    BY DEF ToSet
  <1>3. DOMAIN ask = 1..Len(todo) /\ i \in 1..Len(todo) /\ ask[i] # None
    BY <1>1, <1>2
  <1>. HIDE DEF ask
  <1>4. LastSaid(ask) # None
    BY <1>1, <1>3, SaidBySome
  <1>. QED
    BY <1>4 DEF ask, Wish, TasksAsk

\* One task after another.
LEMMA TasksAskSteps ==
    ASSUME NEW todo, IsSeq(todo), NEW st, NEW v, NEW c, NEW k
    PROVE  /\ todo = <<>> => TasksAsk(todo, st, v, c, k) = None
           /\ todo # <<>> => TasksAsk(todo, st, v, c, k)
                                = Over(TaskAsk(Head(todo), st, v, c, k), TasksAsk(Tail(todo), st, v, c, k))
  <1> DEFINE ask(s) == [i \in DOMAIN s |-> TaskAsk(s[i], st, v, c, k)]
  <1>1. ASSUME todo = <<>> PROVE TasksAsk(todo, st, v, c, k) = None
    <2>1. Said(ask(todo)) = {}
      BY <1>1 DEF Said
    <2>. QED
      BY <2>1 DEF TasksAsk, LastSaid
  <1>2. ASSUME todo # <<>>
        PROVE  TasksAsk(todo, st, v, c, k)
                  = Over(TaskAsk(Head(todo), st, v, c, k), TasksAsk(Tail(todo), st, v, c, k))
    <2> DEFINE one == [i \in 1..1 |-> TaskAsk(Head(todo), st, v, c, k)]
    <2>1. /\ todo \in Seq(ToSet(todo)) /\ Len(todo) \in Nat /\ Len(todo) # 0 /\ DOMAIN todo = 1..Len(todo)
          /\ Head(todo) = todo[1]
      BY <1>2 DEF IsSeq
    <2>2. /\ Len(Tail(todo)) = Len(todo) - 1 /\ DOMAIN Tail(todo) = 1..Len(todo) - 1
          /\ \A i \in 1..Len(todo) - 1 : Tail(todo)[i] = todo[i + 1]
      BY <1>2, <2>1
    <2> DEFINE n == Len(todo) - 1
               s == ask(todo)
               t == ask(Tail(todo))
    <2>3. n \in Nat /\ 1 + n = Len(todo)
      BY <2>1
    <2>4. DOMAIN one = 1..1 /\ DOMAIN t = 1..n /\ DOMAIN s = 1..1 + n /\ one[1] = TaskAsk(Head(todo), st, v, c, k)
      BY <2>1, <2>2, <2>3
    <2>5. \A i \in 1..1 : s[i] = one[i]
      BY <2>1, <2>3
    <2>6. \A i \in 1..n : s[1 + i] = t[i]
      <3>. TAKE i \in 1..n
      <3>1. 1 + i \in DOMAIN todo /\ todo[i + 1] = Tail(todo)[i] /\ i \in DOMAIN Tail(todo) /\ 1 + i = i + 1
        BY <2>1, <2>2, <2>3
      <3>. QED
        BY <3>1
    <2>. HIDE DEF s, t, n, one
    <2>7. LastSaid(s) = Over(LastSaid(one), LastSaid(t))
      BY <2>3, <2>4, <2>5, <2>6, 1 \in Nat, LastSaidOfTwo
    <2>8. LastSaid(one) = one[1]
      BY <2>4, LastSaidOfOne
    <2>. QED
      BY <2>4, <2>7, <2>8 DEF s, t, TasksAsk
  <1>. QED
    BY <1>1, <1>2

LEMMA OverFacts ==
    /\ \A a : Over(a, None) = a /\ Over(None, a) = a
    /\ \A a, b, c : Over(Over(a, b), c) = Over(a, Over(b, c))
BY DEF Over

-----------------------------------------------------------------------------
(***************************************************************************)
(* The levels of the parents                                               *)
(***************************************************************************)
Level(st) == CHOOSE depth \in [DOMAIN st.tags -> 0..st.levels] :
                \A p, c \in DOMAIN st.tags : HandsOn(p, c) => depth[p] < depth[c]

LEMMA Levels ==
    ASSUME NEW st, IsStory(st)
    PROVE  /\ Level(st) \in [DOMAIN st.tags -> 0..st.levels] /\ st.levels \in Nat
           /\ \A p, c \in DOMAIN st.tags : HandsOn(p, c) => Level(st)[p] < Level(st)[c]
BY DEF IsStory, Level

\* A child has all the keys that are asked for, or is not fixed because what is
\* asked for is not accepted.
Full(st, v, c) == \A k \in Keys : Wish(st, v, c, k) # None => Canonical(k) \in DOMAIN v.tags[c]
Target(st, v, c) ==
    [k \in {x \in Keys : Wish(st, v, c, x) # None} |-> Wish(st, v, c, k)]
Accepted(ts) == ValidWrite(ts, CHOOSE n \in normalize(ts) : TRUE)
Done(st, v, c) == Full(st, v, c) \/ ~Accepted(Target(st, v, c))

LEMMA WishIsTag ==
    ASSUME NEW st, IsStory(st), NEW c \in DOMAIN st.tags, NEW k, NEW v, IsView(v, DOMAIN st.tags),
           Wish(st, v, c, k) # None
    PROVE  /\ k \in Keys /\ Wish(st, v, c, k) \in Values
           /\ \E p \in DOMAIN st.tags :
                 /\ HandsOn(p, c) /\ k \in DOMAIN propagated_keys(v.tags[p])
                 /\ Wish(st, v, c, k) = v.tags[p][k]
                 /\ c.state # "gone" => k \notin DOMAIN v.tags[c]
  <1>1. PICK p \in DOMAIN st.tags :
              /\ HandsOn(p, c) /\ k \in DOMAIN propagated_keys(v.tags[p])
              /\ Wish(st, v, c, k) = v.tags[p][k]
              /\ c.state # "gone" => k \notin DOMAIN v.tags[c]
    BY AllTasksTodo, TasksAskOrigin DEF Wish
  <1>2. IsTagSet(v.tags[p])
    BY DEF IsView
  <1>3. k \in DOMAIN v.tags[p]
    BY <1>1, <1>2, PropagatedTags
  <1>. QED
    BY <1>1, <1>2, <1>3 DEF IsTagSet

\* Those that hang on nothing need nothing.
LEMMA TopIsDone ==
    ASSUME NEW st, IsStory(st), NEW c \in DOMAIN st.tags, NEW v, IsView(v, DOMAIN st.tags),
           Level(st)[c] <= 0
    PROVE  Done(st, v, c)
  <1>1. ASSUME NEW k, Wish(st, v, c, k) # None PROVE FALSE
    <2>1. PICK p \in DOMAIN st.tags : HandsOn(p, c)
      BY <1>1, WishIsTag
    <2>2. Level(st)[p] < Level(st)[c] /\ Level(st)[p] \in Nat
      BY <2>1, Levels
    <2>. QED
      BY <2>2, Levels
  <1>. QED
    BY <1>1 DEF Done, Full

\* What is asked of a child with the same tags, under the same parents.
LEMMA WishAlike ==
    ASSUME NEW st, IsStory(st), NEW c \in DOMAIN st.tags, NEW v1, NEW v2,
           IsView(v1, DOMAIN st.tags), IsView(v2, DOMAIN st.tags),
           SameParents(v1, v2, c, DOMAIN st.tags), v1.tags[c] = v2.tags[c]
    PROVE  /\ \A k : Wish(st, v1, c, k) = Wish(st, v2, c, k)
           /\ Full(st, v1, c) <=> Full(st, v2, c)
           /\ Target(st, v1, c) = Target(st, v2, c)
  <1>1. \A k : Wish(st, v1, c, k) = Wish(st, v2, c, k)
    BY AllTasksTodo, TasksAskAlike DEF Wish
  <1>. QED
    BY <1>1 DEF Full, Target

-----------------------------------------------------------------------------
(***************************************************************************)
(* Two views with nothing but rounds between them.  The children at levels *)
(* up to n need no more, and those at the level after may have got what    *)
(* they need.                                                              *)
(***************************************************************************)
Later(st, n, v1, v2) ==
    \A c \in DOMAIN st.tags : Level(st)[c] <= n + 1 =>
        /\ DOMAIN v1.tags[c] \subseteq DOMAIN v2.tags[c]
        /\ \A k \in DOMAIN v2.tags[c] \ DOMAIN v1.tags[c] : Canonical(k) = k
        /\ Level(st)[c] <= n \/ ~Full(st, v2, c) => v1.tags[c] = v2.tags[c]

LEMMA LaterParents ==
    ASSUME NEW st, IsStory(st), NEW n \in Nat, NEW v1, NEW v2, Later(st, n, v1, v2),
           NEW c \in DOMAIN st.tags, Level(st)[c] <= n + 1
    PROVE  SameParents(v1, v2, c, DOMAIN st.tags) /\ SameParents(v2, v1, c, DOMAIN st.tags)
  <1>1. ASSUME NEW p \in DOMAIN st.tags, HandsOn(p, c) PROVE v1.tags[p] = v2.tags[p]
    <2>1. Level(st)[p] < Level(st)[c] /\ Level(st)[p] \in Nat /\ Level(st)[c] \in Nat
      BY <1>1, Levels
    <2>2. Level(st)[p] <= n /\ Level(st)[p] <= n + 1
      BY <2>1
    <2>. QED
      BY <2>2 DEF Later
  <1>. QED
    BY <1>1 DEF SameParents

\* What changed is done.
LEMMA LaterSame ==
    ASSUME NEW st, IsStory(st), NEW n \in Nat, NEW v1, NEW v2, Later(st, n, v1, v2),
           IsView(v1, DOMAIN st.tags), IsView(v2, DOMAIN st.tags),
           NEW c \in DOMAIN st.tags, Level(st)[c] <= n + 1
    PROVE  /\ Full(st, v1, c) => Full(st, v2, c)
           /\ Done(st, v1, c) => Done(st, v2, c)
           /\ Level(st)[c] <= n \/ ~Full(st, v2, c) =>
                 /\ v1.tags[c] = v2.tags[c]
                 /\ \A k : Wish(st, v1, c, k) = Wish(st, v2, c, k)
                 /\ \A todo, k : IsTodo(todo, DOMAIN st.inventory) =>
                        TasksAsk(todo, st, v1, c, k) = TasksAsk(todo, st, v2, c, k)
  <1>1. SameParents(v1, v2, c, DOMAIN st.tags)
    BY LaterParents
  <1>2. ASSUME Level(st)[c] <= n \/ ~Full(st, v2, c)
        PROVE  /\ v1.tags[c] = v2.tags[c]
               /\ \A k : Wish(st, v1, c, k) = Wish(st, v2, c, k)
               /\ \A todo, k : IsTodo(todo, DOMAIN st.inventory) =>
                      TasksAsk(todo, st, v1, c, k) = TasksAsk(todo, st, v2, c, k)
               /\ Full(st, v1, c) <=> Full(st, v2, c)
               /\ Target(st, v1, c) = Target(st, v2, c)
    <2>1. v1.tags[c] = v2.tags[c]
      BY <1>2 DEF Later
    <2>2. /\ \A k : Wish(st, v1, c, k) = Wish(st, v2, c, k)
          /\ Full(st, v1, c) <=> Full(st, v2, c)
          /\ Target(st, v1, c) = Target(st, v2, c)
      BY <1>1, <2>1, WishAlike
    <2>3. ASSUME NEW todo, NEW k, IsTodo(todo, DOMAIN st.inventory)
          PROVE  TasksAsk(todo, st, v1, c, k) = TasksAsk(todo, st, v2, c, k)
      BY <1>1, <2>1, <2>3, TasksAskAlike
    <2>. QED
      BY <2>1, <2>2, <2>3
  <1>. QED
    BY <1>2 DEF Done

\* What was asked for is asked for still, or there.
LEMMA LaterWish ==
    ASSUME NEW st, IsStory(st), NEW n \in Nat, NEW v1, NEW v2, Later(st, n, v1, v2),
           IsView(v1, DOMAIN st.tags), IsView(v2, DOMAIN st.tags),
           NEW c \in DOMAIN st.tags, Level(st)[c] <= n + 1, NEW k
    PROVE  /\ Wish(st, v1, c, k) # None => Wish(st, v2, c, k) # None \/ Canonical(k) \in DOMAIN v2.tags[c]
           /\ Wish(st, v2, c, k) # None => Wish(st, v1, c, k) # None
           /\ DOMAIN v1.tags[c] \subseteq DOMAIN v2.tags[c]
  <1>1. /\ SameParents(v1, v2, c, DOMAIN st.tags) /\ SameParents(v2, v1, c, DOMAIN st.tags)
    BY LaterParents
  <1>2. /\ DOMAIN v1.tags[c] \subseteq DOMAIN v2.tags[c]
        /\ k \in DOMAIN v2.tags[c] \ DOMAIN v1.tags[c] => Canonical(k) = k
    BY DEF Later
  <1>3. (k \notin DOMAIN v1.tags[c] => k \notin DOMAIN v2.tags[c])
           => (Wish(st, v1, c, k) # None => Wish(st, v2, c, k) # None)
    BY <1>1, AllTasksTodo, TasksAskAlike DEF Wish
  <1>4. (k \notin DOMAIN v2.tags[c] => k \notin DOMAIN v1.tags[c])
           => (Wish(st, v2, c, k) # None => Wish(st, v1, c, k) # None)
    BY <1>1, AllTasksTodo, TasksAskAlike DEF Wish
  <1>. QED
    BY <1>2, <1>3, <1>4

LEMMA LaterStill ==
    ASSUME NEW st, IsStory(st), NEW n \in Nat, NEW v1, NEW v2, NEW v3,
           IsView(v1, DOMAIN st.tags), IsView(v2, DOMAIN st.tags), IsView(v3, DOMAIN st.tags),
           Later(st, n, v1, v2), Later(st, n, v2, v3)
    PROVE  Later(st, n, v1, v3)
  <1>. SUFFICES ASSUME NEW c \in DOMAIN st.tags, Level(st)[c] <= n + 1
                PROVE  /\ DOMAIN v1.tags[c] \subseteq DOMAIN v3.tags[c]
                       /\ \A k \in DOMAIN v3.tags[c] \ DOMAIN v1.tags[c] : Canonical(k) = k
                       /\ Level(st)[c] <= n \/ ~Full(st, v3, c) => v1.tags[c] = v3.tags[c]
    BY DEF Later
  <1>1. /\ DOMAIN v1.tags[c] \subseteq DOMAIN v2.tags[c]
        /\ \A k \in DOMAIN v2.tags[c] \ DOMAIN v1.tags[c] : Canonical(k) = k
        /\ Level(st)[c] <= n \/ ~Full(st, v2, c) => v1.tags[c] = v2.tags[c]
    BY DEF Later
  <1>2. /\ DOMAIN v2.tags[c] \subseteq DOMAIN v3.tags[c]
        /\ \A k \in DOMAIN v3.tags[c] \ DOMAIN v2.tags[c] : Canonical(k) = k
        /\ Level(st)[c] <= n \/ ~Full(st, v3, c) => v2.tags[c] = v3.tags[c]
    BY DEF Later
  <1>3. Full(st, v2, c) => Full(st, v3, c)
    BY LaterSame
  <1>. QED
    BY <1>1, <1>2, <1>3

LEMMA LaterAlike ==
    ASSUME NEW st, NEW n, NEW v1, NEW v2, v1.tags = v2.tags
    PROVE  Later(st, n, v1, v2)
BY DEF Later

-----------------------------------------------------------------------------
(***************************************************************************)
(* What the findings of a check and the plan of an apply say, in the round *)
(***************************************************************************)

\* The findings ask for nothing that is not needed, and for a child that is not
\* done they will ask, with what is still to be looked at, for just what it needs.
Sound(st, v, c, fs) ==
    \A k \in Keys : AskOf(fs, c, k) # None =>
        Wish(st, v, c, k) # None \/ Canonical(k) \in DOMAIN v.tags[c]
Exact(st, v, c, fs, todo) ==
    \A k \in Keys : Over(AskOf(fs, c, k), TasksAsk(todo, st, v, c, k)) = Wish(st, v, c, k)
Looked(st, n, v, fs, todo) ==
    \A c \in DOMAIN st.tags : Level(st)[c] <= n + 1 =>
        Sound(st, v, c, fs) /\ (Full(st, v, c) \/ Exact(st, v, c, fs, todo))

\* What is left to be written is for children at the level after, and all that
\* they need.
Completes(st, v, c, changes) ==
    /\ HasCanonicalKeys(changes)
    /\ \A k \in Keys : Wish(st, v, c, k) # None => Canonical(k) \in DOMAIN changes \cup DOMAIN v.tags[c]
Applies(st, n, v, left, plan) ==
    \A c \in DOMAIN st.tags : Level(st)[c] <= n + 1 =>
        IF c \in left THEN Level(st)[c] = n + 1 /\ Completes(st, v, c, plan[c].changes)
        ELSE Done(st, v, c)

LEMMA LookedLater ==
    ASSUME NEW st, IsStory(st), NEW n \in Nat, NEW v1, NEW v2, Later(st, n, v1, v2),
           IsView(v1, DOMAIN st.tags), IsView(v2, DOMAIN st.tags),
           NEW fs, NEW todo, IsTodo(todo, DOMAIN st.inventory), Looked(st, n, v1, fs, todo)
    PROVE  Looked(st, n, v2, fs, todo)
  <1>. SUFFICES ASSUME NEW c \in DOMAIN st.tags, Level(st)[c] <= n + 1
                PROVE  Sound(st, v2, c, fs) /\ (Full(st, v2, c) \/ Exact(st, v2, c, fs, todo))
    BY DEF Looked
  <1>1. Sound(st, v1, c, fs) /\ (Full(st, v1, c) \/ Exact(st, v1, c, fs, todo))
    BY DEF Looked
  <1>2. ASSUME NEW k \in Keys, AskOf(fs, c, k) # None
        PROVE  Wish(st, v2, c, k) # None \/ Canonical(k) \in DOMAIN v2.tags[c]
    <2>1. Wish(st, v1, c, k) # None \/ Canonical(k) \in DOMAIN v1.tags[c]
      BY <1>1, <1>2 DEF Sound
    <2>. QED
      BY <2>1, LaterWish
  <1>3. CASE Full(st, v2, c)
    BY <1>2, <1>3 DEF Sound
  <1>4. CASE ~Full(st, v2, c)
    <2>1. ~Full(st, v1, c)
      BY <1>4, LaterSame
    <2>2. \A k : /\ Wish(st, v1, c, k) = Wish(st, v2, c, k)
                 /\ TasksAsk(todo, st, v1, c, k) = TasksAsk(todo, st, v2, c, k)
      BY <1>4, LaterSame
    <2>3. Exact(st, v2, c, fs, todo)
      BY <1>1, <2>1, <2>2 DEF Exact
    <2>. QED
      BY <1>2, <2>3 DEF Sound
  <1>. QED
    BY <1>3, <1>4

LEMMA AppliesLater ==
    ASSUME NEW st, IsStory(st), NEW n \in Nat, NEW v1, NEW v2, Later(st, n, v1, v2),
           IsView(v1, DOMAIN st.tags), IsView(v2, DOMAIN st.tags),
           NEW left, NEW plan, Applies(st, n, v1, left, plan)
    PROVE  Applies(st, n, v2, left, plan)
  <1>. SUFFICES ASSUME NEW c \in DOMAIN st.tags, Level(st)[c] <= n + 1
                PROVE  IF c \in left
                       THEN Level(st)[c] = n + 1 /\ Completes(st, v2, c, plan[c].changes)
                       ELSE Done(st, v2, c)
    BY DEF Applies
  <1>1. CASE c \in left
    <2>1. Level(st)[c] = n + 1 /\ Completes(st, v1, c, plan[c].changes)
      BY <1>1 DEF Applies
    <2>2. \A k : Wish(st, v2, c, k) # None => Wish(st, v1, c, k) # None
      BY LaterWish
    <2>3. DOMAIN v1.tags[c] \subseteq DOMAIN v2.tags[c]
      BY LaterWish
    <2>4. Completes(st, v2, c, plan[c].changes)
      BY <2>1, <2>2, <2>3 DEF Completes
    <2>. QED
      BY <1>1, <2>1, <2>4
  <1>2. CASE c \notin left
    <2>1. Done(st, v1, c)
      BY <1>2 DEF Applies
    <2>. QED
      BY <1>2, <2>1, LaterSame
  <1>. QED
    BY <1>1, <1>2

\* A check begins.
LEMMA NothingLooked ==
    ASSUME NEW st, NEW n, NEW v
    PROVE  Looked(st, n, v, <<>>, AllTasks(st))
BY NothingAsked, OverFacts DEF Looked, Sound, Exact, Wish

\* A rule is looked at, with its two views.
LEMMA LookedOneMore ==
    ASSUME NEW st, IsStory(st), NEW n \in Nat, NEW first, NEW v, Later(st, n, first, v),
           IsView(first, DOMAIN st.tags), IsView(v, DOMAIN st.tags),
           NEW todo, IsTodo(todo, DOMAIN st.inventory), todo # <<>>, ToSet(todo) \subseteq ToSet(AllTasks(st)),
           NEW fs, IsSeq(fs), Looked(st, n, v, fs, todo),
           NEW new, IsSeq(new),
           \A c, k : AskOf(new, c, k)
                        = RuleAsk(Head(todo).rule, st.inventory[Head(todo).place], first, v, c, k)
    PROVE  Looked(st, n, v, fs \o new, Tail(todo))
  <1> DEFINE x == Head(todo)
             w == st.inventory[x.place]
             R == DOMAIN st.tags
  <1>1. /\ IsSeq(todo) /\ x \in ToSet(todo) /\ x \in ToSet(AllTasks(st))
        /\ x.rule \in RuleNames /\ w \in Seq(R)
    <2>1. IsSeq(todo) /\ x \in ToSet(todo)
      BY TailMembers DEF IsTodo
    <2>. QED
      BY <2>1 DEF IsTodo, IsStory
  <1>. HIDE DEF x, w
  <1>2. \A c, k : AskOf(new, c, k) = RuleAsk(x.rule, w, first, v, c, k)
    BY DEF x, w
  <1>. SUFFICES ASSUME NEW c \in R, Level(st)[c] <= n + 1
                PROVE  Sound(st, v, c, fs \o new) /\ (Full(st, v, c) \/ Exact(st, v, c, fs \o new, Tail(todo)))
    BY DEF Looked
  <1>3. Sound(st, v, c, fs) /\ (Full(st, v, c) \/ Exact(st, v, c, fs, todo))
    BY DEF Looked
  <1>4. \A k : AskOf(fs \o new, c, k) = Over(AskOf(fs, c, k), AskOf(new, c, k))
    BY AskOfTwo
  <1>5. SameParents(first, v, c, R) /\ SameParents(v, first, c, R) /\ SameParents(first, first, c, R)
        /\ SameParents(v, v, c, R)
    BY LaterParents DEF SameParents
  <1>6. IsView(first, R) /\ IsView(v, R)
    OBVIOUS
  <1>. HIDE DEF R
  <1>7. ASSUME NEW k, RuleAsk(x.rule, w, first, v, c, k) # None
        PROVE  Wish(st, v, c, k) # None \/ Canonical(k) \in DOMAIN v.tags[c]
    <2>1. DOMAIN first.tags[c] \subseteq DOMAIN v.tags[c]
      BY LaterWish DEF R
    <2>2. \A y \in {first, v, first, first} : IsView(y, R) /\ SameParents(y, first, c, R)
      BY <1>5, <1>6
    <2>3. \A y \in {first, v}, z \in {first, first} : k \notin DOMAIN y.tags[c] => k \notin DOMAIN z.tags[c]
      BY <2>1
    <2>4. RuleAsk(x.rule, w, first, first, c, k) # None
      BY <1>1, <1>7, <2>2, <2>3, RuleAsksAlike
    <2>5. TaskAsk(x, st, first, c, k) # None
      BY <2>4 DEF TaskAsk, w
    <2>6. Wish(st, first, c, k) # None
      BY <1>1, <2>5, WishedByOne
    <2>. QED
      BY <2>6, LaterWish DEF R
  <1>8. Sound(st, v, c, fs \o new)
    <2>. SUFFICES ASSUME NEW k \in Keys, AskOf(fs \o new, c, k) # None
                  PROVE  Wish(st, v, c, k) # None \/ Canonical(k) \in DOMAIN v.tags[c]
      BY DEF Sound
    <2>1. AskOf(fs, c, k) # None \/ AskOf(new, c, k) # None
      BY <1>4 DEF Over
    <2>. QED
      BY <1>2, <1>3, <1>7, <2>1 DEF Sound
  <1>9. ASSUME ~Full(st, v, c) PROVE Exact(st, v, c, fs \o new, Tail(todo))
    <2>. SUFFICES ASSUME NEW k \in Keys
                  PROVE  Over(AskOf(fs \o new, c, k), TasksAsk(Tail(todo), st, v, c, k)) = Wish(st, v, c, k)
      BY DEF Exact
    <2>1. first.tags[c] = v.tags[c]
      BY <1>9 DEF Later, R
    <2>2. \A y \in {first, v, v, v} : IsView(y, R) /\ SameParents(y, first, c, R)
      BY <1>5, <1>6
    <2>3. \A y \in {first, v}, z \in {v, v} : k \in DOMAIN y.tags[c] <=> k \in DOMAIN z.tags[c]
      BY <2>1
    <2>4. RuleAsk(x.rule, w, first, v, c, k) = RuleAsk(x.rule, w, v, v, c, k)
      BY <1>1, <2>2, <2>3, RuleAsksAlike
    <2>5. AskOf(new, c, k) = TaskAsk(x, st, v, c, k)
      BY <1>2, <2>4 DEF TaskAsk, w
    <2>6. TasksAsk(todo, st, v, c, k) = Over(TaskAsk(x, st, v, c, k), TasksAsk(Tail(todo), st, v, c, k))
      BY <1>1, TasksAskSteps DEF x
    <2>7. Over(AskOf(fs, c, k), TasksAsk(todo, st, v, c, k)) = Wish(st, v, c, k)
      BY <1>3, <1>9 DEF Exact
    <2>. QED
      BY <1>4, <2>5, <2>6, <2>7, OverFacts
  <1>. QED
    BY <1>8, <1>9

\* A child gets what is left for it.
LEMMA WriteCompletes ==
    ASSUME NEW st, IsStory(st), NEW n \in Nat, NEW v1, NEW v2,
           IsView(v1, DOMAIN st.tags), IsView(v2, DOMAIN st.tags),
           NEW r \in DOMAIN st.tags, n + 1 <= Level(st)[r], NEW changes,
           v2.tags[r] = Written(v1.tags[r], changes),
           \A x \in DOMAIN st.tags \ {r} : v2.tags[x] = v1.tags[x],
           Level(st)[r] = n + 1 => Completes(st, v1, r, changes)
    PROVE  Later(st, n, v1, v2) /\ (Level(st)[r] = n + 1 => Full(st, v2, r))
  <1>0. Level(st) \in [DOMAIN st.tags -> Nat]
    BY Levels
  <1>1. DOMAIN v2.tags[r] = DOMAIN v1.tags[r] \cup DOMAIN changes
    BY DEF Written
  <1>2. ASSUME Level(st)[r] = n + 1 PROVE Full(st, v2, r)
    <2>1. ASSUME NEW p \in DOMAIN st.tags, HandsOn(p, r) PROVE v2.tags[p] = v1.tags[p]
      <3>1. Level(st)[p] < Level(st)[r]
        BY <2>1, Levels
      <3>2. p # r
        BY <1>0, <3>1
      <3>. QED
        BY <3>2
    <2>2. SameParents(v2, v1, r, DOMAIN st.tags)
      BY <2>1 DEF SameParents
    <2>3. \A k : Wish(st, v2, r, k) # None => Wish(st, v1, r, k) # None
      BY <1>1, <2>2, AllTasksTodo, TasksAskAlike DEF Wish
    <2>. QED
      BY <1>1, <1>2, <2>3 DEF Full, Completes
  <1>3. ASSUME NEW c \in DOMAIN st.tags, Level(st)[c] <= n + 1
        PROVE  /\ DOMAIN v1.tags[c] \subseteq DOMAIN v2.tags[c]
               /\ \A k \in DOMAIN v2.tags[c] \ DOMAIN v1.tags[c] : Canonical(k) = k
               /\ Level(st)[c] <= n \/ ~Full(st, v2, c) => v1.tags[c] = v2.tags[c]
    <2>1. CASE c = r
      <3>1. Level(st)[r] = n + 1 /\ ~(Level(st)[r] <= n)
        BY <1>0, <1>3, <2>1
      <3>2. Full(st, v2, r) /\ HasCanonicalKeys(changes)
        BY <1>2, <3>1 DEF Completes
      <3>. QED
        BY <1>1, <2>1, <3>1, <3>2 DEF HasCanonicalKeys
    <2>2. CASE c # r
      BY <2>2
    <2>. QED
      BY <2>1, <2>2
  <1>. QED
    BY <1>2, <1>3 DEF Later

-----------------------------------------------------------------------------
(***************************************************************************)
(* The plan that fixes what a check found                                  *)
(***************************************************************************)
LEMMA NoKeys == ASSUME NEW ts, IsTagSet(ts) PROVE ts # NoTags <=> \E k \in Keys : k \in DOMAIN ts
  <1>1. ASSUME DOMAIN ts = {} PROVE ts = NoTags
    BY <1>1 DEF IsTagSet, NoTags
  <1>. QED
    BY <1>1, EmptyTags DEF IsTagSet

\* A plan wants, for a child, what the findings ask for.
LEMMA FixPlanAsks ==
    ASSUME NEW fs, IsSeq(fs), \A f \in ToSet(fs) : GoodFinding(f)
    PROVE  /\ \A c : c \in DOMAIN fix_plan(fs, FALSE) <=> \E k \in Keys : AskOf(fs, c, k) # None
           /\ \A c \in DOMAIN fix_plan(fs, FALSE) :
                 fix_plan(fs, FALSE)[c] = [k \in {x \in Keys : AskOf(fs, c, x) # None} |-> AskOf(fs, c, k)]
  <1> DEFINE For(c, k) == {i \in DOMAIN fs : fs[i].id.child = c /\ k \in DOMAIN Asked(fs[i], FALSE)}
             Latest(c, k) == CHOOSE i \in For(c, k) : \A j \in For(c, k) : j <= i
             s(c, k) == [i \in DOMAIN fs |-> AskedOf(fs[i], c, k)]
             Of(c) == [k \in {x \in Keys : For(c, x) # {}} |-> Asked(fs[Latest(c, k)], FALSE)[k]]
  <1>1. \A i \in DOMAIN fs : IsTagSet(Asked(fs[i], FALSE))
    BY AskedTagSet DEF ToSet
  <1>2. ASSUME NEW c, NEW k PROVE Said(s(c, k)) = For(c, k)
    <2>1. \A i \in DOMAIN fs : s(c, k)[i] # None <=> i \in For(c, k)
      BY <1>1, ValuesAreSome DEF AskedOf
    <2>. QED
      BY <2>1 DEF Said
  <1>3. ASSUME NEW c, NEW k, For(c, k) # {} PROVE Latest(c, k) \in For(c, k)
    <2>1. For(c, k) \subseteq 1..Len(fs) /\ Len(fs) \in Nat
      BY SeqFacts
    <2>. HIDE DEF For
    <2>2. \E i \in For(c, k) : \A j \in For(c, k) : j <= i
      BY <1>3, <2>1, LastPosition
    <2>. QED
      BY <2>2
  <1>4. ASSUME NEW c, NEW k
        PROVE  /\ For(c, k) # {} => /\ AskOf(fs, c, k) = Asked(fs[Latest(c, k)], FALSE)[k]
                                    /\ AskOf(fs, c, k) # None
               /\ For(c, k) = {} => AskOf(fs, c, k) = None
    <2>1. AskOf(fs, c, k) = IF For(c, k) = {} THEN None ELSE s(c, k)[Latest(c, k)]
      <3>1. AskOf(fs, c, k) = LastSaid(s(c, k)) /\ LastOf(For(c, k)) = Latest(c, k)
        BY DEF AskOf, LastOf
      <3>. HIDE DEF For, Latest, s
      <3>. QED
        BY <1>2, <3>1 DEF LastSaid
    <2>2. For(c, k) # {} => /\ s(c, k)[Latest(c, k)] = Asked(fs[Latest(c, k)], FALSE)[k]
                            /\ k \in DOMAIN Asked(fs[Latest(c, k)], FALSE)
                            /\ Latest(c, k) \in DOMAIN fs
      <3>. HIDE DEF Latest
      <3>. QED
        BY <1>3 DEF AskedOf
    <2>. HIDE DEF For, Latest, s
    <2>. QED
      BY <1>1, <2>1, <2>2, ValuesAreSome
  <1>5. ASSUME NEW c
        PROVE  c \in DOMAIN fix_plan(fs, FALSE) <=> \E k \in Keys : For(c, k) # {}
    <2>1. c \in DOMAIN fix_plan(fs, FALSE)
             <=> \E i \in DOMAIN fs : Asked(fs[i], FALSE) # NoTags /\ fs[i].id.child = c
      BY DEF fix_plan, Asking
    <2>2. \A i \in DOMAIN fs : Asked(fs[i], FALSE) # NoTags <=> \E k \in Keys : k \in DOMAIN Asked(fs[i], FALSE)
      BY <1>1, NoKeys
    <2>. QED
      BY <2>1, <2>2
  <1>6. \A c \in DOMAIN fix_plan(fs, FALSE) : fix_plan(fs, FALSE)[c] = Of(c)
    BY DEF fix_plan
  <1>. HIDE DEF For, Latest
  <1>7. \A c : Of(c) = [k \in {x \in Keys : AskOf(fs, c, x) # None} |-> AskOf(fs, c, k)]
    BY <1>4
  <1>. HIDE DEF Of
  <1>. QED
    BY <1>4, <1>5, <1>6, <1>7

\* Without overwriting, the keys that a resource has are left alone.
LEMMA PlanIs ==
    ASSUME NEW targets, NEW have, NEW c \in DOMAIN targets, IsTagSet(targets[c]), c \in DOMAIN have
    PROVE  LET p == build_plan(targets, have, FALSE)[c] IN
           /\ HasCanonicalKeys(p.changes) /\ IsTagSet(p.changes)
           /\ DOMAIN p.changes = CanonicalKeys(targets[c]) \ DOMAIN have[c]
           /\ p.valid <=> Accepted(targets[c])
  <1> DEFINE set == CHOOSE n \in normalize(targets[c]) : TRUE
             S == {k \in DOMAIN set : k \in DOMAIN have[c] => FALSE /\ have[c][k] # set[k]}
  <1>1. /\ build_plan(targets, have, FALSE)[c].changes = Restrict(set, S)
        /\ build_plan(targets, have, FALSE)[c].valid = Accepted(targets[c])
    BY DEF build_plan, Accepted
  <1>2. set \in normalize(targets[c])
    BY SomeNormalized
  <1>. HIDE DEF set
  <1>3. IsTagSet(set) /\ HasCanonicalKeys(set) /\ DOMAIN set = CanonicalKeys(targets[c])
    BY <1>2, NormalizedTags DEF normalize
  <1>4. S = CanonicalKeys(targets[c]) \ DOMAIN have[c] /\ S \subseteq DOMAIN set
    BY <1>3
  <1>. HIDE DEF S
  <1>5. DOMAIN Restrict(set, S) = S /\ IsTagSet(Restrict(set, S))
    BY <1>3, <1>4, RestrictTags
  <1>6. HasCanonicalKeys(Restrict(set, S))
    BY <1>3, <1>4, <1>5 DEF HasCanonicalKeys
  <1>. QED
    BY <1>1, <1>4, <1>5, <1>6

\* An apply of all that a check of the round has found.
LEMMA ApplyBegins ==
    ASSUME NEW st, IsStory(st), NEW n \in Nat, NEW v, IsView(v, DOMAIN st.tags),
           NEW fs, IsSeq(fs), \A f \in ToSet(fs) : GoodFinding(f),
           Looked(st, n, v, fs, <<>>),
           \A c \in DOMAIN st.tags : Level(st)[c] <= n => Done(st, v, c),
           NEW plan, plan = build_plan(fix_plan(fs, FALSE), v.tags, FALSE)
    PROVE  Applies(st, n, v, {r \in DOMAIN plan : plan[r].valid /\ plan[r].changes # NoTags}, plan)
  <1> DEFINE left == {r \in DOMAIN plan : plan[r].valid /\ plan[r].changes # NoTags}
             target == fix_plan(fs, FALSE)
  <1>. SUFFICES ASSUME NEW c \in DOMAIN st.tags, Level(st)[c] <= n + 1
                PROVE  IF c \in left
                       THEN Level(st)[c] = n + 1 /\ Completes(st, v, c, plan[c].changes)
                       ELSE Done(st, v, c)
    BY DEF Applies
  <1>1. DOMAIN plan = DOMAIN target
    BY DEF build_plan
  <1>2. /\ c \in DOMAIN plan <=> \E k \in Keys : AskOf(fs, c, k) # None
        /\ c \in DOMAIN plan =>
              /\ target[c] = [k \in {x \in Keys : AskOf(fs, c, x) # None} |-> AskOf(fs, c, k)]
              /\ IsTagSet(target[c])
    <2>1. \A d : d \in DOMAIN target <=> \E k \in Keys : AskOf(fs, d, k) # None
      BY FixPlanAsks
    <2>2. \A d \in DOMAIN target : target[d] = [k \in {x \in Keys : AskOf(fs, d, x) # None} |-> AskOf(fs, d, k)]
      BY FixPlanAsks
    <2>3. \A d \in DOMAIN target : IsTagSet(target[d])
      BY FixPlanTags
    <2>. HIDE DEF target
    <2>. QED
      BY <1>1, <2>1, <2>2, <2>3
  <1>3. c \in DOMAIN plan =>
           /\ HasCanonicalKeys(plan[c].changes) /\ IsTagSet(plan[c].changes)
           /\ DOMAIN plan[c].changes = CanonicalKeys(target[c]) \ DOMAIN v.tags[c]
           /\ plan[c].valid <=> Accepted(target[c])
    <2>1. c \in DOMAIN v.tags
      BY DEF IsView
    <2>2. \A targets : c \in DOMAIN targets /\ IsTagSet(targets[c]) =>
              LET p == build_plan(targets, v.tags, FALSE)[c] IN
              /\ HasCanonicalKeys(p.changes) /\ IsTagSet(p.changes)
              /\ DOMAIN p.changes = CanonicalKeys(targets[c]) \ DOMAIN v.tags[c]
              /\ p.valid <=> Accepted(targets[c])
      BY <2>1, PlanIs
    <2>. HIDE DEF target
    <2>3. plan = build_plan(target, v.tags, FALSE)
      BY DEF target
    <2>. QED
      BY <1>1, <1>2, <2>2, <2>3
  <1>4. Sound(st, v, c, fs) /\ (Full(st, v, c) \/ Exact(st, v, c, fs, <<>>))
    BY DEF Looked
  <1>. HIDE DEF target
  <1>5. ASSUME Full(st, v, c) PROVE c \notin left
    <2>. SUFFICES ASSUME c \in DOMAIN plan PROVE plan[c].changes = NoTags
      OBVIOUS
    <2>1. \A k \in DOMAIN target[c] : Canonical(k) \in DOMAIN v.tags[c]
      BY <1>2, <1>4, <1>5 DEF Full, Sound
    <2>2. DOMAIN plan[c].changes = {}
      BY <1>3, <2>1 DEF CanonicalKeys
    <2>. QED
      BY <1>3, <2>2, NoKeys
  <1>6. ASSUME ~Full(st, v, c)
        PROVE  c \in DOMAIN plan /\ target[c] = Target(st, v, c) /\ plan[c].changes # NoTags
               /\ \A k \in Keys : Wish(st, v, c, k) # None => k \in DOMAIN target[c]
    <2>1. ASSUME NEW k \in Keys PROVE AskOf(fs, c, k) = Wish(st, v, c, k)
      <3>1. IsSeq(<<>>)
        BY DEF IsSeq, ToSet
      <3>2. TasksAsk(<<>>, st, v, c, k) = None
        BY <3>1, TasksAskSteps
      <3>3. Over(AskOf(fs, c, k), TasksAsk(<<>>, st, v, c, k)) = Wish(st, v, c, k)
        BY <1>4, <1>6 DEF Exact
      <3>. QED
        BY <3>2, <3>3, OverFacts
    <2>2. PICK k \in Keys : Wish(st, v, c, k) # None /\ Canonical(k) \notin DOMAIN v.tags[c]
      BY <1>6 DEF Full
    <2>3. c \in DOMAIN plan
      BY <1>2, <2>1, <2>2
    <2>4. target[c] = Target(st, v, c)
      BY <1>2, <2>1, <2>3 DEF Target
    <2>5. \A x \in Keys : Wish(st, v, c, x) # None => x \in DOMAIN target[c]
      BY <2>4 DEF Target
    <2>6. Canonical(k) \in DOMAIN plan[c].changes
      BY <1>3, <2>2, <2>3, <2>5 DEF CanonicalKeys
    <2>7. plan[c].changes # NoTags
      BY <2>6, EmptyTags
    <2>. QED
      BY <2>3, <2>4, <2>5, <2>7
  <1>7. CASE c \in left
    <2>1. ~Full(st, v, c) /\ Accepted(target[c])
      BY <1>3, <1>5, <1>7
    <2>2. ~Done(st, v, c)
      BY <1>6, <2>1 DEF Done
    <2>3. Level(st)[c] \in Nat /\ ~(Level(st)[c] <= n)
      BY <2>2, Levels
    <2>4. Level(st)[c] = n + 1
      BY <2>3
    <2>5. Completes(st, v, c, plan[c].changes)
      BY <1>3, <1>6, <1>7, <2>1 DEF Completes, CanonicalKeys
    <2>. QED
      BY <1>7, <2>4, <2>5
  <1>8. CASE c \notin left
    <2>1. Full(st, v, c) \/ ~Accepted(Target(st, v, c))
      BY <1>3, <1>6, <1>8
    <2>. QED
      BY <1>8, <2>1 DEF Done
  <1>. QED
    BY <1>7, <1>8

-----------------------------------------------------------------------------
(***************************************************************************)
(* The invariant of the rounds                                             *)
(***************************************************************************)

\* Rounds since the last disturbance.
Calm == rounds - calm

\* A thread t at p with the locals c, in round m, n rounds of which were calm.
Numbered(t, p, c, m) ==
    /\ c.round \in Nat /\ c.round <= m /\ (p = "idle" => c = NoCtx)
    /\ t \in Users /\ p # "tag" => c.round = 0
CheckOfRound(t, p, c, st, n, m, v) ==
    t \in Checkers /\ p \in {"first", "second"} /\ c.round = m =>
        /\ Looked(st, n, v, c.findings, c.todo) /\ ToSet(c.todo) \subseteq ToSet(AllTasks(st))
        /\ p = "second" => Later(st, n, c.first, v)
ApplyOfRound(t, p, c, st, n, m, v) ==
    t \in Users /\ p = "tag" /\ c.round = m /\ c.ids = All /\ ~c.overwrite =>
        Applies(st, n, v, c.left, c.plan)
ThreadRound(t, p, c, st, n, m, v) ==
    Numbered(t, p, c, m) /\ CheckOfRound(t, p, c, st, n, m, v) /\ ApplyOfRound(t, p, c, st, n, m, v)

RunRound(run, st, n, m, v) ==
    /\ run.round \in Nat /\ run.round <= m
    /\ run.round = m => Looked(st, n, v, run.findings, <<>>)

RoundsInv ==
    /\ Typed
    /\ rounds \in Nat /\ calm \in Nat /\ 1 <= calm /\ calm <= rounds /\ faults \in Nat
    /\ \A c \in exists : Level(story)[c] <= Calm => Done(story, View, c)
    /\ \A t \in Threads : ThreadRound(t, pc[t], ctx[t], story, Calm, rounds, View)
    /\ \A run \in ToSet(runs) : RunRound(run, story, Calm, rounds, View)

LEMMA RoundContext ==
    ASSUME RoundsInv
    PROVE  /\ IsStory(story) /\ exists = DOMAIN story.tags /\ Places = DOMAIN story.inventory
           /\ IsView(View, DOMAIN story.tags) /\ Calm \in Nat /\ rounds \in Nat /\ rounds # 0
           /\ Checkers \cap Users = {} /\ Threads = Checkers \cup Users
           /\ DOMAIN pc = Threads /\ DOMAIN ctx = Threads
           /\ \A t \in Threads : /\ DOMAIN ctx[t] = DOMAIN NoCtx /\ IsTodo(ctx[t].todo, Places)
                                 /\ IsSeq(ctx[t].findings)
                                 /\ \A f \in ToSet(ctx[t].findings) : GoodFinding(f)
  <1>1. Typed
    BY DEF RoundsInv
  <1>2. IsStory(story) /\ exists = DOMAIN story.tags
    BY <1>1, PropagationAssumption DEF Typed, Tagged
  <1>3. IsView(View, DOMAIN story.tags)
    BY <1>1, <1>2 DEF IsView, View, Typed, Tagged, exists
  <1>4. Calm \in Nat /\ rounds \in Nat /\ rounds # 0
    BY DEF RoundsInv, Calm
  <1>5. DOMAIN pc = Threads /\ DOMAIN ctx = Threads
    BY <1>1 DEF Typed, Threaded
  <1>6. ASSUME NEW t \in Threads
        PROVE  /\ DOMAIN ctx[t] = DOMAIN NoCtx /\ IsTodo(ctx[t].todo, Places)
               /\ IsSeq(ctx[t].findings) /\ \A f \in ToSet(ctx[t].findings) : GoodFinding(f)
    BY <1>1 DEF Typed, Threaded, ThreadOK, IsLocal, IsTodo
  <1>. QED
    BY <1>2, <1>3, <1>4, <1>5, <1>6, PropagationAssumption DEF Places, Threads

LEMMA RoundFields ==
    /\ {"ids", "overwrite", "shown", "token", "dry_run", "fix_config"} \subseteq DOMAIN NoCtx
    /\ NoCtx.round = 0 /\ NoCtx.findings = <<>>
BY DEF NoCtx

\* Threads and runs that stay as they are, while the tags change with the round.
LEMMA ThreadRoundLater ==
    ASSUME NEW st, IsStory(st), NEW n \in Nat, NEW v1, NEW v2, Later(st, n, v1, v2),
           IsView(v1, DOMAIN st.tags), IsView(v2, DOMAIN st.tags),
           NEW t, NEW p, NEW c, NEW m, IsTodo(c.todo, DOMAIN st.inventory),
           p = "second" => IsView(c.first, DOMAIN st.tags),
           ThreadRound(t, p, c, st, n, m, v1)
    PROVE  ThreadRound(t, p, c, st, n, m, v2)
  <1>1. Numbered(t, p, c, m)
    BY DEF ThreadRound
  <1>2. CheckOfRound(t, p, c, st, n, m, v2)
    <2>. SUFFICES ASSUME t \in Checkers, p \in {"first", "second"}, c.round = m
                  PROVE  /\ Looked(st, n, v2, c.findings, c.todo) /\ ToSet(c.todo) \subseteq ToSet(AllTasks(st))
                         /\ p = "second" => Later(st, n, c.first, v2)
      BY DEF CheckOfRound
    <2>1. /\ Looked(st, n, v1, c.findings, c.todo) /\ ToSet(c.todo) \subseteq ToSet(AllTasks(st))
          /\ p = "second" => Later(st, n, c.first, v1)
      BY DEF ThreadRound, CheckOfRound
    <2>2. Looked(st, n, v2, c.findings, c.todo)
      BY <2>1, LookedLater
    <2>3. p = "second" => Later(st, n, c.first, v2)
      BY <2>1, LaterStill
    <2>. QED
      BY <2>1, <2>2, <2>3
  <1>3. ApplyOfRound(t, p, c, st, n, m, v2)
    BY AppliesLater DEF ThreadRound, ApplyOfRound
  <1>. QED
    BY <1>1, <1>2, <1>3 DEF ThreadRound

LEMMA RunRoundLater ==
    ASSUME NEW st, IsStory(st), NEW n \in Nat, NEW v1, NEW v2, Later(st, n, v1, v2),
           IsView(v1, DOMAIN st.tags), IsView(v2, DOMAIN st.tags),
           NEW run, NEW m, RunRound(run, st, n, m, v1)
    PROVE  RunRound(run, st, n, m, v2)
  <1>1. IsTodo(<<>>, DOMAIN st.inventory)
    BY DEF IsTodo, IsSeq, ToSet
  <1>. QED
    BY <1>1, LookedLater DEF RunRound

\* In another round there is nothing to show.
LEMMA OtherRound ==
    ASSUME NEW t, NEW p, NEW c, NEW m \in Nat, Numbered(t, p, c, m), NEW st, NEW n, NEW v
    PROVE  ThreadRound(t, p, c, st, n, m + 1, v)
  <1>1. c.round \in Nat /\ c.round <= m
    BY DEF Numbered
  <1>2. c.round # m + 1 /\ c.round <= m + 1
    BY <1>1
  <1>. QED
    BY <1>2 DEF Numbered, ThreadRound, CheckOfRound, ApplyOfRound

LEMMA IdleRound ==
    ASSUME NEW t, NEW st, NEW n, NEW m \in Nat, NEW v
    PROVE  ThreadRound(t, "idle", NoCtx, st, n, m, v)
BY RoundFields DEF Numbered, ThreadRound, CheckOfRound, ApplyOfRound

-----------------------------------------------------------------------------
(***************************************************************************)
(* The steps of the threads                                                *)
(***************************************************************************)

\* What a thread that does not write has to show.
Goes(t) ==
    /\ Only(t) /\ Numbered(t, pc'[t], ctx'[t], rounds)
    /\ ThreadRound(t, pc'[t], ctx'[t], story, Calm, rounds, View) \/ faults' # faults

LEMMA ReturnGoes ==
    ASSUME RoundsInv, NEW t \in Threads, Return(t)
    PROVE  Goes(t)
  <1>1. Only(t) /\ pc'[t] = "idle" /\ ctx'[t] = NoCtx
    BY RoundContext DEF Return, Goto, Only
  <1>2. ThreadRound(t, "idle", NoCtx, story, Calm, rounds, View)
    BY IdleRound, RoundContext
  <1>. QED
    BY <1>1, <1>2 DEF Goes, ThreadRound

\* A thread goes somewhere else than to the calls of an apply or the reads of a check.
LEMMA StillGoes ==
    ASSUME RoundsInv, NEW t \in Threads, Only(t), pc'[t] \notin {"idle", "tag"}, pc[t] # "tag",
           ctx'[t].round = ctx[t].round, t \in Checkers => pc'[t] \notin {"first", "second"}
    PROVE  Goes(t)
  <1>1. Numbered(t, pc[t], ctx[t], rounds)
    BY DEF RoundsInv, ThreadRound
  <1>2. Numbered(t, pc'[t], ctx'[t], rounds)
    BY <1>1 DEF Numbered
  <1>3. ThreadRound(t, pc'[t], ctx'[t], story, Calm, rounds, View)
    BY <1>2 DEF ThreadRound, CheckOfRound, ApplyOfRound
  <1>. QED
    BY <1>2, <1>3 DEF Goes

LEMMA BeginGoes ==
    ASSUME RoundsInv, NEW t \in Checkers, run_in_background(t)
    PROVE  Goes(t)
  <1>0. t \in Threads /\ t \notin Users
    BY RoundContext
  <1>1. pc[t] = "idle" /\ ctx[t] = NoCtx
    BY <1>0 DEF run_in_background, At, RoundsInv, ThreadRound, Numbered
  <1>2. Only(t) /\ pc'[t] = "first"
    BY <1>0, RoundContext DEF run_in_background, Goto, Only
  <1>3. /\ ctx'[t].todo = AllTasks(story) /\ ctx'[t].round = rounds
        /\ ctx'[t].findings = <<>>
    BY <1>0, <1>1, RoundContext, Fields, RoundFields DEF run_in_background, AllTasks, Places
  <1>4. Numbered(t, pc'[t], ctx'[t], rounds)
    BY <1>0, <1>2, <1>3, RoundContext DEF Numbered
  <1>5. Looked(story, Calm, View, <<>>, AllTasks(story))
    BY NothingLooked
  <1>6. ThreadRound(t, pc'[t], ctx'[t], story, Calm, rounds, View)
    BY <1>0, <1>2, <1>3, <1>4, <1>5 DEF ThreadRound, CheckOfRound, ApplyOfRound
  <1>. QED
    BY <1>2, <1>4, <1>6 DEF Goes

LEMMA ReadFirstGoes ==
    ASSUME RoundsInv, NEW t \in Threads, ReadFirst(t)
    PROVE  Goes(t)
  <1>1. pc[t] = "first" /\ pc'[t] = "second" /\ Only(t)
    BY RoundContext DEF ReadFirst, At, Goto, Only
  <1>2. /\ ctx'[t].first = View /\ ctx'[t].todo = ctx[t].todo /\ ctx'[t].findings = ctx[t].findings
        /\ ctx'[t].round = ctx[t].round
    BY RoundContext, Fields DEF ReadFirst
  <1>3. ThreadRound(t, pc[t], ctx[t], story, Calm, rounds, View)
    BY DEF RoundsInv
  <1>4. Numbered(t, pc'[t], ctx'[t], rounds)
    BY <1>1, <1>2, <1>3 DEF ThreadRound, Numbered
  <1>5. Later(story, Calm, View, View)
    BY LaterAlike
  <1>6. CheckOfRound(t, pc'[t], ctx'[t], story, Calm, rounds, View)
    BY <1>1, <1>2, <1>3, <1>5 DEF ThreadRound, CheckOfRound
  <1>7. ThreadRound(t, pc'[t], ctx'[t], story, Calm, rounds, View)
    BY <1>1, <1>4, <1>6 DEF ThreadRound, ApplyOfRound
  <1>. QED
    BY <1>1, <1>4, <1>7 DEF Goes

LEMMA ReadSecondGoes ==
    ASSUME RoundsInv, NEW t \in Threads, ReadSecond(t)
    PROVE  Goes(t)
  <1> DEFINE x == Task(t)
             w == story.inventory[x.place]
             all == RULES(x.rule, w, ctx[t].first, View)
             Wanted == {r \in ToSet(all) : ctx[t].parent \in {NoTags, r.parent}}
             new == findings_for(x.rule, all)
  <1>0. Typed /\ ThreadOK(t, pc[t], ctx[t], Places, exists)
    BY DEF RoundsInv, Typed, Threaded
  <1>1. /\ pc[t] = "second" /\ ctx[t].todo # <<>> /\ IsView(ctx[t].first, DOMAIN story.tags)
        /\ Places = DOMAIN story.inventory
    BY <1>0, RoundContext DEF ReadSecond, At, ThreadOK
  <1>2. pc'[t] = "first" /\ Only(t)
    BY RoundContext DEF ReadSecond, Goto, Only
  <1>3. /\ ctx'[t].todo = Tail(ctx[t].todo) /\ ctx'[t].round = ctx[t].round
        /\ ctx'[t].findings = ctx[t].findings \o findings_for(x.rule, Where(all, Wanted))
    BY RoundContext, Fields DEF ReadSecond
  <1>. HIDE DEF x, w, all
  <1>4. ThreadRound(t, pc[t], ctx[t], story, Calm, rounds, View)
    BY DEF RoundsInv
  <1>5. Numbered(t, pc'[t], ctx'[t], rounds)
    BY <1>1, <1>2, <1>3, <1>4 DEF ThreadRound, Numbered
  <1>6. ASSUME t \in Checkers, ctx[t].round = rounds
        PROVE  /\ Looked(story, Calm, View, ctx'[t].findings, ctx'[t].todo)
               /\ ToSet(ctx'[t].todo) \subseteq ToSet(AllTasks(story))
    <2>1. ctx[t].parent = NoTags
      BY <1>0, <1>6 DEF ThreadOK
    <2>2. /\ Looked(story, Calm, View, ctx[t].findings, ctx[t].todo)
          /\ ToSet(ctx[t].todo) \subseteq ToSet(AllTasks(story))
          /\ Later(story, Calm, ctx[t].first, View)
      BY <1>1, <1>4, <1>6 DEF ThreadRound, CheckOfRound
    <2>3. /\ IsSeq(ctx[t].todo) /\ Head(ctx[t].todo) \in ToSet(ctx[t].todo)
          /\ ToSet(Tail(ctx[t].todo)) \subseteq ToSet(ctx[t].todo)
          /\ IsTodo(ctx[t].todo, DOMAIN story.inventory)
      BY <1>1, RoundContext, TailMembers DEF IsTodo
    <2>4. x.place \in DOMAIN story.inventory /\ x.rule \in RuleNames /\ x = Head(ctx[t].todo)
      BY <2>3 DEF IsTodo, x, Task
    <2>5. w \in Seq(DOMAIN story.tags)
      BY <2>4, RoundContext DEF IsStory, w
    <2>6. Reports(all, x.rule, w, ctx[t].first, View)
      BY <1>1, <2>4, <2>5, RoundContext, RulesReport DEF all
    <2>7. IsSeq(new)
      BY <2>6, FindingsFacts DEF Reports
    <2>8. Where(all, Wanted) = all
      BY <2>1, <2>6, WhereAll DEF Reports
    <2>9. \A c, k : AskOf(new, c, k)
                       = RuleAsk(Head(ctx[t].todo).rule, story.inventory[Head(ctx[t].todo).place],
                                 ctx[t].first, View, c, k)
      BY <2>4 DEF RuleAsk, all, w
    <2>. HIDE DEF new
    <2>10. Looked(story, Calm, View, ctx[t].findings \o new, Tail(ctx[t].todo))
      BY <1>1, <2>2, <2>3, <2>7, <2>9, RoundContext, LookedOneMore
    <2>. QED
      BY <1>3, <2>2, <2>3, <2>8, <2>10 DEF new
  <1>7. ThreadRound(t, pc'[t], ctx'[t], story, Calm, rounds, View)
    BY <1>2, <1>3, <1>5, <1>6 DEF ThreadRound, CheckOfRound, ApplyOfRound
  <1>. QED
    BY <1>2, <1>5, <1>7 DEF Goes

LEMMA RuleFailsGoes ==
    ASSUME RoundsInv, NEW t \in Threads, RuleFails(t)
    PROVE  Goes(t)
  <1>1. pc[t] \in {"first", "second"} /\ pc'[t] = "first" /\ Only(t)
    BY RoundContext DEF RuleFails, Checking, Goto, Only
  <1>2. ctx'[t].round = ctx[t].round
    BY RoundContext, Fields DEF RuleFails
  <1>3. Numbered(t, pc[t], ctx[t], rounds)
    BY DEF RoundsInv, ThreadRound
  <1>4. Numbered(t, pc'[t], ctx'[t], rounds)
    BY <1>1, <1>2, <1>3 DEF Numbered
  <1>5. faults' # faults
    BY DEF RuleFails, Fault, RoundsInv
  <1>. QED
    BY <1>1, <1>4, <1>5 DEF Goes

LEMMA LatestRun ==
    ASSUME Stored, runs # <<>>
    PROVE  /\ latest_run \in ToSet(runs) /\ IsSeq(latest_run.findings)
           /\ \A f \in ToSet(latest_run.findings) : GoodFinding(f)
           /\ _selected_findings(All) = latest_run.findings
  <1>1. runs \in Seq(ToSet(runs))
    BY DEF Stored, IsSeq
  <1>2. Len(runs) \in 1..Len(runs)
    BY <1>1
  <1>3. latest_run \in ToSet(runs)
    BY <1>1, <1>2, SeqFacts DEF Stored, latest_run
  <1>4. IsSeq(latest_run.findings) /\ \A f \in ToSet(latest_run.findings) : GoodFinding(f)
    BY <1>3 DEF Stored
  <1>5. _selected_findings(All) = latest_run.findings
    BY <1>4, WhereAll DEF _selected_findings
  <1>. QED
    BY <1>3, <1>4, <1>5

LEMMA ApplyingFields ==
    ASSUME NEW c, DOMAIN c = DOMAIN NoCtx, NEW fs, NEW overwrite
    PROVE  LET d == Applying(c, fs, overwrite)
               plan == PlanFor(fs, overwrite)
           IN /\ DOMAIN d = DOMAIN NoCtx /\ d.plan = plan /\ d.overwrite = overwrite
              /\ d.round = c.round /\ d.ids = c.ids
              /\ d.left = {r \in DOMAIN plan : plan[r].valid /\ plan[r].changes # NoTags}
  <1> DEFINE plan == PlanFor(fs, overwrite)
             left == {r \in DOMAIN plan : plan[r].valid /\ plan[r].changes # NoTags}
  <1>1. Applying(c, fs, overwrite) =
          [c EXCEPT !.plan = plan, !.ops = ops(fs), !.overwrite = overwrite, !.left = left]
    BY DEF Applying
  <1>. HIDE DEF plan, left
  <1>2. LET d == Applying(c, fs, overwrite) IN
        /\ DOMAIN d = DOMAIN NoCtx /\ d.plan = plan /\ d.overwrite = overwrite
        /\ d.round = c.round /\ d.ids = c.ids /\ d.left = left
    BY <1>1, Fields, RoundFields
  <1>. QED
    BY <1>2 DEF plan, left

LEMMA StartApplyGoes ==
    ASSUME RoundsInv, NEW u \in Users, NEW ids, NEW overwrite \in BOOLEAN,
           StartApply(u, ids, overwrite)
    PROVE  Goes(u)
  <1> DEFINE fs == _selected_findings(ids)
             next == Applying(ctx[u], fs, overwrite)
  <1>0. u \in Threads /\ u \notin Checkers /\ Typed /\ Stored
    BY RoundContext DEF RoundsInv, Typed
  <1>1. CASE Return(u)
    BY <1>0, <1>1, ReturnGoes
  <1>2. CASE /\ ctx' = [ctx EXCEPT ![u] = [next EXCEPT !.ids = ids, !.round = latest_run.round]]
             /\ Goto(u, "tag") /\ fs # <<>>
    <2>1. Only(u) /\ pc'[u] = "tag"
      BY <1>0, <1>2, RoundContext DEF Goto, Only
    <2> DEFINE plan == PlanFor(fs, overwrite)
               left == {r \in DOMAIN plan : plan[r].valid /\ plan[r].changes # NoTags}
    <2>2. /\ DOMAIN next = DOMAIN NoCtx /\ next.plan = plan /\ next.overwrite = overwrite
          /\ next.left = left
      BY <1>0, RoundContext, ApplyingFields
    <2>. HIDE DEF next, plan, left
    <2>3. ctx'[u] = [next EXCEPT !.ids = ids, !.round = latest_run.round]
      BY <1>0, <1>2, RoundContext
    <2>4. /\ ctx'[u].round = latest_run.round /\ ctx'[u].ids = ids
          /\ ctx'[u].plan = plan /\ ctx'[u].overwrite = overwrite /\ ctx'[u].left = left
      BY <2>2, <2>3, Fields, RoundFields
    <2>5. runs # <<>>
      BY <1>2 DEF fs, _selected_findings
    <2>6. latest_run \in ToSet(runs) /\ RunRound(latest_run, story, Calm, rounds, View)
      BY <1>0, <2>5, LatestRun DEF RoundsInv
    <2>7. Numbered(u, pc'[u], ctx'[u], rounds)
      BY <2>1, <2>4, <2>6 DEF Numbered, RunRound
    <2>8. ASSUME latest_run.round = rounds, ids = All, ~overwrite
          PROVE  Applies(story, Calm, View, left, plan)
      <3>1. fs = latest_run.findings /\ IsSeq(fs) /\ \A f \in ToSet(fs) : GoodFinding(f)
        BY <1>0, <2>5, <2>8, LatestRun DEF fs
      <3>2. Looked(story, Calm, View, fs, <<>>)
        BY <2>6, <2>8, <3>1 DEF RunRound
      <3>3. plan = build_plan(fix_plan(fs, FALSE), View.tags, FALSE)
        <4>1. overwrite = FALSE
          BY <2>8
        <4>. QED
          BY <4>1 DEF plan, PlanFor, View
      <3>4. \A c \in DOMAIN story.tags : Level(story)[c] <= Calm => Done(story, View, c)
        BY RoundContext DEF RoundsInv
      <3>. HIDE DEF fs
      <3>. QED
        BY <3>1, <3>2, <3>3, <3>4, RoundContext, ApplyBegins DEF left
    <2>9. ThreadRound(u, pc'[u], ctx'[u], story, Calm, rounds, View)
      BY <1>0, <2>4, <2>7, <2>8 DEF ThreadRound, CheckOfRound, ApplyOfRound
    <2>. QED
      BY <2>1, <2>7, <2>9 DEF Goes
  <1>. QED
    BY <1>1, <1>2 DEF StartApply

LEMMA SyncApplyGoes ==
    ASSUME RoundsInv, NEW u \in Users, SyncApply(u)
    PROVE  Goes(u)
  <1> DEFINE fs == Where(ctx[u].findings, {f \in ToSet(ctx[u].findings) : ctx[u].fix_config \/ ~IsConfig(f)})
             next == Applying(ctx[u], fs, ctx[u].overwrite)
  <1>0. u \in Threads /\ u \notin Checkers
    BY RoundContext
  <1>1. CASE Return(u)
    BY <1>0, <1>1, ReturnGoes
  <1>2. CASE ctx' = [ctx EXCEPT ![u] = next] /\ Goto(u, "tag")
    <2>. HIDE DEF fs
    <2>1. next.round = ctx[u].round
      BY <1>0, RoundContext, ApplyingFields
    <2>. HIDE DEF next
    <2>2. Only(u) /\ pc'[u] = "tag" /\ ctx'[u] = next
      BY <1>0, <1>2, RoundContext DEF Goto, Only
    <2>3. Numbered(u, pc[u], ctx[u], rounds) /\ pc[u] = "first"
      BY <1>0 DEF RoundsInv, ThreadRound, SyncApply, At
    <2>4. ctx'[u].round = 0 /\ rounds \in Nat /\ rounds # 0
      BY <2>1, <2>2, <2>3, RoundContext DEF Numbered
    <2>5. Numbered(u, pc'[u], ctx'[u], rounds)
      BY <2>2, <2>4 DEF Numbered
    <2>6. ThreadRound(u, pc'[u], ctx'[u], story, Calm, rounds, View)
      BY <1>0, <2>4, <2>5 DEF ThreadRound, CheckOfRound, ApplyOfRound
    <2>. QED
      BY <2>2, <2>5, <2>6 DEF Goes
  <1>. QED
    BY <1>1, <1>2 DEF SyncApply

\* Who moves is a thread that does not write, an apply that writes, or nobody.
LEMMA MovesGo ==
    ASSUME RoundsInv, Step
    PROVE  \/ UNCHANGED <<pc, ctx, runs>> /\ \E e \in story.edits : Edit(e)
           \/ \E t \in Threads : Goes(t)
           \/ \E u \in Users : TagChild(u) \/ DoOp(u)
  <1>0. /\ Checkers \subseteq Threads /\ Users \subseteq Threads
        /\ \A t \in Checkers : t \notin Users
    BY RoundContext
  <1>1. ASSUME NEW t \in Checkers, CheckerStep(t) PROVE Goes(t)
    <2>1. CASE save_run(t) \/ CheckRaises(t)
      <3>1. pc[t] = "first" /\ pc'[t] = "ending" /\ ctx' = ctx /\ Only(t)
        BY <1>0, <2>1, RoundContext DEF save_run, CheckRaises, At, Goto, Only
      <3>. QED
        BY <1>0, <3>1, StillGoes
    <2>2. CASE EndCheck(t)
      BY <1>0, <2>2, ReturnGoes DEF EndCheck
    <2>. QED
      BY <1>0, <1>1, <2>1, <2>2, ReadFirstGoes, ReadSecondGoes, RuleFailsGoes DEF CheckerStep
  <1>2. ASSUME NEW u \in Users, FixStep(u) PROVE Goes(u) \/ TagChild(u) \/ DoOp(u)
    <2>1. ASSUME NEW ids, NEW o, api_propagation_preview(u, ids, o) PROVE Goes(u)
      <3>1. pc[u] = "idle" /\ pc'[u] = "previewed" /\ Only(u) /\ ctx'[u].round = ctx[u].round
        BY <1>0, <2>1, RoundContext, Fields, RoundFields DEF api_propagation_preview, At, Goto, Only
      <3>. QED
        BY <1>0, <3>1, StillGoes
    <2>2. CASE EndApply(u)
      BY <1>0, <2>2, ReturnGoes DEF EndApply
    <2>. QED
      BY <1>0, <1>2, <2>1, <2>2, StartApplyGoes DEF FixStep
  <1>3. ASSUME NEW u \in Users, SyncStep(u) PROVE Goes(u)
    <2>1. ASSUME NEW place, NEW rule, NEW parent, NEW o, NEW d, NEW c,
                 propagate(u, place, rule, parent, o, d, c)
          PROVE  Goes(u)
      <3>1. pc[u] = "idle" /\ pc'[u] = "first" /\ Only(u) /\ ctx'[u].round = ctx[u].round
        BY <1>0, <2>1, RoundContext, Fields, RoundFields DEF propagate, At, Goto, Only
      <3>. QED
        BY <1>0, <3>1, StillGoes
    <2>2. CASE SyncRaises(u)
      BY <1>0, <2>2, ReturnGoes DEF SyncRaises
    <2>. QED
      BY <1>0, <1>3, <2>1, <2>2, ReadFirstGoes, ReadSecondGoes, RuleFailsGoes, SyncApplyGoes DEF SyncStep
  <1>4. ASSUME NEW e \in story.edits, Edit(e) PROVE UNCHANGED <<pc, ctx, runs>>
    BY <1>4 DEF Edit
  <1>. QED
    BY <1>0, <1>1, <1>2, <1>3, <1>4, BeginGoes DEF Step

\* A thread that writes leaves less to write.
LEMMA WriterMoves ==
    ASSUME RoundsInv, NEW u \in Users, TagChild(u) \/ DoOp(u)
    PROVE  /\ Only(u) /\ pc' = pc /\ pc[u] = "tag" /\ runs' = runs
           /\ ctx'[u].round = ctx[u].round /\ ctx'[u].ids = ctx[u].ids
           /\ ctx'[u].overwrite = ctx[u].overwrite /\ ctx'[u].plan = ctx[u].plan
           /\ DoOp(u) => ctx'[u].left = ctx[u].left
           /\ Numbered(u, pc'[u], ctx'[u], rounds)
  <1>0. u \in Threads /\ DOMAIN ctx = Threads /\ DOMAIN ctx[u] = DOMAIN NoCtx
    BY RoundContext
  <1> DEFINE Same == /\ Only(u) /\ pc' = pc
                     /\ ctx'[u].round = ctx[u].round /\ ctx'[u].ids = ctx[u].ids
                     /\ ctx'[u].overwrite = ctx[u].overwrite /\ ctx'[u].plan = ctx[u].plan
  <1>1. ASSUME NEW r, pc' = pc, ctx' = [ctx EXCEPT ![u].left = @ \ {r}]
        PROVE  Same
    BY <1>0, <1>1, Fields, RoundFields DEF Only
  <1>2. ASSUME NEW op, pc' = pc, ctx' = [ctx EXCEPT ![u].ops = @ \ {op}]
        PROVE  Same /\ ctx'[u].left = ctx[u].left
    BY <1>0, <1>2, Fields, RoundFields DEF Only
  <1>3. Same /\ (DoOp(u) => ctx'[u].left = ctx[u].left)
    <2>. HIDE DEF Same
    <2>1. CASE TagChild(u) /\ ~DoOp(u)
      BY <1>1, <2>1 DEF TagChild
    <2>2. CASE DoOp(u)
      BY <1>2, <2>2 DEF DoOp
    <2>. QED
      BY <2>1, <2>2
  <1>4. pc[u] = "tag" /\ runs' = runs
    BY DEF TagChild, DoOp, At
  <1>5. Numbered(u, pc[u], ctx[u], rounds)
    BY <1>0 DEF RoundsInv, ThreadRound
  <1>. QED
    BY <1>3, <1>4, <1>5 DEF Numbered

LEMMA NextView ==
    ASSUME RoundsInv, Step
    PROVE  story' = story /\ exists' = exists /\ IsView(View', DOMAIN story.tags)
  <1>1. Tagged' /\ exists' = exists /\ story' = story
    BY TaggedStep, Writers DEF RoundsInv
  <1>2. \A r \in exists' : IsTagSet(tags'[r])
    BY <1>1 DEF Tagged
  <1>. QED
    BY <1>1, <1>2, RoundContext DEF IsView, View, exists

LEMMA FaultsStep ==
    ASSUME faults \in Nat, Step
    PROVE  faults' \in Nat
  <1>1. ASSUME NEW t, CheckerStep(t) \/ run_in_background(t) PROVE faults' \in {faults, faults + 1}
    BY <1>1 DEF CheckerStep, run_in_background, ReadFirst, ReadSecond, RuleFails, save_run,
                CheckRaises, EndCheck, Fault
  <1>2. ASSUME NEW u, FixStep(u) PROVE faults' \in {faults, faults + 1}
    <2>1. CASE TagChild(u)
      BY <2>1 DEF TagChild, Fault
    <2>2. CASE DoOp(u)
      BY <2>2 DEF DoOp, Fault
    <2>3. CASE EndApply(u)
      BY <2>3 DEF EndApply
    <2>4. ASSUME NEW ids, NEW o, api_propagation_preview(u, ids, o) \/ StartApply(u, ids, o)
          PROVE  faults' = faults
      BY <2>4 DEF api_propagation_preview, StartApply
    <2>. QED
      BY <1>2, <2>1, <2>2, <2>3, <2>4 DEF FixStep
  <1>3. ASSUME NEW u, SyncStep(u) PROVE faults' \in {faults, faults + 1}
    BY <1>3 DEF SyncStep, propagate, ReadFirst, ReadSecond, RuleFails, SyncApply, SyncRaises, Fault
  <1>4. ASSUME NEW e, Edit(e) PROVE faults' = faults
    BY <1>4 DEF Edit
  <1>. QED
    BY <1>1, <1>2, <1>3, <1>4 DEF Step

LEMMA NumberedStep ==
    ASSUME RoundsInv, Step, NEW t \in Threads
    PROVE  Numbered(t, pc'[t], ctx'[t], rounds)
  <1>1. Numbered(t, pc[t], ctx[t], rounds)
    BY DEF RoundsInv, ThreadRound
  <1>2. ASSUME NEW s, Only(s), Numbered(s, pc'[s], ctx'[s], rounds)
        PROVE  Numbered(t, pc'[t], ctx'[t], rounds)
    BY <1>1, <1>2 DEF Only
  <1>. QED
    BY <1>1, <1>2, MovesGo, WriterMoves DEF Goes

\* The run that a check stores.
LEMMA RunsOfRound ==
    ASSUME RoundsInv, Step, NEW run \in ToSet(runs')
    PROVE  RunRound(run, story, Calm, rounds, View)
  <1>1. CASE runs' = runs
    BY <1>1 DEF RoundsInv
  <1>2. ASSUME NEW t \in Checkers, save_run(t) PROVE RunRound(run, story, Calm, rounds, View)
    <2>1. run \in ToSet(runs) \/ run = NewRun(t)
      BY <1>2, RunIsAdded DEF RoundsInv
    <2>2. t \in Threads /\ ThreadRound(t, pc[t], ctx[t], story, Calm, rounds, View)
      BY RoundContext DEF RoundsInv
    <2>3. pc[t] = "first" /\ ctx[t].todo = <<>>
      BY <1>2 DEF save_run, At
    <2>4. RunRound(NewRun(t), story, Calm, rounds, View)
      BY <2>2, <2>3 DEF ThreadRound, Numbered, CheckOfRound, RunRound, NewRun
    <2>. QED
      BY <2>1, <2>4 DEF RoundsInv
  <1>3. \/ runs' = runs
        \/ \E t \in Checkers : save_run(t)
    BY QuietSteps DEF RoundsInv, Quiet, run_in_background, EndCheck
  <1>. QED
    BY <1>1, <1>2, <1>3

LEMMA Undisturbed ==
    ASSUME ~Disturbs
    PROVE  /\ faults' = faults
           /\ tags' # tags => \E u \in Users : InRound(u) /\ ctx'[u].left # ctx[u].left
BY DEF Disturbs

\* A child is tagged, and nobody is disturbed.
LEMMA TagChildInRound ==
    ASSUME RoundsInv, Step, ~Disturbs, NEW u \in Users, TagChild(u)
    PROVE  /\ Later(story, Calm, View, View')
           /\ InRound(u) => Applies(story, Calm, View', ctx'[u].left, ctx'[u].plan)
  <1> DEFINE plan == ctx[u].plan
             left == ctx[u].left
  <1>0. /\ u \in Threads /\ Only(u) /\ ctx'[u].plan = plan /\ pc[u] = "tag"
        /\ \A s \in Users \ {u} : ctx'[s] = ctx[s]
    BY RoundContext, WriterMoves DEF Only
  <1>1. PICK r \in left : /\ ctx' = [ctx EXCEPT ![u].left = @ \ {r}]
                          /\ \/ r \in exists /\ tags' = [tags EXCEPT ![r] = Written(@, plan[r].changes)]
                             \/ r \notin exists /\ UNCHANGED tags
    <2>1. faults' # faults + 1
      BY Undisturbed DEF RoundsInv
    <2>. QED
      BY <2>1, Zenon DEF TagChild, Fault
  <1>2. ctx'[u].left = left \ {r}
    BY <1>0, <1>1, RoundContext, Fields
  <1>3. CASE tags' = tags /\ (~InRound(u) \/ r \notin exists)
    <2>1. View'.tags = View.tags
      BY <1>3 DEF View
    <2>2. Later(story, Calm, View, View')
      BY <2>1, LaterAlike
    <2>3. ASSUME InRound(u) PROVE Applies(story, Calm, View', left \ {r}, plan)
      <3>1. Applies(story, Calm, View, left, plan)
        BY <1>0, <2>3 DEF RoundsInv, ThreadRound, ApplyOfRound, InRound, At
      <3>2. Applies(story, Calm, View', left, plan)
        BY <2>2, <3>1, RoundContext, NextView, AppliesLater
      <3>3. \A c \in DOMAIN story.tags : c # r
        BY <1>3, <2>3, RoundContext
      <3>. QED
        BY <3>2, <3>3 DEF Applies
    <2>. QED
      BY <1>0, <1>2, <2>2, <2>3
  <1>4. CASE r \in exists /\ InRound(u)
    <2>1. Applies(story, Calm, View, left, plan)
      BY <1>0, <1>4 DEF RoundsInv, ThreadRound, ApplyOfRound, InRound, At
    <2>2. r \in DOMAIN story.tags
      BY <1>4, RoundContext
    <2>3. /\ View'.tags[r] = Written(View.tags[r], plan[r].changes)
          /\ \A x \in DOMAIN story.tags \ {r} : View'.tags[x] = View.tags[x]
      <3>1. tags' = [tags EXCEPT ![r] = Written(@, plan[r].changes)]
        BY <1>1, <1>4
      <3>. HIDE DEF plan
      <3>. QED
        BY <3>1, <2>2, RoundContext DEF View, exists
    <2>4. Calm + 1 <= Level(story)[r] /\ (Level(story)[r] = Calm + 1 => Completes(story, View, r, plan[r].changes))
      <3>1. Level(story)[r] \in Nat /\ Calm \in Nat
        BY <2>2, RoundContext, Levels
      <3>2. Level(story)[r] <= Calm + 1 =>
               Level(story)[r] = Calm + 1 /\ Completes(story, View, r, plan[r].changes)
        BY <1>1, <2>1, <2>2 DEF Applies
      <3>. QED
        BY <3>1, <3>2
    <2>5. Later(story, Calm, View, View') /\ (Level(story)[r] = Calm + 1 => Full(story, View', r))
      BY <2>2, <2>3, <2>4, RoundContext, NextView, WriteCompletes
    <2>6. Applies(story, Calm, View', left, plan)
      BY <2>1, <2>5, RoundContext, NextView, AppliesLater
    <2>7. Applies(story, Calm, View', left \ {r}, plan)
      <3>1. Level(story)[r] <= Calm + 1 => Done(story, View', r)
        BY <1>1, <2>1, <2>2, <2>5 DEF Applies, Done
      <3>. QED
        BY <2>6, <3>1 DEF Applies
    <2>. QED
      BY <1>0, <1>2, <2>5, <2>7
  <1>5. CASE r \in exists /\ ~InRound(u)
    BY <1>0, <1>3, <1>5, Undisturbed
  <1>6. CASE r \notin exists
    BY <1>1, <1>3, <1>6
  <1>. QED
    BY <1>4, <1>5, <1>6

LEMMA WriterInRound ==
    ASSUME RoundsInv, Step, ~Disturbs, NEW u \in Users, TagChild(u) \/ DoOp(u)
    PROVE  /\ Later(story, Calm, View, View')
           /\ ThreadRound(u, pc'[u], ctx'[u], story, Calm, rounds, View')
  <1>0. u \in Threads /\ u \notin Checkers
    BY RoundContext
  <1>1. /\ Later(story, Calm, View, View')
        /\ InRound(u) => Applies(story, Calm, View', ctx'[u].left, ctx'[u].plan)
    <2>1. CASE TagChild(u)
      BY <2>1, TagChildInRound
    <2>2. CASE DoOp(u)
      <3>1. /\ \A s \in Users : ctx'[s].left = ctx[s].left
            /\ ctx'[u].plan = ctx[u].plan /\ pc[u] = "tag"
        <4>1. Only(u) /\ ctx'[u].left = ctx[u].left /\ ctx'[u].plan = ctx[u].plan /\ pc[u] = "tag"
          BY <2>2, WriterMoves
        <4>. QED
          BY <4>1, RoundContext DEF Only
      <3>2. View'.tags = View.tags
        BY <3>1, Undisturbed DEF View
      <3>3. Later(story, Calm, View, View')
        BY <3>2, LaterAlike
      <3>4. ASSUME InRound(u) PROVE Applies(story, Calm, View', ctx[u].left, ctx[u].plan)
        <4>1. Applies(story, Calm, View, ctx[u].left, ctx[u].plan)
          BY <1>0, <3>1, <3>4 DEF RoundsInv, ThreadRound, ApplyOfRound, InRound
        <4>. QED
          BY <3>3, <4>1, RoundContext, NextView, AppliesLater
      <3>. QED
        BY <3>1, <3>3, <3>4
    <2>. QED
      BY <2>1, <2>2
  <1>2. /\ pc'[u] = "tag" /\ pc[u] = "tag" /\ Numbered(u, pc'[u], ctx'[u], rounds)
        /\ ctx'[u].round = ctx[u].round /\ ctx'[u].ids = ctx[u].ids
        /\ ctx'[u].overwrite = ctx[u].overwrite
    BY WriterMoves
  <1>3. ThreadRound(u, pc'[u], ctx'[u], story, Calm, rounds, View')
    BY <1>0, <1>1, <1>2 DEF ThreadRound, CheckOfRound, ApplyOfRound, InRound, At
  <1>. QED
    BY <1>1, <1>3

\* A step that does not disturb.
LEMMA CalmStep ==
    ASSUME RoundsInv, Step, ~Disturbs
    PROVE  /\ Later(story, Calm, View, View')
           /\ \A t \in Threads : ThreadRound(t, pc'[t], ctx'[t], story, Calm, rounds, View')
  <1>1. \A t \in Threads : ThreadRound(t, pc[t], ctx[t], story, Calm, rounds, View)
    BY DEF RoundsInv
  <1>2. ASSUME NEW u \in Users, TagChild(u) \/ DoOp(u)
        PROVE  /\ Later(story, Calm, View, View')
               /\ \A t \in Threads : ThreadRound(t, pc'[t], ctx'[t], story, Calm, rounds, View')
    <2>1. /\ Later(story, Calm, View, View') /\ Only(u)
          /\ ThreadRound(u, pc'[u], ctx'[u], story, Calm, rounds, View')
      BY <1>2, WriterInRound, WriterMoves
    <2>2. ASSUME NEW t \in Threads PROVE ThreadRound(t, pc[t], ctx[t], story, Calm, rounds, View')
      <3>1. IsTodo(ctx[t].todo, DOMAIN story.inventory) /\ (pc[t] = "second" => IsView(ctx[t].first, DOMAIN story.tags))
        BY RoundContext DEF RoundsInv, Typed, Threaded, ThreadOK
      <3>. QED
        BY <1>1, <2>1, <3>1, RoundContext, NextView, ThreadRoundLater
    <2>. QED
      BY <2>1, <2>2 DEF Only
  <1>3. ASSUME tags' = tags, on' = on, UNCHANGED <<pc, ctx>> \/ \E t \in Threads : Goes(t)
        PROVE  /\ Later(story, Calm, View, View')
               /\ \A t \in Threads : ThreadRound(t, pc'[t], ctx'[t], story, Calm, rounds, View')
    <2>1. View' = View
      BY <1>3 DEF View
    <2>2. Later(story, Calm, View, View')
      BY <2>1, LaterAlike
    <2>3. \A t \in Threads : ThreadRound(t, pc'[t], ctx'[t], story, Calm, rounds, View)
      <3>1. CASE UNCHANGED <<pc, ctx>>
        BY <1>1, <3>1
      <3>2. ASSUME NEW s \in Threads, Goes(s)
            PROVE  \A t \in Threads : ThreadRound(t, pc'[t], ctx'[t], story, Calm, rounds, View)
        BY <1>1, <3>2, Undisturbed DEF Goes, Only
      <3>. QED
        BY <1>3, <3>1, <3>2
    <2>. QED
      BY <2>1, <2>2, <2>3
  <1>4. ASSUME NEW e \in story.edits, Edit(e)
        PROVE  tags' = tags /\ on' = on /\ UNCHANGED <<pc, ctx>>
    BY <1>4, Undisturbed DEF Edit
  <1>. QED
    BY <1>2, <1>3, <1>4, MovesGo, Writers DEF live

-----------------------------------------------------------------------------
(***************************************************************************)
(* The rounds                                                              *)
(***************************************************************************)

\* An apply ends when nothing is left to be written.
LEMMA ApplyEnds ==
    ASSUME Step, RoundsInv, NEW u \in Users, pc[u] = "tag", pc'[u] = "idle"
    PROVE  ctx[u].left = {} /\ tags' = tags
  <1>0. DOMAIN pc = Threads /\ u \in Threads
    BY RoundContext
  <1>1. ASSUME NEW t, NEW l, Goto(t, l), pc[t] # "tag" PROVE FALSE
    <2>1. t # u
      BY <1>1
    <2>. QED
      BY <1>0, <1>1, <2>1 DEF Goto
  <1>2. ASSUME UNCHANGED pc PROVE FALSE
    BY <1>2
  <1>3. ASSUME NEW t, ReadFirst(t) \/ ReadSecond(t) \/ RuleFails(t) PROVE FALSE
    BY <1>1, <1>3 DEF ReadFirst, ReadSecond, RuleFails, Checking, At
  <1>4. ASSUME NEW t, CheckerStep(t) \/ run_in_background(t) PROVE FALSE
    <2>1. ~(save_run(t) \/ CheckRaises(t) \/ EndCheck(t) \/ run_in_background(t))
      BY <1>1 DEF save_run, CheckRaises, EndCheck, run_in_background, Return, At
    <2>. QED
      BY <1>3, <1>4, <2>1 DEF CheckerStep
  <1>5. ASSUME NEW t, SyncStep(t) PROVE FALSE
    <2>1. ~(SyncApply(t) \/ SyncRaises(t))
      BY <1>1 DEF SyncApply, SyncRaises, Return, At
    <2>2. ASSUME NEW place, NEW rule, NEW parent, NEW o, NEW d, NEW c,
                 propagate(t, place, rule, parent, o, d, c)
          PROVE  FALSE
      <3>1. pc[t] = "idle" /\ Goto(t, "first")
        BY <2>2 DEF propagate, At
      <3>. QED
        BY <1>1, <3>1
    <2>. QED
      BY <1>3, <1>5, <2>1, <2>2 DEF SyncStep
  <1>6. ASSUME NEW t \in Users, FixStep(t) PROVE EndApply(t) /\ t = u
    <2>1. ~(TagChild(t) \/ DoOp(t))
      BY <1>2 DEF TagChild, DoOp
    <2>2. \A ids, o : ~api_propagation_preview(t, ids, o) /\ ~StartApply(t, ids, o)
      BY <1>1 DEF api_propagation_preview, StartApply, Return, At
    <2>3. EndApply(t)
      BY <1>6, <2>1, <2>2 DEF FixStep
    <2>4. t = u
      BY <1>0, <2>3 DEF EndApply, Return, Goto
    <2>. QED
      BY <2>3, <2>4
  <1>7. ASSUME NEW e, Edit(e) PROVE FALSE
    BY <1>2, <1>7 DEF Edit
  <1>8. EndApply(u)
    BY <1>4, <1>5, <1>6, <1>7 DEF Step
  <1>. QED
    BY <1>8 DEF EndApply, live

LEMMA RoundsStep == RoundsInv /\ Step /\ Observe => RoundsInv'
  <1>. SUFFICES ASSUME RoundsInv, Step, Observe PROVE RoundsInv'
    OBVIOUS
  <1>1. Typed'
    BY TypedStep DEF RoundsInv, Next
  <1>2. /\ story' = story /\ exists' = exists /\ Threads' = Threads /\ IsView(View', DOMAIN story.tags)
        /\ faults' \in Nat
    BY NextView, FaultsStep DEF RoundsInv, Threads
  <1>3. /\ rounds \in Nat /\ calm \in Nat /\ 1 <= calm /\ calm <= rounds /\ Calm = rounds - calm
        /\ Calm \in Nat
    BY DEF RoundsInv, Calm
  <1>4. /\ \A t \in Threads : ThreadRound(t, pc'[t], ctx'[t], story, Calm', rounds + 1, View')
        /\ \A run \in ToSet(runs') : RunRound(run, story, Calm', rounds + 1, View')
    <2>1. \A t \in Threads : ThreadRound(t, pc'[t], ctx'[t], story, Calm', rounds + 1, View')
      BY <1>3, NumberedStep, OtherRound
    <2>2. ASSUME NEW run \in ToSet(runs') PROVE RunRound(run, story, Calm', rounds + 1, View')
      <3>1. run.round \in Nat /\ run.round <= rounds
        BY RunsOfRound DEF RunRound
      <3>2. run.round # rounds + 1 /\ run.round <= rounds + 1
        BY <1>3, <3>1
      <3>. QED
        BY <3>1, <3>2 DEF RunRound
    <2>. QED
      BY <2>1, <2>2
  <1>5. CASE Disturbs
    <2>1. rounds' = rounds + 1 /\ calm' = rounds + 1 /\ Calm' = 0
      <3>1. rounds' = rounds + 1 /\ calm' = rounds + 1
        BY <1>5 DEF Observe
      <3>. QED
        BY <1>3, <3>1 DEF Calm
    <2>2. \A c \in exists : Level(story)[c] <= Calm' => Done(story, View', c)
      BY <1>2, <2>1, RoundContext, TopIsDone
    <2>. QED
      BY <1>1, <1>2, <1>3, <1>4, <2>1, <2>2 DEF RoundsInv
  <1>6. CASE RoundEnds /\ ~Disturbs
    <2>1. rounds' = rounds + 1 /\ calm' = calm /\ Calm' = Calm + 1
      <3>1. rounds' = rounds + 1 /\ calm' = calm
        BY <1>6 DEF Observe
      <3>. QED
        BY <1>3, <3>1 DEF Calm
    <2>2. PICK u \in Users : InRound(u) /\ pc'[u] = "idle"
      BY <1>6 DEF RoundEnds
    <2>3. u \in Threads /\ pc[u] = "tag" /\ ctx[u].left = {} /\ tags' = tags
      BY <2>2, RoundContext, ApplyEnds DEF InRound, At
    <2>4. Applies(story, Calm, View, {}, ctx[u].plan)
      BY <2>2, <2>3 DEF RoundsInv, ThreadRound, ApplyOfRound, InRound
    <2>5. \A c \in exists : Level(story)[c] <= Calm + 1 => Done(story, View, c)
      BY <2>4, RoundContext DEF Applies
    <2>6. \A c \in exists : Level(story)[c] <= Calm + 1 => Done(story, View', c)
      <3>1. Later(story, Calm, View, View')
        BY <1>6, CalmStep
      <3>. QED
        BY <1>2, <2>5, <3>1, RoundContext, LaterSame
    <2>. QED
      BY <1>1, <1>2, <1>3, <1>4, <2>1, <2>6 DEF RoundsInv
  <1>7. CASE ~Disturbs /\ ~RoundEnds
    <2>1. rounds' = rounds /\ calm' = calm /\ Calm' = Calm
      BY <1>7 DEF Observe, Calm
    <2>2. /\ Later(story, Calm, View, View')
          /\ \A t \in Threads : ThreadRound(t, pc'[t], ctx'[t], story, Calm, rounds, View')
      BY <1>7, CalmStep
    <2>3. \A run \in ToSet(runs') : RunRound(run, story, Calm, rounds, View')
      BY <1>2, <2>2, RoundContext, RunsOfRound, RunRoundLater
    <2>4. ASSUME NEW c \in exists, Level(story)[c] <= Calm PROVE Done(story, View', c)
      <3>1. c \in DOMAIN story.tags /\ Level(story)[c] <= Calm + 1
        BY <1>3, <2>4, RoundContext, Levels
      <3>2. Done(story, View, c)
        BY <2>4 DEF RoundsInv
      <3>. QED
        BY <1>2, <2>2, <3>1, <3>2, RoundContext, LaterSame
    <2>. QED
      BY <1>1, <1>2, <1>3, <2>1, <2>2, <2>3, <2>4 DEF RoundsInv
  <1>. QED
    BY <1>5, <1>6, <1>7

LEMMA RoundsInit == Init => RoundsInv
  <1>. SUFFICES ASSUME Init PROVE RoundsInv
    OBVIOUS
  <1>1. Typed
    BY TypedInit
  <1>2. rounds = 1 /\ calm = 1 /\ faults = 0 /\ Calm = 0 /\ runs = <<>>
    BY DEF Init, Calm
  <1>3. IsStory(story) /\ exists = DOMAIN story.tags
    BY <1>1, PropagationAssumption DEF Typed, Tagged
  <1>4. IsView(View, DOMAIN story.tags)
    BY <1>1, <1>3 DEF IsView, View, Typed, Tagged, exists
  <1>5. \A c \in exists : Level(story)[c] <= Calm => Done(story, View, c)
    BY <1>2, <1>3, <1>4, TopIsDone
  <1>6. \A t \in Threads : ThreadRound(t, pc[t], ctx[t], story, Calm, rounds, View)
    <2>1. \A t \in Threads : pc[t] = "idle" /\ ctx[t] = NoCtx
      BY DEF Init
    <2>. QED
      BY <1>2, <2>1, IdleRound
  <1>7. ToSet(runs) = {}
    BY <1>2 DEF ToSet
  <1>. QED
    BY <1>1, <1>2, <1>5, <1>6, <1>7 DEF RoundsInv

LEMMA RoundsNext == RoundsInv /\ [Next]_vars => RoundsInv'
  <1>1. CASE UNCHANGED vars
    BY <1>1, TypedStep DEF vars, live, RoundsInv, Calm, View, exists, Threads
  <1>2. CASE Next
    BY <1>2, RoundsStep DEF Next
  <1>. QED
    BY <1>1, <1>2

\* Tags that are accepted one by one are accepted together.
LEMMA ValidInParts ==
    ASSUME NEW ts, IsFcn(ts), HasCanonicalKeys(ts),
           \A k \in DOMAIN ts : LET one == [x \in {k} |-> ts[k]] IN ValidWrite(one, one)
    PROVE  ValidWrite(ts, ts)
  <1>. SUFFICES ASSUME NEW v \in Violations(ts, ts, {}, TRUE) PROVE FALSE
    BY DEF ValidWrite
  <1>1. Conflicts(ts) = {}
    BY CanonicalTagsStay
  <1>2. v \in PolicyViolations(ts) /\ ~Skipped(v, TRUE) /\ ~OnlyWarned(v)
    BY <1>1 DEF Violations, MissingExtra
  <1>3. v.type # "MISSING_REQUIRED"
    BY <1>2 DEF Skipped
  <1>4. ASSUME NEW k \in DOMAIN ts, v \in PolicyViolations([x \in {k} |-> ts[k]]) PROVE FALSE
    <2>1. v \in Violations([x \in {k} |-> ts[k]], [x \in {k} |-> ts[k]], {}, TRUE)
      BY <1>2, <1>4 DEF Violations
    <2>. QED
      BY <2>1 DEF ValidWrite
  <1>5. v \notin validate_required(ts)
    BY <1>3 DEF validate_required, Violation
  <1>6. ASSUME NEW k \in DOMAIN ts, Filled(ts, k) PROVE Filled([x \in {k} |-> ts[k]], k)
    BY <1>6 DEF Filled
  <1>7. v \notin validate_allowed_values(ts)
    <2>. SUFFICES ASSUME v \in validate_allowed_values(ts) PROVE FALSE
      OBVIOUS
    <2>1. PICK k \in SchemaKeys : /\ Filled(ts, k) /\ RuleOf(k).allowed # {} /\ ts[k] \notin RuleOf(k).allowed
                                  /\ v = Violation(k, "INVALID_VALUE")
      BY DEF validate_allowed_values
    <2>2. k \in DOMAIN ts
      BY <2>1 DEF Filled
    <2>3. v \in validate_allowed_values([x \in {k} |-> ts[k]])
      BY <1>6, <2>1, <2>2 DEF validate_allowed_values
    <2>. QED
      BY <1>4, <2>2, <2>3 DEF PolicyViolations
  <1>8. v \notin validate_pattern(ts)
    <2>. SUFFICES ASSUME v \in validate_pattern(ts) PROVE FALSE
      OBVIOUS
    <2>1. PICK k \in SchemaKeys : /\ Filled(ts, k) /\ RuleOf(k).pattern # None /\ ts[k] \notin RuleOf(k).pattern
                                  /\ v = Violation(k, "INVALID_FORMAT")
      BY DEF validate_pattern
    <2>2. k \in DOMAIN ts
      BY <2>1 DEF Filled
    <2>3. v \in validate_pattern([x \in {k} |-> ts[k]])
      BY <1>6, <2>1, <2>2 DEF validate_pattern
    <2>. QED
      BY <1>4, <2>2, <2>3 DEF PolicyViolations
  <1>9. v \notin validate_unknown(ts)
    <2>. SUFFICES ASSUME v \in validate_unknown(ts) PROVE FALSE
      OBVIOUS
    <2>1. UnknownTags \notin {"allow", "ignore"}
      BY DEF validate_unknown
    <2>2. PICK k \in DOMAIN ts : k \notin SchemaKeys \cup Reserved /\ v = Violation(k, "UNKNOWN_TAG")
      BY <2>1 DEF validate_unknown
    <2>3. v \in validate_unknown([x \in {k} |-> ts[k]])
      BY <2>1, <2>2 DEF validate_unknown
    <2>. QED
      BY <1>4, <2>3 DEF PolicyViolations
  <1>. QED
    BY <1>2, <1>5, <1>7, <1>8, <1>9 DEF PolicyViolations

\* A gap is one that some rule asks to close.
LEMMA GapWish ==
    ASSUME RoundsInv, NEW g \in Gaps, g.have = None
    PROVE  /\ g.pair.child \in DOMAIN story.tags
           /\ g.key \notin DOMAIN tags[g.pair.child]
           /\ Wish(story, View, g.pair.child, g.key) # None
  <1> DEFINE p == g.pair.parent
             c == g.pair.child
             x == [place |-> g.pair.place, rule |-> g.pair.rule]
             w == story.inventory[g.pair.place]
             rels == RULES(g.pair.rule, w, View, View)
  <1>1. /\ g.pair \in story.pairs /\ GapIn(View, g) /\ x \in ToSet(AllTasks(story))
        /\ IsChild(g.pair.rule, w, p, c)
    BY GapFacts DEF RoundsInv, Typed, Ahead, AllTasks, Places
  <1>2. g.pair.place \in DOMAIN story.inventory /\ g.pair.rule \in RuleNames
    BY <1>1, AllTasksTodo, RoundContext DEF IsTodo
  <1>3. w \in Seq(DOMAIN story.tags)
    BY <1>2, RoundContext DEF IsStory
  <1>4. c \in DOMAIN story.tags
    <2>1. c \in ToSet(w) /\ ToSet(w) \subseteq DOMAIN story.tags
      BY <1>1, <1>3, SeqIsSeq DEF IsChild
    <2>. QED
      BY <2>1
  <1>5. Reports(rels, g.pair.rule, w, View, View)
    BY <1>2, <1>3, RoundContext, RulesReport
  <1>. HIDE DEF rels, w, x
  <1>6. IsSeq(rels) /\ \A rel \in ToSet(rels) : GoodRel(rel)
    BY <1>5 DEF Reports
  <1>7. PICK rel \in ToSet(rels) : Shows(rel, g)
    BY <1>1, <1>5 DEF Reports
  <1>8. RelAsk(rel, c, g.key) # None
    <2>1. /\ g.key \in DOMAIN propagated_keys(rel.tags) /\ IsTagSet(rel.tags)
          /\ \E k \in ToSet(rel.children) : k.arn = c /\ g.key \notin DOMAIN k.tags
      BY <1>6, <1>7 DEF Shows, ParentHas, ChildHas, GoodRel
    <2>2. g.key \in DOMAIN rel.tags
      BY <2>1, PropagatedTags
    <2>. QED
      BY <2>1, <2>2, ValuesAreSome DEF RelAsk
  <1>9. RuleAsk(g.pair.rule, w, View, View, c, g.key) # None
    <2> DEFINE s == [i \in DOMAIN rels |-> RelAsk(rels[i], c, g.key)]
    <2>1. DOMAIN s = 1..Len(rels) /\ Len(rels) \in Nat
      BY <1>6, SeqFacts
    <2>2. PICK i \in DOMAIN rels : rel = rels[i]
      BY DEF ToSet
    <2>3. i \in 1..Len(rels) /\ s[i] # None
      BY <1>8, <2>1, <2>2
    <2>. HIDE DEF s
    <2>4. LastSaid(s) # None
      BY <2>1, <2>3, SaidBySome
    <2>. QED
      BY <1>6, <2>4, FindingsAsk DEF s, RuleAsk, rels
  <1>10. TaskAsk(x, story, View, c, g.key) # None
    BY <1>9 DEF TaskAsk, x, w
  <1>11. Wish(story, View, c, g.key) # None
    BY <1>1, <1>10, RoundContext, WishedByOne
  <1>12. g.key \notin DOMAIN tags[c]
    BY <1>1 DEF GapIn, ChildHas, View
  <1>. QED
    BY <1>4, <1>11, <1>12

LEMMA RoundsInvMeans == RoundsInv => RoundsConverge
  <1>. SUFFICES ASSUME RoundsInv, rounds - calm >= story.levels, NEW g \in Gaps, Fixable(g) PROVE FALSE
    BY DEF RoundsConverge
  <1> DEFINE c == g.pair.child
             T == Target(story, View, c)
             want(k) == Wish(story, View, c, k)
  <1>1. /\ g.have = None /\ c.state # "gone"
        /\ \A l \in Lacking(c) : LET one == [k \in {l.key} |-> l.want] IN
              Canonical(l.key) = l.key /\ ValidWrite(one, one)
    BY DEF Fixable
  <1>2. c \in DOMAIN story.tags /\ g.key \notin DOMAIN tags[c] /\ want(g.key) # None
    BY <1>1, GapWish
  <1>3. ASSUME NEW k, want(k) # None
        PROVE  /\ k \in Keys /\ [key |-> k, want |-> want(k)] \in Lacking(c)
               /\ Canonical(k) = k
               /\ LET one == [x \in {k} |-> want(k)] IN ValidWrite(one, one)
    <2>1. PICK p \in DOMAIN story.tags : /\ HandsOn(p, c) /\ k \in DOMAIN propagated_keys(View.tags[p])
                                         /\ want(k) = View.tags[p][k] /\ k \notin DOMAIN View.tags[c]
      BY <1>1, <1>2, <1>3, RoundContext, WishIsTag
    <2>2. /\ p \in exists /\ HandsOn(p, c) /\ want(k) = tags[p][k]
          /\ k \in DOMAIN propagated_keys(tags[p]) \ DOMAIN tags[c]
      BY <2>1, RoundContext DEF View
    <2>3. [key |-> k, want |-> want(k)] \in Lacking(c)
      BY <2>2 DEF Lacking
    <2>4. k \in Keys
      BY <1>2, <1>3, RoundContext, WishIsTag
    <2>. HIDE DEF want, c
    <2>5. Canonical(k) = k /\ LET one == [x \in {k} |-> want(k)] IN ValidWrite(one, one)
      BY <1>1, <2>3
    <2>. QED
      BY <2>3, <2>4, <2>5
  <1>4. Done(story, View, c)
    <2>1. Level(story)[c] <= story.levels /\ Level(story)[c] \in Nat /\ story.levels \in Nat
      BY <1>2, RoundContext, Levels
    <2>2. Level(story)[c] <= Calm
      BY <2>1, RoundContext DEF Calm, RoundsInv
    <2>. QED
      BY <1>2, <2>2, RoundContext DEF RoundsInv
  <1>5. ~Full(story, View, c)
    <2>1. g.key \in Keys /\ Canonical(g.key) = g.key
      BY <1>2, <1>3
    <2>. QED
      BY <1>2, <2>1 DEF Full, View
  <1>6. /\ IsFcn(T) /\ DOMAIN T = {k \in Keys : want(k) # None}
        /\ \A k \in DOMAIN T : T[k] = want(k)
    BY DEF Target, IsFcn
  <1>. HIDE DEF T, want
  <1>7. HasCanonicalKeys(T)
    BY <1>3, <1>6 DEF HasCanonicalKeys
  <1>8. ValidWrite(T, T)
    <2>1. ASSUME NEW k \in DOMAIN T PROVE LET one == [x \in {k} |-> T[k]] IN ValidWrite(one, one)
      BY <1>3, <1>6
    <2>. QED
      BY <1>6, <1>7, <2>1, ValidInParts
  <1>9. (CHOOSE n \in normalize(T) : TRUE) = T
    BY <1>6, <1>7, CanonicalTagsStay
  <1>. QED
    BY <1>4, <1>5, <1>8, <1>9 DEF Done, Accepted, T

\* After as many rounds of check and complete fix as there are levels of
\* parents, without disturbance, no child lacks a tag that can be fixed: for all
\* inventories, tags, schemas and orders of the requests (check and fix of
\* src/src/propagation.py).
THEOREM RoundsConvergeHolds == Spec => []RoundsConverge
BY RoundsInit, RoundsNext, RoundsInvMeans, PTL DEF Spec
=============================================================================
