---------------------------- MODULE SessionProofs ----------------------------
(***************************************************************************)
(* Proofs about SessionLog for any number of runs, messages, compressions,  *)
(* seconds and faults, over each of the three stores.                       *)
(***************************************************************************)
EXTENDS SessionLog, FiniteSetTheorems, SequenceTheorems, TLAPS

USE SessionConstants DEF SessionConstants

-----------------------------------------------------------------------------
(* Orders on finite sets.                                                   *)

Orders(R, P) ==
    /\ \A i \in P : <<i, i>> \notin R
    /\ \A i, j \in P : i # j => <<i, j>> \in R \/ <<j, i>> \in R
    /\ \A i, j, k \in P : <<i, j>> \in R /\ <<j, k>> \in R => <<i, k>> \in R

Rank(i, P, R) == Cardinality({j \in P : <<j, i>> \in R})

(* An element has a smaller rank than those that follow it.                 *)
LEMMA RankGrows ==
  ASSUME NEW P, IsFiniteSet(P), NEW R, Orders(R, P), NEW i \in P, NEW j \in P, <<i, j>> \in R
  PROVE  Rank(i, P, R) \in Nat /\ Rank(j, P, R) \in Nat /\ Rank(i, P, R) < Rank(j, P, R)
  <1> DEFINE I == {k \in P : <<k, i>> \in R}
             J == {k \in P : <<k, j>> \in R}
  <1>1. I \in SUBSET J /\ J \in SUBSET P /\ I # J
    BY DEF Orders
  <1>2. IsFiniteSet(J)
    BY <1>1, FS_Subset
  <1>3. IsFiniteSet(I) /\ Cardinality(I) <= Cardinality(J) /\ Cardinality(I) # Cardinality(J)
    BY <1>1, <1>2, FS_Subset
  <1>4. Cardinality(I) \in Nat /\ Cardinality(J) \in Nat
    BY <1>2, <1>3, FS_CardinalityType
  <1> HIDE DEF I, J
  <1>5. Cardinality(I) < Cardinality(J)
    BY <1>3, <1>4
  <1> QED
    BY <1>4, <1>5 DEF Rank, I, J

(* Each element has a rank of its own, and each rank its element.           *)
LEMMA RankedAll ==
  ASSUME NEW P, IsFiniteSet(P), NEW R, Orders(R, P)
  PROVE  /\ Cardinality(P) \in Nat
         /\ Ranked(P, R) \in [1..Cardinality(P) -> P]
         /\ \A k \in 1..Cardinality(P) : Rank(Ranked(P, R)[k], P, R) = k - 1
         /\ \A i, j \in P : Rank(i, P, R) = Rank(j, P, R) => i = j
  <1> DEFINE n == Cardinality(P)
             f == [i \in P |-> Rank(i, P, R) + 1]
  <1>1. n \in Nat
    BY FS_CardinalityType
  <1>2. \A i, j \in P : Rank(i, P, R) = Rank(j, P, R) => i = j
    <2> SUFFICES ASSUME NEW i \in P, NEW j \in P, i # j
                 PROVE  Rank(i, P, R) # Rank(j, P, R)
      OBVIOUS
    <2>1. <<i, j>> \in R \/ <<j, i>> \in R
      BY DEF Orders
    <2>2. CASE <<i, j>> \in R
      BY <2>2, RankGrows
    <2>3. CASE <<j, i>> \in R
      BY <2>3, RankGrows
    <2> QED
      BY <2>1, <2>2, <2>3
  <1>3. ASSUME NEW i \in P
        PROVE  Rank(i, P, R) \in Nat /\ Rank(i, P, R) < n
    <2> DEFINE I == {k \in P : <<k, i>> \in R}
    <2>1. I \in SUBSET (P \ {i})
      BY DEF Orders
    <2>2. IsFiniteSet(P \ {i}) /\ Cardinality(P \ {i}) = n - 1
      BY FS_RemoveElement
    <2>3. IsFiniteSet(I) /\ Cardinality(I) <= Cardinality(P \ {i})
      <3> HIDE DEF I, n
      <3> QED
        BY <2>1, <2>2, FS_Subset
    <2>4. Cardinality(I) \in Nat
      BY <2>3, FS_CardinalityType
    <2> HIDE DEF I, n
    <2>5. Cardinality(I) < n
      BY <2>2, <2>3, <2>4, <1>1
    <2> QED
      BY <2>4, <2>5 DEF Rank, I
  <1>4. f \in [P -> 1..n]
    BY <1>1, <1>3
  <1>5. \A i, j \in P : f[i] = f[j] => i = j
    BY <1>2, <1>3
  <1>6. f \in Injection(P, 1..n)
    BY <1>4, <1>5 DEF Injection, IsInjective
  <1>7. IsFiniteSet(1..n) /\ Cardinality(1..n) = n
    BY <1>1, FS_Interval
  <1>8. f \in Surjection(P, 1..n)
    BY <1>6, <1>7, FS_Injection
  <1>9. \A k \in 1..n : \E i \in P : f[i] = k
    BY <1>8 DEF Surjection
  <1>10. \A k \in 1..n : \E i \in P : Rank(i, P, R) = k - 1
    BY <1>3, <1>9
  <1>11. Ranked(P, R) = [k \in 1..n |-> CHOOSE i \in P : Rank(i, P, R) = k - 1]
    BY DEF Ranked, Rank
  <1> HIDE DEF f, n
  <1>12. \A k \in 1..n : Ranked(P, R)[k] \in P /\ Rank(Ranked(P, R)[k], P, R) = k - 1
    BY <1>10, <1>11
  <1>13. Ranked(P, R) \in [1..n -> P]
    BY <1>11, <1>12
  <1> QED
    BY <1>1, <1>2, <1>12, <1>13 DEF n

LEMMA RankedFacts ==
  ASSUME NEW P, IsFiniteSet(P), NEW R, Orders(R, P)
  PROVE  /\ \A i \in P : \E k \in 1..Cardinality(P) : Ranked(P, R)[k] = i
         /\ \A k, l \in 1..Cardinality(P) : Ranked(P, R)[k] = Ranked(P, R)[l] => k = l
  <1> DEFINE n == Cardinality(P)
             g == Ranked(P, R)
  <1>1. /\ n \in Nat /\ g \in [1..n -> P]
        /\ \A k \in 1..n : Rank(g[k], P, R) = k - 1
        /\ \A i, j \in P : Rank(i, P, R) = Rank(j, P, R) => i = j
    BY RankedAll
  <1> HIDE DEF g, n
  <1>2. \A k, l \in 1..n : g[k] = g[l] => k = l
    BY <1>1
  <1>3. IsFiniteSet(1..n) /\ Cardinality(1..n) = n
    BY <1>1, FS_Interval
  <1>4. g \in Injection(1..n, P)
    BY <1>1, <1>2 DEF Injection, IsInjective
  <1>5. g \in Surjection(1..n, P)
    BY <1>3, <1>4, FS_Injection DEF n
  <1>6. \A i \in P : \E k \in 1..n : g[k] = i
    BY <1>5 DEF Surjection
  <1> QED
    BY <1>2, <1>6 DEF g, n

LEMMA AscendingOrders ==
  ASSUME NEW P \in SUBSET Nat
  PROVE  Orders(Ascending(P), P)
  BY DEF Orders, Ascending

(* A finite set of numbers that is not empty has a first and a last one.    *)
LEMMA MaxOfFinite ==
  ASSUME NEW S \in SUBSET Nat, IsFiniteSet(S), S # {}
  PROVE  Max(S) \in S /\ \A y \in S : y <= Max(S)
  <1> DEFINE R == Ascending(S)
             n == Cardinality(S)
             m == Ranked(S, R)[n]
  <1>1. Orders(R, S)
    BY AscendingOrders
  <1>2. n \in Nat /\ n # 0
    BY FS_CardinalityType, FS_EmptySet
  <1>3. n \in 1..n
    BY <1>2
  <1>4. m \in S /\ Rank(m, S, R) = n - 1
    BY <1>1, <1>3, RankedAll
  <1>5. ASSUME NEW y \in S
        PROVE  y <= m
    <2>0. m \in Nat /\ y \in Nat
      BY <1>4
    <2>1. SUFFICES ASSUME m < y PROVE FALSE
      <3> HIDE DEF m
      <3> QED
        BY <2>0
    <2>2. <<m, y>> \in R
      BY <1>4, <2>1 DEF Ascending
    <2>3. Rank(m, S, R) < Rank(y, S, R)
      BY <1>1, <1>4, <2>2, RankGrows
    <2>4. Rank(y, S, R) \in Nat
      BY <1>1, <1>4, <2>2, RankGrows
    <2>5. \E k \in 1..n : Ranked(S, R)[k] = y
      BY <1>1, RankedFacts
    <2>6. PICK k \in 1..n : Rank(y, S, R) = k - 1
      BY <1>1, <2>5, RankedAll
    <2> HIDE DEF R, m, n
    <2> QED
      BY <1>2, <1>4, <2>3, <2>6
  <1> HIDE DEF m
  <1> QED
    BY <1>4, <1>5 DEF Max

LEMMA MinOfFinite ==
  ASSUME NEW S \in SUBSET Nat, IsFiniteSet(S), S # {}
  PROVE  Min(S) \in S /\ \A y \in S : Min(S) <= y
  <1> DEFINE R == Ascending(S)
             m == Ranked(S, R)[1]
  <1>1. Orders(R, S)
    BY AscendingOrders
  <1>2. Cardinality(S) \in Nat /\ Cardinality(S) # 0
    BY FS_CardinalityType, FS_EmptySet
  <1>3. 1 \in 1..Cardinality(S)
    BY <1>2
  <1>4. m \in S /\ Rank(m, S, R) = 1 - 1
    <2> HIDE DEF R
    <2> QED
      BY <1>1, <1>3, RankedAll
  <1>5. ASSUME NEW y \in S
        PROVE  m <= y
    <2>0. m \in Nat /\ y \in Nat
      BY <1>4
    <2>1. SUFFICES ASSUME y < m PROVE FALSE
      <3> HIDE DEF m
      <3> QED
        BY <2>0
    <2>2. <<y, m>> \in R
      BY <1>4, <2>1 DEF Ascending
    <2>3. Rank(y, S, R) < Rank(m, S, R) /\ Rank(y, S, R) \in Nat
      BY <1>1, <1>4, <2>2, RankGrows
    <2> HIDE DEF R, m
    <2> QED
      BY <1>4, <2>3
  <1> HIDE DEF m
  <1> QED
    BY <1>4, <1>5 DEF Min
-----------------------------------------------------------------------------
(* What the store returns.                                                   *)

LinesTyped == lines \in Seq(Seq(Entries) \ {<<>>})

Cp(e) == e.kind = "checkpoint"

LEMMA LineTyped ==
  ASSUME LinesTyped, NEW i \in DOMAIN lines
  PROVE  /\ i \in 1..Len(lines) /\ lines[i] \in Seq(Entries)
         /\ Len(lines[i]) \in Nat \ {0} /\ DOMAIN lines[i] = 1..Len(lines[i])
         /\ \A k \in DOMAIN lines[i] : lines[i][k] \in Entries
  BY DEF LinesTyped

LEMMA DocTyped ==
  ASSUME LinesTyped, NEW i \in Readable
  PROVE  i \in 1..Len(lines) /\ Doc(i) \in Entries
  BY LineTyped DEF Readable, Doc

LEMMA EntryTyped ==
  ASSUME NEW e \in Entries
  PROVE  /\ e.kind \in {"message", "checkpoint", "summary"} /\ e.id \in Uuids
         /\ e.ts \in Nat /\ e.text \in SUBSET Uuids /\ e.seen \in SUBSET Uuids
         /\ e.kept \in SUBSET Uuids /\ e.logged \in Nat
  BY DEF Entries

LEMMA ReadableFinite ==
  ASSUME LinesTyped, NEW P \in SUBSET Readable
  PROVE  IsFiniteSet(P)
  <1>1. Len(lines) \in Nat /\ DOMAIN lines = 1..Len(lines)
    BY DEF LinesTyped
  <1>2. IsFiniteSet(1..Len(lines))
    BY <1>1, FS_Interval
  <1>3. P \in SUBSET (1..Len(lines))
    BY <1>1 DEF Readable
  <1> QED
    BY <1>2, <1>3, FS_Subset

(* The latest checkpoint on the given lines.                                 *)
LEMMA LatestFacts ==
  ASSUME LinesTyped, NEW P \in SUBSET Readable
  PROVE  /\ LatestOf(P) \in Nat
         /\ LatestOf(P) = 0 \/ \E i \in P : Cp(Doc(i)) /\ Doc(i).ts = LatestOf(P)
         /\ \A i \in P : Cp(Doc(i)) => Doc(i).ts <= LatestOf(P)
  <1> DEFINE C == {k \in P : Doc(k).kind = "checkpoint"}
             T == {Doc(i).ts : i \in C}
             f == [i \in C |-> Doc(i).ts]
             S == {0} \union T
  <1>1. C \in SUBSET Readable /\ IsFiniteSet(C)
    BY ReadableFinite
  <1>2. \A i \in C : Doc(i).ts \in Nat
    BY <1>1, DocTyped, EntryTyped
  <1>3. f \in Surjection(C, T)
    BY DEF Surjection
  <1>4. IsFiniteSet(T)
    <2> HIDE DEF C, T, f
    <2> QED
      BY <1>1, <1>3, FS_Surjection
  <1>5. IsFiniteSet({0})
    BY FS_Singleton
  <1>6. IsFiniteSet(S)
    <2> HIDE DEF T
    <2> QED
      BY <1>4, <1>5, FS_Union
  <1>7. S \in SUBSET Nat /\ S # {}
    BY <1>2
  <1>8. Max(S) \in S /\ \A y \in S : y <= Max(S)
    <2> HIDE DEF S
    <2> QED
      BY <1>6, <1>7, MaxOfFinite
  <1>9. LatestOf(P) = Max(S)
    BY DEF LatestOf
  <1>10. LatestOf(P) \in Nat
    BY <1>7, <1>8, <1>9
  <1>11. LatestOf(P) = 0 \/ \E i \in P : Cp(Doc(i)) /\ Doc(i).ts = LatestOf(P)
    BY <1>8, <1>9 DEF Cp
  <1>12. \A i \in P : Cp(Doc(i)) => Doc(i).ts <= LatestOf(P)
    BY <1>8, <1>9 DEF Cp
  <1> QED
    BY <1>10, <1>11, <1>12

LEMMA LatestTyped ==
  ASSUME LinesTyped
  PROVE  find_latest_checkpoint \in Nat
  <1>1. FileTail \in SUBSET Readable
    BY DEF FileTail
  <1> QED
    BY <1>1, LatestFacts DEF find_latest_checkpoint

(* Each store returns entries in an order of their positions.                *)
LEMMA StoreOrders ==
  ASSUME LinesTyped, NEW P \in SUBSET Readable
  PROVE  Orders(StoreOrder(P), P)
  <1>1. \A i \in P : i \in Nat /\ Doc(i).ts \in Nat /\ Doc(i).id \in Nat
    <2> TAKE i \in P
    <2>1. i \in 1..Len(lines) /\ Doc(i) \in Entries
      BY DocTyped
    <2>2. Doc(i).id \in Uuids /\ Doc(i).ts \in Nat
      BY <2>1, EntryTyped
    <2> QED
      BY <2>1, <2>2 DEF Uuids, LinesTyped
  <1> DEFINE Before(i, j) ==
                IF store = "database" /\ (Doc(i).ts # Doc(j).ts \/ Doc(i).id # Doc(j).id)
                THEN \/ Doc(i).ts < Doc(j).ts
                     \/ Doc(i).ts = Doc(j).ts /\ Doc(i).id < Doc(j).id
                ELSE i < j
  <1>2. \A i, j \in P : <<i, j>> \in StoreOrder(P) <=> Before(i, j)
    BY DEF StoreOrder, EarlierRow
  <1>3. \A i \in P : ~Before(i, i)
    BY <1>1
  <1>4. \A i, j \in P : i # j => Before(i, j) \/ Before(j, i)
    BY <1>1
  <1>5. \A i, j, k \in P : Before(i, j) /\ Before(j, k) => Before(i, k)
    BY <1>1
  <1> HIDE DEF Before
  <1> QED
    BY <1>2, <1>3, <1>4, <1>5 DEF Orders

LEMMA InStoreOrderFacts ==
  ASSUME LinesTyped, NEW P \in SUBSET Readable
  PROVE  /\ InStoreOrder(P) \in Seq(Entries)
         /\ \A k \in DOMAIN InStoreOrder(P) : \E i \in P : InStoreOrder(P)[k] = Doc(i)
         /\ \A i \in P : \E k \in DOMAIN InStoreOrder(P) : InStoreOrder(P)[k] = Doc(i)
         /\ \A k, l \in DOMAIN InStoreOrder(P) : k # l =>
               \E i, j \in P : i # j /\ InStoreOrder(P)[k] = Doc(i) /\ InStoreOrder(P)[l] = Doc(j)
  <1> DEFINE R == StoreOrder(P)
             g == Ranked(P, R)
             n == Cardinality(P)
             s == InStoreOrder(P)
  <1>1. IsFiniteSet(P) /\ Orders(R, P)
    BY ReadableFinite, StoreOrders
  <1>2. s = [k \in 1..n |-> Doc(g[k])]
    BY DEF InStoreOrder
  <1> HIDE DEF R, s
  <1>3. n \in Nat /\ g \in [1..n -> P]
    BY <1>1, RankedAll
  <1>4. /\ \A i \in P : \E k \in 1..n : g[k] = i
        /\ \A k, l \in 1..n : g[k] = g[l] => k = l
    BY <1>1, RankedFacts
  <1> HIDE DEF g, n
  <1>5. \A k \in 1..n : g[k] \in P /\ Doc(g[k]) \in Entries
    BY <1>3, DocTyped
  <1>6. s \in Seq(Entries) /\ DOMAIN s = 1..n
    BY <1>2, <1>3, <1>5
  <1>7. \A k \in 1..n : s[k] = Doc(g[k])
    BY <1>2
  <1>8. /\ \A k \in DOMAIN s : \E i \in P : s[k] = Doc(i)
        /\ \A i \in P : \E k \in DOMAIN s : s[k] = Doc(i)
    BY <1>4, <1>5, <1>6, <1>7
  <1>9. \A k, l \in DOMAIN s : k # l => \E i, j \in P : i # j /\ s[k] = Doc(i) /\ s[l] = Doc(j)
    BY <1>4, <1>5, <1>6, <1>7
  <1> QED
    BY <1>6, <1>8, <1>9 DEF s

(* What get_messages returns is the text of the entries after the checkpoint.*)
LEMMA TextAfter ==
  ASSUME LinesTyped, NEW cp \in Nat, NEW i \in After(cp)
  PROVE  Doc(i).text \in SUBSET TextOf(MessagesAfter(cp))
  <1> DEFINE s == MessagesAfter(cp)
  <1>1. After(cp) \in SUBSET Readable
    BY DEF After
  <1>2. PICK k \in DOMAIN s : s[k] = Doc(i)
    BY <1>1, InStoreOrderFacts DEF MessagesAfter
  <1> HIDE DEF s
  <1> QED
    BY <1>2 DEF TextOf, ToSet, s

-----------------------------------------------------------------------------
(* What the compressor keeps.                                                *)

Distinct(s) == \A k, l \in DOMAIN s : k # l => s[k].id # s[l].id

(* Some positions are chosen, the first among them.                          *)
LEMMA ChosenFacts ==
  ASSUME NEW messages \in Seq(Entries), messages # <<>>
  PROVE  /\ Chosen(messages) \in SUBSET (1..Len(messages))
         /\ 1 \in Chosen(messages) /\ IsFiniteSet(Chosen(messages))
  <1> DEFINE n == Len(messages)
             keep == Min({KeepFirst, n})
  <1>0. n \in Nat \ {0}
    OBVIOUS
  <1> HIDE DEF n
  <1>1. {KeepFirst, n} \in SUBSET Nat /\ {KeepFirst, n} # {}
    BY <1>0
  <1>2. IsFiniteSet({KeepFirst} \union {n})
    BY FS_Singleton, FS_Union
  <1>3. {KeepFirst} \union {n} = {KeepFirst, n}
    OBVIOUS
  <1>4. keep \in {KeepFirst, n}
    BY <1>1, <1>2, <1>3, MinOfFinite
  <1>5. 1 <= keep
    BY <1>0, <1>4
  <1>6. Chosen(messages) \in SUBSET (1..n)
    BY DEF Chosen, n
  <1>7. 1 \in Chosen(messages)
    <2>1. 1 \in 1..n
      BY <1>0
    <2> QED
      BY <1>5, <2>1 DEF Chosen, n
  <1>8. IsFiniteSet(1..n)
    BY <1>0, FS_Interval
  <1>9. IsFiniteSet(Chosen(messages))
    BY <1>6, <1>8, FS_Subset
  <1> QED
    BY <1>6, <1>7, <1>9 DEF n

LEMMA SampledFacts ==
  ASSUME NEW messages \in Seq(Entries), messages # <<>>
  PROVE  /\ Sampled(messages) \in Seq(Entries) /\ Sampled(messages) # <<>>
         /\ \A k \in DOMAIN Sampled(messages) : \E i \in DOMAIN messages :
               Sampled(messages)[k] = messages[i]
         /\ Distinct(messages) =>
               /\ Distinct(Sampled(messages))
               /\ \A k \in DOMAIN Sampled(messages) :
                     Sampled(messages)[k].id = Last(messages).id =>
                         Last(Sampled(messages)).id = Last(messages).id
  <1> DEFINE n == Len(messages)
             P == Chosen(messages)
             R == Ascending(P)
             g == Ranked(P, R)
             c == Cardinality(P)
             s == Sampled(messages)
  <1>1. n \in Nat \ {0} /\ DOMAIN messages = 1..n
    OBVIOUS
  <1>2. P \in SUBSET (1..n) /\ 1 \in P /\ IsFiniteSet(P)
    BY ChosenFacts
  <1>3. P \in SUBSET Nat
    BY <1>1, <1>2
  <1>4. Orders(R, P)
    <2> HIDE DEF P
    <2> QED
      BY <1>3, AscendingOrders
  <1>5. s = [k \in 1..c |-> messages[g[k]]]
    BY DEF Sampled
  <1>6. \A k \in 1..n : messages[k] \in Entries
    BY <1>1
  <1>7. Last(messages) = messages[n] /\ Last(s) = s[Len(s)]
    BY DEF Last
  <1> HIDE DEF n, P, R, s
  <1>8. /\ c \in Nat /\ g \in [1..c -> P]
        /\ \A k \in 1..c : Rank(g[k], P, R) = k - 1
    BY <1>2, <1>4, RankedAll
  <1>9. \A k, l \in 1..c : g[k] = g[l] => k = l
    BY <1>2, <1>4, RankedFacts
  <1>10. c # 0
    BY <1>2, FS_EmptySet
  <1> HIDE DEF g, c
  <1>11. \A k \in 1..c : g[k] \in P /\ g[k] \in 1..n
    BY <1>2, <1>8
  <1>12. s \in Seq(Entries) /\ Len(s) = c /\ DOMAIN s = 1..c /\ s # <<>>
    <2>1. \A k \in 1..c : messages[g[k]] \in Entries
      BY <1>6, <1>11
    <2>2. s \in [1..c -> Entries]
      BY <1>5, <2>1
    <2>3. s \in Seq(Entries) /\ Len(s) = c /\ DOMAIN s = 1..c
      BY <1>8, <2>2
    <2> QED
      BY <1>10, <2>3
  <1>13. \A k \in 1..c : s[k] = messages[g[k]]
    BY <1>5
  <1>14. ASSUME Distinct(messages)
         PROVE  Distinct(s)
    <2> SUFFICES ASSUME NEW k \in 1..c, NEW l \in 1..c, k # l
                 PROVE  s[k].id # s[l].id
      BY <1>12 DEF Distinct
    <2>1. g[k] \in DOMAIN messages /\ g[l] \in DOMAIN messages /\ g[k] # g[l]
      BY <1>1, <1>9, <1>11
    <2>2. messages[g[k]].id # messages[g[l]].id
      BY <1>14, <2>1 DEF Distinct
    <2> QED
      BY <1>13, <2>2
  <1>15. ASSUME Distinct(messages), NEW k \in DOMAIN s, s[k].id = Last(messages).id
         PROVE  Last(s).id = Last(messages).id
    <2>1. k \in 1..c /\ g[k] = n
      <3>1. k \in 1..c /\ s[k].id = messages[n].id
        BY <1>7, <1>12, <1>15
      <3>2. g[k] \in DOMAIN messages /\ n \in DOMAIN messages /\ messages[g[k]].id = messages[n].id
        BY <1>1, <1>11, <1>13, <3>1
      <3> QED
        BY <1>15, <3>1, <3>2 DEF Distinct
    <2>2. c \in 1..c
      BY <1>8, <1>10
    <2>3. k = c
      <3> SUFFICES ASSUME k # c PROVE FALSE
        OBVIOUS
      <3>1. g[c] \in P /\ g[k] \in P /\ g[c] # g[k] /\ g[c] \in 1..n
        BY <1>9, <1>11, <2>1, <2>2
      <3>2. g[c] < g[k]
        BY <1>1, <2>1, <3>1
      <3>3. <<g[c], g[k]>> \in R
        BY <3>1, <3>2 DEF R, Ascending
      <3>4. Rank(g[c], P, R) < Rank(g[k], P, R)
        BY <1>2, <1>4, <3>1, <3>3, RankGrows
      <3>5. c - 1 < k - 1
        BY <1>8, <2>1, <2>2, <3>4
      <3> QED
        BY <1>8, <2>1, <3>5
    <2> QED
      BY <1>7, <1>12, <1>15, <2>3
  <1> QED
    BY <1>1, <1>11, <1>12, <1>13, <1>14, <1>15 DEF s

(* It keeps some of what it is given, and nothing twice.                     *)
LEMMA CompressFacts ==
  ASSUME NEW messages \in Seq(Entries), messages # <<>>
  PROVE  /\ compress(messages) \in Seq(Entries) /\ compress(messages) # <<>>
         /\ \A k \in DOMAIN compress(messages) : \E i \in DOMAIN messages :
               compress(messages)[k] = messages[i]
         /\ Distinct(messages) => Distinct(compress(messages))
  <1> DEFINE s == Sampled(messages)
             m == Last(messages)
             c == compress(messages)
  <1>1. /\ s \in Seq(Entries) /\ s # <<>>
        /\ \A k \in DOMAIN s : \E i \in DOMAIN messages : s[k] = messages[i]
        /\ Distinct(messages) =>
              /\ Distinct(s)
              /\ \A k \in DOMAIN s : s[k].id = m.id => Last(s).id = m.id
    BY SampledFacts
  <1>2. Len(messages) \in DOMAIN messages /\ m = messages[Len(messages)] /\ m \in Entries
    BY DEF Last
  <1>3. c = s \/ (c = Append(s, m) /\ Last(s).id # m.id)
    BY DEF compress
  <1> HIDE DEF s, m, c
  <1>4. CASE c = s
    BY <1>1, <1>4 DEF c
  <1>5. CASE c = Append(s, m) /\ Last(s).id # m.id
    <2>1. /\ c \in Seq(Entries) /\ c # <<>> /\ Len(c) = Len(s) + 1 /\ c[Len(s) + 1] = m
          /\ \A k \in 1..Len(s) : c[k] = s[k]
      BY <1>1, <1>2, <1>5
    <2>2. DOMAIN c = 1..(Len(s) + 1) /\ DOMAIN s = 1..Len(s) /\ Len(s) \in Nat
      BY <1>1, <2>1
    <2>3. \A k \in DOMAIN c : k \in DOMAIN s \/ k = Len(s) + 1
      BY <2>2
    <2>4. \A k \in DOMAIN c : \E i \in DOMAIN messages : c[k] = messages[i]
      BY <1>1, <1>2, <2>1, <2>2, <2>3
    <2>5. Distinct(messages) => Distinct(c)
      BY <1>1, <1>5, <2>1, <2>2, <2>3 DEF Distinct
    <2> QED
      BY <2>1, <2>4, <2>5 DEF c
  <1> QED
    BY <1>3, <1>4, <1>5

-----------------------------------------------------------------------------
(* Types.                                                                    *)

(* A run that is not in the middle of an operation holds nothing, and one    *)
(* that is about to seal has read something; only a written line is open.    *)
TypeInv ==
    /\ TypeOK
    /\ store \in {"memory", "file", "database"}
    /\ inst \in [Runs -> Instances]
    /\ \A r \in Runs : pc[r] \in {"start", "idle"} => hand[r] = Idle
    /\ \A r \in Runs : pc[r] = "seal" => hand[r].seen # <<>>
    /\ open => lines # <<>>

Me(r) == <<r, spent.crashes>>

LEMMA TextTyped ==
  ASSUME NEW s \in Seq(Entries)
  PROVE  TextOf(s) \in SUBSET Uuids
  <1>1. \A k \in DOMAIN s : s[k] \in Entries
    OBVIOUS
  <1>2. \A m \in ToSet(s) : m \in Entries /\ m.text \in SUBSET Uuids
    BY <1>1, EntryTyped DEF ToSet
  <1> QED
    BY <1>2 DEF TextOf

LEMMA HandTyped ==
  ASSUME TypeInv, NEW r \in Runs
  PROVE  /\ hand[r] \in Hands
         /\ hand[r].todo \in Seq(Entries) /\ hand[r].cp \in Nat /\ hand[r].seen \in Seq(Entries)
         /\ hand[r].logged \in Nat /\ hand[r].meta \in SUBSET Runs
         /\ Len(hand[r].todo) \in Nat /\ DOMAIN hand[r].todo = 1..Len(hand[r].todo)
         /\ \A k \in DOMAIN hand[r].todo : hand[r].todo[k] \in Entries
  <1>1. hand[r] \in Hands
    BY DEF TypeInv, TypeOK
  <1>2. /\ hand[r].todo \in Seq(Entries) /\ hand[r].cp \in Nat /\ hand[r].seen \in Seq(Entries)
        /\ hand[r].logged \in Nat /\ hand[r].meta \in SUBSET Runs
    BY <1>1 DEF Hands
  <1> QED
    BY <1>1, <1>2

LEMMA IdleTyped == Idle \in Hands
  <1>1. <<>> \in Seq(Entries)
    OBVIOUS
  <1> QED
    BY <1>1 DEF Idle, Hands

LEMMA NewEntryTyped ==
  ASSUME TypeInv, NEW r \in Runs, NEW kind \in {"message", "checkpoint", "summary"},
         NEW id \in Uuids, NEW ts \in Nat, NEW text \in SUBSET Uuids
  PROVE  /\ Entry(r, kind, id, ts, text) \in Entries
         /\ Entry(r, kind, id, ts, text).kind = kind /\ Entry(r, kind, id, ts, text).id = id
         /\ Entry(r, kind, id, ts, text).ts = ts /\ Entry(r, kind, id, ts, text).text = text
         /\ Entry(r, kind, id, ts, text).by = Me(r)
  <1>1. spent.crashes \in Nat
    BY DEF TypeInv, TypeOK
  <1> QED
    BY <1>1 DEF Entry, Entries, Me

(* The entries of a compression: the checkpoint, the summary, the messages.  *)
Compressed(t, r, id, kept) ==
    /\ t \in Seq(Entries) /\ Len(t) = Len(kept) + 2 /\ DOMAIN t = 1..(Len(kept) + 2)
    /\ t[1].kind = "checkpoint" /\ t[1].id = id /\ t[1].ts = now
    /\ t[1].seen = TextOf(hand[r].seen) /\ t[1].kept = TextOf(kept)
    /\ t[1].logged = hand[r].logged
    /\ t[2].kind = "summary" /\ t[2].id = id /\ t[2].ts = now + 1 /\ t[2].text = TextOf(kept)
    /\ \A k \in 3..(Len(kept) + 2) :
          /\ t[k].kind = "message" /\ k - 2 \in DOMAIN kept /\ t[k].id = kept[k - 2].id
          /\ t[k].ts >= now /\ t[k].text = kept[k - 2].text
    /\ \A k \in DOMAIN t : t[k].by = Me(r) /\ (k = 1 \/ k = 2 \/ k \in 3..(Len(kept) + 2))

LEMMA CompressedFacts ==
  ASSUME TypeInv, NEW r \in Runs, NEW id \in Uuids, NEW kept \in Seq(Entries)
  PROVE  Compressed(CompressedEntries(r, id, kept), r, id, kept)
  <1> DEFINE c == [Entry(r, "checkpoint", id, now, {}) EXCEPT !.seen = TextOf(hand[r].seen),
                     !.kept = TextOf(kept), !.logged = hand[r].logged]
             s == Entry(r, "summary", id, now + 1, TextOf(kept))
             m == [i \in DOMAIN kept |-> Entry(r, "message", kept[i].id, now + i, kept[i].text)]
             t == CompressedEntries(r, id, kept)
  <1>1. t = <<c, s>> \o m
    BY DEF CompressedEntries
  <1>2. now \in Nat /\ spent.crashes \in Nat
    BY DEF TypeInv, TypeOK
  <1>3. /\ TextOf(kept) \in SUBSET Uuids /\ TextOf(hand[r].seen) \in SUBSET Uuids
        /\ hand[r].logged \in Nat
    BY TextTyped, HandTyped
  <1>4. /\ c \in Entries /\ c.kind = "checkpoint" /\ c.id = id /\ c.ts = now
        /\ c.seen = TextOf(hand[r].seen) /\ c.kept = TextOf(kept) /\ c.logged = hand[r].logged
        /\ c.by = Me(r)
    BY <1>2, <1>3 DEF Entry, Entries, Me
  <1>5. /\ s \in Entries /\ s.kind = "summary" /\ s.id = id /\ s.ts = now + 1
        /\ s.text = TextOf(kept) /\ s.by = Me(r)
    BY <1>2, <1>3, NewEntryTyped
  <1>6. Len(kept) \in Nat /\ DOMAIN kept = 1..Len(kept)
    OBVIOUS
  <1>7. ASSUME NEW i \in 1..Len(kept)
        PROVE  /\ m[i] \in Entries /\ m[i].kind = "message" /\ m[i].id = kept[i].id
               /\ m[i].ts >= now /\ m[i].text = kept[i].text /\ m[i].by = Me(r)
    <2>1. kept[i] \in Entries /\ i \in Nat
      OBVIOUS
    <2>2. kept[i].id \in Uuids /\ kept[i].text \in SUBSET Uuids /\ now + i \in Nat
      BY <1>2, <2>1, EntryTyped
    <2>3. m[i] = Entry(r, "message", kept[i].id, now + i, kept[i].text)
      BY <1>6
    <2> QED
      BY <1>2, <2>2, <2>3, NewEntryTyped
  <1>8. DOMAIN m = 1..Len(kept) /\ m = [i \in 1..Len(kept) |-> m[i]]
    BY <1>6
  <1> HIDE DEF c, s, m, t
  <1>9. m \in Seq(Entries) /\ Len(m) = Len(kept)
    BY <1>6, <1>7, <1>8
  <1>10. <<c, s>> \in Seq(Entries) /\ Len(<<c, s>>) = 2
    BY <1>4, <1>5
  <1>11. t \in Seq(Entries) /\ Len(t) = Len(kept) + 2 /\ DOMAIN t = 1..(Len(kept) + 2)
    BY <1>1, <1>6, <1>9, <1>10
  <1>12. t[1] = c /\ t[2] = s
    BY <1>1, <1>9, <1>10
  <1>13. \A k \in 3..(Len(kept) + 2) : k - 2 \in 1..Len(kept) /\ t[k] = m[k - 2]
    BY <1>1, <1>6, <1>9, <1>10
  <1>14. \A k \in 3..(Len(kept) + 2) :
            /\ t[k].kind = "message" /\ t[k].id = kept[k - 2].id
            /\ t[k].ts >= now /\ t[k].text = kept[k - 2].text /\ t[k].by = Me(r)
    BY <1>7, <1>13
  <1>15. \A k \in DOMAIN t : t[k].by = Me(r) /\ (k = 1 \/ k = 2 \/ k \in 3..(Len(kept) + 2))
    <2> TAKE k \in DOMAIN t
    <2>1. k = 1 \/ k = 2 \/ k \in 3..(Len(kept) + 2)
      BY <1>6, <1>11
    <2> QED
      BY <1>4, <1>5, <1>12, <1>14, <2>1
  <1>16. Compressed(t, r, id, kept)
    BY <1>4, <1>5, <1>6, <1>11, <1>12, <1>13, <1>14, <1>15 DEF Compressed
  <1> QED
    BY <1>16 DEF t

LEMMA NewUuidsUnused ==
  ASSUME TypeInv
  PROVE  NewUuids \in SUBSET unused /\ unused \in SUBSET Uuids
  <1>1. unused \in SUBSET Uuids
    BY DEF TypeInv, TypeOK
  <1> DEFINE n == MaxMessages + MaxCompress
  <1>2. n \in Nat /\ Uuids = 1..n
    BY DEF Uuids
  <1> HIDE DEF n
  <1>3. Uuids \in SUBSET Nat /\ IsFiniteSet(Uuids)
    BY <1>2, FS_Interval
  <1>4. unused \in SUBSET Nat /\ IsFiniteSet(unused)
    BY <1>1, <1>3, FS_Subset
  <1>5. unused # {} => Min(unused) \in unused
    BY <1>4, MinOfFinite
  <1> QED
    BY <1>1, <1>5 DEF NewUuids

(* What a run keeps in hand after one save, failed or not.                   *)
LEMMA ProceedFacts ==
  ASSUME TypeInv, NEW r \in Runs, pc[r] \in {"save", "newline"},
         NEW rest \in {Tail(hand[r].todo), <<>>}, Proceed(r, rest)
  PROVE  /\ hand' \in [Runs -> Hands]
         /\ pc' \in [Runs -> {"start", "bind", "idle", "read", "seal", "save", "newline"}]
         /\ mutex' \in Runs \union {None}
         /\ \A q \in Runs \ {r} : hand'[q] = hand[q] /\ pc'[q] = pc[q] /\ (mutex' = q <=> mutex = q)
         /\ \/ /\ rest = <<>> /\ hand'[r] = Idle /\ pc'[r] = "idle" /\ mutex' # r
            \/ /\ rest = Tail(hand[r].todo) /\ rest # <<>>
               /\ hand'[r].todo = rest /\ hand'[r].seen = hand[r].seen
               /\ pc'[r] = "save" /\ mutex' = mutex
         /\ DOMAIN hand'[r].todo = 1..Len(hand'[r].todo) /\ Len(hand'[r].todo) \in Nat
         /\ \A k \in DOMAIN hand'[r].todo :
               k + 1 \in DOMAIN hand[r].todo /\ hand'[r].todo[k] = hand[r].todo[k + 1]
  <1> DEFINE todo == hand[r].todo
             h == IF rest = <<>> THEN Idle ELSE [hand[r] EXCEPT !.todo = rest]
  <1>1. /\ hand \in [Runs -> Hands] /\ mutex \in Runs \union {None}
        /\ pc \in [Runs -> {"start", "bind", "idle", "read", "seal", "save", "newline"}]
        /\ todo # <<>>
    BY DEF TypeInv, TypeOK
  <1>2. hand[r] \in Hands /\ todo \in Seq(Entries) /\ Len(todo) \in Nat /\ DOMAIN todo = 1..Len(todo)
    BY HandTyped
  <1>3. /\ Tail(todo) \in Seq(Entries) /\ Len(Tail(todo)) = Len(todo) - 1
        /\ \A k \in 1..(Len(todo) - 1) : Tail(todo)[k] = todo[k + 1]
    <2> HIDE DEF todo
    <2> QED
      BY <1>1, <1>2, HeadTailProperties
  <1>4. rest \in Seq(Entries)
    <2>1. <<>> \in Seq(Entries)
      OBVIOUS
    <2> QED
      BY <1>3, <2>1
  <1>5. h \in Hands
    BY <1>2, <1>4, IdleTyped DEF Hands
  <1>6. hand' = [hand EXCEPT ![r] = h]
    BY DEF Proceed
  <1>7. hand' \in [Runs -> Hands] /\ hand'[r] = h /\ \A q \in Runs \ {r} : hand'[q] = hand[q]
    <2> HIDE DEF h
    <2> QED
      BY <1>1, <1>5, <1>6
  <1>8. /\ pc' \in [Runs -> {"start", "bind", "idle", "read", "seal", "save", "newline"}]
        /\ pc'[r] = (IF rest = <<>> THEN "idle" ELSE "save")
        /\ \A q \in Runs \ {r} : pc'[q] = pc[q]
    BY <1>1 DEF Proceed
  <1>9. /\ mutex' \in Runs \union {None}
        /\ \A q \in Runs \ {r} : (mutex' = q <=> mutex = q)
        /\ rest = <<>> => mutex' # r
        /\ rest # <<>> => mutex' = mutex
    BY <1>1 DEF Proceed
  <1>10. CASE rest = <<>>
    <2>1. hand'[r] = Idle /\ hand'[r].todo = <<>>
      BY <1>7, <1>10 DEF Idle
    <2>2. DOMAIN hand'[r].todo = {} /\ Len(hand'[r].todo) = 0
      BY <2>1
    <2> QED
      BY <1>7, <1>8, <1>9, <1>10, <2>1, <2>2
  <1>11. CASE rest # <<>>
    <2>1. rest = Tail(todo) /\ hand'[r].todo = rest /\ hand'[r].seen = hand[r].seen
      BY <1>2, <1>7, <1>11 DEF Hands
    <2>2. Len(rest) = Len(todo) - 1 /\ Len(rest) \in Nat /\ DOMAIN rest = 1..Len(rest)
      BY <1>3, <1>4, <2>1
    <2>3. \A k \in DOMAIN rest : k + 1 \in DOMAIN todo /\ rest[k] = todo[k + 1]
      BY <1>2, <1>3, <2>1, <2>2
    <2> QED
      BY <1>7, <1>8, <1>9, <1>11, <2>1, <2>2, <2>3
  <1> QED
    BY <1>10, <1>11

(* An entry is written on a line of its own or at the end of the last line.  *)
Grows(x) ==
    \/ lines' = Append(lines, <<x>>)
    \/ lines # <<>> /\ lines' = [lines EXCEPT ![Len(lines)] = Append(@, x)]

LEMMA GrowTyped ==
  ASSUME LinesTyped, NEW x \in Entries, Grows(x)
  PROVE  /\ LinesTyped' /\ Len(lines) \in Nat /\ Len(lines) <= Len(lines') /\ Len(lines') \in Nat
         /\ \A i \in DOMAIN lines :
               /\ i \in DOMAIN lines'
               /\ lines'[i] = lines[i]
                  \/ (i = Len(lines) /\ lines'[i] = Append(lines[i], x) /\ Len(lines') = Len(lines))
         /\ \/ lines' = Append(lines, <<x>>) /\ Len(lines') = Len(lines) + 1
               /\ lines'[Len(lines) + 1] = <<x>> /\ \A i \in DOMAIN lines : lines'[i] = lines[i]
            \/ Len(lines) \in DOMAIN lines /\ Len(lines') = Len(lines)
               /\ lines'[Len(lines)] = Append(lines[Len(lines)], x)
               /\ \A i \in DOMAIN lines : i # Len(lines) => lines'[i] = lines[i]
  <1> DEFINE E == Seq(Entries) \ {<<>>}
  <1>1. lines \in Seq(E)
    BY DEF LinesTyped
  <1>2. Len(lines) \in Nat /\ DOMAIN lines = 1..Len(lines)
    BY <1>1
  <1>3. CASE lines' = Append(lines, <<x>>)
    <2>1. <<x>> \in E
      OBVIOUS
    <2> HIDE DEF E
    <2>2. lines' \in Seq(E) /\ Len(lines') = Len(lines) + 1 /\ lines'[Len(lines) + 1] = <<x>>
          /\ \A i \in 1..Len(lines) : lines'[i] = lines[i]
      BY <1>1, <1>3, <2>1
    <2>3. DOMAIN lines' = 1..(Len(lines) + 1)
      BY <2>2
    <2>4. LinesTyped'
      BY <2>2 DEF LinesTyped, E
    <2>5. \A i \in DOMAIN lines : i \in DOMAIN lines' /\ lines'[i] = lines[i]
      BY <1>2, <2>2, <2>3
    <2>6. Len(lines') \in Nat /\ Len(lines) <= Len(lines')
      BY <1>2, <2>2
    <2> QED
      BY <1>2, <1>3, <2>2, <2>4, <2>5, <2>6
  <1>4. CASE lines # <<>> /\ lines' = [lines EXCEPT ![Len(lines)] = Append(@, x)]
    <2> DEFINE n == Len(lines)
               last == Append(lines[n], x)
    <2>1. n \in 1..n /\ n \in DOMAIN lines
      BY <1>1, <1>2, <1>4
    <2>2. lines[n] \in Seq(Entries)
      BY <1>1, <2>1
    <2>3. last \in E
      <3> HIDE DEF n
      <3> QED
        BY <2>2
    <2>4. lines' = [lines EXCEPT ![n] = last]
      BY <1>4
    <2> HIDE DEF E, last
    <2>5. lines' \in Seq(E) /\ Len(lines') = n /\ DOMAIN lines' = 1..n /\ lines'[n] = last
          /\ \A i \in 1..n : i # n => lines'[i] = lines[i]
      BY <1>1, <2>1, <2>3, <2>4, ExceptSeq
    <2>6. LinesTyped'
      BY <2>5 DEF LinesTyped, E
    <2>7. lines'[Len(lines)] = Append(lines[Len(lines)], x)
      BY <2>5 DEF last
    <2>8. /\ Len(lines') = Len(lines) /\ Len(lines) \in DOMAIN lines
          /\ Len(lines') \in Nat /\ Len(lines) <= Len(lines')
      <3>1. Len(lines') = Len(lines) /\ Len(lines) \in DOMAIN lines
        BY <2>1, <2>5
      <3> QED
        BY ONLY <1>2, <3>1
    <2>9. \A i \in DOMAIN lines :
             i \in DOMAIN lines' /\ (i # Len(lines) => lines'[i] = lines[i])
      BY <1>2, <2>5
    <2> HIDE DEF n
    <2>10. \A i \in DOMAIN lines :
              lines'[i] = lines[i] \/ (i = Len(lines) /\ lines'[i] = Append(lines[i], x))
      BY <2>7, <2>9
    <2> QED
      BY <1>2, <2>6, <2>7, <2>8, <2>9, <2>10
  <1> QED
    BY <1>3, <1>4 DEF Grows

LEMMA WrittenFacts ==
  \A e : e \in Written <=> \E i \in DOMAIN lines : \E k \in DOMAIN lines[i] : e = lines[i][k]
  BY DEF Written, ToSet

LEMMA SpoiltFacts == Spoilt <=> \E i \in DOMAIN lines : Len(lines[i]) > 1
  BY DEF Spoilt, ToSet

(* What a write adds to the log and what it leaves.                          *)
LEMMA GrowWritten ==
  ASSUME LinesTyped, NEW x \in Entries, Grows(x)
  PROVE  \A e : e \in Written' <=> (e \in Written \/ e = x)
  <1>1. \A e : e \in Written' <=> \E i \in DOMAIN lines' : \E k \in DOMAIN lines'[i] : e = lines'[i][k]
    BY DEF Written, ToSet
  <1>2. Len(lines) \in Nat /\ DOMAIN lines = 1..Len(lines)
    BY DEF LinesTyped
  <1>3. CASE /\ lines' = Append(lines, <<x>>) /\ Len(lines') = Len(lines) + 1
             /\ lines'[Len(lines) + 1] = <<x>> /\ \A i \in DOMAIN lines : lines'[i] = lines[i]
    <2>1. DOMAIN lines' = 1..(Len(lines) + 1)
      BY <1>3, GrowTyped DEF LinesTyped
    <2>2. DOMAIN <<x>> = {1} /\ <<x>>[1] = x
      OBVIOUS
    <2>3. ASSUME NEW i \in DOMAIN lines', NEW k \in DOMAIN lines'[i]
          PROVE  lines'[i][k] \in Written \/ lines'[i][k] = x
      <3>1. i \in DOMAIN lines \/ i = Len(lines) + 1
        BY <1>2, <2>1
      <3> QED
        BY <1>3, <2>2, <3>1, WrittenFacts
    <2>4. \A i \in DOMAIN lines : \A k \in DOMAIN lines[i] : lines[i][k] \in Written'
      BY <1>1, <1>2, <1>3, <2>1
    <2>5. x \in Written'
      BY <1>1, <1>2, <1>3, <2>1, <2>2
    <2> QED
      BY <1>1, <2>3, <2>4, <2>5, WrittenFacts
  <1>4. CASE /\ Len(lines) \in DOMAIN lines /\ Len(lines') = Len(lines)
             /\ lines'[Len(lines)] = Append(lines[Len(lines)], x)
             /\ \A i \in DOMAIN lines : i # Len(lines) => lines'[i] = lines[i]
    <2> DEFINE n == Len(lines)
               last == lines[n]
    <2>1. DOMAIN lines' = DOMAIN lines
      <3>1. LinesTyped'
        BY GrowTyped
      <3>2. DOMAIN lines' = 1..Len(lines')
        BY <3>1 DEF LinesTyped
      <3> QED
        BY <1>2, <1>4, <3>2
    <2>2. last \in Seq(Entries) /\ Len(last) \in Nat /\ DOMAIN last = 1..Len(last)
      BY <1>4, LineTyped
    <2>3. lines'[n] = Append(last, x)
      BY <1>4
    <2> HIDE DEF last
    <2>4. /\ DOMAIN lines'[n] = 1..(Len(last) + 1) /\ lines'[n][Len(last) + 1] = x
          /\ \A k \in 1..Len(last) : lines'[n][k] = last[k]
      BY <2>2, <2>3
    <2>5. ASSUME NEW i \in DOMAIN lines', NEW k \in DOMAIN lines'[i]
          PROVE  lines'[i][k] \in Written \/ lines'[i][k] = x
      <3>1. CASE i = n
        <4>1. k \in 1..Len(last) \/ k = Len(last) + 1
          BY <2>2, <2>4, <3>1
        <4> QED
          BY <1>4, <2>2, <2>4, <3>1, <4>1, WrittenFacts DEF last
      <3>2. CASE i # n
        BY <1>4, <2>1, <3>2, WrittenFacts
      <3> QED
        BY <3>1, <3>2
    <2>6. \A i \in DOMAIN lines : \A k \in DOMAIN lines[i] : lines[i][k] \in Written'
      <3> TAKE i \in DOMAIN lines
      <3> TAKE k \in DOMAIN lines[i]
      <3>1. CASE i = n
        <4>1. k \in 1..Len(last) /\ lines[i][k] = last[k]
          BY <2>2, <3>1 DEF last
        <4>2. k \in DOMAIN lines'[n] /\ lines'[n][k] = last[k]
          BY <2>2, <2>4, <4>1
        <4> QED
          BY <1>1, <1>4, <2>1, <4>1, <4>2
      <3>2. CASE i # n
        BY <1>1, <1>4, <2>1, <3>2
      <3> QED
        BY <3>1, <3>2
    <2>7. x \in Written'
      <3>1. Len(last) + 1 \in DOMAIN lines'[n]
        BY <2>2, <2>4
      <3> QED
        BY <1>1, <1>4, <2>1, <2>4, <3>1
    <2> QED
      BY <1>1, <2>5, <2>6, <2>7, WrittenFacts
  <1> QED
    BY <1>3, <1>4, GrowTyped

LEMMA GrowDocs ==
  ASSUME LinesTyped, NEW x \in Entries, Grows(x)
  PROVE  /\ \A i \in Readable' :
               \/ i \in Readable /\ Doc(i)' = Doc(i)
               \/ i = Len(lines) + 1 /\ Doc(i)' = x
         /\ ~Spoilt' =>
               /\ ~Spoilt /\ Len(lines') = Len(lines) + 1
               /\ \A i : i = Len(lines) + 1 => i \in Readable' /\ Doc(i)' = x
               /\ \A i \in Readable : i \in Readable' /\ Doc(i)' = Doc(i)
  <1>1. Len(lines) \in Nat /\ DOMAIN lines = 1..Len(lines)
    BY DEF LinesTyped
  <1>2. \A i : i \in Readable' <=> i \in DOMAIN lines' /\ Len(lines'[i]) = 1
    BY DEF Readable
  <1>3. \A i : Doc(i)' = lines'[i][1]
    BY DEF Doc
  <1>4. Spoilt' <=> \E i \in DOMAIN lines' : Len(lines'[i]) > 1
    BY DEF Spoilt, ToSet
  <1>5. CASE /\ lines' = Append(lines, <<x>>) /\ Len(lines') = Len(lines) + 1
             /\ lines'[Len(lines) + 1] = <<x>> /\ \A i \in DOMAIN lines : lines'[i] = lines[i]
    <2>1. DOMAIN lines' = 1..(Len(lines) + 1)
      BY <1>5, GrowTyped DEF LinesTyped
    <2>2. Len(<<x>>) = 1 /\ <<x>>[1] = x
      OBVIOUS
    <2>3. \A i \in DOMAIN lines' : i \in DOMAIN lines \/ i = Len(lines) + 1
      BY <1>1, <2>1
    <2>4. \A i \in DOMAIN lines : i \in DOMAIN lines'
      BY <1>1, <2>1
    <2>5. Len(lines) + 1 \in DOMAIN lines'
      BY <1>1, <2>1
    <2>6. Spoilt => Spoilt'
      BY <1>4, <1>5, <2>4, SpoiltFacts
    <2>7. \A i \in Readable : i \in Readable' /\ Doc(i)' = Doc(i)
      BY <1>2, <1>3, <1>5, <2>4 DEF Readable, Doc
    <2>8. \A i : i = Len(lines) + 1 => i \in Readable' /\ Doc(i)' = x
      BY <1>2, <1>3, <1>5, <2>2, <2>5
    <2>9. \A i \in Readable' :
             (i \in Readable /\ Doc(i)' = Doc(i)) \/ (i = Len(lines) + 1 /\ Doc(i)' = x)
      BY <1>2, <1>3, <1>5, <2>2, <2>3 DEF Readable, Doc
    <2> QED
      BY <1>5, <2>6, <2>7, <2>8, <2>9
  <1>6. CASE /\ Len(lines) \in DOMAIN lines /\ Len(lines') = Len(lines)
             /\ lines'[Len(lines)] = Append(lines[Len(lines)], x)
             /\ \A i \in DOMAIN lines : i # Len(lines) => lines'[i] = lines[i]
    <2> DEFINE n == Len(lines)
               last == lines[n]
    <2>1. DOMAIN lines' = DOMAIN lines
      <3>1. LinesTyped'
        BY GrowTyped
      <3>2. DOMAIN lines' = 1..Len(lines')
        BY <3>1 DEF LinesTyped
      <3> QED
        BY <1>1, <1>6, <3>2
    <2>2. last \in Seq(Entries) /\ Len(last) \in Nat \ {0}
      BY <1>6, LineTyped
    <2>3. lines'[n] = Append(last, x)
      BY <1>6
    <2> HIDE DEF last
    <2>4. Len(lines'[n]) = Len(last) + 1
      BY <2>2, <2>3
    <2>5. Len(lines'[n]) > 1
      BY <2>2, <2>4
    <2>6. Spoilt'
      BY <1>4, <1>6, <2>1, <2>5
    <2>7. \A i \in Readable' : i # n
      <3>1. Len(lines'[n]) # 1
        BY <2>2, <2>4
      <3> QED
        BY ONLY <1>2, <3>1
    <2>8. \A i \in Readable' : i \in Readable /\ Doc(i)' = Doc(i)
      BY <1>2, <1>3, <1>6, <2>1, <2>7 DEF Readable, Doc
    <2> QED
      BY <2>6, <2>8
  <1> QED
    BY <1>5, <1>6, GrowTyped

(* -- every step keeps the types --------------------------------------------- *)

Places == {"start", "bind", "idle", "read", "seal", "save", "newline"}

(* What one run holds and does, and the rest of the state.                   *)
HandOK(h, p) ==
    /\ h \in Hands /\ p \in Places
    /\ (h.todo = <<>>) = (p \notin {"save", "newline"})
    /\ p \in {"start", "idle"} => h = Idle
    /\ p = "seal" => h.seen # <<>>

OthersTyped ==
    /\ store \in {"memory", "file", "database"} /\ inst \in [Runs -> Instances]
    /\ now \in 1..MaxTime /\ LinesTyped /\ open \in BOOLEAN /\ unused \subseteq Uuids
    /\ open => lines # <<>>
    /\ mutex \in Runs \union {None}
    /\ meta \union bound \subseteq Runs
    /\ metaLock \in [Instances -> Runs \union {None}]
    /\ spent \in [messages : Nat, compress : Nat, faults : Nat, crashes : Nat]
    /\ raced \in BOOLEAN /\ torn \subseteq Nat

LEMMA TypeParts ==
  TypeInv <=> /\ OthersTyped
              /\ hand \in [Runs -> Hands] /\ pc \in [Runs -> Places]
              /\ \A r \in Runs : HandOK(hand[r], pc[r])
  <1>1. TypeInv => OthersTyped
    BY DEF TypeInv, TypeOK, OthersTyped, LinesTyped
  <1>2. TypeInv => hand \in [Runs -> Hands] /\ pc \in [Runs -> Places]
    BY DEF TypeInv, TypeOK, Places
  <1>3. ASSUME TypeInv, NEW r \in Runs
        PROVE  HandOK(hand[r], pc[r])
    <2>1. hand[r] \in Hands /\ pc[r] \in Places
      BY <1>2, <1>3
    <2>2. (hand[r].todo = <<>>) = (pc[r] \notin {"save", "newline"})
      BY <1>3 DEF TypeInv, TypeOK
    <2>3. (pc[r] \in {"start", "idle"} => hand[r] = Idle) /\ (pc[r] = "seal" => hand[r].seen # <<>>)
      BY <1>3 DEF TypeInv
    <2> QED
      BY <2>1, <2>2, <2>3, Zenon DEF HandOK
  <1>4. ASSUME OthersTyped, hand \in [Runs -> Hands], pc \in [Runs -> Places],
               \A r \in Runs : HandOK(hand[r], pc[r])
        PROVE  TypeInv
    <2>1. \A r \in Runs : (hand[r].todo = <<>>) = (pc[r] \notin {"save", "newline"})
      BY <1>4, Zenon DEF HandOK
    <2>2. TypeOK
      BY <1>4, <2>1 DEF TypeOK, OthersTyped, LinesTyped, Places
    <2> QED
      BY <1>4, <2>2 DEF TypeInv, OthersTyped, HandOK
  <1> QED
    BY <1>1, <1>2, <1>3, <1>4

(* A step that changes what one run holds and does.                          *)
LEMMA OneRunMoves ==
  ASSUME TypeInv, NEW r \in Runs, NEW h \in Hands, NEW p \in Places, HandOK(h, p),
         hand' = [hand EXCEPT ![r] = h], pc' = [pc EXCEPT ![r] = p], OthersTyped'
  PROVE  /\ TypeInv' /\ hand'[r] = h /\ pc'[r] = p
         /\ \A q \in Runs \ {r} : hand'[q] = hand[q] /\ pc'[q] = pc[q]
  <1>1. hand \in [Runs -> Hands] /\ pc \in [Runs -> Places] /\ \A q \in Runs : HandOK(hand[q], pc[q])
    BY TypeParts
  <1>2. /\ hand' \in [Runs -> Hands] /\ pc' \in [Runs -> Places] /\ hand'[r] = h /\ pc'[r] = p
        /\ \A q \in Runs \ {r} : hand'[q] = hand[q] /\ pc'[q] = pc[q]
    BY <1>1
  <1>3. \A q \in Runs : HandOK(hand'[q], pc'[q])
    BY <1>1, <1>2
  <1>4. TypeInv'
    <2>1. \A q \in Runs : (hand'[q].todo = <<>>) = (pc'[q] \notin {"save", "newline"})
      BY <1>3, Zenon DEF HandOK
    <2>2. TypeOK'
      BY <1>2, <2>1 DEF TypeOK, OthersTyped, LinesTyped, Places
    <2> QED
      BY <1>3, <2>2 DEF TypeInv, OthersTyped, HandOK
  <1> QED
    BY <1>2, <1>4

LEMMA SetTodo ==
  ASSUME NEW h \in Hands, NEW t \in Seq(Entries)
  PROVE  /\ [h EXCEPT !.todo = t] \in Hands /\ [h EXCEPT !.todo = t].todo = t
         /\ [h EXCEPT !.todo = t].seen = h.seen
  BY DEF Hands

LEMMA AddTyped ==
  ASSUME TypeInv, NEW r \in Runs, AddMessage(r)
  PROVE  /\ TypeInv'
         /\ \A q \in Runs \ {r} : hand'[q] = hand[q] /\ pc'[q] = pc[q]
         /\ pc'[r] = "save" /\ hand'[r].seen = hand[r].seen
         /\ \E id \in unused :
               /\ hand'[r].todo = <<Entry(r, "message", id, now, {id})>>
               /\ unused' = unused \ {id}
  <1>1. PICK id \in NewUuids :
           /\ hand' = [hand EXCEPT ![r].todo = <<Entry(r, "message", id, now, {id})>>]
           /\ unused' = unused \ {id}
    BY DEF AddMessage
  <1>2. id \in unused /\ id \in Uuids /\ unused \in SUBSET Uuids
    BY NewUuidsUnused
  <1> DEFINE e == Entry(r, "message", id, now, {id})
             h == [hand[r] EXCEPT !.todo = <<e>>]
  <1>3. OthersTyped /\ hand[r] \in Hands /\ hand \in [Runs -> Hands]
    BY TypeParts
  <1>4. now \in Nat
    BY <1>3 DEF OthersTyped
  <1>5. e \in Entries
    BY <1>2, <1>4, NewEntryTyped
  <1>6. hand' = [hand EXCEPT ![r] = h] /\ pc' = [pc EXCEPT ![r] = "save"]
    BY <1>1 DEF AddMessage
  <1>7. OthersTyped'
    <2>1. spent' \in [messages : Nat, compress : Nat, faults : Nat, crashes : Nat]
      BY <1>3 DEF AddMessage, OthersTyped
    <2>2. unused' \subseteq Uuids
      BY <1>1, <1>2
    <2> QED
      BY <1>3, <2>1, <2>2 DEF AddMessage, OthersTyped, LinesTyped, fixed, metaVars, logVars
  <1> HIDE DEF e
  <1>8. h \in Hands /\ h.todo = <<e>> /\ h.todo # <<>> /\ h.seen = hand[r].seen
    <2>1. <<e>> \in Seq(Entries) /\ <<e>> # <<>>
      BY <1>5
    <2> QED
      BY <1>3, <2>1, SetTodo
  <1> HIDE DEF h
  <1>9. HandOK(h, "save") /\ "save" \in Places
    BY <1>8 DEF HandOK, Places
  <1>10. TypeInv' /\ hand'[r] = h /\ pc'[r] = "save"
         /\ \A q \in Runs \ {r} : hand'[q] = hand[q] /\ pc'[q] = pc[q]
    BY <1>6, <1>7, <1>8, <1>9, OneRunMoves
  <1> QED
    BY <1>1, <1>2, <1>8, <1>10 DEF e

LEMMA SealTyped ==
  ASSUME TypeInv, NEW r \in Runs, CompressSeal(r)
  PROVE  /\ TypeInv'
         /\ \A q \in Runs \ {r} : hand'[q] = hand[q] /\ pc'[q] = pc[q]
         /\ pc'[r] = "save" /\ hand'[r].seen = hand[r].seen
         /\ \E id \in unused :
               /\ hand'[r].todo = CompressedEntries(r, id, compress(hand[r].seen))
               /\ unused' = unused \ {id}
  <1>1. PICK id \in NewUuids :
           /\ hand' = [hand EXCEPT ![r].todo = CompressedEntries(r, id, compress(hand[r].seen))]
           /\ unused' = unused \ {id}
    BY DEF CompressSeal
  <1>2. id \in unused /\ id \in Uuids /\ unused \in SUBSET Uuids
    BY NewUuidsUnused
  <1> DEFINE kept == compress(hand[r].seen)
             t == CompressedEntries(r, id, kept)
             h == [hand[r] EXCEPT !.todo = t]
  <1>3. OthersTyped /\ hand[r] \in Hands /\ hand \in [Runs -> Hands]
    BY TypeParts
  <1>4. hand[r].seen \in Seq(Entries) /\ hand[r].seen # <<>>
    BY HandTyped DEF TypeInv, CompressSeal
  <1>5. kept \in Seq(Entries)
    BY <1>4, CompressFacts
  <1> HIDE DEF kept
  <1>6. t \in Seq(Entries) /\ Len(t) = Len(kept) + 2 /\ Len(kept) \in Nat
    <2>1. Compressed(t, r, id, kept)
      BY <1>2, <1>5, CompressedFacts
    <2> QED
      BY <1>5, <2>1 DEF Compressed
  <1>7. hand' = [hand EXCEPT ![r] = h] /\ pc' = [pc EXCEPT ![r] = "save"]
    BY <1>1 DEF CompressSeal, kept
  <1>8. OthersTyped'
    BY <1>1, <1>2, <1>3 DEF CompressSeal, OthersTyped, LinesTyped, fixed, metaVars, logVars
  <1> HIDE DEF t
  <1>9. h \in Hands /\ h.todo = t /\ h.todo # <<>> /\ h.seen = hand[r].seen
    <2>1. t # <<>>
      BY <1>6
    <2> QED
      BY <1>3, <1>6, <2>1, SetTodo
  <1> HIDE DEF h
  <1>10. HandOK(h, "save") /\ "save" \in Places
    BY <1>9 DEF HandOK, Places
  <1>11. TypeInv' /\ hand'[r] = h /\ pc'[r] = "save"
         /\ \A q \in Runs \ {r} : hand'[q] = hand[q] /\ pc'[q] = pc[q]
    BY <1>7, <1>8, <1>9, <1>10, OneRunMoves
  <1> QED
    BY <1>1, <1>2, <1>9, <1>11 DEF t, kept

(* What a run has to save when it seals a compression.                       *)
LEMMA SealFacts ==
  ASSUME TypeInv, NEW r \in Runs, CompressSeal(r)
  PROVE  \E id \in unused : \E kept \in Seq(Entries) :
            /\ Compressed(hand'[r].todo, r, id, kept) /\ kept # <<>>
            /\ \A k \in DOMAIN kept : \E i \in DOMAIN hand[r].seen : kept[k] = hand[r].seen[i]
            /\ Distinct(hand[r].seen) => Distinct(kept)
            /\ unused' = unused \ {id}
  <1> DEFINE kept == compress(hand[r].seen)
  <1>1. PICK id \in unused : /\ hand'[r].todo = CompressedEntries(r, id, kept)
                             /\ unused' = unused \ {id}
    BY SealTyped
  <1>2. hand[r].seen \in Seq(Entries) /\ hand[r].seen # <<>> /\ id \in Uuids
    BY HandTyped DEF CompressSeal, TypeInv, TypeOK
  <1>3. /\ kept \in Seq(Entries) /\ kept # <<>>
        /\ \A k \in DOMAIN kept : \E i \in DOMAIN hand[r].seen : kept[k] = hand[r].seen[i]
        /\ Distinct(hand[r].seen) => Distinct(kept)
    BY <1>2, CompressFacts
  <1> HIDE DEF kept
  <1>4. Compressed(hand'[r].todo, r, id, kept)
    BY <1>1, <1>2, <1>3, CompressedFacts
  <1> QED
    BY <1>1, <1>3, <1>4

LEMMA HeadFacts ==
  ASSUME TypeInv, NEW r \in Runs, pc[r] \in {"save", "newline"}
  PROVE  /\ hand[r].todo # <<>> /\ 1 \in DOMAIN hand[r].todo
         /\ Head(hand[r].todo) = hand[r].todo[1] /\ hand[r].todo[1] \in Entries
  <1>1. hand[r].todo \in Seq(Entries)
    BY HandTyped
  <1>2. hand[r].todo # <<>>
    BY DEF TypeInv, TypeOK
  <1> QED
    BY <1>1, <1>2

(* The step after a save, whatever it did to the log.                        *)
LEMMA ProceedTyped ==
  ASSUME TypeInv, NEW r \in Runs, pc[r] \in {"save", "newline"},
         NEW rest \in {Tail(hand[r].todo), <<>>}, Proceed(r, rest),
         mutex' \in Runs \union {None} => OthersTyped'
  PROVE  TypeInv'
  <1> DEFINE h == IF rest = <<>> THEN Idle ELSE [hand[r] EXCEPT !.todo = rest]
             p == IF rest = <<>> THEN "idle" ELSE "save"
  <1>1. hand[r].todo \in Seq(Entries) /\ hand[r].todo # <<>> /\ hand[r] \in Hands
    BY HandTyped, HeadFacts
  <1>2. rest \in Seq(Entries)
    <2>1. <<>> \in Seq(Entries)
      OBVIOUS
    <2> QED
      BY <1>1, <2>1, HeadTailProperties
  <1>3. mutex' \in Runs \union {None}
    BY DEF TypeInv, TypeOK, Proceed
  <1>4. CASE rest = <<>>
    <2>1. h = Idle /\ p = "idle" /\ h \in Hands /\ h.todo = <<>>
      BY <1>4, IdleTyped DEF Idle
    <2>2. HandOK(h, p) /\ p \in Places
      BY <2>1 DEF HandOK, Places
    <2> QED
      BY <1>3, <2>1, <2>2, OneRunMoves DEF Proceed
  <1>5. CASE rest # <<>>
    <2>1. h = [hand[r] EXCEPT !.todo = rest] /\ p = "save"
      BY <1>5
    <2>2. h \in Hands /\ h.todo = rest
      BY <1>1, <1>2, <2>1, SetTodo
    <2>3. HandOK(h, p) /\ p \in Places
      BY <1>5, <2>1, <2>2 DEF HandOK, Places
    <2>4. hand' = [hand EXCEPT ![r] = h] /\ pc' = [pc EXCEPT ![r] = p]
      BY DEF Proceed
    <2> HIDE DEF h, p
    <2> QED
      BY <1>3, <2>2, <2>3, <2>4, OneRunMoves
  <1> QED
    BY <1>4, <1>5

LEMMA SaveTyped ==
  ASSUME TypeInv, NEW r \in Runs, Save(r)
  PROVE  /\ TypeInv' /\ Grows(hand[r].todo[1]) /\ Proceed(r, Tail(hand[r].todo))
         /\ pc[r] = "save"
  <1>1. pc[r] = "save" /\ Proceed(r, Tail(hand[r].todo))
    BY DEF Save
  <1>2. Head(hand[r].todo) = hand[r].todo[1] /\ hand[r].todo[1] \in Entries
    BY <1>1, HeadFacts
  <1>3. Grows(hand[r].todo[1])
    BY <1>2 DEF Save, Grows
  <1>4. OthersTyped
    BY TypeParts
  <1>5. LinesTyped' /\ Len(lines') = Len(lines) + 1 /\ Len(lines) \in Nat
    <2>1. LinesTyped
      BY <1>4 DEF OthersTyped
    <2>2. LinesTyped'
      BY <1>2, <1>3, <2>1, GrowTyped
    <2> QED
      BY <2>1, <2>2 DEF Save, LinesTyped
  <1>6. lines' # <<>>
    BY <1>5
  <1>7. mutex' \in Runs \union {None} => OthersTyped'
    BY <1>4, <1>5, <1>6 DEF OthersTyped, Save, fixed, metaVars
  <1>8. TypeInv'
    BY <1>1, <1>7, ProceedTyped
  <1> QED
    BY <1>1, <1>3, <1>8

LEMMA WriteTyped ==
  ASSUME TypeInv, NEW r \in Runs, WriteJson(r)
  PROVE  /\ TypeInv' /\ Grows(hand[r].todo[1]) /\ pc[r] = "save" /\ pc'[r] = "newline"
         /\ hand' = hand /\ \A q \in Runs \ {r} : pc'[q] = pc[q]
  <1>1. pc[r] = "save" /\ hand' = hand /\ pc' = [pc EXCEPT ![r] = "newline"]
    BY DEF WriteJson
  <1>2. Head(hand[r].todo) = hand[r].todo[1] /\ hand[r].todo[1] \in Entries /\ hand[r].todo # <<>>
    BY <1>1, HeadFacts
  <1>3. OthersTyped /\ hand[r] \in Hands /\ hand \in [Runs -> Hands]
    BY TypeParts
  <1>4. LinesTyped /\ (open => lines # <<>>)
    BY <1>3 DEF OthersTyped
  <1>5. Grows(hand[r].todo[1])
    BY <1>2, <1>4 DEF WriteJson, Grows
  <1>6. LinesTyped' /\ Len(lines) <= Len(lines') /\ Len(lines) \in Nat /\ Len(lines') \in Nat
        /\ (Len(lines') = Len(lines) + 1 \/ Len(lines) \in DOMAIN lines)
    BY <1>2, <1>4, <1>5, GrowTyped
  <1>7. lines' # <<>>
    <2>1. DOMAIN lines = 1..Len(lines)
      BY <1>4 DEF LinesTyped
    <2>2. Len(lines') # 0
      BY <1>6, <2>1
    <2> QED
      BY <2>2
  <1>8. OthersTyped'
    BY <1>3, <1>6, <1>7 DEF OthersTyped, WriteJson, fixed, metaVars
  <1>9. HandOK(hand[r], "newline") /\ "newline" \in Places
    BY <1>2, <1>3 DEF HandOK, Places
  <1>10. hand' = [hand EXCEPT ![r] = hand[r]]
    BY <1>1, <1>3
  <1>11. TypeInv' /\ pc'[r] = "newline" /\ \A q \in Runs \ {r} : pc'[q] = pc[q]
    BY <1>1, <1>3, <1>8, <1>9, <1>10, OneRunMoves
  <1> QED
    BY <1>1, <1>5, <1>11

LEMMA NewlineTyped ==
  ASSUME TypeInv, NEW r \in Runs, WriteNewline(r)
  PROVE  TypeInv' /\ Proceed(r, Tail(hand[r].todo)) /\ pc[r] = "newline"
  <1>1. OthersTyped
    BY TypeParts
  <1>2. mutex' \in Runs \union {None} => OthersTyped'
    BY <1>1 DEF OthersTyped, LinesTyped, WriteNewline, fixed, metaVars
  <1> QED
    BY <1>2, ProceedTyped DEF WriteNewline

LEMMA FailTyped ==
  ASSUME TypeInv, NEW r \in Runs, SaveFails(r)
  PROVE  /\ TypeInv' /\ Proceed(r, AfterFailure(r)) /\ pc[r] \in {"save", "newline"}
         /\ AfterFailure(r) \in {Tail(hand[r].todo), <<>>}
         /\ AfterFailure(r) # <<>> => hand[r].todo[1].kind = "message"
         /\ spent'.crashes = spent.crashes
  <1>1. OthersTyped
    BY TypeParts
  <1>2. /\ spent' \in [messages : Nat, compress : Nat, faults : Nat, crashes : Nat]
        /\ spent'.crashes = spent.crashes
    <2>1. spent \in [messages : Nat, compress : Nat, faults : Nat, crashes : Nat]
      BY <1>1 DEF OthersTyped
    <2>2. CASE UNCHANGED spent
      BY <2>1, <2>2
    <2>3. CASE Fault
      BY <2>1, <2>3 DEF Fault
    <2> QED
      BY <2>2, <2>3 DEF SaveFails
  <1>3. torn' \subseteq Nat
    <2>1. Len(lines) \in Nat
      BY <1>1 DEF OthersTyped, LinesTyped
    <2> QED
      BY <1>1, <2>1 DEF OthersTyped, SaveFails
  <1>4. mutex' \in Runs \union {None} => OthersTyped'
    <2>1. UNCHANGED <<store, inst, now, unused, meta, metaLock, raced, bound, lines, open>>
      BY DEF SaveFails, fixed, metaVars
    <2> QED
      BY <1>1, <1>2, <1>3, <2>1 DEF OthersTyped, LinesTyped
  <1>5. Proceed(r, AfterFailure(r)) /\ pc[r] \in {"save", "newline"}
    BY DEF SaveFails
  <1>6. Head(hand[r].todo) = hand[r].todo[1]
    BY <1>5, HeadFacts
  <1>7. /\ AfterFailure(r) \in {Tail(hand[r].todo), <<>>}
        /\ AfterFailure(r) # <<>> => hand[r].todo[1].kind = "message"
    BY <1>6 DEF AfterFailure
  <1>8. TypeInv'
    <2> DEFINE rest == AfterFailure(r)
    <2> HIDE DEF rest
    <2>1. rest \in {Tail(hand[r].todo), <<>>} /\ Proceed(r, rest)
      BY <1>7, <1>5 DEF rest
    <2> QED
      BY <1>4, <1>5, <2>1, ProceedTyped
  <1> QED
    BY <1>2, <1>7, <1>8, <1>5

LEMMA FindTyped ==
  ASSUME TypeInv, NEW r \in Runs, CompressFind(r)
  PROVE  /\ TypeInv' /\ spent'.crashes = spent.crashes
         /\ \A q \in Runs \ {r} : hand'[q] = hand[q] /\ pc'[q] = pc[q]
         /\ pc'[r] = "read" /\ hand'[r].cp = find_latest_checkpoint
         /\ hand'[r].todo = hand[r].todo /\ hand'[r].seen = hand[r].seen
  <1> DEFINE h == [hand[r] EXCEPT !.cp = find_latest_checkpoint]
  <1>1. OthersTyped /\ hand[r] \in Hands /\ hand \in [Runs -> Hands] /\ HandOK(hand[r], pc[r])
    BY TypeParts
  <1>2. find_latest_checkpoint \in Nat
    BY <1>1, LatestTyped DEF OthersTyped
  <1>3. /\ spent' \in [messages : Nat, compress : Nat, faults : Nat, crashes : Nat]
        /\ spent'.crashes = spent.crashes
    BY <1>1 DEF OthersTyped, CompressFind
  <1>4. OthersTyped'
    BY <1>1, <1>3 DEF OthersTyped, LinesTyped, CompressFind, fixed, metaVars, logVars
  <1>5. h \in Hands /\ h.todo = hand[r].todo /\ h.seen = hand[r].seen /\ h.cp = find_latest_checkpoint
    BY <1>1, <1>2 DEF Hands
  <1>6. hand' = [hand EXCEPT ![r] = h] /\ pc' = [pc EXCEPT ![r] = "read"] /\ pc[r] = "idle"
    BY DEF CompressFind
  <1> HIDE DEF h
  <1>7. HandOK(h, "read") /\ "read" \in Places
    BY <1>1, <1>5, <1>6 DEF HandOK, Places
  <1>8. TypeInv' /\ hand'[r] = h /\ pc'[r] = "read"
        /\ \A q \in Runs \ {r} : hand'[q] = hand[q] /\ pc'[q] = pc[q]
    BY <1>4, <1>5, <1>6, <1>7, OneRunMoves
  <1> QED
    BY <1>3, <1>5, <1>8

LEMMA ReadTyped ==
  ASSUME TypeInv, NEW r \in Runs, CompressRead(r)
  PROVE  /\ TypeInv' /\ pc[r] = "read"
         /\ \A q \in Runs \ {r} : hand'[q] = hand[q] /\ pc'[q] = pc[q]
         /\ hand'[r].todo = <<>>
         /\ \/ pc'[r] = "idle" /\ hand'[r] = Idle
            \/ /\ pc'[r] = "seal" /\ hand'[r].seen = MessagesAfter(hand[r].cp)
               /\ hand'[r].logged = Len(lines)
  <1> DEFINE s == MessagesAfter(hand[r].cp)
  <1>1. OthersTyped /\ hand[r] \in Hands /\ hand \in [Runs -> Hands] /\ HandOK(hand[r], pc[r])
    BY TypeParts
  <1>2. LinesTyped /\ Len(lines) \in Nat
    BY <1>1 DEF OthersTyped, LinesTyped
  <1>3. s \in Seq(Entries)
    <2>1. After(hand[r].cp) \in SUBSET Readable
      BY DEF After
    <2> QED
      BY <1>2, <2>1, InStoreOrderFacts DEF MessagesAfter
  <1>4. OthersTyped'
    BY <1>1 DEF OthersTyped, LinesTyped, CompressRead, fixed, metaVars, logVars
  <1>5. pc[r] = "read" /\ hand[r].todo = <<>>
    <2>1. pc[r] = "read"
      BY DEF CompressRead
    <2> QED
      BY <2>1 DEF TypeInv, TypeOK
  <1>6. CASE s = <<>>
    <2>1. hand' = [hand EXCEPT ![r] = Idle] /\ pc' = [pc EXCEPT ![r] = "idle"]
      BY <1>6 DEF CompressRead
    <2>2. HandOK(Idle, "idle") /\ "idle" \in Places /\ Idle \in Hands /\ Idle.todo = <<>>
      BY IdleTyped DEF HandOK, Places, Idle
    <2>3. TypeInv' /\ hand'[r] = Idle /\ pc'[r] = "idle"
          /\ \A q \in Runs \ {r} : hand'[q] = hand[q] /\ pc'[q] = pc[q]
      BY <1>4, <2>1, <2>2, OneRunMoves
    <2> QED
      BY <1>5, <2>2, <2>3
  <1>7. CASE s # <<>>
    <2> DEFINE h == [hand[r] EXCEPT !.seen = s, !.logged = Len(lines)]
    <2>1. hand' = [hand EXCEPT ![r] = h] /\ pc' = [pc EXCEPT ![r] = "seal"]
      BY <1>1, <1>7 DEF CompressRead
    <2> HIDE DEF s
    <2>2. h \in Hands /\ h.todo = hand[r].todo /\ h.seen = s /\ h.logged = Len(lines)
      BY <1>1, <1>2, <1>3 DEF Hands
    <2> HIDE DEF h
    <2>3. HandOK(h, "seal") /\ "seal" \in Places
      BY <1>5, <1>7, <2>2 DEF HandOK, Places
    <2>4. TypeInv' /\ hand'[r] = h /\ pc'[r] = "seal"
          /\ \A q \in Runs \ {r} : hand'[q] = hand[q] /\ pc'[q] = pc[q]
      BY <1>4, <2>1, <2>2, <2>3, OneRunMoves
    <2> QED
      BY <1>5, <2>2, <2>4 DEF s
  <1> QED
    BY <1>6, <1>7

LEMMA BindNowTyped ==
  ASSUME TypeInv, NEW r \in Runs, BindNow(r)
  PROVE  /\ TypeInv' /\ hand' = hand /\ pc[r] = "start" /\ pc'[r] = "idle"
         /\ \A q \in Runs \ {r} : pc'[q] = pc[q]
  <1>1. OthersTyped /\ hand[r] \in Hands /\ hand \in [Runs -> Hands] /\ HandOK(hand[r], pc[r])
    BY TypeParts
  <1>2. OthersTyped'
    BY <1>1 DEF OthersTyped, LinesTyped, BindNow, fixed, logVars
  <1>3. pc[r] = "start" /\ pc' = [pc EXCEPT ![r] = "idle"] /\ hand' = hand
    BY DEF BindNow
  <1>4. HandOK(hand[r], "idle") /\ "idle" \in Places
    BY <1>1, <1>3 DEF HandOK, Places
  <1>5. hand' = [hand EXCEPT ![r] = hand[r]]
    BY <1>1, <1>3
  <1> QED
    BY <1>1, <1>2, <1>3, <1>4, <1>5, OneRunMoves

LEMMA BindReadTyped ==
  ASSUME TypeInv, NEW r \in Runs, BindRead(r)
  PROVE  /\ TypeInv' /\ pc[r] = "start" /\ pc'[r] = "bind"
         /\ \A q \in Runs \ {r} : hand'[q] = hand[q] /\ pc'[q] = pc[q]
         /\ hand'[r].todo = <<>> /\ hand'[r].seen = <<>> /\ hand'[r].meta = meta
  <1> DEFINE h == [hand[r] EXCEPT !.meta = meta]
  <1>1. OthersTyped /\ hand[r] \in Hands /\ hand \in [Runs -> Hands] /\ HandOK(hand[r], pc[r])
    BY TypeParts
  <1>2. /\ pc[r] = "start" /\ pc' = [pc EXCEPT ![r] = "bind"]
        /\ hand' = [hand EXCEPT ![r] = h]
    BY DEF BindRead
  <1>3. OthersTyped'
    <2>1. metaLock' \in [Instances -> Runs \union {None}]
      BY <1>1 DEF OthersTyped, BindRead
    <2> QED
      BY <1>1, <2>1 DEF OthersTyped, LinesTyped, BindRead, fixed, logVars
  <1>4. hand[r] = Idle /\ hand[r].todo = <<>> /\ hand[r].seen = <<>>
    BY <1>1, <1>2 DEF HandOK, Idle
  <1>5. h \in Hands /\ h.todo = hand[r].todo /\ h.seen = hand[r].seen /\ h.meta = meta
    <2>1. meta \in SUBSET Runs
      BY <1>1 DEF OthersTyped
    <2> QED
      BY <1>1, <2>1 DEF Hands
  <1> HIDE DEF h
  <1>6. HandOK(h, "bind") /\ "bind" \in Places
    BY <1>4, <1>5 DEF HandOK, Places
  <1>7. TypeInv' /\ hand'[r] = h /\ pc'[r] = "bind"
        /\ \A q \in Runs \ {r} : hand'[q] = hand[q] /\ pc'[q] = pc[q]
    BY <1>2, <1>3, <1>5, <1>6, OneRunMoves
  <1> QED
    BY <1>2, <1>4, <1>5, <1>7

LEMMA BindWriteTyped ==
  ASSUME TypeInv, NEW r \in Runs, BindWrite(r)
  PROVE  /\ TypeInv' /\ pc[r] = "bind" /\ pc'[r] = "idle" /\ hand'[r] = Idle
         /\ \A q \in Runs \ {r} : hand'[q] = hand[q] /\ pc'[q] = pc[q]
  <1>1. OthersTyped /\ hand[r] \in Hands /\ hand \in [Runs -> Hands]
    BY TypeParts
  <1>2. /\ pc[r] = "bind" /\ pc' = [pc EXCEPT ![r] = "idle"]
        /\ hand' = [hand EXCEPT ![r] = Idle]
    BY DEF BindWrite
  <1>3. OthersTyped'
    <2>1. metaLock' \in [Instances -> Runs \union {None}]
      BY <1>1 DEF OthersTyped, BindWrite
    <2>2. hand[r].meta \in SUBSET Runs
      BY HandTyped
    <2>3. meta' \union bound' \subseteq Runs
      BY <1>1, <2>2 DEF OthersTyped, BindWrite
    <2> QED
      BY <1>1, <2>1, <2>3 DEF OthersTyped, LinesTyped, BindWrite, fixed, logVars
  <1>4. HandOK(Idle, "idle") /\ "idle" \in Places /\ Idle \in Hands
    BY IdleTyped DEF HandOK, Places, Idle
  <1> QED
    BY <1>2, <1>3, <1>4, OneRunMoves

LEMMA CrashTyped ==
  ASSUME TypeInv, Crash
  PROVE  /\ TypeInv' /\ \A r \in Runs : pc'[r] = "idle" /\ hand'[r] = Idle
         /\ spent'.crashes = spent.crashes + 1
  <1>1. OthersTyped
    BY TypeParts
  <1>2. /\ spent' \in [messages : Nat, compress : Nat, faults : Nat, crashes : Nat]
        /\ spent'.crashes = spent.crashes + 1
    <2>1. spent \in [messages : Nat, compress : Nat, faults : Nat, crashes : Nat]
      BY <1>1 DEF OthersTyped
    <2>2. spent' = [messages |-> spent.messages, compress |-> spent.compress,
                    faults |-> spent.faults + 1, crashes |-> spent.crashes + 1]
      BY <2>1 DEF Crash
    <2>3. /\ spent.messages \in Nat /\ spent.compress \in Nat
          /\ spent.faults + 1 \in Nat /\ spent.crashes + 1 \in Nat
      BY <2>1
    <2> QED
      BY <2>2, <2>3
  <1>3. OthersTyped'
    BY <1>1, <1>2 DEF OthersTyped, LinesTyped, Crash, fixed, logVars
  <1>4. hand' \in [Runs -> Hands] /\ pc' \in [Runs -> Places]
    BY IdleTyped DEF Crash, Places
  <1>5. \A r \in Runs : pc'[r] = "idle" /\ hand'[r] = Idle
    BY DEF Crash
  <1>6. TypeOK'
    <2>1. \A r \in Runs : (hand'[r].todo = <<>>) = (pc'[r] \notin {"save", "newline"})
      BY <1>5 DEF Idle
    <2> QED
      BY <1>3, <1>4, <2>1 DEF TypeOK, OthersTyped, LinesTyped, Places
  <1> QED
    BY <1>2, <1>3, <1>5, <1>6 DEF TypeInv, OthersTyped

LEMMA TypeInit == Init => TypeInv
  <1> SUFFICES ASSUME Init PROVE TypeInv
    OBVIOUS
  <1>1. hand \in [Runs -> Hands]
    BY IdleTyped DEF Init
  <1>2. lines \in Seq(Seq(Entries) \ {<<>>})
    BY DEF Init
  <1>3. \A r \in Runs : hand[r] = Idle /\ pc[r] = "start"
    BY DEF Init
  <1>4. \A r \in Runs : (hand[r].todo = <<>>) = (pc[r] \notin {"save", "newline"})
    BY <1>3 DEF Idle
  <1>5. now \in 1..MaxTime
    BY DEF Init
  <1>6. TypeOK
    BY <1>1, <1>2, <1>4, <1>5 DEF Init, TypeOK
  <1> QED
    BY <1>3, <1>6 DEF Init, TypeInv

LEMMA TypeStep == TypeInv /\ [Next]_vars => TypeInv'
  <1> SUFFICES ASSUME TypeInv, [Next]_vars
               PROVE  TypeInv'
    OBVIOUS
  <1>1. CASE Tick
    BY <1>1 DEF Tick, TypeInv, TypeOK, fixed, metaVars, logVars
  <1>2. CASE Crash
    BY <1>2, CrashTyped
  <1>3. ASSUME NEW r \in Runs, RunStep(r)
        PROVE  TypeInv'
    BY <1>3, AddTyped, SaveTyped, WriteTyped, NewlineTyped, FailTyped, FindTyped, ReadTyped,
       SealTyped, BindNowTyped, BindReadTyped, BindWriteTyped DEF RunStep
  <1>4. CASE UNCHANGED vars
    BY <1>4 DEF vars, TypeInv, TypeOK
  <1> QED
    BY <1>1, <1>2, <1>3, <1>4 DEF Next

-----------------------------------------------------------------------------
(* What a step does to the log and to the hands of the runs.                 *)

LEMMA LogView ==
  ASSUME TypeInv, [Next]_vars
  PROVE  \/ lines' = lines
         \/ \E r \in Runs : pc[r] = "save" /\ Grows(hand[r].todo[1])
  <1>1. CASE Tick
    BY <1>1 DEF Tick, logVars
  <1>2. CASE Crash
    BY <1>2 DEF Crash, logVars
  <1>3. ASSUME NEW r \in Runs, RunStep(r)
        PROVE  lines' = lines \/ (pc[r] = "save" /\ Grows(hand[r].todo[1]))
    <2>1. CASE Save(r) \/ WriteJson(r)
      BY <2>1, SaveTyped, WriteTyped
    <2>2. CASE AddMessage(r) \/ CompressFind(r) \/ CompressRead(r) \/ CompressSeal(r)
      BY <2>2 DEF AddMessage, CompressFind, CompressRead, CompressSeal, logVars
    <2>3. CASE WriteNewline(r) \/ SaveFails(r)
      BY <2>3 DEF WriteNewline, SaveFails, logVars
    <2>4. CASE BindNow(r) \/ BindRead(r) \/ BindWrite(r)
      BY <2>4 DEF BindNow, BindRead, BindWrite, logVars
    <2> QED
      BY <1>3, <2>1, <2>2, <2>3, <2>4 DEF RunStep
  <1>4. CASE UNCHANGED vars
    BY <1>4 DEF vars
  <1> QED
    BY <1>1, <1>2, <1>3, <1>4 DEF Next

(* What a run has in hand it had before, but for a new message, what it has  *)
(* read and what it seals.                                                   *)
HandView(q) ==
    /\ \/ AddMessage(q) \/ CompressSeal(q)
       \/ \A k \in DOMAIN hand'[q].todo : \E l \in DOMAIN hand[q].todo :
             hand'[q].todo[k] = hand[q].todo[l]
    /\ \/ CompressRead(q)
       \/ \A k \in DOMAIN hand'[q].seen : \E l \in DOMAIN hand[q].seen :
             hand'[q].seen[k] = hand[q].seen[l]
    /\ pc'[q] = "read" => CompressFind(q) \/ (pc[q] = "read" /\ hand'[q] = hand[q])
    /\ pc'[q] = "seal" => CompressRead(q) \/ (pc[q] = "seal" /\ hand'[q] = hand[q])

LEMMA IdleView ==
  ASSUME NEW q, hand'[q] = Idle, pc'[q] = "idle"
  PROVE  HandView(q)
  <1>1. DOMAIN hand'[q].todo = {} /\ DOMAIN hand'[q].seen = {}
    BY DEF Idle
  <1> QED
    BY <1>1 DEF HandView

LEMMA SameView ==
  ASSUME NEW q, hand'[q] = hand[q], pc'[q] = pc[q]
  PROVE  HandView(q)
  BY DEF HandView

LEMMA ProceedView ==
  ASSUME TypeInv, NEW r \in Runs, pc[r] \in {"save", "newline"},
         NEW rest \in {Tail(hand[r].todo), <<>>}, Proceed(r, rest)
  PROVE  HandView(r)
  <1>1. CASE rest = <<>>
    <2>1. hand'[r] = Idle /\ pc'[r] = "idle"
      BY <1>1, ProceedFacts
    <2> QED
      BY <2>1, IdleView
  <1>2. CASE rest # <<>>
    <2>1. pc'[r] = "save" /\ hand'[r].seen = hand[r].seen
      BY <1>2, ProceedFacts
    <2>2. \A k \in DOMAIN hand'[r].todo :
             k + 1 \in DOMAIN hand[r].todo /\ hand'[r].todo[k] = hand[r].todo[k + 1]
      BY ProceedFacts
    <2>3. \A k \in DOMAIN hand'[r].todo : \E l \in DOMAIN hand[r].todo :
             hand'[r].todo[k] = hand[r].todo[l]
      BY <2>2
    <2> QED
      BY <2>1, <2>3 DEF HandView
  <1> QED
    BY <1>1, <1>2

LEMMA HandsView ==
  ASSUME TypeInv, [Next]_vars, NEW q \in Runs
  PROVE  HandView(q)
  <1>1. CASE Tick
    BY <1>1, SameView DEF Tick
  <1>2. CASE Crash
    BY <1>2, CrashTyped, IdleView
  <1>3. ASSUME NEW r \in Runs, RunStep(r)
        PROVE  HandView(q)
    <2>1. CASE AddMessage(r) \/ CompressSeal(r)
      <3>1. CASE q = r
        <4>1. pc'[r] = "save" /\ hand'[r].seen = hand[r].seen
          BY <2>1, AddTyped, SealTyped
        <4> QED
          BY <2>1, <3>1, <4>1 DEF HandView
      <3>2. CASE q # r
        BY <2>1, <3>2, AddTyped, SealTyped, SameView
      <3> QED
        BY <3>1, <3>2
    <2>2. CASE Save(r) \/ WriteNewline(r) \/ SaveFails(r)
      <3>1. PICK rest \in {Tail(hand[r].todo), <<>>} : Proceed(r, rest)
        BY <2>2, SaveTyped, NewlineTyped, FailTyped
      <3>2. pc[r] \in {"save", "newline"}
        BY <2>2, SaveTyped, NewlineTyped, FailTyped
      <3>3. CASE q = r
        BY <3>1, <3>2, <3>3, ProceedView
      <3>4. CASE q # r
        <4>1. hand'[q] = hand[q] /\ pc'[q] = pc[q]
          BY <3>1, <3>2, <3>4, ProceedFacts
        <4> QED
          BY <4>1, SameView
      <3> QED
        BY <3>3, <3>4
    <2>3. CASE WriteJson(r)
      <3>1. hand' = hand /\ pc'[r] = "newline" /\ \A p \in Runs \ {r} : pc'[p] = pc[p]
        BY <2>3, WriteTyped
      <3> QED
        BY <3>1 DEF HandView
    <2>4. CASE CompressFind(r)
      <3>1. /\ \A p \in Runs \ {r} : hand'[p] = hand[p] /\ pc'[p] = pc[p]
            /\ pc'[r] = "read" /\ hand'[r].todo = hand[r].todo /\ hand'[r].seen = hand[r].seen
        BY <2>4, FindTyped
      <3> QED
        BY <2>4, <3>1, SameView DEF HandView
    <2>5. CASE CompressRead(r)
      <3>1. /\ \A p \in Runs \ {r} : hand'[p] = hand[p] /\ pc'[p] = pc[p]
            /\ hand'[r].todo = <<>> /\ pc'[r] \in {"idle", "seal"}
        BY <2>5, ReadTyped
      <3>2. DOMAIN hand'[r].todo = {}
        BY <3>1
      <3>3. HandView(r)
        BY <2>5, <3>1, <3>2 DEF HandView
      <3>4. CASE q # r
        BY <3>1, <3>4, SameView
      <3> QED
        BY <3>3, <3>4
    <2>6. CASE BindNow(r)
      <3>1. hand' = hand /\ pc'[r] = "idle" /\ \A p \in Runs \ {r} : pc'[p] = pc[p]
        BY <2>6, BindNowTyped
      <3> QED
        BY <3>1 DEF HandView
    <2>7. CASE BindRead(r)
      <3>1. /\ \A p \in Runs \ {r} : hand'[p] = hand[p] /\ pc'[p] = pc[p]
            /\ hand'[r].todo = <<>> /\ hand'[r].seen = <<>> /\ pc'[r] = "bind"
        BY <2>7, BindReadTyped
      <3>2. DOMAIN hand'[r].todo = {} /\ DOMAIN hand'[r].seen = {}
        BY <3>1
      <3>3. HandView(r)
        BY <3>1, <3>2 DEF HandView
      <3> QED
        BY <3>1, <3>3, SameView
    <2>8. CASE BindWrite(r)
      <3>1. /\ \A p \in Runs \ {r} : hand'[p] = hand[p] /\ pc'[p] = pc[p]
            /\ hand'[r] = Idle /\ pc'[r] = "idle"
        BY <2>8, BindWriteTyped
      <3> QED
        BY <3>1, IdleView, SameView
    <2> QED
      BY <1>3, <2>1, <2>2, <2>3, <2>4, <2>5, <2>6, <2>7, <2>8 DEF RunStep
  <1>4. CASE UNCHANGED vars
    BY <1>4, SameView DEF vars
  <1> QED
    BY <1>1, <1>2, <1>3, <1>4 DEF Next

-----------------------------------------------------------------------------
(* The contributor's mutex: a run reads the log for a compression and saves  *)
(* the entries of one only while it holds the mutex; a run that saves        *)
(* without it adds one message.                                              *)

MutexOK(r) ==
    LET todo == hand[r].todo
    IN  /\ pc[r] = "read" => mutex = r
        /\ mutex = r => pc[r] \in {"read", "save", "newline"}
        /\ (pc[r] \in {"save", "newline"} /\ mutex # r) =>
              Len(todo) = 1 /\ todo[1].kind = "message"
        /\ \A k \in DOMAIN todo : Cp(todo[k]) => k = 1 /\ mutex = r

MutexInv == \A r \in Runs : MutexOK(r)

LEMMA IdleMutex ==
  ASSUME NEW q, hand'[q].todo = <<>>, pc'[q] \notin {"read", "save", "newline"}, mutex' # q
  PROVE  MutexOK(q)'
  <1>1. DOMAIN hand'[q].todo = {}
    OBVIOUS
  <1> QED
    BY <1>1 DEF MutexOK

LEMMA SameMutex ==
  ASSUME NEW q, MutexOK(q), hand'[q] = hand[q], pc'[q] = pc[q], mutex' = q <=> mutex = q
  PROVE  MutexOK(q)'
  BY DEF MutexOK

LEMMA MutexStep == TypeInv /\ MutexInv /\ [Next]_vars => MutexInv'
  <1> SUFFICES ASSUME TypeInv, MutexInv, [Next]_vars, NEW q \in Runs
               PROVE  MutexOK(q)'
    BY DEF MutexInv
  <1>0. MutexOK(q) /\ None # q /\ mutex \in Runs \union {None} /\ TypeInv'
    BY TypeStep DEF MutexInv, TypeInv, TypeOK
  <1>1. CASE Tick
    BY <1>0, <1>1, SameMutex DEF Tick
  <1>2. CASE Crash
    <2>1. hand'[q].todo = <<>> /\ pc'[q] = "idle" /\ mutex' = None
      BY <1>2, CrashTyped DEF Crash, Idle
    <2> QED
      BY <1>0, <2>1, IdleMutex
  <1>3. ASSUME NEW r \in Runs, RunStep(r)
        PROVE  MutexOK(q)'
    <2>0. MutexOK(r)
      BY DEF MutexInv
    <2>1. CASE AddMessage(r)
      <3>1. mutex' = mutex /\ pc[r] = "idle"
        BY <2>1 DEF AddMessage
      <3>2. CASE q = r
        <4>1. mutex # r
          BY <2>0, <3>1 DEF MutexOK
        <4>2. PICK id \in unused : hand'[r].todo = <<Entry(r, "message", id, now, {id})>>
          BY <2>1, AddTyped
        <4>3. Entry(r, "message", id, now, {id}).kind = "message"
          BY DEF Entry
        <4>4. Len(hand'[r].todo) = 1 /\ DOMAIN hand'[r].todo = {1} /\ hand'[r].todo[1].kind = "message"
          BY <4>2, <4>3
        <4>5. pc'[r] = "save"
          BY <2>1, AddTyped
        <4> QED
          BY <3>1, <3>2, <4>1, <4>4, <4>5 DEF MutexOK, Cp
      <3>3. CASE q # r
        BY <1>0, <2>1, <3>1, <3>3, AddTyped, SameMutex
      <3> QED
        BY <3>2, <3>3
    <2>2. CASE Save(r) \/ WriteNewline(r) \/ SaveFails(r)
      <3>1. PICK rest \in {Tail(hand[r].todo), <<>>} : Proceed(r, rest)
        BY <2>2, SaveTyped, NewlineTyped, FailTyped
      <3>2. pc[r] \in {"save", "newline"}
        BY <2>2, SaveTyped, NewlineTyped, FailTyped
      <3>3. CASE q = r /\ rest = <<>>
        <4>1. hand'[r].todo = <<>> /\ pc'[r] = "idle" /\ mutex' # r
          BY <3>1, <3>2, <3>3, ProceedFacts DEF Idle
        <4> QED
          BY <3>3, <4>1, IdleMutex
      <3>4. CASE q = r /\ rest # <<>>
        <4>0. /\ \/ rest = <<>>
                 \/ rest = Tail(hand[r].todo) /\ hand'[r].todo = rest /\ pc'[r] = "save" /\ mutex' = mutex
              /\ DOMAIN hand'[r].todo = 1..Len(hand'[r].todo) /\ Len(hand'[r].todo) \in Nat
          BY <3>1, <3>2, ProceedFacts, ZenonT(60)
        <4>5. \A k \in DOMAIN hand'[r].todo :
                 k + 1 \in DOMAIN hand[r].todo /\ hand'[r].todo[k] = hand[r].todo[k + 1]
          BY <3>1, <3>2, ProceedFacts, ZenonT(60)
        <4>1. /\ rest = Tail(hand[r].todo) /\ hand'[r].todo = rest /\ pc'[r] = "save" /\ mutex' = mutex
              /\ DOMAIN hand'[r].todo = 1..Len(hand'[r].todo) /\ Len(hand'[r].todo) \in Nat
              /\ \A k \in DOMAIN hand'[r].todo :
                    k + 1 \in DOMAIN hand[r].todo /\ hand'[r].todo[k] = hand[r].todo[k + 1]
          BY <3>4, <4>0, <4>5, ZenonT(60)
        <4>2. mutex = r
          <5>1. SUFFICES ASSUME Len(hand[r].todo) = 1 PROVE FALSE
            BY <2>0, <3>2 DEF MutexOK
          <5>2. hand[r].todo \in Seq(Entries) /\ hand[r].todo # <<>>
            BY <3>2, HandTyped, HeadFacts
          <5>3. Tail(hand[r].todo) \in Seq(Entries) /\ Len(Tail(hand[r].todo)) = 0
            BY <5>1, <5>2, HeadTailProperties
          <5> QED
            BY <3>4, <4>1, <5>3
        <4>3. ASSUME NEW k \in DOMAIN hand'[r].todo, Cp(hand'[r].todo[k])
              PROVE  FALSE
          <5>1. k + 1 \in DOMAIN hand[r].todo /\ Cp(hand[r].todo[k + 1])
            BY <4>1, <4>3
          <5>2. k + 1 = 1
            BY <2>0, <5>1 DEF MutexOK
          <5> QED
            BY <4>1, <5>2
        <4> QED
          BY <3>4, <4>1, <4>2, <4>3 DEF MutexOK
      <3>5. CASE q # r
        <4>1. hand'[q] = hand[q] /\ pc'[q] = pc[q] /\ (mutex' = q <=> mutex = q)
          BY <3>1, <3>2, <3>5, ProceedFacts
        <4> QED
          BY <1>0, <4>1, SameMutex
      <3> QED
        BY <3>3, <3>4, <3>5
    <2>3. CASE WriteJson(r)
      <3>1. hand' = hand /\ pc[r] = "save" /\ pc'[r] = "newline" /\ \A p \in Runs \ {r} : pc'[p] = pc[p]
        BY <2>3, WriteTyped
      <3>2. mutex' = mutex
        BY <2>3 DEF WriteJson
      <3> QED
        BY <1>0, <3>1, <3>2 DEF MutexOK
    <2>4. CASE CompressFind(r)
      <3>1. /\ \A p \in Runs \ {r} : hand'[p] = hand[p] /\ pc'[p] = pc[p]
            /\ pc'[r] = "read" /\ hand'[r].todo = hand[r].todo
        BY <2>4, FindTyped
      <3>2. mutex = None /\ mutex' = r /\ pc[r] = "idle" /\ hand[r].todo = <<>>
        BY <2>4 DEF CompressFind, TypeInv, Idle
      <3>3. CASE q = r
        <4>1. DOMAIN hand'[r].todo = {}
          BY <3>1, <3>2
        <4> QED
          BY <3>1, <3>2, <3>3, <4>1 DEF MutexOK
      <3>4. CASE q # r
        BY <1>0, <3>1, <3>2, <3>4, SameMutex
      <3> QED
        BY <3>3, <3>4
    <2>5. CASE CompressRead(r)
      <3>1. /\ \A p \in Runs \ {r} : hand'[p] = hand[p] /\ pc'[p] = pc[p]
            /\ hand'[r].todo = <<>> /\ pc'[r] \in {"idle", "seal"} /\ pc[r] = "read"
        BY <2>5, ReadTyped
      <3>2. mutex = r /\ mutex' = None
        BY <2>0, <2>5, <3>1 DEF CompressRead, MutexOK
      <3>3. CASE q = r
        BY <1>0, <3>1, <3>2, <3>3, IdleMutex
      <3>4. CASE q # r
        BY <1>0, <3>1, <3>2, <3>4, SameMutex
      <3> QED
        BY <3>3, <3>4
    <2>6. CASE CompressSeal(r)
      <3>1. /\ \A p \in Runs \ {r} : hand'[p] = hand[p] /\ pc'[p] = pc[p]
            /\ pc'[r] = "save"
        BY <2>6, SealTyped
      <3>2. mutex = None /\ mutex' = r /\ pc[r] = "seal"
        BY <2>6 DEF CompressSeal
      <3>3. CASE q = r
        <4>1. PICK id \in unused : \E kept \in Seq(Entries) : Compressed(hand'[r].todo, r, id, kept)
          BY <2>6, SealFacts
        <4>2. PICK kept \in Seq(Entries) : Compressed(hand'[r].todo, r, id, kept)
          BY <4>1
        <4>6. \A k \in DOMAIN hand'[r].todo : Cp(hand'[r].todo[k]) => k = 1
          BY <4>2 DEF Cp, Compressed
        <4> QED
          BY <3>1, <3>2, <3>3, <4>6 DEF MutexOK
      <3>4. CASE q # r
        BY <1>0, <3>1, <3>2, <3>4, SameMutex
      <3> QED
        BY <3>3, <3>4
    <2>7. CASE BindNow(r)
      <3>1. hand' = hand /\ pc[r] = "start" /\ pc'[r] = "idle" /\ \A p \in Runs \ {r} : pc'[p] = pc[p]
        BY <2>7, BindNowTyped
      <3>2. mutex' = mutex
        BY <2>7 DEF BindNow
      <3> QED
        BY <1>0, <2>0, <3>1, <3>2 DEF MutexOK
    <2>8. CASE BindRead(r) \/ BindWrite(r)
      <3>1. /\ \A p \in Runs \ {r} : hand'[p] = hand[p] /\ pc'[p] = pc[p]
            /\ hand'[r].todo = <<>> /\ pc[r] \in {"start", "bind"} /\ pc'[r] \in {"bind", "idle"}
        BY <2>8, BindReadTyped, BindWriteTyped DEF Idle
      <3>2. mutex' = mutex
        BY <2>8 DEF BindRead, BindWrite
      <3>3. mutex # r
        BY <2>0, <3>1 DEF MutexOK
      <3>4. CASE q = r
        BY <3>1, <3>2, <3>3, <3>4, IdleMutex
      <3>5. CASE q # r
        BY <1>0, <3>1, <3>2, <3>5, SameMutex
      <3> QED
        BY <3>4, <3>5
    <2> QED
      BY <1>3, <2>1, <2>2, <2>3, <2>4, <2>5, <2>6, <2>7, <2>8 DEF RunStep
  <1>4. CASE UNCHANGED vars
    BY <1>0, <1>4, SameMutex DEF vars
  <1> QED
    BY <1>1, <1>2, <1>3, <1>4 DEF Next

LEMMA MutexInit == Init => MutexInv
  <1> SUFFICES ASSUME Init, NEW r \in Runs PROVE MutexOK(r)
    BY DEF MutexInv
  <1>1. pc[r] = "start" /\ hand[r].todo = <<>> /\ mutex = None /\ mutex # r
    BY DEF Init, Idle
  <1>2. DOMAIN hand[r].todo = {}
    BY <1>1
  <1> QED
    BY <1>1, <1>2 DEF MutexOK

-----------------------------------------------------------------------------
(* Task bindings: a run that binds through the file store holds the lock of  *)
(* its instance, so until two bindings overlap what one has read is still    *)
(* the metadata, and they overlap only where no lock is common to them.      *)

MayRace == store = "database" \/ \E r, q \in Runs : store = "file" /\ inst[r] # inst[q]

Binding(r) == pc[r] = "bind"

BindInv ==
    /\ \A r \in Runs : Binding(r) =>
          /\ store \in {"file", "database"}
          /\ store = "file" => metaLock[inst[r]] = r
          /\ raced \/ hand[r].meta = meta
    /\ raced \/ \A r, q \in Runs : Binding(r) /\ Binding(q) => r = q
    /\ raced => MayRace
    /\ raced \/ bound \subseteq meta

LEMMA BindFrame ==
  ASSUME BindInv, UNCHANGED <<store, inst, meta, metaLock, raced, bound>>,
         \A q \in Runs : pc'[q] = "bind" => pc[q] = "bind" /\ hand'[q] = hand[q]
  PROVE  BindInv'
  <1>1. MayRace' = MayRace
    BY DEF MayRace
  <1>2. \A q \in Runs : Binding(q)' => Binding(q) /\ hand'[q] = hand[q]
    BY DEF Binding
  <1> QED
    BY <1>1, <1>2 DEF BindInv

LEMMA BindStep == TypeInv /\ BindInv /\ [Next]_vars => BindInv'
  <1> SUFFICES ASSUME TypeInv, BindInv, [Next]_vars
               PROVE  BindInv'
    OBVIOUS
  <1>1. CASE Tick
    BY <1>1, BindFrame DEF Tick, fixed, metaVars
  <1>2. CASE Crash
    <2>1. \A q \in Runs : ~Binding(q)'
      BY <1>2, CrashTyped DEF Binding
    <2>2. UNCHANGED <<store, inst, meta, raced, bound>>
      BY <1>2 DEF Crash, fixed
    <2> QED
      BY <2>1, <2>2 DEF BindInv, MayRace
  <1>3. ASSUME NEW r \in Runs, RunStep(r)
        PROVE  BindInv'
    <2>1. CASE AddMessage(r) \/ CompressFind(r) \/ CompressRead(r) \/ CompressSeal(r)
      <3>1. UNCHANGED <<store, inst, meta, metaLock, raced, bound>>
        BY <2>1 DEF AddMessage, CompressFind, CompressRead, CompressSeal, fixed, metaVars
      <3>2. pc'[r] # "bind" /\ \A q \in Runs \ {r} : hand'[q] = hand[q] /\ pc'[q] = pc[q]
        BY <2>1, AddTyped, FindTyped, ReadTyped, SealTyped
      <3> QED
        BY <3>1, <3>2, BindFrame
    <2>2. CASE Save(r) \/ WriteNewline(r) \/ SaveFails(r)
      <3>1. PICK rest \in {Tail(hand[r].todo), <<>>} : Proceed(r, rest)
        BY <2>2, SaveTyped, NewlineTyped, FailTyped
      <3>2. pc[r] \in {"save", "newline"}
        BY <2>2, SaveTyped, NewlineTyped, FailTyped
      <3>3. UNCHANGED <<store, inst, meta, metaLock, raced, bound>>
        BY <2>2 DEF Save, WriteNewline, SaveFails, fixed, metaVars
      <3>4. pc'[r] # "bind" /\ \A q \in Runs \ {r} : hand'[q] = hand[q] /\ pc'[q] = pc[q]
        BY <3>1, <3>2, ProceedFacts
      <3> QED
        BY <3>3, <3>4, BindFrame
    <2>3. CASE WriteJson(r)
      <3>1. UNCHANGED <<store, inst, meta, metaLock, raced, bound>>
        BY <2>3 DEF WriteJson, fixed, metaVars
      <3> QED
        BY <2>3, <3>1, WriteTyped, BindFrame
    <2>4. CASE BindNow(r)
      <3>1. /\ hand' = hand /\ pc'[r] = "idle" /\ \A q \in Runs \ {r} : pc'[q] = pc[q]
        BY <2>4, BindNowTyped
      <3>2. /\ store = "memory" /\ UNCHANGED <<store, inst, raced>>
            /\ meta' = meta \union {r} /\ bound' = bound \union {r}
        BY <2>4 DEF BindNow, fixed
      <3>3. \A q \in Runs : ~Binding(q)'
        BY <3>1, <3>2 DEF BindInv, Binding
      <3>4. ~raced
        BY <3>2 DEF BindInv, MayRace
      <3> QED
        BY <3>2, <3>3, <3>4 DEF BindInv
    <2>5. CASE BindRead(r)
      <3>1. /\ \A q \in Runs \ {r} : hand'[q] = hand[q] /\ pc'[q] = pc[q]
            /\ pc'[r] = "bind" /\ hand'[r].meta = meta
        BY <2>5, BindReadTyped
      <3>2. /\ UNCHANGED <<store, inst, meta, bound>> /\ store \in {"file", "database"}
            /\ raced' = (raced \/ \E q \in Runs : Binding(q))
        BY <2>5 DEF BindRead, fixed, Binding
      <3>3. metaLock \in [Instances -> Runs \union {None}] /\ inst \in [Runs -> Instances]
        BY DEF TypeInv, TypeOK
      <3>4. store = "file" => metaLock[inst[r]] = None /\ metaLock' = [metaLock EXCEPT ![inst[r]] = r]
        BY <2>5 DEF BindRead, InstanceFree
      <3>5. \A q \in Runs : Binding(q)' => q = r \/ (Binding(q) /\ hand'[q] = hand[q])
        BY <3>1 DEF Binding
      <3>6. ASSUME NEW q \in Runs, Binding(q), store = "file"
            PROVE  metaLock[inst[q]] = q /\ inst[q] # inst[r]
        BY <3>4, <3>6, SessionConstants DEF BindInv
      <3>7. ASSUME NEW q \in Runs, Binding(q)', store = "file"
            PROVE  metaLock'[inst[q]] = q
        <4>1. CASE q = r
          BY <3>3, <3>4, <3>7, <4>1
        <4>2. CASE q # r
          BY <3>3, <3>4, <3>5, <3>6, <3>7, <4>2
        <4> QED
          BY <4>1, <4>2
      <3>8. raced' => MayRace'
        <4>1. raced => MayRace
          BY DEF BindInv
        <4>2. ASSUME NEW q \in Runs, Binding(q)
              PROVE  MayRace
          BY <3>2, <3>6, <4>2 DEF MayRace
        <4>3. MayRace' = MayRace
          BY <3>2 DEF MayRace
        <4> QED
          BY <3>2, <4>1, <4>2, <4>3
      <3>9. ASSUME ~raced'
            PROVE  bound' \subseteq meta' /\ \A q \in Runs : Binding(q)' => q = r
        BY <3>2, <3>5, <3>9 DEF BindInv
      <3>10. ASSUME NEW q \in Runs, Binding(q)'
             PROVE  raced' \/ hand'[q].meta = meta'
        BY <3>1, <3>2, <3>9, <3>10
      <3> QED
        BY <3>2, <3>7, <3>8, <3>9, <3>10 DEF BindInv
    <2>6. CASE BindWrite(r)
      <3>1. /\ \A q \in Runs \ {r} : hand'[q] = hand[q] /\ pc'[q] = pc[q]
            /\ pc[r] = "bind" /\ pc'[r] = "idle"
        BY <2>6, BindWriteTyped
      <3>2. /\ UNCHANGED <<store, inst, raced>> /\ meta' = hand[r].meta \union {r}
            /\ bound' = bound \union {r} /\ metaLock' = [metaLock EXCEPT ![inst[r]] = None]
        BY <2>6 DEF BindWrite, fixed
      <3>3. metaLock \in [Instances -> Runs \union {None}] /\ inst \in [Runs -> Instances]
        BY DEF TypeInv, TypeOK
      <3>4. Binding(r) /\ \A q \in Runs : Binding(q)' => q # r /\ Binding(q) /\ hand'[q] = hand[q]
        BY <3>1 DEF Binding
      <3>5. store = "file" => metaLock[inst[r]] = r
        BY <3>4 DEF BindInv
      <3>6. ASSUME NEW q \in Runs, Binding(q)', store = "file"
            PROVE  metaLock'[inst[q]] = q
        <4>1. q # r /\ metaLock[inst[q]] = q
          BY <3>4, <3>6 DEF BindInv
        <4>2. inst[q] # inst[r]
          BY <3>5, <3>6, <4>1
        <4> QED
          BY <3>2, <3>3, <4>1, <4>2
      <3>7. ASSUME ~raced
            PROVE  bound' \subseteq meta' /\ \A q \in Runs : ~Binding(q)'
        BY <3>2, <3>4, <3>7 DEF BindInv
      <3>8. store \in {"file", "database"} /\ (raced' => MayRace')
        BY <3>2, <3>4 DEF BindInv, MayRace
      <3> QED
        BY <3>2, <3>6, <3>7, <3>8 DEF BindInv
    <2> QED
      BY <1>3, <2>1, <2>2, <2>3, <2>4, <2>5, <2>6 DEF RunStep
  <1>4. CASE UNCHANGED vars
    BY <1>4, BindFrame DEF vars
  <1> QED
    BY <1>1, <1>2, <1>3, <1>4 DEF Next

(* No task binding that was reported is lost, unless two bindings            *)
(* overlapped in the database or between two instances of the file store.    *)
THEOREM BindingsKeptHolds == Spec => []BindingsKept
  <1>1. Init => BindInv
    BY DEF Init, BindInv, Binding
  <1>2. BindInv => BindingsKept
    BY DEF BindInv, BindingsKept, MayRace
  <1> QED
    BY <1>1, <1>2, TypeInit, TypeStep, BindStep, PTL DEF Spec

-----------------------------------------------------------------------------
(* Acknowledged messages.  A writer that finds the last line open was not    *)
(* the only one to write on it: the line it spoils, or its own document on   *)
(* it, has an entry of another writer, unless the line's newline failed.     *)

Stands(e) ==
    \E i \in DOMAIN lines : \E k \in DOMAIN lines[i] :
        /\ lines[i][k] = e
        /\ Len(lines[i]) > 1 => i \in torn \/ \E l \in DOMAIN lines[i] : lines[i][l].by # e.by

Shared(w) ==
    Len(lines) \in torn \/ \E l \in DOMAIN lines[Len(lines)] : lines[Len(lines)][l].by # w

WriterInv ==
    /\ \A e \in Written : e.by[2] <= spent.crashes
    /\ \A r \in Runs : \A k \in DOMAIN hand[r].todo : hand[r].todo[k].by = Me(r)

OpenInv ==
    /\ open => store = "file"
    /\ \A r \in Runs : open /\ pc[r] # "newline" => Shared(Me(r))

AckInv ==
    /\ \A r \in Runs : pc[r] = "newline" => Stands(hand[r].todo[1])
    /\ \A id \in acked : \E e \in Entries : Stands(e) /\ e.kind = "message" /\ e.id = id

LEMMA CrashesView ==
  ASSUME TypeInv, [Next]_vars
  PROVE  Crash \/ spent'.crashes = spent.crashes
  <1>1. CASE Tick \/ UNCHANGED vars
    BY <1>1 DEF Tick, vars
  <1>2. ASSUME NEW r \in Runs, RunStep(r)
        PROVE  spent'.crashes = spent.crashes
    <2>1. spent \in [messages : Nat, compress : Nat, faults : Nat, crashes : Nat]
      BY DEF TypeInv, TypeOK
    <2>2. CASE AddMessage(r) \/ SaveFails(r) \/ CompressFind(r)
      BY <2>1, <2>2, FailTyped, FindTyped DEF AddMessage
    <2>3. CASE Save(r) \/ WriteJson(r) \/ WriteNewline(r)
      BY <2>3 DEF Save, WriteJson, WriteNewline
    <2>4. CASE CompressRead(r) \/ CompressSeal(r) \/ BindNow(r) \/ BindRead(r) \/ BindWrite(r)
      BY <2>4 DEF CompressRead, CompressSeal, BindNow, BindRead, BindWrite
    <2> QED
      BY <1>2, <2>2, <2>3, <2>4 DEF RunStep
  <1> QED
    BY <1>1, <1>2 DEF Next

LEMMA WriterStep == TypeInv /\ WriterInv /\ [Next]_vars => WriterInv'
  <1> SUFFICES ASSUME TypeInv, WriterInv, [Next]_vars
               PROVE  WriterInv'
    OBVIOUS
  <1>1. spent.crashes \in Nat /\ LinesTyped
    BY TypeParts DEF TypeInv, TypeOK, OthersTyped
  <1>2. spent'.crashes \in Nat /\ spent.crashes <= spent'.crashes
    BY <1>1, CrashesView, CrashTyped
  <1>3. ASSUME NEW e \in Written
        PROVE  e.by[2] \in Nat
    <2>1. e \in Entries
      BY <1>1, <1>3, WrittenFacts, LineTyped
    <2> QED
      BY <2>1 DEF Entries
  <1>4. \A e \in Written' : e.by[2] <= spent'.crashes
    <2>1. CASE lines' = lines
      <3>1. Written' = Written
        BY <2>1 DEF Written
      <3> QED
        BY <1>1, <1>2, <1>3, <3>1 DEF WriterInv
    <2>2. ASSUME NEW r \in Runs, pc[r] = "save", Grows(hand[r].todo[1])
          PROVE  \A e \in Written' : e.by[2] <= spent'.crashes
      <3> DEFINE x == hand[r].todo[1]
      <3>1. x \in Entries /\ x.by = Me(r)
        BY <2>2, HeadFacts DEF WriterInv
      <3>2. x.by[2] = spent.crashes
        BY <3>1 DEF Me
      <3>3. \A e \in Written' : e \in Written \/ e = x
        BY <1>1, <2>2, <3>1, GrowWritten
      <3> HIDE DEF x
      <3> QED
        BY <1>1, <1>2, <1>3, <3>2, <3>3 DEF WriterInv
    <2> QED
      BY <2>1, <2>2, LogView
  <1>5. ASSUME NEW r \in Runs, NEW k \in DOMAIN hand'[r].todo
        PROVE  hand'[r].todo[k].by = Me(r)'
    <2>1. CASE Crash
      <3>1. hand'[r].todo = <<>>
        BY <2>1, CrashTyped DEF Idle
      <3> QED
        BY <1>5, <3>1
    <2>2. CASE spent'.crashes = spent.crashes
      <3>1. Me(r)' = Me(r)
        BY <2>2 DEF Me
      <3>2. CASE AddMessage(r)
        <4>1. PICK id \in unused : hand'[r].todo = <<Entry(r, "message", id, now, {id})>>
          BY <3>2, AddTyped
        <4>2. hand'[r].todo[k] = Entry(r, "message", id, now, {id})
          BY <1>5, <4>1
        <4> QED
          BY <3>1, <4>2 DEF Entry, Me
      <3>3. CASE CompressSeal(r)
        <4>1. PICK id \in unused : \E kept \in Seq(Entries) : Compressed(hand'[r].todo, r, id, kept)
          BY <3>3, SealFacts
        <4> QED
          BY <1>5, <3>1, <4>1 DEF Compressed
      <3>4. CASE \A j \in DOMAIN hand'[r].todo : \E l \in DOMAIN hand[r].todo :
                    hand'[r].todo[j] = hand[r].todo[l]
        BY <1>5, <3>1, <3>4 DEF WriterInv
      <3> QED
        BY <3>2, <3>3, <3>4, HandsView DEF HandView
    <2> QED
      BY <2>1, <2>2, CrashesView
  <1> QED
    BY <1>4, <1>5 DEF WriterInv

(* A step that writes on the open line, or on a line of its own.             *)
LEMMA StandsGrow ==
  ASSUME LinesTyped, NEW x \in Entries, Grows(x), torn \subseteq torn',
         lines' = Append(lines, <<x>>) \/ Shared(x.by)
  PROVE  Stands(x)' /\ \A e \in Entries : Stands(e) => Stands(e)'
  <1>1. Len(lines) \in Nat /\ DOMAIN lines = 1..Len(lines)
    BY DEF LinesTyped
  <1>2. CASE /\ lines' = Append(lines, <<x>>) /\ Len(lines') = Len(lines) + 1
             /\ lines'[Len(lines) + 1] = <<x>> /\ \A i \in DOMAIN lines : lines'[i] = lines[i]
    <2>1. LinesTyped'
      BY GrowTyped
    <2>2. DOMAIN lines' = 1..(Len(lines) + 1)
      BY <1>2, <2>1 DEF LinesTyped
    <2>3. Len(<<x>>) = 1 /\ DOMAIN <<x>> = {1} /\ <<x>>[1] = x
      OBVIOUS
    <2>4. \A i \in DOMAIN lines : i \in DOMAIN lines'
      BY <1>1, <2>2
    <2>5. Len(lines) + 1 \in DOMAIN lines'
      BY <1>1, <2>2
    <2>6. Stands(x)'
      BY <1>2, <2>3, <2>5 DEF Stands
    <2>7. \A e \in Entries : Stands(e) => Stands(e)'
      BY <1>2, <2>4 DEF Stands
    <2> QED
      BY <2>6, <2>7
  <1>3. CASE /\ Len(lines) \in DOMAIN lines /\ Len(lines') = Len(lines)
             /\ lines'[Len(lines)] = Append(lines[Len(lines)], x)
             /\ \A i \in DOMAIN lines : i # Len(lines) => lines'[i] = lines[i]
    <2> DEFINE n == Len(lines)
               last == lines[n]
    <2>1. DOMAIN lines' = DOMAIN lines
      <3>1. LinesTyped'
        BY GrowTyped
      <3>2. DOMAIN lines' = 1..Len(lines')
        BY <3>1 DEF LinesTyped
      <3> QED
        BY <1>1, <1>3, <3>2
    <2>2. last \in Seq(Entries) /\ Len(last) \in Nat \ {0} /\ DOMAIN last = 1..Len(last)
      BY <1>3, LineTyped
    <2>3. lines'[n] = Append(last, x)
      BY <1>3
    <2>4. Shared(x.by)
      <3>1. lines' # Append(lines, <<x>>)
        <4>1. Len(Append(lines, <<x>>)) = Len(lines) + 1
          BY DEF LinesTyped
        <4> QED
          BY <1>1, <1>3, <4>1
      <3> QED
        BY <3>1
    <2>5. n \in torn' \/ \E l \in DOMAIN last : last[l].by # x.by
      BY <2>4 DEF Shared
    <2> HIDE DEF last
    <2>6. /\ DOMAIN lines'[n] = 1..(Len(last) + 1) /\ lines'[n][Len(last) + 1] = x
          /\ \A k \in 1..Len(last) : lines'[n][k] = last[k]
      BY <2>2, <2>3
    <2>7. n \in torn' \/ \E l \in DOMAIN lines'[n] : lines'[n][l].by # x.by
      <3>1. \A l \in DOMAIN last : l \in DOMAIN lines'[n] /\ lines'[n][l] = last[l]
        BY <2>2, <2>6
      <3> QED
        BY <2>5, <3>1
    <2>8. Len(last) + 1 \in DOMAIN lines'[n]
      BY <2>2, <2>6
    <2>9. Stands(x)'
      BY <1>3, <2>1, <2>6, <2>7, <2>8 DEF Stands
    <2>10. ASSUME NEW e \in Entries, Stands(e)
           PROVE  Stands(e)'
      <3>0. PICK i \in DOMAIN lines : \E k \in DOMAIN lines[i] :
               /\ lines[i][k] = e
               /\ Len(lines[i]) > 1 => i \in torn \/ \E f \in DOMAIN lines[i] : lines[i][f].by # e.by
        BY <2>10 DEF Stands
      <3>1. PICK k \in DOMAIN lines[i] :
               /\ lines[i][k] = e
               /\ Len(lines[i]) > 1 => i \in torn \/ \E f \in DOMAIN lines[i] : lines[i][f].by # e.by
        BY <3>0
      <3>2. CASE i # n
        BY <1>3, <2>1, <3>1, <3>2 DEF Stands
      <3>3. CASE i = n
        <4>1. k \in 1..Len(last) /\ last[k] = e
          BY <2>2, <3>1, <3>3 DEF last
        <4>2. k \in DOMAIN lines'[n] /\ lines'[n][k] = e
          BY <2>2, <2>6, <4>1
        <4>3. n \in torn' \/ \E f \in DOMAIN lines'[n] : lines'[n][f].by # e.by
          <5>1. CASE e.by # x.by
            BY <2>6, <2>8, <5>1
          <5>2. CASE e.by = x.by
            BY <2>7, <5>2
          <5> QED
            BY <5>1, <5>2
        <4> QED
          BY <1>3, <2>1, <4>2, <4>3 DEF Stands
      <3> QED
        BY <3>2, <3>3
    <2> QED
      BY <2>9, <2>10
  <1> QED
    BY <1>2, <1>3, GrowTyped

(* A run enters the state between document and newline by writing the        *)
(* document and leaves it by writing the newline, failing to, or a crash.    *)
LEMMA NewlineView ==
  ASSUME TypeInv, [Next]_vars, NEW q \in Runs
  PROVE  /\ pc'[q] = "newline" => WriteJson(q) \/ (pc[q] = "newline" /\ hand'[q] = hand[q])
         /\ pc[q] = "newline" => \/ pc'[q] = "newline"
                                 \/ WriteNewline(q) \/ SaveFails(q) \/ Crash
  <1>1. CASE Tick
    BY <1>1 DEF Tick
  <1>2. CASE Crash
    BY <1>2, CrashTyped
  <1>3. ASSUME NEW r \in Runs, RunStep(r)
        PROVE  /\ pc'[q] = "newline" => WriteJson(q) \/ (pc[q] = "newline" /\ hand'[q] = hand[q])
               /\ pc[q] = "newline" => pc'[q] = "newline" \/ WriteNewline(q) \/ SaveFails(q)
    <2>1. CASE AddMessage(r) \/ CompressFind(r) \/ CompressRead(r) \/ CompressSeal(r)
      <3>1. pc[r] # "newline"
        BY <2>1 DEF AddMessage, CompressFind, CompressRead, CompressSeal
      <3>2. pc'[r] # "newline" /\ \A p \in Runs \ {r} : hand'[p] = hand[p] /\ pc'[p] = pc[p]
        BY <2>1, AddTyped, FindTyped, ReadTyped, SealTyped
      <3> QED
        BY <3>1, <3>2
    <2>2. CASE Save(r) \/ WriteNewline(r) \/ SaveFails(r)
      <3>1. PICK rest \in {Tail(hand[r].todo), <<>>} : Proceed(r, rest)
        BY <2>2, SaveTyped, NewlineTyped, FailTyped
      <3>2. /\ pc[r] \in {"save", "newline"}
            /\ pc[r] = "newline" => WriteNewline(r) \/ SaveFails(r)
        BY <2>2, SaveTyped, NewlineTyped, FailTyped
      <3>3. pc'[r] # "newline" /\ \A p \in Runs \ {r} : hand'[p] = hand[p] /\ pc'[p] = pc[p]
        BY <3>1, <3>2, ProceedFacts
      <3> QED
        BY <3>2, <3>3
    <2>3. CASE WriteJson(r)
      BY <2>3, WriteTyped
    <2>4. CASE BindNow(r) \/ BindRead(r) \/ BindWrite(r)
      <3>1. /\ pc[r] # "newline" /\ pc'[r] # "newline"
            /\ \A p \in Runs \ {r} : hand'[p] = hand[p] /\ pc'[p] = pc[p]
        BY <2>4, BindNowTyped, BindReadTyped, BindWriteTyped
      <3> QED
        BY <3>1
    <2> QED
      BY <1>3, <2>1, <2>2, <2>3, <2>4 DEF RunStep
  <1>4. CASE UNCHANGED vars
    BY <1>4 DEF vars
  <1> QED
    BY <1>1, <1>2, <1>3, <1>4 DEF Next

(* Writing the document and its newline, saving in one piece, or no write.   *)
LEMMA WriteView ==
  ASSUME TypeInv, [Next]_vars
  PROVE  /\ store' = store /\ torn \subseteq torn'
         /\ \/ \E r \in Runs : Save(r)
            \/ \E r \in Runs : WriteJson(r)
            \/ \E r \in Runs : WriteNewline(r)
            \/ UNCHANGED <<lines, open, acked, sealed>>
  <1>1. CASE Tick \/ Crash \/ UNCHANGED vars
    BY <1>1 DEF Tick, Crash, vars, logVars, fixed
  <1>2. ASSUME NEW r \in Runs, RunStep(r)
        PROVE  /\ store' = store /\ torn \subseteq torn'
               /\ \/ Save(r) \/ WriteJson(r) \/ WriteNewline(r)
                  \/ UNCHANGED <<lines, open, acked, sealed>>
    <2>1. CASE AddMessage(r) \/ CompressFind(r) \/ CompressRead(r) \/ CompressSeal(r)
      BY <2>1 DEF AddMessage, CompressFind, CompressRead, CompressSeal, fixed, logVars
    <2>2. CASE Save(r) \/ WriteJson(r) \/ WriteNewline(r)
      BY <2>2 DEF Save, WriteJson, WriteNewline, fixed
    <2>3. CASE SaveFails(r) \/ BindNow(r) \/ BindRead(r) \/ BindWrite(r)
      BY <2>3 DEF SaveFails, BindNow, BindRead, BindWrite, fixed, logVars
    <2> QED
      BY <1>2, <2>1, <2>2, <2>3 DEF RunStep
  <1> QED
    BY <1>1, <1>2 DEF Next

LEMMA OpenStep == TypeInv /\ WriterInv /\ OpenInv /\ [Next]_vars => OpenInv'
  <1> SUFFICES ASSUME TypeInv, WriterInv, OpenInv, [Next]_vars
               PROVE  OpenInv'
    OBVIOUS
  <1>1. LinesTyped /\ spent.crashes \in Nat /\ store' = store
    BY TypeParts, WriteView DEF TypeInv, TypeOK, OthersTyped
  <1>2. CASE \E r \in Runs : Save(r)
    BY <1>1, <1>2 DEF Save, OpenInv
  <1>3. CASE \E r \in Runs : WriteNewline(r)
    BY <1>3 DEF WriteNewline, OpenInv
  <1>4. ASSUME NEW r \in Runs, WriteJson(r)
        PROVE  OpenInv'
    <2> DEFINE x == hand[r].todo[1]
    <2>1. Grows(x) /\ x \in Entries /\ x.by = Me(r) /\ pc'[r] = "newline"
      BY <1>4, WriteTyped, HeadFacts DEF WriterInv
    <2>2. spent' = spent /\ store = "file"
      BY <1>4 DEF WriteJson
    <2> HIDE DEF x
    <2>3. \E l \in DOMAIN lines'[Len(lines')] : lines'[Len(lines')][l] = x
      <3>1. CASE Len(lines') = Len(lines) + 1 /\ lines'[Len(lines) + 1] = <<x>>
        <4>1. 1 \in DOMAIN <<x>> /\ <<x>>[1] = x
          OBVIOUS
        <4> QED
          BY <3>1, <4>1
      <3>2. CASE /\ Len(lines) \in DOMAIN lines /\ Len(lines') = Len(lines)
                 /\ lines'[Len(lines)] = Append(lines[Len(lines)], x)
        <4> DEFINE last == lines[Len(lines)]
        <4>1. last \in Seq(Entries) /\ Len(last) \in Nat
          BY <1>1, <3>2, LineTyped
        <4>2. lines'[Len(lines')] = Append(last, x)
          BY <3>2
        <4> HIDE DEF last
        <4>3. Len(last) + 1 \in DOMAIN Append(last, x) /\ Append(last, x)[Len(last) + 1] = x
          BY <2>1, <4>1
        <4> QED
          BY <4>2, <4>3
      <3> QED
        BY <1>1, <2>1, <3>1, <3>2, GrowTyped
    <2>4. ASSUME NEW q \in Runs, pc'[q] # "newline"
          PROVE  Shared(Me(q))'
      <3>1. Me(q)' = Me(q) /\ Me(q) # Me(r)
        BY <2>1, <2>2, <2>4 DEF Me
      <3> QED
        BY <2>1, <2>3, <3>1 DEF Shared
    <2> QED
      BY <1>1, <2>2, <2>4 DEF OpenInv
  <1>5. CASE UNCHANGED <<lines, open, acked, sealed>>
    <2>1. lines' = lines /\ open' = open /\ torn \subseteq torn'
      BY <1>5, WriteView
    <2>2. ASSUME NEW q \in Runs, open, pc'[q] # "newline"
          PROVE  Shared(Me(q))'
      <3>1. CASE Crash
        <4>1. Len(lines) \in DOMAIN lines
          BY <1>1, <2>2 DEF TypeInv, LinesTyped
        <4>2. 1 \in DOMAIN lines[Len(lines)] /\ lines[Len(lines)][1] \in Entries
          BY <1>1, <4>1, LineTyped
        <4>3. lines[Len(lines)][1] \in Written
          BY <4>1, <4>2, WrittenFacts
        <4>4. lines[Len(lines)][1].by[2] <= spent.crashes /\ lines[Len(lines)][1].by \in Runs \X Nat
          BY <4>2, <4>3 DEF WriterInv, Entries
        <4>5. Me(q)' = <<q, spent.crashes + 1>>
          BY <3>1, CrashTyped DEF Me
        <4>6. lines[Len(lines)][1].by # Me(q)'
          BY <1>1, <4>4, <4>5
        <4> QED
          BY <2>1, <4>2, <4>6 DEF Shared
      <3>2. CASE ~Crash
        <4>1. Me(q)' = Me(q)
          BY <3>2, CrashesView DEF Me
        <4>2. CASE pc[q] # "newline"
          BY <2>1, <2>2, <4>1, <4>2 DEF OpenInv, Shared
        <4>3. CASE pc[q] = "newline"
          <5>1. WriteNewline(q) \/ (SaveFails(q) /\ pc[q] = "newline")
            BY <2>2, <3>2, <4>3, NewlineView
          <5>2. CASE WriteNewline(q)
            BY <2>1, <2>2, <5>2 DEF WriteNewline
          <5>3. CASE SaveFails(q) /\ pc[q] = "newline"
            BY <2>1, <5>3 DEF SaveFails, Shared
          <5> QED
            BY <5>1, <5>2, <5>3
        <4> QED
          BY <4>2, <4>3
      <3> QED
        BY <3>1, <3>2
    <2> QED
      BY <1>1, <2>1, <2>2 DEF OpenInv
  <1> QED
    BY <1>2, <1>3, <1>4, <1>5, WriteView

(* Where a run may write: on a line of its own, or on one that another       *)
(* writer has left open.                                                     *)
LEMMA WriteAllowed ==
  ASSUME TypeInv, WriterInv, OpenInv, NEW r \in Runs, Save(r) \/ WriteJson(r)
  PROVE  /\ hand[r].todo[1] \in Entries /\ Grows(hand[r].todo[1])
         /\ \A e \in Entries : (Stands(e) \/ e = hand[r].todo[1]) => Stands(e)'
  <1>1. pc[r] = "save" /\ Grows(hand[r].todo[1])
    BY SaveTyped, WriteTyped
  <1>2. PICK x \in Entries : x = hand[r].todo[1] /\ x.by = Me(r) /\ Head(hand[r].todo) = x
    BY <1>1, HeadFacts DEF WriterInv
  <1>3. lines' = Append(lines, <<x>>) \/ Shared(x.by)
    <2>1. CASE Save(r)
      BY <1>2, <2>1 DEF Save
    <2>2. CASE WriteJson(r) /\ ~open
      BY <1>2, <2>2 DEF WriteJson
    <2>3. CASE open
      BY <1>1, <1>2, <2>3 DEF OpenInv
    <2> QED
      BY <2>1, <2>2, <2>3
  <1>4. LinesTyped /\ Grows(x) /\ torn \subseteq torn'
    BY <1>1, <1>2, TypeParts DEF OthersTyped, Save, WriteJson
  <1>5. Stands(x)' /\ \A e \in Entries : Stands(e) => Stands(e)'
    BY <1>2, <1>3, <1>4, StandsGrow
  <1> QED
    BY <1>1, <1>2, <1>5

LEMMA AckStep == TypeInv /\ WriterInv /\ OpenInv /\ AckInv /\ [Next]_vars => AckInv'
  <1> SUFFICES ASSUME TypeInv, WriterInv, OpenInv, AckInv, [Next]_vars
               PROVE  AckInv'
    OBVIOUS
  <1>1. \A e \in Entries : Stands(e) => Stands(e)'
    <2>1. CASE \E r \in Runs : Save(r) \/ WriteJson(r)
      BY <2>1, WriteAllowed
    <2>2. CASE UNCHANGED lines
      BY <2>2, WriteView DEF Stands
    <2> QED
      BY <2>1, <2>2, WriteView DEF WriteNewline
  <1>2. ASSUME NEW q \in Runs, pc'[q] = "newline"
        PROVE  Stands(hand[q].todo[1])'
    <2>1. PICK x \in Entries : x = hand'[q].todo[1]
      <3>1. TypeInv'
        BY TypeStep
      <3>2. hand'[q].todo \in Seq(Entries) /\ hand'[q].todo # <<>>
        BY <1>2, <3>1 DEF TypeInv, TypeOK, Hands
      <3> QED
        BY <3>2
    <2>2. Stands(x)'
      <3>1. CASE WriteJson(q)
        <4>1. x = hand[q].todo[1]
          BY <2>1, <3>1, WriteTyped
        <4> QED
          BY <3>1, <4>1, WriteAllowed
      <3>2. CASE pc[q] = "newline" /\ hand'[q] = hand[q]
        BY <1>1, <2>1, <3>2 DEF AckInv
      <3> QED
        BY <1>2, <3>1, <3>2, NewlineView
    <2> QED
      BY <2>1, <2>2
  <1>3. ASSUME NEW id \in acked'
        PROVE  \E e \in Entries : Stands(e)' /\ e.kind = "message" /\ e.id = id
    <2>1. CASE id \in acked
      BY <1>1, <2>1 DEF AckInv
    <2>2. ASSUME NEW r \in Runs, Save(r), id \notin acked
          PROVE  \E e \in Entries : Stands(e)' /\ e.kind = "message" /\ e.id = id
      <3>1. PICK x \in Entries : x = hand[r].todo[1] /\ Head(hand[r].todo) = x
        BY <2>2, SaveTyped, HeadFacts
      <3>2. Stands(x)'
        BY <2>2, <3>1, WriteAllowed
      <3>3. x.kind = "message" /\ x.id = id
        BY <1>3, <2>2, <3>1 DEF Save, Acknowledge
      <3> QED
        BY <3>2, <3>3
    <2>3. ASSUME NEW r \in Runs, WriteNewline(r), id \notin acked
          PROVE  \E e \in Entries : Stands(e)' /\ e.kind = "message" /\ e.id = id
      <3>1. PICK x \in Entries : x = hand[r].todo[1] /\ Head(hand[r].todo) = x
        BY <2>3, NewlineTyped, HeadFacts
      <3>2. Stands(x)
        BY <2>3, <3>1, NewlineTyped DEF AckInv
      <3>3. x.kind = "message" /\ x.id = id
        BY <1>3, <2>3, <3>1 DEF WriteNewline, Acknowledge
      <3> QED
        BY <1>1, <3>2, <3>3
    <2>4. CASE acked' = acked
      BY <1>3, <2>1, <2>4
    <2> QED
      BY <2>1, <2>2, <2>3, <2>4, WriteView DEF WriteJson
  <1> QED
    BY <1>2, <1>3 DEF AckInv

(* What an acknowledged message rests on.                                    *)
LEMMA AckImplies == AckInv => AckedReadable
  <1> SUFFICES ASSUME AckInv, NEW id \in acked
               PROVE  \E i \in DOMAIN lines : \E e \in ToSet(lines[i]) :
                         /\ e.kind = "message" /\ e.id = id
                         /\ Len(lines[i]) > 1 => i \in torn \/ \E f \in ToSet(lines[i]) : f.by # e.by
    BY DEF AckedReadable
  <1>1. PICK e \in Entries : Stands(e) /\ e.kind = "message" /\ e.id = id
    BY DEF AckInv
  <1>2. PICK i \in DOMAIN lines : \E k \in DOMAIN lines[i] :
           /\ lines[i][k] = e
           /\ Len(lines[i]) > 1 => i \in torn \/ \E l \in DOMAIN lines[i] : lines[i][l].by # e.by
    BY <1>1 DEF Stands
  <1>3. /\ e \in ToSet(lines[i])
        /\ Len(lines[i]) > 1 => i \in torn \/ \E f \in ToSet(lines[i]) : f.by # e.by
    BY <1>2 DEF ToSet
  <1> QED
    BY <1>1, <1>3

LEMMA AckInit == Init => WriterInv /\ OpenInv /\ AckInv
  <1> SUFFICES ASSUME Init PROVE WriterInv /\ OpenInv /\ AckInv
    OBVIOUS
  <1>1. lines = <<>> /\ open = FALSE /\ acked = {}
    BY DEF Init
  <1>2. \A r \in Runs : hand[r].todo = <<>> /\ pc[r] = "start"
    BY DEF Init, Idle
  <1>3. \A r \in Runs : DOMAIN hand[r].todo = {}
    BY <1>2
  <1>4. Written = {}
    BY <1>1 DEF Written, ToSet
  <1> QED
    BY <1>1, <1>2, <1>3, <1>4 DEF WriterInv, OpenInv, AckInv

(* A message whose add_message returned Ok stays on a line of its own, or on *)
(* one that another writer spoilt or whose newline failed, over any crashes. *)
THEOREM AckedReadableHolds == Spec => []AckedReadable
  BY AckInit, AckImplies, TypeInit, TypeStep, WriterStep, OpenStep, AckStep, PTL DEF Spec

-----------------------------------------------------------------------------
(* The order of checkpoints: the run that seals a checkpoint holds the mutex *)
(* until it is saved, so that checkpoints reach the log as they are stamped. *)

CpInv ==
    /\ \A i, j \in Readable :
          (Cp(Doc(i)) /\ Cp(Doc(j)) /\ i < j) => Doc(i).ts <= Doc(j).ts
    /\ \A i \in Readable : Cp(Doc(i)) => Doc(i).ts <= now
    /\ \A r \in Runs : \A k \in DOMAIN hand[r].todo : Cp(hand[r].todo[k]) =>
          /\ hand[r].todo[k].ts <= now
          /\ \A i \in Readable : Cp(Doc(i)) => Doc(i).ts <= hand[r].todo[k].ts
    /\ \A r \in Runs : pc[r] = "read" =>
          /\ \A i \in Readable : Cp(Doc(i)) => Doc(i).ts <= hand[r].cp
          /\ hand[r].cp = 0 \/ \E c \in Written : Cp(c) /\ hand[r].cp <= c.ts

LEMMA DocWritten ==
  ASSUME LinesTyped, NEW i \in Readable
  PROVE  Doc(i) \in Written
  BY LineTyped, WrittenFacts DEF Readable, Doc

LEMMA WrittenTyped ==
  ASSUME LinesTyped, NEW e \in Written
  PROVE  e \in Entries
  BY LineTyped, WrittenFacts

(* The shortcut of the file store.                                           *)
LEMMA TailIsLatest ==
  ASSUME LinesTyped, CpInv
  PROVE  TailHoldsLatest
  <1> DEFINE tail == LatestOf(FileTail)
             all == LatestOf(Readable)
  <1>1. FileTail \in SUBSET Readable
    BY DEF FileTail
  <1>2. /\ all \in Nat /\ (all = 0 \/ \E i \in Readable : Cp(Doc(i)) /\ Doc(i).ts = all)
        /\ \A i \in Readable : Cp(Doc(i)) => Doc(i).ts <= all
    BY LatestFacts
  <1>3. /\ tail \in Nat /\ (tail = 0 \/ \E i \in FileTail : Cp(Doc(i)) /\ Doc(i).ts = tail)
        /\ \A i \in FileTail : Cp(Doc(i)) => Doc(i).ts <= tail
    BY <1>1, LatestFacts
  <1> HIDE DEF tail, all
  <1>4. ASSUME tail > 0
        PROVE  tail = all
    <2>1. PICK j \in FileTail : Cp(Doc(j)) /\ Doc(j).ts = tail
      BY <1>3, <1>4
    <2>2. tail <= all
      BY <1>1, <1>2, <2>1
    <2>3. all # 0
      BY <1>2, <1>3, <1>4, <2>2
    <2>4. PICK i \in Readable : Cp(Doc(i)) /\ Doc(i).ts = all
      BY <1>2, <2>3
    <2>5. all <= tail
      <3>1. CASE i \in FileTail
        BY <1>3, <2>4, <3>1
      <3>2. CASE i \notin FileTail
        <4>1. i \in Nat /\ j \in Nat /\ j \in Readable /\ Len(lines) \in Nat
          BY <1>1, <2>1, DocTyped DEF LinesTyped
        <4>2. i < j
          BY <2>1, <3>2, <4>1 DEF FileTail
        <4> QED
          BY <2>1, <2>4, <4>1, <4>2 DEF CpInv
      <3> QED
        BY <3>1, <3>2
    <2> QED
      BY <1>2, <1>3, <2>2, <2>5
  <1>5. find_latest_checkpoint = (IF store = "file" /\ tail > 0 THEN tail ELSE all)
    BY DEF find_latest_checkpoint, tail, all
  <1> QED
    BY <1>4, <1>5 DEF TailHoldsLatest, all

LEMMA ClockView ==
  ASSUME TypeInv, [Next]_vars
  PROVE  now \in Nat /\ now' \in Nat /\ now >= 1 /\ now <= now'
  <1>1. now \in Nat /\ now >= 1
    BY DEF TypeInv, TypeOK
  <1>2. now' = now \/ now' = now + 1
    <2>1. CASE Tick \/ Crash \/ UNCHANGED vars
      BY <2>1 DEF Tick, Crash, vars
    <2>2. ASSUME NEW r \in Runs, RunStep(r)
          PROVE  now' = now
      <3>1. CASE AddMessage(r) \/ CompressFind(r) \/ CompressRead(r) \/ CompressSeal(r)
        BY <3>1 DEF AddMessage, CompressFind, CompressRead, CompressSeal
      <3>2. CASE Save(r) \/ WriteJson(r) \/ WriteNewline(r) \/ SaveFails(r)
        BY <3>2 DEF Save, WriteJson, WriteNewline, SaveFails
      <3>3. CASE BindNow(r) \/ BindRead(r) \/ BindWrite(r)
        BY <3>3 DEF BindNow, BindRead, BindWrite
      <3> QED
        BY <2>2, <3>1, <3>2, <3>3 DEF RunStep
    <2> QED
      BY <2>1, <2>2 DEF Next
  <1> QED
    BY <1>1, <1>2

(* What is readable after a step: what was, and the entry a run had in hand. *)
LEMMA ReadableView ==
  ASSUME TypeInv, [Next]_vars
  PROVE  /\ LinesTyped /\ LinesTyped' /\ Len(lines) \in Nat /\ Len(lines') \in Nat
         /\ Len(lines) <= Len(lines')
         /\ \A e \in Written : e \in Written'
         /\ \/ /\ lines' = lines /\ Readable' = Readable /\ Written' = Written
               /\ \A i : Doc(i)' = Doc(i)
            \/ \E r \in Runs : \E x \in Entries :
                  /\ pc[r] = "save" /\ x = hand[r].todo[1] /\ Grows(x)
                  /\ \A e : e \in Written' <=> (e \in Written \/ e = x)
                  /\ \A i \in Readable' :
                        \/ i \in Readable /\ Doc(i)' = Doc(i)
                        \/ i = Len(lines) + 1 /\ Doc(i)' = x
  <1>1. LinesTyped /\ LinesTyped'
    BY TypeStep DEF TypeInv, TypeOK, LinesTyped
  <1>2. CASE lines' = lines
    BY <1>1, <1>2 DEF Written, Doc, Readable, LinesTyped
  <1>3. ASSUME NEW r \in Runs, pc[r] = "save", Grows(hand[r].todo[1])
        PROVE  /\ Len(lines) \in Nat /\ Len(lines') \in Nat /\ Len(lines) <= Len(lines')
               /\ \E x \in Entries :
                     /\ x = hand[r].todo[1] /\ Grows(x)
                     /\ \A e : e \in Written' <=> (e \in Written \/ e = x)
                     /\ \A i \in Readable' :
                           \/ i \in Readable /\ Doc(i)' = Doc(i)
                           \/ i = Len(lines) + 1 /\ Doc(i)' = x
    <2>1. PICK x \in Entries : x = hand[r].todo[1]
      BY <1>3, HeadFacts
    <2>2. Grows(x)
      BY <1>3, <2>1
    <2> QED
      BY <1>1, <2>1, <2>2, GrowTyped, GrowWritten, GrowDocs
  <1> QED
    BY <1>1, <1>2, <1>3, LogView

(* An entry in hand after a step that is a checkpoint was in hand before, at *)
(* the head of what the holder of the mutex saves, or was sealed just now.   *)
LEMMA CpInHand ==
  ASSUME TypeInv, MutexInv, [Next]_vars, NEW q \in Runs,
         NEW k \in DOMAIN hand'[q].todo, Cp(hand'[q].todo[k])
  PROVE  \/ mutex = q /\ 1 \in DOMAIN hand[q].todo /\ Cp(hand[q].todo[1])
            /\ hand'[q].todo[k] = hand[q].todo[1]
         \/ \E id \in unused : \E kept \in Seq(Entries) :
               CompressSeal(q) /\ Compressed(hand'[q].todo, q, id, kept)
               /\ hand'[q].todo[k] = hand'[q].todo[1]
  <1>1. CASE AddMessage(q)
    <2>1. PICK id \in unused : hand'[q].todo = <<Entry(q, "message", id, now, {id})>>
      BY <1>1, AddTyped
    <2>2. hand'[q].todo[k] = Entry(q, "message", id, now, {id})
      BY <2>1
    <2> QED
      BY <2>2 DEF Entry, Cp
  <1>2. CASE CompressSeal(q)
    <2>1. PICK id \in unused : \E kept \in Seq(Entries) : Compressed(hand'[q].todo, q, id, kept)
      BY <1>2, SealFacts
    <2>2. PICK kept \in Seq(Entries) : Compressed(hand'[q].todo, q, id, kept)
      BY <2>1
    <2>3. k = 1
      BY <2>2 DEF Cp, Compressed
    <2> QED
      BY <1>2, <2>2, <2>3
  <1>3. CASE \A j \in DOMAIN hand'[q].todo : \E l \in DOMAIN hand[q].todo :
                hand'[q].todo[j] = hand[q].todo[l]
    <2>1. PICK l \in DOMAIN hand[q].todo : hand'[q].todo[k] = hand[q].todo[l]
      BY <1>3
    <2>2. l = 1 /\ mutex = q
      BY <2>1 DEF MutexInv, MutexOK
    <2> QED
      BY <2>1, <2>2
  <1> QED
    BY <1>1, <1>2, <1>3, HandsView DEF HandView

LEMMA CpStep == TypeInv /\ MutexInv /\ CpInv /\ [Next]_vars => CpInv'
  <1> SUFFICES ASSUME TypeInv, MutexInv, CpInv, [Next]_vars
               PROVE  CpInv'
    OBVIOUS
  <1>1. now \in Nat /\ now' \in Nat /\ now <= now'
    BY ClockView
  <1>2. LinesTyped /\ LinesTyped' /\ Len(lines) \in Nat /\ \A e \in Written : e \in Written'
    BY ReadableView
  <1>3. \A i \in Readable : i \in Nat /\ i <= Len(lines) /\ Doc(i).ts \in Nat
    BY <1>2, DocTyped, EntryTyped
  <1>4. \A r \in Runs : \A k \in DOMAIN hand[r].todo : hand[r].todo[k].ts \in Nat
    BY HandTyped, EntryTyped
  (* The checkpoint that a step makes readable was in hand.                  *)
  <1>5. ASSUME NEW i \in Readable', Cp(Doc(i)')
        PROVE  \/ i \in Readable /\ Doc(i)' = Doc(i)
               \/ \E r \in Runs : /\ pc[r] = "save" /\ mutex = r /\ i = Len(lines) + 1
                                  /\ 1 \in DOMAIN hand[r].todo /\ Cp(hand[r].todo[1])
                                  /\ Doc(i)' = hand[r].todo[1]
    <2>1. CASE lines' = lines /\ Readable' = Readable /\ \A j : Doc(j)' = Doc(j)
      BY <1>5, <2>1
    <2>2. ASSUME NEW r \in Runs, NEW x \in Entries, pc[r] = "save", x = hand[r].todo[1],
                 i = Len(lines) + 1, Doc(i)' = x
          PROVE  mutex = r /\ 1 \in DOMAIN hand[r].todo
      <3>1. 1 \in DOMAIN hand[r].todo
        BY <2>2, HeadFacts
      <3> QED
        BY <1>5, <2>2, <3>1 DEF MutexInv, MutexOK
    <2> QED
      BY <1>5, <2>1, <2>2, ReadableView
  <1>6. \A i, j \in Readable' : (Cp(Doc(i)') /\ Cp(Doc(j)') /\ i < j) => Doc(i)'.ts <= Doc(j)'.ts
    <2> SUFFICES ASSUME NEW i \in Readable', NEW j \in Readable', Cp(Doc(i)'), Cp(Doc(j)'), i < j
                 PROVE  Doc(i)'.ts <= Doc(j)'.ts
      OBVIOUS
    <2>1. i \in Readable /\ Doc(i)' = Doc(i)
      <3>1. i # Len(lines) + 1
        <4>1. j <= Len(lines) + 1 /\ j \in Nat
          BY <1>2, <1>3, <1>5
        <4>2. i \in Nat
          BY <1>2, <1>3, <1>5
        <4> QED
          BY <1>2, <4>1, <4>2
      <3> QED
        BY <1>5, <3>1
    <2>2. CASE j \in Readable /\ Doc(j)' = Doc(j)
      BY <2>1, <2>2 DEF CpInv
    <2>3. ASSUME NEW r \in Runs, 1 \in DOMAIN hand[r].todo, Cp(hand[r].todo[1]),
                 Doc(j)' = hand[r].todo[1]
          PROVE  Doc(i)'.ts <= Doc(j)'.ts
      BY <2>1, <2>3 DEF CpInv
    <2> QED
      BY <1>5, <2>2, <2>3
  <1>7. \A i \in Readable' : Cp(Doc(i)') => Doc(i)'.ts <= now'
    <2> SUFFICES ASSUME NEW i \in Readable', Cp(Doc(i)')
                 PROVE  Doc(i)'.ts <= now'
      OBVIOUS
    <2>1. Doc(i)'.ts <= now /\ Doc(i)'.ts \in Nat
      BY <1>3, <1>4, <1>5 DEF CpInv
    <2> QED
      BY <1>1, <2>1
  <1>8. ASSUME NEW q \in Runs, NEW k \in DOMAIN hand'[q].todo, Cp(hand'[q].todo[k])
        PROVE  /\ hand'[q].todo[k].ts <= now'
               /\ \A i \in Readable' : Cp(Doc(i)') => Doc(i)'.ts <= hand'[q].todo[k].ts
    <2>1. CASE /\ mutex = q /\ 1 \in DOMAIN hand[q].todo /\ Cp(hand[q].todo[1])
               /\ hand'[q].todo[k] = hand[q].todo[1]
      <3> DEFINE c == hand[q].todo[1]
      <3>1. c.ts \in Nat /\ c.ts <= now /\ \A i \in Readable : Cp(Doc(i)) => Doc(i).ts <= c.ts
        BY <1>4, <2>1 DEF CpInv
      <3>2. \A i \in Readable' : Cp(Doc(i)') => (i \in Readable /\ Doc(i)' = Doc(i)) \/ Doc(i)' = c
        BY <1>5, <2>1
      <3> HIDE DEF c
      <3>3. \A i \in Readable' : Cp(Doc(i)') => Doc(i)'.ts <= c.ts
        BY <3>1, <3>2
      <3> QED
        BY <1>1, <2>1, <3>1, <3>3 DEF c
    <2>2. ASSUME NEW id \in unused, NEW kept \in Seq(Entries), CompressSeal(q),
                 Compressed(hand'[q].todo, q, id, kept), hand'[q].todo[k] = hand'[q].todo[1]
          PROVE  /\ hand'[q].todo[k].ts <= now'
                 /\ \A i \in Readable' : Cp(Doc(i)') => Doc(i)'.ts <= hand'[q].todo[k].ts
      <3>1. hand'[q].todo[k].ts = now
        BY <2>2 DEF Compressed
      <3>2. lines' = lines
        BY <2>2 DEF CompressSeal, logVars
      <3>3. \A i \in Readable' : i \in Readable /\ Doc(i)' = Doc(i)
        BY <3>2 DEF Readable, Doc
      <3> QED
        BY <1>1, <3>1, <3>3 DEF CpInv
    <2> QED
      BY <1>8, <2>1, <2>2, CpInHand
  <1>9. ASSUME NEW q \in Runs, pc'[q] = "read"
        PROVE  /\ \A i \in Readable' : Cp(Doc(i)') => Doc(i)'.ts <= hand'[q].cp
               /\ hand'[q].cp = 0 \/ \E c \in Written' : Cp(c) /\ hand'[q].cp <= c.ts
    <2>1. CASE CompressFind(q)
      <3>1. lines' = lines /\ hand'[q].cp = find_latest_checkpoint
        BY <2>1, FindTyped DEF CompressFind, logVars
      <3>2. find_latest_checkpoint = LatestOf(Readable)
        BY <1>2, TailIsLatest DEF TailHoldsLatest
      <3>3. /\ LatestOf(Readable) \in Nat
            /\ LatestOf(Readable) = 0 \/ \E i \in Readable : Cp(Doc(i)) /\ Doc(i).ts = LatestOf(Readable)
            /\ \A i \in Readable : Cp(Doc(i)) => Doc(i).ts <= LatestOf(Readable)
        BY <1>2, LatestFacts
      <3>4. \A i \in Readable' : i \in Readable /\ Doc(i)' = Doc(i)
        BY <3>1 DEF Readable, Doc
      <3>5. hand'[q].cp = 0 \/ \E c \in Written' : Cp(c) /\ hand'[q].cp <= c.ts
        <4>1. CASE LatestOf(Readable) = 0
          BY <3>1, <3>2, <4>1
        <4>2. ASSUME NEW i \in Readable, Cp(Doc(i)), Doc(i).ts = LatestOf(Readable)
              PROVE  \E c \in Written' : Cp(c) /\ hand'[q].cp <= c.ts
          <5>1. Doc(i) \in Written'
            BY <1>2, <4>2, DocWritten
          <5>2. hand'[q].cp <= Doc(i).ts
            BY <3>1, <3>2, <3>3, <4>2
          <5> QED
            BY <4>2, <5>1, <5>2
        <4> QED
          BY <3>3, <4>1, <4>2
      <3> QED
        BY <3>1, <3>2, <3>3, <3>4, <3>5
    <2>2. CASE pc[q] = "read" /\ hand'[q] = hand[q]
      <3>1. mutex = q
        BY <2>2 DEF MutexInv, MutexOK
      <3>2. \A i \in Readable' : Cp(Doc(i)') => i \in Readable /\ Doc(i)' = Doc(i)
        BY <1>5, <2>2, <3>1
      <3> QED
        BY <1>2, <2>2, <3>2 DEF CpInv
    <2> QED
      BY <1>9, <2>1, <2>2, HandsView DEF HandView
  <1> QED
    BY <1>6, <1>7, <1>8, <1>9 DEF CpInv, Cp

LEMMA CpInit == Init => CpInv
  <1> SUFFICES ASSUME Init PROVE CpInv
    OBVIOUS
  <1>1. Readable = {}
    BY DEF Init, Readable
  <1>2. \A r \in Runs : hand[r].todo = <<>> /\ pc[r] = "start"
    BY DEF Init, Idle
  <1>3. \A r \in Runs : DOMAIN hand[r].todo = {}
    BY <1>2
  <1> QED
    BY <1>1, <1>2, <1>3 DEF CpInv

(* The latest checkpoint of the file's tail is the latest of the file.       *)
THEOREM TailHoldsLatestHolds == Spec => []TailHoldsLatest
  <1>1. TypeInv /\ CpInv => TailHoldsLatest
    BY TailIsLatest, TypeParts DEF OthersTyped
  <1> QED
    BY <1>1, TypeInit, TypeStep, MutexInit, MutexStep, CpInit, CpStep, PTL DEF Spec

-----------------------------------------------------------------------------
(* What checkpoints hide.  A compression has read every entry that was in    *)
(* the log when it read, but for what another compression had covered.       *)

Covered(i) ==
    \E c \in Written :
        /\ Cp(c)
        /\ Doc(i).text \subseteq c.seen \/ (i > c.logged /\ Doc(i).ts <= c.ts)

ReadBy(seen, n) ==
    /\ n <= Len(lines)
    /\ \A i \in Readable : (~Cp(Doc(i)) /\ i <= n) => Doc(i).text \subseteq seen \/ Covered(i)

StampInv ==
    /\ \A e \in Written : e.ts >= 1
    /\ \A r \in Runs : \A k \in DOMAIN hand[r].todo : hand[r].todo[k].ts >= 1

HideInv ==
    /\ \A c \in Written : Cp(c) => ReadBy(c.seen, c.logged)
    /\ \A r \in Runs : \A k \in DOMAIN hand[r].todo :
          Cp(hand[r].todo[k]) => ReadBy(hand[r].todo[k].seen, hand[r].todo[k].logged)
    /\ \A r \in Runs : pc[r] = "seal" => ReadBy(TextOf(hand[r].seen), hand[r].logged)
    /\ \A r \in Runs : pc[r] = "read" =>
          \A i \in Readable : (~Cp(Doc(i)) /\ Doc(i).ts <= hand[r].cp) => Covered(i)

LEMMA StampStep == TypeInv /\ StampInv /\ [Next]_vars => StampInv'
  <1> SUFFICES ASSUME TypeInv, StampInv, [Next]_vars
               PROVE  StampInv'
    OBVIOUS
  <1>1. now \in Nat /\ now >= 1
    BY ClockView
  <1>2. \A e \in Written' : e.ts >= 1
    <2>1. ASSUME NEW r \in Runs, NEW x \in Entries, pc[r] = "save", x = hand[r].todo[1],
                 \A e : e \in Written' <=> (e \in Written \/ e = x)
          PROVE  \A e \in Written' : e.ts >= 1
      <3>1. 1 \in DOMAIN hand[r].todo
        BY <2>1, HeadFacts
      <3> QED
        BY <2>1, <3>1 DEF StampInv
    <2> QED
      BY <2>1, ReadableView DEF StampInv
  <1>3. ASSUME NEW q \in Runs, NEW k \in DOMAIN hand'[q].todo
        PROVE  hand'[q].todo[k].ts >= 1
    <2>1. CASE AddMessage(q)
      <3>1. PICK id \in unused : hand'[q].todo = <<Entry(q, "message", id, now, {id})>>
        BY <2>1, AddTyped
      <3>2. hand'[q].todo[k] = Entry(q, "message", id, now, {id})
        BY <1>3, <3>1
      <3> QED
        BY <1>1, <3>2 DEF Entry
    <2>2. CASE CompressSeal(q)
      <3>1. PICK id \in unused : \E kept \in Seq(Entries) : Compressed(hand'[q].todo, q, id, kept)
        BY <2>2, SealFacts
      <3>2. PICK kept \in Seq(Entries) : Compressed(hand'[q].todo, q, id, kept)
        BY <3>1
      <3>3. hand'[q].todo[k].ts >= now /\ hand'[q].todo[k] \in Entries
        <4> DEFINE t == hand'[q].todo
        <4> HIDE DEF t
        <4>1. k \in DOMAIN t /\ Compressed(t, q, id, kept)
          BY <1>3, <3>2 DEF t
        <4>2. t \in Seq(Entries) /\ (k = 1 \/ k = 2 \/ k \in 3..(Len(kept) + 2))
          BY <4>1 DEF Compressed
        <4>3. t[k] \in Entries
          BY <4>1, <4>2
        <4>4. t[1].ts = now /\ t[2].ts = now + 1 /\ \A l \in 3..(Len(kept) + 2) : t[l].ts >= now
          BY <4>1 DEF Compressed
        <4>5. CASE k = 1
          BY <1>1, <4>3, <4>4, <4>5 DEF t
        <4>6. CASE k = 2
          BY <1>1, <4>3, <4>4, <4>6 DEF t
        <4>7. CASE k \in 3..(Len(kept) + 2)
          BY <4>3, <4>4, <4>7 DEF t
        <4> QED
          BY <4>2, <4>5, <4>6, <4>7
      <3>4. hand'[q].todo[k].ts \in Nat
        BY <3>3, EntryTyped
      <3> QED
        BY <1>1, <3>3, <3>4
    <2>3. CASE \A j \in DOMAIN hand'[q].todo : \E l \in DOMAIN hand[q].todo :
                  hand'[q].todo[j] = hand[q].todo[l]
      BY <1>3, <2>3 DEF StampInv
    <2> QED
      BY <2>1, <2>2, <2>3, HandsView DEF HandView
  <1> QED
    BY <1>2, <1>3 DEF StampInv

(* Covered entries stay covered, and what was read stays read.               *)
LEMMA CoveredKept ==
  ASSUME TypeInv, [Next]_vars
  PROVE  /\ \A i \in Readable' : (i \in Readable /\ Doc(i)' = Doc(i) /\ Covered(i)) => Covered(i)'
         /\ \A seen : \A n \in Nat : ReadBy(seen, n) => ReadBy(seen, n)'
  <1>1. \A e \in Written : e \in Written'
    BY ReadableView
  <1>2. ASSUME NEW i \in Readable', i \in Readable, Doc(i)' = Doc(i), Covered(i)
        PROVE  Covered(i)'
    BY <1>1, <1>2 DEF Covered, Cp
  <1>3. ASSUME NEW seen, NEW n \in Nat, ReadBy(seen, n)
        PROVE  ReadBy(seen, n)'
    <2>1. Len(lines) \in Nat /\ Len(lines') \in Nat /\ Len(lines) <= Len(lines') /\ n <= Len(lines)
      BY <1>3, ReadableView DEF ReadBy
    <2>2. ASSUME NEW i \in Readable', ~Cp(Doc(i)'), i <= n
          PROVE  Doc(i)'.text \subseteq seen \/ Covered(i)'
      <3>1. (i \in Readable /\ Doc(i)' = Doc(i)) \/ i = Len(lines) + 1
        BY <2>2, ReadableView
      <3>2. i \in Readable /\ Doc(i)' = Doc(i)
        BY <2>1, <2>2, <3>1
      <3> QED
        BY <1>2, <1>3, <2>2, <3>2 DEF ReadBy
    <2> QED
      BY <2>1, <2>2 DEF ReadBy, Cp
  <1> QED
    BY <1>2, <1>3

(* What the latest checkpoint hides is covered.                              *)
LEMMA HiddenCovered ==
  ASSUME TypeInv, CpInv, StampInv, HideInv, NEW i \in Readable, ~Cp(Doc(i)),
         Doc(i).ts <= find_latest_checkpoint
  PROVE  Covered(i)
  <1>1. LinesTyped
    BY TypeParts DEF OthersTyped
  <1>2. find_latest_checkpoint = LatestOf(Readable)
    BY <1>1, TailIsLatest DEF TailHoldsLatest
  <1>3. Doc(i) \in Written /\ Doc(i).ts >= 1 /\ Doc(i).ts \in Nat /\ i \in Nat
    BY <1>1, DocWritten, DocTyped, EntryTyped DEF StampInv
  <1>4. PICK j \in Readable : Cp(Doc(j)) /\ Doc(j).ts = find_latest_checkpoint
    BY <1>1, <1>2, <1>3, LatestFacts
  <1>5. Doc(j) \in Written /\ Doc(j).logged \in Nat
    BY <1>1, DocWritten, DocTyped, EntryTyped
  <1>6. CASE i > Doc(j).logged
    BY <1>4, <1>5, <1>6 DEF Covered
  <1>7. CASE i <= Doc(j).logged
    <2>1. ReadBy(Doc(j).seen, Doc(j).logged)
      BY <1>4, <1>5 DEF HideInv
    <2>2. Doc(i).text \subseteq Doc(j).seen \/ Covered(i)
      BY <1>7, <2>1 DEF ReadBy
    <2> QED
      BY <1>4, <1>5, <2>2 DEF Covered
  <1> QED
    BY <1>3, <1>5, <1>6, <1>7

LEMMA HideStep == TypeInv /\ MutexInv /\ CpInv /\ StampInv /\ HideInv /\ [Next]_vars => HideInv'
  <1> SUFFICES ASSUME TypeInv, MutexInv, CpInv, StampInv, HideInv, [Next]_vars
               PROVE  HideInv'
    OBVIOUS
  <1>1. LinesTyped /\ LinesTyped' /\ Len(lines) \in Nat /\ \A e \in Written : e \in Written'
    BY ReadableView
  <1>2. ASSUME NEW c \in Written', Cp(c)
        PROVE  ReadBy(c.seen, c.logged)'
    <2>1. c \in Entries /\ c.logged \in Nat
      <3>1. c \in Entries
        BY <1>1, <1>2, ReadableView, WrittenTyped
      <3> QED
        BY <3>1, EntryTyped
    <2>2. ReadBy(c.seen, c.logged)
      <3>1. CASE c \in Written
        BY <1>2, <3>1 DEF HideInv
      <3>2. ASSUME NEW r \in Runs, pc[r] = "save", c = hand[r].todo[1]
            PROVE  ReadBy(c.seen, c.logged)
        <4>1. 1 \in DOMAIN hand[r].todo
          BY <3>2, HeadFacts
        <4> QED
          BY <1>2, <3>2, <4>1 DEF HideInv
      <3> QED
        BY <1>2, <3>1, <3>2, ReadableView
    <2> QED
      BY <2>1, <2>2, CoveredKept
  <1>3. ASSUME NEW q \in Runs, NEW k \in DOMAIN hand'[q].todo, Cp(hand'[q].todo[k])
        PROVE  ReadBy(hand[q].todo[k].seen, hand[q].todo[k].logged)'
    <2>1. PICK c : c = hand'[q].todo[k]
      OBVIOUS
    <2>2. ReadBy(c.seen, c.logged) /\ c.logged \in Nat
      <3>1. CASE /\ 1 \in DOMAIN hand[q].todo /\ Cp(hand[q].todo[1]) /\ c = hand[q].todo[1]
        BY <3>1, HandTyped, EntryTyped DEF HideInv
      <3>2. ASSUME NEW id \in unused, NEW kept \in Seq(Entries), CompressSeal(q),
                   Compressed(hand'[q].todo, q, id, kept), c = hand'[q].todo[1]
            PROVE  ReadBy(c.seen, c.logged) /\ c.logged \in Nat
        <4>1. c.seen = TextOf(hand[q].seen) /\ c.logged = hand[q].logged
          BY <3>2 DEF Compressed
        <4>2. pc[q] = "seal"
          BY <3>2 DEF CompressSeal
        <4> QED
          BY <4>1, <4>2, HandTyped DEF HideInv
      <3> QED
        BY <1>3, <2>1, <3>1, <3>2, CpInHand
    <2>3. ReadBy(c.seen, c.logged)'
      BY <2>2, CoveredKept
    <2> QED
      BY <2>1, <2>3 DEF ReadBy
  <1>4. ASSUME NEW q \in Runs, pc'[q] = "seal"
        PROVE  ReadBy(TextOf(hand[q].seen), hand[q].logged)'
    <2>1. CASE CompressRead(q)
      <3>1. /\ pc[q] = "read" /\ hand'[q].seen = MessagesAfter(hand[q].cp)
            /\ hand'[q].logged = Len(lines)
        BY <1>4, <2>1, ReadTyped
      <3>a. PICK seen : seen = TextOf(MessagesAfter(hand[q].cp))
        OBVIOUS
      <3>b. PICK n \in Nat : n = Len(lines)
        BY <1>1
      <3>2. seen = TextOf(MessagesAfter(hand[q].cp)) /\ n = Len(lines)
        BY <3>a, <3>b
      <3>3. ASSUME NEW i \in Readable, ~Cp(Doc(i)), i <= n
            PROVE  Doc(i).text \subseteq seen \/ Covered(i)
        <4>1. Doc(i).ts \in Nat /\ hand[q].cp \in Nat
          BY <1>1, DocTyped, EntryTyped, HandTyped
        <4>2. CASE Doc(i).ts > hand[q].cp
          <5>1. i \in After(hand[q].cp)
            BY <3>3, <4>2 DEF After, Cp
          <5> QED
            BY <1>1, <3>2, <4>1, <5>1, TextAfter
        <4>3. CASE Doc(i).ts <= hand[q].cp
          BY <3>1, <3>3, <4>3 DEF HideInv
        <4> QED
          BY <4>1, <4>2, <4>3
      <3>4. ReadBy(seen, n)
        BY <1>1, <3>2, <3>3 DEF ReadBy
      <3>5. ReadBy(seen, n)'
        BY <3>2, <3>4, CoveredKept
      <3>6. TextOf(hand[q].seen)' = seen /\ hand'[q].logged = n
        BY <3>1, <3>2 DEF TextOf
      <3> QED
        BY <3>5, <3>6 DEF ReadBy
    <2>2. CASE pc[q] = "seal" /\ hand'[q] = hand[q]
      <3>a. PICK seen : seen = TextOf(hand[q].seen)
        OBVIOUS
      <3>b. PICK n \in Nat : n = hand[q].logged
        BY HandTyped
      <3>1. seen = TextOf(hand[q].seen) /\ n = hand[q].logged
        BY <3>a, <3>b
      <3>2. ReadBy(seen, n)
        BY <2>2, <3>1 DEF HideInv
      <3>3. ReadBy(seen, n)'
        BY <3>1, <3>2, CoveredKept
      <3>4. TextOf(hand[q].seen)' = seen /\ hand'[q].logged = n
        BY <2>2, <3>1 DEF TextOf
      <3> QED
        BY <3>3, <3>4 DEF ReadBy
    <2> QED
      BY <1>4, <2>1, <2>2, HandsView DEF HandView
  <1>5. ASSUME NEW q \in Runs, pc'[q] = "read", NEW i \in Readable', ~Cp(Doc(i)'),
               Doc(i)'.ts <= hand'[q].cp
        PROVE  Covered(i)'
    <2>1. CASE CompressFind(q)
      <3>1. lines' = lines /\ hand'[q].cp = find_latest_checkpoint
        BY <2>1, FindTyped DEF CompressFind, logVars
      <3>2. i \in Readable /\ Doc(i)' = Doc(i)
        BY <3>1 DEF Readable, Doc
      <3>3. Covered(i)
        BY <1>5, <3>1, <3>2, HiddenCovered
      <3> QED
        BY <3>2, <3>3, CoveredKept
    <2>2. CASE pc[q] = "read" /\ hand'[q] = hand[q] /\ i \in Readable /\ Doc(i)' = Doc(i)
      <3>1. Covered(i)
        BY <1>5, <2>2 DEF HideInv
      <3> QED
        BY <2>2, <3>1, CoveredKept
    <2>3. ASSUME pc[q] = "read", hand'[q] = hand[q],
                 NEW r \in Runs, NEW x \in Entries, pc[r] = "save", x = hand[r].todo[1],
                 i = Len(lines) + 1, Doc(i)' = x
          PROVE  Covered(i)'
      <3>1. 1 \in DOMAIN hand[r].todo /\ x.ts >= 1 /\ x.ts \in Nat
        BY <2>3, HeadFacts, EntryTyped DEF StampInv
      <3>2. x.ts <= hand[q].cp /\ hand[q].cp \in Nat
        BY <1>5, <2>3, HandTyped
      <3>3. hand[q].cp # 0
        BY <3>1, <3>2
      <3>4. PICK c \in Written : Cp(c) /\ hand[q].cp <= c.ts
        BY <2>3, <3>3 DEF CpInv
      <3>5. c.ts \in Nat /\ c.logged \in Nat /\ c.logged <= Len(lines)
        <4>1. c \in Entries
          BY <1>1, WrittenTyped
        <4> QED
          BY <3>4, <4>1, EntryTyped DEF HideInv, ReadBy
      <3>6. i > c.logged /\ x.ts <= c.ts
        BY <1>1, <2>3, <3>1, <3>2, <3>4, <3>5
      <3> QED
        BY <1>1, <2>3, <3>4, <3>6 DEF Covered, Cp
    <2> QED
      BY <1>5, <2>1, <2>2, <2>3, ReadableView, HandsView DEF HandView
  <1> QED
    BY <1>2, <1>3, <1>4, <1>5 DEF HideInv, Cp

LEMMA HideInit == Init => StampInv /\ HideInv
  <1> SUFFICES ASSUME Init PROVE StampInv /\ HideInv
    OBVIOUS
  <1>1. Readable = {} /\ Written = {}
    BY DEF Init, Readable, Written, ToSet
  <1>2. \A r \in Runs : hand[r].todo = <<>> /\ pc[r] = "start"
    BY DEF Init, Idle
  <1>3. \A r \in Runs : DOMAIN hand[r].todo = {}
    BY <1>2
  <1> QED
    BY <1>1, <1>2, <1>3 DEF StampInv, HideInv

-----------------------------------------------------------------------------
(* Ids.  Entries under one id have one text: a kept message is a copy of an  *)
(* entry of the log, a summary goes with its checkpoint.                     *)

Known(e) == e \in Written \/ \E r \in Runs : \E k \in DOMAIN hand[r].todo : e = hand[r].todo[k]

Agree(a, b) ==
    /\ ~Cp(a) /\ ~Cp(b) => a.text = b.text
    /\ Cp(a) /\ b.kind = "summary" => b.ts = a.ts + 1 /\ b.text = a.kept

SeenInv == \A r \in Runs : \A k \in DOMAIN hand[r].seen :
              hand[r].seen[k] \in Written /\ ~Cp(hand[r].seen[k])

IdInv ==
    /\ SeenInv
    /\ \A e : Known(e) => e.id \notin unused
    /\ \A a, b : Known(a) /\ Known(b) /\ a.id = b.id => Agree(a, b)

SealedInv == \A id \in sealed : \E s \in Written : s.kind = "summary" /\ s.id = id

LEMMA SeenStep == TypeInv /\ SeenInv /\ [Next]_vars => SeenInv'
  <1> SUFFICES ASSUME TypeInv, SeenInv, [Next]_vars, NEW q \in Runs, NEW k \in DOMAIN hand'[q].seen
               PROVE  hand'[q].seen[k] \in Written' /\ ~Cp(hand'[q].seen[k])
    BY DEF SeenInv, Cp
  <1>1. LinesTyped /\ \A e \in Written : e \in Written'
    BY ReadableView
  <1>2. CASE CompressRead(q)
    <2>1. hand'[q].seen = MessagesAfter(hand[q].cp) \/ hand'[q] = Idle
      BY <1>2, ReadTyped
    <2>2. hand'[q] # Idle
      <3>1. DOMAIN Idle.seen = {}
        BY DEF Idle
      <3> QED
        BY <3>1
    <2>3. After(hand[q].cp) \in SUBSET Readable
      BY DEF After
    <2>4. \E i \in After(hand[q].cp) : hand'[q].seen[k] = Doc(i)
      BY <1>1, <2>1, <2>2, <2>3, InStoreOrderFacts DEF MessagesAfter
    <2> QED
      BY <1>1, <2>3, <2>4, DocWritten DEF After, Cp
  <1>3. CASE \E l \in DOMAIN hand[q].seen : hand'[q].seen[k] = hand[q].seen[l]
    BY <1>1, <1>3 DEF SeenInv
  <1> QED
    BY <1>2, <1>3, HandsView DEF HandView

LEMMA UnusedView ==
  ASSUME TypeInv, [Next]_vars
  PROVE  (\E r \in Runs : AddMessage(r) \/ CompressSeal(r)) \/ unused' = unused
  <1>1. CASE Tick \/ Crash \/ UNCHANGED vars
    BY <1>1 DEF Tick, Crash, vars
  <1>2. ASSUME NEW r \in Runs, RunStep(r)
        PROVE  AddMessage(r) \/ CompressSeal(r) \/ unused' = unused
    <2>1. CASE Save(r) \/ WriteJson(r) \/ WriteNewline(r) \/ SaveFails(r)
      BY <2>1 DEF Save, WriteJson, WriteNewline, SaveFails
    <2>2. CASE CompressFind(r) \/ CompressRead(r) \/ BindNow(r) \/ BindRead(r) \/ BindWrite(r)
      BY <2>2 DEF CompressFind, CompressRead, BindNow, BindRead, BindWrite
    <2> QED
      BY <1>2, <2>1, <2>2 DEF RunStep
  <1> QED
    BY <1>1, <1>2 DEF Next

LEMMA KnownTyped ==
  ASSUME TypeInv, NEW e, Known(e)
  PROVE  e \in Entries
  <1>1. LinesTyped
    BY TypeParts DEF OthersTyped
  <1> QED
    BY <1>1, WrittenTyped, HandTyped DEF Known

(* An entry that is known, or a copy of one.                                 *)
Recorded(e) ==
    \E o : /\ Known(o) /\ o.id = e.id
           /\ e = o \/ (e.kind = "message" /\ ~Cp(o) /\ e.text = o.text)

(* A step takes at most one new id, for a message or for a checkpoint and    *)
(* its summary.                                                              *)
LEMMA KnownView ==
  ASSUME TypeInv, IdInv, [Next]_vars
  PROVE  \/ unused' = unused /\ \A e : Known(e)' => Recorded(e)
         \/ \E id \in unused : \E c, s :
               /\ unused' = unused \ {id}
               /\ s.kind = "summary" => s.ts = c.ts + 1 /\ s.text = c.kept
               /\ \A e : Known(e)' =>
                     \/ Recorded(e)
                     \/ e.id = id /\ ((Cp(e) /\ e = c) \/ (~Cp(e) /\ e = s))
  <1>1. \A e : Known(e) => Recorded(e)
    BY DEF Recorded
  <1>2. \A e \in Written' : Known(e)
    <2>1. ASSUME NEW r \in Runs, pc[r] = "save", NEW x, x = hand[r].todo[1]
          PROVE  Known(x)
      BY <2>1, HeadFacts DEF Known
    <2> QED
      BY <2>1, ReadableView DEF Known
  <1>3. CASE \A r \in Runs : ~AddMessage(r) /\ ~CompressSeal(r)
    <2>1. unused' = unused
      BY <1>3, UnusedView
    <2>2. ASSUME NEW e, Known(e)'
          PROVE  Known(e)
      <3>1. CASE e \in Written'
        BY <1>2, <3>1
      <3>2. ASSUME NEW q \in Runs, NEW k \in DOMAIN hand'[q].todo, e = hand'[q].todo[k]
            PROVE  Known(e)
        <4>1. \E l \in DOMAIN hand[q].todo : e = hand[q].todo[l]
          BY <1>3, <3>2, HandsView DEF HandView
        <4> QED
          BY <4>1 DEF Known
      <3> QED
        BY <2>2, <3>1, <3>2 DEF Known
    <2> QED
      BY <1>1, <2>1, <2>2
  <1>4. ASSUME NEW r \in Runs, \A q \in Runs \ {r} : hand'[q] = hand[q], NEW e, Known(e)'
        PROVE  Known(e) \/ \E k \in DOMAIN hand'[r].todo : e = hand'[r].todo[k]
    <2>1. CASE e \in Written'
      BY <1>2, <2>1
    <2>2. ASSUME NEW q \in Runs, NEW k \in DOMAIN hand'[q].todo, e = hand'[q].todo[k]
          PROVE  Known(e) \/ \E l \in DOMAIN hand'[r].todo : e = hand'[r].todo[l]
      BY <1>4, <2>2 DEF Known
    <2> QED
      BY <1>4, <2>1, <2>2 DEF Known
  <1>5. ASSUME NEW r \in Runs, AddMessage(r)
        PROVE  \E id \in unused : \E c, s :
                  /\ unused' = unused \ {id}
                  /\ s.kind = "summary" => s.ts = c.ts + 1 /\ s.text = c.kept
                  /\ \A e : Known(e)' =>
                        \/ Recorded(e)
                        \/ e.id = id /\ ((Cp(e) /\ e = c) \/ (~Cp(e) /\ e = s))
    <2>1. PICK id \in unused : /\ hand'[r].todo = <<Entry(r, "message", id, now, {id})>>
                               /\ unused' = unused \ {id}
      BY <1>5, AddTyped
    <2>2. PICK s : s = Entry(r, "message", id, now, {id})
      OBVIOUS
    <2>3. s.kind = "message" /\ s.id = id
      BY <2>2 DEF Entry
    <2>4. \A q \in Runs \ {r} : hand'[q] = hand[q]
      BY <1>5, AddTyped
    <2>5. \A k \in DOMAIN hand'[r].todo : hand'[r].todo[k] = s
      BY <2>1, <2>2
    <2>6. \A e : Known(e)' => Recorded(e) \/ e = s
      BY <1>1, <1>4, <2>4, <2>5
    <2> QED
      BY <2>1, <2>3, <2>6 DEF Cp
  <1>6. ASSUME NEW r \in Runs, CompressSeal(r)
        PROVE  \E id \in unused : \E c, s :
                  /\ unused' = unused \ {id}
                  /\ s.kind = "summary" => s.ts = c.ts + 1 /\ s.text = c.kept
                  /\ \A e : Known(e)' =>
                        \/ Recorded(e)
                        \/ e.id = id /\ ((Cp(e) /\ e = c) \/ (~Cp(e) /\ e = s))
    <2>1. PICK id \in unused : \E kept \in Seq(Entries) :
             /\ Compressed(hand'[r].todo, r, id, kept)
             /\ \A k \in DOMAIN kept : \E i \in DOMAIN hand[r].seen : kept[k] = hand[r].seen[i]
             /\ unused' = unused \ {id}
      BY <1>6, SealFacts
    <2>2. PICK kept \in Seq(Entries) :
             /\ Compressed(hand'[r].todo, r, id, kept)
             /\ \A k \in DOMAIN kept : \E i \in DOMAIN hand[r].seen : kept[k] = hand[r].seen[i]
             /\ unused' = unused \ {id}
      BY <2>1
    <2>3. PICK t : t = hand'[r].todo
      OBVIOUS
    <2>4. Compressed(t, r, id, kept)
      BY <2>2, <2>3
    <2>5. /\ t[1].kind = "checkpoint" /\ t[1].id = id /\ t[1].ts = now /\ t[1].kept = TextOf(kept)
          /\ t[2].kind = "summary" /\ t[2].id = id /\ t[2].ts = now + 1 /\ t[2].text = TextOf(kept)
      BY <2>4 DEF Compressed
    <2>6. \A q \in Runs \ {r} : hand'[q] = hand[q]
      BY <1>6, SealTyped
    <2>7. ASSUME NEW k \in 3..(Len(kept) + 2)
          PROVE  Recorded(t[k])
      <3>1. t[k].kind = "message" /\ k - 2 \in DOMAIN kept /\ t[k].id = kept[k - 2].id
            /\ t[k].text = kept[k - 2].text
        BY <2>4, <2>7 DEF Compressed
      <3>2. PICK o : o = kept[k - 2]
        OBVIOUS
      <3>3. PICK i \in DOMAIN hand[r].seen : o = hand[r].seen[i]
        BY <2>2, <3>1, <3>2
      <3>4. Known(o) /\ ~Cp(o)
        BY <3>3 DEF IdInv, SeenInv, Known
      <3> QED
        BY <3>1, <3>2, <3>4 DEF Recorded
    <2>8. ASSUME NEW e, Known(e)'
          PROVE  Recorded(e) \/ e = t[1] \/ e = t[2]
      <3>1. ASSUME NEW k \in DOMAIN t, e = t[k]
            PROVE  Recorded(e) \/ e = t[1] \/ e = t[2]
        <4>1. k = 1 \/ k = 2 \/ k \in 3..(Len(kept) + 2)
          BY <2>4, <3>1 DEF Compressed
        <4> QED
          BY <2>7, <3>1, <4>1
      <3> QED
        BY <1>1, <1>4, <2>3, <2>6, <2>8, <3>1
    <2>9. PICK c, s : c = t[1] /\ s = t[2]
      OBVIOUS
    <2>10. s.ts = c.ts + 1 /\ s.text = c.kept /\ Cp(c) /\ ~Cp(s) /\ c.id = id /\ s.id = id
      BY <2>5, <2>9 DEF Cp
    <2> QED
      BY <2>2, <2>8, <2>9, <2>10
  <1> QED
    BY <1>3, <1>5, <1>6

LEMMA IdStep == TypeInv /\ IdInv /\ [Next]_vars => IdInv'
  <1> SUFFICES ASSUME TypeInv, IdInv, [Next]_vars
               PROVE  IdInv'
    OBVIOUS
  <1>1. SeenInv'
    BY SeenStep DEF IdInv
  <1>2. \A e : Recorded(e) => e.id \notin unused
    BY DEF Recorded, IdInv
  <1>3. ASSUME NEW a, NEW b, Recorded(a), Recorded(b), a.id = b.id
        PROVE  Agree(a, b)
    <2>1. PICK o : /\ Known(o) /\ o.id = a.id
                   /\ a = o \/ (a.kind = "message" /\ ~Cp(o) /\ a.text = o.text)
      BY <1>3 DEF Recorded
    <2>2. PICK p : /\ Known(p) /\ p.id = b.id
                   /\ b = p \/ (b.kind = "message" /\ ~Cp(p) /\ b.text = p.text)
      BY <1>3 DEF Recorded
    <2>3. Agree(o, p)
      BY <1>3, <2>1, <2>2 DEF IdInv
    <2> QED
      BY <2>1, <2>2, <2>3 DEF Agree, Cp
  <1>4. \A a, b : Agree(a, b) => Agree(a, b)'
    BY DEF Agree, Cp
  <1>5. CASE unused' = unused /\ \A e : Known(e)' => Recorded(e)
    <2>1. \A e : Known(e)' => e.id \notin unused'
      BY <1>2, <1>5
    <2>2. \A a, b : Known(a)' /\ Known(b)' /\ a.id = b.id => Agree(a, b)'
      BY <1>3, <1>4, <1>5
    <2> QED
      BY <1>1, <2>1, <2>2 DEF IdInv
  <1>6. ASSUME NEW id \in unused, NEW c, NEW s, unused' = unused \ {id},
               s.kind = "summary" => s.ts = c.ts + 1 /\ s.text = c.kept,
               \A e : Known(e)' => \/ Recorded(e)
                                   \/ e.id = id /\ ((Cp(e) /\ e = c) \/ (~Cp(e) /\ e = s))
        PROVE  IdInv'
    <2>1. \A e : Known(e)' => e.id \notin unused'
      BY <1>2, <1>6
    <2>2. ASSUME NEW a, NEW b, Known(a)', Known(b)', a.id = b.id
          PROVE  Agree(a, b)
      <3>1. CASE Recorded(a)
        <4>1. Recorded(b)
          BY <1>2, <1>6, <2>2, <3>1
        <4> QED
          BY <1>3, <2>2, <3>1, <4>1
      <3>2. CASE ~Recorded(a)
        <4>1. a.id = id /\ ((Cp(a) /\ a = c) \/ (~Cp(a) /\ a = s))
          BY <1>6, <2>2, <3>2
        <4>2. ~Recorded(b)
          BY <1>2, <2>2, <4>1
        <4>3. (Cp(b) /\ b = c) \/ (~Cp(b) /\ b = s)
          BY <1>6, <2>2, <4>2
        <4> QED
          BY <1>6, <4>1, <4>3 DEF Agree, Cp
      <3> QED
        BY <3>1, <3>2
    <2>3. \A a, b : Known(a)' /\ Known(b)' /\ a.id = b.id => Agree(a, b)'
      BY <1>4, <2>2
    <2> QED
      BY <1>1, <2>1, <2>3 DEF IdInv
  <1> QED
    BY <1>5, <1>6, KnownView

LEMMA SealedStep == TypeInv /\ AckInv /\ SealedInv /\ [Next]_vars => SealedInv'
  <1> SUFFICES ASSUME TypeInv, AckInv, SealedInv, [Next]_vars, NEW id \in sealed'
               PROVE  \E s \in Written' : s.kind = "summary" /\ s.id = id
    BY DEF SealedInv
  <1>1. LinesTyped /\ \A e \in Written : e \in Written'
    BY ReadableView
  <1>2. CASE id \in sealed
    BY <1>1, <1>2 DEF SealedInv
  <1>3. ASSUME NEW r \in Runs, Save(r), id \notin sealed
        PROVE  \E s \in Written' : s.kind = "summary" /\ s.id = id
    <2>1. PICK x \in Entries : x = hand[r].todo[1] /\ Head(hand[r].todo) = x
      BY <1>3, SaveTyped, HeadFacts
    <2>2. x.kind = "summary" /\ x.id = id
      BY <1>3, <2>1 DEF Save, Acknowledge
    <2>3. x \in Written'
      BY <1>1, <1>3, <2>1, SaveTyped, GrowWritten
    <2> QED
      BY <2>2, <2>3
  <1>4. ASSUME NEW r \in Runs, WriteNewline(r), id \notin sealed
        PROVE  \E s \in Written' : s.kind = "summary" /\ s.id = id
    <2>1. PICK x \in Entries : x = hand[r].todo[1] /\ Head(hand[r].todo) = x
      BY <1>4, NewlineTyped, HeadFacts
    <2>2. x.kind = "summary" /\ x.id = id
      BY <1>4, <2>1 DEF WriteNewline, Acknowledge
    <2>3. Stands(x)
      BY <1>4, <2>1, NewlineTyped DEF AckInv
    <2>4. x \in Written
      BY <1>1, <2>3, WrittenFacts DEF Stands
    <2> QED
      BY <1>1, <2>2, <2>4
  <1>5. CASE sealed' = sealed
    BY <1>2, <1>5
  <1> QED
    BY <1>2, <1>3, <1>4, <1>5, WriteView DEF WriteJson

LEMMA UnspoiltDocs ==
  ASSUME LinesTyped, ~Spoilt, NEW e \in Written
  PROVE  \E i \in Readable : Doc(i) = e
  <1>1. PICK i \in DOMAIN lines : \E k \in DOMAIN lines[i] : e = lines[i][k]
    BY WrittenFacts
  <1>2. Len(lines[i]) \in Nat \ {0} /\ DOMAIN lines[i] = 1..Len(lines[i])
    BY LineTyped
  <1>3. Len(lines[i]) = 1
    BY <1>2, SpoiltFacts
  <1> QED
    BY <1>1, <1>2, <1>3 DEF Readable, Doc

LEMMA HiddenImplies ==
  ASSUME TypeInv, CpInv, StampInv, HideInv
  PROVE  HiddenWasReadOrRaced
  <1>1. ASSUME NEW i \in Readable, Doc(i).kind # "checkpoint", Doc(i).ts <= find_latest_checkpoint
        PROVE  \E c \in Written :
                  /\ c.kind = "checkpoint"
                  /\ Doc(i).text \subseteq c.seen \/ (i > c.logged /\ Doc(i).ts <= c.ts)
    <2>1. Covered(i)
      BY <1>1, HiddenCovered DEF Cp
    <2> QED
      BY <2>1 DEF Covered, Cp
  <1> QED
    BY <1>1 DEF HiddenWasReadOrRaced

LEMMA KeptImplies ==
  ASSUME TypeInv, CpInv, IdInv, SealedInv
  PROVE  KeptStaysReadable
  <1> SUFFICES ASSUME ~Spoilt, NEW c \in Saved, c.kind = "checkpoint",
                      c.ts = find_latest_checkpoint, c.id \in sealed
               PROVE  c.kept \subseteq TextOf(get_messages)
    BY DEF KeptStaysReadable
  <1>1. LinesTyped
    BY TypeParts DEF OthersTyped
  <1>2. c \in Written /\ c \in Entries /\ c.ts \in Nat
    BY <1>1, DocWritten, DocTyped, EntryTyped DEF Saved
  <1>3. PICK s \in Written : s.kind = "summary" /\ s.id = c.id
    BY DEF SealedInv
  <1>4. Agree(c, s)
    BY <1>2, <1>3 DEF IdInv, Known
  <1>5. s.ts = c.ts + 1 /\ s.text = c.kept
    BY <1>3, <1>4 DEF Agree, Cp
  <1>6. PICK i \in Readable : Doc(i) = s
    BY <1>1, UnspoiltDocs
  <1>7. i \in After(c.ts)
    BY <1>2, <1>3, <1>5, <1>6 DEF After
  <1>8. Doc(i).text \in SUBSET TextOf(MessagesAfter(c.ts))
    BY <1>1, <1>2, <1>7, TextAfter
  <1> QED
    BY <1>5, <1>6, <1>8 DEF get_messages

LEMMA IdInit == Init => IdInv /\ SealedInv
  <1> SUFFICES ASSUME Init PROVE IdInv /\ SealedInv
    OBVIOUS
  <1>1. Written = {} /\ sealed = {}
    BY DEF Init, Written, ToSet
  <1>2. \A r \in Runs : DOMAIN hand[r].todo = {} /\ DOMAIN hand[r].seen = {}
    BY DEF Init, Idle
  <1> QED
    BY <1>1, <1>2 DEF IdInv, SealedInv, SeenInv, Known

(* Compression loses nothing: what a checkpoint hides was read by a          *)
(* compression, or raced with one, and what the latest checkpoint kept is in *)
(* what get_messages returns unless two writers spoilt a line.               *)
THEOREM CompressionKeepsHolds == Spec => []CompressionKeeps
  <1>1. TypeInv /\ CpInv /\ StampInv /\ HideInv /\ IdInv /\ SealedInv => CompressionKeeps
    BY HiddenImplies, KeptImplies DEF CompressionKeeps
  <1>2. Init => TypeInv /\ MutexInv /\ CpInv /\ StampInv /\ HideInv
    BY TypeInit, MutexInit, CpInit, HideInit
  <1>3. Init => WriterInv /\ OpenInv /\ AckInv /\ IdInv /\ SealedInv
    BY AckInit, IdInit
  <1>4. TypeInv /\ MutexInv /\ CpInv /\ StampInv /\ HideInv /\ [Next]_vars
           => (TypeInv /\ MutexInv /\ CpInv /\ StampInv /\ HideInv)'
    BY TypeStep, MutexStep, CpStep, StampStep, HideStep
  <1>5. TypeInv /\ WriterInv /\ OpenInv /\ AckInv /\ IdInv /\ SealedInv /\ [Next]_vars
           => (WriterInv /\ OpenInv /\ AckInv /\ IdInv /\ SealedInv)'
    BY WriterStep, OpenStep, AckStep, IdStep, SealedStep
  <1> QED
    BY <1>1, <1>2, <1>3, <1>4, <1>5, PTL DEF Spec

-----------------------------------------------------------------------------
(* Fresh entries.  A message that add_message is saving and a summary have   *)
(* an id that no other entry has; only kept messages repeat an id.           *)

(* The entries a run has not written yet.                                    *)
Left(r) == {k \in DOMAIN hand[r].todo : pc[r] = "newline" => k # 1}

Fresh(r, k) ==
    hand[r].todo[k].kind = "summary" \/ (hand[r].todo[k].kind = "message" /\ mutex # r)

FreshInv ==
    \A r \in Runs : \A k \in Left(r) : Fresh(r, k) =>
        /\ \A e \in Written : ~Cp(e) => e.id # hand[r].todo[k].id
        /\ \A q \in Runs : \A l \in Left(q) :
              ((q # r \/ l # k) /\ ~Cp(hand[q].todo[l])) => hand[q].todo[l].id # hand[r].todo[k].id

(* What a run has left after a step it had left before, d places on.         *)
Moved(q, d) ==
    \A k \in Left(q)' :
        k + d \in Left(q) /\ hand'[q].todo[k] = hand[q].todo[k + d] /\ (mutex' = q <=> mutex = q)

LEMMA LeftTyped ==
  ASSUME TypeInv, NEW r \in Runs, NEW k \in Left(r)
  PROVE  k \in DOMAIN hand[r].todo /\ k \in Nat /\ hand[r].todo[k] \in Entries
  <1>1. k \in DOMAIN hand[r].todo
    BY DEF Left
  <1> QED
    BY <1>1, HandTyped

LEMMA LeftNext ==
  ASSUME TypeInv, [Next]_vars, NEW r \in Runs, NEW k \in Left(r)'
  PROVE  k \in DOMAIN hand'[r].todo /\ k \in Nat /\ hand'[r].todo[k] \in Entries
  <1>1. TypeInv'
    BY TypeStep
  <1>2. hand'[r].todo \in Seq(Entries)
    BY <1>1 DEF TypeInv, TypeOK, Hands
  <1>3. k \in DOMAIN hand'[r].todo
    BY DEF Left
  <1> QED
    BY <1>2, <1>3

LEMMA IdleMoved ==
  ASSUME NEW q, hand'[q].todo = <<>>
  PROVE  Moved(q, 0)
  <1>1. DOMAIN hand'[q].todo = {}
    OBVIOUS
  <1> QED
    BY <1>1 DEF Moved, Left

LEMMA SameMoved ==
  ASSUME TypeInv, NEW q \in Runs, hand'[q] = hand[q], pc'[q] = pc[q], mutex' = q <=> mutex = q
  PROVE  Moved(q, 0)
  <1>1. Left(q)' = Left(q)
    BY DEF Left
  <1>2. \A k \in Left(q) : k + 0 = k
    BY LeftTyped
  <1> QED
    BY <1>1, <1>2 DEF Moved

(* After a save.                                                             *)
LEMMA TailMoved ==
  ASSUME TypeInv, NEW r \in Runs, pc[r] \in {"save", "newline"},
         NEW rest \in {Tail(hand[r].todo), <<>>}, Proceed(r, rest)
  PROVE  Moved(r, 1) /\ \A k \in Left(r)' : k + 1 # 1
  <1>1. CASE hand'[r] = Idle
    <2>1. DOMAIN hand'[r].todo = {}
      BY <1>1 DEF Idle
    <2> QED
      BY <2>1 DEF Moved, Left
  <1>2. CASE /\ mutex' = mutex /\ DOMAIN hand'[r].todo = 1..Len(hand'[r].todo)
             /\ Len(hand'[r].todo) \in Nat
             /\ \A k \in DOMAIN hand'[r].todo :
                   k + 1 \in DOMAIN hand[r].todo /\ hand'[r].todo[k] = hand[r].todo[k + 1]
    <2>1. \A k \in DOMAIN hand'[r].todo : k + 1 # 1
      BY <1>2
    <2> QED
      BY <1>2, <2>1 DEF Moved, Left
  <1> QED
    BY <1>1, <1>2, ProceedFacts

(* A step of one run leaves the others what they hold.                       *)
LEMMA OthersKept ==
  ASSUME TypeInv, MutexInv, NEW r \in Runs, NEW q \in Runs, RunStep(r), q # r
  PROVE  hand'[q] = hand[q] /\ pc'[q] = pc[q] /\ (mutex' = q <=> mutex = q)
  <1>0. None # q /\ mutex \in Runs \union {None}
    BY SessionConstants DEF TypeInv, TypeOK
  <1>1. CASE AddMessage(r) \/ BindNow(r) \/ BindRead(r) \/ BindWrite(r)
    <2>1. mutex' = mutex
      BY <1>1 DEF AddMessage, BindNow, BindRead, BindWrite
    <2> QED
      BY <1>1, <2>1, AddTyped, BindNowTyped, BindReadTyped, BindWriteTyped
  <1>2. CASE Save(r) \/ WriteNewline(r) \/ SaveFails(r)
    <2>1. PICK rest \in {Tail(hand[r].todo), <<>>} : Proceed(r, rest)
      BY <1>2, SaveTyped, NewlineTyped, FailTyped
    <2>2. pc[r] \in {"save", "newline"}
      BY <1>2, SaveTyped, NewlineTyped, FailTyped
    <2> QED
      BY <2>1, <2>2, ProceedFacts
  <1>3. CASE WriteJson(r)
    BY <1>3, WriteTyped DEF WriteJson
  <1>4. CASE CompressFind(r) \/ CompressSeal(r)
    <2>1. mutex = None /\ mutex' = r
      BY <1>4 DEF CompressFind, CompressSeal
    <2> QED
      BY <1>0, <1>4, <2>1, FindTyped, SealTyped
  <1>5. CASE CompressRead(r)
    <2>1. mutex = r /\ mutex' = None
      BY <1>5, ReadTyped DEF CompressRead, MutexInv, MutexOK
    <2> QED
      BY <1>0, <1>5, <2>1, ReadTyped
  <1> QED
    BY <1>1, <1>2, <1>3, <1>4, <1>5 DEF RunStep

LEMMA LeftMoves ==
  ASSUME TypeInv, MutexInv, [Next]_vars, NEW q \in Runs, ~AddMessage(q), ~CompressSeal(q)
  PROVE  \E d \in {0, 1} : /\ Moved(q, d)
                           /\ Save(q) \/ WriteJson(q) => \A k \in Left(q)' : k + d # 1
  <1>1. CASE Save(q)
    BY <1>1, SaveTyped, TailMoved
  <1>2. CASE WriteJson(q)
    <2>1. hand' = hand /\ pc[q] = "save" /\ pc'[q] = "newline" /\ mutex' = mutex
      BY <1>2, WriteTyped DEF WriteJson
    <2>2. \A k \in Left(q)' : k \in Left(q) /\ k # 1
      BY <2>1 DEF Left
    <2>3. \A k \in Left(q) : k + 0 = k
      BY LeftTyped
    <2>4. Moved(q, 0) /\ \A k \in Left(q)' : k + 0 # 1
      BY <2>1, <2>2, <2>3 DEF Moved
    <2> QED
      BY <2>4
  <1>3. CASE ~Save(q) /\ ~WriteJson(q)
    <2>0. SUFFICES Moved(q, 0) \/ Moved(q, 1)
      BY <1>3
    <2>1. CASE Tick \/ UNCHANGED vars
      BY <2>1, SameMoved DEF Tick, vars
    <2>2. CASE Crash
      BY <2>2, CrashTyped, IdleMoved DEF Idle
    <2>3. ASSUME NEW r \in Runs, RunStep(r), q = r
          PROVE  Moved(q, 0) \/ Moved(q, 1)
      <3>1. CASE WriteNewline(r) \/ SaveFails(r)
        BY <2>3, <3>1, NewlineTyped, FailTyped, TailMoved
      <3>2. CASE CompressFind(r)
        <4>1. hand'[r].todo = hand[r].todo /\ hand[r] = Idle
          BY <3>2, FindTyped DEF CompressFind, TypeInv
        <4> QED
          BY <2>3, <4>1, IdleMoved DEF Idle
      <3>3. CASE CompressRead(r)
        BY <2>3, <3>3, ReadTyped, IdleMoved
      <3>4. CASE BindNow(r)
        <4>1. hand' = hand /\ pc[r] = "start"
          BY <3>4, BindNowTyped
        <4>2. hand[r] = Idle
          BY <4>1 DEF TypeInv
        <4> QED
          BY <2>3, <4>1, <4>2, IdleMoved DEF Idle
      <3>5. CASE BindRead(r) \/ BindWrite(r)
        BY <2>3, <3>5, BindReadTyped, BindWriteTyped, IdleMoved DEF Idle
      <3> QED
        BY <1>3, <2>3, <3>1, <3>2, <3>3, <3>4, <3>5 DEF RunStep
    <2>4. ASSUME NEW r \in Runs, RunStep(r), q # r
          PROVE  Moved(q, 0)
      BY <2>4, OthersKept, SameMoved
    <2> QED
      BY <2>1, <2>2, <2>3, <2>4 DEF Next
  <1> QED
    BY <1>1, <1>2, <1>3

(* A step writes one entry of one run, or leaves the log alone.              *)
LEMMA WriteSplit ==
  ASSUME TypeInv, [Next]_vars
  PROVE  \/ lines' = lines /\ Written' = Written
         \/ \E w \in Runs : \E x \in Entries :
               /\ Save(w) \/ WriteJson(w)
               /\ pc[w] = "save" /\ x = hand[w].todo[1] /\ Grows(x) /\ 1 \in Left(w)
               /\ \A e : e \in Written' <=> (e \in Written \/ e = x)
  <1>1. LinesTyped
    BY ReadableView
  <1>2. ASSUME NEW w \in Runs, Save(w) \/ WriteJson(w)
        PROVE  \E x \in Entries :
                  /\ pc[w] = "save" /\ x = hand[w].todo[1] /\ Grows(x) /\ 1 \in Left(w)
                  /\ \A e : e \in Written' <=> (e \in Written \/ e = x)
    <2>1. pc[w] = "save" /\ Grows(hand[w].todo[1])
      BY <1>2, SaveTyped, WriteTyped
    <2>2. PICK x \in Entries : x = hand[w].todo[1]
      BY <2>1, HeadFacts
    <2>3. 1 \in Left(w)
      BY <2>1, HeadFacts DEF Left
    <2> QED
      BY <1>1, <2>1, <2>2, <2>3, GrowWritten
  <1>3. lines' = lines => Written' = Written
    BY DEF Written
  <1> QED
    BY <1>2, <1>3, WriteView DEF WriteNewline

(* The kept messages that a compression is about to save are copies.         *)
LEMMA CopiesView ==
  ASSUME TypeInv, SeenInv, NEW r \in Runs, CompressSeal(r)
  PROVE  \E id \in unused :
            /\ unused' = unused \ {id}
            /\ 1 \in DOMAIN hand'[r].todo /\ Cp(hand'[r].todo[1])
            /\ hand'[r].todo[1].seen = TextOf(hand[r].seen)
            /\ \A k \in DOMAIN hand'[r].todo :
                  \/ k = 1
                  \/ k = 2 /\ hand'[r].todo[k].kind = "summary" /\ hand'[r].todo[k].id = id
                  \/ /\ hand'[r].todo[k].kind = "message"
                     /\ \E o \in Written : /\ ~Cp(o) /\ o.id = hand'[r].todo[k].id
                                           /\ hand'[r].todo[k].text = o.text
                     /\ hand'[r].todo[k].text \in SUBSET TextOf(hand[r].seen)
            /\ Distinct(hand[r].seen) => \A k, l \in DOMAIN hand'[r].todo :
                  (hand'[r].todo[k].kind = "message" /\ hand'[r].todo[l].kind = "message" /\ k # l)
                     => hand'[r].todo[k].id # hand'[r].todo[l].id
  <1>1. PICK id \in unused : \E kept \in Seq(Entries) :
           /\ Compressed(hand'[r].todo, r, id, kept)
           /\ \A k \in DOMAIN kept : \E i \in DOMAIN hand[r].seen : kept[k] = hand[r].seen[i]
           /\ Distinct(hand[r].seen) => Distinct(kept)
           /\ unused' = unused \ {id}
    BY SealFacts
  <1>2. PICK kept \in Seq(Entries) :
           /\ Compressed(hand'[r].todo, r, id, kept)
           /\ \A k \in DOMAIN kept : \E i \in DOMAIN hand[r].seen : kept[k] = hand[r].seen[i]
           /\ Distinct(hand[r].seen) => Distinct(kept)
           /\ unused' = unused \ {id}
    BY <1>1
  <1>3. PICK t : t = hand'[r].todo
    OBVIOUS
  <1>4. Compressed(t, r, id, kept) /\ Len(kept) \in Nat
    BY <1>2, <1>3
  <1>5. /\ DOMAIN t = 1..(Len(kept) + 2) /\ Cp(t[1]) /\ t[1].seen = TextOf(hand[r].seen)
        /\ t[2].kind = "summary" /\ t[2].id = id
        /\ \A k \in DOMAIN t : k = 1 \/ k = 2 \/ k \in 3..(Len(kept) + 2)
    BY <1>4 DEF Compressed, Cp
  <1>6. ASSUME NEW k \in 3..(Len(kept) + 2)
        PROVE  /\ t[k].kind = "message" /\ k - 2 \in DOMAIN kept /\ t[k].id = kept[k - 2].id
               /\ \E o \in Written : ~Cp(o) /\ o.id = t[k].id /\ t[k].text = o.text
               /\ t[k].text \in SUBSET TextOf(hand[r].seen)
    <2>1. t[k].kind = "message" /\ k - 2 \in DOMAIN kept /\ t[k].id = kept[k - 2].id
          /\ t[k].text = kept[k - 2].text
      BY <1>4, <1>6 DEF Compressed
    <2>2. PICK i \in DOMAIN hand[r].seen : kept[k - 2] = hand[r].seen[i]
      BY <1>2, <2>1
    <2>3. PICK o : o = hand[r].seen[i]
      OBVIOUS
    <2>4. o \in Written /\ ~Cp(o) /\ o.id = t[k].id /\ t[k].text = o.text
      BY <2>1, <2>2, <2>3 DEF SeenInv
    <2>5. o.text \in SUBSET TextOf(hand[r].seen)
      BY <2>3 DEF TextOf, ToSet
    <2> QED
      BY <2>1, <2>4, <2>5
  <1>7. ASSUME Distinct(kept), NEW k \in DOMAIN t, NEW l \in DOMAIN t,
               t[k].kind = "message", t[l].kind = "message", k # l
        PROVE  t[k].id # t[l].id
    <2>1. k \in 3..(Len(kept) + 2) /\ l \in 3..(Len(kept) + 2)
      BY <1>5, <1>7 DEF Cp
    <2>2. k - 2 \in DOMAIN kept /\ l - 2 \in DOMAIN kept /\ k - 2 # l - 2
      BY <1>6, <1>7, <2>1
    <2>3. kept[k - 2].id # kept[l - 2].id
      BY <1>7, <2>2 DEF Distinct
    <2> QED
      BY <1>6, <2>1, <2>3
  <1>8. 1 \in DOMAIN t
    BY <1>4, <1>5
  <1>9. \A k \in DOMAIN t :
           \/ k = 1
           \/ k = 2 /\ t[k].kind = "summary" /\ t[k].id = id
           \/ /\ t[k].kind = "message"
              /\ \E o \in Written : ~Cp(o) /\ o.id = t[k].id /\ t[k].text = o.text
              /\ t[k].text \in SUBSET TextOf(hand[r].seen)
    BY <1>5, <1>6
  <1>10. Distinct(hand[r].seen) => \A k, l \in DOMAIN t :
            t[k].kind = "message" /\ t[l].kind = "message" /\ k # l => t[k].id # t[l].id
    BY <1>2, <1>7
  <1>11. /\ 1 \in DOMAIN hand'[r].todo /\ Cp(hand'[r].todo[1])
         /\ hand'[r].todo[1].seen = TextOf(hand[r].seen)
    BY <1>3, <1>5, <1>8
  <1>12. \A k \in DOMAIN hand'[r].todo :
            \/ k = 1
            \/ k = 2 /\ hand'[r].todo[k].kind = "summary" /\ hand'[r].todo[k].id = id
            \/ /\ hand'[r].todo[k].kind = "message"
               /\ \E o \in Written : /\ ~Cp(o) /\ o.id = hand'[r].todo[k].id
                                     /\ hand'[r].todo[k].text = o.text
               /\ hand'[r].todo[k].text \in SUBSET TextOf(hand[r].seen)
    BY <1>3, <1>9
  <1>13. Distinct(hand[r].seen) => \A k, l \in DOMAIN hand'[r].todo :
            (hand'[r].todo[k].kind = "message" /\ hand'[r].todo[l].kind = "message" /\ k # l)
               => hand'[r].todo[k].id # hand'[r].todo[l].id
    BY <1>3, <1>10
  <1> QED
    BY <1>2, <1>11, <1>12, <1>13

LEMMA LeftKnown ==
  ASSUME TypeInv, IdInv, NEW r \in Runs, NEW k \in Left(r)
  PROVE  hand[r].todo[k].id \notin unused
  BY LeftTyped DEF IdInv, Known

LEMMA FreshStep == TypeInv /\ MutexInv /\ IdInv /\ FreshInv /\ [Next]_vars => FreshInv'
  <1> SUFFICES ASSUME TypeInv, MutexInv, IdInv, FreshInv, [Next]_vars,
                      NEW r \in Runs, NEW k \in Left(r)', Fresh(r, k)'
               PROVE  /\ \A e \in Written' : ~Cp(e) => e.id # hand'[r].todo[k].id
                      /\ \A q \in Runs : \A l \in Left(q)' :
                            ((q # r \/ l # k) /\ ~Cp(hand'[q].todo[l]))
                               => hand'[q].todo[l].id # hand'[r].todo[k].id
    BY DEF FreshInv, Cp
  <1>0. \A q \in Runs : \A l \in Left(q)' : l \in DOMAIN hand'[q].todo /\ l \in Nat
    BY LeftNext
  <1>1. \A e \in Written : e.id \notin unused
    BY DEF IdInv, Known
  <1>2. CASE \A q \in Runs : ~AddMessage(q) /\ ~CompressSeal(q)
    <2>1. PICK d \in {0, 1} : /\ Moved(r, d)
                              /\ Save(r) \/ WriteJson(r) => \A l \in Left(r)' : l + d # 1
      BY <1>2, LeftMoves
    <2>2. /\ k + d \in Left(r) /\ hand'[r].todo[k] = hand[r].todo[k + d]
          /\ Fresh(r, k + d)
      BY <2>1 DEF Moved, Fresh
    <2>3. ASSUME NEW e \in Written', ~Cp(e)
          PROVE  e.id # hand'[r].todo[k].id
      <3>1. CASE e \in Written
        BY <2>2, <2>3, <3>1 DEF FreshInv
      <3>2. ASSUME NEW w \in Runs, Save(w) \/ WriteJson(w), e = hand[w].todo[1], 1 \in Left(w)
            PROVE  e.id # hand'[r].todo[k].id
        <4>1. w # r \/ 1 # k + d
          BY <2>1, <3>2
        <4> QED
          BY <2>2, <2>3, <3>2, <4>1 DEF FreshInv
      <3> QED
        BY <2>3, <3>1, <3>2, WriteSplit
    <2>4. ASSUME NEW q \in Runs, NEW l \in Left(q)', q # r \/ l # k, ~Cp(hand'[q].todo[l])
          PROVE  hand'[q].todo[l].id # hand'[r].todo[k].id
      <3>1. CASE q = r
        <4>1. l + d \in Left(r) /\ hand'[r].todo[l] = hand[r].todo[l + d]
          BY <2>1, <2>4, <3>1 DEF Moved
        <4>2. l \in Nat
          BY <1>0, <2>4
        <4>3. k \in Nat /\ d \in Nat
          BY <1>0, <2>1
        <4>4. l + d # k + d
          BY <2>4, <3>1, <4>2, <4>3
        <4> QED
          BY <2>2, <2>4, <3>1, <4>1, <4>4 DEF FreshInv
      <3>2. CASE q # r
        <4>1. PICK c \in {0, 1} : Moved(q, c)
          BY <1>2, LeftMoves
        <4>2. l + c \in Left(q) /\ hand'[q].todo[l] = hand[q].todo[l + c]
          BY <2>4, <4>1 DEF Moved
        <4> QED
          BY <2>2, <2>4, <3>2, <4>2 DEF FreshInv
      <3> QED
        BY <3>1, <3>2
    <2> QED
      BY <2>3, <2>4
  <1>3. ASSUME NEW a \in Runs, AddMessage(a)
        PROVE  /\ \A e \in Written' : ~Cp(e) => e.id # hand'[r].todo[k].id
               /\ \A q \in Runs : \A l \in Left(q)' :
                     ((q # r \/ l # k) /\ ~Cp(hand'[q].todo[l]))
                        => hand'[q].todo[l].id # hand'[r].todo[k].id
    <2>1. PICK id \in unused : /\ hand'[a].todo = <<Entry(a, "message", id, now, {id})>>
                               /\ unused' = unused \ {id}
      BY <1>3, AddTyped
    <2>2. /\ \A q \in Runs \ {a} : hand'[q] = hand[q] /\ pc'[q] = pc[q]
          /\ mutex' = mutex /\ lines' = lines
      BY <1>3, AddTyped DEF AddMessage, logVars
    <2>3. Written' = Written
      BY <2>2 DEF Written
    <2>4. \A q \in Runs \ {a} : Left(q)' = Left(q)
      BY <2>2 DEF Left
    <2>5. \A l \in Left(a)' : l = 1 /\ hand'[a].todo[l].id = id
      <3>1. Entry(a, "message", id, now, {id}).id = id
        BY DEF Entry
      <3> QED
        BY <2>1, <3>1 DEF Left
    <2>6. \A q \in Runs : \A l \in Left(q) : hand[q].todo[l].id # id
      BY LeftKnown
    <2>7. CASE r = a
      BY <1>1, <2>2, <2>3, <2>4, <2>5, <2>6, <2>7
    <2>8. CASE r # a
      <3>1. k \in Left(r) /\ Fresh(r, k) /\ hand'[r] = hand[r]
        BY <2>2, <2>4, <2>8 DEF Fresh
      <3> QED
        BY <2>2, <2>3, <2>4, <2>5, <2>6, <2>8, <3>1 DEF FreshInv
    <2> QED
      BY <2>7, <2>8
  <1>4. ASSUME NEW a \in Runs, CompressSeal(a)
        PROVE  /\ \A e \in Written' : ~Cp(e) => e.id # hand'[r].todo[k].id
               /\ \A q \in Runs : \A l \in Left(q)' :
                     ((q # r \/ l # k) /\ ~Cp(hand'[q].todo[l]))
                        => hand'[q].todo[l].id # hand'[r].todo[k].id
    <2>1. PICK id \in unused :
             /\ 1 \in DOMAIN hand'[a].todo /\ Cp(hand'[a].todo[1])
             /\ \A l \in DOMAIN hand'[a].todo :
                   \/ l = 1
                   \/ l = 2 /\ hand'[a].todo[l].kind = "summary" /\ hand'[a].todo[l].id = id
                   \/ /\ hand'[a].todo[l].kind = "message"
                      /\ \E o \in Written : ~Cp(o) /\ o.id = hand'[a].todo[l].id
      BY <1>4, CopiesView DEF IdInv
    <2>2. /\ \A q \in Runs \ {a} : hand'[q] = hand[q] /\ pc'[q] = pc[q]
          /\ mutex = None /\ mutex' = a /\ lines' = lines /\ None \notin Runs
      BY <1>4, SealTyped, SessionConstants DEF CompressSeal, logVars
    <2>3. Written' = Written
      BY <2>2 DEF Written
    <2>4. \A q \in Runs \ {a} : Left(q)' = Left(q)
      BY <2>2 DEF Left
    <2>5. \A l \in Left(a)' : l \in DOMAIN hand'[a].todo
      BY DEF Left
    <2>6. \A q \in Runs : \A l \in Left(q) : hand[q].todo[l].id # id
      BY LeftKnown
    <2>7. CASE r = a
      <3>1. k = 2 /\ hand'[r].todo[k].id = id
        BY <1>0, <2>1, <2>2, <2>7 DEF Fresh, Cp
      <3>2. ASSUME NEW l \in Left(a)', l # 2, ~Cp(hand'[a].todo[l])
            PROVE  hand'[a].todo[l].id # id
        BY <1>1, <2>1, <2>5, <3>2
      <3> QED
        BY <1>1, <2>2, <2>3, <2>4, <2>6, <2>7, <3>1, <3>2
    <2>8. CASE r # a
      <3>1. k \in Left(r) /\ Fresh(r, k) /\ hand'[r] = hand[r]
        BY <2>2, <2>4, <2>8 DEF Fresh
      <3>2. \A e \in Written : ~Cp(e) => e.id # hand[r].todo[k].id
        BY <3>1 DEF FreshInv
      <3>3. ASSUME NEW l \in Left(a)', ~Cp(hand'[a].todo[l])
            PROVE  hand'[a].todo[l].id # hand[r].todo[k].id
        BY <2>1, <2>5, <2>6, <3>1, <3>2, <3>3
      <3> QED
        BY <2>2, <2>3, <2>4, <2>8, <3>1, <3>2, <3>3 DEF FreshInv
    <2> QED
      BY <2>7, <2>8
  <1> QED
    BY <1>2, <1>3, <1>4

-----------------------------------------------------------------------------
(* Copies.  Between two entries under one id there is a checkpoint that has  *)
(* read the text of both, the last one before the second of them.            *)

Excused == Overrun \/ Spoilt

LastBefore(j, n) ==
    /\ j \in Readable /\ j < n /\ Cp(Doc(j))
    /\ \A i \in Readable : j < i /\ i < n => ~Cp(Doc(i))

Apart ==
    \A p, q \in Readable :
        (p < q /\ ~Cp(Doc(p)) /\ ~Cp(Doc(q)) /\ Doc(p).id = Doc(q).id) =>
            \E j \in Readable : p < j /\ LastBefore(j, q) /\ Doc(q).text \subseteq Doc(j).seen

(* The checkpoint of this compression is still to be written.                *)
Unsealed(r) == 1 \in Left(r) /\ Cp(hand[r].todo[1])

Copies(r) == {k \in Left(r) : hand[r].todo[k].kind = "message"}

(* The last checkpoint of the log is that of the compression that r carries  *)
(* out, and r has written none of the copies that it still has to write.     *)
SealedBy(r, j) ==
    /\ LastBefore(j, Len(lines) + 1)
    /\ \A k \in Copies(r) :
          /\ hand[r].todo[k].text \subseteq Doc(j).seen
          /\ \A p \in Readable : j < p /\ ~Cp(Doc(p)) => Doc(p).id # hand[r].todo[k].id

Pending(r) ==
    /\ \A k, l \in Left(r) :
          (k # l /\ ~Cp(hand[r].todo[k]) /\ ~Cp(hand[r].todo[l]))
             => hand[r].todo[k].id # hand[r].todo[l].id
    /\ Unsealed(r) => \A k \in Copies(r) : hand[r].todo[k].text \subseteq hand[r].todo[1].seen
    /\ ~Unsealed(r) => \E j \in Readable : SealedBy(r, j)

SeenDistinct == \A r \in Runs : pc[r] = "seal" => Distinct(hand[r].seen)

CopiesPending == \A r \in Runs : mutex = r /\ pc[r] \in {"save", "newline"} => Pending(r)

CopyInv == Excused \/ (Apart /\ SeenDistinct /\ CopiesPending)

(* Without an excuse the log only grows by whole lines.                      *)
LEMMA CleanWrite ==
  ASSUME TypeInv, [Next]_vars, ~Excused', NEW w \in Runs, Save(w) \/ WriteJson(w)
  PROVE  /\ ~Excused /\ pc[w] = "save" /\ 1 \in Left(w) /\ hand[w].todo[1] \in Entries
         /\ Len(lines') = Len(lines) + 1
         /\ \A i : i \in Readable' <=> (i \in Readable \/ i = Len(lines) + 1)
         /\ \A i \in Readable : Doc(i)' = Doc(i)
         /\ \A i : i = Len(lines) + 1 => Doc(i)' = hand[w].todo[1]
  <1>1. LinesTyped
    BY ReadableView
  <1>2. pc[w] = "save" /\ Grows(hand[w].todo[1])
    BY SaveTyped, WriteTyped
  <1>3. PICK x \in Entries : x = hand[w].todo[1]
    BY <1>2, HeadFacts
  <1>4. 1 \in Left(w)
    BY <1>2, HeadFacts DEF Left
  <1>5. ~Spoilt' /\ ~Overrun'
    BY DEF Excused
  <1>6. /\ ~Spoilt /\ Len(lines') = Len(lines) + 1
        /\ \A i : i = Len(lines) + 1 => i \in Readable' /\ Doc(i)' = x
        /\ \A i \in Readable : i \in Readable' /\ Doc(i)' = Doc(i)
        /\ \A i \in Readable' : i \in Readable \/ i = Len(lines) + 1
    BY <1>1, <1>2, <1>3, <1>5, GrowDocs
  <1>7. ~Overrun
    BY <1>5, <1>6 DEF Overrun
  <1> QED
    BY <1>2, <1>3, <1>4, <1>6, <1>7 DEF Excused

LEMMA CleanView ==
  ASSUME TypeInv, [Next]_vars, ~Excused'
  PROVE  /\ ~Excused
         /\ \/ lines' = lines /\ Readable' = Readable /\ \A i : Doc(i)' = Doc(i)
            \/ \E w \in Runs : \E x \in Entries :
                  /\ Save(w) \/ WriteJson(w)
                  /\ pc[w] = "save" /\ x = hand[w].todo[1] /\ 1 \in Left(w)
                  /\ Len(lines') = Len(lines) + 1
                  /\ \A i : i \in Readable' <=> (i \in Readable \/ i = Len(lines) + 1)
                  /\ \A i \in Readable : Doc(i)' = Doc(i)
                  /\ \A i : i = Len(lines) + 1 => Doc(i)' = x
  <1>1. CASE lines' = lines
    <2>1. Readable' = Readable /\ \A i : Doc(i)' = Doc(i)
      BY <1>1 DEF Readable, Doc
    <2>2. ~Excused
      BY <1>1, <2>1 DEF Excused, Overrun, Spoilt
    <2> QED
      BY <1>1, <2>1, <2>2
  <1>2. CASE \E w \in Runs : Save(w) \/ WriteJson(w)
    BY <1>2, CleanWrite
  <1> QED
    BY <1>1, <1>2, WriteSplit

LEMMA ReadableNat ==
  ASSUME LinesTyped
  PROVE  Len(lines) \in Nat /\ \A i \in Readable : i \in Nat /\ i <= Len(lines)
  <1>1. Len(lines) \in Nat /\ DOMAIN lines = 1..Len(lines)
    BY DEF LinesTyped
  <1> QED
    BY <1>1 DEF Readable

(* What is read after a time that no checkpoint is later than has each id    *)
(* once.                                                                     *)
LEMMA ReadDistinct ==
  ASSUME TypeInv, IdInv, Apart, ~Overrun, NEW cp \in Nat,
         \A i \in Readable : Cp(Doc(i)) => Doc(i).ts <= cp
  PROVE  Distinct(MessagesAfter(cp))
  <1>1. LinesTyped
    BY TypeParts DEF OthersTyped
  <1>2. After(cp) \in SUBSET Readable
    BY DEF After
  <1>3. ASSUME NEW i \in After(cp), NEW j \in After(cp), i < j, Doc(i).id = Doc(j).id
        PROVE  FALSE
    <2>1. i \in Readable /\ j \in Readable /\ ~Cp(Doc(i)) /\ ~Cp(Doc(j)) /\ Doc(i).ts > cp
      BY <1>3 DEF After, Cp
    <2>2. PICK c \in Readable : i < c /\ LastBefore(c, j) /\ Doc(j).text \subseteq Doc(c).seen
      BY <1>3, <2>1 DEF Apart
    <2>3. Doc(i).text = Doc(j).text
      <3>1. Doc(i) \in Written /\ Doc(j) \in Written
        BY <1>1, <2>1, DocWritten
      <3>2. Agree(Doc(i), Doc(j))
        BY <1>3, <3>1 DEF IdInv, Known
      <3> QED
        BY <2>1, <3>2 DEF Agree
    <2>4. Doc(c).ts <= cp /\ Cp(Doc(c))
      BY <2>2 DEF LastBefore
    <2>5. Doc(i).ts \in Nat /\ Doc(c).ts \in Nat
      BY <1>1, <2>1, DocTyped, EntryTyped
    <2>6. Doc(i).ts > Doc(c).ts
      BY <2>1, <2>4, <2>5
    <2> QED
      BY <2>1, <2>2, <2>3, <2>4, <2>6 DEF Overrun, Cp
  <1>4. ASSUME NEW i \in After(cp), NEW j \in After(cp), i # j
        PROVE  Doc(i).id # Doc(j).id
    <2>1. i \in Nat /\ j \in Nat
      BY <1>1, <1>2, ReadableNat
    <2> QED
      BY <1>3, <1>4, <2>1
  <1>5. ASSUME NEW k \in DOMAIN MessagesAfter(cp), NEW l \in DOMAIN MessagesAfter(cp), k # l
        PROVE  MessagesAfter(cp)[k].id # MessagesAfter(cp)[l].id
    <2>1. PICK i, j \in After(cp) :
             i # j /\ MessagesAfter(cp)[k] = Doc(i) /\ MessagesAfter(cp)[l] = Doc(j)
      BY <1>1, <1>2, <1>5, InStoreOrderFacts DEF MessagesAfter
    <2> QED
      BY <1>4, <2>1
  <1> QED
    BY <1>5 DEF Distinct

LEMMA NoneTwice ==
  ASSUME TypeInv, CpInv, IdInv, CopyInv
  PROVE  LogOK
  <1>1. LinesTyped
    BY TypeParts DEF OthersTyped
  <1>2. find_latest_checkpoint = LatestOf(Readable)
    BY <1>1, TailIsLatest DEF TailHoldsLatest
  <1>3. /\ LatestOf(Readable) \in Nat
        /\ \A i \in Readable : Cp(Doc(i)) => Doc(i).ts <= LatestOf(Readable)
    BY <1>1, LatestFacts
  <1>4. ASSUME ~Overrun, ~Spoilt
        PROVE  Distinct(get_messages)
    <2>1. Apart
      BY <1>4 DEF CopyInv, Excused
    <2> QED
      BY <1>2, <1>3, <1>4, <2>1, ReadDistinct DEF get_messages
  <1>5. NoDuplicates
    BY <1>4 DEF NoDuplicates, Distinct
  <1> QED
    BY <1>5 DEF LogOK, TypeInv

LEMMA LastKept ==
  ASSUME TypeInv, [Next]_vars, ~Excused', NEW j, NEW n \in Nat, n <= Len(lines) + 1, LastBefore(j, n)
  PROVE  LastBefore(j, n)' /\ j \in Readable /\ Doc(j)' = Doc(j)
  <1>1. LinesTyped
    BY ReadableView
  <1>2. Len(lines) \in Nat /\ \A i \in Readable : i \in Nat /\ i <= Len(lines)
    BY <1>1, ReadableNat
  <1>3. CASE lines' = lines /\ Readable' = Readable /\ \A i : Doc(i)' = Doc(i)
    BY <1>3 DEF LastBefore, Cp
  <1>4. CASE /\ \A i : i \in Readable' <=> (i \in Readable \/ i = Len(lines) + 1)
             /\ \A i \in Readable : Doc(i)' = Doc(i)
    <2>1. \A i \in Readable' : i < n => i \in Readable
      BY <1>2, <1>4
    <2> QED
      BY <1>4, <2>1 DEF LastBefore, Cp
  <1> QED
    BY <1>3, <1>4, CleanView

(* An entry written by a run that is not saving a copy has a new id.         *)
LEMMA WrittenOnce ==
  ASSUME TypeInv, MutexInv, FreshInv, NEW w \in Runs, 1 \in Left(w), pc[w] = "save",
         ~Cp(hand[w].todo[1])
  PROVE  \/ mutex = w /\ hand[w].todo[1].kind = "message"
         \/ Fresh(w, 1) /\ \A p \in Readable : ~Cp(Doc(p)) => Doc(p).id # hand[w].todo[1].id
  <1>1. LinesTyped /\ hand[w].todo[1] \in Entries
    BY HeadFacts, TypeParts DEF OthersTyped
  <1>2. hand[w].todo[1].kind \in {"message", "summary"}
    BY <1>1, EntryTyped DEF Cp
  <1>3. CASE Fresh(w, 1)
    <2>1. \A e \in Written : ~Cp(e) => e.id # hand[w].todo[1].id
      BY <1>3 DEF FreshInv
    <2> QED
      BY <1>1, <1>3, <2>1, DocWritten
  <1> QED
    BY <1>2, <1>3 DEF Fresh

LEMMA ApartStep ==
  ASSUME TypeInv, MutexInv, FreshInv, CopyInv, [Next]_vars, ~Excused'
  PROVE  Apart'
  <1>1. ~Excused /\ Apart /\ CopiesPending
    BY CleanView DEF CopyInv
  <1>2. LinesTyped
    BY ReadableView
  <1>3. Len(lines) \in Nat /\ \A i \in Readable : i \in Nat /\ i <= Len(lines)
    BY <1>2, ReadableNat
  <1> SUFFICES ASSUME NEW p \in Readable', NEW q \in Readable', p < q,
                      ~Cp(Doc(p)'), ~Cp(Doc(q)'), Doc(p)'.id = Doc(q)'.id
               PROVE  \E j \in Readable' : /\ p < j /\ LastBefore(j, q)'
                                           /\ Doc(q)'.text \subseteq Doc(j)'.seen
    BY DEF Apart, Cp
  <1>4. ASSUME NEW j, p < j, NEW n \in Nat, n = q, n <= Len(lines) + 1, LastBefore(j, n),
               Doc(q)'.text \subseteq Doc(j).seen
        PROVE  \E c \in Readable' : /\ p < c /\ LastBefore(c, q)'
                                    /\ Doc(q)'.text \subseteq Doc(c)'.seen
    <2>1. LastBefore(j, n)' /\ Doc(j)' = Doc(j)
      BY <1>4, LastKept
    <2>2. j \in Readable'
      BY <2>1 DEF LastBefore
    <2>3. LastBefore(j, q)'
      BY <1>4, <2>1 DEF LastBefore
    <2> QED
      BY <1>4, <2>1, <2>2, <2>3
  <1>5. CASE p \in Readable /\ q \in Readable /\ Doc(p)' = Doc(p) /\ Doc(q)' = Doc(q)
    <2>1. PICK j \in Readable : p < j /\ LastBefore(j, q) /\ Doc(q).text \subseteq Doc(j).seen
      BY <1>1, <1>5 DEF Apart
    <2>2. q \in Nat /\ q <= Len(lines) + 1
      BY <1>3, <1>5
    <2> QED
      BY <1>4, <1>5, <2>1, <2>2
  <1>6. ASSUME NEW w \in Runs, NEW x \in Entries, pc[w] = "save", x = hand[w].todo[1], 1 \in Left(w),
               q = Len(lines) + 1, Doc(q)' = x, p \in Readable, Doc(p)' = Doc(p)
        PROVE  \E j \in Readable' : /\ p < j /\ LastBefore(j, q)'
                                    /\ Doc(q)'.text \subseteq Doc(j)'.seen
    <2>1. mutex = w /\ x.kind = "message"
      BY <1>6, WrittenOnce
    <2>2. Pending(w) /\ ~Unsealed(w) /\ 1 \in Copies(w)
      BY <1>1, <1>6, <2>1 DEF CopiesPending, Unsealed, Copies
    <2>3. PICK j \in Readable : SealedBy(w, j)
      BY <2>2 DEF Pending
    <2>4. /\ LastBefore(j, Len(lines) + 1) /\ x.text \subseteq Doc(j).seen
          /\ \A i \in Readable : j < i /\ ~Cp(Doc(i)) => Doc(i).id # x.id
      BY <1>6, <2>2, <2>3 DEF SealedBy
    <2>5. ~(j < p) /\ p # j
      BY <1>6, <2>4 DEF LastBefore
    <2>6. p < j
      BY <1>3, <1>6, <2>3, <2>5
    <2>7. PICK n \in Nat : n = Len(lines) + 1
      BY <1>3
    <2>8. n = q /\ n <= Len(lines) + 1 /\ LastBefore(j, n)
      BY <1>6, <2>4, <2>7
    <2> QED
      BY <1>4, <1>6, <2>4, <2>6, <2>8
  <1> QED
    <2>1. CASE lines' = lines /\ Readable' = Readable /\ \A i : Doc(i)' = Doc(i)
      BY <1>5, <2>1
    <2>2. ASSUME NEW w \in Runs, NEW x \in Entries, pc[w] = "save", x = hand[w].todo[1], 1 \in Left(w),
                 \A i : i \in Readable' <=> (i \in Readable \/ i = Len(lines) + 1),
                 \A i \in Readable : Doc(i)' = Doc(i), \A i : i = Len(lines) + 1 => Doc(i)' = x
          PROVE  \E j \in Readable' : /\ p < j /\ LastBefore(j, q)'
                                      /\ Doc(q)'.text \subseteq Doc(j)'.seen
      <3>1. p \in Readable
        BY <1>3, <2>2
      <3>2. q \in Readable \/ q = Len(lines) + 1
        BY <2>2
      <3> QED
        BY <1>5, <1>6, <2>2, <3>1, <3>2
    <2> QED
      BY <2>1, <2>2, CleanView

LEMMA SeenDistinctStep ==
  ASSUME TypeInv, MutexInv, CpInv, IdInv, CopyInv, [Next]_vars, ~Excused'
  PROVE  SeenDistinct'
  <1> SUFFICES ASSUME NEW q \in Runs, pc'[q] = "seal"
               PROVE  Distinct(hand[q].seen)'
    BY DEF SeenDistinct
  <1>1. ~Excused /\ Apart /\ SeenDistinct
    BY CleanView DEF CopyInv
  <1>2. PICK s : s = hand'[q].seen
    OBVIOUS
  <1>3. Distinct(s)
    <2>1. CASE CompressRead(q)
      <3>1. pc[q] = "read" /\ s = MessagesAfter(hand[q].cp)
        BY <1>2, <2>1, ReadTyped
      <3>2. hand[q].cp \in Nat /\ \A i \in Readable : Cp(Doc(i)) => Doc(i).ts <= hand[q].cp
        BY <3>1, HandTyped DEF CpInv
      <3> QED
        BY <1>1, <3>1, <3>2, ReadDistinct DEF Excused
    <2>2. CASE pc[q] = "seal" /\ hand'[q] = hand[q]
      BY <1>1, <1>2, <2>2 DEF SeenDistinct
    <2> QED
      BY <2>1, <2>2, HandsView DEF HandView
  <1> QED
    BY <1>2, <1>3 DEF Distinct

(* Who holds the mutex while it saves held it before or has just sealed, and *)
(* does not go on to the copies without having written the checkpoint.       *)
LEMMA HolderView ==
  ASSUME TypeInv, MutexInv, [Next]_vars, NEW q \in Runs, mutex' = q, pc'[q] \in {"save", "newline"},
         ~CompressSeal(q)
  PROVE  /\ mutex = q /\ pc[q] \in {"save", "newline"} /\ ~AddMessage(q)
         /\ Unsealed(q) => Save(q) \/ WriteJson(q) \/ Unsealed(q)'
  <1>0. MutexOK(q) /\ None # q
    BY SessionConstants DEF MutexInv
  <1>1. CASE hand'[q] = hand[q] /\ pc'[q] = pc[q] /\ mutex = q
    <2>1. Unsealed(q)' = Unsealed(q)
      BY <1>1 DEF Unsealed, Left, Cp
    <2> QED
      BY <1>1, <2>1 DEF AddMessage
  <1>2. CASE Tick \/ UNCHANGED vars
    BY <1>1, <1>2 DEF Tick, vars
  <1>3. CASE Crash
    BY <1>0, <1>3 DEF Crash
  <1>4. ASSUME NEW r \in Runs, RunStep(r), r # q
        PROVE  hand'[q] = hand[q] /\ pc'[q] = pc[q] /\ mutex = q
    BY <1>4, OthersKept
  <1>5. CASE RunStep(q)
    <2>1. CASE AddMessage(q)
      BY <1>0, <2>1 DEF AddMessage, MutexOK
    <2>2. CASE WriteJson(q)
      BY <2>2 DEF WriteJson, AddMessage
    <2>3. CASE CompressFind(q) \/ CompressRead(q) \/ BindNow(q) \/ BindRead(q) \/ BindWrite(q)
      BY <2>3, FindTyped, ReadTyped, BindNowTyped, BindReadTyped, BindWriteTyped
    <2>4. ASSUME NEW rest \in {Tail(hand[q].todo), <<>>}, Proceed(q, rest),
                 pc[q] \in {"save", "newline"}
          PROVE  mutex = q /\ rest # <<>>
      BY <2>4, ProceedFacts
    <2>5. CASE Save(q)
      BY <2>4, <2>5, SaveTyped DEF AddMessage
    <2>6. CASE WriteNewline(q)
      <3>1. pc[q] = "newline" /\ mutex = q
        BY <2>4, <2>6, NewlineTyped
      <3> QED
        BY <3>1 DEF Unsealed, Left, AddMessage
    <2>7. CASE SaveFails(q)
      <3>1. /\ pc[q] \in {"save", "newline"} /\ mutex = q
            /\ hand[q].todo[1].kind = "message"
        BY <2>4, <2>7, FailTyped
      <3> QED
        BY <3>1 DEF Unsealed, Cp, AddMessage
    <2> QED
      BY <1>5, <2>1, <2>2, <2>3, <2>5, <2>6, <2>7 DEF RunStep
  <1> QED
    BY <1>1, <1>2, <1>3, <1>4, <1>5 DEF Next

LEMMA SealPending ==
  ASSUME TypeInv, IdInv, CopyInv, ~Excused, NEW r \in Runs, CompressSeal(r)
  PROVE  Pending(r)'
  <1>1. Distinct(hand[r].seen)
    BY DEF CopyInv, SeenDistinct, CompressSeal
  <1>2. PICK id \in unused :
           /\ 1 \in DOMAIN hand'[r].todo /\ Cp(hand'[r].todo[1])
           /\ hand'[r].todo[1].seen = TextOf(hand[r].seen)
           /\ \A k \in DOMAIN hand'[r].todo :
                 \/ k = 1
                 \/ k = 2 /\ hand'[r].todo[k].kind = "summary" /\ hand'[r].todo[k].id = id
                 \/ /\ hand'[r].todo[k].kind = "message"
                    /\ \E o \in Written : ~Cp(o) /\ o.id = hand'[r].todo[k].id
                    /\ hand'[r].todo[k].text \in SUBSET TextOf(hand[r].seen)
           /\ \A k, l \in DOMAIN hand'[r].todo :
                 (hand'[r].todo[k].kind = "message" /\ hand'[r].todo[l].kind = "message" /\ k # l)
                    => hand'[r].todo[k].id # hand'[r].todo[l].id
    BY <1>1, CopiesView DEF IdInv
  <1>3. pc'[r] = "save" /\ \A k : k \in Left(r)' <=> k \in DOMAIN hand'[r].todo
    BY SealTyped DEF Left
  <1>4. PICK t : t = hand'[r].todo
    OBVIOUS
  <1>5. /\ 1 \in DOMAIN t /\ Cp(t[1]) /\ t[1].seen = TextOf(hand[r].seen)
        /\ \A k, l \in DOMAIN t :
              (t[k].kind = "message" /\ t[l].kind = "message" /\ k # l) => t[k].id # t[l].id
    BY <1>2, <1>4
  <1>6. \A k \in DOMAIN t :
           \/ k = 1
           \/ k = 2 /\ t[k].kind = "summary" /\ t[k].id = id
           \/ /\ t[k].kind = "message" /\ t[k].id # id
              /\ t[k].text \in SUBSET TextOf(hand[r].seen)
    <2>1. \A o \in Written : o.id # id
      BY DEF IdInv, Known
    <2> QED
      BY <1>2, <1>4, <2>1
  <1>7. ASSUME NEW k \in DOMAIN t, NEW l \in DOMAIN t, k # l, ~Cp(t[k]), ~Cp(t[l])
        PROVE  t[k].id # t[l].id
    BY <1>5, <1>6, <1>7
  <1>8. \A k \in DOMAIN t : t[k].kind = "message" => t[k].text \subseteq t[1].seen
    BY <1>5, <1>6 DEF Cp
  <1>9. Unsealed(r)'
    BY <1>3, <1>4, <1>5 DEF Unsealed, Cp
  <1>10. \A k, l \in Left(r)' :
            (k # l /\ ~Cp(hand'[r].todo[k]) /\ ~Cp(hand'[r].todo[l]))
               => hand'[r].todo[k].id # hand'[r].todo[l].id
    BY <1>3, <1>4, <1>7
  <1>11. \A k \in Copies(r)' : hand'[r].todo[k].text \subseteq hand'[r].todo[1].seen
    BY <1>3, <1>4, <1>8 DEF Copies
  <1> QED
    BY <1>9, <1>10, <1>11 DEF Pending, Cp

LEMMA PendingStep ==
  ASSUME TypeInv, MutexInv, IdInv, FreshInv, CopyInv, [Next]_vars, ~Excused',
         NEW r \in Runs, mutex' = r, pc'[r] \in {"save", "newline"}, ~CompressSeal(r)
  PROVE  Pending(r)'
  <1>1. ~Excused /\ CopiesPending
    BY CleanView DEF CopyInv
  <1>2. /\ mutex = r /\ pc[r] \in {"save", "newline"} /\ ~AddMessage(r)
        /\ Unsealed(r) => Save(r) \/ WriteJson(r) \/ Unsealed(r)'
    BY HolderView
  <1>3. Pending(r) /\ MutexOK(r)
    BY <1>1, <1>2 DEF CopiesPending, MutexInv
  <1>4. LinesTyped /\ LinesTyped' /\ Len(lines) \in Nat /\ \A i \in Readable : i \in Nat /\ i <= Len(lines)
    BY ReadableView, ReadableNat
  <1>5. PICK d \in {0, 1} : /\ Moved(r, d)
                            /\ Save(r) \/ WriteJson(r) => \A k \in Left(r)' : k + d # 1
    BY <1>2, LeftMoves
  <1>6. \A k \in Left(r)' : /\ k \in Nat /\ k + d \in Left(r)
                            /\ hand'[r].todo[k] = hand[r].todo[k + d]
    BY <1>5, LeftNext DEF Moved
  <1>7. \A k \in Copies(r)' : k \in Left(r)' /\ k + d \in Copies(r)
    BY <1>6 DEF Copies
  <1>8. ASSUME NEW k \in Left(r)', NEW l \in Left(r)', k # l,
               ~Cp(hand'[r].todo[k]), ~Cp(hand'[r].todo[l])
        PROVE  hand'[r].todo[k].id # hand'[r].todo[l].id
    <2>1. k + d # l + d
      BY <1>5, <1>6, <1>8
    <2>2. /\ k + d \in Left(r) /\ l + d \in Left(r)
          /\ hand'[r].todo[k] = hand[r].todo[k + d] /\ hand'[r].todo[l] = hand[r].todo[l + d]
      BY <1>6, <1>8
    <2> QED
      BY <1>3, <1>8, <2>1, <2>2 DEF Pending
  <1>9. ASSUME Unsealed(r)', NEW k \in Copies(r)'
        PROVE  hand'[r].todo[k].text \subseteq hand'[r].todo[1].seen
    <2>1. 1 \in Left(r)' /\ Cp(hand'[r].todo[1])
      BY <1>9 DEF Unsealed, Cp
    <2>2. 1 + d \in Left(r) /\ Cp(hand[r].todo[1 + d]) /\ hand'[r].todo[1] = hand[r].todo[1 + d]
      BY <1>6, <2>1
    <2>3. 1 + d = 1
      BY <1>3, <2>2 DEF MutexOK, Left
    <2>4. d = 0
      BY <1>5, <2>3
    <2>5. Unsealed(r) /\ hand'[r].todo[1] = hand[r].todo[1]
      BY <2>2, <2>3 DEF Unsealed
    <2>6. k \in Left(r)' /\ k + d \in Copies(r)
      BY <1>7, <1>9
    <2>7. hand'[r].todo[k] = hand[r].todo[k + d]
      BY <1>6, <2>6
    <2>8. hand[r].todo[k + d].text \subseteq hand[r].todo[1].seen
      BY <1>3, <2>5, <2>6 DEF Pending
    <2> QED
      BY <2>5, <2>7, <2>8
  <1>10. ASSUME ~Unsealed(r)', Unsealed(r)
         PROVE  \E j \in Readable' : SealedBy(r, j)'
    <2>1. Save(r) \/ WriteJson(r)
      BY <1>2, <1>10
    <2>2. PICK j \in Nat : j = Len(lines) + 1
      BY <1>4
    <2>3. PICK x : x = hand[r].todo[1]
      OBVIOUS
    <2>4. /\ Len(lines') = Len(lines) + 1 /\ j \in Readable' /\ Doc(j)' = x
          /\ \A i \in Readable' : i \in Nat /\ i <= j
      <3>1. /\ Len(lines') = Len(lines) + 1
            /\ \A i : i \in Readable' <=> (i \in Readable \/ i = Len(lines) + 1)
            /\ \A i : i = Len(lines) + 1 => Doc(i)' = x
        BY <2>1, <2>3, CleanWrite
      <3> QED
        BY <1>4, <2>2, <3>1
    <2>5. Cp(x)
      BY <1>10, <2>3 DEF Unsealed
    <2>6. \A i \in Readable' : ~(j < i)
      BY <2>2, <2>4
    <2>7. j < Len(lines') + 1
      BY <1>4, <2>2, <2>4
    <2>8. LastBefore(j, Len(lines) + 1)'
      BY <2>4, <2>5, <2>6, <2>7 DEF LastBefore, Cp
    <2>9. ASSUME NEW k \in Copies(r)'
          PROVE  hand'[r].todo[k].text \subseteq Doc(j)'.seen
      <3>1. k + d \in Copies(r) /\ hand'[r].todo[k] = hand[r].todo[k + d]
        BY <1>6, <1>7, <2>9
      <3>2. hand[r].todo[k + d].text \subseteq x.seen
        BY <1>3, <1>10, <2>3, <3>1 DEF Pending
      <3> QED
        BY <2>4, <3>1, <3>2
    <2> QED
      BY <2>4, <2>6, <2>8, <2>9 DEF SealedBy
  <1>11. ASSUME ~Unsealed(r)', ~Unsealed(r)
         PROVE  \E j \in Readable' : SealedBy(r, j)'
    <2>1. PICK j \in Readable : SealedBy(r, j)
      BY <1>3, <1>11 DEF Pending
    <2>2. /\ j < Len(lines) + 1 /\ Cp(Doc(j))
          /\ \A i \in Readable : j < i /\ i < Len(lines) + 1 => ~Cp(Doc(i))
      BY <2>1 DEF SealedBy, LastBefore
    <2>3. ASSUME NEW k \in Copies(r)'
          PROVE  /\ k + d \in Copies(r) /\ hand'[r].todo[k] = hand[r].todo[k + d]
                 /\ hand'[r].todo[k].text \subseteq Doc(j).seen
                 /\ \A p \in Readable : j < p /\ ~Cp(Doc(p)) => Doc(p).id # hand'[r].todo[k].id
      <3>1. k + d \in Copies(r) /\ hand'[r].todo[k] = hand[r].todo[k + d]
        BY <1>6, <1>7, <2>3
      <3> QED
        BY <2>1, <3>1 DEF SealedBy
    <2>4. CASE lines' = lines /\ Readable' = Readable /\ \A i : Doc(i)' = Doc(i)
      <3>1. LastBefore(j, Len(lines) + 1)'
        BY <2>1, <2>2, <2>4 DEF LastBefore, Cp
      <3>2. SealedBy(r, j)'
        BY <2>3, <2>4, <3>1 DEF SealedBy, Cp
      <3> QED
        BY <2>1, <2>4, <3>2
    <2>5. ASSUME NEW w \in Runs, NEW x \in Entries, Save(w) \/ WriteJson(w),
                 pc[w] = "save", x = hand[w].todo[1], 1 \in Left(w), Len(lines') = Len(lines) + 1,
                 \A i : i \in Readable' <=> (i \in Readable \/ i = Len(lines) + 1),
                 \A i \in Readable : Doc(i)' = Doc(i), \A i : i = Len(lines) + 1 => Doc(i)' = x
          PROVE  \E c \in Readable' : SealedBy(r, c)'
      <3>1. ~Cp(x)
        <4>1. SUFFICES ASSUME Cp(x) PROVE FALSE
          OBVIOUS
        <4>2. mutex = w
          BY <2>5, <4>1, HeadFacts DEF MutexInv, MutexOK
        <4> QED
          BY <1>2, <1>11, <2>5, <4>1, <4>2 DEF Unsealed
      <3>2. j < Len(lines') + 1 /\ j \in Readable' /\ Doc(j)' = Doc(j)
        BY <1>4, <2>1, <2>2, <2>5
      <3>3. \A i \in Readable' : j < i => ~Cp(Doc(i)')
        BY <1>4, <2>2, <2>5, <3>1
      <3>4. LastBefore(j, Len(lines) + 1)'
        BY <2>2, <3>2, <3>3 DEF LastBefore, Cp
      <3>5. ASSUME NEW k \in Copies(r)'
            PROVE  x.id # hand'[r].todo[k].id
        <4>1. PICK l : l = k + d
          OBVIOUS
        <4>2. l \in Left(r) /\ hand[r].todo[l].kind = "message" /\ hand'[r].todo[k] = hand[r].todo[l]
          BY <2>3, <3>5, <4>1 DEF Copies
        <4>3. ~Cp(hand[r].todo[l])
          BY <4>2 DEF Cp
        <4>4. CASE w = r
          <5>1. l # 1
            BY <1>5, <1>7, <2>5, <3>5, <4>1, <4>4
          <5> QED
            BY <1>3, <2>5, <3>1, <4>2, <4>3, <4>4, <5>1 DEF Pending
        <4>5. CASE w # r
          <5>1. Fresh(w, 1)
            BY <1>2, <2>5, <3>1, <4>5, WrittenOnce
          <5> QED
            BY <2>5, <4>2, <4>3, <4>5, <5>1 DEF FreshInv
        <4> QED
          BY <4>4, <4>5
      <3>6. \A k \in Copies(r)' :
               /\ hand'[r].todo[k].text \subseteq Doc(j)'.seen
               /\ \A p \in Readable' : j < p /\ ~Cp(Doc(p)') => Doc(p)'.id # hand'[r].todo[k].id
        BY <2>3, <2>5, <3>2, <3>5
      <3>7. SealedBy(r, j)'
        BY <3>4, <3>6 DEF SealedBy, Cp
      <3> QED
        BY <3>2, <3>7
    <2> QED
      BY <2>4, <2>5, CleanView
  <1> QED
    BY <1>8, <1>9, <1>10, <1>11 DEF Pending, Cp

LEMMA CopyStep ==
  TypeInv /\ MutexInv /\ CpInv /\ IdInv /\ FreshInv /\ CopyInv /\ [Next]_vars => CopyInv'
  <1> SUFFICES ASSUME TypeInv, MutexInv, CpInv, IdInv, FreshInv, CopyInv, [Next]_vars, ~Excused'
               PROVE  (Apart /\ SeenDistinct /\ CopiesPending)'
    BY DEF CopyInv
  <1>1. Apart' /\ SeenDistinct'
    BY ApartStep, SeenDistinctStep
  <1>2. ASSUME NEW r \in Runs, mutex' = r, pc'[r] \in {"save", "newline"}
        PROVE  Pending(r)'
    <2>1. CASE CompressSeal(r)
      BY <2>1, CleanView, SealPending
    <2>2. CASE ~CompressSeal(r)
      BY <1>2, <2>2, PendingStep
    <2> QED
      BY <2>1, <2>2
  <1> QED
    BY <1>1, <1>2 DEF CopiesPending

LEMMA CopyInit == Init => FreshInv /\ CopyInv
  <1> SUFFICES ASSUME Init PROVE FreshInv /\ CopyInv
    OBVIOUS
  <1>1. Readable = {} /\ \A r \in Runs : pc[r] = "start" /\ hand[r].todo = <<>>
    BY DEF Init, Readable, Idle
  <1>2. \A r \in Runs : Left(r) = {}
    <2>1. \A r \in Runs : DOMAIN hand[r].todo = {}
      BY <1>1
    <2> QED
      BY <2>1 DEF Left
  <1> QED
    BY <1>1, <1>2 DEF FreshInv, CopyInv, Apart, SeenDistinct, CopiesPending

(* The log has its types, and get_messages returns no message twice, but     *)
(* when a compression read an entry that its checkpoint does not hide or     *)
(* when two writers spoilt a line.                                           *)
THEOREM LogOKHolds == Spec => []LogOK
  <1>1. TypeInv /\ CpInv /\ IdInv /\ CopyInv => LogOK
    BY NoneTwice
  <1>2. Init => TypeInv /\ MutexInv /\ CpInv /\ IdInv /\ FreshInv /\ CopyInv
    BY TypeInit, MutexInit, CpInit, IdInit, CopyInit
  <1>3. TypeInv /\ MutexInv /\ CpInv /\ IdInv /\ FreshInv /\ CopyInv /\ [Next]_vars
           => (TypeInv /\ MutexInv /\ CpInv /\ IdInv /\ FreshInv /\ CopyInv)'
    BY TypeStep, MutexStep, CpStep, IdStep, FreshStep, CopyStep
  <1> QED
    BY <1>1, <1>2, <1>3, PTL DEF Spec
=============================================================================
