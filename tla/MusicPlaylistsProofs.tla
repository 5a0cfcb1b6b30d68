------------------------- MODULE MusicPlaylistsProofs -------------------------
(* The playlists of MusicPlaylists and the music page, for any number of     *)
(* tracks, playlists, sections, queries, requests and troubles.              *)
(*                                                                           *)
(* The tables. Whatever holes the positions have, Order is the one sequence  *)
(* that names the tracks by their positions (OrderSorts, SortsIsOrder), so   *)
(* that what an operation does to the rows is known once the sequence it     *)
(* should leave is found sorted by the rows it does leave. Stored says that  *)
(* a playlist has a position of its own for each of its tracks and none when *)
(* it is not there, that there is an identity left for every playlist about  *)
(* to be made, and what requests name.                                       *)
(*                                                                           *)
(* The page. Inv says what the requests remember: only the search of the     *)
(* last query counts as the last one, and what a fetch brings is a section;  *)
(* and that the field holds the last query, unless its timer is yet to fire. *)
EXTENDS MusicPlaylists, FiniteSetTheorems, SequenceTheorems, TLAPS

-------------------------------------------------------------------------------
(* The order of the rows.                                                    *)

(* The rows of a playlist: its tracks, each at a position of its own.        *)
Rows(rows) ==
  /\ rows \in [DOMAIN rows -> Nat] /\ DOMAIN rows \subseteq Tracks
  /\ \A t, u \in DOMAIN rows : rows[t] = rows[u] => t = u

(* The numbers from 1 to n.                                                  *)
LEMMA UpTo ==
  ASSUME NEW n \in Nat
  PROVE  IsFiniteSet(1..n) /\ Cardinality(1..n) = n
<1>1. 1 \in Int /\ n \in Int /\ (1 > n => n = 0)
  OBVIOUS
<1> QED
  BY <1>1, FS_Interval

(* How many tracks come before t.                                            *)
Rank(rows, t) == Cardinality(Before(rows, t))

(* A playlist has no more rows than there are tracks.                        *)
LEMMA RowsFinite ==
  ASSUME NEW rows, Rows(rows)
  PROVE  /\ IsFiniteSet(DOMAIN rows) /\ Cardinality(DOMAIN rows) \in Nat
         /\ Cardinality(DOMAIN rows) <= Cardinality(Tracks) /\ Cardinality(Tracks) \in Nat
BY PlaylistsAssumption, FS_Subset, FS_CardinalityType DEF Rows

(* A track comes before the end, and every rank is that of a track.          *)
LEMMA RankBetween ==
  ASSUME NEW rows, Rows(rows), NEW t \in DOMAIN rows
  PROVE  Rank(rows, t) \in 0..(Cardinality(DOMAIN rows) - 1)
<1>1. /\ IsFiniteSet(DOMAIN rows \ {t})
      /\ Cardinality(DOMAIN rows \ {t}) = Cardinality(DOMAIN rows) - 1
  BY RowsFinite, FS_RemoveElement
<1>2. Before(rows, t) \in SUBSET (DOMAIN rows \ {t})
  BY DEF Before, Rows
<1>3. Rank(rows, t) <= Cardinality(DOMAIN rows) - 1 /\ Rank(rows, t) \in Nat
  BY <1>1, <1>2, FS_Subset, FS_CardinalityType DEF Rank
<1> QED
  BY <1>3, RowsFinite

(* The ranks are in the order of the positions.                              *)
LEMMA RankGrows ==
  ASSUME NEW rows, Rows(rows), NEW t \in DOMAIN rows, NEW u \in DOMAIN rows, rows[t] < rows[u]
  PROVE  Rank(rows, t) < Rank(rows, u)
<1>1. Before(rows, t) \in SUBSET Before(rows, u)
  BY DEF Before, Rows
<1>2. t \in Before(rows, u) /\ t \notin Before(rows, t)
  BY DEF Before, Rows
<1>3. IsFiniteSet(Before(rows, u))
  BY RowsFinite, FS_Subset DEF Before
<1>4. Rank(rows, t) <= Rank(rows, u) /\ Rank(rows, t) # Rank(rows, u)
  BY <1>1, <1>2, <1>3, FS_Subset DEF Rank
<1> QED
  BY <1>4, RankBetween

(* The ranks are as many as the tracks: none is missing.                     *)
LEMMA RankFound ==
  ASSUME NEW rows, Rows(rows), NEW k \in 1..Cardinality(DOMAIN rows)
  PROVE  \E t \in DOMAIN rows : Rank(rows, t) = k - 1
<1> DEFINE n == Cardinality(DOMAIN rows)
           f == [t \in DOMAIN rows |-> Rank(rows, t)]
<1>1. n \in Nat
  BY RowsFinite
<1>2. f \in [DOMAIN rows -> 0..(n - 1)]
  BY RankBetween
<1>3. \A t, u \in DOMAIN rows : f[t] = f[u] => t = u
  <2> SUFFICES ASSUME NEW t \in DOMAIN rows, NEW u \in DOMAIN rows, t # u
               PROVE  f[t] # f[u]
    OBVIOUS
  <2>1. rows[t] < rows[u] \/ rows[u] < rows[t]
    BY DEF Rows
  <2>2. Rank(rows, t) \in Nat /\ Rank(rows, u) \in Nat
    BY RankBetween
  <2> QED
    BY <2>1, <2>2, RankGrows
<1>4. f \in Injection(DOMAIN rows, 0..(n - 1))
  BY <1>2, <1>3 DEF Injection, IsInjective
<1>5. IsFiniteSet(0..(n - 1)) /\ Cardinality(0..(n - 1)) = n
  <2>1. 0 \in Int /\ n - 1 \in Int /\ (0 > n - 1 => n = 0) /\ n - 1 - 0 + 1 = n
    BY <1>1
  <2> HIDE DEF n
  <2> QED
    BY <2>1, FS_Interval
<1>6. f \in Surjection(DOMAIN rows, 0..(n - 1))
  BY <1>4, <1>5, FS_Injection
<1>7. k - 1 \in 0..(n - 1)
  BY <1>1
<1> QED
  BY <1>6, <1>7 DEF Surjection

(* The tracks s names in the order of the positions in rows.                 *)
Sorts(s, rows) ==
  /\ s \in Seq(DOMAIN rows)
  /\ \A t \in DOMAIN rows : \E i \in 1..Len(s) : s[i] = t
  /\ \A i, j \in 1..Len(s) : i < j => rows[s[i]] < rows[s[j]]

(* Order is such an order.                                                   *)
LEMMA OrderSorts ==
  ASSUME NEW rows, Rows(rows)
  PROVE  Sorts(Order(rows), rows) /\ Len(Order(rows)) = Cardinality(DOMAIN rows)
<1> DEFINE n == Cardinality(DOMAIN rows)
           s == Order(rows)
<1>1. n \in Nat
  BY RowsFinite
<1>2. \A k \in 1..n : s[k] \in DOMAIN rows /\ Rank(rows, s[k]) = k - 1
  BY RankFound DEF Order, Rank
<1>3. DOMAIN s = 1..n /\ s = [k \in 1..n |-> s[k]]
  BY DEF Order
<1>4. s \in Seq(DOMAIN rows) /\ Len(s) = n
  <2> HIDE DEF n, s
  <2> QED
    BY <1>1, <1>2, <1>3
<1>5. ASSUME NEW t \in DOMAIN rows PROVE \E i \in 1..n : s[i] = t
  <2> DEFINE i == Rank(rows, t) + 1
  <2>1. i \in 1..n
    BY <1>1, RankBetween
  <2>2. s[i] \in DOMAIN rows /\ Rank(rows, s[i]) = Rank(rows, t)
    BY <1>2, <2>1, RankBetween
  <2>3. ~(rows[s[i]] < rows[t]) /\ ~(rows[t] < rows[s[i]])
    BY <2>2, RankGrows, RankBetween
  <2>4. rows[t] = rows[s[i]]
    BY <2>2, <2>3 DEF Rows
  <2> QED
    BY <2>1, <2>2, <2>4 DEF Rows
<1>6. ASSUME NEW i \in 1..n, NEW j \in 1..n, i < j PROVE rows[s[i]] < rows[s[j]]
  <2>1. s[i] \in DOMAIN rows /\ s[j] \in DOMAIN rows /\ Rank(rows, s[i]) < Rank(rows, s[j])
    BY <1>2, <1>6
  <2>2. ~(rows[s[j]] < rows[s[i]]) /\ rows[s[i]] # rows[s[j]]
    BY <2>1, RankGrows, RankBetween DEF Rows
  <2> QED
    BY <2>1, <2>2 DEF Rows
<1> HIDE DEF n, s
<1>7. Sorts(s, rows) /\ Len(s) = n
  BY <1>4, <1>5, <1>6 DEF Sorts
<1> QED
  BY <1>7 DEF n, s

(* There is only one such order.                                             *)
LEMMA SortsIsOrder ==
  ASSUME NEW rows, Rows(rows), NEW s, Sorts(s, rows)
  PROVE  s = Order(rows)
<1>1. s \in Seq(DOMAIN rows) /\ Len(s) \in Nat /\ \A i \in 1..Len(s) : s[i] \in DOMAIN rows
  BY DEF Sorts
<1>2. \A i \in 1..Len(s) : rows[s[i]] \in Nat
  BY <1>1 DEF Rows
<1>3. \A i, j \in 1..Len(s) : i < j => rows[s[i]] < rows[s[j]]
  BY DEF Sorts
<1>4. \A i, j \in 1..Len(s) : s[i] = s[j] => i = j
  <2> SUFFICES ASSUME NEW i \in 1..Len(s), NEW j \in 1..Len(s), s[i] = s[j] PROVE i = j
    OBVIOUS
  <2>1. ~(i < j) /\ ~(j < i)
    BY <1>2, <1>3
  <2> QED
    BY <1>1, <2>1
<1>5. ASSUME NEW k \in 1..Len(s) PROVE Rank(rows, s[k]) = k - 1
  <2> DEFINE f == [i \in 1..(k - 1) |-> s[i]]
  <2>1. \A i \in 1..(k - 1) : i \in 1..Len(s) /\ s[i] \in Before(rows, s[k])
    <3> SUFFICES ASSUME NEW i \in 1..(k - 1) PROVE i \in 1..Len(s) /\ s[i] \in Before(rows, s[k])
      OBVIOUS
    <3>1. i \in 1..Len(s) /\ i < k
      BY <1>1
    <3> QED
      BY <1>1, <1>3, <3>1 DEF Before
  <2>2. \A u \in Before(rows, s[k]) : \E i \in 1..(k - 1) : s[i] = u
    <3> SUFFICES ASSUME NEW u \in Before(rows, s[k]) PROVE \E i \in 1..(k - 1) : s[i] = u
      OBVIOUS
    <3>1. u \in DOMAIN rows /\ rows[u] < rows[s[k]]
      BY DEF Before
    <3>2. PICK i \in 1..Len(s) : s[i] = u
      BY <3>1 DEF Sorts
    <3>3. ~(k < i) /\ i # k
      BY <1>2, <1>3, <3>1, <3>2
    <3> QED
      BY <1>1, <3>2, <3>3
  <2>3. f \in [1..(k - 1) -> Before(rows, s[k])]
    BY <2>1
  <2>4. f \in Surjection(1..(k - 1), Before(rows, s[k]))
    BY <2>2, <2>3 DEF Surjection
  <2>5. f \in Injection(1..(k - 1), Before(rows, s[k]))
    BY <1>4, <2>1, <2>3 DEF Injection, IsInjective
  <2>6. IsFiniteSet(1..(k - 1)) /\ Cardinality(1..(k - 1)) = k - 1
    <3>1. k - 1 \in Nat
      BY <1>1
    <3> QED
      BY <3>1, UpTo
  <2> HIDE DEF f
  <2> QED
    BY <2>4, <2>5, <2>6, FS_Surjection DEF Rank
<1>6. Len(s) = Cardinality(DOMAIN rows)
  <2>1. s \in [1..Len(s) -> DOMAIN rows]
    BY <1>1
  <2>2. s \in Surjection(1..Len(s), DOMAIN rows)
    BY <2>1 DEF Surjection, Sorts
  <2>3. s \in Injection(1..Len(s), DOMAIN rows)
    BY <1>4, <2>1 DEF Injection, IsInjective
  <2>4. IsFiniteSet(1..Len(s)) /\ Cardinality(1..Len(s)) = Len(s)
    BY <1>1, UpTo
  <2> QED
    BY <2>2, <2>3, <2>4, FS_Surjection
<1>7. Sorts(Order(rows), rows) /\ Len(Order(rows)) = Cardinality(DOMAIN rows)
  BY OrderSorts
<1>8. ASSUME NEW k \in 1..Len(s) PROVE s[k] = Order(rows)[k]
  <2>1. Order(rows)[k] \in DOMAIN rows /\ Rank(rows, Order(rows)[k]) = k - 1
    BY <1>6, RankFound DEF Order, Rank
  <2>2. s[k] \in DOMAIN rows /\ Rank(rows, s[k]) = k - 1
    BY <1>1, <1>5
  <2>3. ~(rows[s[k]] < rows[Order(rows)[k]]) /\ ~(rows[Order(rows)[k]] < rows[s[k]])
    BY <2>1, <2>2, RankGrows, RankBetween
  <2> QED
    BY <2>1, <2>2, <2>3 DEF Rows
<1>9. Order(rows) \in Seq(DOMAIN rows)
  BY <1>7 DEF Sorts
<1> QED
  BY <1>1, <1>6, <1>7, <1>8, <1>9, SeqEqual

(* Rows of no track, in order, are no tracks.                                *)
LEMMA OrderOfNone ==
  ASSUME NEW rows, Rows(rows), DOMAIN rows = {}
  PROVE  Order(rows) = <<>>
<1>1. Sorts(<<>>, rows)
  BY DEF Sorts
<1> QED
  BY <1>1, SortsIsOrder

(* The sequences of PlaylistOrder.                                           *)
LEMMA OrderDistinct ==
  ASSUME NEW rows, Rows(rows)
  PROVE  /\ Order(rows) \in Lists!Distinct
         /\ ToSet(Order(rows)) = DOMAIN rows
         /\ Order(rows) \in Seq(Tracks)
<1> DEFINE s == Order(rows)
<1>1. Sorts(s, rows) /\ Len(s) = Cardinality(DOMAIN rows)
  BY OrderSorts
<1> HIDE DEF s
<1>2. s \in Seq(DOMAIN rows) /\ DOMAIN s = 1..Len(s) /\ \A i \in 1..Len(s) : s[i] \in DOMAIN rows
  BY <1>1 DEF Sorts
<1>3. Len(s) \in 0..Cardinality(Tracks)
  BY <1>1, RowsFinite
<1>4. s \in [1..Len(s) -> Tracks]
  BY <1>2 DEF Rows
<1>5. s \in SeqOf(Tracks, Cardinality(Tracks))
  BY <1>3, <1>4 DEF SeqOf
<1>6. IsInjective(s)
  <2> SUFFICES ASSUME NEW i \in 1..Len(s), NEW j \in 1..Len(s), s[i] = s[j] PROVE i = j
    BY <1>2 DEF IsInjective
  <2>1. rows[s[i]] \in Nat /\ rows[s[j]] \in Nat
    BY <1>2 DEF Rows
  <2>2. ~(i < j) /\ ~(j < i)
    BY <1>1, <2>1 DEF Sorts
  <2> QED
    BY <1>2, <2>2
<1>7. ToSet(s) = DOMAIN rows
  BY <1>1, <1>2 DEF ToSet, Sorts
<1>8. s \in Seq(Tracks)
  BY <1>2 DEF Rows
<1> QED
  <2>1. Lists!Cardinality(Tracks) = Cardinality(Tracks)
    BY DEF Lists!Cardinality, Cardinality
  <2>2. s \in Lists!SeqOf(Tracks, Lists!Cardinality(Tracks))
    BY <1>5, <2>1 DEF SeqOf, Lists!SeqOf
  <2>3. Lists!IsInjective(s)
    BY <1>6 DEF IsInjective, Lists!IsInjective
  <2> QED
    BY <1>7, <1>8, <2>2, <2>3 DEF Lists!Distinct, s

(* Positions of fewer tracks.                                                *)
LEMMA RestrictRows ==
  ASSUME NEW rows, Rows(rows), NEW T \in SUBSET DOMAIN rows
  PROVE  Rows(Restrict(rows, T)) /\ DOMAIN Restrict(rows, T) = T
<1> DEFINE some == Restrict(rows, T)
<1>1. DOMAIN some = T /\ \A t \in T : some[t] = rows[t]
  BY DEF Restrict
<1>2. some \in [T -> Nat]
  BY DEF Restrict, Rows
<1> HIDE DEF some
<1>3. Rows(some)
  BY <1>1, <1>2 DEF Rows
<1> QED
  BY <1>1, <1>3 DEF some

(* What is added goes last: its position is after every other one.           *)
LEMMA NextIsFree ==
  ASSUME NEW rows, Rows(rows)
  PROVE  NextPosition(rows) \in Nat /\ \A t \in DOMAIN rows : rows[t] < NextPosition(rows)
<1>1. CASE DOMAIN rows = {}
  BY <1>1 DEF NextPosition
<1>2. CASE DOMAIN rows # {}
  <2> DEFINE s == Order(rows)
             n == Len(s)
             S == {rows[t] : t \in DOMAIN rows}
  <2>1. Sorts(s, rows)
    BY OrderSorts
  <2> HIDE DEF s
  <2>2. n \in Nat /\ n # 0
    BY <1>2, <2>1 DEF Sorts
  <2>3. n \in 1..n /\ s[n] \in DOMAIN rows
    BY <2>1, <2>2 DEF Sorts
  <2>4. ASSUME NEW t \in DOMAIN rows PROVE rows[s[n]] >= rows[t]
    <3>1. PICK i \in 1..n : s[i] = t
      BY <2>1 DEF Sorts
    <3>2. i = n \/ rows[s[i]] < rows[s[n]]
      <4>1. i = n \/ i < n
        BY <2>2
      <4> QED
        BY <2>1, <2>3, <4>1 DEF Sorts
    <3> QED
      BY <2>3, <3>1, <3>2 DEF Rows
  <2>5. \E x \in S : \A y \in S : x >= y
    BY <2>3, <2>4
  <2>6. Max(S) \in S /\ \A y \in S : Max(S) >= y
    BY <2>5 DEF Max
  <2>7. S \subseteq Nat
    BY DEF Rows
  <2>8. NextPosition(rows) = Max(S) + 1
    BY <1>2 DEF NextPosition
  <2> HIDE DEF S
  <2>9. Max(S) \in Nat
    BY <2>6, <2>7
  <2>10. \A t \in DOMAIN rows : rows[t] \in S /\ rows[t] \in Nat
    BY DEF S, Rows
  <2> QED
    BY <2>6, <2>8, <2>9, <2>10
<1> QED
  BY <1>1, <1>2

(* The track that is inserted comes after those there were.                  *)
LEMMA InsertedLast ==
  ASSUME NEW rows, Rows(rows), NEW t \in Tracks, t \notin DOMAIN rows
  PROVE  /\ Rows(Inserted(rows, t)) /\ DOMAIN Inserted(rows, t) = DOMAIN rows \cup {t}
         /\ Order(Inserted(rows, t)) = Append(Order(rows), t)
<1> DEFINE new == Inserted(rows, t)
           next == NextPosition(rows)
           s == Order(rows)
           after == Append(s, t)
<1>1. next \in Nat /\ \A u \in DOMAIN rows : rows[u] < next
  BY NextIsFree
<1> HIDE DEF next
<1>2. new = [u \in DOMAIN rows \cup {t} |-> IF u = t THEN next ELSE rows[u]]
  <2>1. next \notin {rows[u] : u \in DOMAIN rows}
    BY <1>1 DEF Rows
  <2> QED
    BY <2>1 DEF Inserted, next
<1>3. DOMAIN new = DOMAIN rows \cup {t} /\ new[t] = next /\ \A u \in DOMAIN rows : new[u] = rows[u]
  BY <1>2
<1>4. new \in [DOMAIN rows \cup {t} -> Nat]
  BY <1>1, <1>2 DEF Rows
<1> HIDE DEF new
<1>5. Rows(new)
  <2>1. DOMAIN new \subseteq Tracks
    BY <1>3 DEF Rows
  <2>2. \A u, v \in DOMAIN new : new[u] = new[v] => u = v
    BY <1>1, <1>3 DEF Rows
  <2> QED
    BY <1>3, <1>4, <2>1, <2>2 DEF Rows
<1>6. Sorts(s, rows)
  BY OrderSorts
<1> HIDE DEF s
<1>7. s \in Seq(DOMAIN new) /\ Len(s) \in Nat
  BY <1>3, <1>6 DEF Sorts
<1>8. /\ after \in Seq(DOMAIN new) /\ Len(after) = Len(s) + 1
      /\ after[Len(s) + 1] = t /\ \A i \in 1..Len(s) : after[i] = s[i] /\ s[i] \in DOMAIN rows
  BY <1>3, <1>6, <1>7, AppendProperties DEF Sorts
<1> HIDE DEF after
<1>9. \A u \in DOMAIN new : \E i \in 1..Len(after) : after[i] = u
  <2> SUFFICES ASSUME NEW u \in DOMAIN new PROVE \E i \in 1..Len(after) : after[i] = u
    OBVIOUS
  <2>1. CASE u = t
    BY <1>7, <1>8, <2>1
  <2>2. CASE u # t
    <3>1. PICK i \in 1..Len(s) : s[i] = u
      BY <1>3, <1>6, <2>2 DEF Sorts
    <3> QED
      BY <1>7, <1>8, <3>1
  <2> QED
    BY <2>1, <2>2
<1>10. ASSUME NEW i \in 1..Len(after), NEW j \in 1..Len(after), i < j
       PROVE  new[after[i]] < new[after[j]]
  <2>1. i \in 1..Len(s) /\ new[after[i]] = rows[s[i]] /\ s[i] \in DOMAIN rows
    BY <1>3, <1>7, <1>8, <1>10
  <2>2. CASE j = Len(s) + 1
    BY <1>1, <1>3, <1>8, <2>1, <2>2
  <2>3. CASE j # Len(s) + 1
    <3>1. j \in 1..Len(s)
      BY <1>7, <1>8, <2>3
    <3>2. new[after[j]] = rows[s[j]]
      BY <1>3, <1>8, <3>1
    <3> QED
      BY <1>6, <1>10, <2>1, <3>1, <3>2 DEF Sorts
  <2> QED
    BY <2>2, <2>3
<1>11. Sorts(after, new)
  BY <1>8, <1>9, <1>10 DEF Sorts
<1>12. Order(new) = after
  BY <1>5, <1>11, SortsIsOrder
<1> QED
  BY <1>3, <1>5, <1>12 DEF new, after, s

(* Two sequences of tracks, one after the other.                             *)
LEMMA Joined ==
  ASSUME NEW a \in Seq(Tracks), NEW b \in Seq(Tracks)
  PROVE  /\ a \o b \in Seq(Tracks) /\ Len(a \o b) = Len(a) + Len(b)
         /\ \A j \in 1..(Len(a) + Len(b)) :
              (a \o b)[j] = IF j <= Len(a) THEN a[j] ELSE b[j - Len(a)]
BY ConcatProperties

(* PlaylistOrder's way of leaving a track out, position by position.         *)
LEMMA WithoutOne ==
  ASSUME NEW s \in Seq(Tracks), NEW i \in 1..Len(s),
         \A j, k \in 1..Len(s) : s[j] = s[k] => j = k
  PROVE  /\ Lists!Without(s, s[i]) \in Seq(Tracks)
         /\ Len(Lists!Without(s, s[i])) = Len(s) - 1
         /\ \A k \in 1..(Len(s) - 1) :
              Lists!Without(s, s[i])[k] = IF k < i THEN s[k] ELSE s[k + 1]
<1> DEFINE a == SubSeq(s, 1, i - 1)
           b == SubSeq(s, i + 1, Len(s))
<1>1. Len(s) \in Nat /\ i \in Nat /\ DOMAIN s = 1..Len(s)
  OBVIOUS
<1>2. s[i] \in Lists!ToSet(s)
  BY <1>1 DEF Lists!ToSet
<1>3. (CHOOSE j \in DOMAIN s : s[j] = s[i]) = i
  BY <1>1
<1>4. Lists!Without(s, s[i]) = a \o b
  BY <1>2, <1>3 DEF Lists!Without, Lists!RemoveAt
<1>5. a \in Seq(Tracks) /\ Len(a) = i - 1 /\ \A k \in 1..(i - 1) : a[k] = s[k]
  <2>1. 1 \in 1..(Len(s) + 1) /\ i - 1 \in 0..Len(s)
    BY <1>1
  <2>2. a = [k \in 1..(i - 1) |-> s[k]]
    BY <1>1
  <2>3. \A k \in 1..(i - 1) : s[k] \in Tracks
    BY <1>1
  <2> HIDE DEF a
  <2> QED
    BY <1>1, <2>2, <2>3
<1>6. b \in Seq(Tracks) /\ Len(b) = Len(s) - i /\ \A k \in 1..(Len(s) - i) : b[k] = s[i + k]
  <2>1. b = [k \in 1..(Len(s) - i) |-> s[i + k]]
    BY <1>1
  <2>2. \A k \in 1..(Len(s) - i) : s[i + k] \in Tracks
    BY <1>1
  <2>3. Len(s) - i \in Nat
    BY <1>1
  <2> HIDE DEF b
  <2> QED
    BY <2>1, <2>2, <2>3
<1> HIDE DEF a, b
<1>7. a \o b \in Seq(Tracks) /\ Len(a \o b) = Len(s) - 1
  <2>1. a \o b \in Seq(Tracks) /\ Len(a \o b) = Len(a) + Len(b)
    BY <1>5, <1>6, Joined
  <2> QED
    BY <1>1, <1>5, <1>6, <2>1
<1>8. ASSUME NEW k \in 1..(Len(s) - 1)
      PROVE  (a \o b)[k] = IF k < i THEN s[k] ELSE s[k + 1]
  <2>1. CASE k < i
    <3>1. k \in 1..Len(a)
      BY <1>1, <1>5, <2>1
    <3> QED
      BY <1>5, <1>6, <2>1, <3>1, Joined
  <2>2. CASE ~(k < i)
    <3>1. k - Len(a) \in 1..(Len(s) - i) /\ i + (k - Len(a)) = k + 1
      BY <1>1, <1>5, <2>2
    <3>2. k \in 1..(Len(a) + Len(b)) /\ ~(k <= Len(a))
      BY <1>1, <1>5, <1>6, <2>2
    <3>3. (a \o b)[k] = b[k - Len(a)]
      <4>1. \A j \in 1..(Len(a) + Len(b)) :
              (a \o b)[j] = IF j <= Len(a) THEN a[j] ELSE b[j - Len(a)]
        BY <1>5, <1>6, Joined
      <4> QED
        BY <3>2, <4>1
    <3> QED
      BY <1>6, <2>2, <3>1, <3>3
  <2> QED
    BY <2>1, <2>2
<1> QED
  BY <1>4, <1>7, <1>8

(* Removing a row leaves the other tracks in their order.                    *)
LEMMA LeftInOrder ==
  ASSUME NEW rows, Rows(rows), NEW t
  PROVE  /\ Rows(Left(rows, t)) /\ DOMAIN Left(rows, t) = DOMAIN rows \ {t}
         /\ Order(Left(rows, t)) = Lists!Without(Order(rows), t)
<1> DEFINE s == Order(rows)
           fewer == Left(rows, t)
           out == Lists!Without(s, t)
<1>1. Rows(fewer) /\ DOMAIN fewer = DOMAIN rows \ {t}
  BY RestrictRows DEF Left
<1>2. \A u \in DOMAIN rows \ {t} : fewer[u] = rows[u]
  BY DEF Left, Restrict
<1>3. Sorts(s, rows) /\ s \in Seq(Tracks) /\ ToSet(s) = DOMAIN rows
  BY OrderSorts, OrderDistinct
<1>4. \A j, k \in 1..Len(s) : s[j] = s[k] => j = k
  <2>1. IsInjective(s)
    <3>1. s \in Lists!Distinct
      BY OrderDistinct
    <3> QED
      BY <3>1 DEF Lists!Distinct, Lists!IsInjective, IsInjective
  <2> QED
    BY <1>3, <2>1 DEF IsInjective
<1> HIDE DEF s, fewer
<1>5. CASE t \notin DOMAIN rows
  <2>1. t \notin Lists!ToSet(s)
    BY <1>3, <1>5 DEF Lists!ToSet, ToSet
  <2>2. out = s
    BY <2>1 DEF Lists!Without
  <2>3. DOMAIN fewer = DOMAIN rows /\ \A u \in DOMAIN rows : fewer[u] = rows[u]
    BY <1>1, <1>2, <1>5
  <2>4. Sorts(s, fewer)
    <3>1. s \in Seq(DOMAIN fewer) /\ \A u \in DOMAIN fewer : \E i \in 1..Len(s) : s[i] = u
      BY <1>3, <2>3 DEF Sorts
    <3>2. \A i \in 1..Len(s) : fewer[s[i]] = rows[s[i]]
      BY <1>3, <2>3 DEF Sorts
    <3> QED
      BY <1>3, <3>1, <3>2 DEF Sorts
  <2> QED
    BY <1>1, <2>2, <2>4, SortsIsOrder DEF s, fewer
<1>6. CASE t \in DOMAIN rows
  <2>1. PICK i \in 1..Len(s) : s[i] = t
    BY <1>3, <1>6 DEF Sorts
  <2>2. /\ out \in Seq(Tracks) /\ Len(out) = Len(s) - 1
        /\ \A k \in 1..(Len(s) - 1) : out[k] = IF k < i THEN s[k] ELSE s[k + 1]
    BY <1>3, <1>4, <2>1, WithoutOne
  <2> HIDE DEF out
  <2>3. Len(s) \in Nat /\ i \in Nat
    BY <1>3, <2>1
  <2> DEFINE at(k) == IF k < i THEN k ELSE k + 1
  <2>4. \A k \in 1..Len(out) : at(k) \in 1..Len(s) /\ at(k) # i /\ out[k] = s[at(k)]
    BY <2>2, <2>3
  <2>5. \A k, l \in 1..Len(out) : k < l => at(k) < at(l)
    BY <2>2, <2>3
  <2>6. \A j \in 1..Len(s) : j # i => \E k \in 1..Len(out) : at(k) = j
    <3> SUFFICES ASSUME NEW j \in 1..Len(s), j # i PROVE \E k \in 1..Len(out) : at(k) = j
      OBVIOUS
    <3>1. CASE j < i
      BY <2>2, <2>3, <3>1
    <3>2. CASE ~(j < i)
      <4>1. j - 1 \in 1..Len(out) /\ ~(j - 1 < i) /\ (j - 1) + 1 = j
        BY <2>2, <2>3, <3>2
      <4> QED
        BY <4>1
    <3> QED
      BY <3>1, <3>2
  <2> HIDE DEF at
  <2>7. \A k \in 1..Len(out) : out[k] \in DOMAIN rows \ {t}
    <3> SUFFICES ASSUME NEW k \in 1..Len(out) PROVE out[k] \in DOMAIN rows \ {t}
      OBVIOUS
    <3>1. at(k) \in 1..Len(s) /\ at(k) # i /\ out[k] = s[at(k)]
      BY <2>4
    <3>2. s[at(k)] \in DOMAIN rows
      BY <1>3, <3>1, SMTT(30) DEF Sorts
    <3>3. s[at(k)] # t
      BY <1>4, <2>1, <3>1
    <3> QED
      BY <3>1, <3>2, <3>3
  <2>8. out \in Seq(DOMAIN fewer)
    BY <1>1, <2>2, <2>7
  <2>9. \A u \in DOMAIN fewer : \E k \in 1..Len(out) : out[k] = u
    <3> SUFFICES ASSUME NEW u \in DOMAIN rows, u # t PROVE \E k \in 1..Len(out) : out[k] = u
      BY <1>1
    <3>1. PICK j \in 1..Len(s) : s[j] = u
      BY <1>3 DEF Sorts
    <3>2. PICK k \in 1..Len(out) : at(k) = j
      BY <2>1, <2>6, <3>1
    <3> QED
      BY <2>4, <3>1, <3>2
  <2>10. ASSUME NEW k \in 1..Len(out), NEW l \in 1..Len(out), k < l
         PROVE  fewer[out[k]] < fewer[out[l]]
    <3>1. fewer[out[k]] = rows[s[at(k)]] /\ fewer[out[l]] = rows[s[at(l)]]
      BY <1>2, <2>4, <2>7
    <3>2. at(k) \in 1..Len(s) /\ at(l) \in 1..Len(s) /\ at(k) < at(l)
      BY <2>4, <2>5, <2>10
    <3> QED
      BY <1>3, <3>1, <3>2 DEF Sorts
  <2>11. Sorts(out, fewer)
    BY <2>8, <2>9, <2>10 DEF Sorts
  <2> QED
    BY <1>1, <2>11, SortsIsOrder DEF s, fewer, out
<1> QED
  BY <1>5, <1>6

(* Compacting gives every track of s a position of its own, those of s when  *)
(* it names none twice.                                                      *)
LEMMA CompactRows ==
  ASSUME NEW s \in Seq(Tracks)
  PROVE  Rows(Compact(s)) /\ DOMAIN Compact(s) = ToSet(s)
<1> DEFINE rows == Compact(s)
           first(t) == CHOOSE k \in 1..Len(s) : s[k] = t
<1>1. \A t \in ToSet(s) : \E k \in 1..Len(s) : s[k] = t
  BY DEF ToSet
<1>2. \A t \in ToSet(s) : first(t) \in 1..Len(s) /\ s[first(t)] = t
  BY <1>1
<1> HIDE DEF first
<1>3. rows = [t \in ToSet(s) |-> first(t) - 1]
  BY DEF Compact, first
<1> HIDE DEF rows
<1>4. DOMAIN rows = ToSet(s) /\ \A t \in ToSet(s) : rows[t] = first(t) - 1 /\ rows[t] \in Nat
  BY <1>2, <1>3
<1>5. rows \in [DOMAIN rows -> Nat]
  BY <1>3, <1>4
<1>6. DOMAIN rows \subseteq Tracks
  BY <1>2, <1>4
<1>7. ASSUME NEW t \in DOMAIN rows, NEW u \in DOMAIN rows, rows[t] = rows[u] PROVE t = u
  <2>1. first(t) = first(u)
    BY <1>2, <1>4, <1>7
  <2> QED
    BY <1>2, <1>4, <2>1
<1>8. Rows(rows)
  BY <1>5, <1>6, <1>7 DEF Rows
<1> QED
  BY <1>4, <1>8 DEF rows

LEMMA CompactInOrder ==
  ASSUME NEW s \in Seq(Tracks), \A j, k \in 1..Len(s) : s[j] = s[k] => j = k
  PROVE  Order(Compact(s)) = s
<1> DEFINE rows == Compact(s)
<1>1. Rows(rows) /\ DOMAIN rows = ToSet(s)
  BY CompactRows
<1>2. \A i \in 1..Len(s) : s[i] \in ToSet(s)
  BY DEF ToSet
<1>3. \A i \in 1..Len(s) : rows[s[i]] = i - 1
  BY <1>2 DEF Compact
<1> HIDE DEF rows
<1>4. s \in Seq(DOMAIN rows)
  BY <1>1, <1>2
<1>5. \A t \in DOMAIN rows : \E i \in 1..Len(s) : s[i] = t
  BY <1>1 DEF ToSet
<1>6. \A i, j \in 1..Len(s) : i < j => rows[s[i]] < rows[s[j]]
  BY <1>3
<1>7. Sorts(s, rows)
  BY <1>4, <1>5, <1>6 DEF Sorts
<1> QED
  BY <1>1, <1>7, SortsIsOrder DEF rows
-------------------------------------------------------------------------------
(* The tables, operation by operation.                                       *)

(* What PlaylistOrder sees: the playlists there are, the tracks of each.     *)
existing == {p \in Playlists : Exists(p)}
lists == [p \in Playlists |-> Order(pos[p])]

(* The tables: a playlist that is not there has no rows.                     *)
Tabled ==
  /\ names \in [Playlists -> Names \cup {Unused, Deleted}]
  /\ pos = [p \in Playlists |-> pos[p]]
  /\ \A p \in Playlists : Rows(pos[p]) /\ (Exists(p) \/ DOMAIN pos[p] = {})

(* A change of the rows of one playlist.                                     *)
LEMMA OneList ==
  ASSUME Tabled, NEW p \in Playlists, Exists(p), UNCHANGED names,
         NEW rows, Rows(rows), pos' = [pos EXCEPT ![p] = rows]
  PROVE  /\ Tabled' /\ UNCHANGED existing /\ p \in existing
         /\ lists' = [lists EXCEPT ![p] = Order(rows)]
<1>1. pos'[p] = rows /\ \A q \in Playlists \ {p} : pos'[q] = pos[q]
  BY DEF Tabled
<1>2. pos' = [q \in Playlists |-> pos'[q]]
  BY DEF Tabled
<1>3. \A q \in Playlists : Exists(q)' <=> Exists(q)
  BY DEF Exists
<1>4. Tabled'
  BY <1>1, <1>2, <1>3 DEF Tabled
<1>5. UNCHANGED existing /\ p \in existing
  BY <1>3 DEF existing
<1>6. lists' = [lists EXCEPT ![p] = Order(rows)]
  <2>1. \A q \in Playlists : Order(pos'[q]) = IF q = p THEN Order(rows) ELSE lists[q]
    BY <1>1 DEF lists
  <2>2. lists' = [q \in Playlists |-> Order(pos'[q])] /\ lists = [q \in Playlists |-> lists[q]]
    BY DEF lists
  <2>3. lists' = [q \in Playlists |-> IF q = p THEN Order(rows) ELSE lists[q]]
    BY <2>1, <2>2
  <2> QED
    BY <2>2, <2>3
<1> QED
  BY <1>4, <1>5, <1>6

(* The operations, each as a step of PlaylistOrder.                          *)
LEMMA AddStep ==
  ASSUME Tabled, NEW p \in Playlists, NEW t \in Tracks, Add(p, t)
  PROVE  Tabled' /\ [Lists!Next]_<<existing, lists>> /\ t \in DOMAIN pos'[p]
<1> DEFINE rows == pos[p]
<1>1. Exists(p) /\ UNCHANGED names /\ pos' = [pos EXCEPT ![p] = Inserted(rows, t)] /\ Rows(rows)
  BY DEF Add, CanAdd, Tabled
<1>2. pos'[p] = Inserted(rows, t)
  BY <1>1 DEF Tabled
<1>3. CASE t \in DOMAIN rows
  <2>1. Inserted(rows, t) = rows
    BY <1>3 DEF Inserted
  <2>2. /\ Tabled' /\ UNCHANGED existing
        /\ lists' = [lists EXCEPT ![p] = Order(rows)]
    BY <1>1, <2>1, OneList
  <2>3. lists' = lists
    BY <2>2 DEF lists
  <2> QED
    BY <1>2, <1>3, <2>1, <2>2, <2>3
<1>4. CASE t \notin DOMAIN rows
  <2>1. /\ Rows(Inserted(rows, t)) /\ DOMAIN Inserted(rows, t) = DOMAIN rows \cup {t}
        /\ Order(Inserted(rows, t)) = Append(Order(rows), t)
    BY <1>1, <1>4, InsertedLast
  <2>2. /\ Tabled' /\ UNCHANGED existing /\ p \in existing
        /\ lists' = [lists EXCEPT ![p] = Append(Order(rows), t)]
    BY <1>1, <2>1, OneList
  <2>3. t \notin Lists!ToSet(lists[p]) /\ lists[p] = Order(rows)
    BY <1>1, <1>4, OrderDistinct DEF lists, ToSet, Lists!ToSet
  <2>4. Lists!Append1(p, t)
    BY <2>2, <2>3 DEF Lists!Append1, existing, lists
  <2>5. Lists!Next
    BY <2>4 DEF Lists!Next
  <2> QED
    BY <1>2, <2>1, <2>2, <2>5
<1> QED
  BY <1>3, <1>4

LEMMA TakeOutStep ==
  ASSUME Tabled, NEW p \in Playlists, NEW t, TakeOut(p, t)
  PROVE  Tabled' /\ [Lists!Next]_<<existing, lists>>
<1> DEFINE rows == pos[p]
           out == Order(Left(rows, t))
<1>1. /\ Exists(p) /\ UNCHANGED names /\ t \in DOMAIN rows /\ Rows(rows)
      /\ pos' = [pos EXCEPT ![p] = Compact(out)]
  BY DEF TakeOut, CanTakeOut, Closed, Tabled
<1>2. Rows(Left(rows, t)) /\ out = Lists!Without(Order(rows), t)
  BY <1>1, LeftInOrder
<1>3. out \in Seq(Tracks) /\ \A j, k \in 1..Len(out) : out[j] = out[k] => j = k
  BY <1>2, OrderDistinct DEF Lists!Distinct, Lists!IsInjective
<1>4. Rows(Compact(out)) /\ Order(Compact(out)) = out
  BY <1>3, CompactRows, CompactInOrder
<1> HIDE DEF out
<1>5. /\ Tabled' /\ UNCHANGED existing /\ p \in existing
      /\ lists' = [lists EXCEPT ![p] = out]
  BY <1>1, <1>4, OneList
<1>6. lists[p] = Order(rows) /\ t \in Lists!ToSet(lists[p]) /\ t \in Tracks
  <2>1. ToSet(Order(rows)) = DOMAIN rows
    BY <1>1, OrderDistinct
  <2>2. lists[p] = Order(rows)
    BY DEF lists
  <2>3. t \in Tracks
    BY <1>1 DEF Rows
  <2> QED
    BY <1>1, <2>1, <2>2, <2>3 DEF ToSet, Lists!ToSet
<1>7. Lists!TakeOut(p, t)
  BY <1>2, <1>5, <1>6 DEF Lists!TakeOut, existing, lists
<1> QED
  BY <1>5, <1>6, <1>7 DEF Lists!Next

LEMMA ReorderStep ==
  ASSUME Tabled, NEW p \in Playlists, NEW s \in Seq(Tracks), Reorder(p, s)
  PROVE  Tabled' /\ [Lists!Next]_<<existing, lists>>
<1> DEFINE rows == pos[p]
           new == Order(Compact(s))
<1>1. /\ Exists(p) /\ UNCHANGED names /\ ToSet(s) = DOMAIN rows /\ Rows(rows)
      /\ pos' = [pos EXCEPT ![p] = Compact(s)]
  BY DEF Reorder, CanReorder, Tabled
<1>2. Rows(Compact(s)) /\ DOMAIN Compact(s) = DOMAIN rows
  BY <1>1, CompactRows
<1>3. /\ Tabled' /\ UNCHANGED existing /\ p \in existing
      /\ lists' = [lists EXCEPT ![p] = new]
  BY <1>1, <1>2, OneList
<1>4. new \in Lists!Distinct /\ Lists!ToSet(new) = Lists!ToSet(lists[p])
  BY <1>1, <1>2, OrderDistinct DEF lists, ToSet, Lists!ToSet
<1> HIDE DEF new
<1>5. Lists!Permute(p)
  BY <1>3, <1>4 DEF Lists!Permute, existing, lists
<1> QED
  BY <1>3, <1>5 DEF Lists!Next

(* A playlist goes with its rows.                                            *)
LEMMA DeleteStep ==
  ASSUME Tabled, NEW p \in Playlists, Delete(p)
  PROVE  Tabled' /\ [Lists!Next]_<<existing, lists>>
<1>1. /\ Exists(p) /\ names' = [names EXCEPT ![p] = Deleted] /\ pos' = [pos EXCEPT ![p] = <<>>]
  BY DEF Delete
<1>2. Rows(<<>>) /\ DOMAIN <<>> = {}
  BY DEF Rows
<1>3. pos'[p] = <<>> /\ \A q \in Playlists \ {p} : pos'[q] = pos[q] /\ names'[q] = names[q]
  BY <1>1 DEF Tabled
<1>4. names' \in [Playlists -> Names \cup {Unused, Deleted}] /\ names'[p] = Deleted
  BY <1>1 DEF Tabled
<1>5. pos' = [q \in Playlists |-> pos'[q]]
  BY <1>1 DEF Tabled
<1>6. Tabled'
  BY <1>2, <1>3, <1>4, <1>5 DEF Tabled, Exists
<1>7. p \in existing /\ existing' = existing \ {p}
  BY <1>1, <1>3, <1>4 DEF existing, Exists
<1>8. lists' = [lists EXCEPT ![p] = <<>>]
  BY <1>2, <1>3, OrderOfNone DEF lists
<1>9. Lists!Delete(p)
  BY <1>7, <1>8 DEF Lists!Delete, existing, lists
<1> QED
  BY <1>6, <1>9 DEF Lists!Next

(* A playlist that is made is empty, and a new name changes no playlist.     *)
LEMMA CreateStep ==
  ASSUME Tabled, NEW n \in Names, New \in Playlists, names[New] = Unused, Create(n)
  PROVE  Tabled' /\ [Lists!Next]_<<existing, lists>>
<1> DEFINE p == New
<1>1. names' = [names EXCEPT ![p] = n] /\ UNCHANGED pos
  BY DEF Create
<1> HIDE DEF p
<1>2. p \in Playlists /\ ~Exists(p) /\ DOMAIN pos[p] = {} /\ Rows(pos[p])
  BY DEF Tabled, Exists, p
<1>3. n \notin {Unused, Deleted}
  BY PlaylistsAssumption DEF Unused, Deleted
<1>4. /\ names'[p] = n /\ \A q \in Playlists \ {p} : names'[q] = names[q]
      /\ names' \in [Playlists -> Names \cup {Unused, Deleted}]
  BY <1>1, <1>2 DEF Tabled
<1>5. Tabled'
  BY <1>1, <1>3, <1>4 DEF Tabled, Exists
<1>6. p \notin existing /\ existing' = existing \cup {p}
  BY <1>2, <1>3, <1>4 DEF existing, Exists
<1>7. lists' = lists /\ lists = [lists EXCEPT ![p] = <<>>]
  BY <1>1, <1>2, OrderOfNone DEF lists
<1>8. Lists!Create(p)
  BY <1>6, <1>7 DEF Lists!Create, existing, lists
<1> QED
  BY <1>2, <1>5, <1>8 DEF Lists!Next

LEMMA RenameStep ==
  ASSUME Tabled, NEW p \in Playlists, NEW n \in Names, Rename(p, n)
  PROVE  Tabled' /\ UNCHANGED <<existing, lists>>
<1>1. Exists(p) /\ names' = [names EXCEPT ![p] = n] /\ UNCHANGED pos
  BY DEF Rename
<1>2. n \notin {Unused, Deleted}
  BY PlaylistsAssumption DEF Unused, Deleted
<1>3. /\ names'[p] = n /\ \A q \in Playlists \ {p} : names'[q] = names[q]
      /\ names' \in [Playlists -> Names \cup {Unused, Deleted}]
  BY <1>1 DEF Tabled
<1>4. \A q \in Playlists : Exists(q)' <=> Exists(q)
  BY <1>1, <1>2, <1>3 DEF Exists
<1> QED
  BY <1>1, <1>3, <1>4 DEF Tabled, existing, lists

(* A track that is deleted goes from every playlist.                         *)
LEMMA DeletedStep ==
  ASSUME Tabled, NEW t \in Tracks, TrackDeleted(t)
  PROVE  Tabled' /\ [Lists!Next]_<<existing, lists>>
<1>1. UNCHANGED names /\ pos' = [p \in Playlists |-> Left(pos[p], t)]
  BY DEF TrackDeleted
<1>2. \A p \in Playlists : Rows(pos[p])
  BY DEF Tabled
<1>3. \A p \in Playlists :
        /\ Rows(pos'[p]) /\ DOMAIN pos'[p] = DOMAIN pos[p] \ {t}
        /\ Order(pos'[p]) = Lists!Without(Order(pos[p]), t)
  BY <1>1, <1>2, LeftInOrder
<1>4. \A p \in Playlists : Exists(p)' <=> Exists(p)
  BY <1>1 DEF Exists
<1>5. pos' = [p \in Playlists |-> pos'[p]]
  BY <1>1
<1>6. Tabled'
  BY <1>1, <1>3, <1>4, <1>5 DEF Tabled
<1>7. UNCHANGED existing
  BY <1>4 DEF existing
<1>8. lists' = [p \in Playlists |-> Lists!Without(lists[p], t)]
  BY <1>3 DEF lists
<1>9. Lists!Vanish(t)
  BY <1>7, <1>8 DEF Lists!Vanish, existing, lists
<1> QED
  BY <1>6, <1>9 DEF Lists!Next
-------------------------------------------------------------------------------
(* What is asked, and answered.                                              *)

(* What the page is shown of a playlist.                                     *)
Shown(s) == s.list \in Playlists /\ s.tracks \in Seq(Tracks)

(* A request names what its operation needs, and a playlist that has been    *)
(* added to shows the track.                                                 *)
Sensible(r) ==
  /\ {"op", "list", "track", "order", "name", "query", "last", "status", "shows"} \subseteq DOMAIN r
  /\ r.op \in {"get", "add", "remove", "order", "delete", "rename"} => r.list \in Playlists
  /\ r.op = "add" => r.track \in Tracks
  /\ r.op = "create" => r.name \in Names /\ r.track \in Tracks \cup {NoTrack}
  /\ r.op = "rename" => r.name \in Names
  /\ r.op = "order" => r.order \in Seq(Tracks)
  /\ r.status = "ok" => r.op \in {"fetch", "search", "delete"} \/ Shown(r.shows)
  /\ r.op = "add" /\ r.status = "ok" => r.track \in ToSet(r.shows.tracks)

(* There is an identity left for every playlist about to be made.            *)
Unnamed == {p \in Playlists : names[p] = Unused}
Room == IsFiniteSet(requests) /\ Cardinality(Creating) <= Cardinality(Unnamed)

(* The invariant of the tables and of the requests about them.               *)
Stored ==
  /\ Tabled /\ Room
  /\ \A r \in requests : Sensible(r)
  /\ selected = NoPayload \/ Shown(selected)

(* The library Init describes.                                               *)
LEMMA StoredInit ==
  ASSUME Init
  PROVE  Stored /\ Lists!Init
<1> DEFINE first == CHOOSE p \in Playlists : TRUE
           name == CHOOSE n \in Names : TRUE
           some == Compact(Front(AnOrder))
<1>1. first \in Playlists /\ name \in Names
  BY PlaylistsAssumption
<1>2. AnOrder \in Seq(Tracks) /\ Front(AnOrder) \in Seq(Tracks)
  <2> DEFINE n == Cardinality(Tracks)
             Full(s) == Len(s) = n /\ IsInjective(s)
  <2>1. n \in Nat /\ n # 0 /\ ExistsBijection(1..n, Tracks)
    BY PlaylistsAssumption, FS_CardinalityType, FS_EmptySet
  <2>2. PICK f : f \in Bijection(1..n, Tracks)
    BY <2>1 DEF ExistsBijection
  <2>3. f \in [1..n -> Tracks] /\ \A i, j \in 1..n : f[i] = f[j] => i = j
    BY <2>2 DEF Bijection, Injection, IsInjective
  <2>4. f \in SeqOf(Tracks, n) /\ Len(f) = n /\ IsInjective(f)
    BY <2>1, <2>3 DEF SeqOf, IsInjective
  <2> HIDE DEF n
  <2>5. AnOrder \in SeqOf(Tracks, n) /\ Len(AnOrder) = n
    BY <2>4 DEF AnOrder, n
  <2>6. AnOrder \in Seq(Tracks)
    BY <2>1, <2>5 DEF SeqOf
  <2>7. n - 1 \in Nat /\ \A k \in 1..(n - 1) : AnOrder[k] \in Tracks
    BY <2>1, <2>5, <2>6
  <2>8. Front(AnOrder) = [k \in 1..(n - 1) |-> AnOrder[k]]
    BY <2>1, <2>5, <2>6, <2>7 DEF Front
  <2> QED
    BY <2>6, <2>7, <2>8
<1>3. Rows(some) /\ Rows(<<>>) /\ DOMAIN <<>> = {}
  BY <1>2, CompactRows DEF Rows
<1>4. /\ names = [p \in Playlists |-> IF p = first THEN name ELSE Unused]
      /\ pos = [p \in Playlists |-> IF p = first THEN some ELSE <<>>]
      /\ requests = {} /\ selected = NoPayload
  BY DEF Init
<1>5. name \notin {Unused, Deleted}
  BY <1>1, PlaylistsAssumption DEF Unused, Deleted
<1> HIDE DEF first, name, some
<1>6. Tabled
  BY <1>1, <1>3, <1>4, <1>5 DEF Tabled, Exists
<1>7. Room
  <2>1. Creating = {} /\ IsFiniteSet({}) /\ Cardinality({}) = 0
    BY <1>4, FS_EmptySet DEF Creating
  <2>2. IsFiniteSet(Unnamed)
    BY PlaylistsAssumption, FS_Subset DEF Unnamed
  <2>3. Cardinality(Unnamed) \in Nat
    BY <2>2, FS_CardinalityType
  <2> QED
    BY <1>4, <2>1, <2>3 DEF Room
<1>8. lists \in [Playlists -> Lists!Distinct]
  BY <1>6, OrderDistinct DEF lists, Tabled
<1>9. Lists!Init
  BY <1>8 DEF Lists!Init, existing, lists
<1> QED
  BY <1>4, <1>6, <1>7, <1>9 DEF Stored

(* The identity of a new playlist is one that none has had.                  *)
LEMMA NewIsUnused ==
  ASSUME Room, Creating # {}
  PROVE  New \in Playlists /\ names[New] = Unused
<1>1. IsFiniteSet(Creating)
  BY FS_Subset DEF Room, Creating
<1>2. Cardinality(Creating) \in Nat /\ Cardinality(Creating) # 0
  BY <1>1, FS_CardinalityType, FS_EmptySet
<1>3. Cardinality(Unnamed) # 0 \/ Cardinality(Unnamed) \notin Nat
  BY <1>2 DEF Room
<1>4. Unnamed # {}
  BY <1>3, FS_EmptySet
<1> QED
  BY <1>4 DEF New, Unnamed

(* Fewer playlists to be made, as many identities.                           *)
LEMMA RoomKept ==
  ASSUME Room, IsFiniteSet(requests'), Creating' \subseteq Creating, Unnamed' = Unnamed
  PROVE  Room'
<1>1. IsFiniteSet(Creating) /\ IsFiniteSet(Unnamed)
  BY PlaylistsAssumption, FS_Subset DEF Room, Creating, Unnamed
<1>2. /\ IsFiniteSet(Creating') /\ Cardinality(Creating') <= Cardinality(Creating)
      /\ Cardinality(Creating) \in Nat /\ Cardinality(Creating') \in Nat
      /\ Cardinality(Unnamed) \in Nat
  BY <1>1, FS_Subset, FS_CardinalityType
<1> QED
  BY <1>2 DEF Room

(* A playlist that a request makes takes its identity.                       *)
LEMMA RoomTaken ==
  ASSUME Room, NEW r \in Creating, NEW p \in Unnamed, IsFiniteSet(requests'),
         Creating' \subseteq Creating \ {r}, Unnamed' = Unnamed \ {p}
  PROVE  Room'
<1>1. IsFiniteSet(Creating) /\ IsFiniteSet(Unnamed)
  BY PlaylistsAssumption, FS_Subset DEF Room, Creating, Unnamed
<1>2. /\ IsFiniteSet(Creating \ {r}) /\ Cardinality(Creating \ {r}) = Cardinality(Creating) - 1
      /\ Cardinality(Unnamed \ {p}) = Cardinality(Unnamed) - 1
  BY <1>1, FS_RemoveElement
<1>3. /\ Cardinality(Creating') <= Cardinality(Creating) - 1 /\ IsFiniteSet(Creating')
      /\ Cardinality(Creating) \in Nat /\ Cardinality(Unnamed) \in Nat
      /\ Cardinality(Creating') \in Nat
  BY <1>1, <1>2, FS_Subset, FS_CardinalityType
<1> QED
  BY <1>2, <1>3 DEF Room

(* The page asks for something but a new playlist.                           *)
LEMMA AskStored ==
  ASSUME Stored, NEW r, Ask(r), Sensible(r), UNCHANGED <<tables, selected>>, r.op # "create"
  PROVE  Stored' /\ UNCHANGED <<existing, lists>>
<1>1. requests' = requests \cup {r}
  BY DEF Ask
<1>2. IsFiniteSet(requests')
  BY <1>1, FS_AddElement DEF Stored, Room
<1>3. Creating' \subseteq Creating /\ Unnamed' = Unnamed
  BY <1>1 DEF Creating, Unnamed, tables
<1>4. Room'
  BY <1>2, <1>3, RoomKept DEF Stored
<1>5. Tabled' /\ UNCHANGED <<existing, lists>>
  BY DEF Stored, Tabled, tables, existing, lists, Exists
<1> QED
  BY <1>1, <1>4, <1>5 DEF Stored

(* The page asks for a new playlist.                                         *)
LEMMA AskNewStored ==
  ASSUME Stored, NEW r, Ask(r), Sensible(r), UNCHANGED <<tables, selected>>,
         Cardinality(Creating) < Cardinality(Unnamed)
  PROVE  Stored' /\ UNCHANGED <<existing, lists>>
<1>1. requests' = requests \cup {r}
  BY DEF Ask
<1>2. IsFiniteSet(requests') /\ IsFiniteSet(Creating) /\ IsFiniteSet(Unnamed)
  BY <1>1, PlaylistsAssumption, FS_AddElement, FS_Subset DEF Stored, Room, Creating, Unnamed
<1>3. Creating' \in SUBSET (Creating \cup {r}) /\ Unnamed' = Unnamed
  BY <1>1 DEF Creating, Unnamed, tables
<1>4. /\ IsFiniteSet(Creating \cup {r})
      /\ Cardinality(Creating \cup {r}) <= Cardinality(Creating) + 1
      /\ Cardinality(Creating) \in Nat /\ Cardinality(Unnamed) \in Nat
      /\ Cardinality(Creating \cup {r}) \in Nat
  <2> DEFINE c == Cardinality(Creating)
             d == Cardinality(Creating \cup {r})
  <2>1. IsFiniteSet(Creating \cup {r}) /\ (d = c \/ d = c + 1)
    BY <1>2, FS_AddElement
  <2>2. c \in Nat /\ d \in Nat /\ Cardinality(Unnamed) \in Nat
    BY <1>2, <2>1, FS_CardinalityType
  <2> HIDE DEF c, d
  <2>3. d <= c + 1
    BY <2>1, <2>2
  <2> QED
    BY <2>1, <2>2, <2>3 DEF c, d
<1>5. Cardinality(Creating') <= Cardinality(Creating \cup {r}) /\ Cardinality(Creating') \in Nat
  BY <1>3, <1>4, FS_Subset, FS_CardinalityType
<1>6. Room'
  BY <1>2, <1>3, <1>4, <1>5 DEF Room
<1>7. Tabled' /\ UNCHANGED <<existing, lists>>
  BY DEF Stored, Tabled, tables, existing, lists, Exists
<1> QED
  BY <1>1, <1>6, <1>7 DEF Stored

(* What stays when the tables stay.                                          *)
LEMMA TablesKept ==
  ASSUME Stored, UNCHANGED tables, IsFiniteSet(requests'), Creating' \subseteq Creating,
         \A r \in requests' : Sensible(r), selected' = NoPayload \/ Shown(selected')
  PROVE  Stored' /\ [Lists!Next]_<<existing, lists>>
<1>1. Unnamed' = Unnamed /\ Tabled' /\ UNCHANGED <<existing, lists>>
  BY DEF Stored, Tabled, tables, existing, lists, Exists, Unnamed
<1>2. Room'
  BY <1>1, RoomKept DEF Stored
<1> QED
  BY <1>1, <1>2 DEF Stored

(* A playlist as the page is shown it.                                       *)
LEMMA PayloadShown ==
  ASSUME Tabled', NEW p \in Playlists
  PROVE  /\ Shown(Payload(p))
         /\ ToSet(Payload(p).tracks) = {t \in DOMAIN pos'[p] : library[t] = "here"}
<1> DEFINE here == {t \in DOMAIN pos'[p] : library[t] = "here"}
           rows == Restrict(pos'[p], here)
<1>1. Rows(pos'[p])
  BY DEF Tabled
<1>2. Rows(rows) /\ DOMAIN rows = here
  BY <1>1, RestrictRows
<1> HIDE DEF rows
<1>3. ToSet(Order(rows)) = here /\ Order(rows) \in Seq(Tracks)
  BY <1>2, OrderDistinct
<1>4. Payload(p).list = p /\ Payload(p).tracks = Order(rows)
  BY DEF Payload, rows
<1> QED
  BY <1>3, <1>4 DEF Shown

(* Moving a track keeps the sequence one of tracks.                          *)
LEMMA SwappedTracks ==
  ASSUME NEW s \in Seq(Tracks), NEW i \in 1..(Len(s) - 1)
  PROVE  Swapped(s, i) \in Seq(Tracks)
<1>1. \A k \in 1..Len(s) :
        (IF k = i THEN s[i + 1] ELSE IF k = i + 1 THEN s[i] ELSE s[k]) \in Tracks
  OBVIOUS
<1>2. Swapped(s, i) \in [1..Len(s) -> Tracks]
  BY <1>1 DEF Swapped
<1> QED
  BY <1>2

(* What the listener asks.                                                   *)
LEMMA ClicksStored ==
  ASSUME Stored, Clicks
  PROVE  Stored' /\ [Lists!Next]_<<existing, lists>>
<1>1. UNCHANGED <<tables, selected>>
  BY DEF Clicks, page, ServerKeeps
<1>2. Known \subseteq Playlists
  BY DEF Known
<1>3. ASSUME selected = NoPayload PROVE Len(selected.tracks) = 0 /\ ToSet(selected.tracks) = {}
  BY <1>3 DEF NoPayload, ToSet
<1>4. ASSUME selected # NoPayload
      PROVE  selected.list \in Playlists /\ selected.tracks \in Seq(Tracks)
  BY <1>4 DEF Stored, Shown
<1>5. ASSUME NEW r, Ask(r), Sensible(r), r.op # "create"
      PROVE  Stored' /\ UNCHANGED <<existing, lists>>
  BY <1>1, <1>5, AskStored
<1>6. CASE OpenPlaylist
  <2>1. PICK p \in Known : Ask([Request("get") EXCEPT !.list = p])
    BY <1>6 DEF OpenPlaylist
  <2>2. Sensible([Request("get") EXCEPT !.list = p])
    BY <1>2 DEF Sensible, Request
  <2>3. [Request("get") EXCEPT !.list = p].op # "create"
    BY DEF Request
  <2> QED
    BY <1>5, <2>1, <2>2, <2>3
<1>7. CASE Move
  <2>1. PICK i \in 1..(Len(selected.tracks) - 1) :
          Ask([Request("order") EXCEPT !.list = selected.list,
                                       !.order = Swapped(selected.tracks, i)])
    BY <1>7 DEF Move
  <2>2. selected.list \in Playlists /\ selected.tracks \in Seq(Tracks)
    BY <1>3, <1>4, <2>1
  <2>3. Swapped(selected.tracks, i) \in Seq(Tracks)
    BY <2>1, <2>2, SwappedTracks
  <2>4. Sensible([Request("order") EXCEPT !.list = selected.list,
                                          !.order = Swapped(selected.tracks, i)])
    BY <2>2, <2>3 DEF Sensible, Request
  <2>5. [Request("order") EXCEPT !.list = selected.list,
                                 !.order = Swapped(selected.tracks, i)].op # "create"
    BY DEF Request
  <2> QED
    BY <1>5, <2>1, <2>4, <2>5
<1>8. CASE RemoveTrack
  <2>1. PICK t \in ToSet(selected.tracks) :
          Ask([Request("remove") EXCEPT !.list = selected.list, !.track = t])
    BY <1>8 DEF RemoveTrack
  <2>2. selected.list \in Playlists
    BY <1>3, <1>4, <2>1
  <2>3. Sensible([Request("remove") EXCEPT !.list = selected.list, !.track = t])
    BY <2>2 DEF Sensible, Request
  <2>4. [Request("remove") EXCEPT !.list = selected.list, !.track = t].op # "create"
    BY DEF Request
  <2> QED
    BY <1>5, <2>1, <2>3, <2>4
<1>9. CASE AddPending
  <2>1. PICK t \in Tracks, p \in Known : Ask([Request("add") EXCEPT !.list = p, !.track = t])
    BY <1>9 DEF AddPending
  <2>2. Sensible([Request("add") EXCEPT !.list = p, !.track = t])
    BY <1>2 DEF Sensible, Request
  <2>3. [Request("add") EXCEPT !.list = p, !.track = t].op # "create"
    BY DEF Request
  <2> QED
    BY <1>5, <2>1, <2>2, <2>3
<1>10. CASE CreatePlaylist
  <2>1. PICK n \in Names, t \in Tracks \cup {NoTrack} :
          Ask([Request("create") EXCEPT !.name = n, !.track = t])
    BY <1>10 DEF CreatePlaylist
  <2>2. Sensible([Request("create") EXCEPT !.name = n, !.track = t])
    BY DEF Sensible, Request
  <2>3. Cardinality(Creating) < Cardinality(Unnamed)
    BY <1>10 DEF CreatePlaylist, Unnamed
  <2> QED
    BY <1>1, <2>1, <2>2, <2>3, AskNewStored
<1>11. CASE EditPlaylist
  <2>1. PICK n \in Names : Ask([Request("rename") EXCEPT !.list = selected.list, !.name = n])
    BY <1>11 DEF EditPlaylist
  <2>2. selected.list \in Playlists
    BY <1>4, <1>11 DEF EditPlaylist
  <2>3. Sensible([Request("rename") EXCEPT !.list = selected.list, !.name = n])
    BY <2>2 DEF Sensible, Request
  <2>4. [Request("rename") EXCEPT !.list = selected.list, !.name = n].op # "create"
    BY DEF Request
  <2> QED
    BY <1>5, <2>1, <2>3, <2>4
<1>12. CASE DeleteSelected
  <2>1. Ask([Request("delete") EXCEPT !.list = selected.list])
    BY <1>12 DEF DeleteSelected
  <2>2. selected.list \in Playlists
    BY <1>4, <1>12 DEF DeleteSelected
  <2>3. Sensible([Request("delete") EXCEPT !.list = selected.list])
    BY <2>2 DEF Sensible, Request
  <2>4. [Request("delete") EXCEPT !.list = selected.list].op # "create"
    BY DEF Request
  <2> QED
    BY <1>5, <2>1, <2>3, <2>4
<1> QED
  BY <1>6, <1>7, <1>8, <1>9, <1>10, <1>11, <1>12 DEF Clicks

(* Forgetting the searches.                                                  *)
LEMMA ForgottenStored ==
  ASSUME Stored
  PROVE  /\ IsFiniteSet(Forgotten) /\ \A r \in Forgotten : Sensible(r)
         /\ {r \in Forgotten : r.op = "create" /\ r.status = "sent"} \subseteq Creating
<1> DEFINE f == [r \in requests |-> IF r.op = "search" THEN [r EXCEPT !.last = FALSE] ELSE r]
<1>1. f \in Surjection(requests, Forgotten)
  BY DEF Surjection, Forgotten
<1>2. IsFiniteSet(Forgotten)
  BY <1>1, FS_Surjection DEF Stored, Room
<1>3. ASSUME NEW r \in requests
      PROVE  Sensible(f[r]) /\ f[r].op = r.op /\ (f[r].op = "create" => f[r] = r)
  <2>1. Sensible(r)
    BY DEF Stored
  <2>2. CASE r.op = "search"
    <3>1. f[r] = [r EXCEPT !.last = FALSE]
      BY <2>2
    <3>2. f[r].op = "search"
      BY <2>1, <2>2, <3>1 DEF Sensible
    <3> QED
      BY <2>1, <2>2, <3>1, <3>2 DEF Sensible
  <2>3. CASE r.op # "search"
    BY <2>1, <2>3
  <2> QED
    BY <2>2, <2>3
<1>4. \A a \in Forgotten : \E r \in requests : a = f[r]
  BY DEF Forgotten
<1> HIDE DEF f
<1> QED
  BY <1>2, <1>3, <1>4 DEF Creating

(* Browsing.                                                                 *)
LEMMA BrowsesStored ==
  ASSUME Stored, Browses
  PROVE  Stored' /\ [Lists!Next]_<<existing, lists>>
<1> DEFINE Held(s) == /\ IsFiniteSet(s) /\ \A r \in s : Sensible(r)
                      /\ {r \in s : r.op = "create" /\ r.status = "sent"} \subseteq Creating
<1>1. Held(requests) /\ Held(Forgotten)
  BY ForgottenStored DEF Stored, Room, Creating
<1>2. ASSUME NEW s, Held(s), NEW op \in {"search", "fetch"}, NEW q
      PROVE  Held(s \cup {[Request(op) EXCEPT !.query = q]})
  <2>1. Sensible([Request(op) EXCEPT !.query = q])
    BY DEF Sensible, Request
  <2>2. [Request(op) EXCEPT !.query = q].op # "create"
    BY DEF Request
  <2>3. IsFiniteSet(s \cup {[Request(op) EXCEPT !.query = q]})
    BY <1>2, FS_AddElement
  <2> QED
    BY <1>2, <2>1, <2>2, <2>3
<1>3. UNCHANGED <<tables, selected>>
  BY DEF Browses, ReturnFromDetail, ClearSearch, SearchFor, EndSearch, Type, OpenSection,
     ServerKeeps
<1>4. Held(requests')
  <2>1. CASE ReturnFromDetail
    BY <1>1, <2>1 DEF ReturnFromDetail
  <2>2. CASE ClearSearch
    BY <1>1, <2>2 DEF ClearSearch
  <2>3. CASE SearchFor
    <3>1. requests' = Forgotten \cup {[Request("search") EXCEPT !.query = field]}
      BY <2>3 DEF SearchFor
    <3> QED
      BY <1>1, <1>2, <3>1
  <2>4. ASSUME NEW s \in Sections \cup {"home"}, NEW clears \in BOOLEAN, OpenSection(s, clears)
        PROVE  Held(requests')
    <3> DEFINE ends == clears /\ (field # NoQuery \/ mode = "search")
               before == IF ends THEN Forgotten ELSE requests
    <3>1. requests' = before \/ requests' = before \cup {[Request("fetch") EXCEPT !.query = s]}
      BY <2>4 DEF OpenSection
    <3>2. Held(before)
      BY <1>1
    <3> HIDE DEF before
    <3>3. Held(before \cup {[Request("fetch") EXCEPT !.query = s]})
      BY <1>2, <3>2
    <3> QED
      BY <3>1, <3>2, <3>3
  <2>5. ASSUME NEW q, Type(q) PROVE Held(requests')
    BY <1>1, <2>5 DEF Type
  <2>6. CASE EndSearch
    BY <1>1, <2>6 DEF EndSearch
  <2> QED
    BY <2>1, <2>2, <2>3, <2>4, <2>5, <2>6 DEF Browses
<1>5. Creating' \subseteq Creating
  BY <1>4 DEF Creating
<1>6. selected' = NoPayload \/ Shown(selected')
  BY <1>3 DEF Stored
<1> QED
  BY <1>3, <1>4, <1>5, <1>6, TablesKept

(* The answer to a request.                                                  *)
LEMMA AnswerSensible ==
  ASSUME Stored, NEW r \in requests, NEW status, NEW shows,
         status = "ok" => r.op \in {"fetch", "search", "delete"} \/ Shown(shows),
         status = "ok" /\ r.op = "add" => r.track \in ToSet(shows.tracks),
         status # "sent", Answer(r, status, shows)
  PROVE  /\ \A a \in requests' : Sensible(a)
         /\ IsFiniteSet(requests') /\ Creating' \subseteq Creating \ {r}
<1> DEFINE new == [r EXCEPT !.status = status, !.shows = shows]
<1>1. Sensible(r)
  BY DEF Stored
<1>2. /\ new.status = status /\ new.shows = shows /\ DOMAIN new = DOMAIN r
      /\ new.op = r.op /\ new.list = r.list /\ new.track = r.track
      /\ new.name = r.name /\ new.order = r.order
  BY <1>1 DEF Sensible
<1>3. requests' = (requests \ {r}) \cup {new}
  BY DEF Answer
<1> HIDE DEF new
<1>4. Sensible(new)
  BY <1>1, <1>2 DEF Sensible
<1>5. IsFiniteSet(requests')
  BY <1>3, FS_RemoveElement, FS_AddElement DEF Stored, Room
<1>6. Creating' \subseteq Creating \ {r}
  BY <1>2, <1>3 DEF Creating
<1> QED
  BY <1>3, <1>4, <1>5, <1>6 DEF Stored

(* A request that leaves the playlists their identities.                     *)
LEMMA ServedStored ==
  ASSUME Stored, NEW r \in requests, NEW shows, Answer(r, "ok", shows), UNCHANGED selected,
         r.op \in {"fetch", "search", "delete"} \/ Shown(shows),
         r.op = "add" => r.track \in ToSet(shows.tracks),
         Tabled', Unnamed' = Unnamed
  PROVE  Stored'
<1>1. /\ \A a \in requests' : Sensible(a)
      /\ IsFiniteSet(requests') /\ Creating' \subseteq Creating
  BY AnswerSensible
<1>2. Room'
  BY <1>1, RoomKept DEF Stored
<1> QED
  BY <1>1, <1>2 DEF Stored

(* A name that changes or goes leaves the unused identities as they were.    *)
LEMMA UnnamedKept ==
  ASSUME Tabled, UNCHANGED names \/ \E p \in Playlists, n \in Names \cup {Deleted} :
                   Exists(p) /\ names' = [names EXCEPT ![p] = n]
  PROVE  Unnamed' = Unnamed
<1>1. CASE UNCHANGED names
  BY <1>1 DEF Unnamed
<1>2. ASSUME NEW p \in Playlists, NEW n \in Names \cup {Deleted}, Exists(p),
             names' = [names EXCEPT ![p] = n]
      PROVE  Unnamed' = Unnamed
  <2>1. n # Unused /\ names[p] # Unused
    BY <1>2, PlaylistsAssumption DEF Unused, Deleted, Exists
  <2>2. \A q \in Playlists : names'[q] = IF q = p THEN n ELSE names[q]
    BY <1>2 DEF Tabled
  <2> QED
    BY <2>1, <2>2 DEF Unnamed
<1> QED
  BY <1>1, <1>2

(* The server answers a request.                                             *)
LEMMA ServeStored ==
  ASSUME Stored, NEW r \in requests, Serve(r)
  PROVE  Stored' /\ [Lists!Next]_<<existing, lists>>
<1>1. Sensible(r) /\ Tabled /\ UNCHANGED <<library, selected>> /\ r.status = "sent"
  BY DEF Serve, page, Stored
<1>2. CASE Refused(r) /\ UNCHANGED tables /\ Answer(r, "refused", NoPayload)
  <2>1. /\ \A a \in requests' : Sensible(a)
        /\ IsFiniteSet(requests') /\ Creating' \subseteq Creating
    BY <1>2, AnswerSensible
  <2>2. selected' = NoPayload \/ Shown(selected')
    BY <1>1 DEF Stored
  <2> QED
    BY <1>2, <2>1, <2>2, TablesKept
<1>3. CASE Change(r) /\ Answer(r, "ok", Shows(r))
  <2>1. \A p \in Playlists : Tabled' => Shown(Payload(p))
    BY PayloadShown
  <2>2. ASSUME r.op \in {"fetch", "search", "get"}, UNCHANGED tables,
               r.op = "get" => r.list \in Playlists
        PROVE  Stored' /\ [Lists!Next]_<<existing, lists>>
    <3>1. Tabled' /\ UNCHANGED <<existing, lists>>
      BY <1>1, <2>2 DEF Tabled, tables, existing, lists, Exists
    <3>2. Unnamed' = Unnamed
      BY <2>2 DEF tables, Unnamed
    <3>3. r.op \in {"fetch", "search", "delete"} \/ Shown(Shows(r))
      BY <2>1, <2>2, <3>1 DEF Shows
    <3>4. Stored'
      BY <1>1, <1>3, <2>2, <3>1, <3>2, <3>3, ServedStored
    <3> QED
      BY <3>1, <3>4
  <2>3. CASE r.op = "add" /\ Add(r.list, r.track)
    <3>1. r.list \in Playlists /\ r.track \in Tracks
      BY <1>1, <2>3 DEF Sensible
    <3>2. Tabled' /\ [Lists!Next]_<<existing, lists>> /\ r.track \in DOMAIN pos'[r.list]
      BY <1>1, <2>3, <3>1, AddStep
    <3>3. library[r.track] = "here" /\ UNCHANGED names
      BY <2>3 DEF Add, CanAdd
    <3>4. Shows(r) = Payload(r.list)
      BY <2>3 DEF Shows
    <3>5. Shown(Shows(r)) /\ r.track \in ToSet(Shows(r).tracks)
      BY <3>1, <3>2, <3>3, <3>4, PayloadShown
    <3>6. Unnamed' = Unnamed
      BY <1>1, <3>3, UnnamedKept
    <3>7. Stored'
      BY <1>1, <1>3, <3>2, <3>5, <3>6, ServedStored
    <3> QED
      BY <3>2, <3>7
  <2>4. CASE r.op = "remove" /\ TakeOut(r.list, r.track)
    <3>1. r.list \in Playlists
      BY <1>1, <2>4 DEF Sensible
    <3>2. Tabled' /\ [Lists!Next]_<<existing, lists>>
      BY <1>1, <2>4, <3>1, TakeOutStep
    <3>3. Unnamed' = Unnamed
      BY <1>1, <2>4, UnnamedKept DEF TakeOut
    <3>4. Shown(Shows(r))
      BY <2>1, <2>4, <3>1, <3>2 DEF Shows
    <3>5. Stored'
      BY <1>1, <1>3, <2>4, <3>2, <3>3, <3>4, ServedStored
    <3> QED
      BY <3>2, <3>5
  <2>5. CASE r.op = "order" /\ Reorder(r.list, r.order)
    <3>1. r.list \in Playlists /\ r.order \in Seq(Tracks)
      BY <1>1, <2>5 DEF Sensible
    <3>2. Tabled' /\ [Lists!Next]_<<existing, lists>>
      BY <1>1, <2>5, <3>1, ReorderStep
    <3>3. Unnamed' = Unnamed
      BY <1>1, <2>5, UnnamedKept DEF Reorder
    <3>4. Shown(Shows(r))
      BY <2>1, <2>5, <3>1, <3>2 DEF Shows
    <3>5. Stored'
      BY <1>1, <1>3, <2>5, <3>2, <3>3, <3>4, ServedStored
    <3> QED
      BY <3>2, <3>5
  <2>6. CASE r.op = "delete" /\ Delete(r.list)
    <3>1. r.list \in Playlists
      BY <1>1, <2>6 DEF Sensible
    <3>2. Tabled' /\ [Lists!Next]_<<existing, lists>>
      BY <1>1, <2>6, <3>1, DeleteStep
    <3>3. Exists(r.list) /\ names' = [names EXCEPT ![r.list] = Deleted]
      BY <2>6 DEF Delete
    <3>4. Unnamed' = Unnamed
      BY <1>1, <3>1, <3>3, UnnamedKept
    <3>5. Stored'
      BY <1>1, <1>3, <2>6, <3>2, <3>4, ServedStored
    <3> QED
      BY <3>2, <3>5
  <2>7. CASE r.op = "create" /\ Create(r.name)
    <3>1. r \in Creating /\ r.name \in Names
      BY <1>1, <2>7 DEF Creating, Sensible
    <3>2. New \in Playlists /\ names[New] = Unused
      BY <3>1, NewIsUnused DEF Stored
    <3>3. Tabled' /\ [Lists!Next]_<<existing, lists>>
      BY <1>1, <2>7, <3>1, <3>2, CreateStep
    <3> DEFINE p == New
    <3>4. p \in Unnamed /\ names' = [names EXCEPT ![p] = r.name]
      BY <2>7, <3>2 DEF Create, Unnamed
    <3> HIDE DEF p
    <3>5. r.name # Unused /\ \A q \in Playlists : names'[q] = IF q = p THEN r.name ELSE names[q]
      BY <1>1, <3>1, <3>4, PlaylistsAssumption DEF Tabled, Unused
    <3>6. Unnamed' = Unnamed \ {p}
      BY <3>4, <3>5 DEF Unnamed
    <3>7. PICK q \in Playlists : Shows(r) = Payload(q)
      BY <2>7, <3>2 DEF Shows
    <3>8. /\ \A a \in requests' : Sensible(a)
          /\ IsFiniteSet(requests') /\ Creating' \subseteq Creating \ {r}
      BY <1>3, <2>1, <2>7, <3>3, <3>7, AnswerSensible
    <3>9. Room'
      BY <3>1, <3>4, <3>6, <3>8, RoomTaken DEF Stored
    <3> QED
      BY <1>1, <3>3, <3>8, <3>9 DEF Stored
  <2>8. CASE r.op = "rename" /\ Rename(r.list, r.name)
    <3>1. r.list \in Playlists /\ r.name \in Names
      BY <1>1, <2>8 DEF Sensible
    <3>2. Tabled' /\ UNCHANGED <<existing, lists>>
      BY <1>1, <2>8, <3>1, RenameStep
    <3>3. Exists(r.list) /\ names' = [names EXCEPT ![r.list] = r.name]
      BY <2>8 DEF Rename
    <3>4. Unnamed' = Unnamed
      BY <1>1, <3>1, <3>3, UnnamedKept
    <3>5. Shown(Shows(r))
      BY <2>1, <2>8, <3>1, <3>2 DEF Shows
    <3>6. Stored'
      BY <1>1, <1>3, <2>8, <3>2, <3>4, <3>5, ServedStored
    <3> QED
      BY <3>2, <3>6
  <2>9. \/ r.op \in {"fetch", "search", "get"} /\ UNCHANGED tables
        \/ r.op = "add" /\ Add(r.list, r.track)
        \/ r.op = "remove" /\ TakeOut(r.list, r.track)
        \/ r.op = "order" /\ Reorder(r.list, r.order)
        \/ r.op = "delete" /\ Delete(r.list)
        \/ r.op = "create" /\ Create(r.name)
        \/ r.op = "rename" /\ Rename(r.list, r.name)
    BY <1>3 DEF Change
  <2>10. r.op = "get" => r.list \in Playlists
    BY <1>1 DEF Sensible
  <2> QED
    BY <2>2, <2>3, <2>4, <2>5, <2>6, <2>7, <2>8, <2>9, <2>10
<1> QED
  BY <1>2, <1>3 DEF Serve

(* The page takes an answer, and may ask on.                                 *)
LEMMA FollowsSensible ==
  ASSUME Stored, NEW r \in requests, r.status = "ok"
  PROVE  /\ \A f \in Follows(r) : Sensible(f) /\ f.op # "create"
         /\ IsFiniteSet(Follows(r))
<1>1. Sensible(r)
  BY DEF Stored
<1>2. ASSUME NEW op \in {"get", "add"}, r.shows.list \in Playlists, op = "add" => r.track \in Tracks
      PROVE  Sensible(Then(r, op)) /\ Then(r, op).op # "create"
  BY <1>1, <1>2 DEF Sensible, Then
<1>3. /\ Sensible([Then(r, "fetch") EXCEPT !.query = "playlists"])
      /\ [Then(r, "fetch") EXCEPT !.query = "playlists"].op # "create"
  BY <1>1 DEF Sensible, Then
<1>4. \A x : IsFiniteSet({x})
  BY FS_Singleton
<1>5. IsFiniteSet({})
  BY FS_EmptySet
<1>6. CASE r.op = "create"
  <2>1. r.shows.list \in Playlists /\ r.track \in Tracks \cup {NoTrack}
    BY <1>1, <1>6 DEF Sensible, Shown
  <2>2. Follows(r) = {Then(r, IF r.track = NoTrack THEN "get" ELSE "add")}
    BY <1>6 DEF Follows
  <2>3. CASE r.track = NoTrack
    BY <1>2, <1>4, <2>1, <2>2, <2>3
  <2>4. CASE r.track # NoTrack
    BY <1>2, <1>4, <2>1, <2>2, <2>4
  <2> QED
    BY <2>3, <2>4
<1>7. CASE r.op = "delete"
  <2>1. Follows(r) = {[Then(r, "fetch") EXCEPT !.query = "playlists"]}
    BY <1>7 DEF Follows
  <2> QED
    BY <1>3, <1>4, <2>1
<1>8. CASE r.op = "rename"
  <2>1. r.shows.list \in Playlists
    BY <1>1, <1>8 DEF Sensible, Shown
  <2>2. Follows(r) = IF selected = NoPayload THEN {Then(r, "get")} ELSE {}
    BY <1>8 DEF Follows
  <2> QED
    BY <1>2, <1>4, <1>5, <2>1, <2>2
<1>9. CASE r.op \notin {"create", "delete", "rename"}
  BY <1>5, <1>9 DEF Follows
<1> QED
  BY <1>6, <1>7, <1>8, <1>9

LEMMA AnsweredStored ==
  ASSUME Stored, NEW r \in requests, Answered(r)
  PROVE  Stored' /\ [Lists!Next]_<<existing, lists>>
<1>1. UNCHANGED tables
  BY DEF Answered, ServerKeeps
<1>2. IsFiniteSet(requests \ {r})
  BY FS_RemoveElement DEF Stored, Room
<1>3. CASE r.status = "ok"
  <2>1. requests' = (requests \ {r}) \cup Follows(r) /\ DetailAfter(r)
    BY <1>3 DEF Answered, Took
  <2>2. \A a \in requests' : Sensible(a)
    BY <1>3, <2>1, FollowsSensible DEF Stored
  <2>3. Creating' \subseteq Creating
    BY <1>3, <2>1, FollowsSensible DEF Creating
  <2>4. IsFiniteSet(requests')
    BY <1>2, <1>3, <2>1, FollowsSensible, FS_Union
  <2>5. selected' = NoPayload \/ Shown(selected')
    <3>1. Selects(r) => r.op \in {"get", "remove", "order", "add", "rename"}
      BY DEF Selects
    <3>2. r.op \in {"get", "remove", "order", "add", "rename"} => Shown(r.shows)
      BY <1>3 DEF Stored, Sensible
    <3> QED
      BY <2>1, <3>1, <3>2 DEF DetailAfter, Stored
  <2> QED
    BY <1>1, <2>2, <2>3, <2>4, <2>5, TablesKept
<1>4. CASE r.status # "ok"
  <2>1. requests' = requests \ {r} /\ UNCHANGED selected
    BY <1>4 DEF Answered, page
  <2>2. Creating' \subseteq Creating /\ \A a \in requests' : Sensible(a)
    BY <2>1 DEF Creating, Stored
  <2>3. selected' = NoPayload \/ Shown(selected')
    BY <2>1 DEF Stored
  <2> QED
    BY <1>1, <1>2, <2>1, <2>2, <2>3, TablesKept
<1> QED
  BY <1>3, <1>4

(* Another device of the account, the scan and the availability check.       *)
LEMMA ElsewhereStored ==
  ASSUME Stored, Elsewhere
  PROVE  Stored' /\ [Lists!Next]_<<existing, lists>>
<1>1. UNCHANGED <<requests, selected>> /\ Tabled
  BY DEF Elsewhere, page, Stored
<1>2. ASSUME Tabled', Unnamed' = Unnamed PROVE Stored'
  <2>1. Creating' \subseteq Creating /\ IsFiniteSet(requests')
    BY <1>1 DEF Creating, Stored, Room
  <2>2. Room'
    BY <1>2, <2>1, RoomKept DEF Stored
  <2> QED
    BY <1>1, <1>2, <2>2 DEF Stored
<1>3. PICK p \in Playlists :
        \/ \E t \in Tracks : Add(p, t) \/ TakeOut(p, t)
        \/ \E s \in {Reverse(Order(pos[p]))} : Reorder(p, s)
        \/ Delete(p)
  BY DEF Elsewhere
<1>4. ASSUME NEW t \in Tracks, Add(p, t) PROVE Stored' /\ [Lists!Next]_<<existing, lists>>
  <2>1. Unnamed' = Unnamed
    BY <1>1, <1>4, UnnamedKept DEF Add
  <2> QED
    BY <1>1, <1>2, <1>4, <2>1, AddStep
<1>5. ASSUME NEW t \in Tracks, TakeOut(p, t) PROVE Stored' /\ [Lists!Next]_<<existing, lists>>
  <2>1. Unnamed' = Unnamed
    BY <1>1, <1>5, UnnamedKept DEF TakeOut
  <2> QED
    BY <1>1, <1>2, <1>5, <2>1, TakeOutStep
<1>6. ASSUME Reorder(p, Reverse(Order(pos[p]))) PROVE Stored' /\ [Lists!Next]_<<existing, lists>>
  <2> DEFINE s == Order(pos[p])
  <2>1. s \in Seq(Tracks)
    BY <1>1, OrderDistinct DEF Tabled
  <2> HIDE DEF s
  <2>2. Reverse(s) \in Seq(Tracks)
    <3>1. \A i \in 1..Len(s) : s[(Len(s) - i) + 1] \in Tracks
      BY <2>1
    <3>2. Reverse(s) \in [1..Len(s) -> Tracks]
      BY <3>1 DEF Reverse
    <3> QED
      BY <2>1, <3>2
  <2>3. Reorder(p, Reverse(s))
    BY <1>6 DEF s
  <2>4. Unnamed' = Unnamed
    BY <1>1, <2>3, UnnamedKept DEF Reorder
  <2> QED
    BY <1>1, <1>2, <2>2, <2>3, <2>4, ReorderStep
<1>7. ASSUME Delete(p) PROVE Stored' /\ [Lists!Next]_<<existing, lists>>
  <2>1. Exists(p) /\ names' = [names EXCEPT ![p] = Deleted]
    BY <1>7 DEF Delete
  <2>2. Unnamed' = Unnamed
    BY <1>1, <2>1, UnnamedKept
  <2> QED
    BY <1>1, <1>2, <1>7, <2>2, DeleteStep
<1> QED
  BY <1>3, <1>4, <1>5, <1>6, <1>7

LEMMA TrackStored ==
  ASSUME Stored, NEW t \in Tracks, TrackDeleted(t)
  PROVE  Stored' /\ [Lists!Next]_<<existing, lists>>
<1>1. Tabled' /\ [Lists!Next]_<<existing, lists>>
  BY DeletedStep DEF Stored
<1>2. UNCHANGED <<names, requests, selected>>
  BY DEF TrackDeleted, page
<1>3. Unnamed' = Unnamed /\ Creating' = Creating
  BY <1>2 DEF Unnamed, Creating
<1>4. Room'
  BY <1>2, <1>3, RoomKept DEF Stored, Room
<1> QED
  BY <1>1, <1>2, <1>4 DEF Stored

(* Every step keeps the tables, and is a step of PlaylistOrder or none.      *)
LEMMA NextStored ==
  ASSUME Stored, [Next]_vars
  PROVE  Stored' /\ [Lists!Next]_<<existing, lists>>
<1>1. ASSUME UNCHANGED <<tables, selected>>, requests' \subseteq requests
      PROVE  Stored' /\ [Lists!Next]_<<existing, lists>>
  <2>1. IsFiniteSet(requests')
    BY <1>1, FS_Subset DEF Stored, Room
  <2>2. Creating' \subseteq Creating /\ \A a \in requests' : Sensible(a)
    BY <1>1 DEF Creating, Stored
  <2>3. selected' = NoPayload \/ Shown(selected')
    BY <1>1 DEF Stored
  <2> QED
    BY <1>1, <2>1, <2>2, <2>3, TablesKept
<1>2. ASSUME NEW r \in requests, Lost(r) PROVE Stored' /\ [Lists!Next]_<<existing, lists>>
  BY <1>1, <1>2 DEF Lost, page
<1>3. ASSUME NEW t \in Tracks, Availability(t) PROVE Stored' /\ [Lists!Next]_<<existing, lists>>
  BY <1>1, <1>3 DEF Availability, page
<1>4. CASE UNCHANGED vars
  BY <1>1, <1>4 DEF vars, page
<1>5. CASE Next
  BY <1>2, <1>3, <1>5, ClicksStored, BrowsesStored, ServeStored, AnsweredStored,
     ElsewhereStored, TrackStored DEF Next
<1> QED
  BY <1>4, <1>5
-------------------------------------------------------------------------------
(* The page.                                                                 *)

IsRequest(r) == {"op", "query", "last"} \subseteq DOMAIN r

(* What r remembers, when q is the last query.                               *)
Remembers(r, q) ==
  /\ IsRequest(r)
  /\ r.op = "fetch" => r.query # "search"
  /\ r.op = "search" /\ r.last => r.query = q

Inv ==
  /\ CatalogMatchesMode /\ \A r \in requests : Remembers(r, query)
  /\ timer \/ query = field

(* What SearchShowsLast says of a step.                                      *)
ShowsLast == results' \notin {results, NoQuery} => results' = query' /\ (timer' \/ query' = field')

LEMMA InitInv == ASSUME Init PROVE Inv
BY DEF Init, Inv, CatalogMatchesMode

-------------------------------------------------------------------------------
(* Requests, when they are made, forgotten, answered and followed by         *)
(* another.                                                                  *)
LEMMA Made ==
  ASSUME NEW op, op \notin {"fetch", "search"}, NEW q, NEW p, NEW t
  PROVE  /\ Remembers(Request(op), q)
         /\ Remembers([Request(op) EXCEPT !.list = p], q)
         /\ Remembers([Request(op) EXCEPT !.list = p, !.order = t], q)
         /\ Remembers([Request(op) EXCEPT !.list = p, !.track = t], q)
         /\ Remembers([Request(op) EXCEPT !.list = p, !.name = t], q)
         /\ Remembers([Request(op) EXCEPT !.name = p, !.track = t], q)
<1>1. Remembers(Request(op), q)
  BY DEF Request, Remembers, IsRequest
<1>2. Remembers([Request(op) EXCEPT !.list = p], q)
  BY DEF Request, Remembers, IsRequest
<1>3. Remembers([Request(op) EXCEPT !.list = p, !.order = t], q)
  BY DEF Request, Remembers, IsRequest
<1>4. Remembers([Request(op) EXCEPT !.list = p, !.track = t], q)
  BY DEF Request, Remembers, IsRequest
<1>5. Remembers([Request(op) EXCEPT !.list = p, !.name = t], q)
  BY DEF Request, Remembers, IsRequest
<1>6. Remembers([Request(op) EXCEPT !.name = p, !.track = t], q)
  BY DEF Request, Remembers, IsRequest
<1> QED
  BY <1>1, <1>2, <1>3, <1>4, <1>5, <1>6

LEMMA MadeForField ==
  ASSUME NEW q, NEW s, s # "search"
  PROVE  /\ Remembers([Request("search") EXCEPT !.query = q], q)
         /\ Remembers([Request("fetch") EXCEPT !.query = s], q)
BY DEF Request, Remembers, IsRequest

LEMMA ForgottenRemember ==
  ASSUME Inv, NEW q
  PROVE  \A r \in Forgotten : Remembers(r, q)
<1>1. ASSUME NEW r \in requests
      PROVE  Remembers(IF r.op = "search" THEN [r EXCEPT !.last = FALSE] ELSE r, q)
  <2>1. IsRequest(r) /\ (r.op = "fetch" => r.query # "search")
    BY DEF Inv, Remembers
  <2>2. CASE r.op = "search"
    BY <2>1, <2>2 DEF Remembers, IsRequest
  <2>3. CASE r.op # "search"
    BY <2>1, <2>3 DEF Remembers
  <2> QED
    BY <2>2, <2>3
<1> QED
  BY <1>1 DEF Forgotten

LEMMA AnsweredRemembers ==
  ASSUME Inv, NEW r \in requests, NEW status, NEW shows
  PROVE  Remembers([r EXCEPT !.status = status, !.shows = shows], query)
<1>1. Remembers(r, query)
  BY DEF Inv
<1> QED
  BY <1>1 DEF Remembers, IsRequest

LEMMA FollowsRemember ==
  ASSUME Inv, NEW r \in requests
  PROVE  \A f \in Follows(r) : Remembers(f, query)
<1>1. IsRequest(r)
  BY DEF Inv, Remembers
<1>2. ASSUME NEW op, op \notin {"fetch", "search"} PROVE Remembers(Then(r, op), query)
  BY <1>1, <1>2 DEF Then, Remembers, IsRequest
<1>3. Remembers([Then(r, "fetch") EXCEPT !.query = "playlists"], query)
  BY <1>1 DEF Then, Remembers, IsRequest
<1>4. Remembers(Then(r, "get"), query) /\ Remembers(Then(r, "add"), query)
  BY <1>2
<1> QED
  BY <1>3, <1>4 DEF Follows
-------------------------------------------------------------------------------
(* The page keeps its section and its search, and asks, forgets or keeps.    *)
LEMMA PageKept ==
  ASSUME Inv, UNCHANGED browsing, \A r \in requests' : Remembers(r, query)
  PROVE  Inv' /\ ShowsLast
BY DEF Inv, ShowsLast, CatalogMatchesMode, browsing

LEMMA Asked ==
  ASSUME Inv, UNCHANGED browsing, NEW r, Ask(r), Remembers(r, query)
  PROVE  Inv' /\ ShowsLast
<1>1. requests' = requests \cup {r}
  BY DEF Ask
<1> QED
  BY <1>1, PageKept DEF Inv

LEMMA ClicksInv ==
  ASSUME Inv, Clicks
  PROVE  Inv' /\ ShowsLast
<1>1. UNCHANGED browsing
  BY DEF Clicks, page
<1>2. PICK r : Ask(r) /\ Remembers(r, query)
  <2>1. CASE OpenPlaylist
    <3>1. PICK p \in Known : Ask([Request("get") EXCEPT !.list = p])
      BY <2>1 DEF OpenPlaylist
    <3> QED
      BY <3>1, Made
  <2>2. CASE Move
    <3>1. PICK i \in 1..(Len(selected.tracks) - 1) :
            Ask([Request("order") EXCEPT !.list = selected.list,
                                         !.order = Swapped(selected.tracks, i)])
      BY <2>2 DEF Move
    <3> QED
      BY <3>1, Made
  <2>3. CASE RemoveTrack
    <3>1. PICK t \in ToSet(selected.tracks) :
            Ask([Request("remove") EXCEPT !.list = selected.list, !.track = t])
      BY <2>3 DEF RemoveTrack
    <3> QED
      BY <3>1, Made
  <2>4. CASE AddPending
    <3>1. PICK t \in Tracks, p \in Known : Ask([Request("add") EXCEPT !.list = p, !.track = t])
      BY <2>4 DEF AddPending
    <3> QED
      BY <3>1, Made
  <2>5. CASE CreatePlaylist
    <3>1. PICK n \in Names, t \in Tracks \cup {NoTrack} :
            Ask([Request("create") EXCEPT !.name = n, !.track = t])
      BY <2>5 DEF CreatePlaylist
    <3>2. Remembers([Request("create") EXCEPT !.name = n, !.track = t], query)
      BY Made
    <3> QED
      BY <3>1, <3>2
  <2>6. CASE EditPlaylist
    <3>1. PICK n \in Names : Ask([Request("rename") EXCEPT !.list = selected.list, !.name = n])
      BY <2>6 DEF EditPlaylist
    <3> QED
      BY <3>1, Made
  <2>7. CASE DeleteSelected
    <3>1. Ask([Request("delete") EXCEPT !.list = selected.list])
      BY <2>7 DEF DeleteSelected
    <3> QED
      BY <3>1, Made
  <2>8. \/ OpenPlaylist \/ Move \/ RemoveTrack \/ AddPending
        \/ CreatePlaylist \/ EditPlaylist \/ DeleteSelected
    BY DEF Clicks
  <2> QED
    BY <2>1, <2>2, <2>3, <2>4, <2>5, <2>6, <2>7, <2>8
<1> QED
  BY <1>1, <1>2, Asked
-------------------------------------------------------------------------------
(* Browsing: what ends a search forgets its answers.                         *)
LEMMA BrowsesInv ==
  ASSUME Inv, Browses
  PROVE  Inv' /\ ShowsLast
<1>1. CASE ReturnFromDetail
  BY <1>1, PageKept DEF ReturnFromDetail, Inv
<1>2. CASE ClearSearch
  <2>1. \A r \in requests' : Remembers(r, query')
    BY <1>2, ForgottenRemember DEF ClearSearch
  <2>2. CatalogMatchesMode' /\ results' = NoQuery /\ query' = field'
    BY <1>2 DEF ClearSearch, Emptied, Restore, Inv, CatalogMatchesMode
  <2> QED
    BY <2>1, <2>2 DEF Inv, ShowsLast
<1>3. CASE SearchFor
  <2>1. query' = field' /\ query' = field /\ results' = results
    BY <1>3 DEF SearchFor, Fires
  <2>2. \A r \in requests' : Remembers(r, field)
    BY <1>3, ForgottenRemember, MadeForField DEF SearchFor
  <2>3. CatalogMatchesMode'
    BY <1>3 DEF SearchFor, Inv, CatalogMatchesMode
  <2> QED
    BY <2>1, <2>2, <2>3 DEF Inv, ShowsLast
<1>5. CASE EndSearch
  <2>1. \A r \in requests' : Remembers(r, query')
    BY <1>5, ForgottenRemember DEF EndSearch
  <2>2. CatalogMatchesMode' /\ results' = NoQuery /\ query' = field'
    BY <1>5 DEF EndSearch, Fires, Restore, Inv, CatalogMatchesMode
  <2> QED
    BY <2>1, <2>2 DEF Inv, ShowsLast
<1>6. ASSUME NEW q, Type(q)
      PROVE  Inv' /\ ShowsLast
  BY <1>6 DEF Type, Inv, ShowsLast, CatalogMatchesMode
<1>4. ASSUME NEW s \in Sections \cup {"home"}, NEW clears \in BOOLEAN, OpenSection(s, clears)
      PROVE  Inv' /\ ShowsLast
  <2> DEFINE ends == clears /\ (field # NoQuery \/ mode = "search")
             before == IF ends THEN Forgotten ELSE requests
  <2>1. s # "search" /\ results' \in {results, NoQuery}
    BY <1>4, PlaylistsAssumption DEF OpenSection, Emptied, Menu, Shortcuts
  <2>2. /\ ends \/ query' = query
        /\ timer' \/ query' = field'
    BY <1>4 DEF OpenSection, Emptied, Inv
  <2>3. \A r \in before : Remembers(r, query')
    BY <2>2, ForgottenRemember DEF Inv
  <2>4. requests' = before \/ requests' = before \cup {[Request("fetch") EXCEPT !.query = s]}
    BY <1>4 DEF OpenSection
  <2>5. CatalogMatchesMode'
    BY <1>4, <2>1 DEF OpenSection, Emptied, Inv, CatalogMatchesMode
  <2>6. Remembers([Request("fetch") EXCEPT !.query = s], query')
    BY <2>1, MadeForField
  <2> HIDE DEF before
  <2>7. \A r \in requests' : Remembers(r, query')
    BY <2>3, <2>4, <2>6
  <2>8. results' = results \/ results' = NoQuery
    BY <2>1
  <2> QED
    BY <2>2, <2>5, <2>7, <2>8 DEF Inv, ShowsLast
<1> QED
  BY <1>1, <1>2, <1>3, <1>4, <1>5, <1>6 DEF Browses

(* The server answers, without the page.                                     *)
LEMMA ServeInv ==
  ASSUME Inv, NEW r \in requests, Serve(r)
  PROVE  Inv' /\ ShowsLast
<1>1. UNCHANGED browsing
  BY DEF Serve, page
<1>2. PICK status, shows : Answer(r, status, shows)
  BY DEF Serve
<1>3. Remembers([r EXCEPT !.status = status, !.shows = shows], query)
  BY AnsweredRemembers
<1>4. requests' = (requests \ {r}) \cup {[r EXCEPT !.status = status, !.shows = shows]}
  BY <1>2 DEF Answer
<1>5. \A a \in requests' : Remembers(a, query)
  BY <1>3, <1>4 DEF Inv
<1> QED
  BY <1>1, <1>5, PageKept

(* The page takes an answer, of whichever request.                           *)
LEMMA AnsweredInv ==
  ASSUME Inv, NEW r \in requests, Answered(r)
  PROVE  Inv' /\ ShowsLast
<1>1. CASE r.status = "ok"
  <2>1. Took(r) /\ UNCHANGED <<field, timer, query>>
    BY <1>1 DEF Answered, Took
  <2>2. Remembers(r, query)
    BY DEF Inv
  <2>3. \A a \in requests' : Remembers(a, query')
    BY <2>1, FollowsRemember DEF Took, Inv
  <2>4. CatalogMatchesMode'
    BY <2>1, <2>2 DEF Took, SectionAfter, Inv, CatalogMatchesMode, Remembers
  <2>5. results' \notin {results, NoQuery} => results' = query'
    BY <2>1, <2>2 DEF Took, ResultsAfter, ForTheLast, Remembers
  <2> QED
    BY <2>1, <2>3, <2>4, <2>5 DEF Inv, ShowsLast
<1>2. CASE r.status # "ok"
  <2>1. UNCHANGED browsing /\ requests' = requests \ {r}
    BY <1>2 DEF Answered, page
  <2> QED
    BY <2>1, PageKept DEF Inv
<1> QED
  BY <1>1, <1>2

(* What is lost, and what happens elsewhere.                                 *)
LEMMA TroubleInv ==
  ASSUME Inv,
         \/ \E r \in requests : Lost(r)
         \/ Elsewhere
         \/ \E t \in Tracks : Availability(t) \/ TrackDeleted(t)
  PROVE  Inv' /\ ShowsLast
<1>1. UNCHANGED browsing /\ requests' \subseteq requests
  BY DEF Lost, Elsewhere, Availability, TrackDeleted, page
<1> QED
  BY <1>1, PageKept DEF Inv

LEMMA NextInv ==
  ASSUME Inv, [Next]_vars
  PROVE  Inv' /\ ShowsLast
<1>1. CASE Next
  BY <1>1, ClicksInv, BrowsesInv, ServeInv, AnsweredInv, TroubleInv DEF Next
<1>2. CASE UNCHANGED vars
  BY <1>2, PageKept DEF vars, page, Inv
<1> QED
  BY <1>1, <1>2

(* The section shown is the one of the catalogue in memory, however requests *)
(* and searches cross (music.js:184-203, 1314-1371).                         *)
THEOREM SectionMatches == Spec => []CatalogMatchesMode
<1>1. Init => Inv
  BY InitInv
<1>2. Inv /\ [Next]_vars => Inv'
  BY NextInv
<1>3. Inv => CatalogMatchesMode
  BY DEF Inv
<1> QED
  BY <1>1, <1>2, <1>3, PTL DEF Spec

(* The results shown come to be those of the last query made only, which the *)
(* field still holds, unless it was changed since the timer fired            *)
(* (music.js:1320-1371, 1414-1418).                                          *)
THEOREM SearchIsLast == Spec => SearchShowsLast
<1>1. Init => Inv
  BY InitInv
<1>2. Inv /\ [Next]_vars => Inv'
  BY NextInv
<1>3. Inv /\ [Next]_vars => [ShowsLast]_vars
  BY NextInv
<1>4. SearchShowsLast <=> [][ShowsLast]_vars
  BY PTL DEF SearchShowsLast, ShowsLast
<1> QED
  BY <1>1, <1>2, <1>3, <1>4, PTL DEF Spec

(* A track whose addition is answered is among the tracks the answer shows,  *)
(* whatever holes the positions have: INSERT OR IGNORE drops none (music-    *)
(* playlist-service.js:340-372).                                             *)
THEOREM AddedThere == Spec => []AddedIsThere
<1>1. Init => Stored
  BY StoredInit
<1>2. Stored /\ [Next]_vars => Stored'
  BY NextStored
<1>3. Stored => AddedIsThere
  BY DEF Stored, Sensible, AddedIsThere
<1> QED
  BY <1>1, <1>2, <1>3, PTL DEF Spec

(* The rows of the playlists, read by position, are sequences of tracks      *)
(* without repetitions that change as PlaylistOrder says: what is added goes *)
(* last, what goes out leaves the others in order (music-playlist-           *)
(* service.js:340-422).                                                      *)
THEOREM ListsImplemented == Spec => KeepsLists
<1>1. Init => Stored /\ Lists!Init
  BY StoredInit
<1>2. Stored /\ [Next]_vars => Stored' /\ [Lists!Next]_<<existing, lists>>
  BY NextStored
<1> QED
  BY <1>1, <1>2, PTL DEF Spec, KeepsLists, Lists!Spec, existing, lists
===============================================================================
