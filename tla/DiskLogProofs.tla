----------------------------- MODULE DiskLogProofs -----------------------------
(***************************************************************************)
(* Proofs about DiskLog, for any logs that earlier processes left, any     *)
(* number of stores, shards, records and crashes.                          *)
(*                                                                         *)
(* parseLogLines picks the lines of a file by their rank; the first part   *)
(* shows that it lists them, in their order (Ranked, Parsed), and that the *)
(* text from a line on gives the end of that list (SuffixParses).          *)
(*                                                                         *)
(* DInv has the types, and that pieces lie one behind the other.  CInv     *)
(* says why an index can be trusted: no torn checkpoint starts at its      *)
(* offset, and none can come to, for it lies inside its file (Held), or    *)
(* the log is still old and nothing is appended to it before every shard   *)
(* has been rewritten (Phase, Single).  LInv has the sequences and the     *)
(* records: with one store a new sequence is past every line (Sequences),  *)
(* and what was acknowledged stays in some file (Kept).                    *)
(***************************************************************************)
EXTENDS DiskLog, FiniteSetTheorems, SequenceTheorems, TLAPS

(* Sequences of positions.                                                 *)
Rising(q) == \A i, j \in 1..Len(q) : i < j => q[i] < q[j]
Lists(q, S) == q \in Seq(Nat) /\ Rising(q) /\ \A p \in Nat : p \in S <=> \E i \in 1..Len(q) : q[i] = p
Rank(S, k) == Cardinality({q \in S : q <= k})
Nth(S) == [j \in 1..Cardinality(S) |-> CHOOSE k \in S : Cardinality({q \in S : q <= k}) = j]

(* Nth lists exactly the positions it is given, in ascending order, each   *)
(* at the place that is its rank.                                          *)
LEMMA Ranked ==
    ASSUME NEW S \in SUBSET Nat, IsFiniteSet(S)
    PROVE  /\ Lists(Nth(S), S) /\ Len(Nth(S)) = Cardinality(S)
           /\ \A k \in S : Rank(S, k) \in 1..Cardinality(S) /\ Nth(S)[Rank(S, k)] = k
<1> DEFINE n == Cardinality(S)
           upTo(c) == {d \in S : d <= c}
           rank == [c \in S |-> Cardinality(upTo(c))]
<1>1. n \in Nat
  BY FS_CardinalityType
<1>2. ASSUME NEW c \in S
      PROVE  rank[c] \in 1..n
  <2>1. IsFiniteSet(upTo(c)) /\ Cardinality(upTo(c)) <= n
    BY FS_Subset
  <2>2. Cardinality(upTo(c)) \in Nat
    BY <2>1, FS_CardinalityType
  <2>3. Cardinality(upTo(c)) # 0
    <3>1. c \in upTo(c)
      OBVIOUS
    <3> QED BY <2>1, <3>1, FS_EmptySet
  <2> QED BY <1>1, <2>1, <2>2, <2>3
<1>3. ASSUME NEW c \in S, NEW d \in S, c < d
      PROVE  rank[c] < rank[d]
  <2>0. c \in Nat /\ d \in Nat /\ \A e \in S : e \in Nat
    OBVIOUS
  <2>a. upTo(c) \in SUBSET upTo(d)
    <3> SUFFICES ASSUME NEW e \in S, e <= c
                 PROVE  e <= d
      OBVIOUS
    <3>1. e \in Nat /\ c \in Nat /\ d \in Nat
      BY <2>0
    <3> QED BY <1>3, <3>1
  <2>b. IsFiniteSet(upTo(d))
    BY FS_Subset
  <2>1. IsFiniteSet(upTo(d)) /\ upTo(c) \in SUBSET upTo(d)
    BY <2>a, <2>b
  <2>2. upTo(c) # upTo(d)
    BY <1>3
  <2>3. Cardinality(upTo(c)) <= Cardinality(upTo(d)) /\ Cardinality(upTo(c)) # Cardinality(upTo(d))
    BY <2>1, <2>2, FS_Subset
  <2> QED BY <1>2, <2>3
<1>h. \A c \in S : rank[c] = Cardinality({q \in S : q <= c})
  OBVIOUS
<1> HIDE DEF rank
<1>4. rank \in Injection(S, 1..n)
  <2>1. rank \in [S -> 1..n]
    BY <1>2 DEF rank
  <2>2. ASSUME NEW c \in S, NEW d \in S, rank[c] = rank[d]
        PROVE  c = d
    BY <1>2, <1>3, <2>2
  <2> QED BY <2>1, <2>2 DEF Injection, IsInjective
<1>5. rank \in Surjection(S, 1..n)
  <2>1. IsFiniteSet(1..n) /\ Cardinality(1..n) = n
    BY <1>1, FS_Interval
  <2> QED BY <1>4, <2>1, FS_Injection
<1>6. \A i \in 1..n : \E c \in S : rank[c] = i
  BY <1>5 DEF Surjection
<1> DEFINE f == Nth(S)
<1>7. f = [i \in 1..n |-> CHOOSE p \in S : Cardinality({q \in S : q <= p}) = i]
  BY DEF Nth
<1>8. \A i \in 1..n : f[i] \in S /\ rank[f[i]] = i
  <2> SUFFICES ASSUME NEW i \in 1..n PROVE f[i] \in S /\ rank[f[i]] = i
    OBVIOUS
  <2>1. f[i] = CHOOSE p \in S : Cardinality({q \in S : q <= p}) = i
    BY <1>7
  <2>2. \E p \in S : Cardinality({q \in S : q <= p}) = i
    BY <1>6, <1>h
  <2>3. f[i] \in S /\ Cardinality({q \in S : q <= f[i]}) = i
    BY <2>1, <2>2
  <2> QED BY <2>3, <1>h
<1>9. f \in Seq(Nat) /\ Len(f) = n
  <2>1. DOMAIN f = 1..n /\ \A i \in 1..n : f[i] \in Nat
    BY <1>7, <1>8
  <2>2. f = [i \in 1..n |-> f[i]]
    BY <1>7
  <2> HIDE DEF f
  <2> QED BY <2>1, <2>2, <1>1
<1> HIDE DEF f
<1>10. ASSUME NEW i \in 1..n, NEW j \in 1..n, i < j
       PROVE  f[i] < f[j]
  <2>1. f[i] \in Nat /\ f[j] \in Nat
    BY <1>8
  <2>2. rank[f[i]] = i /\ rank[f[j]] = j /\ f[i] \in S /\ f[j] \in S
    BY <1>8
  <2>5. i \in Int /\ j \in Int
    BY <1>1
  <2>3. ~(f[j] < f[i])
    <3> SUFFICES ASSUME f[j] < f[i] PROVE FALSE
      OBVIOUS
    <3>1. rank[f[j]] < rank[f[i]]
      BY <2>2, <1>3
    <3> QED BY <3>1, <2>2, <2>5, <1>10
  <2>4. f[i] # f[j]
    BY <2>2, <2>5, <1>10
  <2> QED BY <2>1, <2>3, <2>4
<1>11. ASSUME NEW p \in S PROVE rank[p] \in 1..n /\ f[rank[p]] = p
  <2>1. rank[p] \in 1..n /\ f[rank[p]] \in S /\ rank[f[rank[p]]] = rank[p]
    BY <1>2, <1>8
  <2>2. f[rank[p]] = p
    BY <2>1, <1>4 DEF Injection, IsInjective
  <2> QED BY <2>1, <2>2
<1> QED
  <2>1. Rising(f)
    BY <1>9, <1>10 DEF Rising
  <2>2. \A p \in Nat : p \in S <=> \E i \in 1..Len(f) : f[i] = p
    BY <1>8, <1>9, <1>11
  <2>3. Lists(f, S)
    BY <1>9, <2>1, <2>2 DEF Lists
  <2>4. \A k \in S : rank[k] = Rank(S, k)
    BY <1>h DEF Rank
  <2> QED BY <2>3, <2>4, <1>9, <1>11 DEF f


(* The largest of a finite set that is not empty.                          *)
LEMMA Largest ==
    ASSUME NEW S \in SUBSET Nat, IsFiniteSet(S), S # {}
    PROVE  Max(S) \in S /\ \A p \in S : p <= Max(S)
<1> DEFINE q == Nth(S)
<1>1. Lists(q, S)
  BY Ranked
<1> HIDE DEF q
<1>2. q \in Seq(Nat) /\ Len(q) \in Nat /\ Rising(q)
  BY <1>1 DEF Lists
<1>3. \A p \in S : \E i \in 1..Len(q) : q[i] = p
  BY <1>1 DEF Lists
<1>4. Len(q) >= 1 /\ Len(q) \in 1..Len(q)
  <2>1. PICK p \in S : TRUE
    OBVIOUS
  <2>2. PICK i \in 1..Len(q) : q[i] = p
    BY <1>3
  <2> QED BY <1>2, <2>2
<1>5. q[Len(q)] \in S
  BY <1>1, <1>2, <1>4 DEF Lists
<1>6. \A p \in S : p <= q[Len(q)]
  <2> SUFFICES ASSUME NEW p \in S PROVE p <= q[Len(q)]
    OBVIOUS
  <2>1. PICK i \in 1..Len(q) : q[i] = p
    BY <1>3
  <2>2. i = Len(q) \/ q[i] < q[Len(q)]
    BY <1>2, <1>4 DEF Rising
  <2> QED BY <1>2, <2>1, <2>2, <1>4
<1>7. \E x \in S : \A y \in S : x >= y
  <2>1. \A y \in S : q[Len(q)] >= y
    BY <1>5, <1>6
  <2> QED BY <1>5, <2>1
<1>8. Max(S) \in S /\ \A y \in S : Max(S) >= y
  BY <1>7 DEF Max
<1> QED BY <1>8

-----------------------------------------------------------------------------
(* Texts.                                                                  *)

(* The positions of the lines of a text.                                   *)
LEMMA LinesFinite ==
    ASSUME NEW f \in Seq(Pieces)
    PROVE  /\ Len(f) \in Nat /\ LinesAt(f) \in SUBSET (1..Len(f))
           /\ LinesAt(f) \in SUBSET Nat /\ IsFiniteSet(LinesAt(f))
           /\ Cardinality(LinesAt(f)) \in Nat
<1>1. Len(f) \in Nat
  OBVIOUS
<1>2. LinesAt(f) \in SUBSET (1..Len(f))
  BY DEF LinesAt
<1>3. IsFiniteSet(1..Len(f))
  BY <1>1, FS_Interval
<1>4. IsFiniteSet(LinesAt(f))
  BY <1>2, <1>3, FS_Subset
<1> QED BY <1>1, <1>2, <1>4, FS_CardinalityType

(* What parseLogLines yields are the pieces at the lines of the text, each *)
(* line once and in their order.                                           *)
LEMMA Parsed ==
    ASSUME NEW f \in Seq(Pieces)
    PROVE  /\ parseLogLines(f) \in Seq(Pieces)
           /\ Len(parseLogLines(f)) = Cardinality(LinesAt(f))
           /\ Len(parseLogLines(f)) \in Nat
           /\ \A j \in 1..Len(parseLogLines(f)) :
                 /\ Nth(LinesAt(f))[j] \in LinesAt(f)
                 /\ parseLogLines(f)[j] = f[Nth(LinesAt(f))[j]]
           /\ \A i, j \in 1..Len(parseLogLines(f)) :
                 i < j => Nth(LinesAt(f))[i] < Nth(LinesAt(f))[j]
           /\ \A k \in LinesAt(f) :
                 /\ Rank(LinesAt(f), k) \in 1..Len(parseLogLines(f))
                 /\ Nth(LinesAt(f))[Rank(LinesAt(f), k)] = k
                 /\ parseLogLines(f)[Rank(LinesAt(f), k)] = f[k]
<1> DEFINE S == LinesAt(f)
           at == Nth(S)
           r == parseLogLines(f)
           n == Cardinality(S)
<1>1. /\ Len(f) \in Nat /\ S \in SUBSET (1..Len(f)) /\ S \in SUBSET Nat
      /\ IsFiniteSet(S) /\ n \in Nat
  BY LinesFinite
<1>2. /\ Lists(at, S) /\ Len(at) = n
      /\ \A k \in S : Rank(S, k) \in 1..n /\ at[Rank(S, k)] = k
  <2> HIDE DEF S
  <2> QED BY <1>1, Ranked
<1>3. at \in Seq(Nat) /\ \A j \in 1..n : at[j] \in S
  <2> HIDE DEF S, at, n
  <2>1. at \in Seq(Nat) /\ Len(at) = n /\ \A p \in Nat : p \in S <=> \E i \in 1..Len(at) : at[i] = p
    BY <1>2 DEF Lists
  <2>2. \A j \in 1..n : at[j] \in Nat
    BY <2>1
  <2> QED BY <2>1, <2>2
<1>4. r = [j \in 1..n |-> f[at[j]]]
  <2>1. \A j \in 1..n : at[j] = CHOOSE k \in S : Cardinality({q \in S : q <= k}) = j
    <3> HIDE DEF S
    <3> QED BY DEF Nth
  <2>2. r = [j \in 1..n |-> f[CHOOSE k \in S : Cardinality({q \in S : q <= k}) = j]]
    BY DEF parseLogLines
  <2> DEFINE c(j) == CHOOSE k \in S : Cardinality({q \in S : q <= k}) = j
  <2>3. \A j \in 1..n : at[j] = c(j)
    BY <2>1
  <2>4. r = [j \in 1..n |-> f[c(j)]]
    BY <2>2
  <2> HIDE DEF r, S, at, n, c
  <2> QED BY <2>3, <2>4
<1>5. \A i, j \in 1..n : i < j => at[i] < at[j]
  <2> HIDE DEF at, n
  <2> QED BY <1>2 DEF Lists, Rising
<1> HIDE DEF r, S, at, n
<1>6. \A j \in 1..n : r[j] = f[at[j]] /\ f[at[j]] \in Pieces
  <2>1. \A k \in 1..Len(f) : f[k] \in Pieces
    OBVIOUS
  <2>2. \A j \in 1..n : f[at[j]] \in Pieces
    BY <1>1, <1>3, <2>1
  <2> QED BY <1>4, <2>2
<1>7. r \in [1..n -> Pieces]
  BY <1>4, <1>6
<1>8. r \in Seq(Pieces) /\ Len(r) = n
  BY <1>1, <1>7
<1>9. \A k \in S : r[Rank(S, k)] = f[k]
  BY <1>2, <1>6
<1> QED BY <1>1, <1>2, <1>3, <1>5, <1>6, <1>8, <1>9 DEF S, at, r, n

(* A file after one more piece.                                            *)
Appended(f, p, g) ==
    /\ g \in Seq(Pieces) /\ Len(g) = Len(f) + 1 /\ g[Len(f) + 1] = p /\ p.off = End(f)
    /\ \A i \in 1..Len(f) : g[i] = f[i]

(* A file after the lines r were written anew.                             *)
Rewritten(r, g) ==
    /\ g \in Seq(Pieces) /\ Len(g) = Len(r)
    /\ \A i \in 1..Len(r) :
          /\ g[i].off = i - 1 /\ g[i].size = 1 /\ g[i].nl /\ g[i].full
          /\ g[i].seq = r[i].seq /\ g[i].id = r[i].id /\ g[i].cp = r[i].cp

(* No checkpoint without its newline starts at this offset.                *)
Sound(f, off) == \A i \in 1..Len(f) : f[i].off = off /\ f[i].cp => f[i].nl

(* Some line of the file is complete.                                      *)
HasLine(f) == \E i \in 1..Len(f) : f[i].nl

(* A piece ends inside the file it is in.                                  *)
LEMMA EndBounds ==
    ASSUME NEW f \in Seq(Pieces), Placed(f)
    PROVE  /\ End(f) \in Nat
           /\ \A i \in 1..Len(f) : f[i].off + f[i].size <= End(f) /\ f[i].off < End(f)
<1>1. Len(f) \in Nat /\ \A i \in 1..Len(f) : f[i] \in Pieces
  OBVIOUS
<1>2. \A i \in 1..Len(f) : f[i].off \in Nat /\ f[i].size \in Nat /\ f[i].size >= 1
  BY <1>1 DEF Pieces
<1>3. CASE f = <<>>
  BY <1>3 DEF End
<1>4. CASE f # <<>>
  <2>1. Len(f) \in 1..Len(f) /\ End(f) = f[Len(f)].off + f[Len(f)].size
    BY <1>1, <1>4 DEF End
  <2>2. End(f) \in Nat
    BY <1>2, <2>1
  <2>3. ASSUME NEW i \in 1..Len(f)
        PROVE  f[i].off + f[i].size <= End(f) /\ f[i].off < End(f)
    <3>1. i = Len(f) \/ f[i].off + f[i].size <= f[Len(f)].off
      BY <1>1, <2>1 DEF Placed
    <3> QED BY <1>2, <2>1, <3>1
  <2> QED BY <2>2, <2>3
<1> QED BY <1>3, <1>4

(* appendFile puts a piece at the end, and what it makes no longer a line  *)
(* is at most the line that was the last.                                  *)
LEMMA AppendedText ==
    ASSUME NEW f \in Seq(Pieces), Placed(f), NEW p \in Pieces, NEW g, Appended(f, p, g)
    PROVE  /\ Placed(g) /\ End(g) \in Nat /\ End(f) \in Nat /\ End(f) < End(g)
           /\ \A k \in LinesAt(g) : k \in LinesAt(f) \/ k = Len(f) + 1
           /\ HasLine(f) => HasLine(g)
           /\ Corrupt(f) => Corrupt(g)
           /\ \A off \in Nat : off < End(f) /\ Sound(f, off) => Sound(g, off)
           /\ \A off \in Nat : (p.cp => p.nl) /\ Sound(f, off) => Sound(g, off)
<1>1. /\ Len(f) \in Nat /\ g \in Seq(Pieces) /\ Len(g) = Len(f) + 1 /\ g[Len(f) + 1] = p /\ p.off = End(f)
      /\ \A i \in 1..Len(f) : g[i] = f[i]
  BY DEF Appended
<1>2. End(f) \in Nat /\ \A i \in 1..Len(f) : f[i].off + f[i].size <= End(f) /\ f[i].off < End(f)
  BY EndBounds
<1>3. p.off \in Nat /\ p.size \in Nat /\ p.size >= 1
  BY DEF Pieces
<1>4. End(g) = p.off + p.size
  <2>1. g # <<>>
    BY <1>1
  <2> QED BY <2>1, <1>1 DEF End
<1>5. Placed(g)
  <2> SUFFICES ASSUME NEW i \in 1..Len(g), NEW j \in 1..Len(g), i < j
               PROVE  g[i].off + g[i].size <= g[j].off
    BY DEF Placed
  <2>1. i \in 1..Len(f) /\ g[i] = f[i]
    BY <1>1
  <2>2. CASE j = Len(f) + 1
    BY <1>1, <1>2, <2>1, <2>2
  <2>3. CASE j # Len(f) + 1
    <3>1. j \in 1..Len(f) /\ g[j] = f[j]
      BY <1>1, <2>3
    <3> QED BY <2>1, <3>1 DEF Placed
  <2> QED BY <2>2, <2>3
<1>6. ASSUME NEW k \in LinesAt(g), k # Len(f) + 1
      PROVE  k \in LinesAt(f)
  <2>1. k \in 1..Len(g) /\ IsLine(g, k)
    BY DEF LinesAt
  <2>2. k \in 1..Len(f) /\ g[k] = f[k]
    BY <1>1, <1>6, <2>1
  <2>3. StartsLine(f, k)
    <3>1. k = 1 \/ g[k - 1].nl
      BY <2>1 DEF IsLine, StartsLine
    <3>2. CASE k = 1
      BY <3>2 DEF StartsLine
    <3>3. CASE k # 1
      <4>1. k - 1 \in 1..Len(f)
        BY <1>1, <2>2, <3>3
      <4> QED BY <1>1, <3>1, <3>3, <4>1 DEF StartsLine
    <3> QED BY <3>2, <3>3
  <2>4. f[k].full /\ f[k].nl
    BY <1>1, <2>1, <2>2 DEF IsLine
  <2> QED BY <2>2, <2>3, <2>4 DEF LinesAt, IsLine
<1>7. HasLine(f) => HasLine(g)
  BY <1>1 DEF HasLine
<1>8. Corrupt(f) => Corrupt(g)
  <2> SUFFICES ASSUME NEW i \in 1..Len(f), NEW j \in 1..Len(f), i < j, ~f[i].nl, f[j].nl
               PROVE  Corrupt(g)
    BY DEF Corrupt
  <2>1. i \in 1..Len(g) /\ j \in 1..Len(g) /\ g[i] = f[i] /\ g[j] = f[j]
    BY <1>1
  <2> QED BY <2>1 DEF Corrupt
<1>9. ASSUME NEW off \in Nat, Sound(f, off), off < End(f) \/ (p.cp => p.nl)
      PROVE  Sound(g, off)
  <2> SUFFICES ASSUME NEW i \in 1..Len(g), g[i].off = off, g[i].cp
               PROVE  g[i].nl
    BY DEF Sound
  <2>1. CASE i = Len(f) + 1
    <3>1. g[i] = p /\ p.off = End(f)
      BY <1>1, <2>1
    <3>2. ~(off < End(f))
      BY <3>1, <1>2
    <3> QED BY <1>9, <3>1, <3>2
  <2>2. CASE i # Len(f) + 1
    <3>1. i \in 1..Len(f) /\ g[i] = f[i]
      BY <1>1, <2>2
    <3> QED BY <1>9, <3>1 DEF Sound
  <2> QED BY <2>1, <2>2
<1> QED BY <1>1, <1>2, <1>3, <1>4, <1>5, <1>6, <1>7, <1>8, <1>9

(* The lines of a text up to a place are those in front of a line break    *)
(* and those of the text from there on.                                    *)
LEMMA LinesSplit ==
    ASSUME NEW f \in Seq(Pieces), NEW i \in 1..Len(f), StartsLine(f, i),
           NEW t \in Seq(Pieces), Len(t) = Len(f) - i + 1,
           \A k \in 1..Len(t) : t[k] = f[k + i - 1]
    PROVE  /\ \A k \in 1..Len(t) : k \in LinesAt(t) <=> k + i - 1 \in LinesAt(f)
           /\ \A b \in 0..Len(t) :
                 Cardinality({q \in LinesAt(f) : q <= b + i - 1})
                 = Cardinality({q \in LinesAt(f) : q < i}) + Cardinality({q \in LinesAt(t) : q <= b})
<1>1. Len(f) \in Nat /\ Len(t) \in Nat /\ i \in Nat /\ i >= 1 /\ i <= Len(f)
  OBVIOUS
<1>2. ASSUME NEW k \in 1..Len(t)
      PROVE  k \in LinesAt(t) <=> k + i - 1 \in LinesAt(f)
  <2> DEFINE m == k + i - 1
  <2>1. m \in 1..Len(f) /\ t[k] = f[m] /\ (k = Len(t) <=> m = Len(f))
    BY <1>1
  <2>2. StartsLine(t, k) <=> StartsLine(f, m)
    <3>1. CASE k = 1
      <4>1. m = i
        BY <1>1, <3>1
      <4> QED BY <3>1, <4>1 DEF StartsLine
    <3>2. CASE k # 1
      <4>1. k - 1 \in 1..Len(t) /\ m # 1 /\ (k - 1) + i - 1 = m - 1
        BY <1>1, <3>2
      <4>2. t[k - 1] = f[m - 1]
        <5>1. t[k - 1] = f[(k - 1) + i - 1]
          BY <4>1
        <5> QED BY <4>1, <5>1
      <4> QED BY <3>2, <4>1, <4>2 DEF StartsLine
    <3> QED BY <3>1, <3>2
  <2> HIDE DEF m
  <2>3. IsLine(t, k) <=> IsLine(f, m)
    BY <2>1, <2>2 DEF IsLine
  <2>4. k \in LinesAt(t) <=> m \in LinesAt(f)
    BY <2>1, <2>3 DEF LinesAt
  <2> QED BY <2>4 DEF m
<1>3. ASSUME NEW b \in 0..Len(t)
      PROVE  Cardinality({q \in LinesAt(f) : q <= b + i - 1})
             = Cardinality({q \in LinesAt(f) : q < i}) + Cardinality({q \in LinesAt(t) : q <= b})
  <2> DEFINE A == {q \in LinesAt(f) : q < i}
             B == {q \in LinesAt(f) : i <= q /\ q <= b + i - 1}
             C == {q \in LinesAt(t) : q <= b}
             D == {q \in LinesAt(f) : q <= b + i - 1}
             s == [q \in C |-> q + i - 1]
  <2>1. LinesAt(f) \in SUBSET (1..Len(f)) /\ LinesAt(t) \in SUBSET (1..Len(t))
    BY DEF LinesAt
  <2>2. IsFiniteSet(LinesAt(f)) /\ IsFiniteSet(LinesAt(t))
    BY LinesFinite
  <2>3. IsFiniteSet(A) /\ IsFiniteSet(B) /\ IsFiniteSet(C)
    BY <2>2, FS_Subset
  <2>4. D = A \cup B /\ A \cap B = {}
    BY <1>1, <2>1
  <2>5. s \in Bijection(C, B)
    <3>1. ASSUME NEW q \in C PROVE q + i - 1 \in B
      <4>1. q \in 1..Len(t) /\ q \in LinesAt(t) /\ q <= b
        BY <2>1
      <4>2. q + i - 1 \in LinesAt(f)
        BY <1>2, <4>1
      <4> QED BY <1>1, <4>1, <4>2
    <3>2. s \in [C -> B]
      BY <3>1
    <3>3. ASSUME NEW q \in C, NEW r \in C, s[q] = s[r] PROVE q = r
      <4>1. q \in Int /\ r \in Int
        BY <2>1
      <4> QED BY <1>1, <3>3, <4>1
    <3>4. ASSUME NEW y \in B PROVE \E q \in C : s[q] = y
      <4>1. y \in 1..Len(f) /\ y \in LinesAt(f) /\ i <= y /\ y <= b + i - 1
        BY <2>1
      <4>2. y - i + 1 \in 1..Len(t) /\ y - i + 1 <= b /\ (y - i + 1) + i - 1 = y
        BY <1>1, <4>1
      <4>3. y - i + 1 \in LinesAt(t)
        BY <1>2, <4>1, <4>2
      <4>4. y - i + 1 \in C
        BY <4>2, <4>3
      <4>5. s[y - i + 1] = y
        BY <4>2, <4>4
      <4> QED BY <4>4, <4>5
    <3> HIDE DEF s
    <3> QED BY <3>2, <3>3, <3>4 DEF Bijection, Injection, Surjection, IsInjective
  <2>6. Cardinality(B) = Cardinality(C)
    BY <2>3, <2>5, FS_Bijection DEF ExistsBijection
  <2>7. Cardinality(A \cap B) = 0
    BY <2>4, FS_EmptySet
  <2>8. Cardinality(A) \in Nat /\ Cardinality(B) \in Nat
    BY <2>3, FS_CardinalityType
  <2>9. Cardinality(D) = Cardinality(A) + Cardinality(B) - Cardinality(A \cap B)
    BY <2>3, <2>4, FS_Union
  <2> HIDE DEF A, B, C, D
  <2>10. Cardinality(D) = Cardinality(A) + Cardinality(C)
    BY <2>6, <2>7, <2>8, <2>9
  <2> QED BY <2>10 DEF A, C, D
<1> QED BY <1>2, <1>3

(* The last n of a sequence.                                               *)
LEMMA Segment ==
    ASSUME NEW s \in Seq(Pieces), NEW c \in Nat, NEW n \in Nat, Len(s) = c + n
    PROVE  /\ SubSeq(s, c + 1, Len(s)) \in Seq(Pieces) /\ Len(SubSeq(s, c + 1, Len(s))) = n
           /\ \A j \in 1..n : SubSeq(s, c + 1, Len(s))[j] = s[c + j]
<1>1. Len(s) \in Int /\ c + 1 \in Int /\ \A i \in (c + 1)..Len(s) : s[i] \in Pieces
  OBVIOUS
<1> DEFINE u == SubSeq(s, c + 1, Len(s))
<1>2. /\ u \in Seq(Pieces) /\ Len(u) = IF c + 1 <= Len(s) THEN Len(s) - (c + 1) + 1 ELSE 0
      /\ \A i \in 1..(Len(s) - (c + 1) + 1) : u[i] = s[c + 1 + i - 1]
  BY <1>1, SubSeqProperties
<1> HIDE DEF u
<1>3. Len(u) = n
  BY <1>2
<1>4. ASSUME NEW j \in 1..n PROVE u[j] = s[c + j]
  <2>1. j \in 1..(Len(s) - (c + 1) + 1) /\ c + 1 + j - 1 = c + j
    OBVIOUS
  <2> QED BY <1>2, <2>1
<1> QED BY <1>2, <1>3, <1>4 DEF u

(* Read from a place where a line starts, a text gives the end of what it  *)
(* gives read from the top.                                                *)
LEMMA SuffixParses ==
    ASSUME NEW f \in Seq(Pieces), NEW i \in 1..Len(f), StartsLine(f, i),
           NEW t, t = SubSeq(f, i, Len(f))
    PROVE  /\ Len(parseLogLines(t)) <= Len(parseLogLines(f))
           /\ parseLogLines(t) =
                 SubSeq(parseLogLines(f), Len(parseLogLines(f)) - Len(parseLogLines(t)) + 1,
                        Len(parseLogLines(f)))
<1>1. Len(f) \in Nat /\ i \in Nat /\ i >= 1 /\ i <= Len(f)
  OBVIOUS
<1>2. t \in Seq(Pieces) /\ Len(t) = Len(f) - i + 1 /\ \A k \in 1..Len(t) : t[k] = f[k + i - 1]
  BY <1>1
<1> DEFINE L == LinesAt(f)
           M == LinesAt(t)
           all == parseLogLines(f)
           r == parseLogLines(t)
           c == Cardinality({q \in L : q < i})
<1>3. /\ \A k \in 1..Len(t) : k \in M <=> k + i - 1 \in L
      /\ \A b \in 0..Len(t) : Rank(L, b + i - 1) = c + Rank(M, b)
  BY <1>2, LinesSplit DEF Rank
<1>4. /\ all \in Seq(Pieces) /\ Len(all) = Cardinality(L) /\ Len(all) \in Nat
      /\ \A k \in L : Rank(L, k) \in 1..Len(all) /\ all[Rank(L, k)] = f[k]
  BY Parsed
<1>5. /\ r \in Seq(Pieces) /\ Len(r) = Cardinality(M) /\ Len(r) \in Nat
      /\ \A j \in 1..Len(r) : Nth(M)[j] \in M /\ r[j] = t[Nth(M)[j]]
      /\ \A j, k \in 1..Len(r) : j < k => Nth(M)[j] < Nth(M)[k]
      /\ \A k \in M : Rank(M, k) \in 1..Len(r) /\ Nth(M)[Rank(M, k)] = k
  BY <1>2, Parsed
<1>6. M \in SUBSET (1..Len(t)) /\ L \in SUBSET (1..Len(f))
  BY DEF LinesAt
<1>7. c \in Nat /\ Len(all) = c + Len(r)
  <2>1. IsFiniteSet(L)
    BY LinesFinite
  <2>2. IsFiniteSet({q \in L : q < i})
    BY <2>1, FS_Subset
  <2>3. c \in Nat
    BY <2>2, FS_CardinalityType
  <2>4. {q \in L : q <= Len(t) + i - 1} = L /\ {q \in M : q <= Len(t)} = M
    BY <1>1, <1>2, <1>6
  <2>5. Rank(L, Len(t) + i - 1) = Cardinality(L) /\ Rank(M, Len(t)) = Cardinality(M)
    BY <2>4 DEF Rank
  <2>6. Len(t) \in 0..Len(t)
    BY <1>1, <1>2
  <2>7. Cardinality(L) = c + Cardinality(M)
    BY <1>3, <2>5, <2>6
  <2> QED BY <1>4, <1>5, <2>3, <2>7
<1> HIDE DEF L, M, all, r, c
<1>8. ASSUME NEW j \in 1..Len(r)
      PROVE  r[j] = all[c + j]
  <2> DEFINE k == Nth(M)[j]
  <2>1. k \in M /\ r[j] = t[k] /\ k \in 1..Len(t)
    BY <1>5, <1>6
  <2>2. Rank(M, k) = j
    <3>1. Rank(M, k) \in 1..Len(r) /\ Nth(M)[Rank(M, k)] = k
      BY <1>5, <2>1
    <3> DEFINE n == Rank(M, k)
    <3> HIDE DEF n
    <3>2. n \in 1..Len(r) /\ Nth(M)[n] = k
      BY <3>1 DEF n
    <3>3. k \in Int
      BY <2>1
    <3>4. ~(n < j) /\ ~(j < n)
      BY <1>5, <3>2, <3>3
    <3> QED BY <3>2, <3>4, <1>5 DEF n
  <2> HIDE DEF k
  <2>3. k + i - 1 \in L /\ t[k] = f[k + i - 1]
    BY <1>2, <1>3, <2>1
  <2>4. Rank(L, k + i - 1) = c + j
    <3>1. k \in 0..Len(t)
      BY <1>1, <1>2, <2>1
    <3> QED BY <1>3, <2>2, <3>1
  <2>5. all[Rank(L, k + i - 1)] = f[k + i - 1]
    BY <1>4, <2>3
  <2> QED BY <2>1, <2>3, <2>4, <2>5
<1>9. r = SubSeq(all, Len(all) - Len(r) + 1, Len(all))
  <2>1. Len(all) - Len(r) + 1 = c + 1
    BY <1>5, <1>7
  <2> DEFINE u == SubSeq(all, c + 1, Len(all))
  <2>2. u \in Seq(Pieces) /\ Len(u) = Len(r) /\ \A j \in 1..Len(r) : u[j] = all[c + j]
    BY <1>4, <1>5, <1>7, Segment
  <2> HIDE DEF u
  <2>3. \A j \in 1..Len(r) : u[j] = r[j]
    BY <1>8, <2>2
  <2>4. u = r
    BY <1>5, <2>2, <2>3
  <2> QED BY <2>1, <2>4 DEF u
<1>10. Len(r) <= Len(all)
  BY <1>4, <1>5, <1>7
<1> QED BY <1>9, <1>10 DEF r, all

(* A shard written anew has the lines it had, all of them complete, with   *)
(* their sequences and in their order.                                     *)
LEMMA RewrittenText ==
    ASSUME NEW f \in Seq(Pieces), NEW g, Rewritten(parseLogLines(f), g)
    PROVE  /\ Placed(g) /\ End(g) = Len(g)
           /\ \A i \in 1..Len(g) : g[i].nl
           /\ \A k \in LinesAt(g) : \E j \in LinesAt(f) : g[k].seq = f[j].seq
           /\ \A j \in LinesAt(f) : \E k \in 1..Len(g) : g[k].id = f[j].id /\ k \in LinesAt(g)
           /\ Ascends(f) => Ascends(g)
           /\ HasLine(f) /\ ~Corrupt(f) => HasLine(g)
<1> DEFINE r == parseLogLines(f)
           at == Nth(LinesAt(f))
<1>1. /\ r \in Seq(Pieces) /\ Len(r) \in Nat
      /\ \A j \in 1..Len(r) : at[j] \in LinesAt(f) /\ r[j] = f[at[j]]
      /\ \A i, j \in 1..Len(r) : i < j => at[i] < at[j]
      /\ \A k \in LinesAt(f) : Rank(LinesAt(f), k) \in 1..Len(r) /\ r[Rank(LinesAt(f), k)] = f[k]
  BY Parsed
<1>r. Rewritten(r, g)
  OBVIOUS
<1> HIDE DEF r, at
<1>2. /\ g \in Seq(Pieces) /\ Len(g) = Len(r)
      /\ \A i \in 1..Len(r) :
          /\ g[i].off = i - 1 /\ g[i].size = 1 /\ g[i].nl /\ g[i].full
          /\ g[i].seq = r[i].seq /\ g[i].id = r[i].id /\ g[i].cp = r[i].cp
  BY <1>r DEF Rewritten
<1>3. Placed(g)
  BY <1>1, <1>2 DEF Placed
<1>4. End(g) = Len(g)
  <2>1. CASE g = <<>>
    BY <2>1 DEF End
  <2>2. CASE g # <<>>
    <3>1. Len(g) \in 1..Len(r)
      BY <1>1, <1>2, <2>2
    <3> QED BY <1>1, <1>2, <2>2, <3>1 DEF End
  <2> QED BY <2>1, <2>2
<1>5. \A k \in 1..Len(g) : k \in LinesAt(g)
  <2> SUFFICES ASSUME NEW k \in 1..Len(g) PROVE k \in LinesAt(g)
    OBVIOUS
  <2>1. g[k].full /\ g[k].nl
    BY <1>2
  <2>2. StartsLine(g, k)
    <3>1. k = 1 \/ k - 1 \in 1..Len(r)
      BY <1>1, <1>2
    <3> QED BY <1>2, <3>1 DEF StartsLine
  <2> QED BY <2>1, <2>2 DEF LinesAt, IsLine
<1>6. \A k \in LinesAt(g) : k \in 1..Len(r)
  BY <1>2 DEF LinesAt
<1>7. ASSUME NEW k \in LinesAt(g) PROVE \E j \in LinesAt(f) : g[k].seq = f[j].seq
  <2>1. k \in 1..Len(r)
    BY <1>6
  <2>2. at[k] \in LinesAt(f) /\ g[k].seq = f[at[k]].seq
    BY <1>1, <1>2, <2>1
  <2> QED BY <2>2
<1>8. ASSUME NEW j \in LinesAt(f) PROVE \E k \in 1..Len(g) : g[k].id = f[j].id /\ k \in LinesAt(g)
  <2> DEFINE k == Rank(LinesAt(f), j)
  <2>1. k \in 1..Len(r) /\ r[k] = f[j]
    BY <1>1
  <2> HIDE DEF k
  <2>2. k \in 1..Len(g) /\ g[k].id = f[j].id
    BY <1>2, <2>1
  <2> QED BY <1>5, <2>2
<1>9. ASSUME Ascends(f) PROVE Ascends(g)
  <2> SUFFICES ASSUME NEW i \in LinesAt(g), NEW j \in LinesAt(g), i < j
               PROVE  g[i].seq < g[j].seq
    BY DEF Ascends
  <2>1. i \in 1..Len(r) /\ j \in 1..Len(r)
    BY <1>6
  <2>2. at[i] \in LinesAt(f) /\ at[j] \in LinesAt(f) /\ at[i] < at[j]
    BY <1>1, <2>1
  <2>3. f[at[i]].seq < f[at[j]].seq
    BY <1>9, <2>2 DEF Ascends
  <2>4. g[i].seq = f[at[i]].seq /\ g[j].seq = f[at[j]].seq
    BY <1>1, <1>2, <2>1
  <2> QED BY <2>3, <2>4
<1>10. ASSUME HasLine(f), ~Corrupt(f) PROVE HasLine(g)
  <2>1. PICK i \in 1..Len(f) : f[i].nl
    BY <1>10 DEF HasLine
  <2>2. 1 \in 1..Len(f) /\ f[1].nl
    <3>1. i = 1 \/ 1 < i
      OBVIOUS
    <3> QED BY <1>10, <2>1, <3>1 DEF Corrupt
  <2>3. f[1] \in Pieces
    BY <2>2
  <2>4. f[1].full
    BY <2>2, <2>3 DEF Pieces
  <2>5. 1 \in LinesAt(f)
    BY <2>2, <2>4 DEF LinesAt, IsLine, StartsLine
  <2>6. Rank(LinesAt(f), 1) \in 1..Len(r)
    BY <1>1, <2>5
  <2> QED BY <1>2, <2>6 DEF HasLine
<1> QED BY <1>2, <1>3, <1>4, <1>7, <1>8, <1>9, <1>10

(* What is parsed is whole.                                                *)
LEMMA ParsedRecords ==
    ASSUME NEW f \in Seq(Pieces)
    PROVE  parseLogLines(f) \in Seq(Records)
<1> DEFINE r == parseLogLines(f)
           at == Nth(LinesAt(f))
<1>1. /\ r \in Seq(Pieces) /\ Len(r) \in Nat
      /\ \A j \in 1..Len(r) : at[j] \in LinesAt(f) /\ r[j] = f[at[j]]
  BY Parsed
<1> HIDE DEF r, at
<1>2. \A j \in 1..Len(r) : r[j] \in Records
  <2> SUFFICES ASSUME NEW j \in 1..Len(r) PROVE r[j] \in Records
    OBVIOUS
  <2>1. r[j] \in Pieces
    BY <1>1
  <2>2. r[j].full
    BY <1>1 DEF LinesAt, IsLine
  <2> QED BY <2>1, <2>2 DEF Records
<1>3. r = [j \in 1..Len(r) |-> r[j]]
  BY <1>1
<1>4. r \in Seq(Records)
  <2>1. r \in [1..Len(r) -> Records]
    BY <1>2, <1>3
  <2> QED BY <1>1, <2>1
<1> QED BY <1>4 DEF r

(* The index rewriteShard computes is a place in the file it has written.  *)
LEMMA NewestIsInside ==
    ASSUME NEW r \in Seq(Pieces), NEW g, Rewritten(r, g), End(g) = Len(g)
    PROVE  /\ Newest(r) \in Indexes
           /\ Newest(r) # NoIndex => Newest(r).off < End(g) /\ HasLine(g)
<1> DEFINE cps == {i \in 1..Len(r) : r[i].cp}
           m == Max(cps)
<1>1. Len(r) \in Nat /\ Len(g) = Len(r) /\ \A i \in 1..Len(r) : g[i].nl
  BY DEF Rewritten
<1>2. CASE cps = {}
  <2>1. Newest(r) = NoIndex
    BY <1>2 DEF Newest
  <2> QED BY <2>1 DEF NoIndex, Indexes
<1>3. CASE cps # {}
  <2>0. IsFiniteSet(1..Len(r))
    BY <1>1, FS_Interval
  <2>1. cps \in SUBSET Nat /\ IsFiniteSet(1..Len(r)) /\ cps \in SUBSET (1..Len(r))
    BY <2>0
  <2>2. IsFiniteSet(cps)
    BY <2>1, FS_Subset
  <2>3. m \in cps
    <3> HIDE DEF cps
    <3> QED BY <1>3, <2>1, <2>2, Largest
  <2>4. Newest(r) = [seq |-> r[m].seq, off |-> m - 1]
    BY <1>3 DEF Newest
  <2>5. m \in 1..Len(r)
    BY <2>3
  <2> HIDE DEF m
  <2>6. r[m] \in Pieces
    BY <2>5
  <2>7. r[m].seq \in Nat /\ m - 1 \in Nat /\ m - 1 < Len(g)
    BY <1>1, <2>5, <2>6 DEF Pieces
  <2>8. Newest(r) \in Indexes
    BY <2>4, <2>7 DEF Indexes
  <2>9. Newest(r).off < End(g)
    BY <2>4, <2>7
  <2>10. HasLine(g)
    BY <1>1, <2>5 DEF HasLine
  <2> QED BY <2>8, <2>9, <2>10
<1> QED BY <1>2, <1>3

(* In a shard whose sequences ascend the last line has the largest.        *)
LEMMA LastIsLargest ==
    ASSUME NEW f \in Seq(Pieces), Ascends(f)
    PROVE  LastLine(f) \in Nat /\ \A k \in LinesAt(f) : f[k].seq <= LastLine(f)
<1> DEFINE r == parseLogLines(f)
           at == Nth(LinesAt(f))
<1>1. /\ r \in Seq(Pieces) /\ Len(r) \in Nat
      /\ \A j \in 1..Len(r) : at[j] \in LinesAt(f) /\ r[j] = f[at[j]]
      /\ \A i, j \in 1..Len(r) : i < j => at[i] < at[j]
      /\ \A k \in LinesAt(f) : /\ Rank(LinesAt(f), k) \in 1..Len(r) /\ r[Rank(LinesAt(f), k)] = f[k]
                               /\ at[Rank(LinesAt(f), k)] = k
  BY Parsed
<1>2. LastLine(f) = IF r = <<>> THEN 0 ELSE r[Len(r)].seq
  BY DEF LastLine
<1> HIDE DEF r, at
<1>3. CASE r = <<>>
  <2>1. Len(r) = 0
    BY <1>3
  <2>2. \A k \in LinesAt(f) : FALSE
    BY <1>1, <2>1
  <2> QED BY <1>2, <1>3, <2>2
<1>4. CASE r # <<>>
  <2>1. Len(r) \in 1..Len(r)
    BY <1>1, <1>4
  <2>2. LastLine(f) = r[Len(r)].seq /\ r[Len(r)] \in Pieces
    BY <1>1, <1>2, <1>4, <2>1
  <2>3. LastLine(f) \in Nat
    BY <2>2 DEF Pieces
  <2>4. ASSUME NEW k \in LinesAt(f) PROVE f[k].seq <= LastLine(f)
    <3> DEFINE j == Rank(LinesAt(f), k)
    <3>1. j \in 1..Len(r) /\ r[j] = f[k] /\ at[j] = k
      BY <1>1
    <3> HIDE DEF j
    <3>2. CASE j = Len(r)
      BY <2>2, <2>3, <3>1, <3>2
    <3>3. CASE j # Len(r)
      <4>1. j < Len(r)
        BY <1>1, <3>1, <3>3
      <4>2. at[j] < at[Len(r)] /\ at[Len(r)] \in LinesAt(f) /\ r[Len(r)] = f[at[Len(r)]]
        BY <1>1, <2>1, <3>1, <4>1
      <4>3. f[k].seq < f[at[Len(r)]].seq
        BY <3>1, <4>2 DEF Ascends
      <4>4. f[k].seq \in Nat
        <5>1. r[j] \in Pieces
          BY <1>1, <3>1
        <5> QED BY <3>1, <5>1 DEF Pieces
      <4>5. LastLine(f) = f[at[Len(r)]].seq
        BY <2>2, <4>2
      <4> QED BY <2>3, <4>3, <4>4, <4>5
    <3> QED BY <3>2, <3>3
  <2> QED BY <2>3, <2>4
<1> QED BY <1>3, <1>4

(* The last line of a shard has a sequence.                                *)
LEMMA LastLineType ==
    ASSUME NEW f \in Seq(Pieces)
    PROVE  LastLine(f) \in Nat
<1> DEFINE r == parseLogLines(f)
<1>1. r \in Seq(Pieces) /\ Len(r) \in Nat
  BY Parsed
<1>2. LastLine(f) = IF r = <<>> THEN 0 ELSE r[Len(r)].seq
  BY DEF LastLine
<1> HIDE DEF r
<1>3. CASE r = <<>>
  BY <1>2, <1>3
<1>4. CASE r # <<>>
  <2>1. r[Len(r)] \in Pieces
    BY <1>1, <1>4
  <2> QED BY <1>2, <1>4, <2>1 DEF Pieces
<1> QED BY <1>3, <1>4

(* nextSequence starts from the largest of the last lines.                 *)
LEMMA LargestLast ==
    ASSUME NEW S, IsFiniteSet(S), S # {}, NEW F \in [S -> Seq(Pieces)]
    PROVE  /\ Maximum({LastLine(F[s]) : s \in S}) \in Nat
           /\ \A s \in S : LastLine(F[s]) <= Maximum({LastLine(F[s2]) : s2 \in S})
<1> DEFINE T == {LastLine(F[s]) : s \in S}
           g == [s \in S |-> LastLine(F[s])]
<1>1. \A s \in S : F[s] \in Seq(Pieces)
  OBVIOUS
<1>2. \A s \in S : LastLine(F[s]) \in Nat
  BY <1>1, LastLineType
<1>3. T \in SUBSET Nat /\ T # {}
  BY <1>2
<1>4. g \in Surjection(S, T)
  <2>1. g \in [S -> T]
    OBVIOUS
  <2>2. \A y \in T : \E s \in S : g[s] = y
    OBVIOUS
  <2> HIDE DEF g, T
  <2> QED BY <2>1, <2>2 DEF Surjection
<1>5. IsFiniteSet(T)
  BY <1>4, FS_Surjection
<1>6. Maximum(T) = Max(T)
  BY <1>3 DEF Maximum
<1>7. Max(T) \in T /\ \A p \in T : p <= Max(T)
  <2> HIDE DEF T
  <2> QED BY <1>3, <1>5, Largest
<1>8. \A s \in S : LastLine(F[s]) \in T
  OBVIOUS
<1> HIDE DEF T
<1>9. Maximum(T) \in Nat /\ \A s \in S : LastLine(F[s]) <= Maximum(T)
  BY <1>3, <1>6, <1>7, <1>8
<1> QED BY <1>9 DEF T

(* Over shards whose sequences ascend it is past every line.               *)
LEMMA LastOfAll ==
    ASSUME NEW S, IsFiniteSet(S), S # {}, NEW F \in [S -> Seq(Pieces)],
           \A s \in S : Ascends(F[s])
    PROVE  \A s \in S : \A k \in LinesAt(F[s]) :
              F[s][k].seq <= Maximum({LastLine(F[s2]) : s2 \in S})
<1> DEFINE x == Maximum({LastLine(F[s]) : s \in S})
<1>1. x \in Nat /\ \A s \in S : LastLine(F[s]) <= x
  BY LargestLast
<1> HIDE DEF x
<1> SUFFICES ASSUME NEW s \in S, NEW k \in LinesAt(F[s]) PROVE F[s][k].seq <= x
  BY DEF x
<1>2. F[s] \in Seq(Pieces)
  OBVIOUS
<1>3. F[s][k].seq <= LastLine(F[s]) /\ LastLine(F[s]) \in Nat
  BY <1>2, LastIsLargest
<1>4. F[s][k].seq \in Nat
  <2>1. k \in 1..Len(F[s])
    BY DEF LinesAt
  <2>2. F[s][k] \in Pieces
    BY <1>2, <2>1
  <2> QED BY <2>2 DEF Pieces
<1>5. LastLine(F[s]) <= x
  BY <1>1
<1> QED BY <1>1, <1>3, <1>4, <1>5

(* The sequences of some of the lines of a text have a largest.            *)
LEMMA LargestOfLines ==
    ASSUME NEW f \in Seq(Pieces), NEW P \in SUBSET Lines(f), P # {}
    PROVE  Max(SeqsOf(P)) \in Nat
<1> DEFINE T == SeqsOf(P)
           S == {k \in LinesAt(f) : f[k] \in P}
           g == [k \in S |-> f[k].seq]
<1>1. /\ IsFiniteSet(LinesAt(f)) /\ LinesAt(f) \in SUBSET (1..Len(f))
  BY LinesFinite
<1>2. \A p \in P : \E k \in S : f[k] = p
  BY DEF Lines
<1>3. \A k \in S : f[k] \in P /\ f[k].seq \in Nat
  <2> SUFFICES ASSUME NEW k \in S PROVE f[k].seq \in Nat
    OBVIOUS
  <2>1. f[k] \in Pieces
    BY <1>1
  <2> QED BY <2>1 DEF Pieces
<1>4. T \in SUBSET Nat /\ T # {}
  BY <1>2, <1>3 DEF SeqsOf
<1>5. g \in Surjection(S, T)
  <2>1. g \in [S -> T]
    BY <1>3 DEF SeqsOf
  <2>2. \A y \in T : \E s \in S : g[s] = y
    BY <1>2 DEF SeqsOf
  <2> HIDE DEF g, T, S
  <2> QED BY <2>1, <2>2 DEF Surjection
<1>6. IsFiniteSet(S)
  BY <1>1, FS_Subset
<1>7. IsFiniteSet(T)
  BY <1>5, <1>6, FS_Surjection
<1> HIDE DEF T
<1>8. Max(T) \in T
  BY <1>4, <1>7, Largest
<1>9. Max(T) \in Nat
  BY <1>4, <1>8
<1> QED BY <1>9 DEF T

(* The types, with what is known of the scene and of the files whatever    *)
(* the scene: pieces lie one behind the other.                             *)
DInv ==
    /\ scene \in Scenes /\ DiskTypeOK
    /\ \A h \in Stores : hs[h].id <= issued
    /\ \A sh \in Shards : Placed(file[sh])

(* The size of a file is a number.                                         *)
LEMMA EndType ==
    ASSUME NEW f \in Seq(Pieces)
    PROVE  End(f) \in Nat
<1>1. CASE f = <<>>
  BY <1>1 DEF End
<1>2. CASE f # <<>>
  <2>1. Len(f) \in 1..Len(f)
    BY <1>2
  <2>2. f[Len(f)] \in Pieces
    BY <2>1
  <2> QED BY <2>2, <1>2 DEF End, Pieces
<1> QED BY <1>1, <1>2

(* The sets the values are in are those of the scene, which stays.         *)
LEMMA SameTypes ==
    ASSUME scene' = scene
    PROVE  /\ Stores' = Stores /\ Shards' = Shards /\ Alone' = Alone
           /\ Contents' = Contents /\ Copies' = Copies /\ Puts' = Puts /\ Memory' = Memory
<1>1. Stores' = Stores /\ Shards' = Shards
  BY DEF Stores, Shards
<1>2. Alone' = Alone
  BY <1>1 DEF Alone
<1>3. Contents' = Contents
  BY <1>1 DEF Contents
<1>4. Copies' = Copies
  BY <1>3 DEF Copies
<1>5. Puts' = Puts
  BY <1>1, <1>4 DEF Puts
<1>6. Memory' = Memory
  BY <1>1, <1>5 DEF Memory
<1> QED BY <1>1, <1>2, <1>3, <1>4, <1>5, <1>6

(* What a scene is known to be.                                            *)
LEMMA SceneFacts ==
    ASSUME scene \in Scenes
    PROVE  /\ IsFiniteSet(Stores) /\ "worker" \in Stores
           /\ IsFiniteSet(Shards) /\ Main \in Shards
           /\ scene.crashes \in Nat /\ scene.old \in BOOLEAN
           /\ scene.file \in [Shards -> Seq(Pieces)]
           /\ scene.index \in [Shards -> Indexes]
           /\ MaxRecords \in Nat
BY ScenesAssumption DEF Stores, Shards

(* One memory takes another value.                                         *)
LEMMA OneMoves ==
    ASSUME hs \in [Stores -> Memory], NEW h \in Stores, NEW n \in Memory,
           hs' = [hs EXCEPT ![h] = n]
    PROVE  /\ hs' \in [Stores -> Memory] /\ hs'[h] = n
           /\ \A k \in Stores : k # h => hs'[k] = hs[k]
OBVIOUS

(* A step of a store that leaves the files alone keeps the types.          *)
LEMMA QuietTypes ==
    ASSUME DInv, NEW h \in Stores, NEW n \in Memory, hs' = [hs EXCEPT ![h] = n],
           scene' = scene, file' = file, state' \in Contents, old' \in BOOLEAN,
           issued' \in issued..MaxRecords, n.id <= issued',
           crashes' = crashes, acked' \subseteq {id \in Int : id <= issued'}, dealt' \subseteq Int
    PROVE  DInv'
<1>1. /\ Stores' = Stores /\ Shards' = Shards /\ Memory' = Memory /\ Contents' = Contents
      /\ file \in [Shards -> Seq(Pieces)] /\ issued \in 0..MaxRecords /\ crashes \in 0..scene.crashes
      /\ hs \in [Stores -> Memory]
  BY SameTypes DEF DInv, DiskTypeOK
<1>2. /\ hs' \in [Stores -> Memory] /\ hs'[h] = n
      /\ \A k \in Stores : k # h => hs'[k] = hs[k]
  BY <1>1, OneMoves
<1>3. MaxRecords \in Nat /\ issued' \in 0..MaxRecords
  BY <1>1, SceneFacts DEF DInv
<1>4. ASSUME NEW k \in Stores PROVE hs'[k].id <= issued'
  <2>1. hs[k].id <= issued /\ hs[k].id \in Nat
    <3>1. hs[k] \in Memory
      BY <1>1
    <3> QED BY <3>1 DEF DInv, Memory
  <2> QED BY <1>2, <1>3, <2>1, <1>1
<1>5. \A sh \in Shards : Placed(file'[sh])
  BY DEF DInv
<1>6. DiskTypeOK'
  BY <1>1, <1>2, <1>3 DEF DiskTypeOK
<1> QED BY <1>1, <1>4, <1>5, <1>6 DEF DInv

(* What a step leaves in a memory: the record it is at, the counter, and   *)
(* the rewrite.                                                            *)
SameJob(m, n) == n.sh = m.sh /\ n.cp = m.cp /\ n.id = m.id
SameCount(m, n) == n.known = m.known /\ n.last = m.last /\ n.seq = m.seq
SameUpgrade(m, n) == n.upgraded = m.upgraded /\ n.left = m.left /\ n.snap = m.snap

(* The memory of a fresh store.                                            *)
LEMMA FreshMemory ==
    ASSUME scene \in Scenes
    PROVE  Fresh \in Memory
<1>1. Main \in Shards
  BY SceneFacts
<1>2. <<>> \in Seq(Records)
  OBVIOUS
<1> QED BY <1>1, <1>2 DEF Fresh, Memory, PcSet, Puts

(* A store begins an append.                                               *)
LEMMA AppendMoves ==
    ASSUME DInv, NEW h \in Stores, NEW sh \in Shards, NEW cp \in BOOLEAN, appendRecord(h, sh, cp)
    PROVE  \E n \in Memory :
             /\ hs' = [hs EXCEPT ![h] = n]
             /\ hs[h].pc = "idle" /\ n.pc = "version" /\ n.sh = sh /\ n.cp = cp /\ n.id = issued + 1
             /\ n.put = hs[h].put
             /\ \/ h = "worker" /\ SameCount(hs[h], n) /\ SameUpgrade(hs[h], n)
                \/ h # "worker" /\ ~cp /\ ~n.known /\ ~n.upgraded
<1> DEFINE m == hs[h]
           n == [(IF h = "worker" THEN m ELSE [Fresh EXCEPT !.put = m.put]) EXCEPT
                    !.pc = "version", !.sh = sh, !.cp = cp, !.id = issued + 1]
<1>1. m \in Memory /\ issued \in Nat /\ Fresh \in Memory
  BY FreshMemory, SceneFacts DEF DInv, DiskTypeOK
<1>2. hs' = [hs EXCEPT ![h] = n]
  BY DEF appendRecord, Set
<1>3. CASE h = "worker"
  <2>1. PICK q : q = [m EXCEPT !.pc = "version", !.sh = sh, !.cp = cp, !.id = issued + 1]
    OBVIOUS
  <2>2. /\ q \in Memory /\ q.pc = "version" /\ q.sh = sh /\ q.cp = cp /\ q.id = issued + 1
        /\ q.put = m.put /\ SameCount(m, q) /\ SameUpgrade(m, q)
    <3> DEFINE i == issued + 1
    <3>1. i \in Nat /\ q = [m EXCEPT !.pc = "version", !.sh = sh, !.cp = cp, !.id = i]
      BY <1>1, <2>1
    <3> HIDE DEF m, i
    <3>2. q \in Memory
      BY <1>1, <3>1 DEF Memory, PcSet
    <3>3. /\ q.pc = "version" /\ q.sh = sh /\ q.cp = cp /\ q.id = i
          /\ q.put = m.put /\ SameCount(m, q) /\ SameUpgrade(m, q)
      BY <1>1, <3>1 DEF Memory, SameCount, SameUpgrade
    <3> QED BY <3>2, <3>3 DEF i
  <2>3. hs' = [hs EXCEPT ![h] = q]
    BY <1>2, <1>3, <2>1
  <2>4. hs[h].pc = "idle"
    BY DEF appendRecord
  <2> QED BY <1>3, <2>2, <2>3, <2>4
<1>4. CASE h # "worker"
  <2>1. PICK q : q = [[Fresh EXCEPT !.put = m.put] EXCEPT !.pc = "version", !.sh = sh, !.cp = cp, !.id = issued + 1]
    OBVIOUS
  <2>2. /\ q \in Memory /\ q.pc = "version" /\ q.sh = sh /\ q.cp = cp /\ q.id = issued + 1
        /\ q.put = m.put /\ ~q.known /\ ~q.upgraded
    <3>1. m.put \in Puts
      <4> HIDE DEF m
      <4> QED BY <1>1 DEF Memory
    <3>2. ~Fresh.known /\ ~Fresh.upgraded
      BY DEF Fresh
    <3> DEFINE i == issued + 1
               e == [Fresh EXCEPT !.put = m.put]
    <3>3. e \in Memory /\ e.put = m.put /\ ~e.known /\ ~e.upgraded
      <4> HIDE DEF m
      <4> QED BY <1>1, <3>1, <3>2 DEF Memory
    <3>4. i \in Nat /\ q = [e EXCEPT !.pc = "version", !.sh = sh, !.cp = cp, !.id = i]
      BY <1>1, <2>1
    <3> HIDE DEF m, i, e
    <3>5. q \in Memory
      BY <3>3, <3>4 DEF Memory, PcSet
    <3>6. /\ q.pc = "version" /\ q.sh = sh /\ q.cp = cp /\ q.id = i
          /\ q.put = m.put /\ ~q.known /\ ~q.upgraded
      BY <3>3, <3>4 DEF Memory
    <3> QED BY <3>5, <3>6 DEF i
  <2>3. hs' = [hs EXCEPT ![h] = q]
    BY <1>2, <1>4, <2>1
  <2>4. hs[h].pc = "idle" /\ ~cp
    BY <1>4 DEF appendRecord
  <2> QED BY <1>4, <2>2, <2>3, <2>4
<1> QED BY <1>3, <1>4

(* A store looks at the version of the log (ensureCurrentVersion).         *)
LEMMA VersionMoves ==
    ASSUME DInv, NEW h \in Stores, ensureCurrentVersion(h)
    PROVE  \E n \in Memory :
             /\ hs' = [hs EXCEPT ![h] = n]
             /\ hs[h].pc = "version" /\ n.upgraded
             /\ SameJob(hs[h], n) /\ SameCount(hs[h], n) /\ n.put = hs[h].put
             /\ \/ /\ ~hs[h].upgraded /\ old /\ old' = old
                   /\ n.pc = "rewrite" /\ n.left = {sh \in Shards : file[sh] # <<>>}
                \/ /\ ~hs[h].upgraded /\ (~old \/ \A sh \in Shards : file[sh] = <<>>)
                   /\ n.pc = "meta" /\ old' = FALSE
                \/ hs[h].upgraded /\ n.pc = "meta" /\ old' = old
<1> DEFINE m == hs[h]
           stale == old /\ \E sh \in Shards : file[sh] # <<>>
           go == ~m.upgraded /\ stale
           n == [m EXCEPT !.upgraded = TRUE, !.pc = IF go THEN "rewrite" ELSE "meta",
                          !.left = IF go THEN {sh \in Shards : file[sh] # <<>>} ELSE {}]
<1>1. m \in Memory /\ old \in BOOLEAN
  BY DEF DInv, DiskTypeOK
<1>2. hs' = [hs EXCEPT ![h] = n] /\ hs[h].pc = "version" /\ old' = (IF ~m.upgraded /\ ~stale THEN FALSE ELSE old)
  BY DEF ensureCurrentVersion, Set
<1>3. n \in Memory /\ n.upgraded /\ SameJob(m, n) /\ SameCount(m, n) /\ n.put = m.put
      /\ n.pc = (IF go THEN "rewrite" ELSE "meta")
      /\ (go => n.left = {sh \in Shards : file[sh] # <<>>})
  <2> HIDE DEF m, go
  <2> QED BY <1>1 DEF Memory, PcSet, SameJob, SameCount
<1>4. m.upgraded \in BOOLEAN
  <2> HIDE DEF m
  <2> QED BY <1>1 DEF Memory
<1> HIDE DEF n
<1>5. CASE ~m.upgraded /\ stale
  BY <1>2, <1>3, <1>5
<1>6. CASE ~m.upgraded /\ ~stale
  BY <1>2, <1>3, <1>6
<1>7. CASE m.upgraded
  BY <1>2, <1>3, <1>7
<1> QED BY <1>4, <1>5, <1>6, <1>7

(* A store reads a shard of an old log, or gives up on it.                 *)
LEMMA ReadsMoves ==
    ASSUME DInv, NEW h \in Stores, NEW sh \in Shards, rewriteShardReads(h, sh)
    PROVE  \E n \in Memory :
             /\ hs' = [hs EXCEPT ![h] = n]
             /\ hs[h].pc = "rewrite" /\ sh \in hs[h].left
             /\ n.upgraded = hs[h].upgraded /\ n.left = hs[h].left /\ n.cp = hs[h].cp /\ n.id = hs[h].id
             /\ SameCount(hs[h], n) /\ n.put = hs[h].put
             /\ \/ n.pc = "idle" /\ Corrupt(file[sh])
                \/ n.pc = "rename" /\ ~Corrupt(file[sh]) /\ n.sh = sh /\ n.snap = parseLogLines(file[sh])
<1> DEFINE m == hs[h]
<1>1. m \in Memory /\ file[sh] \in Seq(Pieces)
  BY DEF DInv, DiskTypeOK
<1>2. parseLogLines(file[sh]) \in Seq(Records)
  BY <1>1, ParsedRecords
<1>3. hs[h].pc = "rewrite" /\ sh \in hs[h].left
  BY DEF rewriteShardReads
<1>4. CASE Corrupt(file[sh])
  <2>1. PICK q : q = [m EXCEPT !.pc = "idle"]
    OBVIOUS
  <2>2. hs' = [hs EXCEPT ![h] = q]
    BY <1>4, <2>1 DEF rewriteShardReads, Set, Rejected
  <2>3. /\ q \in Memory /\ q.pc = "idle" /\ q.upgraded = m.upgraded /\ q.left = m.left /\ q.cp = m.cp /\ q.id = m.id
        /\ SameCount(m, q) /\ q.put = m.put
    <3> HIDE DEF m
    <3> QED BY <1>1, <2>1 DEF Memory, PcSet, SameCount
  <2> QED BY <1>3, <1>4, <2>2, <2>3
<1>5. CASE ~Corrupt(file[sh])
  <2>1. PICK q : q = [m EXCEPT !.pc = "rename", !.sh = sh, !.snap = parseLogLines(file[sh])]
    OBVIOUS
  <2>2. hs' = [hs EXCEPT ![h] = q]
    BY <1>5, <2>1 DEF rewriteShardReads, Set
  <2>3. /\ q \in Memory /\ q.pc = "rename" /\ q.upgraded = m.upgraded /\ q.left = m.left /\ q.cp = m.cp /\ q.id = m.id
        /\ SameCount(m, q) /\ q.put = m.put /\ q.sh = sh /\ q.snap = parseLogLines(file[sh])
    <3> DEFINE r == parseLogLines(file[sh])
    <3> HIDE DEF m, r
    <3>1. r \in Seq(Records) /\ q = [m EXCEPT !.pc = "rename", !.sh = sh, !.snap = r]
      BY <1>2, <2>1 DEF r
    <3>2. /\ q \in Memory /\ q.pc = "rename" /\ q.upgraded = m.upgraded /\ q.left = m.left /\ q.cp = m.cp /\ q.id = m.id
          /\ SameCount(m, q) /\ q.put = m.put /\ q.sh = sh /\ q.snap = r
      BY <1>1, <3>1 DEF Memory, PcSet, SameCount
    <3> QED BY <3>2 DEF r
  <2> QED BY <1>3, <1>5, <2>2, <2>3
<1> QED BY <1>4, <1>5

(* The put of a value is of its type.                                      *)
LEMMA PutTypes ==
    ASSUME NEW sh \in Shards
    PROVE  /\ \A x \in Indexes : [key |-> "index", sh |-> sh, val |-> x, copy |-> <<>>] \in Puts
           /\ \A x \in Nat : [key |-> "cursor", sh |-> sh, val |-> x, copy |-> <<>>] \in Puts
           /\ [key |-> "title", sh |-> sh, val |-> 1, copy |-> <<>>] \in Puts
<1>1. <<>> \in Copies
  BY DEF Copies
<1> QED BY <1>1 DEF Puts

(* A store asks for the index of the shard it has rewritten.               *)
LEMMA RepointsMoves ==
    ASSUME DInv, NEW h \in Stores, rewriteShardRepoints(h), Newest(hs[h].snap) \in Indexes
    PROVE  \E n \in Memory :
             /\ hs' = [hs EXCEPT ![h] = n]
             /\ hs[h].pc = "repoint" /\ hs[h].put = NoPut
             /\ SameJob(hs[h], n) /\ SameCount(hs[h], n) /\ n.upgraded = hs[h].upgraded
             /\ n.put = [key |-> "index", sh |-> hs[h].sh, val |-> Newest(hs[h].snap), copy |-> <<>>]
             /\ n.left = hs[h].left \ {hs[h].sh}
             /\ (n.pc = "stamp" /\ n.left = {}) \/ n.pc = "rewrite"
<1> DEFINE m == hs[h]
           left == m.left \ {m.sh}
           x == Newest(m.snap)
           p == [key |-> "index", sh |-> m.sh, val |-> x, copy |-> <<>>]
<1>1. m \in Memory
  BY DEF DInv, DiskTypeOK
<1>2. PICK q : q = [m EXCEPT !.put = p, !.left = left, !.snap = <<>>, !.pc = IF left = {} THEN "stamp" ELSE "rewrite"]
  OBVIOUS
<1>3. hs' = [hs EXCEPT ![h] = q] /\ m.pc = "repoint" /\ m.put = NoPut
  BY <1>2 DEF rewriteShardRepoints, Set
<1>4. x \in Indexes
  OBVIOUS
<1> HIDE DEF m, x
<1>5. p \in Puts
  <2>1. m.sh \in Shards
    BY <1>1 DEF Memory
  <2> QED BY <1>4, <2>1, PutTypes
<1> DEFINE pc == IF left = {} THEN "stamp" ELSE "rewrite"
<1>6. left \in SUBSET Shards /\ pc \in PcSet
  BY <1>1 DEF Memory, PcSet
<1>7. q = [m EXCEPT !.put = p, !.left = left, !.snap = <<>>, !.pc = pc]
  BY <1>2
<1>8. (pc = "stamp" /\ left = {}) \/ pc = "rewrite"
  OBVIOUS
<1> HIDE DEF p, left, pc
<1>11. <<>> \in Seq(Records)
  OBVIOUS
<1>10. q \in Memory
  BY <1>1, <1>5, <1>6, <1>7, <1>11 DEF Memory
<1>9. /\ q \in Memory /\ SameJob(m, q) /\ SameCount(m, q) /\ q.upgraded = m.upgraded
      /\ q.put = p /\ q.left = left /\ q.pc = pc
  BY <1>1, <1>7, <1>10 DEF Memory, SameJob, SameCount
<1> QED BY <1>3, <1>8, <1>9 DEF m, p, x, left

(* A store stamps the log with the current version.                        *)
LEMMA StampMoves ==
    ASSUME DInv, NEW h \in Stores, stampVersion(h)
    PROVE  \E n \in Memory :
             /\ hs' = [hs EXCEPT ![h] = n] /\ old' = FALSE
             /\ hs[h].pc = "stamp" /\ hs[h].put = NoPut /\ n.pc = "meta"
             /\ SameJob(hs[h], n) /\ SameCount(hs[h], n) /\ SameUpgrade(hs[h], n) /\ n.put = hs[h].put
<1> DEFINE m == hs[h]
<1>1. m \in Memory
  BY DEF DInv, DiskTypeOK
<1>2. PICK q : q = [m EXCEPT !.pc = "meta"]
  OBVIOUS
<1>3. hs' = [hs EXCEPT ![h] = q] /\ old' = FALSE /\ m.pc = "stamp" /\ m.put = NoPut
  BY <1>2 DEF stampVersion, Set
<1> HIDE DEF m
<1>4. q \in Memory
  BY <1>1, <1>2 DEF Memory, PcSet
<1>5. q.pc = "meta" /\ SameJob(m, q) /\ SameCount(m, q) /\ SameUpgrade(m, q) /\ q.put = m.put
  BY <1>1, <1>2 DEF Memory, SameJob, SameCount, SameUpgrade
<1> QED BY <1>3, <1>4, <1>5 DEF m

(* A store sees to the first line of the shard (ensureMetadata).           *)
LEMMA MetadataMoves ==
    ASSUME DInv, NEW h \in Stores, ensureMetadata(h)
    PROVE  \E n \in Memory :
             /\ hs' = [hs EXCEPT ![h] = n]
             /\ hs[h].pc = "meta"
             /\ SameJob(hs[h], n) /\ SameCount(hs[h], n) /\ SameUpgrade(hs[h], n) /\ n.put = hs[h].put
             /\ \/ n.pc = "idle"
                \/ n.pc = "seq" /\ (n.meta \/ ~n.cp)
                \/ n.pc = "size"
<1> DEFINE m == hs[h]
           f == file[m.sh]
           unread == m.sh \notin m.checked
           bad == unread /\ f # <<>> /\ ~IsLine(f, 1) /\ Corrupt(f)
           none == unread /\ Lines(f) = {}
           c == m.checked \cup {m.sh}
           pc == IF none THEN "seq" ELSE IF m.cp THEN "size" ELSE "seq"
<1>1. m \in Memory
  BY DEF DInv, DiskTypeOK
<1>2. m.pc = "meta"
  BY DEF ensureMetadata
<1>c. c \in SUBSET Shards
  <2> HIDE DEF m
  <2> QED BY <1>1 DEF Memory
<1>3. CASE bad
  <2>1. PICK q : q = [[m EXCEPT !.pc = "idle"] EXCEPT !.checked = c]
    OBVIOUS
  <2>2. hs' = [hs EXCEPT ![h] = [Rejected(h) EXCEPT !.checked = @ \cup {m.sh}]]
    BY <1>3 DEF ensureMetadata, Set
  <2>3. [Rejected(h) EXCEPT !.checked = @ \cup {m.sh}] = q
    <3>1. Rejected(h) = [m EXCEPT !.pc = "idle"]
      BY DEF Rejected
    <3>2. [m EXCEPT !.pc = "idle"].checked = m.checked
      <4> HIDE DEF m
      <4> QED BY <1>1 DEF Memory
    <3> HIDE DEF m
    <3> QED BY <2>1, <3>1, <3>2
  <2>4. hs' = [hs EXCEPT ![h] = q]
    BY <2>2, <2>3
  <2> HIDE DEF m, c
  <2>5. q \in Memory
    BY <1>1, <1>c, <2>1 DEF Memory, PcSet
  <2>6. q.pc = "idle" /\ SameJob(m, q) /\ SameCount(m, q) /\ SameUpgrade(m, q) /\ q.put = m.put
    BY <1>1, <2>1 DEF Memory, SameJob, SameCount, SameUpgrade
  <2> QED BY <1>2, <2>4, <2>5, <2>6 DEF m
<1>4. CASE ~bad
  <2>1. PICK q : q = [m EXCEPT !.checked = c, !.meta = none, !.pc = pc]
    OBVIOUS
  <2>2. hs' = [hs EXCEPT ![h] = q]
    <3>1. hs' = [hs EXCEPT ![h] = [m EXCEPT !.checked = @ \cup {m.sh}, !.meta = unread /\ Lines(f) = {},
                          !.pc = IF unread /\ Lines(f) = {} THEN "seq"
                                 ELSE IF m.cp THEN "size" ELSE "seq"]]
      BY <1>4 DEF ensureMetadata, Set
    <3> QED BY <2>1, <3>1
  <2>a. none \in BOOLEAN /\ pc \in PcSet
    BY DEF PcSet
  <2>b. (pc = "seq" /\ (none \/ ~m.cp)) \/ pc = "size"
    OBVIOUS
  <2> HIDE DEF m, c, none, pc
  <2>5. q \in Memory
    BY <1>1, <1>c, <2>1, <2>a DEF Memory
  <2>6. q.pc = pc /\ SameJob(m, q) /\ SameCount(m, q) /\ SameUpgrade(m, q) /\ q.put = m.put
    BY <1>1, <2>1 DEF Memory, SameJob, SameCount, SameUpgrade
  <2>7. q.meta = none
    BY <1>1, <2>1 DEF Memory
  <2>8. q.cp = m.cp
    BY <2>6 DEF SameJob
  <2>9. (q.pc = "seq" /\ (q.meta \/ ~q.cp)) \/ q.pc = "size"
    BY <2>b, <2>6, <2>7, <2>8
  <2> QED BY <1>2, <2>2, <2>5, <2>6, <2>9 DEF m
<1> QED BY <1>3, <1>4

(* A store takes the size of the file as the offset of its checkpoint.     *)
LEMMA SizeMoves ==
    ASSUME DInv, NEW h \in Stores, fileSize(h)
    PROVE  \E n \in Memory :
             /\ hs' = [hs EXCEPT ![h] = n]
             /\ hs[h].pc = "size" /\ n.pc = "seq" /\ n.off = End(file[hs[h].sh])
             /\ SameJob(hs[h], n) /\ SameCount(hs[h], n) /\ SameUpgrade(hs[h], n) /\ n.put = hs[h].put
<1> DEFINE m == hs[h]
           e == End(file[m.sh])
<1>1. m \in Memory /\ file \in [Shards -> Seq(Pieces)]
  BY DEF DInv, DiskTypeOK
<1>2. PICK q : q = [m EXCEPT !.off = e, !.pc = "seq"]
  OBVIOUS
<1>3. hs' = [hs EXCEPT ![h] = q] /\ m.pc = "size"
  BY <1>2 DEF fileSize, Set
<1>e. e \in Nat
  <2> HIDE DEF m
  <2>1. m.sh \in Shards
    BY <1>1 DEF Memory
  <2> QED BY <1>1, <2>1, EndType
<1> HIDE DEF m, e
<1>4. q \in Memory
  BY <1>1, <1>2, <1>e DEF Memory, PcSet
<1>5. q.pc = "seq" /\ q.off = e /\ SameJob(m, q) /\ SameCount(m, q) /\ SameUpgrade(m, q) /\ q.put = m.put
  BY <1>1, <1>2 DEF Memory, SameJob, SameCount, SameUpgrade
<1> QED BY <1>3, <1>4, <1>5 DEF m, e

(* A store draws a sequence, or the log cannot be read (nextSequence).     *)
LEMMA NextMoves ==
    ASSUME DInv, NEW h \in Stores, nextSequence(h)
    PROVE  \E n \in Memory :
             /\ hs' = [hs EXCEPT ![h] = n]
             /\ hs[h].pc = "seq" /\ n.meta = hs[h].meta /\ n.off = hs[h].off
             /\ SameJob(hs[h], n) /\ SameUpgrade(hs[h], n) /\ n.put = hs[h].put
             /\ \/ n.pc = "idle" /\ SameCount(hs[h], n)
                \/ /\ n.pc = "write" /\ n.known /\ n.seq = n.last
                   /\ \/ hs[h].known /\ n.seq = hs[h].last + 1
                      \/ /\ n.seq = Maximum({LastLine(file[sh]) : sh \in Shards}) + 1
                         /\ \A sh \in Shards : ~Corrupt(file[sh])
<1> DEFINE m == hs[h]
           x == Maximum({LastLine(file[sh]) : sh \in Shards})
           last == IF m.known THEN m.last ELSE x
           bad == ~m.known /\ \E sh \in Shards : Corrupt(file[sh])
<1>1. m \in Memory /\ file \in [Shards -> Seq(Pieces)]
  BY DEF DInv, DiskTypeOK
<1>2. m.pc = "seq"
  BY DEF nextSequence
<1>3. CASE bad
  <2>1. PICK q : q = [m EXCEPT !.pc = "idle"]
    OBVIOUS
  <2>2. hs' = [hs EXCEPT ![h] = q]
    BY <1>3, <2>1 DEF nextSequence, Set, Rejected
  <2> HIDE DEF m
  <2>3. q \in Memory
    BY <1>1, <2>1 DEF Memory, PcSet
  <2>4. /\ q.pc = "idle" /\ SameJob(m, q) /\ SameCount(m, q) /\ SameUpgrade(m, q) /\ q.put = m.put
        /\ q.meta = m.meta /\ q.off = m.off
    BY <1>1, <2>1 DEF Memory, SameJob, SameCount, SameUpgrade
  <2> QED BY <1>2, <2>2, <2>3, <2>4 DEF m
<1>4. CASE ~bad
  <2> DEFINE k == last + 1
  <2>1. PICK q : q = [m EXCEPT !.known = TRUE, !.last = k, !.seq = k, !.pc = "write"]
    OBVIOUS
  <2>2. hs' = [hs EXCEPT ![h] = q]
    BY <1>4, <2>1 DEF nextSequence, Set
  <2>x. x \in Nat
    <3>1. IsFiniteSet(Shards) /\ Shards # {}
      BY SceneFacts DEF DInv
    <3> QED BY <1>1, <3>1, LargestLast
  <2>l. m.last \in Nat /\ m.known \in BOOLEAN
    <3> HIDE DEF m
    <3> QED BY <1>1 DEF Memory
  <2>k. k \in Nat /\ ((m.known /\ k = m.last + 1) \/ (~m.known /\ k = x + 1))
    <3> HIDE DEF m, x
    <3>1. CASE m.known
      BY <2>l, <3>1
    <3>2. CASE ~m.known
      BY <2>x, <3>2
    <3> QED BY <3>1, <3>2
  <2>m. k \in Nat /\ k <= k
    <3>1. k \in Nat
      BY <2>k
    <3> HIDE DEF k
    <3> QED BY <3>1
  <2> HIDE DEF m, k, x
  <2>3. q \in Memory
    BY <1>1, <2>1, <2>m DEF Memory, PcSet
  <2>4. /\ q.pc = "write" /\ SameJob(m, q) /\ SameUpgrade(m, q) /\ q.put = m.put
        /\ q.known /\ q.last = k /\ q.seq = k /\ q.meta = m.meta /\ q.off = m.off
    BY <1>1, <2>1 DEF Memory, SameJob, SameUpgrade
  <2>5. (m.known /\ q.seq = m.last + 1) \/ (q.seq = x + 1 /\ \A sh \in Shards : ~Corrupt(file[sh]))
    BY <1>4, <2>k, <2>4
  <2> QED BY <1>2, <2>2, <2>3, <2>4, <2>5 DEF m, x
<1> QED BY <1>3, <1>4

(* A store asks for the index of its checkpoint.                           *)
LEMMA IndexMoves ==
    ASSUME DInv, NEW h \in Stores, indexCheckpoint(h)
    PROVE  \E n \in Memory : \E x \in Indexes :
             /\ hs' = [hs EXCEPT ![h] = n]
             /\ hs[h].pc = "index" /\ n.pc = "indexed" /\ hs[h].put = NoPut
             /\ x.off = hs[h].off
             /\ n.put = [key |-> "index", sh |-> hs[h].sh, val |-> x, copy |-> <<>>]
             /\ SameJob(hs[h], n) /\ SameCount(hs[h], n) /\ SameUpgrade(hs[h], n)
<1> DEFINE m == hs[h]
           x == [seq |-> m.seq, off |-> m.off]
           p == [key |-> "index", sh |-> m.sh, val |-> x, copy |-> <<>>]
<1>1. m \in Memory
  BY DEF DInv, DiskTypeOK
<1>2. PICK q : q = [m EXCEPT !.pc = "indexed", !.put = p]
  OBVIOUS
<1>3. hs' = [hs EXCEPT ![h] = q] /\ m.pc = "index" /\ m.put = NoPut
  BY <1>2 DEF indexCheckpoint, Set
<1> HIDE DEF m
<1>x. x \in Indexes /\ x.off = m.off
  BY <1>1 DEF Memory, Indexes
<1>p. p \in Puts
  <2>1. m.sh \in Shards
    BY <1>1 DEF Memory
  <2> QED BY <1>x, <2>1, PutTypes
<1> HIDE DEF x, p
<1>4. q \in Memory
  BY <1>1, <1>2, <1>p DEF Memory, PcSet
<1>5. q.pc = "indexed" /\ q.put = p /\ SameJob(m, q) /\ SameCount(m, q) /\ SameUpgrade(m, q)
  BY <1>1, <1>2 DEF Memory, SameJob, SameCount, SameUpgrade
<1>6. /\ hs' = [hs EXCEPT ![h] = q] /\ hs[h].pc = "index" /\ q.pc = "indexed" /\ hs[h].put = NoPut
      /\ x.off = hs[h].off
      /\ q.put = [key |-> "index", sh |-> hs[h].sh, val |-> x, copy |-> <<>>]
      /\ SameJob(hs[h], q) /\ SameCount(hs[h], q) /\ SameUpgrade(hs[h], q)
  BY <1>3, <1>5, <1>x DEF m, p
<1> QED BY <1>4, <1>6, <1>x

(* The append of a checkpoint returns.                                     *)
LEMMA CheckpointMoves ==
    ASSUME DInv, NEW h \in Stores, checkpointAppended(h)
    PROVE  \E n \in Memory :
             /\ hs' = [hs EXCEPT ![h] = n]
             /\ hs[h].pc = "indexed" /\ n.pc = "idle" /\ hs[h].put = NoPut /\ n.put = NoPut
             /\ SameJob(hs[h], n) /\ SameCount(hs[h], n) /\ SameUpgrade(hs[h], n)
<1> DEFINE m == hs[h]
<1>1. m \in Memory
  BY DEF DInv, DiskTypeOK
<1>2. PICK q : q = [m EXCEPT !.pc = "idle"]
  OBVIOUS
<1>3. hs' = [hs EXCEPT ![h] = q] /\ m.pc = "indexed" /\ m.put = NoPut
  BY <1>2 DEF checkpointAppended, Set
<1> HIDE DEF m
<1>4. q \in Memory
  BY <1>1, <1>2 DEF Memory, PcSet
<1>5. q.pc = "idle" /\ SameJob(m, q) /\ SameCount(m, q) /\ SameUpgrade(m, q) /\ q.put = m.put
  BY <1>1, <1>2 DEF Memory, SameJob, SameCount, SameUpgrade
<1> QED BY <1>3, <1>4, <1>5 DEF m

(* A put with another copy is a put.                                       *)
LEMMA PutCopied ==
    ASSUME NEW p \in Puts, p # NoPut, NEW c \in Contents, NEW q, q = [p EXCEPT !.copy = <<c>>]
    PROVE  /\ q \in Puts /\ q # NoPut /\ q.key = p.key /\ q.sh = p.sh /\ q.val = p.val
           /\ q.copy = <<c>>
<1>1. <<c>> \in Copies
  BY DEF Copies
<1> DEFINE d == <<c>>
<1>2. d \in Copies /\ q = [p EXCEPT !.copy = d]
  BY <1>1
<1> HIDE DEF d
<1>3. CASE p \in [key : {"index"}, sh : Shards, val : Indexes, copy : Copies]
  BY <1>2, <1>3 DEF Puts, NoPut, d
<1>4. CASE p \in [key : {"cursor"}, sh : Shards, val : Nat, copy : Copies]
  BY <1>2, <1>4 DEF Puts, NoPut, d
<1>5. CASE p \in [key : {"title"}, sh : Shards, val : 0..1, copy : Copies]
  BY <1>2, <1>5 DEF Puts, NoPut, d
<1> QED BY <1>3, <1>4, <1>5 DEF Puts

(* What a put is, by its key.                                              *)
LEMMA PutFacts ==
    ASSUME NEW p \in Puts
    PROVE  /\ p = NoPut => p.key = "none"
           /\ p # NoPut => /\ p.key \in {"index", "cursor", "title"} /\ p.sh \in Shards
                           /\ p.copy \in Seq(Contents) /\ Len(p.copy) \in {0, 1}
           /\ p.key = "index" => p # NoPut /\ p.val \in Indexes
           /\ p.key = "cursor" => p.val \in Nat
           /\ p.key = "title" => p.val \in 0..1
<1>1. \A c \in Copies : c \in Seq(Contents) /\ Len(c) \in {0, 1}
  <2> SUFFICES ASSUME NEW c \in Copies PROVE c \in Seq(Contents) /\ Len(c) \in {0, 1}
    OBVIOUS
  <2>1. c \in Seq(Contents) /\ Len(c) <= 1
    BY DEF Copies
  <2>2. Len(c) \in Nat
    BY <2>1
  <2> QED BY <2>1, <2>2
<1>2. CASE p = NoPut
  BY <1>2 DEF NoPut
<1>3. CASE p \in [key : {"index"}, sh : Shards, val : Indexes, copy : Copies]
  BY <1>1, <1>3 DEF NoPut
<1>4. CASE p \in [key : {"cursor"}, sh : Shards, val : Nat, copy : Copies]
  BY <1>1, <1>4 DEF NoPut
<1>5. CASE p \in [key : {"title"}, sh : Shards, val : 0..1, copy : Copies]
  BY <1>1, <1>5 DEF NoPut
<1> QED BY <1>2, <1>3, <1>4, <1>5 DEF Puts

(* A store reads state.json.                                               *)
LEMMA PutReadMoves ==
    ASSUME DInv, NEW h \in Stores, putStateReads(h)
    PROVE  \E n \in Memory :
             /\ hs' = [hs EXCEPT ![h] = n]
             /\ n.pc = hs[h].pc /\ n.meta = hs[h].meta /\ n.off = hs[h].off
             /\ SameJob(hs[h], n) /\ SameCount(hs[h], n) /\ SameUpgrade(hs[h], n)
             /\ hs[h].put # NoPut /\ n.put # NoPut
             /\ n.put.key = hs[h].put.key /\ n.put.sh = hs[h].put.sh /\ n.put.val = hs[h].put.val
             /\ n.put.copy = <<state>>
<1> DEFINE m == hs[h]
<1>1. m \in Memory /\ state \in Contents
  BY DEF DInv, DiskTypeOK
<1>2. PICK p : p = [m.put EXCEPT !.copy = <<state>>]
  OBVIOUS
<1>3. PICK q : q = [m EXCEPT !.put = p]
  OBVIOUS
<1>4. m.put \in Puts
  <2> HIDE DEF m
  <2> QED BY <1>1 DEF Memory
<1>5. hs' = [hs EXCEPT ![h] = q] /\ m.put # NoPut
  <2>1. hs' = [hs EXCEPT ![h] = [m EXCEPT !.put.copy = <<state>>]] /\ m.put # NoPut
    BY DEF putStateReads, Set
  <2>2. [m EXCEPT !.put.copy = <<state>>] = [m EXCEPT !.put = [m.put EXCEPT !.copy = <<state>>]]
    <3> HIDE DEF m
    <3> QED BY <1>1 DEF Memory
  <2> QED BY <1>2, <1>3, <2>1, <2>2
<1> HIDE DEF m
<1>6. p \in Puts /\ p # NoPut /\ p.key = m.put.key /\ p.sh = m.put.sh /\ p.val = m.put.val /\ p.copy = <<state>>
  BY <1>1, <1>2, <1>4, <1>5, PutCopied
<1>7. q \in Memory
  BY <1>1, <1>3, <1>6 DEF Memory
<1>8. /\ q.pc = m.pc /\ SameJob(m, q) /\ SameCount(m, q) /\ SameUpgrade(m, q) /\ q.put = p
      /\ q.meta = m.meta /\ q.off = m.off
  BY <1>1, <1>3 DEF Memory, SameJob, SameCount, SameUpgrade
<1> QED BY <1>5, <1>6, <1>7, <1>8 DEF m

(* A store replaces state.json.                                            *)
LEMMA PutWriteMoves ==
    ASSUME DInv, NEW h \in Stores, putStateWrites(h)
    PROVE  \E n \in Memory :
             /\ hs' = [hs EXCEPT ![h] = n]
             /\ n.pc = hs[h].pc /\ n.meta = hs[h].meta /\ n.off = hs[h].off
             /\ SameJob(hs[h], n) /\ SameCount(hs[h], n) /\ SameUpgrade(hs[h], n)
             /\ hs[h].put # NoPut /\ n.put = NoPut
             /\ hs[h].put.copy \in Seq(Contents) /\ Len(hs[h].put.copy) = 1
             /\ state' \in Contents
             /\ hs[h].put.key = "index" =>
                  /\ state'.index[hs[h].put.sh] = hs[h].put.val
                  /\ \A sh \in Shards : sh # hs[h].put.sh => state'.index[sh] = hs[h].put.copy[1].index[sh]
             /\ hs[h].put.key # "index" => state'.index = hs[h].put.copy[1].index
<1> DEFINE m == hs[h]
           p == m.put
           c == p.copy[1]
<1>1. m \in Memory
  BY DEF DInv, DiskTypeOK
<1>2. PICK q : q = [m EXCEPT !.put = NoPut]
  OBVIOUS
<1>3. /\ hs' = [hs EXCEPT ![h] = q] /\ p # NoPut /\ p.copy # <<>>
      /\ state' = CASE p.key = "index" -> [c EXCEPT !.index[p.sh] = p.val]
                    [] p.key = "cursor" -> [c EXCEPT !.cursor = p.val]
                    [] p.key = "title" -> [c EXCEPT !.title = p.val]
  BY <1>2 DEF putStateWrites, Set
<1>4. p \in Puts
  <2> HIDE DEF m
  <2> QED BY <1>1 DEF Memory
<1> HIDE DEF p
<1>5. /\ p.key \in {"index", "cursor", "title"} /\ p.sh \in Shards
      /\ p.copy \in Seq(Contents) /\ Len(p.copy) \in {0, 1}
      /\ p.key = "index" => p.val \in Indexes
      /\ p.key = "cursor" => p.val \in Nat
      /\ p.key = "title" => p.val \in 0..1
  BY <1>3, <1>4, PutFacts
<1>6. Len(p.copy) = 1 /\ c \in Contents
  <2>1. Len(p.copy) # 0
    BY <1>3, <1>5
  <2>2. Len(p.copy) = 1
    BY <1>5, <2>1
  <2> QED BY <1>5, <2>2
<1> HIDE DEF c
<1>7. /\ state' \in Contents
      /\ p.key = "index" =>
           /\ state'.index[p.sh] = p.val
           /\ \A sh \in Shards : sh # p.sh => state'.index[sh] = c.index[sh]
      /\ p.key # "index" => state'.index = c.index
  <2>1. CASE p.key = "index"
    <3>1. state' = [c EXCEPT !.index[p.sh] = p.val]
      BY <1>3, <2>1
    <3> QED BY <1>5, <1>6, <2>1, <3>1 DEF Contents
  <2>2. CASE p.key = "cursor"
    <3>1. state' = [c EXCEPT !.cursor = p.val]
      BY <1>3, <2>2
    <3> QED BY <1>5, <1>6, <2>2, <3>1 DEF Contents
  <2>3. CASE p.key = "title"
    <3>1. state' = [c EXCEPT !.title = p.val]
      BY <1>3, <2>3
    <3> QED BY <1>5, <1>6, <2>3, <3>1 DEF Contents
  <2> QED BY <1>5, <2>1, <2>2, <2>3
<1> HIDE DEF m
<1>8. q \in Memory
  BY <1>1, <1>2 DEF Memory, Puts
<1>9. /\ q.pc = m.pc /\ SameJob(m, q) /\ SameCount(m, q) /\ SameUpgrade(m, q) /\ q.put = NoPut
      /\ q.meta = m.meta /\ q.off = m.off
  BY <1>1, <1>2 DEF Memory, SameJob, SameCount, SameUpgrade
<1> QED BY <1>3, <1>5, <1>6, <1>7, <1>8, <1>9 DEF m, p, c

(* The worker reads its inbox and asks for the cursor.                     *)
LEMMA InboxMoves ==
    ASSUME DInv, readInbox
    PROVE  \E n \in Memory :
             /\ hs' = [hs EXCEPT !["worker"] = n] /\ dealt' \subseteq Int
             /\ hs["worker"].pc = "idle" /\ n.pc = "idle" /\ hs["worker"].put = NoPut
             /\ SameJob(hs["worker"], n) /\ SameCount(hs["worker"], n) /\ SameUpgrade(hs["worker"], n)
             /\ n.put # NoPut /\ n.put.key = "cursor" /\ n.put.copy = <<>>
<1> DEFINE m == hs["worker"]
           new == {p \in Lines(file[Main]) : p.input /\ p.seq > state.cursor}
           x == Max(SeqsOf(new))
           p == [key |-> "cursor", sh |-> Main, val |-> x, copy |-> <<>>]
<1>1. m \in Memory /\ Main \in Shards /\ file[Main] \in Seq(Pieces) /\ dealt \subseteq Int
  BY SceneFacts DEF DInv, DiskTypeOK
<1>2. PICK q : q = [m EXCEPT !.put = p]
  OBVIOUS
<1>3. /\ hs' = [hs EXCEPT !["worker"] = q] /\ m.pc = "idle" /\ m.put = NoPut /\ new # {}
      /\ dealt' = dealt \cup {d.id : d \in new}
  BY <1>2 DEF readInbox, Set
<1>x. x \in Nat
  <2>1. new \in SUBSET Lines(file[Main])
    OBVIOUS
  <2> QED BY <1>1, <1>3, <2>1, LargestOfLines
<1>d. \A d \in new : d.id \in Int
  <2> SUFFICES ASSUME NEW d \in Lines(file[Main]) PROVE d.id \in Int
    OBVIOUS
  <2>1. PICK k \in LinesAt(file[Main]) : d = file[Main][k]
    BY DEF Lines
  <2>2. k \in 1..Len(file[Main])
    BY DEF LinesAt
  <2>3. d \in Pieces
    BY <1>1, <2>1, <2>2
  <2> QED BY <2>3 DEF Pieces
<1> HIDE DEF m, x, new
<1>p. p \in Puts /\ p # NoPut /\ p.key = "cursor" /\ p.copy = <<>>
  BY <1>1, <1>x, PutTypes DEF NoPut
<1>i. dealt' \subseteq Int
  BY <1>1, <1>3, <1>d
<1> HIDE DEF p
<1>4. q \in Memory
  BY <1>1, <1>2, <1>p DEF Memory
<1>5. q.pc = m.pc /\ q.put = p /\ SameJob(m, q) /\ SameCount(m, q) /\ SameUpgrade(m, q)
  BY <1>1, <1>2 DEF Memory, SameJob, SameCount, SameUpgrade
<1> QED BY <1>3, <1>4, <1>5, <1>p, <1>i DEF m

(* The API asks for a title.                                               *)
LEMMA RenameMoves ==
    ASSUME DInv, NEW h \in Stores, rename(h)
    PROVE  \E n \in Memory :
             /\ hs' = [hs EXCEPT ![h] = n]
             /\ h # "worker" /\ hs[h].pc = "idle" /\ n.pc = "idle"
             /\ SameJob(hs[h], n) /\ SameCount(hs[h], n) /\ SameUpgrade(hs[h], n)
             /\ n.put # NoPut /\ n.put.key = "title" /\ n.put.copy = <<>>
<1> DEFINE m == hs[h]
           p == [key |-> "title", sh |-> Main, val |-> 1, copy |-> <<>>]
<1>1. m \in Memory /\ Main \in Shards
  BY SceneFacts DEF DInv, DiskTypeOK
<1>2. PICK q : q = [m EXCEPT !.put = p]
  OBVIOUS
<1>3. hs' = [hs EXCEPT ![h] = q] /\ m.pc = "idle" /\ h # "worker"
  BY <1>2 DEF rename, Set
<1>p. p \in Puts /\ p # NoPut /\ p.key = "title" /\ p.copy = <<>>
  BY <1>1, PutTypes DEF NoPut
<1> HIDE DEF m, p
<1>4. q \in Memory
  BY <1>1, <1>2, <1>p DEF Memory
<1>5. q.pc = m.pc /\ q.put = p /\ SameJob(m, q) /\ SameCount(m, q) /\ SameUpgrade(m, q)
  BY <1>1, <1>2 DEF Memory, SameJob, SameCount, SameUpgrade
<1> QED BY <1>3, <1>4, <1>5, <1>p DEF m

PieceTypes ==
    [off : Nat, seq : Nat, id : Int, cp : BOOLEAN, input : BOOLEAN, size : Nat \ {0},
     full : BOOLEAN, nl : BOOLEAN]

(* A piece is a record of the right types with no newline in its middle.   *)
LEMMA PieceIs == \A p : p \in Pieces <=> p \in PieceTypes /\ (p.nl => p.full)
BY DEF Pieces, PieceTypes

(* A store renames the lines of a shard into place.                        *)
LEMMA RenamesMoves ==
    ASSUME DInv, NEW h \in Stores, rewriteShardRenames(h)
    PROVE  \E n \in Memory :
             /\ hs' = [hs EXCEPT ![h] = n]
             /\ hs[h].pc = "rename" /\ n.pc = "repoint"
             /\ SameJob(hs[h], n) /\ SameCount(hs[h], n) /\ SameUpgrade(hs[h], n) /\ n.put = hs[h].put
             /\ hs[h].sh \in Shards
             /\ file' \in [Shards -> Seq(Pieces)] /\ Rewritten(hs[h].snap, file'[hs[h].sh])
             /\ \A sh \in Shards : sh # hs[h].sh => file'[sh] = file[sh]
<1> DEFINE m == hs[h]
           r == m.snap
           g == [i \in 1 .. Len(r) |-> [r[i] EXCEPT !.off = i - 1, !.size = 1, !.nl = TRUE]]
           c == m.checked \cup {m.sh}
<1>1. m \in Memory /\ file \in [Shards -> Seq(Pieces)]
  BY DEF DInv, DiskTypeOK
<1>2. /\ hs' = [hs EXCEPT ![h] = [m EXCEPT !.pc = "repoint", !.checked = @ \cup {m.sh}]]
      /\ m.pc = "rename" /\ file' = [file EXCEPT ![m.sh] = g]
  BY DEF rewriteShardRenames, Set
<1>3. PICK q : q = [m EXCEPT !.pc = "repoint", !.checked = c]
  OBVIOUS
<1>4. hs' = [hs EXCEPT ![h] = q]
  BY <1>2, <1>3
<1> HIDE DEF m
<1>5. m.sh \in Shards /\ r \in Seq(Records)
  BY <1>1 DEF Memory
<1>c. c \in SUBSET Shards
  BY <1>1 DEF Memory
<1> HIDE DEF r, c
<1>6. Len(r) \in Nat /\ \A i \in 1..Len(r) : r[i] \in Records
  BY <1>5
<1>7. DOMAIN g = 1..Len(r) /\ \A i \in 1..Len(r) :
         /\ g[i] \in Pieces /\ g[i].off = i - 1 /\ g[i].size = 1 /\ g[i].nl /\ g[i].full
         /\ g[i].seq = r[i].seq /\ g[i].id = r[i].id /\ g[i].cp = r[i].cp
  <2> SUFFICES ASSUME NEW i \in 1..Len(r)
               PROVE  /\ g[i] \in Pieces /\ g[i].off = i - 1 /\ g[i].size = 1 /\ g[i].nl /\ g[i].full
                      /\ g[i].seq = r[i].seq /\ g[i].id = r[i].id /\ g[i].cp = r[i].cp
    OBVIOUS
  <2> DEFINE p == r[i]
             k == i - 1
             y == g[i]
  <2>1. y = [p EXCEPT !.off = k, !.size = 1, !.nl = TRUE] /\ k \in Nat /\ p \in Records
    BY <1>6
  <2> HIDE DEF g, p, k, y
  <2>2. p \in PieceTypes /\ p.full
    BY <2>1, PieceIs DEF Records
  <2>s. PICK one : one = 1
    OBVIOUS
  <2>t. PICK yes \in BOOLEAN : yes
    OBVIOUS
  <2>u. one \in Nat \ {0} /\ y = [p EXCEPT !.off = k, !.size = one, !.nl = yes]
    BY <2>s, <2>t, <2>1
  <2>3. y \in PieceTypes
    BY <2>1, <2>2, <2>u DEF PieceTypes
  <2>4. /\ y.off = k /\ y.size = 1 /\ y.nl /\ y.full = p.full
        /\ y.seq = p.seq /\ y.id = p.id /\ y.cp = p.cp
    BY <2>1, <2>2 DEF PieceTypes
  <2>5. y \in Pieces
    BY <2>2, <2>3, <2>4, PieceIs
  <2> QED BY <2>2, <2>4, <2>5 DEF p, k, y
<1>8. g = [i \in 1..Len(r) |-> g[i]]
  OBVIOUS
<1> HIDE DEF g
<1>9. g \in Seq(Pieces) /\ Len(g) = Len(r)
  <2>1. g \in [1..Len(r) -> Pieces]
    BY <1>7, <1>8
  <2> QED BY <1>6, <2>1
<1>10. Rewritten(r, g)
  BY <1>7, <1>9 DEF Rewritten
<1>11. /\ file' \in [Shards -> Seq(Pieces)] /\ file'[m.sh] = g
       /\ \A sh \in Shards : sh # m.sh => file'[sh] = file[sh]
  BY <1>1, <1>2, <1>5, <1>9
<1>12. q \in Memory
  BY <1>1, <1>3, <1>c DEF Memory, PcSet
<1>13. q.pc = "repoint" /\ SameJob(m, q) /\ SameCount(m, q) /\ SameUpgrade(m, q) /\ q.put = m.put
  BY <1>1, <1>3 DEF Memory, SameJob, SameCount, SameUpgrade
<1>14. Rewritten(m.snap, file'[m.sh])
  BY <1>10, <1>11 DEF r
<1> QED BY <1>2, <1>4, <1>5, <1>11, <1>12, <1>13, <1>14 DEF m

(* The piece of a record.                                                  *)
LEMMA PieceFacts ==
    ASSUME NEW off \in Nat, NEW seq \in Nat, NEW id \in Int, NEW cp \in BOOLEAN
    PROVE  /\ Piece(off, seq, id, cp) \in Pieces
           /\ Piece(off, seq, id, cp).off = off /\ Piece(off, seq, id, cp).nl
           /\ Piece(off, seq, id, cp).seq = seq /\ Piece(off, seq, id, cp).id = id
           /\ Piece(off, seq, id, cp).cp = cp
BY DEF Piece, Pieces

(* The piece a store is about to append.                                   *)
LEMMA WrittenFacts ==
    ASSUME DInv, NEW h \in Stores
    PROVE  /\ Written(h) \in Pieces /\ Written(h).off = End(file[hs[h].sh]) /\ Written(h).nl
           /\ Written(h).seq = hs[h].seq
           /\ Written(h).id = IF hs[h].meta THEN 0 ELSE hs[h].id
           /\ Written(h).cp => hs[h].cp /\ ~hs[h].meta
<1> DEFINE m == hs[h]
           e == End(file[m.sh])
<1>1. m \in Memory /\ file \in [Shards -> Seq(Pieces)]
  BY DEF DInv, DiskTypeOK
<1>2. /\ m.meta => Written(h) = Piece(e, m.seq, 0, FALSE)
      /\ ~m.meta => Written(h) = [Piece(e, m.seq, m.id, m.cp) EXCEPT !.input = (h # "worker")]
  BY DEF Written
<1>3. PICK w : w = Written(h)
  OBVIOUS
<1>4. /\ m.meta => w = Piece(e, m.seq, 0, FALSE)
      /\ ~m.meta => w = [Piece(e, m.seq, m.id, m.cp) EXCEPT !.input = (h # "worker")]
  BY <1>2, <1>3
<1> HIDE DEF m
<1>5. e \in Nat
  <2>1. m.sh \in Shards
    BY <1>1 DEF Memory
  <2> QED BY <1>1, <2>1, EndType
<1> HIDE DEF e
<1>6. m.seq \in Nat /\ m.id \in Nat /\ m.cp \in BOOLEAN /\ m.meta \in BOOLEAN
  BY <1>1 DEF Memory
<1>7. CASE m.meta
  <2>1. w \in Pieces /\ w.off = e /\ w.nl /\ w.seq = m.seq /\ w.id = 0 /\ ~w.cp
    <3>1. w = Piece(e, m.seq, 0, FALSE)
      BY <1>4, <1>7
    <3>2. w.off = e /\ w.nl /\ w.full /\ w.seq = m.seq /\ w.id = 0 /\ ~w.cp
      BY <3>1 DEF Piece
    <3>3. w \in PieceTypes
      BY <1>5, <1>6, <3>1 DEF Piece, PieceTypes
    <3> QED BY <3>2, <3>3, PieceIs
  <2> QED BY <1>3, <1>7, <2>1 DEF m, e
<1>8. CASE ~m.meta
  <2>1. w \in Pieces /\ w.off = e /\ w.nl /\ w.seq = m.seq /\ w.id = m.id /\ w.cp = m.cp
    <3>1. PICK v : v = Piece(e, m.seq, m.id, m.cp)
      OBVIOUS
    <3>2. v \in Pieces /\ v.off = e /\ v.nl /\ v.seq = m.seq /\ v.id = m.id /\ v.cp = m.cp
      BY <1>5, <1>6, <3>1, PieceFacts
    <3>3. w = [v EXCEPT !.input = (h # "worker")]
      BY <1>4, <1>8, <3>1
    <3>4. PICK b \in BOOLEAN : w = [v EXCEPT !.input = b]
      <4>1. CASE h = "worker"
        <5>1. w = [v EXCEPT !.input = FALSE]
          BY <3>3, <4>1
        <5> QED BY <5>1
      <4>2. CASE h # "worker"
        <5>1. w = [v EXCEPT !.input = TRUE]
          BY <3>3, <4>2
        <5> QED BY <5>1
      <4> QED BY <4>1, <4>2
    <3>5. v \in PieceTypes /\ (v.nl => v.full)
      BY <3>2, PieceIs
    <3>6. /\ w \in PieceTypes /\ w.nl = v.nl /\ w.full = v.full
          /\ w.off = v.off /\ w.seq = v.seq /\ w.id = v.id /\ w.cp = v.cp
      BY <3>4, <3>5 DEF PieceTypes
    <3>7. w \in Pieces
      BY <3>5, <3>6, PieceIs
    <3> QED BY <3>2, <3>6, <3>7
  <2> QED BY <1>3, <1>8, <2>1 DEF m, e
<1> QED BY <1>6, <1>7, <1>8

(* One file grows by a piece.                                              *)
LEMMA FileGrows ==
    ASSUME NEW F \in [Shards -> Seq(Pieces)], NEW sh \in Shards, NEW p \in Pieces,
           p.off = End(F[sh]), NEW G, G = [F EXCEPT ![sh] = Append(@, p)]
    PROVE  /\ G \in [Shards -> Seq(Pieces)] /\ Appended(F[sh], p, G[sh])
           /\ \A s \in Shards : s # sh => G[s] = F[s]
<1>1. F[sh] \in Seq(Pieces) /\ G[sh] = Append(F[sh], p)
  OBVIOUS
<1>2. /\ Append(F[sh], p) \in Seq(Pieces) /\ Len(Append(F[sh], p)) = Len(F[sh]) + 1
      /\ Append(F[sh], p)[Len(F[sh]) + 1] = p
      /\ \A i \in 1..Len(F[sh]) : Append(F[sh], p)[i] = F[sh][i]
  BY <1>1
<1> QED BY <1>1, <1>2 DEF Appended

(* A store writes its record.                                              *)
LEMMA StoredMoves ==
    ASSUME DInv, NEW h \in Stores, appendStored(h)
    PROVE  \E n \in Memory :
             /\ hs' = [hs EXCEPT ![h] = n]
             /\ hs[h].pc = "write" /\ ~n.meta /\ n.off = hs[h].off
             /\ SameJob(hs[h], n) /\ SameCount(hs[h], n) /\ SameUpgrade(hs[h], n) /\ n.put = hs[h].put
             /\ hs[h].sh \in Shards
             /\ file' \in [Shards -> Seq(Pieces)] /\ Appended(file[hs[h].sh], Written(h), file'[hs[h].sh])
             /\ \A sh \in Shards : sh # hs[h].sh => file'[sh] = file[sh]
             /\ \/ hs[h].meta /\ n.pc = "size" /\ n.cp /\ acked' = acked
                \/ hs[h].meta /\ n.pc = "seq" /\ ~n.cp /\ acked' = acked
                \/ ~hs[h].meta /\ n.pc = "index" /\ n.cp /\ acked' = acked
                \/ ~hs[h].meta /\ n.pc = "idle" /\ ~n.cp /\ acked' = acked \cup {hs[h].id}
<1> DEFINE m == hs[h]
           pc == IF m.meta THEN (IF m.cp THEN "size" ELSE "seq") ELSE IF m.cp THEN "index" ELSE "idle"
<1>1. m \in Memory /\ file \in [Shards -> Seq(Pieces)]
  BY DEF DInv, DiskTypeOK
<1>2. PICK q : q = [m EXCEPT !.meta = FALSE, !.pc = pc]
  OBVIOUS
<1>3. /\ hs' = [hs EXCEPT ![h] = q] /\ m.pc = "write"
      /\ file' = [file EXCEPT ![m.sh] = Append(@, Written(h))]
      /\ acked' = IF m.meta \/ m.cp THEN acked ELSE acked \cup {m.id}
  BY <1>2 DEF appendStored, Set
<1>4. Written(h) \in Pieces /\ Written(h).off = End(file[m.sh])
  BY WrittenFacts
<1> HIDE DEF m
<1>5. m.sh \in Shards /\ m.cp \in BOOLEAN /\ m.meta \in BOOLEAN
  BY <1>1 DEF Memory
<1>6. /\ file' \in [Shards -> Seq(Pieces)] /\ Appended(file[m.sh], Written(h), file'[m.sh])
      /\ \A sh \in Shards : sh # m.sh => file'[sh] = file[sh]
  BY <1>1, <1>3, <1>4, <1>5, FileGrows
<1>7. pc \in PcSet
  BY DEF PcSet
<1>8. \/ m.meta /\ pc = "size" /\ m.cp /\ acked' = acked
      \/ m.meta /\ pc = "seq" /\ ~m.cp /\ acked' = acked
      \/ ~m.meta /\ pc = "index" /\ m.cp /\ acked' = acked
      \/ ~m.meta /\ pc = "idle" /\ ~m.cp /\ acked' = acked \cup {m.id}
  BY <1>3, <1>5
<1> HIDE DEF pc
<1>9. q \in Memory
  BY <1>1, <1>2, <1>7 DEF Memory
<1>10. q.pc = pc /\ ~q.meta /\ SameJob(m, q) /\ SameCount(m, q) /\ SameUpgrade(m, q) /\ q.put = m.put /\ q.off = m.off
  BY <1>1, <1>2 DEF Memory, SameJob, SameCount, SameUpgrade
<1>11. \/ m.meta /\ q.pc = "size" /\ q.cp /\ acked' = acked
       \/ m.meta /\ q.pc = "seq" /\ ~q.cp /\ acked' = acked
       \/ ~m.meta /\ q.pc = "index" /\ q.cp /\ acked' = acked
       \/ ~m.meta /\ q.pc = "idle" /\ ~q.cp /\ acked' = acked \cup {m.id}
  BY <1>8, <1>10 DEF SameJob
<1> QED BY <1>3, <1>5, <1>6, <1>9, <1>10, <1>11 DEF m

(* A crash leaves the files, or a torn piece behind one of them.           *)
LEMMA CrashMoves ==
    ASSUME DInv, crash
    PROVE  /\ hs' = [h \in Stores |-> Fresh] /\ crashes' = crashes + 1 /\ crashes < scene.crashes
           /\ \/ file' = file
              \/ \E h \in Stores : \E p \in Pieces :
                   /\ hs[h].pc = "write" /\ hs[h].sh \in Shards
                   /\ ~p.nl /\ p.off = End(file[hs[h].sh]) /\ p.seq = hs[h].seq
                   /\ file' \in [Shards -> Seq(Pieces)] /\ Appended(file[hs[h].sh], p, file'[hs[h].sh])
                   /\ \A sh \in Shards : sh # hs[h].sh => file'[sh] = file[sh]
<1>1. hs' = [h \in Stores |-> Fresh] /\ crashes' = crashes + 1 /\ crashes < scene.crashes
  BY DEF crash
<1>2. CASE file' = file
  BY <1>1, <1>2
<1>3. CASE file' # file
  <2>1. PICK h \in Stores, full \in BOOLEAN :
           /\ hs[h].pc = "write"
           /\ file' = [file EXCEPT ![hs[h].sh] = Append(@, [Written(h) EXCEPT !.full = full, !.nl = FALSE])]
    BY <1>3 DEF crash
  <2>2. PICK p : p = [Written(h) EXCEPT !.full = full, !.nl = FALSE]
    OBVIOUS
  <2>3. Written(h) \in Pieces /\ Written(h).off = End(file[hs[h].sh]) /\ Written(h).seq = hs[h].seq
    BY WrittenFacts
  <2>4. p \in Pieces /\ ~p.nl /\ p.off = End(file[hs[h].sh]) /\ p.seq = hs[h].seq
    <3> DEFINE w == Written(h)
    <3>1. w \in Pieces /\ w.off = End(file[hs[h].sh]) /\ w.seq = hs[h].seq /\ p = [w EXCEPT !.full = full, !.nl = FALSE]
      BY <2>2, <2>3
    <3> HIDE DEF w
    <3>3. w \in PieceTypes
      BY <3>1, PieceIs
    <3>4. p \in PieceTypes /\ ~p.nl /\ p.off = w.off /\ p.seq = w.seq
      BY <3>1, <3>3 DEF PieceTypes
    <3>2. p \in Pieces /\ ~p.nl /\ p.off = w.off /\ p.seq = w.seq
      BY <3>4, PieceIs
    <3> QED BY <3>1, <3>2
  <2>5. hs[h].sh \in Shards /\ file \in [Shards -> Seq(Pieces)]
    <3>1. hs[h] \in Memory /\ file \in [Shards -> Seq(Pieces)]
      BY DEF DInv, DiskTypeOK
    <3> QED BY <3>1 DEF Memory
  <2>6. file' = [file EXCEPT ![hs[h].sh] = Append(@, p)]
    BY <2>1, <2>2
  <2>7. /\ file' \in [Shards -> Seq(Pieces)] /\ Appended(file[hs[h].sh], p, file'[hs[h].sh])
        /\ \A sh \in Shards : sh # hs[h].sh => file'[sh] = file[sh]
    BY <2>4, <2>5, <2>6, FileGrows
  <2> QED BY <1>1, <2>1, <2>4, <2>5, <2>7
<1> QED BY <1>2, <1>3

(* A step of one store that leaves well-placed files keeps the types.      *)
LEMMA MovedTypes ==
    ASSUME DInv, NEW h \in Stores, NEW n \in Memory, hs' = [hs EXCEPT ![h] = n],
           scene' = scene, issued' = issued, n.id = hs[h].id, crashes' = crashes,
           file' \in [Shards -> Seq(Pieces)], \A sh \in Shards : Placed(file'[sh]),
           state' \in Contents, old' \in BOOLEAN,
           acked' = acked \/ acked' = acked \cup {hs[h].id}, dealt' \subseteq Int
    PROVE  DInv'
<1>1. /\ Stores' = Stores /\ Shards' = Shards /\ Memory' = Memory /\ Contents' = Contents
      /\ issued \in 0..MaxRecords /\ crashes \in 0..scene.crashes
      /\ hs \in [Stores -> Memory] /\ acked \subseteq {id \in Int : id <= issued}
      /\ scene \in Scenes
  BY SameTypes DEF DInv, DiskTypeOK
<1>2. /\ hs' \in [Stores -> Memory] /\ hs'[h] = n
      /\ \A k \in Stores : k # h => hs'[k] = hs[k]
  BY <1>1, OneMoves
<1>3. \A k \in Stores : hs[k].id <= issued
  BY DEF DInv
<1>4. \A k \in Stores : hs'[k].id <= issued'
  BY <1>2, <1>3
<1>5. acked' \subseteq {id \in Int : id <= issued'}
  <2>1. hs[h].id \in Int
    <3>1. hs[h] \in Memory
      BY <1>1
    <3> QED BY <3>1 DEF Memory
  <2> QED BY <1>1, <1>3, <2>1
<1>6. DiskTypeOK'
  BY <1>1, <1>2, <1>5 DEF DiskTypeOK
<1> QED BY <1>1, <1>4, <1>6 DEF DInv

(* A step of one store that leaves the files alone keeps the types.        *)
LEMMA MemoryTypes ==
    ASSUME DInv, NEW h \in Stores, NEW n \in Memory, hs' = [hs EXCEPT ![h] = n],
           scene' = scene, issued' = issued, n.id = hs[h].id, crashes' = crashes,
           file' = file, state' \in Contents, old' \in BOOLEAN,
           acked' = acked \/ acked' = acked \cup {hs[h].id}, dealt' \subseteq Int
    PROVE  DInv'
<1>1. file' \in [Shards -> Seq(Pieces)] /\ \A sh \in Shards : Placed(file'[sh])
  BY DEF DInv, DiskTypeOK
<1> QED BY <1>1, MovedTypes

(* What DInv says of the variables a step may leave alone.                 *)
LEMMA PlainTypes ==
    ASSUME DInv
    PROVE  /\ file \in [Shards -> Seq(Pieces)] /\ state \in Contents /\ old \in BOOLEAN
           /\ hs \in [Stores -> Memory] /\ dealt \subseteq Int
           /\ \A h \in Stores : hs[h] \in Memory
           /\ \A h \in Stores : hs[h].sh \in Shards /\ hs[h].snap \in Seq(Pieces)
<1>1. /\ file \in [Shards -> Seq(Pieces)] /\ state \in Contents /\ old \in BOOLEAN
      /\ hs \in [Stores -> Memory] /\ dealt \subseteq Int
  BY DEF DInv, DiskTypeOK
<1>2. \A h \in Stores : hs[h] \in Memory
  BY <1>1
<1>3. ASSUME NEW m \in Memory PROVE m.sh \in Shards /\ m.snap \in Seq(Pieces)
  <2>1. m.sh \in Shards /\ m.snap \in Seq(Records)
    BY DEF Memory
  <2>2. Len(m.snap) \in Nat /\ m.snap \in [1..Len(m.snap) -> Records]
    BY <2>1
  <2>3. m.snap \in [1..Len(m.snap) -> Pieces]
    BY <2>2 DEF Records
  <2>4. m.snap \in Seq(Pieces)
    BY <2>2, <2>3
  <2> QED BY <2>1, <2>4
<1> QED BY <1>1, <1>2, <1>3

(* The index of the newest checkpoint of some lines is an index.           *)
LEMMA NewestType ==
    ASSUME NEW r \in Seq(Pieces)
    PROVE  Newest(r) \in Indexes
<1> DEFINE cps == {i \in 1 .. Len(r) : r[i].cp}
           m == Max(cps)
<1>1. CASE cps = {}
  BY <1>1 DEF Newest, Indexes, NoIndex
<1>2. CASE cps # {}
  <2>1. cps \in SUBSET Nat /\ IsFiniteSet(cps)
    <3>1. Len(r) \in Nat
      OBVIOUS
    <3>2. IsFiniteSet(1..Len(r))
      BY <3>1, FS_Interval
    <3> QED BY <3>1, <3>2, FS_Subset
  <2>2. m \in cps
    BY <1>2, <2>1, Largest
  <2>3. m \in 1..Len(r)
    BY <2>2
  <2>4. r[m] \in Pieces /\ m - 1 \in Nat
    BY <2>3
  <2>5. Newest(r) = [seq |-> r[m].seq, off |-> m - 1]
    BY <1>2 DEF Newest
  <2> HIDE DEF m
  <2>6. r[m].seq \in Nat
    BY <2>4, PieceIs DEF PieceTypes
  <2> QED BY <2>4, <2>5, <2>6 DEF Indexes
<1> QED BY <1>1, <1>2

(* Every step of an append keeps the types.                                *)
LEMMA ProceedTypes ==
    ASSUME DInv, NEW h \in Stores, Proceed(h)
    PROVE  DInv'
<1>0. /\ file \in [Shards -> Seq(Pieces)] /\ state \in Contents /\ old \in BOOLEAN
      /\ dealt \subseteq Int /\ hs[h].sh \in Shards /\ hs[h].snap \in Seq(Pieces)
      /\ \A sh \in Shards : Placed(file[sh])
  BY PlainTypes DEF DInv
<1>1. CASE ensureCurrentVersion(h)
  <2>1. PICK n \in Memory : hs' = [hs EXCEPT ![h] = n] /\ SameJob(hs[h], n) /\ old' \in BOOLEAN
    BY <1>0, <1>1, VersionMoves
  <2> QED BY <1>0, <1>1, <2>1, MemoryTypes DEF ensureCurrentVersion, SameJob
<1>2. ASSUME NEW sh \in Shards, rewriteShardReads(h, sh) PROVE DInv'
  <2>1. PICK n \in Memory : hs' = [hs EXCEPT ![h] = n] /\ n.id = hs[h].id
    BY <1>2, ReadsMoves
  <2> QED BY <1>0, <1>2, <2>1, MemoryTypes DEF rewriteShardReads
<1>3. CASE rewriteShardRenames(h)
  <2>1. PICK n \in Memory :
           /\ hs' = [hs EXCEPT ![h] = n] /\ SameJob(hs[h], n)
           /\ file' \in [Shards -> Seq(Pieces)] /\ Rewritten(hs[h].snap, file'[hs[h].sh])
           /\ \A sh \in Shards : sh # hs[h].sh => file'[sh] = file[sh]
    BY <1>3, RenamesMoves
  <2>2. Placed(file'[hs[h].sh])
    <3> DEFINE g == file'[hs[h].sh]
               r == hs[h].snap
    <3>1. g \in Seq(Pieces) /\ Len(g) = Len(r) /\ \A i \in 1..Len(r) : g[i].off = i - 1 /\ g[i].size = 1
      BY <2>1 DEF Rewritten
    <3>2. Len(r) \in Nat
      BY <1>0
    <3> HIDE DEF g, r
    <3>3. Placed(g)
      <4> SUFFICES ASSUME NEW i \in 1..Len(g), NEW j \in 1..Len(g), i < j
                   PROVE  g[i].off + g[i].size <= g[j].off
        BY DEF Placed
      <4>1. g[i].off = i - 1 /\ g[i].size = 1 /\ g[j].off = j - 1
        BY <3>1
      <4> QED BY <3>1, <3>2, <4>1
    <3> QED BY <3>3 DEF g
  <2>3. \A sh \in Shards : Placed(file'[sh])
    BY <1>0, <2>1, <2>2
  <2> QED BY <1>0, <1>3, <2>1, <2>3, MovedTypes DEF rewriteShardRenames, SameJob
<1>4. CASE rewriteShardRepoints(h)
  <2>0. Newest(hs[h].snap) \in Indexes
    BY <1>0, NewestType
  <2>1. PICK n \in Memory : hs' = [hs EXCEPT ![h] = n] /\ SameJob(hs[h], n)
    BY <1>4, <2>0, RepointsMoves
  <2> QED BY <1>0, <1>4, <2>1, MemoryTypes DEF rewriteShardRepoints, SameJob
<1>5. CASE stampVersion(h)
  <2>1. PICK n \in Memory : hs' = [hs EXCEPT ![h] = n] /\ SameJob(hs[h], n) /\ old' = FALSE
    BY <1>5, StampMoves
  <2> QED BY <1>0, <1>5, <2>1, MemoryTypes DEF stampVersion, SameJob
<1>6. CASE ensureMetadata(h)
  <2>1. PICK n \in Memory : hs' = [hs EXCEPT ![h] = n] /\ SameJob(hs[h], n)
    BY <1>6, MetadataMoves
  <2> QED BY <1>0, <1>6, <2>1, MemoryTypes DEF ensureMetadata, SameJob
<1>7. CASE fileSize(h)
  <2>1. PICK n \in Memory : hs' = [hs EXCEPT ![h] = n] /\ SameJob(hs[h], n)
    BY <1>7, SizeMoves
  <2> QED BY <1>0, <1>7, <2>1, MemoryTypes DEF fileSize, SameJob
<1>8. CASE nextSequence(h)
  <2>1. PICK n \in Memory : hs' = [hs EXCEPT ![h] = n] /\ SameJob(hs[h], n)
    BY <1>8, NextMoves
  <2> QED BY <1>0, <1>8, <2>1, MemoryTypes DEF nextSequence, SameJob
<1>9. CASE appendStored(h)
  <2>1. PICK n \in Memory :
           /\ hs' = [hs EXCEPT ![h] = n] /\ SameJob(hs[h], n)
           /\ file' \in [Shards -> Seq(Pieces)] /\ Appended(file[hs[h].sh], Written(h), file'[hs[h].sh])
           /\ \A sh \in Shards : sh # hs[h].sh => file'[sh] = file[sh]
           /\ (acked' = acked \/ acked' = acked \cup {hs[h].id})
    BY <1>9, StoredMoves
  <2>2. Placed(file'[hs[h].sh])
    BY <1>0, <2>1, WrittenFacts, AppendedText
  <2>3. \A sh \in Shards : Placed(file'[sh])
    BY <1>0, <2>1, <2>2
  <2> QED BY <1>0, <1>9, <2>1, <2>3, MovedTypes DEF appendStored, SameJob
<1>10. CASE indexCheckpoint(h)
  <2>1. PICK n \in Memory : hs' = [hs EXCEPT ![h] = n] /\ SameJob(hs[h], n)
    BY <1>10, IndexMoves
  <2> QED BY <1>0, <1>10, <2>1, MemoryTypes DEF indexCheckpoint, SameJob
<1>11. CASE checkpointAppended(h)
  <2>1. PICK n \in Memory : hs' = [hs EXCEPT ![h] = n] /\ SameJob(hs[h], n)
    BY <1>11, CheckpointMoves
  <2>2. acked' = acked \cup {hs[h].id}
    BY <1>11 DEF checkpointAppended
  <2> QED BY <1>0, <1>11, <2>1, <2>2, MemoryTypes DEF checkpointAppended, SameJob
<1>12. CASE putStateReads(h)
  <2>1. PICK n \in Memory : hs' = [hs EXCEPT ![h] = n] /\ SameJob(hs[h], n)
    BY <1>12, PutReadMoves
  <2> QED BY <1>0, <1>12, <2>1, MemoryTypes DEF putStateReads, SameJob
<1>13. CASE putStateWrites(h)
  <2>1. PICK n \in Memory : hs' = [hs EXCEPT ![h] = n] /\ SameJob(hs[h], n) /\ state' \in Contents
    BY <1>13, PutWriteMoves
  <2> QED BY <1>0, <1>13, <2>1, MemoryTypes DEF putStateWrites, SameJob
<1> QED BY <1>1, <1>2, <1>3, <1>4, <1>5, <1>6, <1>7, <1>8, <1>9, <1>10, <1>11, <1>12, <1>13 DEF Proceed

(* A crash keeps the types.                                                *)
LEMMA CrashTypes ==
    ASSUME DInv, crash
    PROVE  DInv'
<1>0. /\ file \in [Shards -> Seq(Pieces)] /\ state \in Contents /\ old \in BOOLEAN
      /\ dealt \subseteq Int /\ \A sh \in Shards : Placed(file[sh])
      /\ scene \in Scenes /\ scene' = scene /\ state' = state /\ old' = old
      /\ issued' = issued /\ acked' = acked /\ dealt' = dealt
      /\ issued \in 0..MaxRecords /\ acked \subseteq {id \in Int : id <= issued}
      /\ crashes \in 0..scene.crashes
  BY PlainTypes DEF DInv, DiskTypeOK, crash
<1>1. /\ Stores' = Stores /\ Shards' = Shards /\ Memory' = Memory /\ Contents' = Contents
  BY <1>0, SameTypes
<1>2. /\ hs' = [h \in Stores |-> Fresh] /\ crashes' = crashes + 1 /\ crashes < scene.crashes
      /\ \/ file' = file
         \/ \E h \in Stores : \E p \in Pieces :
              /\ hs[h].pc = "write" /\ hs[h].sh \in Shards
              /\ ~p.nl /\ p.off = End(file[hs[h].sh]) /\ p.seq = hs[h].seq
              /\ file' \in [Shards -> Seq(Pieces)] /\ Appended(file[hs[h].sh], p, file'[hs[h].sh])
              /\ \A sh \in Shards : sh # hs[h].sh => file'[sh] = file[sh]
  BY CrashMoves
<1>3. crashes' \in 0..scene.crashes
  BY <1>0, <1>2, SceneFacts
<1>4. file' \in [Shards -> Seq(Pieces)] /\ \A sh \in Shards : Placed(file'[sh])
  <2>1. CASE file' = file
    BY <1>0, <2>1
  <2>2. CASE file' # file
    <3>1. PICK h \in Stores : \E p \in Pieces :
              /\ hs[h].sh \in Shards
              /\ file' \in [Shards -> Seq(Pieces)] /\ Appended(file[hs[h].sh], p, file'[hs[h].sh])
              /\ \A sh \in Shards : sh # hs[h].sh => file'[sh] = file[sh]
      BY <1>2, <2>2
    <3>2. PICK p \in Pieces :
              /\ hs[h].sh \in Shards
              /\ file' \in [Shards -> Seq(Pieces)] /\ Appended(file[hs[h].sh], p, file'[hs[h].sh])
              /\ \A sh \in Shards : sh # hs[h].sh => file'[sh] = file[sh]
      BY <3>1
    <3>3. Placed(file'[hs[h].sh])
      BY <1>0, <3>2, AppendedText
    <3> QED BY <1>0, <3>2, <3>3
  <2> QED BY <2>1, <2>2
<1>5. Fresh \in Memory /\ Fresh.id = 0
  BY <1>0, FreshMemory DEF Fresh
<1>6. hs' \in [Stores -> Memory] /\ \A h \in Stores : hs'[h].id = 0
  BY <1>2, <1>5
<1>7. 0 <= issued
  BY <1>0
<1>8. DiskTypeOK'
  BY <1>0, <1>1, <1>3, <1>4, <1>6 DEF DiskTypeOK
<1> QED BY <1>0, <1>1, <1>4, <1>6, <1>7, <1>8 DEF DInv

(* Every step keeps the types.                                             *)
LEMMA DInvStep ==
    ASSUME DInv, [Next]_vars
    PROVE  DInv'
<1>0. /\ file \in [Shards -> Seq(Pieces)] /\ state \in Contents /\ old \in BOOLEAN
      /\ dealt \subseteq Int
  BY PlainTypes
<1>1. ASSUME NEW h \in Stores, NEW sh \in Shards, NEW cp \in BOOLEAN, appendRecord(h, sh, cp)
      PROVE  DInv'
  <2>1. PICK n \in Memory : hs' = [hs EXCEPT ![h] = n] /\ n.id = issued + 1
    BY <1>1, AppendMoves
  <2>2. issued \in 0..MaxRecords /\ MaxRecords \in Nat /\ acked \subseteq {id \in Int : id <= issued}
    BY SceneFacts DEF DInv, DiskTypeOK
  <2>3. issued' = issued + 1 /\ issued < MaxRecords /\ scene' = scene /\ file' = file
        /\ state' = state /\ old' = old /\ crashes' = crashes /\ acked' = acked /\ dealt' = dealt
    BY <1>1 DEF appendRecord
  <2>4. issued' \in issued..MaxRecords /\ n.id <= issued' /\ acked' \subseteq {id \in Int : id <= issued'}
    BY <2>1, <2>2, <2>3
  <2> QED BY <1>0, <2>1, <2>3, <2>4, QuietTypes
<1>2. ASSUME NEW h \in Stores, Proceed(h) PROVE DInv'
  BY <1>2, ProceedTypes
<1>3. ASSUME NEW h \in Stores, rename(h) PROVE DInv'
  <2>1. PICK n \in Memory : hs' = [hs EXCEPT ![h] = n] /\ SameJob(hs[h], n)
    BY <1>3, RenameMoves
  <2> QED BY <1>0, <1>3, <2>1, MemoryTypes DEF rename, SameJob
<1>4. CASE readInbox
  <2>1. PICK n \in Memory : hs' = [hs EXCEPT !["worker"] = n] /\ SameJob(hs["worker"], n) /\ dealt' \subseteq Int
    BY <1>4, InboxMoves
  <2>2. "worker" \in Stores
    BY SceneFacts DEF DInv
  <2> QED BY <1>0, <1>4, <2>1, <2>2, MemoryTypes DEF readInbox, SameJob
<1>5. CASE crash
  BY <1>5, CrashTypes
<1>6. CASE UNCHANGED vars
  <2>1. scene' = scene /\ file' = file /\ hs' = hs /\ issued' = issued /\ state' = state /\ old' = old
        /\ crashes' = crashes /\ acked' = acked /\ dealt' = dealt
    BY <1>6 DEF vars
  <2> QED BY <2>1, SameTypes DEF DInv, DiskTypeOK
<1> QED BY <1>1, <1>2, <1>3, <1>4, <1>5, <1>6 DEF Next

(* The first state.                                                        *)
LEMMA DInvInit == Init => DInv
<1> SUFFICES ASSUME Init PROVE DInv
  OBVIOUS
<1>1. scene \in Scenes /\ Stores = scene.stores /\ Shards = scene.shards
  BY DEF Init, Stores, Shards
<1>2. /\ MaxRecords \in Nat /\ scene.crashes \in Nat /\ scene.old \in BOOLEAN
      /\ scene.file \in [Shards -> Seq(Pieces)] /\ scene.index \in [Shards -> Indexes]
  BY <1>1, SceneFacts
<1>3. \A sh \in Shards : /\ Placed(scene.file[sh])
                         /\ \A i \in 1 .. Len(scene.file[sh]) : scene.file[sh][i].id <= 0
  BY <1>1, ScenesAssumption
<1>4. state \in Contents /\ file = scene.file /\ old = scene.old /\ issued = 0 /\ dealt = {} /\ crashes = 0
  BY <1>2 DEF Init, Contents
<1>5. Fresh \in Memory /\ Fresh.id = 0
  BY <1>1, FreshMemory DEF Fresh
<1>6. hs \in [Stores -> Memory] /\ \A h \in Stores : hs[h].id = 0
  BY <1>1, <1>5 DEF Init
<1>7. acked \subseteq {id \in Int : id <= issued}
  <2> SUFFICES ASSUME NEW sh \in Shards, NEW p \in Lines(scene.file[sh])
               PROVE  p.id \in Int /\ p.id <= 0
    BY <1>1, <1>4 DEF Init
  <2>1. PICK k \in LinesAt(scene.file[sh]) : p = scene.file[sh][k]
    BY DEF Lines
  <2>2. k \in 1..Len(scene.file[sh])
    BY DEF LinesAt
  <2>3. p \in Pieces /\ p.id <= 0
    BY <1>2, <1>3, <2>1, <2>2
  <2> QED BY <2>3, PieceIs DEF PieceTypes
<1>8. DiskTypeOK
  BY <1>2, <1>4, <1>6, <1>7 DEF DiskTypeOK
<1> QED BY <1>1, <1>3, <1>4, <1>6, <1>8 DEF DInv

(* Every variable has its type, whatever logs earlier processes left, how- *)
(* ever many stores write the files and wherever they crash.               *)
THEOREM TypeCorrect == Spec => []DiskTypeOK
<1>1. DInv => DiskTypeOK
  BY DEF DInv
<1> QED BY <1>1, DInvInit, DInvStep, PTL DEF Spec

-----------------------------------------------------------------------------
(* The invariant of the log.                                               *)

Rewrites == {"rewrite", "rename", "repoint", "stamp"}
Late == {"meta", "size", "seq", "write", "index", "indexed"}

(* An index is of use only where nothing torn can be taken for its         *)
(* checkpoint; once the log is current it also lies inside its file.       *)
Held(f, x, o) == x = NoIndex \/ (Sound(f, x.off) /\ (o \/ x.off < End(f)))

(* What a store's memory says of the log's version: a log that is still    *)
(* old is being rewritten, or some shard of it cannot be read.             *)
Phase(S, m, F, o) ==
    /\ m.pc \in Rewrites => o /\ m.upgraded
    /\ m.pc \in Late => m.upgraded
    /\ m.known => ~o
    /\ m.pc \in {"write", "index", "indexed"} => m.known
    /\ o /\ m.upgraded /\ m.pc \notin Rewrites => \E s \in S : Corrupt(F[s])

(* The offset of the checkpoint a store is writing.                        *)
Offsets(m, F) ==
    /\ m.cp /\ ~m.meta /\ m.pc \in {"seq", "write"} =>
          m.off <= End(F[m.sh]) /\ Sound(F[m.sh], m.off)
    /\ m.pc = "index" => m.off < End(F[m.sh]) /\ Sound(F[m.sh], m.off)

(* The indexes a store is going to put into state.json.                    *)
Pending(S, m, F, o) ==
    /\ m.put.key = "index" => Held(F[m.put.sh], m.put.val, o)
    /\ m.put # NoPut =>
          \A j \in 1 .. Len(m.put.copy) : \A s \in S : Held(F[s], m.put.copy[j].index[s], o)

(* The index of a shard once the store's put has been carried out.         *)
Landing(m, X, s) == IF m.put.key = "index" /\ m.put.sh = s THEN m.put.val ELSE X[s]

(* The only store, and the indexes of state.json: what it has read of      *)
(* state.json is what is there, an index stands for a complete line, and   *)
(* the shards left to rewrite are those whose index may lie outside.       *)
Single(S, m, F, X) ==
    /\ m.put # NoPut => \A j \in 1 .. Len(m.put.copy) : m.put.copy[j].index = X
    /\ \A s \in S : X[s] # NoIndex => HasLine(F[s])
    /\ m.put.key = "index" /\ m.put.val # NoIndex => HasLine(F[m.put.sh])
    /\ m.pc = "index" => HasLine(F[m.sh])
    /\ m.pc \in Rewrites =>
          \A s \in S : \/ s \in m.left \/ Landing(m, X, s) = NoIndex
                            \/ Landing(m, X, s).off < End(F[s])
    /\ m.pc \in {"rename", "repoint"} => m.sh \in m.left
    /\ m.pc = "stamp" => m.left = {}
    /\ m.pc = "rename" => m.snap = parseLogLines(F[m.sh]) /\ ~Corrupt(F[m.sh])
    /\ m.pc = "repoint" => Rewritten(m.snap, F[m.sh])

(* An old log that several stores write is left to the model checker.      *)
Good == Alone \/ ~scene.old

CInv ==
    /\ old => scene.old
    /\ Good =>
         /\ \A s \in Shards : Held(file[s], state.index[s], old)
         /\ \A h \in Stores : Phase(Shards, hs[h], file, old) /\ Offsets(hs[h], file) /\ Pending(Shards, hs[h], file, old)
    /\ Alone => Single(Shards, hs["worker"], file, state.index)

(* The sequences in the files, and the counter of the only store.          *)
Sequences(S, m, F) ==
    /\ \A s \in S : Ascends(F[s])
    /\ \A s, t \in S : s # t => Disjoint(F[s], F[t])
    /\ m.known => \A s \in S : \A k \in LinesAt(F[s]) : F[s][k].seq <= m.last
    /\ m.pc = "write" => /\ m.seq = m.last
                         /\ \A s \in S : \A k \in LinesAt(F[s]) : F[s][k].seq < m.seq

(* A record is in a file; while the log is old, on a line of its own.      *)
Stands(S, id, F, o) ==
    \E s \in S : \E i \in 1 .. Len(F[s]) : F[s][i].id = id /\ (o => i \in LinesAt(F[s]))

Kept(S, m, F, o, A) ==
    /\ \A id \in A : Stands(S, id, F, o)
    /\ m.pc \in {"index", "indexed"} => Stands(S, m.id, F, o)

LInv ==
    Alone => Sequences(Shards, hs["worker"], file) /\ Kept(Shards, hs["worker"], file, old, acked)

(* The only store is the worker's.                                         *)
LEMMA AloneStore ==
    ASSUME scene \in Scenes, Alone, NEW h \in Stores
    PROVE  h = "worker"
<1>1. IsFiniteSet(Stores) /\ "worker" \in Stores
  BY SceneFacts
<1>2. PICK x : Stores = {x}
  BY <1>1, FS_Singleton DEF Alone
<1> QED BY <1>1, <1>2

(* An index that is held is held in the file that has grown.               *)
LEMMA HeldGrows ==
    ASSUME NEW f \in Seq(Pieces), Placed(f), NEW p \in Pieces, NEW g, Appended(f, p, g),
           NEW x \in Indexes, NEW o \in BOOLEAN, Held(f, x, o), o => (p.cp => p.nl)
    PROVE  Held(g, x, o)
<1>1. x.off \in Nat
  BY DEF Indexes
<1>2. CASE x = NoIndex
  BY <1>2 DEF Held
<1>3. CASE x # NoIndex
  <2>1. Sound(f, x.off) /\ (o \/ x.off < End(f))
    BY <1>3 DEF Held
  <2>2. /\ End(f) \in Nat /\ End(g) \in Nat /\ End(f) < End(g)
        /\ x.off < End(f) => Sound(g, x.off)
        /\ (p.cp => p.nl) => Sound(g, x.off)
    <3>1. /\ End(g) \in Nat /\ End(f) \in Nat /\ End(f) < End(g)
          /\ \A off \in Nat : off < End(f) /\ Sound(f, off) => Sound(g, off)
          /\ \A off \in Nat : (p.cp => p.nl) /\ Sound(f, off) => Sound(g, off)
      BY AppendedText
    <3> QED BY <1>1, <2>1, <3>1
  <2>3. Sound(g, x.off) /\ (o \/ x.off < End(g))
    BY <1>1, <2>1, <2>2
  <2> QED BY <2>3 DEF Held
<1> QED BY <1>2, <1>3

(* In lines written anew every checkpoint is complete.                     *)
LEMMA RewrittenSound ==
    ASSUME NEW r \in Seq(Pieces), NEW g, Rewritten(r, g)
    PROVE  /\ End(g) = Len(g)
           /\ \A x : Sound(g, x)
<1>1. g \in Seq(Pieces) /\ Len(g) = Len(r) /\ \A i \in 1..Len(r) : g[i].off = i - 1 /\ g[i].size = 1 /\ g[i].nl
  BY DEF Rewritten
<1>2. Len(r) \in Nat
  OBVIOUS
<1>3. \A x : Sound(g, x)
  BY <1>1 DEF Sound
<1>4. End(g) = Len(g)
  <2>1. CASE g = <<>>
    BY <2>1 DEF End
  <2>2. CASE g # <<>>
    <3>1. Len(g) \in 1..Len(r)
      BY <1>1, <1>2, <2>2
    <3>2. g[Len(g)].off = Len(g) - 1 /\ g[Len(g)].size = 1
      BY <1>1, <3>1
    <3> QED BY <1>1, <1>2, <2>2, <3>2 DEF End
  <2> QED BY <2>1, <2>2
<1> QED BY <1>3, <1>4

(* Every offset at the end of a file is sound.                             *)
LEMMA EndSound ==
    ASSUME NEW f \in Seq(Pieces), Placed(f)
    PROVE  Sound(f, End(f))
<1>1. End(f) \in Nat /\ \A i \in 1..Len(f) : f[i].off < End(f)
  BY EndBounds
<1>2. \A i \in 1..Len(f) : f[i].off \in Nat
  <2> SUFFICES ASSUME NEW i \in 1..Len(f) PROVE f[i].off \in Nat
    OBVIOUS
  <2>1. f[i] \in Pieces
    OBVIOUS
  <2> QED BY <2>1 DEF Pieces
<1>3. ASSUME NEW i \in 1..Len(f) PROVE f[i].off # End(f)
  <2>1. f[i].off < End(f) /\ f[i].off \in Nat
    BY <1>1, <1>2
  <2> QED BY <1>1, <2>1
<1> QED BY <1>3 DEF Sound

(* One store moves, and with it perhaps the files and state.json.          *)
LEMMA CInvMoved ==
    ASSUME DInv, CInv, NEW h \in Stores, NEW n \in Memory, hs' = [hs EXCEPT ![h] = n],
           scene' = scene, old' => scene.old,
           Good => /\ \A s \in Shards : Held(file'[s], state'.index[s], old')
                   /\ Phase(Shards, n, file', old') /\ Offsets(n, file')
                   /\ Pending(Shards, n, file', old')
                   /\ \A k \in Stores : k # h => /\ Phase(Shards, hs[k], file', old')
                                                 /\ Offsets(hs[k], file')
                                                 /\ Pending(Shards, hs[k], file', old'),
           Alone => Single(Shards, n, file', state'.index)
    PROVE  CInv'
<1>1. Stores' = Stores /\ Shards' = Shards /\ Alone' = Alone
  BY SameTypes
<1>2. hs'[h] = n /\ \A k \in Stores : k # h => hs'[k] = hs[k]
  BY PlainTypes
<1>3. Good' = Good
  BY <1>1 DEF Good
<1>4. Good => /\ \A s \in Shards : Held(file'[s], state'.index[s], old')
              /\ \A k \in Stores : /\ Phase(Shards, hs'[k], file', old') /\ Offsets(hs'[k], file')
                                   /\ Pending(Shards, hs'[k], file', old')
  BY <1>2
<1>5. Alone => Single(Shards, hs'["worker"], file', state'.index)
  <2> SUFFICES ASSUME Alone PROVE Single(Shards, hs'["worker"], file', state'.index)
    OBVIOUS
  <2>1. h = "worker"
    BY AloneStore DEF DInv
  <2> QED BY <1>2, <2>1
<1> QED BY <1>1, <1>3, <1>4, <1>5 DEF CInv

(* One store moves and nothing else.                                       *)
LEMMA CInvQuiet ==
    ASSUME DInv, CInv, NEW h \in Stores, NEW n \in Memory, hs' = [hs EXCEPT ![h] = n],
           scene' = scene, old' = old, file' = file, state' = state,
           Good => /\ Phase(Shards, n, file, old) /\ Offsets(n, file)
                   /\ Pending(Shards, n, file, old),
           Alone => Single(Shards, n, file, state.index)
    PROVE  CInv'
<1>1. old => scene.old
  BY DEF CInv
<1>2. Good => /\ \A s \in Shards : Held(file[s], state.index[s], old)
              /\ \A k \in Stores : /\ Phase(Shards, hs[k], file, old) /\ Offsets(hs[k], file)
                                   /\ Pending(Shards, hs[k], file, old)
  BY DEF CInv
<1> QED BY <1>1, <1>2, CInvMoved

(* What the invariant says of one store.                                   *)
LEMMA CInvOf ==
    ASSUME DInv, CInv, NEW h \in Stores
    PROVE  /\ Good => /\ \A s \in Shards : Held(file[s], state.index[s], old)
                      /\ Phase(Shards, hs[h], file, old) /\ Offsets(hs[h], file)
                      /\ Pending(Shards, hs[h], file, old)
           /\ Alone => h = "worker" /\ Good /\ Single(Shards, hs[h], file, state.index)
           /\ Good /\ old => Alone
<1>1. Alone => h = "worker"
  BY AloneStore DEF DInv
<1> QED BY <1>1 DEF CInv, Good

(* A store that only waits, and one that has done what it was about to.    *)
LEMMA Calm ==
    ASSUME NEW S, NEW m, NEW n, NEW F, NEW X, Single(S, m, F, X), n.put = m.put,
           n.pc \notin Rewrites, n.pc # "index"
    PROVE  Single(S, n, F, X)
BY DEF Single, Rewrites

(* The same put, the same pending indexes.                                 *)
LEMMA PutSame ==
    ASSUME NEW S, NEW m, NEW n, NEW F, NEW o, Pending(S, m, F, o), n.put = m.put
    PROVE  Pending(S, n, F, o)
BY DEF Pending

(* An append begins.                                                       *)
LEMMA AppendHolds ==
    ASSUME DInv, CInv, NEW h \in Stores, NEW sh \in Shards, NEW cp \in BOOLEAN, appendRecord(h, sh, cp)
    PROVE  CInv'
<1> DEFINE m == hs[h]
<1>1. PICK n \in Memory :
         /\ hs' = [hs EXCEPT ![h] = n] /\ m.pc = "idle" /\ n.pc = "version" /\ n.put = m.put
         /\ \/ n.known = m.known /\ n.upgraded = m.upgraded
            \/ ~n.known /\ ~n.upgraded
  BY AppendMoves DEF SameCount, SameUpgrade
<1>2. scene' = scene /\ old' = old /\ file' = file /\ state' = state
  BY DEF appendRecord
<1>3. ASSUME Good
      PROVE  Phase(Shards, n, file, old) /\ Offsets(n, file) /\ Pending(Shards, n, file, old)
  <2>1. Phase(Shards, m, file, old) /\ Pending(Shards, m, file, old)
    BY <1>3, CInvOf
  <2> HIDE DEF m
  <2>2. Phase(Shards, n, file, old)
    BY <1>1, <2>1 DEF Phase, Rewrites, Late
  <2>3. Offsets(n, file)
    BY <1>1 DEF Offsets
  <2> QED BY <1>1, <2>1, <2>2, <2>3, PutSame
<1>4. ASSUME Alone PROVE Single(Shards, n, file, state.index)
  <2>1. Single(Shards, m, file, state.index)
    BY <1>4, CInvOf
  <2> HIDE DEF m
  <2> QED BY <1>1, <2>1, Calm DEF Rewrites
<1> QED BY <1>1, <1>2, <1>3, <1>4, CInvQuiet

(* The version is found old, is stamped, or was seen before.               *)
LEMMA VersionHolds ==
    ASSUME DInv, CInv, NEW h \in Stores, ensureCurrentVersion(h)
    PROVE  CInv'
<1> DEFINE m == hs[h]
<1>1. PICK n \in Memory :
         /\ hs' = [hs EXCEPT ![h] = n] /\ m.pc = "version" /\ n.upgraded
         /\ n.known = m.known /\ n.put = m.put
         /\ \/ /\ ~m.upgraded /\ old /\ old' = old
               /\ n.pc = "rewrite" /\ n.left = {sh \in Shards : file[sh] # <<>>}
            \/ /\ ~m.upgraded /\ (~old \/ \A sh \in Shards : file[sh] = <<>>)
               /\ n.pc = "meta" /\ old' = FALSE
            \/ m.upgraded /\ n.pc = "meta" /\ old' = old
  BY VersionMoves DEF SameCount
<1>2. scene' = scene /\ file' = file /\ state' = state /\ old \in BOOLEAN
  BY PlainTypes DEF ensureCurrentVersion
<1>o. Offsets(n, file)
  BY <1>1 DEF Offsets
<1>e. \A s \in Shards : file[s] = <<>> => ~HasLine(file[s])
  BY DEF HasLine
<1>p. m.put \in Puts /\ n.put = m.put
  <2>1. m \in Memory
    BY PlainTypes
  <2> HIDE DEF m
  <2> QED BY <1>1, <2>1 DEF Memory
<1>3. CASE ~m.upgraded /\ old /\ old' = old /\ n.pc = "rewrite" /\ n.left = {sh \in Shards : file[sh] # <<>>}
  <2>1. ASSUME Good
        PROVE  Phase(Shards, n, file, old) /\ Pending(Shards, n, file, old)
    <3>1. Phase(Shards, m, file, old) /\ Pending(Shards, m, file, old)
      BY <2>1, CInvOf
    <3> HIDE DEF m
    <3>2. Phase(Shards, n, file, old)
      BY <1>1, <1>3, <3>1 DEF Phase, Rewrites, Late
    <3> QED BY <1>1, <3>1, <3>2, PutSame
  <2>2. ASSUME Alone PROVE Single(Shards, n, file, state.index)
    <3>1. Single(Shards, m, file, state.index)
      BY <2>2, CInvOf
    <3>a. n.put.key = "index" => n.put # NoPut /\ n.put.sh \in Shards
      BY <1>p, PutFacts
    <3> HIDE DEF m
    <3>2. \A s \in Shards : \/ s \in n.left \/ Landing(n, state.index, s) = NoIndex
      <4> SUFFICES ASSUME NEW s \in Shards, s \notin n.left PROVE Landing(n, state.index, s) = NoIndex
        OBVIOUS
      <4>1. ~HasLine(file[s])
        BY <1>3, <1>e
      <4>2. state.index[s] = NoIndex /\ (n.put.key = "index" /\ n.put.sh = s => n.put.val = NoIndex)
        BY <1>1, <3>1, <4>1 DEF Single
      <4> QED BY <4>2 DEF Landing
    <3> QED BY <1>1, <1>3, <3>1, <3>2 DEF Single
  <2> QED BY <1>1, <1>2, <1>3, <1>o, <2>1, <2>2, CInvQuiet
<1>4. CASE ~m.upgraded /\ old /\ (\A sh \in Shards : file[sh] = <<>>) /\ n.pc = "meta" /\ old' = FALSE
  <2>1. ASSUME Good
        PROVE  /\ Alone /\ Single(Shards, m, file, state.index)
               /\ \A s \in Shards : Held(file[s], state.index[s], FALSE)
               /\ Phase(Shards, n, file, FALSE) /\ Pending(Shards, n, file, FALSE)
    <3>1. Alone /\ Single(Shards, m, file, state.index)
      BY <1>4, <2>1, CInvOf
    <3>2. \A s \in Shards : state.index[s] = NoIndex
      BY <1>4, <1>e, <3>1 DEF Single
    <3>a. n.put.key = "index" => n.put # NoPut /\ n.put.sh \in Shards
      BY <1>p, PutFacts
    <3> HIDE DEF m
    <3>3. Phase(Shards, n, file, FALSE)
      BY <1>1, <1>4 DEF Phase, Rewrites, Late
    <3>4. n.put.key = "index" => n.put.val = NoIndex
      BY <1>1, <1>4, <1>e, <3>1, <3>a DEF Single
    <3>5. n.put # NoPut => \A j \in 1 .. Len(n.put.copy) : n.put.copy[j].index = state.index
      BY <1>1, <3>1 DEF Single
    <3>6. Pending(Shards, n, file, FALSE)
      BY <3>2, <3>4, <3>5 DEF Pending, Held
    <3>7. \A s \in Shards : Held(file[s], state.index[s], FALSE)
      BY <3>2 DEF Held
    <3> QED BY <3>1, <3>3, <3>6, <3>7
  <2>2. ASSUME Alone PROVE Single(Shards, n, file, state.index)
    <3>1. Good
      BY <2>2 DEF Good
    <3>2. Single(Shards, m, file, state.index)
      BY <2>1, <3>1
    <3> HIDE DEF m
    <3> QED BY <1>1, <1>4, <3>2, Calm DEF Rewrites
  <2>3. \A k \in Stores : Alone => k = h
    BY AloneStore DEF DInv
  <2> QED BY <1>1, <1>2, <1>4, <1>o, <2>1, <2>2, <2>3, CInvMoved
<1>5. CASE n.pc = "meta" /\ old' = old /\ (m.upgraded \/ ~old)
  <2>1. ASSUME Good
        PROVE  Phase(Shards, n, file, old) /\ Pending(Shards, n, file, old)
    <3>1. Phase(Shards, m, file, old) /\ Pending(Shards, m, file, old)
      BY <2>1, CInvOf
    <3> HIDE DEF m
    <3>2. Phase(Shards, n, file, old)
      BY <1>1, <1>5, <3>1 DEF Phase, Rewrites, Late
    <3> QED BY <1>1, <3>1, <3>2, PutSame
  <2>2. ASSUME Alone PROVE Single(Shards, n, file, state.index)
    <3>1. Single(Shards, m, file, state.index)
      BY <2>2, CInvOf
    <3> HIDE DEF m
    <3> QED BY <1>1, <1>5, <3>1, Calm DEF Rewrites
  <2> QED BY <1>1, <1>2, <1>5, <1>o, <2>1, <2>2, CInvQuiet
<1> QED BY <1>1, <1>2, <1>3, <1>4, <1>5

(* A shard of an old log is read.                                          *)
LEMMA ReadsHolds ==
    ASSUME DInv, CInv, NEW h \in Stores, NEW sh \in Shards, rewriteShardReads(h, sh)
    PROVE  CInv'
<1> DEFINE m == hs[h]
<1>1. PICK n \in Memory :
         /\ hs' = [hs EXCEPT ![h] = n] /\ m.pc = "rewrite" /\ sh \in m.left
         /\ n.upgraded = m.upgraded /\ n.left = m.left /\ n.known = m.known /\ n.put = m.put
         /\ \/ n.pc = "idle" /\ Corrupt(file[sh])
            \/ n.pc = "rename" /\ ~Corrupt(file[sh]) /\ n.sh = sh /\ n.snap = parseLogLines(file[sh])
  BY ReadsMoves DEF SameCount
<1>2. scene' = scene /\ old' = old /\ file' = file /\ state' = state
  BY DEF rewriteShardReads
<1>3. ASSUME Good
      PROVE  Phase(Shards, n, file, old) /\ Offsets(n, file) /\ Pending(Shards, n, file, old)
  <2>1. Phase(Shards, m, file, old) /\ Pending(Shards, m, file, old)
    BY <1>3, CInvOf
  <2> HIDE DEF m
  <2>2. Phase(Shards, n, file, old)
    BY <1>1, <2>1 DEF Phase, Rewrites, Late
  <2>3. Offsets(n, file)
    BY <1>1 DEF Offsets
  <2> QED BY <1>1, <2>1, <2>2, <2>3, PutSame
<1>4. ASSUME Alone PROVE Single(Shards, n, file, state.index)
  <2>1. Single(Shards, m, file, state.index)
    BY <1>4, CInvOf
  <2> HIDE DEF m
  <2>2. \A s \in Shards : Landing(n, state.index, s) = Landing(m, state.index, s)
    BY <1>1 DEF Landing
  <2>3. \A s \in Shards : \/ s \in n.left \/ Landing(n, state.index, s) = NoIndex
                          \/ Landing(n, state.index, s).off < End(file[s])
    BY <1>1, <2>1, <2>2 DEF Single, Rewrites
  <2> QED BY <1>1, <2>1, <2>3 DEF Single
<1> QED BY <1>1, <1>2, <1>3, <1>4, CInvQuiet

(* The index of a rewritten shard is asked to be put.                      *)
LEMMA RepointsHolds ==
    ASSUME DInv, CInv, NEW h \in Stores, rewriteShardRepoints(h)
    PROVE  CInv'
<1> DEFINE m == hs[h]
           x == Newest(m.snap)
<1>0. m.snap \in Seq(Pieces) /\ m.sh \in Shards /\ x \in Indexes
  BY PlainTypes, NewestType
<1>1. PICK n \in Memory :
         /\ hs' = [hs EXCEPT ![h] = n] /\ m.pc = "repoint" /\ m.put = NoPut
         /\ n.known = m.known /\ n.upgraded = m.upgraded
         /\ n.put = [key |-> "index", sh |-> m.sh, val |-> x, copy |-> <<>>]
         /\ n.left = m.left \ {m.sh}
         /\ ((n.pc = "stamp" /\ n.left = {}) \/ n.pc = "rewrite")
  BY <1>0, RepointsMoves DEF SameCount
<1>2. scene' = scene /\ old' = old /\ file' = file /\ state' = state
  BY DEF rewriteShardRepoints
<1>3. n.put.key = "index" /\ n.put.sh = m.sh /\ n.put.val = x /\ n.put.copy = <<>> /\ Len(n.put.copy) = 0
  BY <1>1
<1>4. Good => old /\ Alone
  <2>1. Good => Phase(Shards, m, file, old)
    BY CInvOf
  <2>2. Good => old
    BY <1>1, <2>1 DEF Phase, Rewrites
  <2> QED BY <2>2, CInvOf
<1>5. Alone => /\ Single(Shards, m, file, state.index) /\ Rewritten(m.snap, file[m.sh])
               /\ Sound(file[m.sh], x.off) /\ (x # NoIndex => x.off < End(file[m.sh]) /\ HasLine(file[m.sh]))
  <2> SUFFICES ASSUME Alone
               PROVE  /\ Single(Shards, m, file, state.index) /\ Rewritten(m.snap, file[m.sh])
                      /\ Sound(file[m.sh], x.off) /\ (x # NoIndex => x.off < End(file[m.sh]) /\ HasLine(file[m.sh]))
    OBVIOUS
  <2>1. Single(Shards, m, file, state.index)
    BY CInvOf
  <2>2. Rewritten(m.snap, file[m.sh])
    BY <1>1, <2>1 DEF Single
  <2>3. End(file[m.sh]) = Len(file[m.sh]) /\ \A y : Sound(file[m.sh], y)
    BY <1>0, <2>2, RewrittenSound
  <2> QED BY <1>0, <2>1, <2>2, <2>3, NewestIsInside
<1>6. ASSUME Good
      PROVE  Phase(Shards, n, file, old) /\ Offsets(n, file) /\ Pending(Shards, n, file, old)
  <2>1. Phase(Shards, m, file, old) /\ old /\ Alone
    BY <1>4, <1>6, CInvOf
  <2>2. Phase(Shards, n, file, old)
    <3> HIDE DEF m
    <3> QED BY <1>1, <2>1 DEF Phase, Rewrites, Late
  <2>3. Offsets(n, file)
    BY <1>1 DEF Offsets
  <2>4. Held(file[m.sh], x, old)
    BY <1>5, <2>1 DEF Held
  <2> HIDE DEF m, x
  <2>5. Pending(Shards, n, file, old)
    BY <1>3, <2>4 DEF Pending
  <2> QED BY <2>2, <2>3, <2>5
<1>7. ASSUME Alone PROVE Single(Shards, n, file, state.index)
  <2>1. m.put.key # "index"
    BY <1>1 DEF NoPut
  <2>2. Single(Shards, m, file, state.index)
    BY <1>5, <1>7
  <2>3. x # NoIndex => x.off < End(file[m.sh]) /\ HasLine(file[m.sh])
    BY <1>5, <1>7
  <2> HIDE DEF m, x
  <2>4. \A s \in Shards : \/ s \in n.left \/ Landing(n, state.index, s) = NoIndex
                          \/ Landing(n, state.index, s).off < End(file[s])
    <3> SUFFICES ASSUME NEW s \in Shards, s \notin n.left
                 PROVE  \/ Landing(n, state.index, s) = NoIndex
                        \/ Landing(n, state.index, s).off < End(file[s])
      OBVIOUS
    <3>1. CASE s = m.sh
      <4>1. Landing(n, state.index, s) = x
        BY <1>3, <3>1 DEF Landing
      <4> QED BY <2>3, <3>1, <4>1
    <3>2. CASE s # m.sh
      <4>1. Landing(n, state.index, s) = state.index[s] /\ Landing(m, state.index, s) = state.index[s]
        BY <1>3, <2>1, <3>2 DEF Landing
      <4>2. s \notin m.left
        BY <1>1, <3>2
      <4> QED BY <1>1, <2>2, <4>1, <4>2 DEF Single, Rewrites
    <3> QED BY <3>1, <3>2
  <2>5. \A j \in 1 .. Len(n.put.copy) : n.put.copy[j].index = state.index
    BY <1>3
  <2> QED BY <1>1, <1>3, <2>2, <2>3, <2>4, <2>5 DEF Single
<1> QED BY <1>1, <1>2, <1>6, <1>7, CInvQuiet

(* Every shard has been rewritten: the log is current.                     *)
LEMMA StampHolds ==
    ASSUME DInv, CInv, NEW h \in Stores, stampVersion(h)
    PROVE  CInv'
<1> DEFINE m == hs[h]
<1>1. PICK n \in Memory :
         /\ hs' = [hs EXCEPT ![h] = n] /\ old' = FALSE
         /\ m.pc = "stamp" /\ m.put = NoPut /\ n.pc = "meta"
         /\ n.known = m.known /\ n.upgraded = m.upgraded /\ n.put = m.put
  BY StampMoves DEF SameCount, SameUpgrade
<1>2. scene' = scene /\ file' = file /\ state' = state
  BY DEF stampVersion
<1>3. ASSUME Good
      PROVE  /\ Alone
             /\ \A s \in Shards : Held(file[s], state.index[s], FALSE)
             /\ Phase(Shards, n, file, FALSE) /\ Offsets(n, file) /\ Pending(Shards, n, file, FALSE)
  <2>1. Phase(Shards, m, file, old)
    BY <1>3, CInvOf
  <2>2. old /\ m.upgraded
    BY <1>1, <2>1 DEF Phase, Rewrites
  <2>3. Alone
    BY <1>3, <2>2, CInvOf
  <2>4. Single(Shards, m, file, state.index) /\ \A s \in Shards : Held(file[s], state.index[s], old)
    BY <2>3, CInvOf
  <2>5. m.put.key # "index" /\ n.put.key # "index"
    BY <1>1 DEF NoPut
  <2> HIDE DEF m
  <2>6. \A s \in Shards : Landing(m, state.index, s) = state.index[s]
    BY <2>5 DEF Landing
  <2>7. \A s \in Shards : state.index[s] = NoIndex \/ state.index[s].off < End(file[s])
    BY <1>1, <2>4, <2>6 DEF Single, Rewrites
  <2>8. \A s \in Shards : Held(file[s], state.index[s], FALSE)
    BY <2>4, <2>7 DEF Held
  <2>9. Phase(Shards, n, file, FALSE)
    BY <1>1, <2>2 DEF Phase, Rewrites, Late
  <2>10. Offsets(n, file) /\ Pending(Shards, n, file, FALSE)
    BY <1>1, <2>5 DEF Offsets, Pending
  <2> QED BY <2>3, <2>8, <2>9, <2>10
<1>4. ASSUME Alone PROVE Single(Shards, n, file, state.index)
  <2>1. Single(Shards, m, file, state.index)
    BY <1>4, CInvOf
  <2> HIDE DEF m
  <2> QED BY <1>1, <2>1, Calm DEF Rewrites
<1>5. \A k \in Stores : Alone => k = h
  BY AloneStore DEF DInv
<1> QED BY <1>1, <1>2, <1>3, <1>4, <1>5, CInvMoved

(* The first line of the shard has been seen to.                           *)
LEMMA MetadataHolds ==
    ASSUME DInv, CInv, NEW h \in Stores, ensureMetadata(h)
    PROVE  CInv'
<1> DEFINE m == hs[h]
<1>1. PICK n \in Memory :
         /\ hs' = [hs EXCEPT ![h] = n] /\ m.pc = "meta"
         /\ n.known = m.known /\ n.upgraded = m.upgraded /\ n.put = m.put
         /\ \/ n.pc = "idle"
            \/ n.pc = "seq" /\ (n.meta \/ ~n.cp)
            \/ n.pc = "size"
  BY MetadataMoves DEF SameCount, SameUpgrade
<1>2. scene' = scene /\ old' = old /\ file' = file /\ state' = state
  BY DEF ensureMetadata
<1>3. ASSUME Good
      PROVE  Phase(Shards, n, file, old) /\ Offsets(n, file) /\ Pending(Shards, n, file, old)
  <2>1. Phase(Shards, m, file, old) /\ Pending(Shards, m, file, old)
    BY <1>3, CInvOf
  <2> HIDE DEF m
  <2>2. Phase(Shards, n, file, old)
    BY <1>1, <2>1 DEF Phase, Rewrites, Late
  <2>3. Offsets(n, file)
    BY <1>1 DEF Offsets
  <2> QED BY <1>1, <2>1, <2>2, <2>3, PutSame
<1>4. ASSUME Alone PROVE Single(Shards, n, file, state.index)
  <2>1. Single(Shards, m, file, state.index)
    BY <1>4, CInvOf
  <2> HIDE DEF m
  <2> QED BY <1>1, <2>1, Calm DEF Rewrites
<1> QED BY <1>1, <1>2, <1>3, <1>4, CInvQuiet

(* A checkpoint takes the file's size as its offset.                       *)
LEMMA SizeHolds ==
    ASSUME DInv, CInv, NEW h \in Stores, fileSize(h)
    PROVE  CInv'
<1> DEFINE m == hs[h]
<1>1. PICK n \in Memory :
         /\ hs' = [hs EXCEPT ![h] = n] /\ m.pc = "size" /\ n.pc = "seq"
         /\ n.off = End(file[m.sh]) /\ n.sh = m.sh
         /\ n.known = m.known /\ n.upgraded = m.upgraded /\ n.put = m.put
  BY SizeMoves DEF SameJob, SameCount, SameUpgrade
<1>2. scene' = scene /\ old' = old /\ file' = file /\ state' = state
  BY DEF fileSize
<1>s. End(file[m.sh]) \in Nat /\ Sound(file[m.sh], End(file[m.sh]))
  <2>1. m.sh \in Shards /\ file[m.sh] \in Seq(Pieces) /\ Placed(file[m.sh])
    BY PlainTypes DEF DInv
  <2> QED BY <2>1, EndSound, EndType
<1>3. ASSUME Good
      PROVE  Phase(Shards, n, file, old) /\ Offsets(n, file) /\ Pending(Shards, n, file, old)
  <2>1. Phase(Shards, m, file, old) /\ Pending(Shards, m, file, old)
    BY <1>3, CInvOf
  <2> HIDE DEF m
  <2>2. Phase(Shards, n, file, old)
    BY <1>1, <2>1 DEF Phase, Rewrites, Late
  <2>4. End(file[m.sh]) <= End(file[m.sh])
    <3> DEFINE e == End(file[m.sh])
    <3>1. e \in Nat
      BY <1>s
    <3> HIDE DEF e
    <3>2. e <= e
      BY <3>1
    <3> QED BY <3>2 DEF e
  <2>3. Offsets(n, file)
    BY <1>1, <1>s, <2>4 DEF Offsets
  <2> QED BY <1>1, <2>1, <2>2, <2>3, PutSame
<1>4. ASSUME Alone PROVE Single(Shards, n, file, state.index)
  <2>1. Single(Shards, m, file, state.index)
    BY <1>4, CInvOf
  <2> HIDE DEF m
  <2> QED BY <1>1, <2>1, Calm DEF Rewrites
<1> QED BY <1>1, <1>2, <1>3, <1>4, CInvQuiet

(* A sequence is drawn, or the log cannot be read.                         *)
LEMMA NextHolds ==
    ASSUME DInv, CInv, NEW h \in Stores, nextSequence(h)
    PROVE  CInv'
<1> DEFINE m == hs[h]
<1>0. PICK n \in Memory :
         /\ hs' = [hs EXCEPT ![h] = n]
         /\ m.pc = "seq" /\ n.meta = m.meta /\ n.off = m.off
         /\ SameJob(m, n) /\ SameUpgrade(m, n) /\ n.put = m.put
         /\ \/ n.pc = "idle" /\ SameCount(m, n)
            \/ /\ n.pc = "write" /\ n.known /\ n.seq = n.last
               /\ \/ m.known /\ n.seq = m.last + 1
                  \/ /\ n.seq = Maximum({LastLine(file[sh]) : sh \in Shards}) + 1
                     /\ \A sh \in Shards : ~Corrupt(file[sh])
  BY NextMoves
<1>1. /\ hs' = [hs EXCEPT ![h] = n] /\ m.pc = "seq"
      /\ n.meta = m.meta /\ n.off = m.off /\ n.sh = m.sh /\ n.cp = m.cp
      /\ n.upgraded = m.upgraded /\ n.put = m.put
      /\ \/ n.pc = "idle" /\ n.known = m.known
         \/ n.pc = "write" /\ n.known /\ (m.known \/ \A sh \in Shards : ~Corrupt(file[sh]))
  <2> HIDE DEF m
  <2> QED BY <1>0 DEF SameJob, SameCount, SameUpgrade
<1>2. scene' = scene /\ old' = old /\ file' = file /\ state' = state
  BY DEF nextSequence
<1>3. ASSUME Good
      PROVE  Phase(Shards, n, file, old) /\ Offsets(n, file) /\ Pending(Shards, n, file, old)
  <2>1. Phase(Shards, m, file, old) /\ Offsets(m, file) /\ Pending(Shards, m, file, old)
    BY <1>3, CInvOf
  <2> HIDE DEF m
  <2>2. Phase(Shards, n, file, old)
    <3>1. m.upgraded /\ (m.known => ~old) /\ (old => \E s \in Shards : Corrupt(file[s]))
      BY <1>1, <2>1 DEF Phase, Rewrites, Late
    <3>2. CASE n.pc = "idle" /\ n.known = m.known
      BY <1>1, <2>1, <3>1, <3>2 DEF Phase, Rewrites, Late
    <3>3. CASE n.pc = "write" /\ n.known /\ (m.known \/ \A sh \in Shards : ~Corrupt(file[sh]))
      <4>1. ~old
        BY <3>1, <3>3
      <4> QED BY <1>1, <3>1, <3>3, <4>1 DEF Phase, Rewrites, Late
    <3> QED BY <1>1, <3>2, <3>3
  <2>3. Offsets(n, file)
    BY <1>1, <2>1 DEF Offsets
  <2> QED BY <1>1, <2>1, <2>2, <2>3, PutSame
<1>4. ASSUME Alone PROVE Single(Shards, n, file, state.index)
  <2>1. Single(Shards, m, file, state.index)
    BY <1>4, CInvOf
  <2> HIDE DEF m
  <2> QED BY <1>1, <2>1, Calm DEF Rewrites
<1> QED BY <1>1, <1>2, <1>3, <1>4, CInvQuiet

(* The index of the checkpoint is asked to be put.                         *)
LEMMA IndexHolds ==
    ASSUME DInv, CInv, NEW h \in Stores, indexCheckpoint(h)
    PROVE  CInv'
<1> DEFINE m == hs[h]
<1>1. PICK n \in Memory : \E x \in Indexes :
         /\ hs' = [hs EXCEPT ![h] = n] /\ m.pc = "index" /\ n.pc = "indexed" /\ m.put = NoPut
         /\ x.off = m.off
         /\ n.put = [key |-> "index", sh |-> m.sh, val |-> x, copy |-> <<>>]
         /\ n.known = m.known /\ n.upgraded = m.upgraded
  BY IndexMoves DEF SameCount, SameUpgrade
<1>x. PICK x \in Indexes :
         /\ x.off = m.off /\ n.put = [key |-> "index", sh |-> m.sh, val |-> x, copy |-> <<>>]
  BY <1>1
<1>2. scene' = scene /\ old' = old /\ file' = file /\ state' = state
  BY DEF indexCheckpoint
<1>p. n.put.key = "index" /\ n.put.sh = m.sh /\ n.put.val = x /\ n.put.copy = <<>> /\ Len(n.put.copy) = 0
  BY <1>x
<1>3. ASSUME Good
      PROVE  Phase(Shards, n, file, old) /\ Offsets(n, file) /\ Pending(Shards, n, file, old)
  <2>1. Phase(Shards, m, file, old) /\ Offsets(m, file)
    BY <1>3, CInvOf
  <2> HIDE DEF m
  <2>2. Phase(Shards, n, file, old)
    BY <1>1, <2>1 DEF Phase, Rewrites, Late
  <2>3. Offsets(n, file)
    BY <1>1 DEF Offsets
  <2>4. Held(file[m.sh], x, old)
    BY <1>1, <1>x, <2>1 DEF Offsets, Held
  <2>5. Pending(Shards, n, file, old)
    BY <1>p, <2>4 DEF Pending
  <2> QED BY <2>2, <2>3, <2>5
<1>4. ASSUME Alone PROVE Single(Shards, n, file, state.index)
  <2>1. Single(Shards, m, file, state.index)
    BY <1>4, CInvOf
  <2> HIDE DEF m
  <2>2. HasLine(file[m.sh])
    BY <1>1, <2>1 DEF Single
  <2>3. \A j \in 1 .. Len(n.put.copy) : n.put.copy[j].index = state.index
    BY <1>p
  <2> QED BY <1>1, <1>p, <2>1, <2>2, <2>3 DEF Single, Rewrites
<1> QED BY <1>1, <1>2, <1>3, <1>4, CInvQuiet

(* The append of a checkpoint is acknowledged.                             *)
LEMMA CheckpointHolds ==
    ASSUME DInv, CInv, NEW h \in Stores, checkpointAppended(h)
    PROVE  CInv'
<1> DEFINE m == hs[h]
<1>1. PICK n \in Memory :
         /\ hs' = [hs EXCEPT ![h] = n] /\ m.pc = "indexed" /\ n.pc = "idle" /\ n.put = m.put
         /\ n.known = m.known /\ n.upgraded = m.upgraded
  BY CheckpointMoves DEF SameCount, SameUpgrade
<1>2. scene' = scene /\ old' = old /\ file' = file /\ state' = state
  BY DEF checkpointAppended
<1>3. ASSUME Good
      PROVE  Phase(Shards, n, file, old) /\ Offsets(n, file) /\ Pending(Shards, n, file, old)
  <2>1. Phase(Shards, m, file, old) /\ Pending(Shards, m, file, old)
    BY <1>3, CInvOf
  <2> HIDE DEF m
  <2>2. Phase(Shards, n, file, old)
    BY <1>1, <2>1 DEF Phase, Rewrites, Late
  <2>3. Offsets(n, file)
    BY <1>1 DEF Offsets
  <2> QED BY <1>1, <2>1, <2>2, <2>3, PutSame
<1>4. ASSUME Alone PROVE Single(Shards, n, file, state.index)
  <2>1. Single(Shards, m, file, state.index)
    BY <1>4, CInvOf
  <2> HIDE DEF m
  <2> QED BY <1>1, <2>1, Calm DEF Rewrites
<1> QED BY <1>1, <1>2, <1>3, <1>4, CInvQuiet

(* A store that only takes up or drops a put is at the same place.         *)
LEMMA PutOnly ==
    ASSUME NEW S, NEW m, NEW n, NEW F, NEW o, Phase(S, m, F, o), Offsets(m, F),
           n.pc = m.pc, n.known = m.known, n.upgraded = m.upgraded, n.cp = m.cp, n.sh = m.sh,
           n.meta = m.meta, n.off = m.off
    PROVE  Phase(S, n, F, o) /\ Offsets(n, F)
<1>1. Phase(S, n, F, o)
  BY DEF Phase
<1>2. Offsets(n, F)
  BY DEF Offsets
<1> QED BY <1>1, <1>2

(* state.json is read.                                                     *)
LEMMA PutReadHolds ==
    ASSUME DInv, CInv, NEW h \in Stores, putStateReads(h)
    PROVE  CInv'
<1> DEFINE m == hs[h]
<1>1. PICK n \in Memory :
         /\ hs' = [hs EXCEPT ![h] = n]
         /\ n.pc = m.pc /\ n.meta = m.meta /\ n.off = m.off /\ n.sh = m.sh /\ n.cp = m.cp
         /\ n.known = m.known /\ n.upgraded = m.upgraded /\ n.left = m.left /\ n.snap = m.snap
         /\ m.put # NoPut /\ n.put # NoPut
         /\ n.put.key = m.put.key /\ n.put.sh = m.put.sh /\ n.put.val = m.put.val
         /\ n.put.copy = <<state>>
  BY PutReadMoves DEF SameJob, SameCount, SameUpgrade
<1>2. scene' = scene /\ old' = old /\ file' = file /\ state' = state
  BY DEF putStateReads
<1>c. \A j \in 1..Len(n.put.copy) : n.put.copy[j] = state
  <2>1. Len(<<state>>) = 1 /\ <<state>>[1] = state
    OBVIOUS
  <2> QED BY <1>1, <2>1
<1>3. ASSUME Good
      PROVE  Phase(Shards, n, file, old) /\ Offsets(n, file) /\ Pending(Shards, n, file, old)
  <2>1. /\ Phase(Shards, m, file, old) /\ Offsets(m, file) /\ Pending(Shards, m, file, old)
        /\ \A s \in Shards : Held(file[s], state.index[s], old)
    BY <1>3, CInvOf
  <2> HIDE DEF m
  <2>2. Phase(Shards, n, file, old) /\ Offsets(n, file)
    BY <1>1, <2>1, PutOnly
  <2>3. Pending(Shards, n, file, old)
    BY <1>1, <1>c, <2>1 DEF Pending
  <2> QED BY <2>2, <2>3
<1>4. ASSUME Alone PROVE Single(Shards, n, file, state.index)
  <2>1. Single(Shards, m, file, state.index)
    BY <1>4, CInvOf
  <2> HIDE DEF m
  <2>2. \A s \in Shards : Landing(n, state.index, s) = Landing(m, state.index, s)
    BY <1>1 DEF Landing
  <2>3. n.pc \in Rewrites =>
          \A s \in Shards : \/ s \in n.left \/ Landing(n, state.index, s) = NoIndex
                            \/ Landing(n, state.index, s).off < End(file[s])
    BY <1>1, <2>1, <2>2 DEF Single
  <2>4. \A j \in 1..Len(n.put.copy) : n.put.copy[j].index = state.index
    BY <1>c
  <2> QED BY <1>1, <2>1, <2>3, <2>4 DEF Single
<1> QED BY <1>1, <1>2, <1>3, <1>4, CInvQuiet

(* state.json is replaced.                                                 *)
LEMMA PutWriteHolds ==
    ASSUME DInv, CInv, NEW h \in Stores, putStateWrites(h)
    PROVE  CInv'
<1> DEFINE m == hs[h]
           p == m.put
<1>1. PICK n \in Memory :
         /\ hs' = [hs EXCEPT ![h] = n]
         /\ n.pc = m.pc /\ n.meta = m.meta /\ n.off = m.off /\ n.sh = m.sh /\ n.cp = m.cp
         /\ n.known = m.known /\ n.upgraded = m.upgraded /\ n.left = m.left /\ n.snap = m.snap
         /\ p # NoPut /\ n.put = NoPut
         /\ p.copy \in Seq(Contents) /\ Len(p.copy) = 1
         /\ p.key = "index" => /\ state'.index[p.sh] = p.val
                               /\ \A sh \in Shards : sh # p.sh => state'.index[sh] = p.copy[1].index[sh]
         /\ p.key # "index" => state'.index = p.copy[1].index
  BY PutWriteMoves DEF SameJob, SameCount, SameUpgrade
<1>2. scene' = scene /\ old' = old /\ file' = file
  BY DEF putStateWrites
<1>t. n.put.key # "index" /\ 1 \in 1..Len(p.copy)
  BY <1>1 DEF NoPut
<1>3. ASSUME Good
      PROVE  /\ \A s \in Shards : Held(file[s], state'.index[s], old)
             /\ Phase(Shards, n, file, old) /\ Offsets(n, file) /\ Pending(Shards, n, file, old)
             /\ \A k \in Stores : /\ Phase(Shards, hs[k], file, old) /\ Offsets(hs[k], file)
                                  /\ Pending(Shards, hs[k], file, old)
  <2>0. \A k \in Stores : /\ Phase(Shards, hs[k], file, old) /\ Offsets(hs[k], file)
                          /\ Pending(Shards, hs[k], file, old)
    BY <1>3 DEF CInv
  <2>1. Phase(Shards, m, file, old) /\ Offsets(m, file) /\ Pending(Shards, m, file, old)
    BY <2>0
  <2>2. Phase(Shards, n, file, old) /\ Offsets(n, file)
    <3> HIDE DEF m
    <3> QED BY <1>1, <2>1, PutOnly
  <2>3. Pending(Shards, n, file, old)
    BY <1>1, <1>t DEF Pending
  <2>4. /\ p.key = "index" => Held(file[p.sh], p.val, old)
        /\ \A s \in Shards : Held(file[s], p.copy[1].index[s], old)
    BY <1>1, <1>t, <2>1 DEF Pending
  <2> HIDE DEF m, p
  <2>5. \A s \in Shards : Held(file[s], state'.index[s], old)
    <3>1. CASE p.key = "index"
      BY <1>1, <2>4, <3>1
    <3>2. CASE p.key # "index"
      BY <1>1, <2>4, <3>2
    <3> QED BY <3>1, <3>2
  <2> QED BY <2>0, <2>2, <2>3, <2>5
<1>4. ASSUME Alone PROVE Single(Shards, n, file, state'.index)
  <2>1. Single(Shards, m, file, state.index)
    BY <1>4, CInvOf
  <2>2. p.copy[1].index = state.index
    BY <1>1, <1>t, <2>1 DEF Single
  <2>3. \A s \in Shards : Landing(m, state.index, s) = state'.index[s] /\ Landing(n, state'.index, s) = state'.index[s]
    BY <1>1, <1>t, <2>2 DEF Landing
  <2>4. \A s \in Shards : state'.index[s] # NoIndex => HasLine(file[s])
    BY <1>1, <2>1, <2>2 DEF Single
  <2> HIDE DEF m
  <2>5. n.pc \in Rewrites =>
          \A s \in Shards : \/ s \in n.left \/ Landing(n, state'.index, s) = NoIndex
                            \/ Landing(n, state'.index, s).off < End(file[s])
    BY <1>1, <2>1, <2>3 DEF Single
  <2> QED BY <1>1, <1>t, <2>1, <2>4, <2>5 DEF Single
<1>5. old => scene.old
  BY DEF CInv
<1> QED BY <1>1, <1>2, <1>3, <1>4, <1>5, CInvMoved

(* The cursor, or the title, is asked to be put.                           *)
LEMMA OtherPutHolds ==
    ASSUME DInv, CInv, NEW h \in Stores, NEW n \in Memory, hs' = [hs EXCEPT ![h] = n],
           hs[h].pc = "idle", n.pc = "idle", n.known = hs[h].known, n.upgraded = hs[h].upgraded,
           n.put.key # "index", n.put.copy = <<>>,
           scene' = scene, old' = old, file' = file, state' = state
    PROVE  CInv'
<1> DEFINE m == hs[h]
<1>3. ASSUME Good
      PROVE  Phase(Shards, n, file, old) /\ Offsets(n, file) /\ Pending(Shards, n, file, old)
  <2>1. Phase(Shards, m, file, old)
    BY <1>3, CInvOf
  <2> HIDE DEF m
  <2>0. m.pc = "idle" /\ n.known = m.known /\ n.upgraded = m.upgraded
    BY DEF m
  <2>2. Phase(Shards, n, file, old)
    BY <2>0, <2>1 DEF Phase, Rewrites, Late
  <2>3. Offsets(n, file)
    BY DEF Offsets
  <2>4. Pending(Shards, n, file, old)
    BY DEF Pending
  <2> QED BY <2>2, <2>3, <2>4
<1>4. ASSUME Alone PROVE Single(Shards, n, file, state.index)
  <2>1. Single(Shards, m, file, state.index)
    BY <1>4, CInvOf
  <2>2. \A j \in 1..Len(n.put.copy) : n.put.copy[j].index = state.index
    OBVIOUS
  <2> HIDE DEF m
  <2> QED BY <2>1, <2>2 DEF Single, Rewrites
<1> QED BY <1>3, <1>4, CInvQuiet

(* The lines of a shard are renamed into place.                            *)
LEMMA RenamesHolds ==
    ASSUME DInv, CInv, NEW h \in Stores, rewriteShardRenames(h)
    PROVE  CInv'
<1> DEFINE m == hs[h]
           sh == m.sh
<1>1. PICK n \in Memory :
         /\ hs' = [hs EXCEPT ![h] = n]
         /\ m.pc = "rename" /\ n.pc = "repoint"
         /\ SameJob(m, n) /\ SameCount(m, n) /\ SameUpgrade(m, n) /\ n.put = m.put
         /\ sh \in Shards
         /\ file' \in [Shards -> Seq(Pieces)] /\ Rewritten(m.snap, file'[sh])
         /\ \A s \in Shards : s # sh => file'[s] = file[s]
  BY RenamesMoves
<1>2. scene' = scene /\ old' = old /\ state' = state
  BY DEF rewriteShardRenames
<1>3. m.snap \in Seq(Pieces) /\ file \in [Shards -> Seq(Pieces)] /\ state \in Contents
      /\ (m.put # NoPut => m.put.sh \in Shards) /\ (m.put.key = "index" => m.put # NoPut)
  <2>1. m \in Memory /\ m.snap \in Seq(Pieces) /\ file \in [Shards -> Seq(Pieces)] /\ state \in Contents
    BY PlainTypes
  <2>2. m.put \in Puts
    <3> HIDE DEF m
    <3> QED BY <2>1 DEF Memory
  <2> HIDE DEF m
  <2> QED BY <2>1, <2>2, PutFacts
<1>4. \A x : Sound(file'[sh], x)
  BY <1>1, <1>3, RewrittenSound
<1>5. ASSUME Good
      PROVE  old /\ Alone /\ Phase(Shards, m, file, old) /\ Pending(Shards, m, file, old)
             /\ \A s \in Shards : Held(file[s], state.index[s], old)
  <2>1. Phase(Shards, m, file, old)
    BY <1>5, CInvOf
  <2>2. old
    BY <1>1, <2>1 DEF Phase, Rewrites
  <2> QED BY <1>5, <2>2, CInvOf
<1>6. ASSUME Alone
      PROVE  /\ Single(Shards, m, file, state.index)
             /\ m.snap = parseLogLines(file[sh]) /\ ~Corrupt(file[sh]) /\ sh \in m.left
             /\ \A s \in Shards : HasLine(file[s]) => HasLine(file'[s])
  <2>1. Single(Shards, m, file, state.index)
    BY <1>6, CInvOf
  <2>2. m.snap = parseLogLines(file[sh]) /\ ~Corrupt(file[sh]) /\ sh \in m.left
    BY <1>1, <2>1 DEF Single
  <2>3. HasLine(file[sh]) => HasLine(file'[sh])
    <3>1. file[sh] \in Seq(Pieces) /\ Rewritten(parseLogLines(file[sh]), file'[sh])
      BY <1>1, <1>3, <2>2
    <3> QED BY <2>2, <3>1, RewrittenText
  <2> QED BY <1>1, <2>1, <2>2, <2>3
<1>7. ASSUME old, NEW s \in Shards, NEW x, Held(file[s], x, old) PROVE Held(file'[s], x, old)
  <2>1. CASE s = sh
    BY <1>4, <1>7, <2>1 DEF Held
  <2>2. CASE s # sh
    BY <1>1, <1>7, <2>2
  <2> QED BY <2>1, <2>2
<1>8. ASSUME Good
      PROVE  /\ \A s \in Shards : Held(file'[s], state.index[s], old)
             /\ Phase(Shards, n, file', old) /\ Offsets(n, file') /\ Pending(Shards, n, file', old)
             /\ Alone
  <2>1. \A s \in Shards : Held(file'[s], state.index[s], old)
    BY <1>5, <1>7, <1>8
  <2>2. /\ old /\ Alone /\ Phase(Shards, m, file, old) /\ Pending(Shards, m, file, old)
    BY <1>5, <1>8
  <2> HIDE DEF m, sh
  <2>3. Phase(Shards, n, file', old)
    BY <1>1, <2>2 DEF Phase, Rewrites, Late, SameCount, SameUpgrade
  <2>4. Offsets(n, file')
    BY <1>1 DEF Offsets
  <2>5. /\ n.put.key = "index" => Held(file[n.put.sh], n.put.val, old)
        /\ n.put # NoPut =>
             \A j \in 1 .. Len(n.put.copy) : \A s \in Shards : Held(file[s], n.put.copy[j].index[s], old)
    BY <1>1, <2>2 DEF Pending
  <2>6. n.put.key = "index" => Held(file'[n.put.sh], n.put.val, old)
    BY <1>1, <1>3, <1>7, <2>2, <2>5
  <2>7. n.put # NoPut =>
             \A j \in 1 .. Len(n.put.copy) : \A s \in Shards : Held(file'[s], n.put.copy[j].index[s], old)
    BY <1>7, <2>2, <2>5
  <2>8. Pending(Shards, n, file', old)
    BY <2>6, <2>7 DEF Pending
  <2> QED BY <2>1, <2>2, <2>3, <2>4, <2>8
<1>9. ASSUME Alone PROVE Single(Shards, n, file', state.index)
  <2>1. /\ Single(Shards, m, file, state.index) /\ sh \in m.left
        /\ \A s \in Shards : HasLine(file[s]) => HasLine(file'[s])
    BY <1>6, <1>9
  <2>2. sh = m.sh
    OBVIOUS
  <2> HIDE DEF m, sh
  <2>3. n.left = m.left /\ n.snap = m.snap /\ n.sh = m.sh
    BY <1>1 DEF SameUpgrade, SameJob
  <2>4. \A s \in Shards : \/ s \in n.left \/ Landing(n, state.index, s) = NoIndex
                          \/ Landing(n, state.index, s).off < End(file'[s])
    <3> SUFFICES ASSUME NEW s \in Shards, s \notin n.left
                 PROVE  \/ Landing(n, state.index, s) = NoIndex
                        \/ Landing(n, state.index, s).off < End(file'[s])
      OBVIOUS
    <3>1. s # sh /\ file'[s] = file[s]
      BY <1>1, <2>1, <2>3
    <3>2. Landing(n, state.index, s) = Landing(m, state.index, s)
      BY <1>1 DEF Landing
    <3> QED BY <1>1, <2>1, <2>3, <3>1, <3>2 DEF Single, Rewrites
  <2>5. \A s \in Shards : state.index[s] # NoIndex => HasLine(file'[s])
    BY <2>1 DEF Single
  <2>6. n.put.key = "index" /\ n.put.val # NoIndex => HasLine(file'[n.put.sh])
    BY <1>1, <1>3, <2>1 DEF Single
  <2>7. n.put # NoPut => \A j \in 1 .. Len(n.put.copy) : n.put.copy[j].index = state.index
    BY <1>1, <2>1 DEF Single
  <2> QED BY <1>1, <2>1, <2>2, <2>3, <2>4, <2>5, <2>6, <2>7 DEF Single
<1>10. \A k \in Stores : Alone => k = h
  BY AloneStore DEF DInv
<1>11. old => scene.old
  BY DEF CInv
<1> QED BY <1>1, <1>2, <1>8, <1>9, <1>10, <1>11, CInvMoved

(* What a piece behind a file leaves true of it.                           *)
LEMMA GrowsHolds ==
    ASSUME NEW f \in Seq(Pieces), Placed(f), NEW p \in Pieces, NEW g, g = f \/ Appended(f, p, g)
    PROVE  /\ End(f) \in Nat /\ End(g) \in Nat /\ End(f) <= End(g)
           /\ HasLine(f) => HasLine(g)
           /\ Corrupt(f) => Corrupt(g)
           /\ \A off \in Nat : (p.cp => p.nl) /\ Sound(f, off) => Sound(g, off)
           /\ \A x \in Indexes, o \in BOOLEAN : (o => (p.cp => p.nl)) /\ Held(f, x, o) => Held(g, x, o)
<1>1. CASE Appended(f, p, g)
  <2>1. /\ End(g) \in Nat /\ End(f) \in Nat /\ End(f) < End(g)
        /\ HasLine(f) => HasLine(g)
        /\ Corrupt(f) => Corrupt(g)
        /\ \A off \in Nat : (p.cp => p.nl) /\ Sound(f, off) => Sound(g, off)
    BY <1>1, AppendedText
  <2>2. End(f) <= End(g)
    BY <2>1
  <2>3. \A x \in Indexes, o \in BOOLEAN : (o => (p.cp => p.nl)) /\ Held(f, x, o) => Held(g, x, o)
    BY <1>1, HeldGrows
  <2> QED BY <2>1, <2>2, <2>3
<1>2. CASE g = f
  <2>1. End(f) \in Nat
    BY EndType
  <2>2. \A e \in Nat : e <= e
    OBVIOUS
  <2>3. End(f) <= End(g)
    BY <1>2, <2>1, <2>2
  <2> QED BY <1>2, <2>1, <2>3
<1> QED BY <1>1, <1>2

(* The indexes in state.json and in every store's put are indexes.         *)
LEMMA IndexTypes ==
    ASSUME DInv, NEW h \in Stores
    PROVE  /\ \A s \in Shards : state.index[s] \in Indexes
           /\ hs[h].put.key = "index" =>
                hs[h].put # NoPut /\ hs[h].put.sh \in Shards /\ hs[h].put.val \in Indexes
           /\ hs[h].put # NoPut =>
                \A j \in 1 .. Len(hs[h].put.copy) : \A s \in Shards : hs[h].put.copy[j].index[s] \in Indexes
<1>1. state \in Contents /\ hs[h] \in Memory
  BY PlainTypes
<1>2. \A c \in Contents : \A s \in Shards : c.index[s] \in Indexes
  BY DEF Contents
<1> DEFINE m == hs[h]
<1>3. m.put \in Puts
  <2> HIDE DEF m
  <2>1. m \in Memory
    BY <1>1 DEF m
  <2> QED BY <2>1 DEF Memory
<1> HIDE DEF m
<1>4. /\ m.put # NoPut => m.put.sh \in Shards /\ m.put.copy \in Seq(Contents)
      /\ m.put.key = "index" => m.put # NoPut /\ m.put.val \in Indexes
  BY <1>3, PutFacts
<1>5. m.put # NoPut => \A j \in 1 .. Len(m.put.copy) : m.put.copy[j] \in Contents
  BY <1>4
<1> QED BY <1>1, <1>2, <1>4, <1>5 DEF m

(* A store that does not move, while another appends a complete piece.     *)
LEMMA OthersHold ==
    ASSUME DInv, CInv, Good, NEW k \in Stores, NEW G \in [Shards -> Seq(Pieces)],
           NEW sh \in Shards, NEW p \in Pieces, p.cp => p.nl,
           Appended(file[sh], p, G[sh]), \A s \in Shards : s # sh => G[s] = file[s]
    PROVE  /\ Phase(Shards, hs[k], G, old) /\ Offsets(hs[k], G) /\ Pending(Shards, hs[k], G, old)
           /\ \A s \in Shards : Held(G[s], state.index[s], old)
<1> DEFINE m == hs[k]
<1>0. /\ file \in [Shards -> Seq(Pieces)] /\ \A s \in Shards : Placed(file[s])
      /\ old \in BOOLEAN
  BY PlainTypes DEF DInv
<1>1. /\ \A s \in Shards : /\ End(file[s]) \in Nat /\ End(G[s]) \in Nat /\ End(file[s]) <= End(G[s])
                           /\ Corrupt(file[s]) => Corrupt(G[s])
                           /\ \A off \in Nat : Sound(file[s], off) => Sound(G[s], off)
      /\ \A s \in Shards, x \in Indexes : Held(file[s], x, old) => Held(G[s], x, old)
  <2>1. ASSUME NEW s \in Shards
        PROVE  /\ End(file[s]) \in Nat /\ End(G[s]) \in Nat /\ End(file[s]) <= End(G[s])
               /\ Corrupt(file[s]) => Corrupt(G[s])
               /\ \A off \in Nat : Sound(file[s], off) => Sound(G[s], off)
               /\ \A x \in Indexes : Held(file[s], x, old) => Held(G[s], x, old)
    <3>1. file[s] \in Seq(Pieces) /\ Placed(file[s]) /\ (G[s] = file[s] \/ Appended(file[s], p, G[s]))
      BY <1>0
    <3>2. /\ End(file[s]) \in Nat /\ End(G[s]) \in Nat /\ End(file[s]) <= End(G[s])
          /\ Corrupt(file[s]) => Corrupt(G[s])
          /\ \A off \in Nat : (p.cp => p.nl) /\ Sound(file[s], off) => Sound(G[s], off)
          /\ \A x \in Indexes, o \in BOOLEAN :
                (o => (p.cp => p.nl)) /\ Held(file[s], x, o) => Held(G[s], x, o)
      BY <3>1, GrowsHolds
    <3> QED BY <1>0, <3>2
  <2> QED BY <2>1
<1>2. /\ Phase(Shards, m, file, old) /\ Offsets(m, file) /\ Pending(Shards, m, file, old)
      /\ \A s \in Shards : Held(file[s], state.index[s], old)
  BY CInvOf
<1>3. /\ \A s \in Shards : state.index[s] \in Indexes
      /\ m.put.key = "index" => m.put # NoPut /\ m.put.sh \in Shards /\ m.put.val \in Indexes
      /\ m.put # NoPut =>
           \A j \in 1 .. Len(m.put.copy) : \A s \in Shards : m.put.copy[j].index[s] \in Indexes
  BY IndexTypes
<1>4. m.sh \in Shards /\ m.off \in Nat
  <2>1. m \in Memory
    BY PlainTypes
  <2> HIDE DEF m
  <2> QED BY <2>1 DEF Memory
<1> HIDE DEF m
<1>5. Phase(Shards, m, G, old)
  BY <1>1, <1>2 DEF Phase
<1>6. Offsets(m, G)
  <2>1. m.off <= End(file[m.sh]) => m.off <= End(G[m.sh])
    BY <1>1, <1>4
  <2>2. m.off < End(file[m.sh]) => m.off < End(G[m.sh])
    BY <1>1, <1>4
  <2>3. Sound(file[m.sh], m.off) => Sound(G[m.sh], m.off)
    BY <1>1, <1>4
  <2> QED BY <1>2, <2>1, <2>2, <2>3 DEF Offsets
<1>7. Pending(Shards, m, G, old)
  BY <1>1, <1>2, <1>3 DEF Pending
<1> QED BY <1>1, <1>2, <1>3, <1>5, <1>6, <1>7 DEF m

(* A record is written.                                                    *)
LEMMA StoredHolds ==
    ASSUME DInv, CInv, NEW h \in Stores, appendStored(h)
    PROVE  CInv'
<1> DEFINE m == hs[h]
           sh == m.sh
           p == Written(h)
<1>1. PICK n \in Memory :
         /\ hs' = [hs EXCEPT ![h] = n]
         /\ m.pc = "write" /\ ~n.meta /\ n.off = m.off
         /\ SameJob(m, n) /\ SameCount(m, n) /\ SameUpgrade(m, n) /\ n.put = m.put
         /\ sh \in Shards
         /\ file' \in [Shards -> Seq(Pieces)] /\ Appended(file[sh], p, file'[sh])
         /\ \A s \in Shards : s # sh => file'[s] = file[s]
         /\ \/ m.meta /\ n.pc = "size" /\ n.cp /\ acked' = acked
            \/ m.meta /\ n.pc = "seq" /\ ~n.cp /\ acked' = acked
            \/ ~m.meta /\ n.pc = "index" /\ n.cp /\ acked' = acked
            \/ ~m.meta /\ n.pc = "idle" /\ ~n.cp /\ acked' = acked \cup {m.id}
  BY StoredMoves
<1>2. scene' = scene /\ old' = old /\ state' = state /\ (old => scene.old)
  BY DEF appendStored, CInv
<1>3. p \in Pieces /\ p.nl
  BY WrittenFacts
<1>4. file[sh] \in Seq(Pieces) /\ Placed(file[sh]) /\ m \in Memory
  BY <1>1, PlainTypes DEF DInv
<1>g. PICK g : g = file'
  OBVIOUS
<1>5. ASSUME Good, NEW k \in Stores
      PROVE  /\ Phase(Shards, hs[k], file', old) /\ Offsets(hs[k], file') /\ Pending(Shards, hs[k], file', old)
             /\ \A s \in Shards : Held(file'[s], state.index[s], old)
  <2>1. g \in [Shards -> Seq(Pieces)] /\ Appended(file[sh], p, g[sh]) /\ \A s \in Shards : s # sh => g[s] = file[s]
    BY <1>1, <1>g
  <2>2. p.cp => p.nl
    BY <1>3
  <2>3. /\ Phase(Shards, hs[k], g, old) /\ Offsets(hs[k], g) /\ Pending(Shards, hs[k], g, old)
        /\ \A s \in Shards : Held(g[s], state.index[s], old)
    <3> HIDE DEF m, sh, p
    <3> QED BY <1>1, <1>3, <1>5, <2>1, <2>2, OthersHold
  <2> QED BY <1>g, <2>3
<1>6. /\ End(file[sh]) \in Nat /\ End(file'[sh]) \in Nat /\ End(file[sh]) < End(file'[sh])
      /\ HasLine(file'[sh])
      /\ \A off \in Nat : Sound(file[sh], off) => Sound(file'[sh], off)
  <2>1. /\ End(file'[sh]) \in Nat /\ End(file[sh]) \in Nat /\ End(file[sh]) < End(file'[sh])
        /\ \A off \in Nat : (p.cp => p.nl) /\ Sound(file[sh], off) => Sound(file'[sh], off)
    BY <1>1, <1>3, <1>4, AppendedText
  <2>2. HasLine(file'[sh])
    <3>1. Len(file'[sh]) = Len(file[sh]) + 1 /\ file'[sh][Len(file[sh]) + 1] = p
      BY <1>1 DEF Appended
    <3>2. Len(file[sh]) \in Nat
      BY <1>4
    <3>3. Len(file[sh]) + 1 \in 1..Len(file'[sh])
      BY <3>1, <3>2
    <3> QED BY <1>3, <3>1, <3>3 DEF HasLine
  <2> QED BY <1>3, <2>1, <2>2
<1>7. \A s \in Shards : HasLine(file[s]) => HasLine(file'[s])
  BY <1>1, <1>6
<1>t. /\ m.put.key = "index" => m.put.sh \in Shards
      /\ m.off \in Nat /\ m.cp \in BOOLEAN
  <2>1. m.put.key = "index" => m.put.sh \in Shards
    BY IndexTypes
  <2> HIDE DEF m
  <2> QED BY <1>4, <2>1 DEF Memory
<1>8. ASSUME Good
      PROVE  /\ \A s \in Shards : Held(file'[s], state.index[s], old)
             /\ Phase(Shards, n, file', old) /\ Offsets(n, file') /\ Pending(Shards, n, file', old)
             /\ \A k \in Stores : /\ Phase(Shards, hs[k], file', old) /\ Offsets(hs[k], file')
                                  /\ Pending(Shards, hs[k], file', old)
  <2>1. /\ Phase(Shards, m, file, old) /\ Offsets(m, file)
        /\ Phase(Shards, m, file', old) /\ Offsets(m, file') /\ Pending(Shards, m, file', old)
        /\ \A s \in Shards : Held(file'[s], state.index[s], old)
    BY <1>5, <1>8, CInvOf
  <2>s. sh = m.sh
    OBVIOUS
  <2> HIDE DEF m, sh
  <2>2. Phase(Shards, n, file', old)
    BY <1>1, <2>1 DEF Phase, Rewrites, Late, SameCount, SameUpgrade
  <2>3. Offsets(n, file')
    <3>1. CASE n.pc = "index"
      <4>1. ~m.meta /\ m.cp
        BY <1>1, <3>1 DEF SameJob
      <4>2. m.off <= End(file[sh]) /\ Sound(file[sh], m.off)
        BY <1>1, <2>1, <2>s, <4>1 DEF Offsets
      <4>3. m.off < End(file'[sh]) /\ Sound(file'[sh], m.off)
        BY <1>6, <1>t, <4>2
      <4>4. n.sh = sh /\ n.off = m.off
        BY <1>1, <2>s DEF SameJob
      <4> QED BY <3>1, <4>3, <4>4 DEF Offsets
    <3>2. CASE n.pc # "index"
      <4>1. n.pc \in {"size", "idle"} \/ (n.pc = "seq" /\ ~n.cp)
        BY <1>1, <3>2
      <4> QED BY <4>1 DEF Offsets
    <3> QED BY <3>1, <3>2
  <2>4. Pending(Shards, n, file', old)
    BY <1>1, <2>1, PutSame
  <2> QED BY <1>5, <1>8, <2>1, <2>2, <2>3, <2>4
<1>9. ASSUME Alone PROVE Single(Shards, n, file', state.index)
  <2>1. Single(Shards, m, file, state.index)
    BY <1>9, CInvOf
  <2>s. sh = m.sh
    OBVIOUS
  <2> HIDE DEF m, sh
  <2>2. n.sh = sh /\ n.pc \notin Rewrites
    BY <1>1, <2>s DEF SameJob, Rewrites
  <2>3. \A s \in Shards : state.index[s] # NoIndex => HasLine(file'[s])
    BY <1>7, <2>1 DEF Single
  <2>4. n.put.key = "index" /\ n.put.val # NoIndex => HasLine(file'[n.put.sh])
    BY <1>1, <1>7, <1>t, <2>1 DEF Single
  <2>5. n.put # NoPut => \A j \in 1 .. Len(n.put.copy) : n.put.copy[j].index = state.index
    BY <1>1, <2>1 DEF Single
  <2> QED BY <1>6, <2>2, <2>3, <2>4, <2>5 DEF Single, Rewrites
<1> QED BY <1>1, <1>2, <1>8, <1>9, CInvMoved

(* The process dies.                                                       *)
LEMMA CrashHolds ==
    ASSUME DInv, CInv, crash
    PROVE  CInv'
<1>1. scene' = scene /\ old' = old /\ state' = state /\ (old => scene.old) /\ scene \in Scenes
  BY DEF crash, CInv, DInv
<1>2. Stores' = Stores /\ Shards' = Shards /\ Alone' = Alone /\ Good' = Good /\ "worker" \in Stores
  BY <1>1, SameTypes, SceneFacts DEF Good
<1>3. /\ hs' = [h \in Stores |-> Fresh]
      /\ \/ file' = file
         \/ \E h \in Stores : \E p \in Pieces :
              /\ hs[h].pc = "write" /\ hs[h].sh \in Shards
              /\ ~p.nl /\ p.off = End(file[hs[h].sh]) /\ p.seq = hs[h].seq
              /\ file' \in [Shards -> Seq(Pieces)] /\ Appended(file[hs[h].sh], p, file'[hs[h].sh])
              /\ \A sh \in Shards : sh # hs[h].sh => file'[sh] = file[sh]
  BY CrashMoves
<1>4. /\ file \in [Shards -> Seq(Pieces)] /\ \A s \in Shards : Placed(file[s])
      /\ \A s \in Shards : state.index[s] \in Indexes
      /\ old \in BOOLEAN
  BY <1>2, PlainTypes, IndexTypes DEF DInv
<1>5. Good => \A s \in Shards : Held(file[s], state.index[s], old)
  BY DEF CInv
<1>6. /\ \A s \in Shards : HasLine(file[s]) => HasLine(file'[s])
      /\ Good => \A s \in Shards : Held(file'[s], state.index[s], old)
  <2>1. CASE file' = file
    BY <1>5, <2>1
  <2>2. CASE file' # file
    <3>1. PICK h \in Stores : \E p \in Pieces :
              /\ hs[h].pc = "write"
              /\ file' \in [Shards -> Seq(Pieces)] /\ Appended(file[hs[h].sh], p, file'[hs[h].sh])
              /\ \A sh \in Shards : sh # hs[h].sh => file'[sh] = file[sh]
      BY <1>3, <2>2
    <3>2. PICK p \in Pieces :
              /\ file' \in [Shards -> Seq(Pieces)] /\ Appended(file[hs[h].sh], p, file'[hs[h].sh])
              /\ \A sh \in Shards : sh # hs[h].sh => file'[sh] = file[sh]
      BY <3>1
    <3>3. Good => ~old
      <4>1. Good => Phase(Shards, hs[h], file, old)
        BY CInvOf
      <4> QED BY <3>1, <4>1 DEF Phase
    <3>4. ASSUME NEW s \in Shards
          PROVE  /\ HasLine(file[s]) => HasLine(file'[s])
                 /\ Good => Held(file'[s], state.index[s], old)
      <4>1. file[s] \in Seq(Pieces) /\ Placed(file[s]) /\ (file'[s] = file[s] \/ Appended(file[s], p, file'[s]))
        BY <1>4, <3>2
      <4>2. /\ HasLine(file[s]) => HasLine(file'[s])
            /\ \A x \in Indexes, o \in BOOLEAN :
                 (o => (p.cp => p.nl)) /\ Held(file[s], x, o) => Held(file'[s], x, o)
        BY <4>1, GrowsHolds
      <4>3. Good => Held(file[s], state.index[s], old) /\ state.index[s] \in Indexes
        BY <1>4, <1>5
      <4> QED BY <1>4, <3>3, <4>2, <4>3
    <3> QED BY <3>4
  <2> QED BY <2>1, <2>2
<1>7. /\ Fresh.pc = "idle" /\ Fresh.put = NoPut /\ Fresh.put.key = "none"
      /\ ~Fresh.known /\ ~Fresh.upgraded
  BY DEF Fresh, NoPut
<1>8. \A h \in Stores : hs'[h] = Fresh
  BY <1>3
<1>9. /\ Phase(Shards, Fresh, file', old) /\ Offsets(Fresh, file') /\ Pending(Shards, Fresh, file', old)
  BY <1>7 DEF Phase, Offsets, Pending, Rewrites, Late
<1>10. Alone => Single(Shards, Fresh, file', state.index)
  <2> SUFFICES ASSUME Alone PROVE Single(Shards, Fresh, file', state.index)
    OBVIOUS
  <2>1. Single(Shards, hs["worker"], file, state.index)
    BY DEF CInv
  <2>2. \A s \in Shards : state.index[s] # NoIndex => HasLine(file'[s])
    BY <1>6, <2>1 DEF Single
  <2> QED BY <1>7, <2>2 DEF Single, Rewrites
<1>11. Good' =>
         /\ \A s \in Shards' : Held(file'[s], state'.index[s], old')
         /\ \A h \in Stores' : /\ Phase(Shards', hs'[h], file', old') /\ Offsets(hs'[h], file')
                               /\ Pending(Shards', hs'[h], file', old')
  BY <1>1, <1>2, <1>6, <1>8, <1>9
<1>12. Alone' => Single(Shards', hs'["worker"], file', state'.index)
  BY <1>1, <1>2, <1>8, <1>10
<1> QED BY <1>1, <1>11, <1>12 DEF CInv

(* What an earlier process left: an index points to a complete checkpoint. *)
LEMMA PointedHeld ==
    ASSUME NEW f \in Seq(Pieces), Placed(f), NEW x \in Indexes, x # NoIndex => PointsToCheckpoint(f, x),
           NEW o
    PROVE  Held(f, x, o) /\ (x # NoIndex => HasLine(f))
<1>1. CASE x = NoIndex
  BY <1>1 DEF Held
<1>2. CASE x # NoIndex
  <2>1. PICK i \in 1..Len(f) : f[i].off = x.off /\ f[i].nl
    BY <1>2 DEF PointsToCheckpoint
  <2>2. x.off < End(f)
    BY <2>1, EndBounds
  <2>3. ASSUME NEW j \in 1..Len(f), f[j].off = x.off PROVE j = i
    <3>1. f[i] \in Pieces /\ f[j] \in Pieces
      OBVIOUS
    <3>2. f[i].off \in Nat /\ f[j].off \in Nat /\ f[i].size \in Nat \ {0} /\ f[j].size \in Nat \ {0}
      <4>1. \A q \in Pieces : q.off \in Nat /\ q.size \in Nat \ {0}
        <5> SUFFICES ASSUME NEW q \in Pieces PROVE q.off \in Nat /\ q.size \in Nat \ {0}
          OBVIOUS
        <5>1. q \in PieceTypes
          BY PieceIs
        <5> QED BY <5>1 DEF PieceTypes
      <4> QED BY <3>1, <4>1
    <3>3. ~(i < j) /\ ~(j < i)
      <4>1. i < j => f[i].off + f[i].size <= f[j].off
        BY DEF Placed
      <4>2. j < i => f[j].off + f[j].size <= f[i].off
        BY DEF Placed
      <4> QED BY <2>1, <2>3, <3>2, <4>1, <4>2
    <3> QED BY <3>3
  <2>4. Sound(f, x.off)
    BY <2>1, <2>3 DEF Sound
  <2> QED BY <2>1, <2>2, <2>4 DEF Held, HasLine
<1> QED BY <1>1, <1>2

(* The first state.                                                        *)
LEMMA CInvInit == Init => CInv
<1> SUFFICES ASSUME Init PROVE CInv
  OBVIOUS
<1>1. scene \in Scenes /\ Stores = scene.stores /\ Shards = scene.shards /\ DInv
  BY DInvInit DEF Init, Stores, Shards
<1>2. /\ file = scene.file /\ state.index = scene.index /\ old = scene.old
      /\ hs = [h \in Stores |-> Fresh] /\ "worker" \in Stores
  BY <1>1, SceneFacts DEF Init
<1>3. ASSUME NEW s \in Shards
      PROVE  Held(file[s], state.index[s], old) /\ (state.index[s] # NoIndex => HasLine(file[s]))
  <2>1. /\ file[s] \in Seq(Pieces) /\ Placed(file[s]) /\ state.index[s] \in Indexes
    BY <1>1, <1>2, SceneFacts DEF DInv
  <2>2. state.index[s] # NoIndex => PointsToCheckpoint(file[s], state.index[s])
    BY <1>1, <1>2, ScenesAssumption
  <2> QED BY <2>1, <2>2, PointedHeld
<1>7. /\ Fresh.pc = "idle" /\ Fresh.put = NoPut /\ Fresh.put.key = "none"
      /\ ~Fresh.known /\ ~Fresh.upgraded
  BY DEF Fresh, NoPut
<1>8. \A h \in Stores : hs[h] = Fresh
  BY <1>2
<1>9. /\ Phase(Shards, Fresh, file, old) /\ Offsets(Fresh, file) /\ Pending(Shards, Fresh, file, old)
  BY <1>7 DEF Phase, Offsets, Pending, Rewrites, Late
<1>10. Single(Shards, Fresh, file, state.index)
  BY <1>3, <1>7 DEF Single, Rewrites
<1> QED BY <1>2, <1>3, <1>8, <1>9, <1>10 DEF CInv

(* The invariant is inductive.                                             *)
LEMMA CInvStep ==
    ASSUME DInv, CInv, [Next]_vars
    PROVE  CInv'
<1>1. ASSUME NEW h \in Stores, NEW sh \in Shards, NEW cp \in BOOLEAN, appendRecord(h, sh, cp)
      PROVE  CInv'
  BY <1>1, AppendHolds
<1>2. ASSUME NEW h \in Stores, Proceed(h) PROVE CInv'
  <2>1. CASE ensureCurrentVersion(h)
    BY <2>1, VersionHolds
  <2>2. ASSUME NEW sh \in Shards, rewriteShardReads(h, sh) PROVE CInv'
    BY <2>2, ReadsHolds
  <2>3. CASE rewriteShardRenames(h)
    BY <2>3, RenamesHolds
  <2>4. CASE rewriteShardRepoints(h)
    BY <2>4, RepointsHolds
  <2>5. CASE stampVersion(h)
    BY <2>5, StampHolds
  <2>6. CASE ensureMetadata(h)
    BY <2>6, MetadataHolds
  <2>7. CASE fileSize(h)
    BY <2>7, SizeHolds
  <2>8. CASE nextSequence(h)
    BY <2>8, NextHolds
  <2>9. CASE appendStored(h)
    BY <2>9, StoredHolds
  <2>10. CASE indexCheckpoint(h)
    BY <2>10, IndexHolds
  <2>11. CASE checkpointAppended(h)
    BY <2>11, CheckpointHolds
  <2>12. CASE putStateReads(h)
    BY <2>12, PutReadHolds
  <2>13. CASE putStateWrites(h)
    BY <2>13, PutWriteHolds
  <2> QED BY <1>2, <2>1, <2>2, <2>3, <2>4, <2>5, <2>6, <2>7, <2>8, <2>9, <2>10, <2>11, <2>12, <2>13 DEF Proceed
<1>3. ASSUME NEW h \in Stores, rename(h) PROVE CInv'
  <2>1. PICK n \in Memory :
          /\ hs' = [hs EXCEPT ![h] = n] /\ hs[h].pc = "idle" /\ n.pc = "idle"
          /\ SameCount(hs[h], n) /\ SameUpgrade(hs[h], n)
          /\ n.put.key = "title" /\ n.put.copy = <<>>
    BY <1>3, RenameMoves
  <2>2. n.known = hs[h].known /\ n.upgraded = hs[h].upgraded /\ n.put.key # "index"
    BY <2>1 DEF SameCount, SameUpgrade
  <2>3. scene' = scene /\ old' = old /\ file' = file /\ state' = state
    BY <1>3 DEF rename
  <2> QED BY <2>1, <2>2, <2>3, OtherPutHolds
<1>4. CASE readInbox
  <2>0. "worker" \in Stores
    BY SceneFacts DEF DInv
  <2>1. PICK n \in Memory :
          /\ hs' = [hs EXCEPT !["worker"] = n] /\ hs["worker"].pc = "idle" /\ n.pc = "idle"
          /\ SameCount(hs["worker"], n) /\ SameUpgrade(hs["worker"], n)
          /\ n.put.key = "cursor" /\ n.put.copy = <<>>
    BY <1>4, InboxMoves
  <2>2. n.known = hs["worker"].known /\ n.upgraded = hs["worker"].upgraded /\ n.put.key # "index"
    BY <2>1 DEF SameCount, SameUpgrade
  <2>3. scene' = scene /\ old' = old /\ file' = file /\ state' = state
    BY <1>4 DEF readInbox
  <2> QED BY <2>0, <2>1, <2>2, <2>3, OtherPutHolds
<1>5. CASE crash
  BY <1>5, CrashHolds
<1>6. CASE UNCHANGED vars
  <2>1. scene' = scene /\ file' = file /\ hs' = hs /\ state' = state /\ old' = old
    BY <1>6 DEF vars
  <2>2. Stores' = Stores /\ Shards' = Shards /\ Alone' = Alone /\ Good' = Good
    BY <2>1, SameTypes DEF Good
  <2> QED BY <2>1, <2>2 DEF CInv
<1> QED BY <1>1, <1>2, <1>3, <1>4, <1>5, <1>6 DEF Next

(* The first record of a text that starts with a line is its first piece.  *)
LEMMA FirstParsed ==
    ASSUME NEW t \in Seq(Pieces), t # <<>>, IsLine(t, 1)
    PROVE  parseLogLines(t) # <<>> /\ parseLogLines(t)[1] = t[1]
<1>1. Len(t) \in Nat /\ 1 \in 1..Len(t)
  OBVIOUS
<1>2. 1 \in LinesAt(t)
  BY <1>1 DEF LinesAt
<1>3. {q \in LinesAt(t) : q <= 1} = {1}
  <2>1. \A q \in LinesAt(t) : q \in 1..Len(t)
    BY DEF LinesAt
  <2>2. \A q \in LinesAt(t) : q <= 1 => q = 1
    <3> SUFFICES ASSUME NEW q \in LinesAt(t), q <= 1 PROVE q = 1
      OBVIOUS
    <3>1. q \in 1..Len(t)
      BY <2>1
    <3> QED BY <1>1, <3>1
  <2> QED BY <1>2, <2>2
<1>4. Rank(LinesAt(t), 1) = 1
  BY <1>3, FS_Singleton DEF Rank
<1>5. /\ Rank(LinesAt(t), 1) \in 1..Len(parseLogLines(t))
      /\ parseLogLines(t)[Rank(LinesAt(t), 1)] = t[1]
  <2>1. \A k \in LinesAt(t) : /\ Rank(LinesAt(t), k) \in 1..Len(parseLogLines(t))
                              /\ parseLogLines(t)[Rank(LinesAt(t), k)] = t[k]
    BY Parsed
  <2> QED BY <1>2, <2>1
<1> QED BY <1>4, <1>5

(* What is read from a held index is the end of what is read from a file.  *)
LEMMA HeldReads ==
    ASSUME DInv, NEW sh \in Shards, NEW o, Held(file[sh], state.index[sh], o),
           readFromCheckpoint(sh) # <<>>, ~Corrupt(file[sh]),
           NEW r, r = readFromCheckpoint(sh), NEW all, all = parseLogLines(file[sh])
    PROVE  /\ r[1].cp /\ Len(r) <= Len(all)
           /\ r = SubSeq(all, Len(all) - Len(r) + 1, Len(all))
<1> DEFINE f == file[sh]
           x == state.index[sh]
           texts == {t \in From(f, x.off) :
                       /\ x # NoIndex /\ ~Corrupt(t)
                       /\ IsLine(t, 1) /\ t[1].seq = x.seq /\ t[1].cp}
<1>1. f \in Seq(Pieces)
  BY PlainTypes
<1>2. r = IF texts = {} THEN <<>> ELSE parseLogLines(CHOOSE t \in texts : TRUE)
  BY DEF readFromCheckpoint
<1>3. texts # {}
  BY <1>2
<1>4. PICK t \in texts : r = parseLogLines(t)
  BY <1>2, <1>3
<1>5. x # NoIndex /\ IsLine(t, 1) /\ t[1].cp /\ t \in From(f, x.off)
  OBVIOUS
<1>6. PICK i \in 1..Len(f) : f[i].off = x.off /\ t = SubSeq(f, i, Len(f))
  BY <1>5 DEF From
<1>h. Held(f, x, o) /\ ~Corrupt(f)
  OBVIOUS
<1>r. r # <<>> /\ all = parseLogLines(f)
  OBVIOUS
<1> HIDE DEF f, x, texts
<1>7. t \in Seq(Pieces) /\ Len(t) = Len(f) - i + 1 /\ t[1] = f[i] /\ t # <<>>
  <2>1. Len(f) \in Nat /\ i - 1 \in Nat /\ Len(f) - i + 1 \in Nat /\ (i - 1) + 1 = i
        /\ Len(f) = (i - 1) + (Len(f) - i + 1)
    BY <1>1
  <2>2. /\ SubSeq(f, (i - 1) + 1, Len(f)) \in Seq(Pieces)
        /\ Len(SubSeq(f, (i - 1) + 1, Len(f))) = Len(f) - i + 1
        /\ \A j \in 1..(Len(f) - i + 1) : SubSeq(f, (i - 1) + 1, Len(f))[j] = f[(i - 1) + j]
    BY <1>1, <2>1, Segment
  <2>3. 1 \in 1..(Len(f) - i + 1)
    BY <2>1
  <2>4. t \in Seq(Pieces) /\ Len(t) = Len(f) - i + 1 /\ t[1] = f[(i - 1) + 1]
    BY <1>6, <2>1, <2>2, <2>3
  <2> QED BY <2>1, <2>3, <2>4
<1>8. f[i].nl
  BY <1>5, <1>6, <1>7, <1>h DEF Held, Sound
<1>9. StartsLine(f, i)
  <2>1. CASE i = 1
    BY <2>1 DEF StartsLine
  <2>2. CASE i # 1
    <3>1. i - 1 \in 1..Len(f) /\ i - 1 < i
      BY <1>1, <2>2
    <3>2. f[i - 1].nl
      BY <1>8, <1>h, <3>1 DEF Corrupt
    <3> QED BY <3>2 DEF StartsLine
  <2> QED BY <2>1, <2>2
<1>10. /\ Len(parseLogLines(t)) <= Len(parseLogLines(f))
       /\ parseLogLines(t) =
            SubSeq(parseLogLines(f), Len(parseLogLines(f)) - Len(parseLogLines(t)) + 1, Len(parseLogLines(f)))
  BY <1>1, <1>6, <1>9, SuffixParses
<1>11. r[1].cp
  BY <1>4, <1>5, <1>7, FirstParsed
<1>12. Len(r) <= Len(all) /\ r = SubSeq(all, Len(all) - Len(r) + 1, Len(all))
  BY <1>4, <1>10, <1>r
<1> QED BY <1>11, <1>12

(* A replay from the indexed checkpoint gives what a full read gives from  *)
(* that checkpoint on (disk-store.ts readFromCheckpoint), whatever was     *)
(* left of earlier logs and wherever crashes fall, for one store with any  *)
(* log, and for any number of stores with a log of the current version.    *)
THEOREM CheckpointsHold ==
    Spec => [](Alone \/ ~scene.old => CheckpointReadIsSuffix)
<1>1. DInv /\ CInv => (Alone \/ ~scene.old => CheckpointReadIsSuffix)
  <2> SUFFICES ASSUME DInv, CInv, Good, NEW sh \in Shards,
                      readFromCheckpoint(sh) # <<>>, ~Corrupt(file[sh])
               PROVE  /\ readFromCheckpoint(sh)[1].cp
                      /\ Len(readFromCheckpoint(sh)) <= Len(parseLogLines(file[sh]))
                      /\ readFromCheckpoint(sh)
                           = SubSeq(parseLogLines(file[sh]),
                                    Len(parseLogLines(file[sh])) - Len(readFromCheckpoint(sh)) + 1,
                                    Len(parseLogLines(file[sh])))
    BY DEF CheckpointReadIsSuffix, Good
  <2>1. Held(file[sh], state.index[sh], old)
    BY DEF CInv
  <2> QED BY <2>1, HeldReads
<1>2. Init => DInv /\ CInv
  BY DInvInit, CInvInit
<1>3. DInv /\ CInv /\ [Next]_vars => (DInv /\ CInv)'
  BY DInvStep, CInvStep
<1> QED BY <1>1, <1>2, <1>3, PTL DEF Spec

(* Two shards have no sequence in common: no two of their lines have one.  *)
LEMMA DisjointIs ==
    \A f, g : Disjoint(f, g) <=> \A i \in LinesAt(f), j \in LinesAt(g) : f[i].seq # g[j].seq
BY DEF Disjoint, SeqsOf, Lines

(* The only store moves.                                                   *)
LEMMA LInvMoved ==
    ASSUME DInv, LInv, NEW h \in Stores, NEW n \in Memory, hs' = [hs EXCEPT ![h] = n], scene' = scene,
           Alone => Sequences(Shards, n, file') /\ Kept(Shards, n, file', old', acked')
    PROVE  LInv'
<1>1. Stores' = Stores /\ Shards' = Shards /\ Alone' = Alone
  BY SameTypes
<1>2. hs'[h] = n /\ (Alone => h = "worker")
  BY PlainTypes, AloneStore DEF DInv
<1> QED BY <1>1, <1>2 DEF LInv

(* What the invariant says of the only store.                              *)
LEMMA LInvOf ==
    ASSUME DInv, LInv, Alone, NEW h \in Stores
    PROVE  Sequences(Shards, hs[h], file) /\ Kept(Shards, hs[h], file, old, acked)
<1>1. h = "worker"
  BY AloneStore DEF DInv
<1> QED BY <1>1 DEF LInv

(* A record that stands while the log is old stands in it when it is not.  *)
LEMMA StandsStill ==
    ASSUME NEW S, NEW id, NEW F, NEW o, NEW o2, Stands(S, id, F, o), o2 => o
    PROVE  Stands(S, id, F, o2)
BY DEF Stands

(* A step that leaves the files alone and draws no sequence.               *)
LEMMA LInvQuiet ==
    ASSUME DInv, LInv, NEW h \in Stores, NEW n \in Memory, hs' = [hs EXCEPT ![h] = n],
           scene' = scene, file' = file, old' => old, acked' = acked,
           n.known => hs[h].known /\ n.last = hs[h].last,
           n.pc = "write" => hs[h].pc = "write" /\ n.seq = hs[h].seq /\ n.last = hs[h].last,
           n.pc \in {"index", "indexed"} => hs[h].pc \in {"index", "indexed"} /\ n.id = hs[h].id
    PROVE  LInv'
<1> DEFINE m == hs[h]
<1>1. ASSUME Alone
      PROVE  Sequences(Shards, n, file) /\ Kept(Shards, n, file, old', acked)
  <2>1. Sequences(Shards, m, file) /\ Kept(Shards, m, file, old, acked)
    BY <1>1, LInvOf
  <2>m. /\ n.known => m.known /\ n.last = m.last
        /\ n.pc = "write" => m.pc = "write" /\ n.seq = m.seq /\ n.last = m.last
        /\ n.pc \in {"index", "indexed"} => m.pc \in {"index", "indexed"} /\ n.id = m.id
    OBVIOUS
  <2> HIDE DEF m
  <2>2. Sequences(Shards, n, file)
    BY <2>1, <2>m DEF Sequences
  <2>3. \A id \in acked : Stands(Shards, id, file, old')
    BY <2>1, StandsStill DEF Kept
  <2>4. n.pc \in {"index", "indexed"} => Stands(Shards, n.id, file, old')
    BY <2>1, <2>m, StandsStill DEF Kept
  <2> QED BY <2>2, <2>3, <2>4 DEF Kept
<1> QED BY <1>1, LInvMoved

(* What a piece with a new sequence leaves true of the sequences.          *)
LEMMA GrowsSequences ==
    ASSUME DInv, NEW G \in [Shards -> Seq(Pieces)], NEW sh \in Shards, NEW p \in Pieces,
           Appended(file[sh], p, G[sh]), \A s \in Shards : s # sh => G[s] = file[s],
           \A s \in Shards : Ascends(file[s]),
           \A s, t \in Shards : s # t => Disjoint(file[s], file[t]),
           \A s \in Shards : \A k \in LinesAt(file[s]) : file[s][k].seq < p.seq
    PROVE  /\ \A s \in Shards : Ascends(G[s])
           /\ \A s, t \in Shards : s # t => Disjoint(G[s], G[t])
           /\ \A s \in Shards : \A k \in LinesAt(G[s]) : G[s][k].seq <= p.seq
<1> DEFINE f == file[sh]
           last == Len(f) + 1
<1>0. /\ file \in [Shards -> Seq(Pieces)] /\ Placed(f) /\ f \in Seq(Pieces) /\ Len(f) \in Nat
      /\ \A s \in Shards : file[s] \in Seq(Pieces)
  BY PlainTypes DEF DInv
<1>p. p.seq \in Nat
  <2>1. p \in PieceTypes
    BY PieceIs
  <2> QED BY <2>1 DEF PieceTypes
<1>q. \A s \in Shards : \A k \in LinesAt(file[s]) : k \in 1..Len(file[s]) /\ file[s][k].seq \in Nat
  <2> SUFFICES ASSUME NEW s \in Shards, NEW k \in LinesAt(file[s])
               PROVE  k \in 1..Len(file[s]) /\ file[s][k].seq \in Nat
    OBVIOUS
  <2>1. k \in 1..Len(file[s])
    BY DEF LinesAt
  <2>2. file[s][k] \in Pieces
    BY <1>0, <2>1
  <2>3. file[s][k] \in PieceTypes
    BY <2>2, PieceIs
  <2> QED BY <2>1, <2>3 DEF PieceTypes
<1>1. ASSUME NEW s \in Shards, NEW k \in LinesAt(G[s])
      PROVE  \/ k \in LinesAt(file[s]) /\ G[s][k] = file[s][k]
             \/ s = sh /\ k = last /\ G[s][k] = p
  <2>1. CASE s = sh
    <3>1. k \in LinesAt(f) \/ k = last
      BY <1>0, <1>1, <2>1, AppendedText
    <3>2. G[sh][last] = p /\ \A i \in 1..Len(f) : G[sh][i] = f[i]
      BY DEF Appended
    <3> QED BY <1>q, <2>1, <3>1, <3>2
  <2>2. CASE s # sh
    BY <1>1, <2>2
  <2> QED BY <2>1, <2>2
<1>2. ASSUME NEW s \in Shards PROVE Ascends(G[s])
  <2> SUFFICES ASSUME NEW i \in LinesAt(G[s]), NEW j \in LinesAt(G[s]), i < j
               PROVE  G[s][i].seq < G[s][j].seq
    BY DEF Ascends
  <2>1. CASE j \in LinesAt(file[s]) /\ G[s][j] = file[s][j]
    <3>1. i \in LinesAt(file[s]) /\ G[s][i] = file[s][i]
      <4>1. ~(s = sh /\ i = last)
        BY <1>0, <1>q, <2>1
      <4> QED BY <1>1, <4>1
    <3> QED BY <2>1, <3>1 DEF Ascends
  <2>2. CASE s = sh /\ j = last /\ G[s][j] = p
    <3>1. i \in LinesAt(file[s]) /\ G[s][i] = file[s][i]
      <4>1. i # last
        BY <1>0, <2>2
      <4> QED BY <1>1, <4>1
    <3> QED BY <2>2, <3>1
  <2> QED BY <1>1, <2>1, <2>2
<1>3. ASSUME NEW s \in Shards, NEW t \in Shards, s # t PROVE Disjoint(G[s], G[t])
  <2>0. \A i \in LinesAt(file[s]), j \in LinesAt(file[t]) : file[s][i].seq # file[t][j].seq
    BY <1>3, DisjointIs
  <2> SUFFICES ASSUME NEW i \in LinesAt(G[s]), NEW j \in LinesAt(G[t])
               PROVE  G[s][i].seq # G[t][j].seq
    BY DisjointIs
  <2>1. CASE i \in LinesAt(file[s]) /\ G[s][i] = file[s][i] /\ j \in LinesAt(file[t]) /\ G[t][j] = file[t][j]
    BY <2>0, <2>1
  <2>2. CASE s = sh /\ G[s][i] = p
    <3>1. j \in LinesAt(file[t]) /\ G[t][j] = file[t][j]
      BY <1>1, <1>3, <2>2
    <3>2. file[t][j].seq < p.seq /\ file[t][j].seq \in Nat
      BY <1>q, <3>1
    <3> QED BY <1>p, <2>2, <3>1, <3>2
  <2>3. CASE t = sh /\ G[t][j] = p
    <3>1. i \in LinesAt(file[s]) /\ G[s][i] = file[s][i]
      BY <1>1, <1>3, <2>3
    <3>2. file[s][i].seq < p.seq /\ file[s][i].seq \in Nat
      BY <1>q, <3>1
    <3> QED BY <1>p, <2>3, <3>1, <3>2
  <2> QED BY <1>1, <2>1, <2>2, <2>3
<1>4. ASSUME NEW s \in Shards, NEW k \in LinesAt(G[s]) PROVE G[s][k].seq <= p.seq
  <2>1. CASE k \in LinesAt(file[s]) /\ G[s][k] = file[s][k]
    <3>1. file[s][k].seq < p.seq /\ file[s][k].seq \in Nat
      BY <1>q, <2>1
    <3> QED BY <1>p, <2>1, <3>1
  <2>2. CASE G[s][k] = p
    BY <1>p, <2>2
  <2> QED BY <1>1, <2>1, <2>2
<1> QED BY <1>2, <1>3, <1>4

(* What stands, stands when a file has grown.                              *)
LEMMA GrowsStands ==
    ASSUME DInv, NEW G \in [Shards -> Seq(Pieces)], NEW sh \in Shards, NEW p \in Pieces,
           Appended(file[sh], p, G[sh]), \A s \in Shards : s # sh => G[s] = file[s]
    PROVE  /\ \A id : Stands(Shards, id, file, FALSE) => Stands(Shards, id, G, FALSE)
           /\ Stands(Shards, p.id, G, FALSE)
<1>0. /\ file[sh] \in Seq(Pieces) /\ Len(file[sh]) \in Nat
  BY PlainTypes
<1>1. Len(G[sh]) = Len(file[sh]) + 1 /\ G[sh][Len(file[sh]) + 1] = p
      /\ \A i \in 1..Len(file[sh]) : G[sh][i] = file[sh][i]
  BY DEF Appended
<1>2. Stands(Shards, p.id, G, FALSE)
  <2>1. Len(file[sh]) + 1 \in 1..Len(G[sh])
    BY <1>0, <1>1
  <2> QED BY <1>1, <2>1 DEF Stands
<1>3. ASSUME NEW id, Stands(Shards, id, file, FALSE) PROVE Stands(Shards, id, G, FALSE)
  <2>0. PICK s \in Shards : \E i \in 1..Len(file[s]) : file[s][i].id = id
    BY <1>3 DEF Stands
  <2>1. PICK i \in 1..Len(file[s]) : file[s][i].id = id
    BY <2>0
  <2>2. i \in 1..Len(G[s]) /\ G[s][i].id = id
    <3>1. CASE s = sh
      BY <1>0, <1>1, <2>1, <3>1
    <3>2. CASE s # sh
      BY <2>1, <3>2
    <3> QED BY <3>1, <3>2
  <2> QED BY <2>2 DEF Stands
<1> QED BY <1>2, <1>3

(* The sequences in the lines of a well-typed log are numbers.             *)
LEMMA LineTypes ==
    ASSUME DInv, NEW s \in Shards, NEW k \in LinesAt(file[s])
    PROVE  k \in 1..Len(file[s]) /\ file[s][k].seq \in Nat
<1>0. file[s] \in Seq(Pieces)
  BY PlainTypes
<1>1. k \in 1..Len(file[s])
  BY DEF LinesAt
<1>2. file[s][k] \in Pieces
  BY <1>0, <1>1
<1>3. file[s][k] \in PieceTypes
  BY <1>2, PieceIs
<1> QED BY <1>1, <1>3 DEF PieceTypes

(* A sequence is drawn: it is past every one in the log.                   *)
LEMMA NextKeeps ==
    ASSUME DInv, LInv, NEW h \in Stores, nextSequence(h)
    PROVE  LInv'
<1> DEFINE m == hs[h]
<1>0. PICK n \in Memory :
         /\ hs' = [hs EXCEPT ![h] = n]
         /\ m.pc = "seq" /\ n.meta = m.meta /\ n.off = m.off
         /\ SameJob(m, n) /\ SameUpgrade(m, n) /\ n.put = m.put
         /\ \/ n.pc = "idle" /\ SameCount(m, n)
            \/ /\ n.pc = "write" /\ n.known /\ n.seq = n.last
               /\ \/ m.known /\ n.seq = m.last + 1
                  \/ /\ n.seq = Maximum({LastLine(file[sh]) : sh \in Shards}) + 1
                     /\ \A sh \in Shards : ~Corrupt(file[sh])
  BY NextMoves
<1>2. scene' = scene /\ old' = old /\ file' = file /\ acked' = acked
  BY DEF nextSequence
<1>3. CASE n.pc = "idle" /\ SameCount(m, n)
  <2>1. n.known = m.known /\ n.last = m.last
    BY <1>3 DEF SameCount
  <2> QED BY <1>0, <1>2, <1>3, <2>1, LInvQuiet
<1>4. CASE n.pc = "write" /\ n.known /\ n.seq = n.last
  <2>1. ASSUME Alone
        PROVE  Sequences(Shards, n, file) /\ Kept(Shards, n, file, old, acked)
    <3>1. Sequences(Shards, m, file) /\ Kept(Shards, m, file, old, acked)
      BY <2>1, LInvOf
    <3>t. m \in Memory /\ n \in Memory
      BY PlainTypes
    <3> HIDE DEF m
    <3>2. m.last \in Nat /\ n.last \in Nat
      BY <3>t DEF Memory
    <3>3. ASSUME NEW s \in Shards, NEW k \in LinesAt(file[s])
          PROVE  file[s][k].seq < n.seq
      <4>0. file[s][k].seq \in Nat
        BY LineTypes
      <4>1. CASE m.known /\ n.seq = m.last + 1
        <5>1. file[s][k].seq <= m.last
          BY <3>1, <4>1 DEF Sequences
        <5> QED BY <3>2, <4>0, <4>1, <5>1
      <4>2. CASE n.seq = Maximum({LastLine(file[sh]) : sh \in Shards}) + 1
        <5>1. IsFiniteSet(Shards) /\ Shards # {} /\ file \in [Shards -> Seq(Pieces)]
          BY SceneFacts, PlainTypes DEF DInv
        <5>2. \A s2 \in Shards : Ascends(file[s2])
          BY <3>1 DEF Sequences
        <5>3. \A s2 \in Shards : \A k2 \in LinesAt(file[s2]) :
                 file[s2][k2].seq <= Maximum({LastLine(file[sh]) : sh \in Shards})
          BY <5>1, <5>2, LastOfAll
        <5>4. Maximum({LastLine(file[sh]) : sh \in Shards}) \in Nat
          BY <5>1, LargestLast
        <5> DEFINE x == Maximum({LastLine(file[sh]) : sh \in Shards})
        <5>5. file[s][k].seq <= x /\ x \in Nat /\ n.seq = x + 1
          BY <4>2, <5>3, <5>4
        <5> HIDE DEF x
        <5> QED BY <4>0, <5>5
      <4> QED BY <1>0, <1>4, <4>1, <4>2 DEF m
    <3>4. \A s \in Shards : \A k \in LinesAt(file[s]) : file[s][k].seq <= n.last
      <4> SUFFICES ASSUME NEW s \in Shards, NEW k \in LinesAt(file[s]) PROVE file[s][k].seq <= n.last
        OBVIOUS
      <4>1. file[s][k].seq \in Nat /\ file[s][k].seq < n.seq
        BY <3>3, LineTypes
      <4> QED BY <1>4, <3>2, <4>1
    <3>5. Sequences(Shards, n, file)
      BY <1>4, <3>1, <3>3, <3>4 DEF Sequences
    <3>6. Kept(Shards, n, file, old, acked)
      BY <1>4, <3>1 DEF Kept
    <3> QED BY <3>5, <3>6
  <2> QED BY <1>0, <1>2, <2>1, LInvMoved
<1> QED BY <1>0, <1>3, <1>4

(* A record is written.                                                    *)
LEMMA StoredKeeps ==
    ASSUME DInv, CInv, LInv, NEW h \in Stores, appendStored(h)
    PROVE  LInv'
<1> DEFINE m == hs[h]
           sh == m.sh
           p == Written(h)
<1>1. PICK n \in Memory :
         /\ hs' = [hs EXCEPT ![h] = n]
         /\ m.pc = "write" /\ ~n.meta /\ n.off = m.off
         /\ SameJob(m, n) /\ SameCount(m, n) /\ SameUpgrade(m, n) /\ n.put = m.put
         /\ sh \in Shards
         /\ file' \in [Shards -> Seq(Pieces)] /\ Appended(file[sh], p, file'[sh])
         /\ \A s \in Shards : s # sh => file'[s] = file[s]
         /\ \/ m.meta /\ n.pc = "size" /\ n.cp /\ acked' = acked
            \/ m.meta /\ n.pc = "seq" /\ ~n.cp /\ acked' = acked
            \/ ~m.meta /\ n.pc = "index" /\ n.cp /\ acked' = acked
            \/ ~m.meta /\ n.pc = "idle" /\ ~n.cp /\ acked' = acked \cup {m.id}
  BY StoredMoves
<1>2. scene' = scene /\ old' = old
  BY DEF appendStored
<1>3. p \in Pieces /\ p.seq = m.seq /\ (~m.meta => p.id = m.id)
  BY WrittenFacts
<1>4. ASSUME Alone
      PROVE  Sequences(Shards, n, file') /\ Kept(Shards, n, file', old, acked')
  <2>1. Sequences(Shards, m, file) /\ Kept(Shards, m, file, old, acked)
    BY <1>4, LInvOf
  <2>2. old = FALSE
    <3>1. Phase(Shards, m, file, old) /\ old \in BOOLEAN
      BY <1>4, CInvOf, PlainTypes
    <3> QED BY <1>1, <3>1 DEF Phase
  <2>g. PICK g : g = file'
    OBVIOUS
  <2>3. g \in [Shards -> Seq(Pieces)] /\ Appended(file[sh], p, g[sh]) /\ \A s \in Shards : s # sh => g[s] = file[s]
    BY <1>1, <2>g
  <2> HIDE DEF m, sh, p
  <2>4. /\ \A s \in Shards : Ascends(file[s])
        /\ \A s, t \in Shards : s # t => Disjoint(file[s], file[t])
        /\ m.seq = m.last /\ \A s \in Shards : \A k \in LinesAt(file[s]) : file[s][k].seq < p.seq
    BY <1>1, <1>3, <2>1 DEF Sequences
  <2>5. /\ \A s \in Shards : Ascends(g[s])
        /\ \A s, t \in Shards : s # t => Disjoint(g[s], g[t])
        /\ \A s \in Shards : \A k \in LinesAt(g[s]) : g[s][k].seq <= p.seq
    BY <1>1, <1>3, <2>3, <2>4, GrowsSequences
  <2>6. n.pc # "write" /\ n.last = m.last /\ p.seq = n.last
    BY <1>1, <1>3, <2>4 DEF SameCount
  <2>7. Sequences(Shards, n, g)
    BY <2>5, <2>6 DEF Sequences
  <2>8. /\ \A id : Stands(Shards, id, file, FALSE) => Stands(Shards, id, g, FALSE)
        /\ Stands(Shards, p.id, g, FALSE)
    BY <1>1, <1>3, <2>3, GrowsStands
  <2>9. \A id \in acked : Stands(Shards, id, g, FALSE)
    BY <2>1, <2>2, <2>8 DEF Kept
  <2>10. ~m.meta => Stands(Shards, m.id, g, FALSE)
    BY <1>3, <2>8
  <2>11. n.id = m.id
    BY <1>1 DEF SameJob
  <2>12. Kept(Shards, n, g, FALSE, acked')
    BY <1>1, <2>9, <2>10, <2>11 DEF Kept
  <2> QED BY <2>2, <2>g, <2>7, <2>12
<1> QED BY <1>1, <1>2, <1>4, LInvMoved

(* The lines of a shard are renamed into place.                            *)
LEMMA RenamesKeeps ==
    ASSUME DInv, CInv, LInv, NEW h \in Stores, rewriteShardRenames(h)
    PROVE  LInv'
<1> DEFINE m == hs[h]
           sh == m.sh
<1>1. PICK n \in Memory :
         /\ hs' = [hs EXCEPT ![h] = n]
         /\ m.pc = "rename" /\ n.pc = "repoint"
         /\ SameJob(m, n) /\ SameCount(m, n) /\ SameUpgrade(m, n) /\ n.put = m.put
         /\ sh \in Shards
         /\ file' \in [Shards -> Seq(Pieces)] /\ Rewritten(m.snap, file'[sh])
         /\ \A s \in Shards : s # sh => file'[s] = file[s]
  BY RenamesMoves
<1>2. scene' = scene /\ old' = old /\ acked' = acked
  BY DEF rewriteShardRenames
<1>3. file \in [Shards -> Seq(Pieces)]
  BY PlainTypes
<1>4. ASSUME Alone
      PROVE  Sequences(Shards, n, file') /\ Kept(Shards, n, file', old, acked)
  <2>1. Sequences(Shards, m, file) /\ Kept(Shards, m, file, old, acked)
    BY <1>4, LInvOf
  <2>2. old /\ m.snap = parseLogLines(file[sh])
    <3>1. Phase(Shards, m, file, old) /\ Single(Shards, m, file, state.index)
      BY <1>4, CInvOf
    <3> QED BY <1>1, <3>1 DEF Phase, Single, Rewrites
  <2>3. ~n.known
    <3>1. Phase(Shards, m, file, old)
      BY <1>4, CInvOf
    <3> HIDE DEF m
    <3> QED BY <1>1, <2>2, <3>1 DEF Phase, SameCount
  <2> DEFINE f == file[sh]
             g == file'[sh]
  <2>4. f \in Seq(Pieces) /\ Rewritten(parseLogLines(f), g)
    BY <1>1, <1>3, <2>2
  <2>5. /\ \A k \in LinesAt(g) : \E j \in LinesAt(f) : g[k].seq = f[j].seq
        /\ \A j \in LinesAt(f) : \E k \in 1..Len(g) : g[k].id = f[j].id /\ k \in LinesAt(g)
        /\ Ascends(f) => Ascends(g)
    <3> HIDE DEF f, g
    <3> QED BY <2>4, RewrittenText
  <2>a. \A s \in Shards : \A k \in LinesAt(file'[s]) : \E j \in LinesAt(file[s]) : file'[s][k].seq = file[s][j].seq
    <3> SUFFICES ASSUME NEW s \in Shards, NEW k \in LinesAt(file'[s])
                 PROVE  \E j \in LinesAt(file[s]) : file'[s][k].seq = file[s][j].seq
      OBVIOUS
    <3>1. CASE s = sh
      BY <2>5, <3>1
    <3>2. CASE s # sh
      BY <1>1, <3>2
    <3> QED BY <3>1, <3>2
  <2>6. \A s \in Shards : Ascends(file'[s])
    BY <1>1, <2>1, <2>5 DEF Sequences
  <2>7. \A s, t \in Shards : s # t => Disjoint(file'[s], file'[t])
    <3> SUFFICES ASSUME NEW s \in Shards, NEW t \in Shards, s # t,
                        NEW i \in LinesAt(file'[s]), NEW j \in LinesAt(file'[t])
                 PROVE  file'[s][i].seq # file'[t][j].seq
      BY DisjointIs
    <3>1. PICK i2 \in LinesAt(file[s]) : file'[s][i].seq = file[s][i2].seq
      BY <2>a
    <3>2. PICK j2 \in LinesAt(file[t]) : file'[t][j].seq = file[t][j2].seq
      BY <2>a
    <3>3. Disjoint(file[s], file[t])
      BY <2>1 DEF Sequences
    <3> QED BY <3>1, <3>2, <3>3, DisjointIs
  <2>8. Sequences(Shards, n, file')
    BY <1>1, <2>3, <2>6, <2>7 DEF Sequences
  <2>9. ASSUME NEW id, Stands(Shards, id, file, old) PROVE Stands(Shards, id, file', old)
    <3>1. PICK s \in Shards : \E i \in 1..Len(file[s]) : file[s][i].id = id /\ i \in LinesAt(file[s])
      BY <2>2, <2>9 DEF Stands
    <3>2. PICK i \in LinesAt(file[s]) : file[s][i].id = id
      BY <3>1
    <3>3. \E k \in 1..Len(file'[s]) : file'[s][k].id = id /\ k \in LinesAt(file'[s])
      <4>1. CASE s = sh
        BY <2>5, <3>2, <4>1
      <4>2. CASE s # sh
        BY <1>1, <3>1, <4>2
      <4> QED BY <4>1, <4>2
    <3> QED BY <3>3 DEF Stands
  <2>10. Kept(Shards, n, file', old, acked)
    BY <1>1, <2>1, <2>9 DEF Kept
  <2> QED BY <2>8, <2>10
<1> QED BY <1>1, <1>2, <1>4, LInvMoved

(* The append of a checkpoint is acknowledged.                             *)
LEMMA CheckpointKeeps ==
    ASSUME DInv, LInv, NEW h \in Stores, checkpointAppended(h)
    PROVE  LInv'
<1> DEFINE m == hs[h]
<1>1. PICK n \in Memory :
         /\ hs' = [hs EXCEPT ![h] = n] /\ m.pc = "indexed" /\ n.pc = "idle"
         /\ SameCount(m, n)
  BY CheckpointMoves
<1>2. scene' = scene /\ old' = old /\ file' = file /\ acked' = acked \cup {m.id}
  BY DEF checkpointAppended
<1>3. ASSUME Alone
      PROVE  Sequences(Shards, n, file) /\ Kept(Shards, n, file, old, acked')
  <2>1. Sequences(Shards, m, file) /\ Kept(Shards, m, file, old, acked)
    BY <1>3, LInvOf
  <2> HIDE DEF m
  <2>2. Sequences(Shards, n, file)
    BY <1>1, <2>1 DEF Sequences, SameCount
  <2>3. Kept(Shards, n, file, old, acked')
    BY <1>1, <1>2, <2>1 DEF Kept
  <2> QED BY <2>2, <2>3
<1> QED BY <1>1, <1>2, <1>3, LInvMoved

(* The process dies.                                                       *)
LEMMA CrashKeeps ==
    ASSUME DInv, CInv, LInv, crash
    PROVE  LInv'
<1>1. scene' = scene /\ old' = old /\ acked' = acked
  BY DEF crash
<1>2. Stores' = Stores /\ Shards' = Shards /\ Alone' = Alone /\ "worker" \in Stores
  BY <1>1, SameTypes, SceneFacts DEF DInv
<1>3. /\ hs' = [h \in Stores |-> Fresh]
      /\ \/ file' = file
         \/ \E h \in Stores : \E p \in Pieces :
              /\ hs[h].pc = "write" /\ hs[h].sh \in Shards
              /\ ~p.nl /\ p.off = End(file[hs[h].sh]) /\ p.seq = hs[h].seq
              /\ file' \in [Shards -> Seq(Pieces)] /\ Appended(file[hs[h].sh], p, file'[hs[h].sh])
              /\ \A sh \in Shards : sh # hs[h].sh => file'[sh] = file[sh]
  BY CrashMoves
<1>4. hs'["worker"] = Fresh /\ Fresh.pc = "idle" /\ ~Fresh.known
  BY <1>2, <1>3 DEF Fresh
<1>5. ASSUME Alone
      PROVE  Sequences(Shards, Fresh, file') /\ Kept(Shards, Fresh, file', old, acked)
  <2>1. CASE file' = file
    <3>1. Sequences(Shards, hs["worker"], file) /\ Kept(Shards, hs["worker"], file, old, acked)
      BY <1>2, <1>5, LInvOf
    <3> QED BY <1>4, <2>1, <3>1 DEF Sequences, Kept
  <2>2. CASE file' # file
    <3>1. PICK h \in Stores : \E p \in Pieces :
              /\ hs[h].pc = "write" /\ hs[h].sh \in Shards /\ p.seq = hs[h].seq
              /\ file' \in [Shards -> Seq(Pieces)] /\ Appended(file[hs[h].sh], p, file'[hs[h].sh])
              /\ \A sh \in Shards : sh # hs[h].sh => file'[sh] = file[sh]
      BY <1>3, <2>2
    <3> DEFINE m == hs[h]
               sh == m.sh
    <3>2. PICK p \in Pieces :
              /\ m.pc = "write" /\ sh \in Shards /\ p.seq = m.seq
              /\ file' \in [Shards -> Seq(Pieces)] /\ Appended(file[sh], p, file'[sh])
              /\ \A s \in Shards : s # sh => file'[s] = file[s]
      BY <3>1
    <3>3. Sequences(Shards, m, file) /\ Kept(Shards, m, file, old, acked)
      BY <1>5, LInvOf
    <3>4. old = FALSE
      <4>1. Phase(Shards, m, file, old) /\ old \in BOOLEAN
        BY <1>5, CInvOf, PlainTypes
      <4> QED BY <3>2, <4>1 DEF Phase
    <3>g. PICK g : g = file'
      OBVIOUS
    <3>5. g \in [Shards -> Seq(Pieces)] /\ Appended(file[sh], p, g[sh]) /\ \A s \in Shards : s # sh => g[s] = file[s]
      BY <3>2, <3>g
    <3> HIDE DEF m, sh
    <3>6. /\ \A s \in Shards : Ascends(file[s])
          /\ \A s, t \in Shards : s # t => Disjoint(file[s], file[t])
          /\ \A s \in Shards : \A k \in LinesAt(file[s]) : file[s][k].seq < p.seq
      BY <3>2, <3>3 DEF Sequences
    <3>7. /\ \A s \in Shards : Ascends(g[s])
          /\ \A s, t \in Shards : s # t => Disjoint(g[s], g[t])
      BY <3>2, <3>5, <3>6, GrowsSequences
    <3>8. \A id : Stands(Shards, id, file, FALSE) => Stands(Shards, id, g, FALSE)
      BY <3>2, <3>5, GrowsStands
    <3>9. Sequences(Shards, Fresh, g)
      BY <1>4, <3>7 DEF Sequences
    <3>10. Kept(Shards, Fresh, g, FALSE, acked)
      BY <1>4, <3>3, <3>4, <3>8 DEF Kept
    <3> QED BY <3>4, <3>g, <3>9, <3>10
  <2> QED BY <2>1, <2>2
<1> QED BY <1>1, <1>2, <1>4, <1>5 DEF LInv

(* The first state.                                                        *)
LEMMA LInvInit == Init => LInv
<1> SUFFICES ASSUME Init PROVE LInv
  OBVIOUS
<1>1. scene \in Scenes /\ Stores = scene.stores /\ Shards = scene.shards /\ DInv
  BY DInvInit DEF Init, Stores, Shards
<1>2. /\ file = scene.file /\ hs = [h \in Stores |-> Fresh] /\ "worker" \in Stores
      /\ acked = UNION {{p.id : p \in Lines(file[sh])} : sh \in Shards}
  BY <1>1, SceneFacts DEF Init
<1>3. /\ \A s \in Shards : Ascends(file[s])
      /\ \A s, t \in Shards : s # t => Disjoint(file[s], file[t])
  BY <1>1, <1>2, ScenesAssumption
<1>4. hs["worker"] = Fresh /\ Fresh.pc = "idle" /\ ~Fresh.known
  BY <1>2 DEF Fresh
<1>5. ASSUME NEW id \in acked PROVE Stands(Shards, id, file, old)
  <2>1. PICK s \in Shards : \E p \in Lines(file[s]) : id = p.id
    BY <1>2
  <2>2. PICK p \in Lines(file[s]) : id = p.id
    BY <2>1
  <2>3. PICK k \in LinesAt(file[s]) : p = file[s][k]
    BY DEF Lines
  <2>4. k \in 1..Len(file[s])
    BY DEF LinesAt
  <2> QED BY <2>2, <2>3, <2>4 DEF Stands
<1> QED BY <1>3, <1>4, <1>5 DEF LInv, Sequences, Kept

(* The steps of an append that neither write nor draw a sequence.          *)
LEMMA QuietKeeps ==
    ASSUME DInv, LInv, NEW h \in Stores,
           \/ ensureCurrentVersion(h) \/ (\E sh \in Shards : rewriteShardReads(h, sh))
           \/ rewriteShardRepoints(h) \/ stampVersion(h) \/ ensureMetadata(h) \/ fileSize(h)
           \/ indexCheckpoint(h) \/ putStateReads(h) \/ putStateWrites(h)
    PROVE  LInv'
<1> DEFINE m == hs[h]
<1>1. CASE ensureCurrentVersion(h)
  <2>1. PICK n \in Memory :
          /\ hs' = [hs EXCEPT ![h] = n] /\ SameCount(m, n) /\ n.pc \in {"rewrite", "meta"}
          /\ (old' = old \/ old' = FALSE)
    BY <1>1, VersionMoves
  <2>2. scene' = scene /\ file' = file /\ acked' = acked
    BY <1>1 DEF ensureCurrentVersion
  <2>3. n.known = m.known /\ n.last = m.last
    BY <2>1 DEF SameCount
  <2>4. (old' => old) /\ n.pc # "write" /\ n.pc \notin {"index", "indexed"}
    <3>1. CASE old' = old
      BY <2>1, <3>1
    <3>2. CASE old' = FALSE
      BY <2>1, <3>2
    <3> QED BY <2>1, <3>1, <3>2
  <2> QED BY <2>1, <2>2, <2>3, <2>4, LInvQuiet
<1>2. ASSUME NEW sh \in Shards, rewriteShardReads(h, sh) PROVE LInv'
  <2>1. PICK n \in Memory :
          hs' = [hs EXCEPT ![h] = n] /\ SameCount(m, n) /\ n.pc \in {"idle", "rename"}
    BY <1>2, ReadsMoves
  <2>2. scene' = scene /\ file' = file /\ acked' = acked /\ old' = old
    BY <1>2 DEF rewriteShardReads
  <2>3. n.known = m.known /\ n.last = m.last
    BY <2>1 DEF SameCount
  <2> QED BY <2>1, <2>2, <2>3, LInvQuiet
<1>3. CASE rewriteShardRepoints(h)
  <2>0. Newest(m.snap) \in Indexes
    BY PlainTypes, NewestType
  <2>1. PICK n \in Memory :
          hs' = [hs EXCEPT ![h] = n] /\ SameCount(m, n) /\ n.pc \in {"stamp", "rewrite"}
    BY <1>3, <2>0, RepointsMoves
  <2>2. scene' = scene /\ file' = file /\ acked' = acked /\ old' = old
    BY <1>3 DEF rewriteShardRepoints
  <2>3. n.known = m.known /\ n.last = m.last
    BY <2>1 DEF SameCount
  <2> QED BY <2>1, <2>2, <2>3, LInvQuiet
<1>4. CASE stampVersion(h)
  <2>1. PICK n \in Memory :
          hs' = [hs EXCEPT ![h] = n] /\ SameCount(m, n) /\ n.pc = "meta" /\ old' = FALSE
    BY <1>4, StampMoves
  <2>2. scene' = scene /\ file' = file /\ acked' = acked
    BY <1>4 DEF stampVersion
  <2>3. n.known = m.known /\ n.last = m.last
    BY <2>1 DEF SameCount
  <2> QED BY <2>1, <2>2, <2>3, LInvQuiet
<1>5. CASE ensureMetadata(h)
  <2>1. PICK n \in Memory :
          hs' = [hs EXCEPT ![h] = n] /\ SameCount(m, n) /\ n.pc \in {"idle", "seq", "size"}
    BY <1>5, MetadataMoves
  <2>2. scene' = scene /\ file' = file /\ acked' = acked /\ old' = old
    BY <1>5 DEF ensureMetadata
  <2>3. n.known = m.known /\ n.last = m.last
    BY <2>1 DEF SameCount
  <2> QED BY <2>1, <2>2, <2>3, LInvQuiet
<1>6. CASE fileSize(h)
  <2>1. PICK n \in Memory :
          hs' = [hs EXCEPT ![h] = n] /\ SameCount(m, n) /\ n.pc = "seq"
    BY <1>6, SizeMoves
  <2>2. scene' = scene /\ file' = file /\ acked' = acked /\ old' = old
    BY <1>6 DEF fileSize
  <2>3. n.known = m.known /\ n.last = m.last
    BY <2>1 DEF SameCount
  <2> QED BY <2>1, <2>2, <2>3, LInvQuiet
<1>7. CASE indexCheckpoint(h)
  <2>1. PICK n \in Memory :
          /\ hs' = [hs EXCEPT ![h] = n] /\ SameCount(m, n) /\ SameJob(m, n)
          /\ m.pc = "index" /\ n.pc = "indexed"
    BY <1>7, IndexMoves
  <2>2. scene' = scene /\ file' = file /\ acked' = acked /\ old' = old
    BY <1>7 DEF indexCheckpoint
  <2>3. n.known = m.known /\ n.last = m.last /\ n.id = m.id
    BY <2>1 DEF SameCount, SameJob
  <2> QED BY <2>1, <2>2, <2>3, LInvQuiet
<1>8. CASE putStateReads(h)
  <2>1. PICK n \in Memory :
          hs' = [hs EXCEPT ![h] = n] /\ SameCount(m, n) /\ SameJob(m, n) /\ n.pc = m.pc
    BY <1>8, PutReadMoves
  <2>2. scene' = scene /\ file' = file /\ acked' = acked /\ old' = old
    BY <1>8 DEF putStateReads
  <2>3. n.known = m.known /\ n.last = m.last /\ n.seq = m.seq /\ n.id = m.id
    BY <2>1 DEF SameCount, SameJob
  <2> QED BY <2>1, <2>2, <2>3, LInvQuiet
<1>9. CASE putStateWrites(h)
  <2>1. PICK n \in Memory :
          hs' = [hs EXCEPT ![h] = n] /\ SameCount(m, n) /\ SameJob(m, n) /\ n.pc = m.pc
    BY <1>9, PutWriteMoves
  <2>2. scene' = scene /\ file' = file /\ acked' = acked /\ old' = old
    BY <1>9 DEF putStateWrites
  <2>3. n.known = m.known /\ n.last = m.last /\ n.seq = m.seq /\ n.id = m.id
    BY <2>1 DEF SameCount, SameJob
  <2> QED BY <2>1, <2>2, <2>3, LInvQuiet
<1> QED BY <1>1, <1>2, <1>3, <1>4, <1>5, <1>6, <1>7, <1>8, <1>9

(* The invariant is inductive.                                             *)
LEMMA LInvStep ==
    ASSUME DInv, CInv, LInv, [Next]_vars
    PROVE  LInv'
<1>1. ASSUME NEW h \in Stores, NEW sh \in Shards, NEW cp \in BOOLEAN, appendRecord(h, sh, cp)
      PROVE  LInv'
  <2>1. PICK n \in Memory :
          /\ hs' = [hs EXCEPT ![h] = n] /\ n.pc = "version"
          /\ (SameCount(hs[h], n) \/ ~n.known)
    BY <1>1, AppendMoves
  <2>2. scene' = scene /\ file' = file /\ acked' = acked /\ old' = old
    BY <1>1 DEF appendRecord
  <2>3. n.known => hs[h].known /\ n.last = hs[h].last
    BY <2>1 DEF SameCount
  <2> QED BY <2>1, <2>2, <2>3, LInvQuiet
<1>2. ASSUME NEW h \in Stores, Proceed(h) PROVE LInv'
  <2>1. CASE rewriteShardRenames(h)
    BY <2>1, RenamesKeeps
  <2>2. CASE nextSequence(h)
    BY <2>2, NextKeeps
  <2>3. CASE appendStored(h)
    BY <2>3, StoredKeeps
  <2>4. CASE checkpointAppended(h)
    BY <2>4, CheckpointKeeps
  <2>5. CASE \/ ensureCurrentVersion(h) \/ (\E sh \in Shards : rewriteShardReads(h, sh))
             \/ rewriteShardRepoints(h) \/ stampVersion(h) \/ ensureMetadata(h) \/ fileSize(h)
             \/ indexCheckpoint(h) \/ putStateReads(h) \/ putStateWrites(h)
    BY <2>5, QuietKeeps
  <2> QED BY <1>2, <2>1, <2>2, <2>3, <2>4, <2>5 DEF Proceed
<1>3. ASSUME NEW h \in Stores, rename(h) PROVE LInv'
  <2>1. PICK n \in Memory :
          hs' = [hs EXCEPT ![h] = n] /\ n.pc = "idle" /\ SameCount(hs[h], n)
    BY <1>3, RenameMoves
  <2>2. n.known = hs[h].known /\ n.last = hs[h].last
    BY <2>1 DEF SameCount
  <2>3. scene' = scene /\ old' = old /\ file' = file /\ acked' = acked
    BY <1>3 DEF rename
  <2> QED BY <2>1, <2>2, <2>3, LInvQuiet
<1>4. CASE readInbox
  <2>0. "worker" \in Stores
    BY SceneFacts DEF DInv
  <2>1. PICK n \in Memory :
          hs' = [hs EXCEPT !["worker"] = n] /\ n.pc = "idle" /\ SameCount(hs["worker"], n)
    BY <1>4, InboxMoves
  <2>2. n.known = hs["worker"].known /\ n.last = hs["worker"].last
    BY <2>1 DEF SameCount
  <2>3. scene' = scene /\ old' = old /\ file' = file /\ acked' = acked
    BY <1>4 DEF readInbox
  <2> QED BY <2>0, <2>1, <2>2, <2>3, LInvQuiet
<1>5. CASE crash
  BY <1>5, CrashKeeps
<1>6. CASE UNCHANGED vars
  <2>1. scene' = scene /\ file' = file /\ hs' = hs /\ old' = old /\ acked' = acked
    BY <1>6 DEF vars
  <2>2. Shards' = Shards /\ Alone' = Alone
    BY <2>1, SameTypes
  <2> QED BY <2>1, <2>2 DEF LInv
<1> QED BY <1>1, <1>2, <1>3, <1>4, <1>5, <1>6 DEF Next

(* With one store at a time a restart goes on past every sequence in the   *)
(* log, no sequence is used twice, and every acknowledged record is still  *)
(* in it, on a line of its own or glued to a torn one (disk-store.ts       *)
(* appendRecord, nextSequence, rewriteShard), whatever earlier processes   *)
(* left, for any number of shards, appends and crashes.                    *)
THEOREM LogIsKept == Spec => []LogSurvivesRestarts
<1>1. DInv /\ LInv => LogSurvivesRestarts
  <2> SUFFICES ASSUME DInv, LInv, Alone
               PROVE  /\ \A sh \in Shards : Ascends(file[sh])
                      /\ \A s1, s2 \in Shards : s1 # s2 => Disjoint(file[s1], file[s2])
                      /\ hs["worker"].known =>
                           \A sh \in Shards : \A p \in Lines(file[sh]) : p.seq <= hs["worker"].last
                      /\ \A id \in acked :
                           Glued(id) \/ \E sh \in Shards : \E p \in Lines(file[sh]) : p.id = id
    BY DEF LogSurvivesRestarts, SequencesAscend, AckedIsKept
  <2>1. Sequences(Shards, hs["worker"], file) /\ Kept(Shards, hs["worker"], file, old, acked)
    BY DEF LInv
  <2>2. hs["worker"].known =>
           \A sh \in Shards : \A p \in Lines(file[sh]) : p.seq <= hs["worker"].last
    BY <2>1 DEF Sequences, Lines
  <2>3. ASSUME NEW id \in acked
        PROVE  Glued(id) \/ \E sh \in Shards : \E p \in Lines(file[sh]) : p.id = id
    <3>1. Stands(Shards, id, file, old)
      BY <2>1 DEF Kept
    <3>2. PICK s \in Shards : \E i \in 1..Len(file[s]) : file[s][i].id = id
      BY <3>1 DEF Stands
    <3>3. PICK i \in 1..Len(file[s]) : file[s][i].id = id
      BY <3>2
    <3>4. CASE IsLine(file[s], i)
      BY <3>3, <3>4 DEF Lines, LinesAt
    <3>5. CASE ~IsLine(file[s], i)
      BY <3>3, <3>5 DEF Glued
    <3> QED BY <3>4, <3>5
  <2> QED BY <2>1, <2>2, <2>3 DEF Sequences
<1>2. Init => DInv /\ CInv /\ LInv
  BY DInvInit, CInvInit, LInvInit
<1>3. DInv /\ CInv /\ LInv /\ [Next]_vars => (DInv /\ CInv /\ LInv)'
  BY DInvStep, CInvStep, LInvStep
<1> QED BY <1>1, <1>2, <1>3, PTL DEF Spec
================================================================================
