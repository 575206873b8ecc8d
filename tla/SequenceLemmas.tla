--------------------------- MODULE SequenceLemmas ---------------------------
(***************************************************************************)
(* What the proofs need to know of numbers and of FlattenSeq, which the    *)
(* models use for whatever is put together piece by piece.  Facts about    *)
(* every n are proved from a least counterexample.                         *)
(***************************************************************************)
EXTENDS Integers, SequencesExt, WellFoundedInduction, TLAPS

(* A set of numbers has a least element.                                   *)
LEMMA LeastNumber ==
    ASSUME NEW S, S \subseteq Nat, S # {} PROVE \E n \in S : \A m \in S : n <= m
<1> DEFINE less == {p \in Nat \X Nat : p[1] < p[2]}
<1>1. IsWellFoundedOn(less, Nat)
  BY NatLessThanWellFounded, Zenon DEF OpToRel
<1>2. \E n \in S : \A m \in S : <<m, n>> \notin less
  <2> HIDE DEF less
  <2> QED BY <1>1, WFMin, Zenon
<1>3. \A m, n \in Nat : m < n => <<m, n>> \in less
  OBVIOUS
<1>4. PICK n \in S : \A m \in S : <<m, n>> \notin less
  BY <1>2
<1>5. \A m \in S : ~(m < n)
  BY <1>3, <1>4
<1> QED BY <1>5

(* A set of numbers that has 0 and with a number the next has them all.    *)
LEMMA UpTo ==
    ASSUME NEW n \in Nat, NEW S, 0 \in S, \A k \in 0..n : k < n /\ k \in S => k + 1 \in S
    PROVE  0..n \subseteq S
<1> DEFINE wrong == (0..n) \ S
<1> SUFFICES ASSUME wrong # {} PROVE FALSE
  OBVIOUS
<1>1. PICK k \in wrong : \A m \in wrong : k <= m
  <2>1. wrong \subseteq Nat
    OBVIOUS
  <2> HIDE DEF wrong
  <2> QED BY <2>1, LeastNumber
<1>2. k \in 0..n /\ k \notin S /\ k # 0
  OBVIOUS
<1>3. k - 1 \in 0..n /\ k - 1 < n /\ ~(k <= k - 1)
  BY <1>2
<1>4. k - 1 \notin wrong
  <2> HIDE DEF wrong
  <2> QED BY <1>1, <1>3
<1>5. k - 1 \in S
  BY <1>3, <1>4
<1> QED BY <1>2, <1>3, <1>5

-----------------------------------------------------------------------------
(* FlattenSeq *)

(* f has the pieces of s joined, up to each of the first n.                *)
Joins(f, s, n) ==
    \A i \in 1..n : f[i] = IF i = 1 THEN s[i] ELSE f[i - 1] \o s[i]

Agree(f, g, n) == \A i \in 1..n : f[i] = g[i]

LEMMA JoinExists ==
    ASSUME NEW S, NEW s \in Seq(Seq(S))
    PROVE  \E f \in [1..Len(s) -> Seq(S)] : Joins(f, s, Len(s))
<1> DEFINE good == {n \in 0..Len(s) : \E f \in [1..n -> Seq(S)] : Joins(f, s, n)}
<1>0. Len(s) \in Nat
  OBVIOUS
<1>1. 0 \in good
  <2> DEFINE none == [i \in 1..0 |-> <<>>]
  <2>1. none \in [1..0 -> Seq(S)]
    OBVIOUS
  <2>2. Joins(none, s, 0)
    BY DEF Joins
  <2>3. 0 \in 0..Len(s)
    BY <1>0
  <2> HIDE DEF none
  <2> QED BY <2>1, <2>2, <2>3
<1>2. ASSUME NEW k \in 0..Len(s), k < Len(s), k \in good PROVE k + 1 \in good
  <2>1. PICK f \in [1..k -> Seq(S)] : Joins(f, s, k)
    BY <1>2
  <2> DEFINE next == IF k = 0 THEN s[1] ELSE f[k] \o s[k + 1]
             g == [i \in 1..(k + 1) |-> IF i = k + 1 THEN next ELSE f[i]]
  <2>2. next \in Seq(S)
    <3>1. s[k + 1] \in Seq(S) /\ (k # 0 => f[k] \in Seq(S))
      BY <1>2
    <3> QED BY <3>1
  <2>3. g \in [1..(k + 1) -> Seq(S)]
    <3> HIDE DEF next
    <3> QED BY <2>2
  <2>4. Joins(g, s, k + 1)
    <3> SUFFICES ASSUME NEW i \in 1..(k + 1)
                 PROVE  g[i] = IF i = 1 THEN s[i] ELSE g[i - 1] \o s[i]
      BY DEF Joins
    <3>1. CASE i = k + 1
      BY <3>1
    <3>2. CASE i # k + 1
      <4>1. i \in 1..k /\ g[i] = f[i] /\ (i # 1 => i - 1 \in 1..(k + 1) /\ i - 1 # k + 1)
        BY <1>2, <3>2
      <4>2. i # 1 => g[i - 1] = f[i - 1]
        BY <4>1
      <4>3. f[i] = IF i = 1 THEN s[i] ELSE f[i - 1] \o s[i]
        BY <2>1, <4>1 DEF Joins
      <4> QED BY <4>1, <4>2, <4>3
    <3> QED BY <3>1, <3>2
  <2>5. k + 1 \in 0..Len(s)
    BY <1>0, <1>2
  <2> HIDE DEF g
  <2> QED BY <2>3, <2>4, <2>5
<1>3. 0..Len(s) \subseteq good
  <2> HIDE DEF good
  <2> QED BY <1>0, <1>1, <1>2, UpTo
<1>4. Len(s) \in good
  <2> HIDE DEF good
  <2> QED BY <1>0, <1>3
<1> QED BY <1>4

LEMMA JoinUnique ==
    ASSUME NEW f, NEW g, NEW s, NEW t, NEW n \in Nat, Joins(f, s, n), Joins(g, t, n),
           Agree(s, t, n)
    PROVE  Agree(f, g, n)
<1> DEFINE good == {k \in 0..n : k = 0 \/ f[k] = g[k]}
<1>1. 0 \in good
  OBVIOUS
<1>2. ASSUME NEW k \in 0..n, k < n, k \in good PROVE k + 1 \in good
  <2>1. k + 1 \in 1..n
    BY <1>2
  <2>2. CASE k = 0
    BY <2>1, <2>2 DEF Joins, Agree
  <2>3. CASE k # 0
    <3>1. k + 1 # 1 /\ k + 1 - 1 = k /\ f[k] = g[k]
      BY <1>2, <2>3
    <3>2. /\ f[k + 1] = IF k + 1 = 1 THEN s[k + 1] ELSE f[k + 1 - 1] \o s[k + 1]
          /\ g[k + 1] = IF k + 1 = 1 THEN t[k + 1] ELSE g[k + 1 - 1] \o t[k + 1]
      BY <2>1 DEF Joins
    <3>3. f[k + 1] = g[k + 1]
      BY <2>1, <3>1, <3>2 DEF Agree
    <3> QED BY <2>1, <3>3
  <2> QED BY <2>2, <2>3
<1>3. 0..n \subseteq good
  <2> HIDE DEF good
  <2> QED BY <1>1, <1>2, UpTo
<1>4. \A i \in 1..n : i \in 0..n /\ i # 0
  OBVIOUS
<1> QED BY <1>3, <1>4 DEF Agree

(* Nothing joined is nothing.                                              *)
LEMMA NothingJoined == FlattenSeq(<<>>) = <<>>
  BY DEF FlattenSeq

(* Whatever joins the pieces of s joins them as FlattenSeq does.           *)
LEMMA FlattenJoins ==
    ASSUME NEW S, NEW s \in Seq(Seq(S)), s # <<>>,
           NEW f \in [1..Len(s) -> Seq(S)], Joins(f, s, Len(s))
    PROVE  FlattenSeq(s) = f[Len(s)]
<1> DEFINE joined(g) == [i \in 1..Len(s) |-> IF i = 1 THEN s[i] ELSE g[i - 1] \o s[i]]
           F == CHOOSE g : g = joined(g)
<1>1. Len(s) \in Nat /\ Len(s) # 0
  OBVIOUS
<1>2. FlattenSeq(s) = F[Len(s)]
  BY <1>1 DEF FlattenSeq
<1>3. f = joined(f)
  BY DEF Joins
<1>4. F = joined(F)
  <2> HIDE DEF joined
  <2> QED BY <1>3
<1>5. Joins(F, s, Len(s))
  <2> HIDE DEF F
  <2> QED BY <1>4 DEF Joins
<1> HIDE DEF F
<1>6. Agree(F, f, Len(s))
  BY <1>1, <1>5, JoinUnique DEF Agree
<1> QED BY <1>1, <1>2, <1>6 DEF Agree

(* The pieces joined are a sequence; one more piece goes to its end.       *)
LEMMA FlattenAppend ==
    ASSUME NEW S, NEW s \in Seq(Seq(S)), NEW e \in Seq(S)
    PROVE  /\ FlattenSeq(s) \in Seq(S)
           /\ FlattenSeq(Append(s, e)) = FlattenSeq(s) \o e
<1> DEFINE t == Append(s, e)
<1>0. t \in Seq(Seq(S)) /\ Len(t) = Len(s) + 1 /\ Len(s) \in Nat
  OBVIOUS
<1>1. t # <<>> /\ t[Len(s) + 1] = e /\ \A i \in 1..Len(s) : t[i] = s[i]
  <2>1. t[Len(s) + 1] = e /\ \A i \in 1..Len(s) : t[i] = s[i]
    OBVIOUS
  <2>2. Len(t) # 0
    <3> HIDE DEF t
    <3> QED BY <1>0
  <2> HIDE DEF t
  <2> QED BY <2>1, <2>2
<1> HIDE DEF t
<1>2. PICK g \in [1..Len(t) -> Seq(S)] : Joins(g, t, Len(t))
  BY <1>0, JoinExists
<1>3. FlattenSeq(t) = g[Len(t)]
  BY <1>0, <1>1, <1>2, FlattenJoins
<1>4. CASE s = <<>>
  <2>1. FlattenSeq(s) = <<>>
    BY <1>4 DEF FlattenSeq
  <2>2. Len(t) = 1 /\ t[1] = e
    BY <1>0, <1>1, <1>4
  <2>3. g[1] = t[1]
    BY <1>2, <2>2 DEF Joins
  <2>4. <<>> \in Seq(S) /\ e = <<>> \o e
    OBVIOUS
  <2> QED BY <1>3, <2>1, <2>2, <2>3, <2>4 DEF t
<1>5. CASE s # <<>>
  <2>1. PICK f \in [1..Len(s) -> Seq(S)] : Joins(f, s, Len(s))
    BY JoinExists
  <2>2. FlattenSeq(s) = f[Len(s)]
    BY <1>5, <2>1, FlattenJoins
  <2>3. Len(s) \in 1..Len(s) /\ Len(s) # 0
    BY <1>0, <1>5
  <2>4. \A i \in 1..Len(s) : i \in 1..Len(t)
    BY <1>0
  <2>5. Joins(g, t, Len(s))
    BY <1>2, <2>4 DEF Joins
  <2>6. Agree(f, g, Len(s))
    <3>1. Agree(s, t, Len(s))
      BY <1>1 DEF Agree
    <3>2. Joins(f, s, Len(s)) /\ Len(s) \in Nat
      BY <1>0, <2>1
    <3> QED BY <2>5, <3>1, <3>2, JoinUnique
  <2>7. Len(s) + 1 \in 1..Len(t) /\ Len(s) + 1 # 1 /\ Len(s) + 1 - 1 = Len(s)
    BY <1>0, <2>3
  <2>8. g[Len(s) + 1] = IF Len(s) + 1 = 1 THEN t[Len(s) + 1]
                        ELSE g[Len(s) + 1 - 1] \o t[Len(s) + 1]
    <3>1. \A i \in 1..Len(t) : g[i] = IF i = 1 THEN t[i] ELSE g[i - 1] \o t[i]
      BY <1>2 DEF Joins
    <3> DEFINE m == Len(s) + 1
    <3>2. m \in 1..Len(t)
      BY <2>7
    <3> HIDE DEF m
    <3>3. g[m] = IF m = 1 THEN t[m] ELSE g[m - 1] \o t[m]
      BY <3>1, <3>2
    <3> QED BY <3>3 DEF m
  <2>9. f[Len(s)] \in Seq(S)
    BY <2>1, <2>3
  <2> QED BY <1>0, <1>1, <1>3, <2>2, <2>3, <2>6, <2>7, <2>8, <2>9 DEF t, Agree
<1> QED BY <1>4, <1>5

(* What piece makes of the elements of fs.                                 *)
Pieces(piece, fs) == [k \in DOMAIN fs |-> piece[fs[k]]]

LEMMA PiecesTyped ==
    ASSUME NEW S, NEW T, NEW piece \in [S -> Seq(T)], NEW fs \in Seq(S)
    PROVE  FlattenSeq(Pieces(piece, fs)) \in Seq(T)
<1> DEFINE pieces == [k \in DOMAIN fs |-> piece[fs[k]]]
<1>1. pieces \in Seq(Seq(T))
  <2>1. DOMAIN fs = 1..Len(fs) /\ Len(fs) \in Nat /\ \A k \in 1..Len(fs) : piece[fs[k]] \in Seq(T)
    OBVIOUS
  <2> QED BY <2>1
<1>2. FlattenSeq(pieces) \in Seq(T)
  <2> HIDE DEF pieces
  <2>1. <<>> \in Seq(T)
    OBVIOUS
  <2> QED BY <1>1, <2>1, FlattenAppend
<1> QED BY <1>2 DEF Pieces

(* One more element adds its piece to those of the others.                 *)
LEMMA PiecesGrow ==
    ASSUME NEW S, NEW T, NEW piece \in [S -> Seq(T)], NEW fs \in Seq(S), NEW f \in S
    PROVE  FlattenSeq(Pieces(piece, fs \o <<f>>)) = FlattenSeq(Pieces(piece, fs)) \o piece[f]
<1> DEFINE pieces(g) == [k \in DOMAIN g |-> piece[g[k]]]
           fs2 == fs \o <<f>>
<1>1. pieces(fs) \in Seq(Seq(T)) /\ piece[f] \in Seq(T)
  OBVIOUS
<1>2. /\ DOMAIN fs2 = 1..(Len(fs) + 1) /\ fs2[Len(fs) + 1] = f /\ Len(fs) \in Nat
      /\ DOMAIN fs = 1..Len(fs) /\ \A k \in 1..Len(fs) : fs2[k] = fs[k]
  OBVIOUS
<1>3. pieces(fs2) = Append(pieces(fs), piece[f])
  <2>1. /\ Len(pieces(fs)) = Len(fs)
        /\ Append(pieces(fs), piece[f]) = [k \in 1..(Len(fs) + 1) |->
              IF k = Len(fs) + 1 THEN piece[f] ELSE pieces(fs)[k]]
    OBVIOUS
  <2> HIDE DEF fs2
  <2>2. \A k \in 1..(Len(fs) + 1) : k # Len(fs) + 1 => k \in 1..Len(fs)
    BY <1>2
  <2>3. \A k \in 1..Len(fs) : pieces(fs)[k] = piece[fs[k]]
    BY <1>2
  <2>4. \A k \in 1..(Len(fs) + 1) :
           piece[fs2[k]] = IF k = Len(fs) + 1 THEN piece[f] ELSE pieces(fs)[k]
    BY <1>2, <2>2, <2>3
  <2>5. pieces(fs2) = [k \in 1..(Len(fs) + 1) |-> piece[fs2[k]]]
    BY <1>2
  <2> HIDE DEF pieces
  <2> QED BY <2>1, <2>4, <2>5
<1>4. FlattenSeq(Append(pieces(fs), piece[f])) = FlattenSeq(pieces(fs)) \o piece[f]
  <2> HIDE DEF pieces
  <2> QED BY <1>1, FlattenAppend
<1> QED BY <1>3, <1>4 DEF Pieces

(* The prefixes of the pieces are joined one piece at a time.              *)
LEMMA FlattenPrefix ==
    ASSUME NEW S, NEW s \in Seq(Seq(S)), NEW k \in 0..Len(s), k < Len(s)
    PROVE  /\ FlattenSeq(SubSeq(s, 1, k)) \in Seq(S)
           /\ FlattenSeq(SubSeq(s, 1, k + 1)) = FlattenSeq(SubSeq(s, 1, k)) \o s[k + 1]
<1> DEFINE p == SubSeq(s, 1, k)
           e == s[k + 1]
<1>1. p \in Seq(Seq(S)) /\ e \in Seq(S)
  OBVIOUS
<1>2. SubSeq(s, 1, k + 1) = Append(p, e)
  OBVIOUS
<1>3. FlattenSeq(p) \in Seq(S) /\ FlattenSeq(Append(p, e)) = FlattenSeq(p) \o e
  <2> HIDE DEF p, e
  <2> QED BY <1>1, FlattenAppend
<1> QED BY <1>2, <1>3

LEMMA FlattenEnds ==
    ASSUME NEW S, NEW s \in Seq(Seq(S))
    PROVE  /\ Len(s) \in Nat
           /\ FlattenSeq(SubSeq(s, 1, 0)) = <<>> /\ FlattenSeq(SubSeq(s, 1, Len(s))) = FlattenSeq(s)
<1>1. SubSeq(s, 1, 0) = <<>> /\ SubSeq(s, 1, Len(s)) = s /\ Len(s) \in Nat
  OBVIOUS
<1> QED BY <1>1, NothingJoined

LEMMA ConcatRange ==
    ASSUME NEW S, NEW u \in Seq(S), NEW v \in Seq(S)
    PROVE  ToSet(u \o v) = ToSet(u) \union ToSet(v)
<1>1. \A x \in ToSet(u \o v) : x \in ToSet(u) \/ x \in ToSet(v)
  BY DEF ToSet
<1>2. ASSUME NEW x \in ToSet(u) PROVE x \in ToSet(u \o v)
  <2>1. PICK i \in 1..Len(u) : u[i] = x
    BY <1>2 DEF ToSet
  <2>2. (u \o v)[i] = x /\ i \in 1..Len(u \o v)
    BY <2>1
  <2> QED BY <2>2 DEF ToSet
<1>3. ASSUME NEW x \in ToSet(v) PROVE x \in ToSet(u \o v)
  <2>1. PICK i \in 1..Len(v) : v[i] = x
    BY <1>3 DEF ToSet
  <2>2. (u \o v)[Len(u) + i] = x /\ Len(u) + i \in 1..Len(u \o v)
    BY <2>1
  <2> QED BY <2>2 DEF ToSet
<1> QED BY <1>1, <1>2, <1>3

(* Nothing is lost and nothing added.                                      *)
LEMMA FlattenRange ==
    ASSUME NEW S, NEW s \in Seq(Seq(S))
    PROVE  ToSet(FlattenSeq(s)) = UNION {ToSet(s[i]) : i \in 1..Len(s)}
<1> DEFINE joined(k) == FlattenSeq(SubSeq(s, 1, k))
           good == {k \in 0..Len(s) : ToSet(joined(k)) = UNION {ToSet(s[i]) : i \in 1..k}}
<1>1. Len(s) \in Nat /\ joined(0) = <<>> /\ joined(Len(s)) = FlattenSeq(s)
  BY FlattenEnds
<1>2. 0 \in good
  <2>1. UNION {ToSet(s[i]) : i \in 1..0} = {} /\ ToSet(<<>>) = {}
    BY DEF ToSet
  <2> HIDE DEF joined
  <2> QED BY <1>1, <2>1
<1>3. ASSUME NEW k \in 0..Len(s), k < Len(s), k \in good PROVE k + 1 \in good
  <2>1. joined(k) \in Seq(S) /\ joined(k + 1) = joined(k) \o s[k + 1]
    BY <1>3, FlattenPrefix
  <2>2. s[k + 1] \in Seq(S) /\ k + 1 \in 0..Len(s)
    BY <1>1, <1>3
  <2> HIDE DEF joined
  <2>3. ToSet(joined(k + 1)) = ToSet(joined(k)) \union ToSet(s[k + 1])
    <3>1. ToSet(joined(k) \o s[k + 1]) = ToSet(joined(k)) \union ToSet(s[k + 1])
      <4> HIDE DEF joined
      <4> DEFINE u == joined(k)
                 v == s[k + 1]
      <4>1. u \in Seq(S) /\ v \in Seq(S)
        BY <2>1, <2>2
      <4> HIDE DEF u, v
      <4>2. ToSet(u \o v) = ToSet(u) \union ToSet(v)
        BY <4>1, ConcatRange
      <4> QED BY <4>2 DEF u, v
    <3> QED BY <2>1, <3>1, Zenon
  <2>4. 1..(k + 1) = (1..k) \union {k + 1}
    BY <1>3
  <2>5. UNION {ToSet(s[i]) : i \in 1..(k + 1)}
          = (UNION {ToSet(s[i]) : i \in 1..k}) \union ToSet(s[k + 1])
    BY <2>4, Zenon
  <2>6. ToSet(joined(k)) = UNION {ToSet(s[i]) : i \in 1..k}
    BY <1>3
  <2>7. ToSet(joined(k + 1)) = UNION {ToSet(s[i]) : i \in 1..(k + 1)}
    BY <2>3, <2>5, <2>6
  <2> QED BY <2>2, <2>7
<1>4. 0..Len(s) \subseteq good
  <2> HIDE DEF good
  <2> QED BY <1>1, <1>2, <1>3, UpTo
<1>5. Len(s) \in 0..Len(s)
  BY <1>1
<1> HIDE DEF joined
<1> QED BY <1>1, <1>4, <1>5

(* Sequences are joined in any order.                                      *)
LEMMA JoinAssociates ==
    ASSUME NEW T PROVE \A a, b, c \in Seq(T) : (a \o b) \o c = a \o (b \o c)
  OBVIOUS

(* What is made of the elements is joined as they are.                     *)
Distributes(piece, u, v) ==
    FlattenSeq(Pieces(piece, u \o v)) = FlattenSeq(Pieces(piece, u)) \o FlattenSeq(Pieces(piece, v))

LEMMA PiecesJoin ==
    ASSUME NEW S, NEW T, NEW piece \in [S -> Seq(T)], NEW u \in Seq(S), NEW v \in Seq(S)
    PROVE  Distributes(piece, u, v)
<1> DEFINE J(s) == FlattenSeq(Pieces(piece, s))
           good == {k \in 0..Len(v) : J(u \o SubSeq(v, 1, k)) = J(u) \o J(SubSeq(v, 1, k))}
<1>1. Len(v) \in Nat /\ SubSeq(v, 1, 0) = <<>> /\ SubSeq(v, 1, Len(v)) = v
  OBVIOUS
<1>2. \A s \in Seq(S) : J(s) \in Seq(T)
  BY PiecesTyped
<1>3. \A s \in Seq(S), e \in S : J(s \o <<e>>) = J(s) \o piece[e]
  BY PiecesGrow
<1>4. J(<<>>) = <<>>
  <2>1. Pieces(piece, <<>>) = <<>>
    BY DEF Pieces
  <2> QED BY <2>1, NothingJoined
<1>5. 0 \in good
  <2>1. u \o <<>> = u
    OBVIOUS
  <2>2. J(u) \o <<>> = J(u)
    BY <1>2
  <2> HIDE DEF J
  <2>3. J(u \o SubSeq(v, 1, 0)) = J(u) \o J(SubSeq(v, 1, 0))
    BY <1>1, <1>4, <2>1, <2>2, Zenon
  <2>4. 0 \in 0..Len(v)
    BY <1>1
  <2> QED BY <2>3, <2>4
<1>6. ASSUME NEW k \in 0..Len(v), k < Len(v), k \in good PROVE k + 1 \in good
  <2> DEFINE p == SubSeq(v, 1, k)
             e == v[k + 1]
  <2>1. p \in Seq(S) /\ e \in S /\ SubSeq(v, 1, k + 1) = p \o <<e>> /\ u \o p \in Seq(S)
    BY <1>6
  <2>2. u \o (p \o <<e>>) = (u \o p) \o <<e>>
    BY <2>1, SMTT(30)
  <2> HIDE DEF p, e
  <2>3. piece[e] \in Seq(T)
    BY <2>1
  <2> HIDE DEF J
  <2>4. J(u \o p) = J(u) \o J(p)
    BY <1>6 DEF p
  <2>5. J(p \o <<e>>) = J(p) \o piece[e] /\ J((u \o p) \o <<e>>) = J(u \o p) \o piece[e]
    BY <1>3, <2>1
  <2>6. (J(u) \o J(p)) \o piece[e] = J(u) \o (J(p) \o piece[e])
    <3>1. J(u) \in Seq(T) /\ J(p) \in Seq(T)
      BY <1>2, <2>1
    <3> DEFINE a == J(u)
               b == J(p)
               c == piece[e]
    <3>2. a \in Seq(T) /\ b \in Seq(T) /\ c \in Seq(T)
      BY <2>3, <3>1
    <3> HIDE DEF a, b, c
    <3>3. (a \o b) \o c = a \o (b \o c)
      BY <3>2, JoinAssociates, SMTT(30)
    <3> QED BY <3>3 DEF a, b, c
  <2>7. k + 1 \in 0..Len(v)
    BY <1>1, <1>6
  <2> QED BY <2>1, <2>2, <2>4, <2>5, <2>6, <2>7
<1>7. 0..Len(v) \subseteq good /\ Len(v) \in 0..Len(v)
  <2> HIDE DEF good
  <2>1. 0..Len(v) \subseteq good
    BY <1>1, <1>5, <1>6, UpTo
  <2>2. Len(v) \in 0..Len(v)
    BY <1>1
  <2> QED BY <2>1, <2>2
<1> HIDE DEF J
<1>8. J(u \o v) = J(u) \o J(v)
  BY <1>1, <1>7
<1> QED BY <1>8 DEF J, Distributes

LEMMA PieceOfOne ==
    ASSUME NEW S, NEW T, NEW piece \in [S -> Seq(T)], NEW x \in S
    PROVE  FlattenSeq(Pieces(piece, <<x>>)) = piece[x]
<1>1. Pieces(piece, <<>>) = <<>> /\ <<>> \in Seq(S) /\ <<>> \o <<x>> = <<x>> /\ piece[x] \in Seq(T)
  BY DEF Pieces
<1>2. FlattenSeq(Pieces(piece, <<>> \o <<x>>)) = FlattenSeq(Pieces(piece, <<>>)) \o piece[x]
  BY <1>1, PiecesGrow
<1>3. <<>> \o piece[x] = piece[x]
  BY <1>1
<1> QED BY <1>1, <1>2, <1>3, NothingJoined

(* What is made of joined sequences is joined from what is made of each.   *)
LEMMA PiecesFlatten ==
    ASSUME NEW S, NEW T, NEW piece \in [S -> Seq(T)], NEW ss \in Seq(Seq(S))
    PROVE  /\ FlattenSeq(Pieces(piece, FlattenSeq(ss)))
                = FlattenSeq([i \in DOMAIN ss |-> FlattenSeq(Pieces(piece, ss[i]))])
           /\ FlattenSeq(ss) \in Seq(S)
<1> DEFINE J(s) == FlattenSeq(Pieces(piece, s))
           ts == [i \in DOMAIN ss |-> J(ss[i])]
           good == {k \in 0..Len(ss) : J(FlattenSeq(SubSeq(ss, 1, k))) = FlattenSeq(SubSeq(ts, 1, k))}
<1>1. Len(ss) \in Nat /\ DOMAIN ss = 1..Len(ss) /\ \A i \in 1..Len(ss) : ss[i] \in Seq(S)
  OBVIOUS
<1>2. \A s \in Seq(S) : J(s) \in Seq(T)
  BY PiecesTyped
<1>3. ts \in Seq(Seq(T)) /\ Len(ts) = Len(ss) /\ \A i \in 1..Len(ss) : ts[i] = J(ss[i])
  <2> HIDE DEF J
  <2> QED BY <1>1, <1>2
<1>4. J(<<>>) = <<>>
  <2>1. Pieces(piece, <<>>) = <<>>
    BY DEF Pieces
  <2> QED BY <2>1, NothingJoined
<1> HIDE DEF ts
<1>5. 0 \in good
  <2> HIDE DEF J
  <2> QED BY <1>1, <1>3, <1>4, FlattenEnds
<1>6. ASSUME NEW k \in 0..Len(ss), k < Len(ss), k \in good PROVE k + 1 \in good
  <2> DEFINE joined(s, n) == FlattenSeq(SubSeq(s, 1, n))
  <2>1. joined(ss, k) \in Seq(S) /\ joined(ss, k + 1) = joined(ss, k) \o ss[k + 1]
    BY <1>6, FlattenPrefix
  <2>2. joined(ts, k + 1) = joined(ts, k) \o ts[k + 1]
    BY <1>3, <1>6, FlattenPrefix
  <2>3. k + 1 \in 1..Len(ss)
    BY <1>1, <1>6
  <2> HIDE DEF joined
  <2>4. J(joined(ss, k) \o ss[k + 1]) = J(joined(ss, k)) \o J(ss[k + 1])
    <3>1. ss[k + 1] \in Seq(S)
      BY <1>1, <2>3
    <3>2. Distributes(piece, joined(ss, k), ss[k + 1])
      BY <2>1, <3>1, PiecesJoin
    <3> QED BY <3>2 DEF Distributes
  <2> HIDE DEF J
  <2>5. J(joined(ss, k)) = joined(ts, k)
    BY <1>6 DEF joined
  <2>6. ts[k + 1] = J(ss[k + 1]) /\ k + 1 \in 0..Len(ss)
    BY <1>3, <2>3
  <2>7. J(joined(ss, k + 1)) = joined(ts, k + 1)
    BY <2>1, <2>2, <2>4, <2>5, <2>6
  <2> QED BY <2>6, <2>7 DEF joined
<1>7. 0..Len(ss) \subseteq good /\ Len(ss) \in 0..Len(ss)
  <2> HIDE DEF good
  <2>1. 0..Len(ss) \subseteq good
    BY <1>1, <1>5, <1>6, UpTo
  <2>2. Len(ss) \in 0..Len(ss)
    BY <1>1
  <2> QED BY <2>1, <2>2
<1> HIDE DEF J
<1>8. J(FlattenSeq(ss)) = FlattenSeq(ts)
  <2>1. FlattenSeq(SubSeq(ss, 1, Len(ss))) = FlattenSeq(ss) /\ FlattenSeq(SubSeq(ts, 1, Len(ss))) = FlattenSeq(ts)
    BY <1>3, FlattenEnds
  <2> QED BY <1>7, <2>1
<1>9. FlattenSeq(ss) \in Seq(S)
  <2>1. <<>> \in Seq(S)
    OBVIOUS
  <2> QED BY <2>1, FlattenAppend
<1> QED BY <1>8, <1>9 DEF J, ts

(* Of pieces of at most one element, each element that is joined is that   *)
(* of one piece, in their order.                                           *)
Places(at, s, joined) ==
    /\ at \in [DOMAIN joined -> DOMAIN s]
    /\ \A n \in DOMAIN joined : s[at[n]] = <<joined[n]>>
    /\ \A n, k \in DOMAIN joined : n < k => at[n] < at[k]
    /\ \A i \in DOMAIN s : s[i] # <<>> => \E n \in DOMAIN joined : at[n] = i

LEMMA FlattenPlaces ==
    ASSUME NEW S, NEW s \in Seq(Seq(S)), \A i \in DOMAIN s : s[i] = <<>> \/ \E x : s[i] = <<x>>
    PROVE  \E at : Places(at, s, FlattenSeq(s))
<1> DEFINE joined(k) == FlattenSeq(SubSeq(s, 1, k))
           good == {k \in 0..Len(s) : \E at : Places(at, SubSeq(s, 1, k), joined(k))}
<1>1. Len(s) \in Nat /\ joined(0) = <<>> /\ joined(Len(s)) = FlattenSeq(s)
      /\ SubSeq(s, 1, 0) = <<>> /\ SubSeq(s, 1, Len(s)) = s
  BY FlattenEnds
<1>2. 0 \in good
  <2>1. Places([n \in DOMAIN <<>> |-> 0], <<>>, <<>>)
    BY DEF Places
  <2>2. 0 \in 0..Len(s)
    BY <1>1
  <2> HIDE DEF joined
  <2> QED BY <1>1, <2>1, <2>2
<1>3. ASSUME NEW k \in 0..Len(s), k < Len(s), k \in good PROVE k + 1 \in good
  <2> DEFINE p == SubSeq(s, 1, k)
             q == SubSeq(s, 1, k + 1)
             u == joined(k)
             v == joined(k + 1)
  <2>1. u \in Seq(S) /\ v = u \o s[k + 1]
    BY <1>3, FlattenPrefix
  <2>2. k + 1 \in 1..Len(s) /\ k + 1 \in 0..Len(s) /\ Len(u) \in Nat /\ DOMAIN u = 1..Len(u)
    BY <1>1, <1>3, <2>1
  <2>3. /\ DOMAIN p = 1..k /\ DOMAIN q = 1..(k + 1) /\ q[k + 1] = s[k + 1]
        /\ \A i \in 1..k : p[i] = s[i] /\ q[i] = s[i]
    BY <1>3
  <2>4. PICK at : Places(at, p, u)
    BY <1>3
  <2> HIDE DEF joined, p, q, u, v
  <2>5. /\ at \in [1..Len(u) -> 1..k]
        /\ \A n \in 1..Len(u) : s[at[n]] = <<u[n]>>
        /\ \A n, m \in 1..Len(u) : n < m => at[n] < at[m]
        /\ \A i \in 1..k : s[i] # <<>> => \E n \in 1..Len(u) : at[n] = i
    BY <2>2, <2>3, <2>4 DEF Places
  <2>6. CASE s[k + 1] = <<>>
    <3>1. v = u
      BY <2>1, <2>6
    <3>2. at \in [1..Len(u) -> 1..(k + 1)]
      BY <1>3, <2>5
    <3>3. \A n \in 1..Len(u) : q[at[n]] = <<u[n]>>
      BY <2>3, <2>5
    <3>4. ASSUME NEW i \in 1..(k + 1), q[i] # <<>> PROVE \E n \in 1..Len(u) : at[n] = i
      <4>1. i # k + 1
        BY <2>3, <2>6, <3>4
      <4>2. i \in 1..k
        BY <1>3, <4>1
      <4> QED BY <2>3, <2>5, <3>4, <4>2
    <3>5. Places(at, q, v)
      BY <2>2, <2>3, <2>5, <3>1, <3>2, <3>3, <3>4 DEF Places
    <3> QED BY <2>2, <3>5 DEF q, v
  <2>7. CASE s[k + 1] # <<>>
    <3>1. PICK x : s[k + 1] = <<x>>
      BY <2>2, <2>7
    <3>2. x \in S
      <4>1. s[k + 1] \in Seq(S)
        BY <2>2
      <4>2. Len(<<x>>) = 1 /\ <<x>>[1] = x
        OBVIOUS
      <4> QED BY <3>1, <4>1, <4>2
    <3>3. DOMAIN v = 1..(Len(u) + 1) /\ v[Len(u) + 1] = x /\ \A n \in 1..Len(u) : v[n] = u[n]
      BY <2>1, <3>1, <3>2
    <3> DEFINE to == [n \in 1..(Len(u) + 1) |-> IF n = Len(u) + 1 THEN k + 1 ELSE at[n]]
    <3>4. to \in [1..(Len(u) + 1) -> 1..(k + 1)]
      BY <1>3, <2>2, <2>5
    <3>5. ASSUME NEW n \in 1..(Len(u) + 1) PROVE q[to[n]] = <<v[n]>>
      <4>1. CASE n = Len(u) + 1
        BY <2>3, <3>1, <3>3, <4>1
      <4>2. CASE n # Len(u) + 1
        <5>1. n \in 1..Len(u) /\ to[n] = at[n]
          <6>1. to[n] = at[n]
            BY <4>2
          <6>2. n \in 1..Len(u)
            BY <2>2, <4>2
          <6> QED BY <6>1, <6>2
        <5>2. at[n] \in 1..k
          BY <2>5, <5>1
        <5> HIDE DEF to
        <5>3. q[at[n]] = s[at[n]]
          BY <2>3, <5>2, Zenon
        <5>4. s[at[n]] = <<u[n]>> /\ v[n] = u[n]
          BY <2>5, <3>3, <5>1, Zenon
        <5> QED BY <5>1, <5>3, <5>4, Zenon
      <4> QED BY <4>1, <4>2
    <3>6. ASSUME NEW n \in 1..(Len(u) + 1), NEW m \in 1..(Len(u) + 1), n < m PROVE to[n] < to[m]
      <4>1. n \in 1..Len(u) /\ to[n] = at[n] /\ at[n] \in 1..k
        <5>1. n \in 1..Len(u) /\ n # Len(u) + 1
          BY <2>2, <3>6
        <5>2. to[n] = at[n]
          BY <5>1
        <5>3. at[n] \in 1..k
          BY <2>5, <5>1
        <5> QED BY <5>1, <5>2, <5>3
      <4>2. CASE m = Len(u) + 1
        BY <1>3, <4>1, <4>2
      <4>3. CASE m # Len(u) + 1
        <5>1. m \in 1..Len(u) /\ to[m] = at[m]
          BY <2>2, <4>3
        <5> QED BY <2>5, <3>6, <4>1, <5>1
      <4> QED BY <4>2, <4>3
    <3>7. ASSUME NEW i \in 1..(k + 1), q[i] # <<>> PROVE \E n \in 1..(Len(u) + 1) : to[n] = i
      <4>1. CASE i = k + 1
        BY <2>2, <4>1
      <4>2. CASE i # k + 1
        <5>1. i \in 1..k /\ s[i] # <<>>
          BY <1>3, <2>3, <3>7, <4>2
        <5>2. PICK n \in 1..Len(u) : at[n] = i
          BY <2>5, <5>1
        <5>3. n \in 1..(Len(u) + 1) /\ to[n] = i
          BY <2>2, <5>2
        <5> QED BY <5>3
      <4> QED BY <4>1, <4>2
    <3> HIDE DEF to
    <3>8. Places(to, q, v)
      BY <2>3, <3>3, <3>4, <3>5, <3>6, <3>7 DEF Places
    <3> QED BY <2>2, <3>8 DEF q, v
  <2> QED BY <2>6, <2>7
<1>4. 0..Len(s) \subseteq good /\ Len(s) \in 0..Len(s)
  <2> HIDE DEF good
  <2>1. 0..Len(s) \subseteq good
    BY <1>1, <1>2, <1>3, UpTo
  <2>2. Len(s) \in 0..Len(s)
    BY <1>1
  <2> QED BY <2>1, <2>2
<1> HIDE DEF joined
<1> QED BY <1>1, <1>4

-----------------------------------------------------------------------------
(* Joining one piece, none, or pieces of one element.                      *)
LEMMA FlattenOne == ASSUME NEW S, NEW e \in Seq(S) PROVE FlattenSeq(<<e>>) = e
<1>1. <<>> \in Seq(Seq(S)) /\ Append(<<>>, e) = <<e>> /\ <<>> \o e = e
  OBVIOUS
<1>2. FlattenSeq(Append(<<>>, e)) = FlattenSeq(<<>>) \o e
  BY <1>1, FlattenAppend
<1> QED BY <1>1, <1>2, NothingJoined

LEMMA FlattenNothing ==
    ASSUME NEW S, NEW s \in Seq(Seq(S)), \A i \in DOMAIN s : s[i] = <<>> PROVE FlattenSeq(s) = <<>>
<1>1. \A i \in 1..Len(s) : ToSet(s[i]) = {}
  BY DEF ToSet
<1>2. <<>> \in Seq(S)
  OBVIOUS
<1>3. FlattenSeq(s) \in Seq(S) /\ ToSet(FlattenSeq(s)) = UNION {ToSet(s[i]) : i \in 1..Len(s)}
  BY <1>2, FlattenAppend, FlattenRange
<1>4. ToSet(FlattenSeq(s)) = {}
  BY <1>1, <1>3
<1>5. \A t \in Seq(S) : ToSet(t) = {} => t = <<>>
  <2> SUFFICES ASSUME NEW t \in Seq(S), ToSet(t) = {} PROVE t = <<>>
    OBVIOUS
  <2>1. \A i \in 1..Len(t) : FALSE
    BY DEF ToSet
  <2>2. Len(t) = 0
    BY <2>1
  <2> QED BY <2>2
<1> QED BY <1>3, <1>4, <1>5

LEMMA FlattenSingles ==
    ASSUME NEW S, NEW s \in Seq(S) PROVE FlattenSeq([i \in DOMAIN s |-> <<s[i]>>]) = s
<1> DEFINE ss == [i \in DOMAIN s |-> <<s[i]>>]
           joined(k) == FlattenSeq(SubSeq(ss, 1, k))
           good == {k \in 0..Len(s) : joined(k) = SubSeq(s, 1, k)}
<1>1. ss \in Seq(Seq(S)) /\ Len(ss) = Len(s) /\ Len(s) \in Nat /\ \A i \in 1..Len(s) : ss[i] = <<s[i]>>
  <2>1. Len(s) \in Nat /\ DOMAIN s = 1..Len(s) /\ \A i \in 1..Len(s) : s[i] \in S
    OBVIOUS
  <2>2. \A x \in S : <<x>> \in Seq(S)
    OBVIOUS
  <2>3. \A i \in 1..Len(s) : <<s[i]>> \in Seq(S)
    BY <2>1, <2>2
  <2>4. [i \in 1..Len(s) |-> <<s[i]>>] \in Seq(Seq(S))
    BY <2>1, <2>3
  <2>5. ss \in Seq(Seq(S)) /\ DOMAIN ss = 1..Len(s) /\ \A i \in 1..Len(s) : ss[i] = <<s[i]>>
    BY <2>1, <2>4
  <2> HIDE DEF ss
  <2> QED BY <2>1, <2>5
<1>2. SubSeq(s, 1, 0) = <<>> /\ SubSeq(s, 1, Len(s)) = s
  OBVIOUS
<1> HIDE DEF ss
<1>3. joined(0) = <<>> /\ joined(Len(s)) = FlattenSeq(ss)
  BY <1>1, FlattenEnds
<1>4. 0 \in good
  <2>1. 0 \in 0..Len(s)
    BY <1>1
  <2> HIDE DEF joined
  <2> QED BY <1>2, <1>3, <2>1
<1>5. ASSUME NEW k \in 0..Len(s), k < Len(s), k \in good PROVE k + 1 \in good
  <2>1. joined(k + 1) = joined(k) \o ss[k + 1]
    BY <1>1, <1>5, FlattenPrefix
  <2>2. k + 1 \in 1..Len(s) /\ k + 1 \in 0..Len(s)
    BY <1>1, <1>5
  <2>3. SubSeq(s, 1, k + 1) = SubSeq(s, 1, k) \o <<s[k + 1]>>
    BY <1>5
  <2> HIDE DEF joined
  <2>4. joined(k) = SubSeq(s, 1, k) /\ ss[k + 1] = <<s[k + 1]>>
    BY <1>1, <1>5, <2>2
  <2> QED BY <2>1, <2>2, <2>3, <2>4
<1>6. 0..Len(s) \subseteq good /\ Len(s) \in 0..Len(s)
  <2> HIDE DEF good
  <2>1. 0..Len(s) \subseteq good
    BY <1>1, <1>4, <1>5, UpTo
  <2>2. Len(s) \in 0..Len(s)
    BY <1>1
  <2> QED BY <2>1, <2>2
<1> HIDE DEF joined
<1>7. FlattenSeq(ss) = s
  BY <1>2, <1>3, <1>6
<1> QED BY <1>7 DEF ss

(* What is made of the elements that are kept is what is made of each that *)
(* is kept, and nothing of the others.                                     *)
KeptPieces(piece, s, P) ==
    /\ FlattenSeq([i \in DOMAIN s |-> IF s[i] \in P THEN <<s[i]>> ELSE <<>>]) \in Seq(P)
    /\ FlattenSeq(Pieces(piece, FlattenSeq([i \in DOMAIN s |-> IF s[i] \in P THEN <<s[i]>> ELSE <<>>])))
         = FlattenSeq([i \in DOMAIN s |-> IF s[i] \in P THEN piece[s[i]] ELSE <<>>])

LEMMA PiecesOfKept ==
    ASSUME NEW S, NEW T, NEW P, NEW piece \in [P -> Seq(T)], NEW s \in Seq(S)
    PROVE  KeptPieces(piece, s, P)
<1> DEFINE ss == [i \in DOMAIN s |-> IF s[i] \in P THEN <<s[i]>> ELSE <<>>]
           made(t) == FlattenSeq(Pieces(piece, t))
           each == [i \in DOMAIN s |-> IF s[i] \in P THEN piece[s[i]] ELSE <<>>]
<1>1. ss \in Seq(Seq(P)) /\ DOMAIN ss = DOMAIN s
  <2>1. Len(s) \in Nat /\ DOMAIN s = 1..Len(s)
    OBVIOUS
  <2>2. <<>> \in Seq(P) /\ \A x \in P : <<x>> \in Seq(P)
    OBVIOUS
  <2>3. [i \in 1..Len(s) |-> IF s[i] \in P THEN <<s[i]>> ELSE <<>>] \in Seq(Seq(P))
    BY <2>1, <2>2
  <2> QED BY <2>1, <2>3
<1>2. \A i \in DOMAIN s : ss[i] = IF s[i] \in P THEN <<s[i]>> ELSE <<>>
  OBVIOUS
<1>3. ASSUME NEW x \in P PROVE made(<<x>>) = piece[x]
  BY PieceOfOne
<1>4. made(<<>>) = <<>>
  <2>1. Pieces(piece, <<>>) = <<>>
    BY DEF Pieces
  <2> QED BY <2>1, NothingJoined
<1> HIDE DEF ss
<1>5. made(FlattenSeq(ss)) = FlattenSeq([i \in DOMAIN ss |-> made(ss[i])]) /\ FlattenSeq(ss) \in Seq(P)
  BY <1>1, PiecesFlatten
<1> HIDE DEF made
<1>6. \A i \in DOMAIN s : made(ss[i]) = IF s[i] \in P THEN piece[s[i]] ELSE <<>>
  BY <1>2, <1>3, <1>4
<1>7. [i \in DOMAIN ss |-> made(ss[i])] = each
  BY <1>1, <1>6
<1> HIDE DEF each
<1>8. made(FlattenSeq(ss)) = FlattenSeq(each) /\ FlattenSeq(ss) \in Seq(P)
  BY <1>5, <1>7
<1> QED BY <1>8 DEF KeptPieces, ss, made, each

-----------------------------------------------------------------------------
(* The last Len(s) elements of t are s.                                    *)
LEMMA SuffixOf ==
    ASSUME NEW S, NEW s \in Seq(S), NEW t \in Seq(S), NEW n \in Nat, Len(t) = n + Len(s),
           \A k \in 1..Len(s) : t[n + k] = s[k]
    PROVE  IsSuffix(s, t)
<1> DEFINE m == Len(s)
           rs == Reverse(s)
           rt == Reverse(t)
<1>1. m \in Nat /\ Len(t) = n + m
  OBVIOUS
<1>2. rs \in Seq(S) /\ Len(rs) = m /\ \A i \in 1..m : rs[i] = s[m - i + 1]
  BY DEF Reverse
<1>3. rt \in Seq(S) /\ Len(rt) = n + m /\ \A i \in 1..(n + m) : rt[i] = t[n + m - i + 1]
  BY <1>1 DEF Reverse
<1>4. \A i \in 1..m : rs[i] = rt[i]
  <2> HIDE DEF rs, rt
  <2> SUFFICES ASSUME NEW i \in 1..m PROVE rs[i] = rt[i]
    OBVIOUS
  <2>1. m - i + 1 \in 1..m /\ i \in 1..(n + m) /\ n + m - i + 1 = n + (m - i + 1)
    BY <1>1
  <2> QED BY <1>2, <1>3, <2>1
<1> HIDE DEF rs, rt, m
<1>5. SubSeq(rs, 1, m) = SubSeq(rt, 1, m)
  BY <1>1, <1>2, <1>3, <1>4
<1> QED BY <1>1, <1>2, <1>3, <1>5 DEF IsSuffix, IsPrefix, rs, rt
=============================================================================
