-------------------------- MODULE KnowledgeTextProofs --------------------------
(***************************************************************************)
(* Whatever a document, a page or a sheet holds, its chunks, its spans and *)
(* its row texts have all of it. The recursive functions that compute them *)
(* are followed by induction on the natural numbers, as sets: the library  *)
(* states that every set of them has a least one.                          *)
(***************************************************************************)
EXTENDS KnowledgeText, SequenceTheorems, FiniteSetTheorems, WellFoundedInduction, TLAPS

LessThan == {p \in Nat \X Nat : p[1] < p[2]}

\* The natural numbers are well-founded.
LEMMA LessThanWellFounded == IsWellFoundedOn(LessThan, Nat)
<1>1. OpToRel(<, Nat) = LessThan
  BY DEF OpToRel, LessThan
<1>2. IsWellFoundedOn(OpToRel(<, Nat), Nat)
  BY NatLessThanWellFounded
<1>3. QED
  BY <1>1, <1>2, Zenon

\* A set of natural numbers has a least one.
LEMMA LeastNat ==
    ASSUME NEW T, T \subseteq Nat, T # {}
    PROVE  \E n \in T : \A m \in T : n <= m
<1>1. PICK n \in T : \A m \in T : <<m, n>> \notin LessThan
  BY LessThanWellFounded, WFMin
<1>2. ASSUME NEW m \in T PROVE n <= m
  <2>1. n \in Nat /\ m \in Nat
    OBVIOUS
  <2>2. ~(<<m, n>>[1] < <<m, n>>[2])
    BY <1>1, <2>1 DEF LessThan
  <2>3. QED
    BY <2>1, <2>2
<1>3. QED
  BY <1>2

\* A set with 0, and with the successor of each of its numbers, has all of them.
LEMMA NatInd ==
    ASSUME NEW T, 0 \in T, \A n \in Nat : n \in T => n + 1 \in T
    PROVE  \A n \in Nat : n \in T
<1> SUFFICES ASSUME Nat \ T # {} PROVE FALSE
  OBVIOUS
<1>1. PICK n \in Nat \ T : \A m \in Nat \ T : n <= m
  BY LeastNat
<1>2. n # 0 /\ n - 1 \in Nat
  OBVIOUS
<1>3. n - 1 \in T
  BY <1>1, <1>2
<1>4. QED
  BY <1>1, <1>2, <1>3

\* g goes from a in N steps, each of which D takes in S.
IsRun(g, a, N, S, D) ==
    g \in [0..N -> S] /\ g[0] = a /\ \A n \in 1..N : g[n] = D[<<n, g[n - 1]>>]

\* Whatever the steps are, there is a function that takes them.
LEMMA StepsExist ==
    ASSUME NEW S, NEW a \in S, NEW N \in Nat, NEW D \in [(1..N) \X S -> S]
    PROVE  \E g : IsRun(g, a, N, S, D)
<1> DEFINE T == {k \in Nat : k <= N =>
                    \E g \in [0..k -> S] : g[0] = a /\ \A n \in 1..k : g[n] = D[<<n, g[n - 1]>>]}
<1>1. 0 \in T
  <2> DEFINE g == [n \in 0..0 |-> a]
  <2>1. g \in [0..0 -> S] /\ g[0] = a /\ \A n \in 1..0 : g[n] = D[<<n, g[n - 1]>>]
    OBVIOUS
  <2> HIDE DEF g
  <2>2. QED
    BY <2>1
<1>2. ASSUME NEW k \in Nat, k \in T PROVE k + 1 \in T
  <2>1. SUFFICES ASSUME k + 1 <= N
                 PROVE  \E g \in [0..(k + 1) -> S] :
                           g[0] = a /\ \A n \in 1..(k + 1) : g[n] = D[<<n, g[n - 1]>>]
    OBVIOUS
  <2>2. PICK f \in [0..k -> S] : f[0] = a /\ \A n \in 1..k : f[n] = D[<<n, f[n - 1]>>]
    BY <1>2, <2>1
  <2> DEFINE g == [n \in 0..(k + 1) |-> IF n = k + 1 THEN D[<<k + 1, f[k]>>] ELSE f[n]]
  <2>3. D[<<k + 1, f[k]>>] \in S
    BY <2>1
  <2>4. g \in [0..(k + 1) -> S]
    BY <2>3
  <2>5. g[0] = a /\ g[k] = f[k] /\ g[k + 1] = D[<<k + 1, f[k]>>]
    BY <2>2
  <2>6. ASSUME NEW n \in 1..k PROVE g[n] = f[n] /\ g[n - 1] = f[n - 1]
    OBVIOUS
  <2> HIDE DEF g
  <2>7. ASSUME NEW n \in 1..(k + 1) PROVE g[n] = D[<<n, g[n - 1]>>]
    <3>1. CASE n = k + 1
      BY <2>5, <3>1
    <3>2. CASE n \in 1..k
      BY <2>2, <2>6, <3>2
    <3>3. QED
      BY <3>1, <3>2
  <2>8. QED
    BY <2>4, <2>5, <2>7
<1> HIDE DEF T
<1>3. N \in T
  BY <1>1, <1>2, NatInd
<1>4. QED
  BY <1>3 DEF T, IsRun

\* What holds of a function at 0, and at n if it does at n - 1, holds throughout.
LEMMA StepsStay ==
    ASSUME NEW S, NEW f, NEW N \in Nat, f[0] \in S,
           \A n \in 1..N : f[n - 1] \in S => f[n] \in S
    PROVE  \A n \in 0..N : f[n] \in S
<1> DEFINE T == {n \in Nat : n <= N => f[n] \in S}
<1>1. 0 \in T
  OBVIOUS
<1>2. ASSUME NEW n \in Nat, n \in T PROVE n + 1 \in T
  <2>1. SUFFICES ASSUME n + 1 <= N PROVE f[n + 1] \in S
    OBVIOUS
  <2>2. n + 1 \in 1..N /\ (n + 1) - 1 = n /\ n <= N
    BY <2>1
  <2>3. QED
    BY <1>2, <2>2
<1> HIDE DEF T
<1>3. \A n \in Nat : n \in T
  BY <1>1, <1>2, NatInd
<1>4. QED
  BY <1>3 DEF T

-----------------------------------------------------------------------------
(* Documents. S are the sentences there may be.                             *)

Pieces(S) == [of : S, from : Nat, to : Nat]
ScanStates(S) == [chunks : Seq(Seq(Pieces(S))), window : Seq(Pieces(S))]

IsSentences(S) == \A s \in S : s.len \in Nat \ {0} /\ s.inside \subseteq 1..(s.len - 1)

\* The length of a window is an integer, and that of one piece is the piece's.
LEMMA WindowLength ==
    ASSUME NEW S, NEW w \in Seq(Pieces(S))
    PROVE  /\ windowLen(w) \in Int
           /\ Len(w) = 1 => windowLen(w) = w[1].to - w[1].from
<1> DEFINE P == (1..Len(w)) \X Int
           D == [x \in P |-> x[2] + w[x[1]].to - w[x[1]].from]
           f == CHOOSE bytes : bytes = [n \in 0..Len(w) |-> IF n = 0 THEN 0
                                          ELSE bytes[n - 1] + w[n].to - w[n].from]
<1>0. Len(w) \in Nat
  OBVIOUS
<1>1. \A n \in 1..Len(w) : w[n].to \in Nat /\ w[n].from \in Nat
  <2>1. \A n \in 1..Len(w) : w[n] \in Pieces(S)
    OBVIOUS
  <2>2. QED
    BY <2>1 DEF Pieces
<1>2. D \in [P -> Int]
  BY <1>1
<1>3. ASSUME NEW n \in 1..Len(w), NEW x \in Int PROVE D[<<n, x>>] = x + w[n].to - w[n].from
  BY <1>1
<1> HIDE DEF D
<1>4. PICK g : IsRun(g, 0, Len(w), Int, D)
  <2>1. 0 \in Int
    OBVIOUS
  <2>2. QED
    BY <1>0, <1>2, <2>1, StepsExist, Zenon
<1>5. g = [n \in 0..Len(w) |-> IF n = 0 THEN 0 ELSE g[n - 1] + w[n].to - w[n].from]
  <2>1. ASSUME NEW n \in 0..Len(w), n # 0 PROVE g[n] = g[n - 1] + w[n].to - w[n].from
    <3>1. n \in 1..Len(w) /\ n - 1 \in 0..Len(w)
      BY <1>0, <2>1
    <3>2. QED
      BY <1>3, <1>4, <3>1 DEF IsRun
  <2>2. QED
    BY <1>4, <2>1 DEF IsRun
<1>6. f = [n \in 0..Len(w) |-> IF n = 0 THEN 0 ELSE f[n - 1] + w[n].to - w[n].from]
  BY <1>5
<1>7. windowLen(w) = IF w = <<>> THEN 0 ELSE f[Len(w)] + Len(w) - 1
  BY DEF windowLen
<1> HIDE DEF f
<1>8. f[0] = 0 /\ \A n \in 1..Len(w) : f[n] = f[n - 1] + w[n].to - w[n].from
  BY <1>0, <1>6
<1>9. \A n \in 0..Len(w) : f[n] \in Int
  <2>1. ASSUME NEW n \in 1..Len(w), f[n - 1] \in Int PROVE f[n] \in Int
    <3>1. f[n] = f[n - 1] + w[n].to - w[n].from /\ w[n].to \in Nat /\ w[n].from \in Nat
      BY <1>1, <1>8
    <3>2. QED
      BY <2>1, <3>1
  <2>2. f[0] \in Int
    BY <1>8
  <2>3. QED
    BY ONLY <1>0, <2>1, <2>2, StepsStay
<1>10. windowLen(w) \in Int
  BY <1>0, <1>7, <1>9
<1>11. ASSUME Len(w) = 1 PROVE windowLen(w) = w[1].to - w[1].from
  <2>0. w # <<>>
    BY <1>11, EmptySeq
  <2>1. 1 \in 1..Len(w) /\ 1 - 1 = 0
    BY <1>11
  <2>2. f[1] = f[0] + w[1].to - w[1].from
    BY <1>8, <2>1
  <2>3. w[1].to \in Nat /\ w[1].from \in Nat
    BY <1>1, <2>1
  <2>4. QED
    BY <1>7, <1>8, <1>11, <2>0, <2>2, <2>3
<1>12. QED
  BY <1>10, <1>11

\* What each step of the scan gives is chunks and a window of pieces.
LEMMA WholeType == ASSUME NEW S, IsSentences(S), NEW s \in S PROVE Whole(s) \in Pieces(S)
  BY DEF Whole, Pieces, IsSentences

\* A sentence longer than a chunk has slices of its size, the last one shorter.
LEMMA SlicesType ==
    ASSUME NEW S, IsSentences(S), NEW s \in S, NEW size \in Nat \ {0}, s.len > size
    PROVE  LET n == (s.len - 1) \div size + 1
               slices == Slices(s, size)
           IN  /\ n \in Nat /\ n >= 2 /\ (n - 1) * size < s.len /\ s.len <= n * size
               /\ slices \in Seq(Seq(Pieces(S))) /\ Len(slices) = n
               /\ \A i \in 1..n : slices[i] = <<[of |-> s, from |-> (i - 1) * size,
                                        to |-> IF i * size > s.len THEN s.len ELSE i * size]>>
<1> DEFINE n == (s.len - 1) \div size + 1
           p(i) == [of |-> s, from |-> (i - 1) * size, to |-> IF i * size > s.len THEN s.len ELSE i * size]
<1>1. s.len \in Nat /\ s.len > size
  BY DEF IsSentences
<1>2. ASSUME NEW m \in Nat, m >= size
      PROVE  /\ m \div size \in Nat /\ m \div size >= 1
             /\ (m \div size) * size <= m /\ m < (m \div size) * size + size
  BY <1>2
<1>3. n \in Nat /\ n >= 2 /\ (n - 1) * size < s.len /\ s.len <= n * size
  BY <1>1, <1>2
<1>4. \A i \in 1..n : p(i) \in Pieces(S)
  BY <1>1, <1>3 DEF Pieces
<1>5. Slices(s, size) = [i \in 1..n |-> <<p(i)>>]
  BY DEF Slices
<1> HIDE DEF n, p
<1>6. \A i \in 1..n : <<p(i)>> \in Seq(Pieces(S))
  BY <1>4
<1>7. Slices(s, size) \in Seq(Seq(Pieces(S))) /\ Len(Slices(s, size)) = n
  BY <1>3, <1>5, <1>6
<1>8. QED
  BY <1>3, <1>5, <1>7 DEF n, p

\* What is kept of a window is a window, and there is room behind it.
LEMMA SlideFits ==
    ASSUME NEW S, IsSentences(S), NEW s \in S, NEW size \in Nat \ {0}, NEW overlap \in Nat,
           s.len <= size, NEW w \in Seq(Pieces(S)), w # <<>>
    PROVE  LET kept == Slide(w, s, size, overlap)
           IN  kept \in Seq(Pieces(S)) /\ windowLen(Append(kept, Whole(s))) <= size
<1> DEFINE tail(k) == SubSeq(w, k + 1, Len(w))
           T == {n \in 0..(Len(w) - 1) : n = Len(w) - 1 \/ windowLen(tail(n)) <= overlap}
           k == CHOOSE n \in 0..(Len(w) - 1) :
                   /\ n = Len(w) - 1 \/ windowLen(tail(n)) <= overlap
                   /\ \A m \in 0..(n - 1) : windowLen(tail(m)) > overlap
<1>1. Len(w) \in Nat \ {0}
  BY EmptySeq
<1>2. ASSUME NEW n \in 0..(Len(w) - 1) PROVE tail(n) \in Seq(Pieces(S)) /\ windowLen(tail(n)) \in Int
  <2>1. \A i \in (n + 1)..Len(w) : w[i] \in Pieces(S)
    BY <1>1
  <2>2. tail(n) \in Seq(Pieces(S))
    BY <1>1, <2>1, SubSeqProperties
  <2>3. QED
    BY <2>2, WindowLength
<1>3. \E n \in 0..(Len(w) - 1) :
         /\ n = Len(w) - 1 \/ windowLen(tail(n)) <= overlap
         /\ \A m \in 0..(n - 1) : windowLen(tail(m)) > overlap
  <2>1. Len(w) - 1 \in T /\ T \subseteq Nat
    BY <1>1
  <2> HIDE DEF T
  <2>2. PICK n \in T : \A m \in T : n <= m
    BY <2>1, LeastNat
  <2>3. n \in 0..(Len(w) - 1) /\ (n = Len(w) - 1 \/ windowLen(tail(n)) <= overlap)
    BY DEF T
  <2>4. ASSUME NEW m \in 0..(n - 1) PROVE windowLen(tail(m)) > overlap
    <3>1. m \in 0..(Len(w) - 1) /\ m \notin T
      BY <1>1, <2>2, <2>3
    <3>2. ~(windowLen(tail(m)) <= overlap)
      BY <3>1 DEF T
    <3>3. QED
      BY <1>2, <3>1, <3>2
  <2>5. QED
    BY <2>3, <2>4
<1>4. k \in 0..(Len(w) - 1)
  BY <1>3
<1>5. Slide(w, s, size, overlap) = IF overlap = 0 \/ ~Fits(tail(k), s, size) THEN <<>> ELSE tail(k)
  BY DEF Slide
<1>6. Fits(tail(k), s, size) <=> windowLen(Append(tail(k), Whole(s))) <= size
  BY DEF Fits
<1> HIDE DEF k, tail
<1>7. windowLen(Append(<<>>, Whole(s))) <= size
  <2>1. Append(<<>>, Whole(s)) \in Seq(Pieces(S)) /\ Len(Append(<<>>, Whole(s))) = 1
        /\ Append(<<>>, Whole(s))[1] = Whole(s)
    BY WholeType
  <2>2. windowLen(Append(<<>>, Whole(s))) = Whole(s).to - Whole(s).from
    BY <2>1, WindowLength
  <2>3. QED
    BY <2>2 DEF Whole, IsSentences
<1>8. QED
  BY <1>2, <1>4, <1>5, <1>6, <1>7, EmptySeq

Fitted(st, next, s) == next.chunks = st.chunks /\ next.window = Append(st.window, Whole(s))

Slid(st, next, s, S) ==
    /\ st.window # <<>> /\ next.chunks = Append(st.chunks, st.window)
    /\ \E kept \in Seq(Pieces(S)) : next.window = Append(kept, Whole(s))

Cut(st, next, s, size) ==
    LET slices == Slices(s, size)
    IN  /\ s.len > size
        /\ next.chunks = Flush(st.chunks, st.window) \o Front(slices)
        /\ next.window = Last(slices)

\* A sentence is added to the window, or to what is kept of it, or cut.
LEMMA AddSentenceCases ==
    ASSUME NEW S, IsSentences(S), NEW s \in S, NEW size \in Nat \ {0}, NEW overlap \in Nat,
           NEW st \in ScanStates(S), NEW next, next = AddSentence(st, s, size, overlap)
    PROVE  /\ next = [chunks |-> next.chunks, window |-> next.window]
           /\ \/ Fitted(st, next, s) /\ windowLen(next.window) <= size
              \/ Slid(st, next, s, S) /\ windowLen(next.window) <= size
              \/ Cut(st, next, s, size)
<1>1. st.window \in Seq(Pieces(S)) /\ st = [chunks |-> st.chunks, window |-> st.window]
  BY DEF ScanStates
<1>2. s.len \in Nat
  BY DEF IsSentences
<1>3. CASE s.len > size
  <2>1. next = [chunks |-> Flush(st.chunks, st.window) \o Front(Slices(s, size)),
                window |-> Last(Slices(s, size))]
    BY <1>2, <1>3 DEF AddSentence
  <2>2. QED
    BY <1>3, <2>1 DEF Cut
<1>4. CASE s.len <= size /\ Fits(st.window, s, size)
  <2>1. next = [st EXCEPT !.window = Append(st.window, Whole(s))]
    BY <1>2, <1>4 DEF AddSentence
  <2>2. next.chunks = st.chunks /\ next.window = Append(st.window, Whole(s))
    BY <1>1, <2>1
  <2>3. next = [chunks |-> next.chunks, window |-> next.window]
    BY <1>1, <2>1
  <2>4. QED
    BY <1>4, <2>2, <2>3 DEF Fitted, Fits
<1>5. CASE s.len <= size /\ ~Fits(st.window, s, size)
  <2> DEFINE kept == Slide(st.window, s, size, overlap)
  <2>0. ~(s.len > size)
    BY <1>2, <1>5
  <2>1. next = [chunks |-> Flush(st.chunks, st.window), window |-> Append(kept, Whole(s))]
    BY <1>5, <2>0, Zenon DEF AddSentence
  <2>2. st.window # <<>>
    <3>1. SUFFICES ASSUME st.window = <<>> PROVE FALSE
      OBVIOUS
    <3>2. Append(<<>>, Whole(s)) \in Seq(Pieces(S)) /\ Len(Append(<<>>, Whole(s))) = 1
          /\ Append(<<>>, Whole(s))[1] = Whole(s)
      BY WholeType
    <3>3. windowLen(Append(<<>>, Whole(s))) = Whole(s).to - Whole(s).from
      BY <3>2, WindowLength
    <3>4. QED
      BY <1>2, <1>5, <3>1, <3>3 DEF Whole, Fits
  <2>3. kept \in Seq(Pieces(S)) /\ windowLen(Append(kept, Whole(s))) <= size
    BY <1>1, <1>5, <2>2, SlideFits
  <2> HIDE DEF kept
  <2>4. QED
    BY <2>1, <2>2, <2>3 DEF Slid, Flush
<1>6. QED
  BY <1>2, <1>3, <1>4, <1>5

\* All that is stored so far, the window last.
Full(st) == Append(st.chunks, st.window)

Ends(f, s) == f # <<>> /\ f[Len(f)] # <<>> /\ f[Len(f)][Len(f[Len(f)])].of = s

Grows(f, g) ==
    /\ Len(f) <= Len(g)
    /\ \A i \in 1..Len(f) : /\ Len(f[i]) <= Len(g[i])
                            /\ \A n \in 1..Len(f[i]) : g[i][n] = f[i][n]

Short(f, size) == \A i \in 1..Len(f) : windowLen(f[i]) <= size

Covers(f, s) ==
    \A b \in 0..(s.len - 1) :
       \E i \in 1..Len(f) : \E n \in 1..Len(f[i]) :
          f[i][n].of = s /\ f[i][n].from <= b /\ b < f[i][n].to

\* The last chunk differs from the window unless s was there before.
Differs(st, next, s) ==
    (\A i \in 1..Len(Full(st)) : \A n \in 1..Len(Full(st)[i]) : Full(st)[i][n].of # s) =>
       (next.chunks # <<>> => next.chunks[Len(next.chunks)] # next.window)

Adds(st, next, s, size, S) ==
    /\ next \in ScanStates(S)
    /\ Grows(Full(st), Full(next))
    /\ Ends(Full(next), s)
    /\ Short(Full(next), size)
    /\ Covers(Full(next), s)
    /\ Differs(st, next, s)

\* A sentence added to the window keeps what was there and is all there.
LEMMA FittedAdds ==
    ASSUME NEW S, IsSentences(S), NEW s \in S, NEW size \in Nat \ {0}, NEW st \in ScanStates(S),
           NEW next, next = [chunks |-> next.chunks, window |-> next.window],
           Short(Full(st), size), Fitted(st, next, s), windowLen(next.window) <= size
    PROVE  Adds(st, next, s, size, S)
<1> DEFINE P == Pieces(S)
           c == st.chunks
           w == st.window
           v == Append(w, Whole(s))
           f == Full(st)
           g == Full(next)
<1>1. c \in Seq(Seq(P)) /\ w \in Seq(P) /\ Whole(s) \in P
  BY WholeType DEF ScanStates
<1>2. v \in Seq(P) /\ Len(v) = Len(w) + 1 /\ v[Len(w) + 1] = Whole(s)
      /\ \A n \in 1..Len(w) : v[n] = w[n]
  BY <1>1, AppendProperties
<1>3. next.chunks = c /\ next.window = v
  BY DEF Fitted
<1>4. next \in ScanStates(S)
  BY <1>1, <1>2, <1>3 DEF ScanStates
<1>5. f \in Seq(Seq(P)) /\ Len(f) = Len(c) + 1 /\ f[Len(c) + 1] = w /\ \A i \in 1..Len(c) : f[i] = c[i]
  BY <1>1, AppendProperties DEF Full
<1>6. g \in Seq(Seq(P)) /\ Len(g) = Len(c) + 1 /\ g[Len(c) + 1] = v /\ \A i \in 1..Len(c) : g[i] = c[i]
  BY <1>1, <1>2, <1>3, AppendProperties DEF Full
<1>7. Len(c) \in Nat /\ Len(w) \in Nat /\ \A i \in 1..Len(c) : Len(c[i]) \in Nat
  BY <1>1
<1> HIDE DEF c, w, v, f, g
<1>8. Grows(f, g)
  <2>1. ASSUME NEW i \in 1..Len(f)
        PROVE  Len(f[i]) <= Len(g[i]) /\ \A n \in 1..Len(f[i]) : g[i][n] = f[i][n]
    <3>1. CASE i \in 1..Len(c)
      BY <1>5, <1>6, <1>7, <3>1
    <3>2. CASE i = Len(c) + 1
      BY <1>2, <1>5, <1>6, <1>7, <3>2
    <3>3. QED
      BY <1>5, <1>7, <3>1, <3>2
  <2>2. QED
    BY <1>5, <1>6, <1>7, <2>1 DEF Grows
<1>9. Ends(g, s)
  <2>1. g # <<>> /\ v # <<>>
    BY <1>2, <1>6, <1>7, EmptySeq
  <2>2. QED
    BY <1>2, <1>6, <1>7, <2>1 DEF Ends, Whole
<1>10. Short(g, size)
  <2>1. \A i \in 1..Len(c) : windowLen(c[i]) <= size
    BY <1>5, <1>7 DEF Short, f
  <2>2. ASSUME NEW i \in 1..Len(g) PROVE windowLen(g[i]) <= size
    <3>1. CASE i \in 1..Len(c)
      BY <1>6, <2>1, <3>1
    <3>2. CASE i = Len(c) + 1
      BY <1>3, <1>6, <3>2
    <3>3. QED
      BY <1>6, <1>7, <3>1, <3>2
  <2>3. QED
    BY <2>2 DEF Short
<1>11. Covers(g, s)
  <2> SUFFICES ASSUME NEW b \in 0..(s.len - 1)
               PROVE  \E i \in 1..Len(g) : \E n \in 1..Len(g[i]) :
                         g[i][n].of = s /\ g[i][n].from <= b /\ b < g[i][n].to
    BY DEF Covers
  <2>1. Len(c) + 1 \in 1..Len(g) /\ Len(w) + 1 \in 1..Len(g[Len(c) + 1])
        /\ g[Len(c) + 1][Len(w) + 1] = Whole(s)
    BY <1>2, <1>6, <1>7
  <2>2. Whole(s).of = s /\ Whole(s).from <= b /\ b < Whole(s).to
    BY DEF Whole, IsSentences
  <2>3. QED
    BY <2>1, <2>2
<1>12. Differs(st, next, s)
  <2> SUFFICES ASSUME \A i \in 1..Len(f) : \A n \in 1..Len(f[i]) : f[i][n].of # s,
                      c # <<>>, c[Len(c)] = v
               PROVE  FALSE
    BY <1>3 DEF Differs, f
  <2>1. Len(c) \in 1..Len(c)
    BY <1>1, <1>7, EmptySeq
  <2>2. f[Len(c)] = v
    BY <1>5, <2>1
  <2>3. Len(w) + 1 \in 1..Len(v) /\ Len(c) \in 1..Len(f)
    BY <1>2, <1>5, <1>7, <2>1
  <2>4. v[Len(w) + 1].of # s
    BY <2>2, <2>3
  <2>5. QED
    BY <1>2, <2>4 DEF Whole
<1>13. QED
  BY <1>4, <1>8, <1>9, <1>10, <1>11, <1>12 DEF Adds, f, g

\* A window behind the chunks.
LEMMA FullType ==
    ASSUME NEW P, NEW c \in Seq(Seq(P)), NEW w \in Seq(P)
    PROVE  /\ Append(c, w) \in Seq(Seq(P)) /\ Append(c, w) # <<>>
           /\ Len(Append(c, w)) = Len(c) + 1 /\ Append(c, w)[Len(c) + 1] = w
           /\ \A i \in 1..Len(c) : Append(c, w)[i] = c[i]
<1> DEFINE Q == Seq(P)
<1>1. c \in Seq(Q) /\ w \in Q
  OBVIOUS
<1> HIDE DEF Q
<1>2. /\ Append(c, w) \in Seq(Q) /\ Append(c, w) # <<>>
      /\ Len(Append(c, w)) = Len(c) + 1 /\ Append(c, w)[Len(c) + 1] = w
      /\ \A i \in 1..Len(c) : Append(c, w)[i] = c[i]
  BY <1>1, AppendProperties
<1>3. QED
  BY <1>2 DEF Q

\* So does one behind what is kept of the window.
LEMMA SlidAdds ==
    ASSUME NEW S, IsSentences(S), NEW s \in S, NEW size \in Nat \ {0}, NEW st \in ScanStates(S),
           NEW next, next = [chunks |-> next.chunks, window |-> next.window],
           Short(Full(st), size), Slid(st, next, s, S), windowLen(next.window) <= size
    PROVE  Adds(st, next, s, size, S)
<1> DEFINE P == Pieces(S)
           f == Full(st)
           g == Full(next)
<1>1. PICK kept \in Seq(P) : next.window = Append(kept, Whole(s))
  BY DEF Slid
<1> DEFINE v == Append(kept, Whole(s))
<1>2. st.chunks \in Seq(Seq(P)) /\ st.window \in Seq(P) /\ Whole(s) \in P
  BY WholeType DEF ScanStates
<1>3. v \in Seq(P) /\ Len(v) = Len(kept) + 1 /\ v[Len(kept) + 1] = Whole(s) /\ Len(kept) \in Nat
  BY <1>2, AppendProperties
<1>4. f \in Seq(Seq(P)) /\ Len(f) \in Nat /\ f # <<>> /\ f[Len(f)] = st.window
  <2>1. f \in Seq(Seq(P)) /\ f # <<>> /\ Len(f) = Len(st.chunks) + 1 /\ f[Len(st.chunks) + 1] = st.window
    BY <1>2, FullType DEF Full
  <2>2. QED
    BY <2>1
<1>5. next.chunks = f /\ next.window = v /\ st.window # <<>>
  BY <1>1 DEF Slid, Full
<1>6. next \in ScanStates(S)
  BY <1>3, <1>4, <1>5 DEF ScanStates
<1>7. g \in Seq(Seq(P)) /\ Len(g) = Len(f) + 1 /\ g[Len(f) + 1] = v /\ \A i \in 1..Len(f) : g[i] = f[i]
  BY <1>3, <1>4, <1>5, AppendProperties DEF Full
<1>8. \A i \in 1..Len(f) : Len(f[i]) \in Nat
  BY <1>4
<1> HIDE DEF f, g, v
<1>9. Grows(f, g)
  BY <1>4, <1>7, <1>8 DEF Grows
<1>10. Ends(g, s)
  <2>1. g # <<>> /\ v # <<>>
    BY <1>3, <1>4, <1>7, EmptySeq
  <2>2. QED
    BY <1>3, <1>4, <1>7, <2>1 DEF Ends, Whole
<1>11. Short(g, size)
  <2>1. ASSUME NEW i \in 1..Len(g) PROVE windowLen(g[i]) <= size
    <3>1. CASE i \in 1..Len(f)
      BY <1>7, <3>1 DEF Short, f
    <3>2. CASE i = Len(f) + 1
      BY <1>5, <1>7, <3>2
    <3>3. QED
      BY <1>4, <1>7, <3>1, <3>2
  <2>2. QED
    BY <2>1 DEF Short
<1>12. Covers(g, s)
  <2> SUFFICES ASSUME NEW b \in 0..(s.len - 1)
               PROVE  \E i \in 1..Len(g) : \E n \in 1..Len(g[i]) :
                         g[i][n].of = s /\ g[i][n].from <= b /\ b < g[i][n].to
    BY DEF Covers
  <2>1. Len(f) + 1 \in 1..Len(g) /\ Len(kept) + 1 \in 1..Len(g[Len(f) + 1])
        /\ g[Len(f) + 1][Len(kept) + 1] = Whole(s)
    BY <1>3, <1>4, <1>7
  <2>2. Whole(s).of = s /\ Whole(s).from <= b /\ b < Whole(s).to
    BY DEF Whole, IsSentences
  <2>3. QED
    BY <2>1, <2>2
<1>13. Differs(st, next, s)
  <2> SUFFICES ASSUME \A i \in 1..Len(f) : \A n \in 1..Len(f[i]) : f[i][n].of # s, f[Len(f)] = v
               PROVE  FALSE
    BY <1>5 DEF Differs, f
  <2>1. Len(f) \in 1..Len(f) /\ Len(kept) + 1 \in 1..Len(v)
    BY <1>3, <1>4, EmptySeq
  <2>2. v[Len(kept) + 1].of # s
    BY <2>1
  <2>3. QED
    BY <1>3, <2>2 DEF Whole
<1>14. QED
  BY <1>6, <1>9, <1>10, <1>11, <1>12, <1>13 DEF Adds, f, g

\* A sentence that is cut leaves its slices behind what was there.
LEMMA CutAdds ==
    ASSUME NEW S, IsSentences(S), NEW s \in S, NEW size \in Nat \ {0}, NEW st \in ScanStates(S),
           NEW next, next = [chunks |-> next.chunks, window |-> next.window],
           Short(Full(st), size), Cut(st, next, s, size)
    PROVE  Adds(st, next, s, size, S)
<1> DEFINE P == Pieces(S)
           f == Full(st)
           g == Full(next)
           h == Flush(st.chunks, st.window)
           q == Slices(s, size)
           n == (s.len - 1) \div size + 1
           p(i) == [of |-> s, from |-> (i - 1) * size, to |-> IF i * size > s.len THEN s.len ELSE i * size]
<1>1. st.chunks \in Seq(Seq(P)) /\ st.window \in Seq(P) /\ s.len > size /\ s.len \in Nat
  BY DEF ScanStates, Cut, IsSentences
<1>2. n \in Nat /\ n >= 2 /\ q \in Seq(Seq(P)) /\ Len(q) = n /\ \A i \in 1..n : q[i] = <<p(i)>>
  BY <1>1, SlicesType
<1>0. s.len <= n * size
  BY <1>1, SlicesType
<1> HIDE DEF p
<1> DEFINE d == SubSeq(q, 1, n - 1)
<1>3. d \in Seq(Seq(P)) /\ Len(d) = n - 1 /\ \A i \in 1..(n - 1) : d[i] = q[i]
  <2>1. \A i \in 1..(n - 1) : q[i] \in Seq(P)
    BY <1>2
  <2>2. n \in Int /\ 1 <= n - 1 /\ (n - 1) - 1 + 1 = n - 1 /\ 1 \in Int /\ n - 1 \in Int
    BY <1>2
  <2> HIDE DEF n, q
  <2>3. /\ SubSeq(q, 1, n - 1) \in Seq(Seq(P)) /\ Len(SubSeq(q, 1, n - 1)) = (n - 1) - 1 + 1
        /\ \A i \in 1..((n - 1) - 1 + 1) : SubSeq(q, 1, n - 1)[i] = q[1 + i - 1]
    BY <2>1, <2>2, SubSeqProperties
  <2>4. \A i \in 1..(n - 1) : 1 + i - 1 = i
    OBVIOUS
  <2>5. QED
    BY <2>2, <2>3, <2>4
<1>4. next.chunks = h \o d /\ next.window = q[n]
  BY <1>2 DEF Cut, Front, Last
<1>5. h \in Seq(Seq(P)) /\ Len(h) \in Nat
  BY <1>1, AppendProperties DEF Flush
<1>6. h \o d \in Seq(Seq(P)) /\ Len(h \o d) = Len(h) + n - 1
      /\ \A i \in 1..(Len(h) + n - 1) : (h \o d)[i] = IF i <= Len(h) THEN h[i] ELSE q[i - Len(h)]
  <2> HIDE DEF h, d, n, q
  <2>1. h \o d \in Seq(Seq(P)) /\ Len(h \o d) = Len(h) + Len(d)
        /\ \A i \in 1..(Len(h) + Len(d)) : (h \o d)[i] = IF i <= Len(h) THEN h[i] ELSE d[i - Len(h)]
    BY <1>3, <1>5, ConcatProperties
  <2>2. \A i \in 1..(Len(h) + n - 1) : ~(i <= Len(h)) => i - Len(h) \in 1..(n - 1)
    BY <1>2, <1>5
  <2>3. QED
    BY <1>2, <1>3, <1>5, <2>1, <2>2
<1> HIDE DEF d
<1>7. q[n] \in Seq(P)
  BY <1>2
<1>8. next \in ScanStates(S)
  BY <1>4, <1>6, <1>7 DEF ScanStates
<1>9. g \in Seq(Seq(P)) /\ Len(g) = Len(h) + n
      /\ \A i \in 1..(Len(h) + n) : g[i] = IF i <= Len(h) THEN h[i] ELSE q[i - Len(h)]
  <2> HIDE DEF h, n, q, P
  <2>0. Len(h) \in Nat /\ n \in Nat
    BY <1>2, <1>5
  <2>1. g = Append(h \o d, q[n])
    BY <1>4 DEF Full
  <2>2. g \in Seq(Seq(P)) /\ Len(g) = Len(h) + n /\ g[Len(h) + n] = q[n]
        /\ \A i \in 1..(Len(h) + n - 1) : g[i] = (h \o d)[i]
    <3>1. PICK u : u = h \o d
      OBVIOUS
    <3>2. g = Append(u, q[n]) /\ u \in Seq(Seq(P)) /\ Len(u) = Len(h) + n - 1
      BY <1>6, <2>1, <3>1
    <3>3. /\ g \in Seq(Seq(P)) /\ Len(g) = Len(u) + 1 /\ g[Len(u) + 1] = q[n]
          /\ \A i \in 1..Len(u) : g[i] = u[i]
      BY <1>7, <3>2, FullType
    <3>4. Len(u) + 1 = Len(h) + n
      BY <2>0, <3>2
    <3>5. QED
      BY <3>1, <3>2, <3>3, <3>4
  <2>3. ASSUME NEW i \in 1..(Len(h) + n)
        PROVE  g[i] = IF i <= Len(h) THEN h[i] ELSE q[i - Len(h)]
    <3>0. i = Len(h) + n \/ i \in 1..(Len(h) + n - 1)
      BY <2>0
    <3>1. CASE i = Len(h) + n
      BY <1>2, <1>5, <2>2, <3>1
    <3>2. CASE i \in 1..(Len(h) + n - 1)
      BY <1>6, <2>2, <3>2
    <3>3. QED
      BY <3>0, <3>1, <3>2
  <2>4. QED
    BY <2>2, <2>3
<1>10. ASSUME NEW i \in 1..n PROVE Len(h) + i \in 1..Len(g) /\ g[Len(h) + i] = <<p(i)>>
  <2> HIDE DEF h, g, q, n
  <2>1. i \in Nat /\ ~(Len(h) + i <= Len(h)) /\ (Len(h) + i) - Len(h) = i
    BY <1>2, <1>5
  <2>2. Len(h) + i \in 1..(Len(h) + n)
    BY <1>2, <1>5
  <2>3. QED
    BY <1>2, <1>9, <2>1, <2>2
<1>11. h = f \/ (h = st.chunks /\ st.window = <<>>)
  BY DEF Flush, Full
<1>12. f \in Seq(Seq(P)) /\ Len(f) = Len(st.chunks) + 1 /\ f[Len(st.chunks) + 1] = st.window
       /\ (\A i \in 1..Len(st.chunks) : f[i] = st.chunks[i]) /\ Len(st.chunks) \in Nat
  BY <1>1, AppendProperties DEF Full
<1> HIDE DEF f, g, h, q, n
<1>13. Grows(f, g)
  <2>1. ASSUME NEW i \in 1..Len(h) PROVE g[i] = h[i]
    BY <1>2, <1>5, <1>9
  <2>2. \A i \in 1..Len(f) : Len(f[i]) \in Nat
    BY <1>12
  <2>3. CASE h = f
    BY <1>2, <1>5, <1>9, <2>1, <2>2, <2>3 DEF Grows
  <2>4. CASE h = st.chunks /\ st.window = <<>>
    <3>1. Len(f) <= Len(g)
      BY <1>2, <1>5, <1>9, <1>12, <2>4
    <3>2. ASSUME NEW i \in 1..Len(f)
          PROVE  Len(f[i]) <= Len(g[i]) /\ \A m \in 1..Len(f[i]) : g[i][m] = f[i][m]
      <4>1. CASE i \in 1..Len(h)
        BY <1>12, <2>1, <2>2, <2>4, <4>1
      <4>2. CASE i = Len(h) + 1
        <5>1. Len(f[i]) = 0
          BY <1>12, <2>4, <4>2
        <5>2. i \in 1..Len(g) /\ Len(g[i]) \in Nat
          BY <1>9, <3>1, <1>12
        <5>3. QED
          BY <5>1, <5>2
      <4>3. QED
        BY <1>5, <1>12, <2>4, <4>1, <4>2
    <3>3. QED
      BY <3>1, <3>2 DEF Grows
  <2>5. QED
    BY <1>11, <2>3, <2>4
<1>14. Len(g) = Len(h) + n /\ g[Len(g)] = <<p(n)>> /\ n \in 1..n
  BY <1>2, <1>9, <1>10
<1>15. Ends(g, s)
  <2>1. g # <<>>
    BY <1>2, <1>5, <1>14, EmptySeq
  <2>2. Len(<<p(n)>>) = 1 /\ <<p(n)>>[1].of = s /\ <<p(n)>> # <<>>
    BY DEF p
  <2>3. QED
    BY <1>14, <2>1, <2>2 DEF Ends
<1>16. ASSUME NEW i \in 1..n PROVE windowLen(<<p(i)>>) <= size
  <2>1. <<p(i)>> \in Seq(P) /\ Len(<<p(i)>>) = 1
    <3>1. q[i] \in Seq(P) /\ q[i] = <<p(i)>>
      BY <1>2
    <3>2. QED
      BY <3>1
  <2>2. windowLen(<<p(i)>>) = p(i).to - p(i).from
    <3>1. <<p(i)>>[1] = p(i)
      OBVIOUS
    <3>2. windowLen(<<p(i)>>) = <<p(i)>>[1].to - <<p(i)>>[1].from
      BY <2>1, WindowLength
    <3>3. QED
      BY <3>1, <3>2
  <2>3. i \in Nat /\ i * size = (i - 1) * size + size /\ (i - 1) * size \in Int
    BY <1>2
  <2>4. QED
    BY <1>1, <2>2, <2>3 DEF p
<1>17. Short(g, size)
  <2>1. \A i \in 1..Len(h) : windowLen(h[i]) <= size
    BY <1>11, <1>12 DEF Short, f
  <2>2. ASSUME NEW i \in 1..Len(g) PROVE windowLen(g[i]) <= size
    <3>1. CASE i \in 1..Len(h)
      <4>1. i \in 1..(Len(h) + n) /\ i <= Len(h)
        BY <1>2, <1>5, <3>1
      <4>2. g[i] = h[i]
        BY <1>9, <4>1
      <4>3. QED
        BY <2>1, <3>1, <4>2
    <3>2. CASE i - Len(h) \in 1..n
      <4>1. g[Len(h) + (i - Len(h))] = <<p(i - Len(h))>>
        BY <1>10, <3>2
      <4>2. Len(h) + (i - Len(h)) = i
        BY <1>5
      <4>3. QED
        BY <1>16, <3>2, <4>1, <4>2
    <3>3. QED
      BY <1>2, <1>5, <1>14, <3>1, <3>2
  <2>3. QED
    BY <2>2 DEF Short
<1>18. Covers(g, s)
  <2> SUFFICES ASSUME NEW b \in 0..(s.len - 1)
               PROVE  \E i \in 1..Len(g) : \E m \in 1..Len(g[i]) :
                         g[i][m].of = s /\ g[i][m].from <= b /\ b < g[i][m].to
    BY DEF Covers
  <2>1. b \in Nat /\ b < s.len
    BY <1>1
  <2>2. PICK k : k = b \div size
    OBVIOUS
  <2>3. k \in Nat /\ k * size <= b /\ b < k * size + size
    BY <2>1, <2>2
  <2>4. k < n
    <3>1. SUFFICES ASSUME k >= n PROVE FALSE
      BY <1>2, <2>3
    <3>2. n * size <= k * size
      <4>1. n \in Nat /\ k \in Nat
        BY <1>2, <2>3
      <4>2. QED
        BY <3>1, <4>1
    <3>3. QED
      BY <1>0, <1>1, <1>2, <2>1, <2>3, <3>2
  <2>5. k + 1 \in 1..n /\ (k + 1) - 1 = k /\ (k + 1) * size = k * size + size
    BY <1>2, <2>3, <2>4
  <2>6. Len(h) + (k + 1) \in 1..Len(g) /\ g[Len(h) + (k + 1)] = <<p(k + 1)>>
    BY <1>10, <2>5
  <2>7. p(k + 1).of = s /\ p(k + 1).from <= b /\ b < p(k + 1).to
    BY <2>1, <2>3, <2>5 DEF p
  <2>8. 1 \in 1..Len(<<p(k + 1)>>) /\ <<p(k + 1)>>[1] = p(k + 1)
    OBVIOUS
  <2>9. QED
    BY <2>6, <2>7, <2>8
<1>19. Differs(st, next, s)
  <2>1. Len(next.chunks) = Len(h) + (n - 1) /\ n - 1 \in 1..n
    BY <1>2, <1>4, <1>5, <1>6
  <2>2. next.chunks[Len(next.chunks)] = q[n - 1]
    BY <1>2, <1>4, <1>5, <1>6, <2>1
  <2>3. q[n - 1] = <<p(n - 1)>> /\ q[n] = <<p(n)>>
    BY <1>2, <2>1
  <2>4. (n - 1) * size = ((n - 1) - 1) * size + size
    BY <1>2
  <2>5. ((n - 1) - 1) * size \in Int
    BY <1>2
  <2>6. p(n - 1).from # p(n).from
    BY <2>4, <2>5 DEF p
  <2>7. QED
    BY <1>4, <2>2, <2>3, <2>6 DEF Differs
<1>20. QED
  BY <1>8, <1>13, <1>15, <1>17, <1>18, <1>19 DEF Adds, f, g

\* So adding a sentence, however it is done.
LEMMA AddSentenceAdds ==
    ASSUME NEW S, IsSentences(S), NEW s \in S, NEW size \in Nat \ {0}, NEW overlap \in Nat,
           NEW st \in ScanStates(S), Short(Full(st), size)
    PROVE  Adds(st, AddSentence(st, s, size, overlap), s, size, S)
<1>1. PICK next : next = AddSentence(st, s, size, overlap)
  OBVIOUS
<1>2. next = [chunks |-> next.chunks, window |-> next.window]
  BY <1>1, AddSentenceCases
<1>3. \/ Fitted(st, next, s) /\ windowLen(next.window) <= size
      \/ Slid(st, next, s, S) /\ windowLen(next.window) <= size
      \/ Cut(st, next, s, size)
  BY <1>1, AddSentenceCases
<1>4. Adds(st, next, s, size, S)
  BY <1>2, <1>3, FittedAdds, SlidAdds, CutAdds
<1>5. QED
  BY <1>1, <1>4

Good(S, size) == {st \in ScanStates(S) : Short(Full(st), size)}
Blank == [chunks |-> <<>>, window |-> <<>>]

\* The scan begins with a window and chunks that are well-formed.
LEMMA BlankGood == ASSUME NEW S, NEW size \in Nat \ {0} PROVE Blank \in Good(S, size)
<1>1. <<>> \in Seq(Pieces(S)) /\ <<>> \in Seq(Seq(Pieces(S)))
  OBVIOUS
<1>2. Blank \in ScanStates(S)
  BY <1>1 DEF Blank, ScanStates
<1>3. Len(Full(Blank)) = 1 /\ Full(Blank)[1] = <<>>
  <2>1. Full(Blank) = Append(<<>>, <<>>)
    BY DEF Full, Blank
  <2>2. QED
    BY <1>1, <2>1, FullType
<1>4. windowLen(<<>>) = 0
  BY DEF windowLen
<1>5. QED
  <2>1. \A i \in 1..1 : windowLen(Full(Blank)[i]) <= size
    BY <1>3, <1>4
  <2>2. Short(Full(Blank), size)
    BY <1>3, <2>1 DEF Short
  <2>3. QED
    BY <1>2, <2>2 DEF Good

\* The scan of a text is the run of its sentences.
LEMMA ScanRuns ==
    ASSUME NEW S, IsSentences(S), NEW text \in Seq(S), NEW size \in Nat \ {0}, NEW overlap \in Nat
    PROVE  LET a == Scan(text, size, overlap)
           IN  /\ a[0] = Blank
               /\ \A n \in 1..Len(text) : a[n] = AddSentence(a[n - 1], text[n], size, overlap)
<1> DEFINE N == Len(text)
           G == Good(S, size)
           P == (1..N) \X G
           D == [x \in P |-> AddSentence(x[2], text[x[1]], size, overlap)]
           a == CHOOSE after : after = [n \in 0..N |-> IF n = 0 THEN [chunks |-> <<>>, window |-> <<>>]
                                          ELSE AddSentence(after[n - 1], text[n], size, overlap)]
<1>1. N \in Nat /\ \A n \in 1..N : text[n] \in S
  OBVIOUS
<1>2. ASSUME NEW n \in 1..N, NEW st \in G PROVE AddSentence(st, text[n], size, overlap) \in G
  BY <1>1, AddSentenceAdds DEF Good, Adds
<1>3. D \in [P -> G]
  <2> HIDE DEF G, N
  <2>1. QED
    BY <1>2
<1>4. ASSUME NEW n \in 1..N, NEW st \in G PROVE D[<<n, st>>] = AddSentence(st, text[n], size, overlap)
  OBVIOUS
<1>5. Blank \in G
  BY BlankGood
<1> HIDE DEF D, G, N
<1>6. PICK g : IsRun(g, Blank, N, G, D)
  BY <1>1, <1>3, <1>5, StepsExist, Zenon DEF P
<1>7. g = [n \in 0..N |-> IF n = 0 THEN [chunks |-> <<>>, window |-> <<>>]
                           ELSE AddSentence(g[n - 1], text[n], size, overlap)]
  <2>1. ASSUME NEW n \in 0..N, n # 0 PROVE g[n] = AddSentence(g[n - 1], text[n], size, overlap)
    <3>1. n \in 1..N /\ n - 1 \in 0..N
      BY <1>1, <2>1
    <3>2. g[n - 1] \in G /\ g[n] = D[<<n, g[n - 1]>>]
      BY <1>6, <3>1 DEF IsRun
    <3>3. QED
      BY <1>4, <3>1, <3>2
  <2>2. g \in [0..N -> G] /\ g[0] = Blank
    BY <1>6 DEF IsRun
  <2>3. QED
    BY <2>1, <2>2 DEF Blank
<1>8. a = [n \in 0..N |-> IF n = 0 THEN [chunks |-> <<>>, window |-> <<>>]
                           ELSE AddSentence(a[n - 1], text[n], size, overlap)]
  BY <1>7, Zenon
<1>9. Scan(text, size, overlap) = a
  BY Zenon DEF Scan, N
<1> HIDE DEF a
<1>10. QED
  BY <1>1, <1>8, <1>9 DEF Blank, N

\* Every state of the scan is good, for the sentences before it.
LEMMA ScanGood ==
    ASSUME NEW S, IsSentences(S), NEW text \in Seq(S), NEW size \in Nat \ {0}, NEW overlap \in Nat,
           NEW N \in 0..Len(text), NEW R, R \subseteq S, \A n \in 1..N : text[n] \in R
    PROVE  \A n \in 0..N : Scan(text, size, overlap)[n] \in Good(R, size)
<1> DEFINE a == Scan(text, size, overlap)
           G == Good(R, size)
<1>1. IsSentences(R)
  BY DEF IsSentences
<1>2. a[0] = Blank /\ \A n \in 1..Len(text) : a[n] = AddSentence(a[n - 1], text[n], size, overlap)
  BY ScanRuns
<1>3. a[0] \in G
  BY <1>2, BlankGood
<1>4. ASSUME NEW n \in 1..N, a[n - 1] \in G PROVE a[n] \in G
  <2>1. a[n] = AddSentence(a[n - 1], text[n], size, overlap) /\ text[n] \in R
    BY <1>2
  <2>2. Adds(a[n - 1], a[n], text[n], size, R)
    BY <1>1, <1>4, <2>1, AddSentenceAdds DEF Good
  <2>3. QED
    BY <2>2 DEF Adds, Good
<1> HIDE DEF a, G
<1>5. N \in Nat
  OBVIOUS
<1>6. \A n \in 0..N : a[n] \in G
  BY <1>3, <1>4, <1>5, StepsStay
<1>7. QED
  BY <1>6 DEF a, G

\* Sentences i and j, i before j.
InOrder(f, s, t) ==
    \E x, y \in Places(f) : Before(x, y) /\ f[x[1]][x[2]].of = s /\ f[y[1]][y[2]].of = t

\* The places of texts, in a form that the provers know.
LEMMA PlacesOf ==
    ASSUME NEW Q, NEW f \in Seq(Seq(Q))
    PROVE  Places(f) = UNION {{i} \X (1..Len(f[i])) : i \in 1..Len(f)}
<1>1. \A i \in 1..Len(f) : DOMAIN f[i] = 1..Len(f[i])
  OBVIOUS
<1>2. QED
  BY <1>1 DEF Places

\* A place is a text and a position in it.
LEMMA PlaceIs ==
    ASSUME NEW Q, NEW f \in Seq(Seq(Q)), NEW x
    PROVE  /\ x \in Places(f) => /\ x = <<x[1], x[2]>> /\ x[1] \in 1..Len(f) /\ x[2] \in 1..Len(f[x[1]])
                                 /\ f[x[1]][x[2]] \in Q
           /\ \A i \in 1..Len(f) : \A n \in 1..Len(f[i]) : <<i, n>> \in Places(f)
<1>1. ASSUME NEW i \in 1..Len(f), NEW n \in 1..Len(f[i]) PROVE <<i, n>> \in Places(f)
  <2>1. Places(f) = UNION {{k} \X (1..Len(f[k])) : k \in 1..Len(f)}
    BY PlacesOf
  <2>2. <<i, n>> \in {i} \X (1..Len(f[i]))
    OBVIOUS
  <2>3. QED
    BY <2>1, <2>2
<1>2. ASSUME x \in Places(f)
      PROVE  /\ x = <<x[1], x[2]>> /\ x[1] \in 1..Len(f) /\ x[2] \in 1..Len(f[x[1]])
             /\ f[x[1]][x[2]] \in Q
  <2>1. PICK i \in 1..Len(f) : x \in {i} \X (1..Len(f[i]))
    BY <1>2, PlacesOf
  <2>2. x = <<x[1], x[2]>> /\ x[1] = i /\ x[2] \in 1..Len(f[i])
    BY <2>1
  <2>3. f[i] \in Seq(Q)
    OBVIOUS
  <2>4. QED
    BY <2>2, <2>3
<1>3. QED
  BY <1>1, <1>2

\* What is kept as a text grows: where its sentences are, and in what order.
LEMMA GrowsKeeps ==
    ASSUME NEW Q, NEW f \in Seq(Seq(Q)), NEW g \in Seq(Seq(Q)), Grows(f, g), NEW s, NEW t
    PROVE  /\ Covers(f, s) => Covers(g, s)
           /\ InOrder(f, s, t) => InOrder(g, s, t)
<1>1. Len(f) \in Nat /\ Len(g) \in Nat /\ Len(f) <= Len(g)
  BY DEF Grows
<1>2. ASSUME NEW i \in 1..Len(f), NEW n \in 1..Len(f[i])
      PROVE  i \in 1..Len(g) /\ n \in 1..Len(g[i]) /\ g[i][n] = f[i][n]
  <2>1. i \in 1..Len(g) /\ Len(f[i]) <= Len(g[i]) /\ g[i][n] = f[i][n]
    BY <1>1 DEF Grows
  <2>2. Len(f[i]) \in Nat /\ Len(g[i]) \in Nat
    BY <2>1
  <2>3. QED
    BY <2>1, <2>2
<1>3. ASSUME Covers(f, s) PROVE Covers(g, s)
  <2> SUFFICES ASSUME NEW b \in 0..(s.len - 1)
               PROVE  \E i \in 1..Len(g) : \E n \in 1..Len(g[i]) :
                         g[i][n].of = s /\ g[i][n].from <= b /\ b < g[i][n].to
    BY DEF Covers
  <2>1. PICK i \in 1..Len(f) : \E n \in 1..Len(f[i]) :
                f[i][n].of = s /\ f[i][n].from <= b /\ b < f[i][n].to
    BY <1>3 DEF Covers
  <2>2. PICK n \in 1..Len(f[i]) : f[i][n].of = s /\ f[i][n].from <= b /\ b < f[i][n].to
    BY <2>1
  <2>3. i \in 1..Len(g) /\ n \in 1..Len(g[i]) /\ g[i][n] = f[i][n]
    BY <1>2
  <2>4. QED
    BY <2>2, <2>3
<1>4. ASSUME InOrder(f, s, t) PROVE InOrder(g, s, t)
  <2>1. PICK x, y \in Places(f) : Before(x, y) /\ f[x[1]][x[2]].of = s /\ f[y[1]][y[2]].of = t
    BY <1>4 DEF InOrder
  <2>2. x = <<x[1], x[2]>> /\ x[1] \in 1..Len(f) /\ x[2] \in 1..Len(f[x[1]])
    BY PlaceIs
  <2>3. y = <<y[1], y[2]>> /\ y[1] \in 1..Len(f) /\ y[2] \in 1..Len(f[y[1]])
    BY PlaceIs
  <2>4. <<x[1], x[2]>> \in Places(g) /\ <<y[1], y[2]>> \in Places(g)
    BY <1>2, <2>2, <2>3, PlaceIs
  <2>5. x \in Places(g) /\ y \in Places(g)
    BY <2>2, <2>3, <2>4
  <2>6. g[x[1]][x[2]] = f[x[1]][x[2]] /\ g[y[1]][y[2]] = f[y[1]][y[2]]
    BY <1>2, <2>2, <2>3
  <2>7. QED
    BY <2>1, <2>5, <2>6 DEF InOrder
<1>5. QED
  BY <1>3, <1>4

\* A sentence at the end is behind all that was there.
LEMMA EndsInOrder ==
    ASSUME NEW Q, NEW f \in Seq(Seq(Q)), NEW g \in Seq(Seq(Q)), Grows(f, g),
           NEW s, s.len \in Nat \ {0}, Covers(f, s), NEW t, Ends(g, t)
    PROVE  InOrder(g, s, t)
<1>1. Len(f) \in Nat /\ Len(g) \in Nat /\ Len(f) <= Len(g)
  BY DEF Grows
<1>2. 0 \in 0..(s.len - 1)
  OBVIOUS
<1>3. PICK i \in 1..Len(f) : \E n \in 1..Len(f[i]) : f[i][n].of = s
  BY <1>2 DEF Covers
<1>4. PICK n \in 1..Len(f[i]) : f[i][n].of = s
  BY <1>3
<1>5. i \in 1..Len(g) /\ Len(f[i]) <= Len(g[i]) /\ g[i][n] = f[i][n]
  BY <1>1 DEF Grows
<1>6. Len(f[i]) \in Nat /\ Len(g[i]) \in Nat
  BY <1>5
<1> DEFINE l == Len(g)
           m == Len(g[l])
<1>7. l \in 1..Len(g) /\ g[l] # <<>> /\ g[l] \in Seq(Q) /\ g[l][m].of = t
  BY <1>1, EmptySeq DEF Ends
<1>8. m \in 1..Len(g[l])
  BY <1>7, EmptySeq
<1>9. n \in 1..Len(g[i])
  BY <1>5, <1>6
<1>10. <<i, n>> \in Places(g) /\ <<l, m>> \in Places(g)
  BY <1>5, <1>7, <1>8, <1>9, PlaceIs
<1>11. i < l \/ (i = l /\ n <= m)
  BY <1>1, <1>5, <1>6, <1>9
<1> HIDE DEF l, m
<1>12. Before(<<i, n>>, <<l, m>>)
  BY <1>11 DEF Before
<1>13. QED
  BY <1>4, <1>5, <1>7, <1>10, <1>12 DEF InOrder

\* After n sentences all of them are there, and in their order.
LEMMA ScanCovers ==
    ASSUME NEW S, IsSentences(S), NEW text \in Seq(S), NEW size \in Nat \ {0}, NEW overlap \in Nat
    PROVE  LET full(n) == Full(Scan(text, size, overlap)[n])
           IN  \A n \in 0..Len(text) : /\ \A i \in 1..n : Covers(full(n), text[i])
                                       /\ \A i, j \in 1..n : i < j => InOrder(full(n), text[i], text[j])
<1> DEFINE a == Scan(text, size, overlap)
           full(n) == Full(a[n])
           Holds(n) == /\ \A i \in 1..n : Covers(full(n), text[i])
                       /\ \A i, j \in 1..n : i < j => InOrder(full(n), text[i], text[j])
           T == {n \in Nat : n <= Len(text) => Holds(n)}
<1>0. Len(text) \in Nat /\ \A n \in 1..Len(text) : text[n] \in S
  OBVIOUS
<1>1. \A n \in 0..Len(text) : a[n] \in Good(S, size)
  BY <1>0, ScanGood
<1>2. \A n \in 1..Len(text) : a[n] = AddSentence(a[n - 1], text[n], size, overlap)
  BY ScanRuns
<1>3. ASSUME NEW n \in 1..Len(text) PROVE Adds(a[n - 1], a[n], text[n], size, S)
  <2>1. n - 1 \in 0..Len(text)
    BY <1>0
  <2>2. a[n - 1] \in ScanStates(S) /\ Short(Full(a[n - 1]), size)
    BY <1>1, <2>1 DEF Good
  <2>3. QED
    BY <1>0, <1>2, <2>2, AddSentenceAdds
<1> HIDE DEF a
<1>4. ASSUME NEW n \in 0..Len(text) PROVE full(n) \in Seq(Seq(Pieces(S)))
  <2>1. a[n].chunks \in Seq(Seq(Pieces(S))) /\ a[n].window \in Seq(Pieces(S))
    BY <1>1 DEF Good, ScanStates
  <2>2. QED
    BY <2>1, FullType DEF Full
<1> HIDE DEF full
<1>5. 0 \in T
  OBVIOUS
<1>6. ASSUME NEW n \in Nat, n \in T PROVE n + 1 \in T
  <2> SUFFICES ASSUME n + 1 <= Len(text) PROVE Holds(n + 1)
    OBVIOUS
  <2>1. n \in 0..Len(text) /\ n + 1 \in 1..Len(text) /\ n + 1 \in 0..Len(text) /\ (n + 1) - 1 = n
    BY <1>0
  <2>2. Holds(n)
    BY <1>6, <2>1
  <2>3. full(n) \in Seq(Seq(Pieces(S))) /\ full(n + 1) \in Seq(Seq(Pieces(S)))
    BY <1>4, <2>1
  <2>4. /\ Grows(full(n), full(n + 1)) /\ Ends(full(n + 1), text[n + 1])
        /\ Covers(full(n + 1), text[n + 1])
    BY <1>3, <2>1 DEF Adds, full
  <2>5. ASSUME NEW i \in 1..(n + 1) PROVE Covers(full(n + 1), text[i])
    <3>1. CASE i \in 1..n
      BY <2>2, <2>3, <2>4, <3>1, GrowsKeeps
    <3>2. CASE i = n + 1
      BY <2>4, <3>2
    <3>3. QED
      BY <3>1, <3>2
  <2>6. ASSUME NEW i \in 1..(n + 1), NEW j \in 1..(n + 1), i < j
        PROVE  InOrder(full(n + 1), text[i], text[j])
    <3>1. CASE j \in 1..n
      <4>1. i \in 1..n
        BY <2>6, <3>1
      <4>2. InOrder(full(n), text[i], text[j])
        BY <2>2, <2>6, <3>1, <4>1
      <4>3. QED
        BY <2>3, <2>4, <4>2, GrowsKeeps
    <3>2. CASE j = n + 1
      <4>1. i \in 1..n /\ i \in 1..Len(text)
        BY <1>0, <2>1, <2>6, <3>2
      <4>2. text[i].len \in Nat \ {0} /\ Covers(full(n), text[i])
        BY <1>0, <2>2, <4>1 DEF IsSentences
      <4>3. QED
        BY <2>3, <2>4, <3>2, <4>2, EndsInOrder
    <3>3. QED
      BY <3>1, <3>2
  <2>7. QED
    BY <2>5, <2>6
<1> HIDE DEF T
<1>7. \A n \in Nat : n \in T
  BY <1>5, <1>6, NatInd
<1>8. \A n \in 0..Len(text) : Holds(n)
  BY <1>0, <1>7 DEF T
<1>9. QED
  BY <1>8 DEF full, a

\* The last window, if it is like the chunk before it, is all there without it.
LEMMA Repeated ==
    ASSUME NEW Q, NEW c \in Seq(Seq(Q)), c # <<>>, NEW w \in Seq(Q), c[Len(c)] = w, NEW s,
           Covers(Append(c, w), s)
    PROVE  Covers(c, s)
<1> DEFINE f == Append(c, w)
<1>1. f \in Seq(Seq(Q)) /\ Len(f) = Len(c) + 1 /\ f[Len(c) + 1] = w /\ \A i \in 1..Len(c) : f[i] = c[i]
  BY FullType
<1>2. Covers(f, s)
  OBVIOUS
<1>3. Len(c) \in Nat /\ Len(c) \in 1..Len(c)
  BY EmptySeq
<1> HIDE DEF f
<1> SUFFICES ASSUME NEW b \in 0..(s.len - 1)
             PROVE  \E i \in 1..Len(c) : \E n \in 1..Len(c[i]) :
                       c[i][n].of = s /\ c[i][n].from <= b /\ b < c[i][n].to
  BY DEF Covers
<1>4. PICK i \in 1..Len(f) : \E n \in 1..Len(f[i]) : f[i][n].of = s /\ f[i][n].from <= b /\ b < f[i][n].to
  BY <1>2 DEF Covers
<1>5. PICK k \in 1..Len(c) : f[i] = c[k]
  <2>1. CASE i \in 1..Len(c)
    BY <1>1, <2>1
  <2>2. CASE i = Len(c) + 1
    BY <1>1, <1>3, <2>2
  <2>3. QED
    BY <1>1, <1>3, <2>1, <2>2
<1>6. QED
  BY <1>4, <1>5

\* What covers a sentence has each of its bytes, and what is short no long chunk.
LEMMA CoverParts ==
    ASSUME NEW S, IsSentences(S), NEW text \in Seq(S), NEW f \in Seq(Seq(Pieces(S))),
           NEW size, Short(f, size), \A i \in 1..Len(text) : Covers(f, text[i]),
           (\A i \in 1..(Len(text) - 1) : text[i] # text[Len(text)]) =>
              \A i, j \in 1..Len(text) : i < j => InOrder(f, text[i], text[j])
    PROVE  ChunksCover(f, text, size)
<1> DEFINE piece(x) == f[x[1]][x[2]]
<1>1. DOMAIN f = 1..Len(f) /\ DOMAIN text = 1..Len(text) /\ Len(text) \in Nat
  OBVIOUS
<1>2. \A i \in DOMAIN f : windowLen(f[i]) <= size
  BY <1>1 DEF Short
<1>3. ASSUME NEW i \in DOMAIN text, NEW b \in {0, text[i].len - 1} \cup text[i].inside
      PROVE  \E x \in Places(f) : piece(x).of = text[i] /\ piece(x).from <= b /\ b < piece(x).to
  <2>1. text[i] \in S
    OBVIOUS
  <2>2. b \in 0..(text[i].len - 1)
    BY <2>1 DEF IsSentences
  <2>3. PICK k \in 1..Len(f) : \E n \in 1..Len(f[k]) :
               f[k][n].of = text[i] /\ f[k][n].from <= b /\ b < f[k][n].to
    <3>1. Covers(f, text[i])
      BY <1>1
    <3>2. QED
      BY <2>2, <3>1 DEF Covers
  <2>4. PICK n \in 1..Len(f[k]) : f[k][n].of = text[i] /\ f[k][n].from <= b /\ b < f[k][n].to
    BY <2>3
  <2>5. <<k, n>> \in Places(f)
    BY PlaceIs
  <2>6. piece(<<k, n>>) = f[k][n]
    OBVIOUS
  <2> HIDE DEF piece
  <2>7. QED
    BY <2>4, <2>5, <2>6
<1>4. ASSUME \A i \in 1..(Len(text) - 1) : text[i] # text[Len(text)],
             NEW i \in DOMAIN text, NEW j \in DOMAIN text, i < j
      PROVE  \E x, y \in Places(f) : Before(x, y) /\ piece(x).of = text[i] /\ piece(y).of = text[j]
  <2>1. i \in 1..Len(text) /\ j \in 1..Len(text)
    BY <1>1
  <2>2. InOrder(f, text[i], text[j])
    BY <1>4, <2>1
  <2>3. QED
    BY <2>2, Zenon DEF InOrder
<1>5. QED
  BY <1>2, <1>3, <1>4 DEF ChunksCover

\* Whatever a document says, its chunks cover it.
THEOREM DocumentCovered ==
    ASSUME NEW S, IsSentences(S), NEW text \in Seq(S), NEW size \in Nat \ {0}, NEW overlap \in Nat
    PROVE  LET chunks == chunkDocText(text, size, overlap)
           IN  chunks \in Seq(Seq(Pieces(S))) /\ ChunksCover(chunks, text, size)
<1> DEFINE N == Len(text)
           a == Scan(text, size, overlap)
           end == a[N]
           c == end.chunks
           w == end.window
           chunks == IF c # <<>> /\ Last(c) = w THEN c ELSE Flush(c, w)
<1>1. N \in Nat /\ \A n \in 1..N : text[n] \in S
  OBVIOUS
<1>2. a[0] = Blank /\ \A n \in 1..N : a[n] = AddSentence(a[n - 1], text[n], size, overlap)
  BY ScanRuns
<1>3. chunkDocText(text, size, overlap) = chunks
  BY DEF chunkDocText
<1>4. N \in 0..Len(text)
  BY <1>1
<1>5. end \in Good(S, size)
  BY <1>1, <1>4, ScanGood
<1>6. c \in Seq(Seq(Pieces(S))) /\ w \in Seq(Pieces(S)) /\ Short(Full(end), size)
  BY <1>5 DEF Good, ScanStates
<1>7. /\ \A i \in 1..N : Covers(Full(end), text[i])
      /\ \A i, j \in 1..N : i < j => InOrder(Full(end), text[i], text[j])
  BY <1>4, ScanCovers
<1>8. Full(end) = Append(c, w)
  BY DEF Full
<1>9. Last(c) = c[Len(c)]
  BY DEF Last
<1>10. ASSUME N # 0, c # <<>>, Last(c) = w PROVE \E i \in 1..(N - 1) : text[i] = text[N]
  <2> DEFINE R == {text[i] : i \in 1..(N - 1)}
  <2> SUFFICES ASSUME \A i \in 1..(N - 1) : text[i] # text[N] PROVE FALSE
    BY <1>10
  <2>1. N \in 1..N /\ N - 1 \in 0..N /\ N - 1 \in 0..(N - 1)
    BY <1>1, <1>10
  <2>2. R \subseteq S /\ \A n \in 1..(N - 1) : text[n] \in R
    BY <1>1
  <2>3. a[N - 1] \in Good(R, size) /\ a[N - 1] \in Good(S, size)
    <3>1. a[N - 1] \in Good(R, size)
      BY <2>1, <2>2, ScanGood
    <3>2. a[N - 1] \in Good(S, size)
      BY <1>1, <2>1, ScanGood
    <3>3. QED
      BY <3>1, <3>2
  <2>4. Adds(a[N - 1], end, text[N], size, S)
    BY <1>1, <1>2, <2>1, <2>3, AddSentenceAdds DEF Good
  <2>5. Full(a[N - 1]) \in Seq(Seq(Pieces(R)))
    BY <2>3, FullType DEF Good, ScanStates, Full
  <2>6. \A p \in Pieces(R) : p.of # text[N]
    BY DEF Pieces
  <2> HIDE DEF a, R, c, w, end
  <2>7. \A i \in 1..Len(Full(a[N - 1])) : \A n \in 1..Len(Full(a[N - 1])[i]) :
           Full(a[N - 1])[i][n] \in Pieces(R)
    BY <2>5
  <2>8. c[Len(c)] # w
    BY <1>10, <2>4, <2>6, <2>7 DEF Adds, Differs, c, w
  <2>9. QED
    BY <1>9, <1>10, <2>8
<1>11. ASSUME N # 0 PROVE w # <<>>
  <2>1. N \in 1..N /\ N - 1 \in 0..N
    BY <1>1, <1>11
  <2>2. a[N - 1] \in Good(S, size)
    BY <1>1, <2>1, ScanGood
  <2>3. Adds(a[N - 1], end, text[N], size, S)
    BY <1>1, <1>2, <2>1, <2>2, AddSentenceAdds DEF Good
  <2>4. Ends(Append(c, w), text[N])
    BY <1>8, <2>3 DEF Adds
  <2>5. Len(Append(c, w)) = Len(c) + 1 /\ Append(c, w)[Len(c) + 1] = w
    BY <1>6, FullType
  <2> HIDE DEF c, w, end
  <2>6. QED
    BY <2>4, <2>5 DEF Ends
<1>12. ASSUME N = 0 PROVE chunks = <<>>
  BY <1>2, <1>12 DEF Blank, Flush
<1> HIDE DEF a, c, w, end
<1>13. CASE N = 0
  <2>1. chunks = <<>> /\ <<>> \in Seq(Seq(Pieces(S)))
    BY <1>12, <1>13
  <2>2. Short(chunks, size)
    BY <2>1 DEF Short
  <2> HIDE DEF chunks, N
  <2>3. \A i \in 1..N : FALSE
    BY <1>13
  <2>4. ChunksCover(chunks, text, size)
    BY <2>1, <2>2, <2>3, CoverParts DEF N
  <2>5. QED
    BY <1>3, <2>1, <2>4
<1>14. CASE N # 0 /\ c # <<>> /\ Last(c) = w
  <2>1. chunks = c
    BY <1>14
  <2>2. Append(c, w) \in Seq(Seq(Pieces(S))) /\ Len(Append(c, w)) = Len(c) + 1
        /\ \A i \in 1..Len(c) : Append(c, w)[i] = c[i]
    BY <1>6, FullType
  <2>3. Len(c) \in Nat
    BY <1>6
  <2>4. Short(c, size)
    <3>1. \A i \in 1..Len(Append(c, w)) : windowLen(Append(c, w)[i]) <= size
      BY <1>6, <1>8 DEF Short
    <3>2. ASSUME NEW i \in 1..Len(c) PROVE windowLen(c[i]) <= size
      <4>1. i \in 1..(Len(c) + 1) /\ Append(c, w)[i] = c[i]
        BY <2>2, <2>3
      <4>2. QED
        BY <2>2, <3>1, <4>1
    <3>3. QED
      BY <3>2 DEF Short
  <2>5. ASSUME NEW i \in 1..N PROVE Covers(c, text[i])
    <3>1. Covers(Append(c, w), text[i])
      BY <1>7, <1>8
    <3>2. c[Len(c)] = w /\ c # <<>>
      BY <1>9, <1>14
    <3>3. QED
      BY <1>6, <3>1, <3>2, Repeated
  <2>6. ~(\A i \in 1..(Len(text) - 1) : text[i] # text[Len(text)])
    BY <1>10, <1>14
  <2>7. ChunksCover(c, text, size)
    BY <1>6, <2>4, <2>5, <2>6, CoverParts
  <2>8. QED
    BY <1>3, <1>6, <2>1, <2>7
<1>15. CASE N # 0 /\ ~(c # <<>> /\ Last(c) = w)
  <2>1. chunks = Full(end)
    BY <1>8, <1>11, <1>15 DEF Flush
  <2>2. Full(end) \in Seq(Seq(Pieces(S)))
    BY <1>6, <1>8, FullType
  <2>3. ChunksCover(Full(end), text, size)
    BY <1>6, <1>7, <2>2, CoverParts
  <2>4. QED
    BY <1>3, <2>1, <2>2, <2>3
<1>16. QED
  BY <1>13, <1>14, <1>15

-----------------------------------------------------------------------------
(* Pages. *)

\* However long a page is, its spans cover it.
THEOREM PageCovered ==
    ASSUME NEW words \in Nat PROVE SpansCover(chunkTextWithOverlap(words, 500, 50), words)
<1> DEFINE spans == chunkTextWithOverlap(words, 500, 50)
           n == IF words <= 500 THEN 1 ELSE (words - 500 + 450 - 1) \div 450 + 1
           start(i) == (i - 1) * 450
           stop(i) == IF start(i) + 500 > words THEN words ELSE start(i) + 500
<1>1. CASE words = 0
  <2>1. spans = <<>>
    BY <1>1 DEF chunkTextWithOverlap
  <2>2. Len(spans) = 0
    BY <2>1
  <2>3. ~(words > 0) /\ \A i \in 1..(Len(spans) - 1) : FALSE
    BY <1>1, <2>2
  <2> HIDE DEF spans
  <2>4. SpansCover(spans, words)
    BY <2>3 DEF SpansCover
  <2>5. QED
    BY <2>4 DEF spans
<1>2. CASE words > 0
  <2>1. spans = [i \in 1..n |-> [from |-> start(i), to |-> stop(i)]]
    BY <1>2 DEF chunkTextWithOverlap
  <2>2. n \in Nat \ {0} /\ start(1) = 0 /\ start(n) + 500 >= words /\ (n > 1 => start(n) + 50 < words)
    OBVIOUS
  <2>3. ASSUME NEW i \in 1..(n - 1) PROVE start(i) + 500 < words
    BY <2>2
  <2>4. stop(n) = words
    BY <2>2
  <2>5. ASSUME NEW i \in 1..(n - 1)
        PROVE  start(i) \in Int /\ start(i + 1) = start(i) + 450 /\ stop(i) = start(i) + 500
               /\ stop(i) < stop(i + 1)
    BY <2>2, <2>3
  <2> HIDE DEF n, start, stop, spans
  <2>6. Len(spans) = n /\ \A i \in 1..n : spans[i].from = start(i) /\ spans[i].to = stop(i)
    BY <2>1, <2>2
  <2>7. spans # <<>>
    BY <2>2, <2>6
  <2>8. Last(spans) = spans[n] /\ 1 \in 1..n /\ n \in 1..n
    BY <2>2, <2>6 DEF Last
  <2>9. ASSUME NEW i \in 1..(Len(spans) - 1)
        PROVE  spans[i + 1].from < spans[i].to /\ spans[i].to < spans[i + 1].to
    <3>1. i \in 1..(n - 1) /\ i \in 1..n /\ i + 1 \in 1..n
      BY <2>2, <2>6
    <3>2. QED
      BY <2>5, <2>6, <3>1
  <2>10. QED
    BY <2>2, <2>4, <2>6, <2>7, <2>8, <2>9 DEF SpansCover, spans
<1>3. QED
  BY <1>1, <1>2

-----------------------------------------------------------------------------
(* Sheets. *)

\* k holds what s holds at the positions kept: e says which is where.
Picks(e, k, s, keep) ==
    /\ e \in [1..Len(k) -> keep]
    /\ \A i, j \in 1..Len(k) : e[i] = e[j] => i = j
    /\ \A x \in keep : \E i \in 1..Len(k) : e[i] = x
    /\ \A i \in 1..Len(k) : k[i] = s[e[i]]

\* One more position, kept.
LEMMA PicksMore ==
    ASSUME NEW Q, NEW s \in Seq(Q), NEW n \in 1..Len(s), NEW k \in Seq(Q), NEW keep, n \notin keep,
           \E e : Picks(e, k, s, keep)
    PROVE  \E e : Picks(e, Append(k, s[n]), s, keep \cup {n})
<1>1. PICK e : Picks(e, k, s, keep)
  OBVIOUS
<1>2. PICK l \in Nat : l = Len(k)
  OBVIOUS
<1> DEFINE d == [i \in 1..(l + 1) |-> IF i = l + 1 THEN n ELSE e[i]]
           h == Append(k, s[n])
<1>3. Len(h) = l + 1 /\ h[l + 1] = s[n] /\ \A i \in 1..l : h[i] = k[i]
  BY <1>2, AppendProperties
<1>4. e \in [1..l -> keep] /\ (\A i, j \in 1..l : e[i] = e[j] => i = j)
      /\ (\A x \in keep : \E i \in 1..l : e[i] = x) /\ (\A i \in 1..l : k[i] = s[e[i]])
  BY <1>1, <1>2 DEF Picks
<1>5. d[l + 1] = n /\ \A i \in 1..l : d[i] = e[i] /\ d[i] \in keep
  BY <1>4
<1>6. d \in [1..(l + 1) -> keep \cup {n}]
  BY <1>4
<1>7. \A i \in 1..(l + 1) : i = l + 1 \/ i \in 1..l
  OBVIOUS
<1>8. \A i \in 1..l : i \in 1..(l + 1)
  OBVIOUS
<1> HIDE DEF d, h
<1>9. ASSUME NEW i \in 1..(l + 1), NEW j \in 1..(l + 1), d[i] = d[j] PROVE i = j
  BY <1>4, <1>5, <1>7, <1>9
<1>10. ASSUME NEW x \in keep \cup {n} PROVE \E i \in 1..(l + 1) : d[i] = x
  <2>1. CASE x = n
    BY <1>5, <2>1
  <2>2. CASE x \in keep
    BY <1>4, <1>5, <1>8, <2>2
  <2>3. QED
    BY <2>1, <2>2
<1>11. ASSUME NEW i \in 1..(l + 1) PROVE h[i] = s[d[i]]
  BY <1>3, <1>4, <1>5, <1>7
<1>12. Picks(d, h, s, keep \cup {n})
  BY <1>3, <1>6, <1>9, <1>10, <1>11 DEF Picks
<1>13. QED
  BY <1>12 DEF h

\* What Kept keeps is what s holds at the positions kept, each once.
LEMMA KeptPicks ==
    ASSUME NEW Q, NEW s \in Seq(Q), NEW keep, keep \subseteq 1..Len(s)
    PROVE  Kept(s, keep) \in Seq(Q) /\ \E e : Picks(e, Kept(s, keep), s, keep)
<1> DEFINE N == Len(s)
           S == Seq(Q)
           P == (1..N) \X S
           D == [x \in P |-> IF x[1] \in keep THEN Append(x[2], s[x[1]]) ELSE x[2]]
           f == CHOOSE upto : upto = [n \in 0..N |->
                    IF n = 0 THEN <<>>
                    ELSE IF n \in keep THEN Append(upto[n - 1], s[n]) ELSE upto[n - 1]]
<1>1. N \in Nat /\ \A n \in 1..N : s[n] \in Q
  OBVIOUS
<1>2. D \in [P -> S]
  BY <1>1, AppendProperties
<1>3. ASSUME NEW n \in 1..N, NEW x \in S PROVE D[<<n, x>>] = IF n \in keep THEN Append(x, s[n]) ELSE x
  OBVIOUS
<1>4. <<>> \in S
  OBVIOUS
<1> HIDE DEF D, S, N
<1>5. PICK g : IsRun(g, <<>>, N, S, D)
  BY <1>1, <1>2, <1>4, StepsExist, Zenon DEF P
<1>6. g \in [0..N -> S] /\ g[0] = <<>>
  BY <1>5 DEF IsRun
<1>7. ASSUME NEW n \in 1..N
      PROVE  g[n - 1] \in S /\ g[n] = IF n \in keep THEN Append(g[n - 1], s[n]) ELSE g[n - 1]
  <2>1. n - 1 \in 0..N
    BY <1>1
  <2>2. QED
    BY <1>3, <1>5, <1>6, <2>1 DEF IsRun
<1>8. g = [n \in 0..N |-> IF n = 0 THEN <<>>
                          ELSE IF n \in keep THEN Append(g[n - 1], s[n]) ELSE g[n - 1]]
  <2>1. ASSUME NEW n \in 0..N, n # 0
        PROVE  n > 0 /\ g[n] = IF n \in keep THEN Append(g[n - 1], s[n]) ELSE g[n - 1]
    BY <1>1, <1>7, <2>1
  <2>2. QED
    BY <1>6, <2>1
<1>9. f = [n \in 0..N |-> IF n = 0 THEN <<>>
                          ELSE IF n \in keep THEN Append(f[n - 1], s[n]) ELSE f[n - 1]]
  BY <1>8, Zenon
<1>10. Kept(s, keep) = f[N]
  BY Zenon DEF Kept, N
<1> HIDE DEF f
<1>11. f[0] = <<>> /\ \A n \in 1..N : f[n] = IF n \in keep THEN Append(f[n - 1], s[n]) ELSE f[n - 1]
  <2>1. ASSUME NEW n \in 1..N PROVE n \in 0..N /\ n # 0
    BY <1>1
  <2>2. 0 \in 0..N
    BY <1>1
  <2>3. f[0] = <<>>
    BY <1>9, <2>2
  <2>4. ASSUME NEW n \in 1..N PROVE f[n] = IF n \in keep THEN Append(f[n - 1], s[n]) ELSE f[n - 1]
    BY <1>9, <2>1
  <2>5. QED
    BY <2>3, <2>4
<1> DEFINE T == {n \in Nat : n <= N => f[n] \in S /\ \E e : Picks(e, f[n], s, keep \cap (1..n))}
<1>12. 0 \in T
  <2>1. Picks(<<>>, <<>>, s, keep \cap (1..0))
    BY DEF Picks
  <2>2. QED
    BY <1>4, <1>11, <2>1
<1>13. ASSUME NEW n \in Nat, n \in T PROVE n + 1 \in T
  <2> SUFFICES ASSUME n + 1 <= N
               PROVE  f[n + 1] \in S /\ \E e : Picks(e, f[n + 1], s, keep \cap (1..(n + 1)))
    <3>1. n + 1 \in Nat
      OBVIOUS
    <3>2. QED
      BY <3>1
  <2>1. n + 1 \in 1..N /\ (n + 1) - 1 = n /\ n <= N
    BY <1>1
  <2>2. f[n] \in S /\ \E e : Picks(e, f[n], s, keep \cap (1..n))
    BY <1>13, <2>1
  <2>3. 1..(n + 1) = (1..n) \cup {n + 1} /\ n + 1 \notin 1..n
    OBVIOUS
  <2>4. CASE n + 1 \in keep
    <3>1. f[n + 1] = Append(f[n], s[n + 1])
      BY <1>11, <2>1, <2>4
    <3>2. keep \cap (1..(n + 1)) = (keep \cap (1..n)) \cup {n + 1} /\ n + 1 \notin keep \cap (1..n)
      BY <2>3, <2>4
    <3>3. f[n] \in Seq(Q) /\ n + 1 \in 1..Len(s) /\ s[n + 1] \in Q
      BY <1>1, <2>1, <2>2 DEF S, N
    <3>4. \E e : Picks(e, f[n + 1], s, (keep \cap (1..n)) \cup {n + 1})
      <4> DEFINE K == keep \cap (1..n)
      <4>1. n + 1 \notin K /\ \E e : Picks(e, f[n], s, K)
        BY <2>2, <3>2
      <4> HIDE DEF K
      <4>2. \E e : Picks(e, Append(f[n], s[n + 1]), s, K \cup {n + 1})
        BY <3>3, <4>1, PicksMore
      <4>3. QED
        BY <3>1, <4>2 DEF K
    <3>5. f[n + 1] \in S
      BY <3>1, <3>3, AppendProperties DEF S
    <3>6. QED
      BY <3>2, <3>4, <3>5
  <2>5. CASE n + 1 \notin keep
    <3>1. f[n + 1] = f[n]
      BY <1>11, <2>1, <2>5
    <3>2. keep \cap (1..(n + 1)) = keep \cap (1..n)
      BY <2>3, <2>5
    <3>3. QED
      BY <2>2, <3>1, <3>2
  <2>6. QED
    BY <2>4, <2>5
<1> HIDE DEF T
<1>14. N \in T
  BY <1>1, <1>12, <1>13, NatInd
<1>15. keep \cap (1..N) = keep
  BY DEF N
<1>16. f[N] \in S /\ \E e : Picks(e, f[N], s, keep \cap (1..N))
  <2>1. N <= N
    BY <1>1
  <2>2. QED
    BY <1>14, <2>1, Zenon DEF T
<1>17. QED
  BY <1>10, <1>15, <1>16 DEF S

\* Two sets with as many elements.
LEMMA Matched ==
    ASSUME NEW A, IsFiniteSet(A), NEW B, NEW f \in [A -> B],
           \A x, y \in A : f[x] = f[y] => x = y, \A b \in B : \E a \in A : f[a] = b
    PROVE  IsFiniteSet(B) /\ Cardinality(B) = Cardinality(A)
<1>1. f \in Bijection(A, B)
  BY DEF Bijection, Injection, Surjection, IsInjective
<1>2. ExistsBijection(A, B)
  BY <1>1 DEF ExistsBijection
<1>3. QED
  BY <1>2, FS_Bijection

\* Where cells are.
LEMMA CellIs ==
    ASSUME NEW Q, NEW m \in Seq(Seq(Q)), NEW x
    PROVE  /\ x \in Cells(m) => /\ x = <<x[1], x[2]>> /\ x[1] \in 1..Len(m) /\ x[2] \in 1..Len(m[x[1]])
                                /\ m[x[1]][x[2]] # ""
           /\ \A r \in 1..Len(m) : \A c \in 1..Len(m[r]) : m[r][c] # "" => <<r, c>> \in Cells(m)
<1>2. ASSUME x \in Cells(m)
      PROVE  /\ x = <<x[1], x[2]>> /\ x[1] \in 1..Len(m) /\ x[2] \in 1..Len(m[x[1]])
             /\ m[x[1]][x[2]] # ""
  BY <1>2, PlaceIs DEF Cells
<1>3. ASSUME NEW r \in 1..Len(m), NEW c \in 1..Len(m[r]), m[r][c] # "" PROVE <<r, c>> \in Cells(m)
  <2>1. <<r, c>> \in Places(m)
    BY PlaceIs
  <2>2. m[<<r, c>>[1]][<<r, c>>[2]] # ""
    BY <1>3
  <2>3. QED
    BY <2>1, <2>2 DEF Cells
<1>4. QED
  BY <1>2, <1>3

\* Finitely many texts have finitely many places.
LEMMA PlacesFinite == ASSUME NEW Q, NEW f \in Seq(Seq(Q)) PROVE IsFiniteSet(Places(f))
<1> DEFINE F == [i \in 1..Len(f) |-> {i} \X (1..Len(f[i]))]
           B == {F[i] : i \in 1..Len(f)}
<1>1. Len(f) \in Nat /\ \A i \in 1..Len(f) : Len(f[i]) \in Nat
  OBVIOUS
<1>2. ASSUME NEW i \in 1..Len(f) PROVE IsFiniteSet(F[i])
  <2>1. Len(f[i]) \in Int /\ 1 \in Int
    BY <1>1
  <2>2. IsFiniteSet(1..Len(f[i])) /\ IsFiniteSet({i})
    BY <2>1, FS_Interval, FS_Singleton
  <2>3. QED
    BY <2>2, FS_Product
<1>3. Places(f) = UNION B
  BY PlacesOf
<1> HIDE DEF F
<1>4. IsFiniteSet(1..Len(f))
  BY <1>1, FS_Interval
<1>5. IsFiniteSet(B)
  <2> DEFINE G == [i \in 1..Len(f) |-> F[i]]
  <2>1. G \in Surjection(1..Len(f), B)
    BY DEF Surjection
  <2> HIDE DEF G, B
  <2>2. QED
    BY <1>4, <2>1, FS_Surjection
<1> HIDE DEF B
<1>6. \A T \in B : IsFiniteSet(T)
  BY <1>2 DEF B
<1>7. QED
  BY <1>3, <1>5, <1>6, FS_UNION

\* And a sheet finitely many cells.
LEMMA CellsFinite == ASSUME NEW Q, NEW m \in Seq(Seq(Q)) PROVE IsFiniteSet(Cells(m))
<1>1. IsFiniteSet(Places(m)) /\ Cells(m) \subseteq Places(m)
  BY PlacesFinite DEF Cells
<1>2. QED
  BY <1>1, FS_Subset

\* Rows without a cell are no loss.
LEMMA CleanCells ==
    ASSUME NEW Q, NEW m \in Seq(Seq(Q))
    PROVE  /\ cleanTableData(m) \in Seq(Seq(Q))
           /\ Cardinality(Cells(cleanTableData(m))) = Cardinality(Cells(m))
<1> DEFINE keep == {r \in DOMAIN m : \E c \in DOMAIN m[r] : m[r][c] # ""}
           k == cleanTableData(m)
<1>1. DOMAIN m = 1..Len(m) /\ keep \subseteq 1..Len(m)
  <2>1. DOMAIN m = 1..Len(m)
    OBVIOUS
  <2>2. keep \subseteq DOMAIN m
    OBVIOUS
  <2>3. QED
    BY <2>1, <2>2
<1>2. k = Kept(m, keep)
  BY DEF cleanTableData
<1> HIDE DEF keep, k
<1>3. k \in Seq(Seq(Q)) /\ \E e : Picks(e, k, m, keep)
  BY <1>1, <1>2, KeptPicks
<1>4. k \in Seq(Seq(Q))
  BY <1>3
<1>5. PICK e : Picks(e, k, m, keep)
  BY <1>3
<1>6. \A i \in 1..Len(k) : e[i] \in keep /\ e[i] \in 1..Len(m) /\ k[i] = m[e[i]]
  BY <1>1, <1>5 DEF Picks
<1> DEFINE A == Cells(k)
           B == Cells(m)
           f == [x \in A |-> <<e[x[1]], x[2]>>]
<1>7. ASSUME NEW x \in A PROVE x = <<x[1], x[2]>> /\ x[1] \in 1..Len(k) /\ f[x] = <<e[x[1]], x[2]>> /\ f[x] \in B
  <2>1. x = <<x[1], x[2]>> /\ x[1] \in 1..Len(k) /\ x[2] \in 1..Len(k[x[1]]) /\ k[x[1]][x[2]] # ""
    BY <1>4, CellIs
  <2>2. e[x[1]] \in 1..Len(m) /\ x[2] \in 1..Len(m[e[x[1]]]) /\ m[e[x[1]]][x[2]] # ""
    BY <1>6, <2>1
  <2>3. <<e[x[1]], x[2]>> \in B
    BY <2>2, CellIs
  <2>4. QED
    BY <2>1, <2>3
<1>8. f \in [A -> B]
  BY <1>7
<1> HIDE DEF f
<1>9. ASSUME NEW x \in A, NEW y \in A, f[x] = f[y] PROVE x = y
  <2>1. e[x[1]] = e[y[1]] /\ x[2] = y[2]
    BY <1>7, <1>9
  <2>2. x[1] = y[1]
    BY <1>5, <1>7, <2>1 DEF Picks
  <2>3. QED
    BY <1>7, <2>1, <2>2
<1>10. ASSUME NEW b \in B PROVE \E a \in A : f[a] = b
  <2>1. b = <<b[1], b[2]>> /\ b[1] \in 1..Len(m) /\ b[2] \in 1..Len(m[b[1]]) /\ m[b[1]][b[2]] # ""
    BY CellIs
  <2>2. b[2] \in DOMAIN m[b[1]]
    <3>1. \A r \in 1..Len(m) : DOMAIN m[r] = 1..Len(m[r])
      OBVIOUS
    <3>2. QED
      BY <2>1, <3>1
  <2>3. b[1] \in keep
    BY <1>1, <2>1, <2>2 DEF keep
  <2>4. PICK i \in 1..Len(k) : e[i] = b[1]
    BY <1>5, <2>3 DEF Picks
  <2>5. b[2] \in 1..Len(k[i]) /\ k[i][b[2]] # ""
    BY <1>6, <2>1, <2>4
  <2>6. <<i, b[2]>> \in A
    BY <1>4, <2>5, CellIs
  <2>7. f[<<i, b[2]>>] = <<e[i], b[2]>>
    BY <2>6 DEF f
  <2>8. QED
    BY <2>1, <2>4, <2>6, <2>7
<1>11. Cardinality(B) = Cardinality(A)
  BY <1>4, <1>8, <1>9, <1>10, CellsFinite, Matched
<1>12. QED
  BY <1>4, <1>11 DEF k

\* The first of some that is greatest.
LEMMA FirstGreatest ==
    ASSUME NEW N \in Nat \ {0}, NEW f, \A i \in 1..N : f[i] \in Nat
    PROVE  \E r \in 1..N : (\A q \in 1..N : f[q] <= f[r]) /\ (\A q \in 1..(r - 1) : f[q] < f[r])
<1> DEFINE T == {n \in Nat : n + 1 <= N => \E r \in 1..(n + 1) :
                    (\A q \in 1..(n + 1) : f[q] <= f[r]) /\ (\A q \in 1..(r - 1) : f[q] < f[r])}
<1>1. 0 \in T
  <2>1. \A q \in 1..(0 + 1) : q = 1
    OBVIOUS
  <2>2. 1 \in 1..(0 + 1) /\ f[1] <= f[1] /\ \A q \in 1..(1 - 1) : f[q] < f[1]
    OBVIOUS
  <2>3. QED
    BY <2>1, <2>2
<1>2. ASSUME NEW n \in Nat, n \in T PROVE n + 1 \in T
  <2> SUFFICES ASSUME (n + 1) + 1 <= N
               PROVE  \E r \in 1..((n + 1) + 1) :
                         /\ \A q \in 1..((n + 1) + 1) : f[q] <= f[r]
                         /\ \A q \in 1..(r - 1) : f[q] < f[r]
    OBVIOUS
  <2>1. PICK r \in 1..(n + 1) : (\A q \in 1..(n + 1) : f[q] <= f[r]) /\ (\A q \in 1..(r - 1) : f[q] < f[r])
    BY <1>2
  <2>2. f[r] \in Nat /\ f[(n + 1) + 1] \in Nat /\ \A q \in 1..(n + 1) : f[q] \in Nat
    BY <2>1
  <2>3. CASE f[(n + 1) + 1] <= f[r]
    <3>1. r \in 1..((n + 1) + 1)
      BY <2>1
    <3>2. \A q \in 1..((n + 1) + 1) : f[q] <= f[r]
      BY <2>1, <2>3
    <3>3. QED
      BY <2>1, <3>1, <3>2
  <2>4. CASE f[(n + 1) + 1] > f[r]
    <3>1. \A q \in 1..(n + 1) : f[q] < f[(n + 1) + 1]
      BY <2>1, <2>2, <2>4
    <3>2. \A q \in 1..((n + 1) + 1) : f[q] <= f[(n + 1) + 1]
      BY <2>2, <3>1
    <3>3. (n + 1) + 1 \in 1..((n + 1) + 1) /\ ((n + 1) + 1) - 1 = n + 1
      OBVIOUS
    <3>4. QED
      BY <3>1, <3>2, <3>3
  <2>5. QED
    BY <2>2, <2>3, <2>4
<1> HIDE DEF T
<1>3. \A n \in Nat : n \in T
  BY <1>1, <1>2, NatInd
<1>4. N - 1 \in T /\ (N - 1) + 1 = N
  BY <1>3
<1>5. QED
  BY <1>4 DEF T

\* A matrix with a row has a width, which no row is beyond.
LEMMA WidthIs ==
    ASSUME NEW Q, NEW m \in Seq(Seq(Q)), m # <<>>
    PROVE  Width(m) \in Nat /\ \A r \in 1..Len(m) : Len(m[r]) <= Width(m)
<1> DEFINE f == [r \in 1..Len(m) |-> Len(m[r])]
           S == {Len(m[r]) : r \in DOMAIN m}
<1>1. Len(m) \in Nat \ {0} /\ DOMAIN m = 1..Len(m)
  BY EmptySeq
<1>2. \A r \in 1..Len(m) : f[r] \in Nat /\ f[r] = Len(m[r])
  OBVIOUS
<1> HIDE DEF f
<1>3. PICK r \in 1..Len(m) : \A q \in 1..Len(m) : f[q] <= f[r]
  BY <1>1, <1>2, FirstGreatest
<1>4. Len(m[r]) \in S /\ \A y \in S : Len(m[r]) >= y
  BY <1>1, <1>2, <1>3
<1>5. Width(m) = CHOOSE x \in S : \A y \in S : x >= y
  BY DEF Width, Max
<1> HIDE DEF S
<1>6. Width(m) \in S /\ \A y \in S : Width(m) >= y
  BY <1>4, <1>5
<1>7. QED
  BY <1>1, <1>2, <1>6 DEF S

\* A function on the first n numbers is a sequence.
LEMMA SeqIs == ASSUME NEW T, NEW n \in Nat, NEW g \in [1..n -> T] PROVE g \in Seq(T) /\ Len(g) = n
OBVIOUS

\* A sequence of some values is one of more values.
LEMMA SeqWider == ASSUME NEW Q, NEW R, Q \subseteq R, NEW s \in Seq(Q) PROVE s \in Seq(R)
<1>1. Len(s) \in Nat /\ s \in [1..Len(s) -> R]
  OBVIOUS
<1>2. QED
  BY <1>1, SeqIs

\* So is a sequence of sequences.
LEMMA MatrixWider ==
    ASSUME NEW Q, NEW R, Q \subseteq R, NEW m \in Seq(Seq(Q)) PROVE m \in Seq(Seq(R))
<1> DEFINE A == Seq(Q)
           B == Seq(R)
<1>1. m \in Seq(A) /\ A \subseteq B
  BY SeqWider
<1> HIDE DEF A, B
<1>2. m \in Seq(B)
  BY <1>1, SeqWider
<1>3. QED
  BY <1>2 DEF B

\* A matrix on its side has the same cells.
LEMMA TransposedCells ==
    ASSUME NEW Q, NEW m \in Seq(Seq(Q)), m # <<>>
    PROVE  /\ transposeMatrix(m) \in Seq(Seq(Q \cup {""}))
           /\ Cardinality(Cells(transposeMatrix(m))) = Cardinality(Cells(m))
<1> DEFINE W == Width(m)
           N == Len(m)
           t == transposeMatrix(m)
           A == Cells(m)
           B == Cells(t)
           f == [x \in A |-> <<x[2], x[1]>>]
<1>1. W \in Nat /\ N \in Nat /\ DOMAIN m = 1..N /\ \A r \in 1..N : Len(m[r]) <= W /\ Len(m[r]) \in Nat
  BY WidthIs
<1>2. t = [c \in 1..W |-> [r \in 1..N |-> IF c <= Len(m[r]) THEN m[r][c] ELSE ""]]
  BY <1>1 DEF transposeMatrix
<1>3. ASSUME NEW c \in 1..W, NEW r \in 1..N
      PROVE  IF c <= Len(m[r]) THEN m[r][c] \in Q ELSE TRUE
  BY <1>1
<1> HIDE DEF W, N, t
<1>4. t \in Seq(Seq(Q \cup {""})) /\ Len(t) = W
      /\ \A c \in 1..W : Len(t[c]) = N /\ \A r \in 1..N : t[c][r] = IF c <= Len(m[r]) THEN m[r][c] ELSE ""
  <2>1. ASSUME NEW c \in 1..W
        PROVE  [r \in 1..N |-> IF c <= Len(m[r]) THEN m[r][c] ELSE ""] \in Seq(Q \cup {""})
          /\ Len([r \in 1..N |-> IF c <= Len(m[r]) THEN m[r][c] ELSE ""]) = N
    <3>1. [r \in 1..N |-> IF c <= Len(m[r]) THEN m[r][c] ELSE ""] \in [1..N -> Q \cup {""}]
      BY <1>3
    <3>2. N \in Nat
      BY <1>1
    <3>3. QED
      BY <3>1, <3>2, SeqIs
  <2>2. \A c \in 1..W : t[c] = [r \in 1..N |-> IF c <= Len(m[r]) THEN m[r][c] ELSE ""]
    BY <1>2
  <2>3. t \in Seq(Seq(Q \cup {""})) /\ Len(t) = W
    <3> DEFINE R == Seq(Q \cup {""})
    <3>1. \A c \in 1..W : t[c] \in R
      BY <2>1, <2>2
    <3> HIDE DEF R
    <3>2. t \in [1..W -> R] /\ W \in Nat
      BY <1>1, <1>2, <3>1
    <3>3. t \in Seq(R) /\ Len(t) = W
      BY <3>2, SeqIs
    <3>4. QED
      BY <3>3 DEF R
  <2>4. ASSUME NEW c \in 1..W
        PROVE  Len(t[c]) = N /\ \A r \in 1..N : t[c][r] = IF c <= Len(m[r]) THEN m[r][c] ELSE ""
    BY <2>1, <2>2
  <2>5. QED
    BY <2>3, <2>4
<1>5. ASSUME NEW x \in A PROVE x = <<x[1], x[2]>> /\ f[x] = <<x[2], x[1]>> /\ f[x] \in B
  <2>1. x = <<x[1], x[2]>> /\ x[1] \in 1..N /\ x[2] \in 1..Len(m[x[1]]) /\ m[x[1]][x[2]] # ""
    BY CellIs DEF N
  <2>2. PICK r, c : x = <<r, c>> /\ r \in 1..N /\ c \in 1..Len(m[r]) /\ m[r][c] # ""
    BY <2>1
  <2>3. c \in 1..W /\ c <= Len(m[r])
    <3>1. Len(m[r]) <= W /\ Len(m[r]) \in Nat /\ W \in Nat
      BY <1>1, <2>2
    <3>2. c \in 1..Len(m[r])
      BY <2>2
    <3>3. QED
      BY <3>1, <3>2
  <2>4. c \in 1..Len(t) /\ r \in 1..Len(t[c]) /\ t[c][r] # ""
    BY <1>4, <2>2, <2>3
  <2>5. <<c, r>> \in B
    BY <1>4, <2>4, CellIs
  <2>6. QED
    BY <2>2, <2>5
<1>6. f \in [A -> B]
  BY <1>5
<1> HIDE DEF f
<1>7. ASSUME NEW x \in A, NEW y \in A, f[x] = f[y] PROVE x = y
  <2>1. x[2] = y[2] /\ x[1] = y[1]
    BY <1>5, <1>7
  <2>2. QED
    BY <1>5, <2>1
<1>8. ASSUME NEW b \in B PROVE \E a \in A : f[a] = b
  <2>1. b = <<b[1], b[2]>> /\ b[1] \in 1..Len(t) /\ b[2] \in 1..Len(t[b[1]]) /\ t[b[1]][b[2]] # ""
    BY <1>4, CellIs
  <2>2. PICK c, r : b = <<c, r>> /\ c \in 1..Len(t) /\ r \in 1..Len(t[c]) /\ t[c][r] # ""
    BY <2>1
  <2>3. c \in 1..W /\ r \in 1..N
    BY <1>4, <2>2
  <2>4. c <= Len(m[r]) /\ m[r][c] # ""
    BY <1>4, <2>2, <2>3
  <2>5. r \in 1..Len(m) /\ c \in 1..Len(m[r])
    <3>1. Len(m[r]) \in Nat /\ W \in Nat
      BY <1>1, <2>3
    <3>2. c <= Len(m[r])
      BY <2>4
    <3>3. c \in 1..Len(m[r])
      BY <2>3, <3>1, <3>2
    <3>4. QED
      BY <2>3, <3>3 DEF N
  <2>6. <<r, c>> \in A
    BY <2>4, <2>5, CellIs
  <2>7. f[<<r, c>>] = <<c, r>>
    BY <2>6 DEF f
  <2>8. QED
    BY <2>2, <2>6, <2>7
<1>9. Cardinality(B) = Cardinality(A)
  BY <1>6, <1>7, <1>8, CellsFinite, Matched
<1>10. QED
  BY <1>4, <1>9 DEF t

\* Nor does the orientation lose a cell.
LEMMA OrientedCells ==
    ASSUME NEW Q, NEW sheet \in Seq(Seq(Q))
    PROVE  /\ Oriented(sheet) \in Seq(Seq(Q \cup {""}))
           /\ Cardinality(Cells(Oriented(sheet))) = Cardinality(Cells(sheet))
<1> DEFINE m == cleanTableData(sheet)
<1>1. m \in Seq(Seq(Q)) /\ Cardinality(Cells(m)) = Cardinality(Cells(sheet))
  BY CleanCells
<1>2. Oriented(sheet) = IF m # <<>> /\ detectDataOrientation(m) = "columns" THEN transposeMatrix(m) ELSE m
  BY DEF Oriented
<1> HIDE DEF m
<1>3. m \in Seq(Seq(Q \cup {""}))
  BY <1>1, MatrixWider
<1>4. QED
  BY <1>1, <1>2, <1>3, TransposedCells

\* One of the rows is taken for the header.
LEMMA HeaderIs ==
    ASSUME NEW Q, NEW m \in Seq(Seq(Q)), m # <<>> PROVE findHeaderRow(m) \in 1..Len(m)
<1> DEFINE words(r) == Cardinality({c \in DOMAIN m[r] : m[r][c] \in Words})
           N == IF Len(m) < 8 THEN Len(m) ELSE 8
           f == [r \in 1..N |-> words(r)]
<1>1. N \in Nat \ {0} /\ N <= Len(m) /\ Len(m) \in Nat
  BY EmptySeq
<1>2. ASSUME NEW r \in 1..N PROVE words(r) \in Nat
  <2>1. r \in 1..Len(m)
    BY <1>1
  <2>2. DOMAIN m[r] = 1..Len(m[r]) /\ Len(m[r]) \in Int /\ 1 \in Int
    BY <2>1
  <2>3. IsFiniteSet(DOMAIN m[r])
    BY <2>2, FS_Interval
  <2>4. IsFiniteSet({c \in DOMAIN m[r] : m[r][c] \in Words})
    BY <2>3, FS_Subset
  <2>5. QED
    BY <2>4, FS_CardinalityType
<1> HIDE DEF words
<1>3. \A r \in 1..N : f[r] \in Nat /\ f[r] = words(r)
  BY <1>2
<1>4. findHeaderRow(m) = CHOOSE r \in 1..N : /\ \A q \in 1..N : words(q) <= words(r)
                                             /\ \A q \in 1..(r - 1) : words(q) < words(r)
  BY DEF findHeaderRow, words
<1> HIDE DEF N, f
<1>5. PICK r \in 1..N : (\A q \in 1..N : f[q] <= f[r]) /\ (\A q \in 1..(r - 1) : f[q] < f[r])
  BY <1>1, <1>3, FirstGreatest
<1>6. \A q \in 1..(r - 1) : q \in 1..N
  BY <1>1
<1>7. (\A q \in 1..N : words(q) <= words(r)) /\ (\A q \in 1..(r - 1) : words(q) < words(r))
  BY <1>3, <1>5, <1>6
<1>8. findHeaderRow(m) \in 1..N
  BY <1>4, <1>7
<1>9. QED
  BY <1>1, <1>8

\* A row of a sheet is a sequence of cells.
LEMMA RowIs ==
    ASSUME NEW Q, NEW m \in Seq(Seq(Q)), NEW r \in 1..Len(m)
    PROVE  m[r] \in Seq(Q) /\ Len(m[r]) \in Nat /\ DOMAIN m[r] = 1..Len(m[r])
<1>1. m[r] \in Seq(Q)
  OBVIOUS
<1>2. QED
  BY <1>1

\* Each header has a key.
LEMMA KeysAre ==
    ASSUME NEW Q, NEW headers \in Seq(Q)
    PROVE  \E K : generateSmartKeys(headers) \in Seq(K) /\ Len(generateSmartKeys(headers)) = Len(headers)
<1> DEFINE key(i) == IF headers[i] \in Signs \cup {""} THEN <<Column, i>> ELSE <<headers[i]>>
           K == {key(i) : i \in 1..Len(headers)}
           keys == [i \in 1..Len(headers) |-> key(i)]
<1>1. Len(headers) \in Nat /\ DOMAIN headers = 1..Len(headers)
  OBVIOUS
<1>2. generateSmartKeys(headers) = keys
  BY <1>1, Zenon DEF generateSmartKeys
<1> HIDE DEF key
<1>3. keys \in [1..Len(headers) -> K]
  OBVIOUS
<1> HIDE DEF keys, K
<1>4. keys \in Seq(K) /\ Len(keys) = Len(headers)
  BY <1>1, <1>3, SeqIs
<1>5. QED
  BY <1>2, <1>4

\* The cells of a row under a header.
Under(row, keys) == {c \in 1..Len(row) : c <= Len(keys) /\ row[c] # ""}

\* A row text t has them, each under its key: e says which is where.
Fills(e, t, row, keys) ==
    /\ e \in [1..Len(t) -> Under(row, keys)]
    /\ \A i, j \in 1..Len(t) : e[i] = e[j] => i = j
    /\ \A c \in Under(row, keys) : \E i \in 1..Len(t) : e[i] = c
    /\ \A i \in 1..Len(t) : t[i] = [key |-> keys[e[i]], val |-> row[e[i]]]

\* A row text has the filled cells of its row, and no others.
LEMMA RowTextFills ==
    ASSUME NEW Q, NEW row \in Seq(Q), NEW K, NEW keys \in Seq(K)
    PROVE  /\ RowText(row, keys) \in Seq([key : K, val : Q])
           /\ \E e : Fills(e, RowText(row, keys), row, keys)
<1> DEFINE n == IF Len(row) <= Len(keys) THEN Len(row) ELSE Len(keys)
           R == [key : K, val : Q]
           cells == [c \in 1..n |-> [key |-> keys[c], val |-> row[c]]]
           keep == {c \in DOMAIN cells : row[c] # ""}
           t == RowText(row, keys)
<1>1. Len(row) \in Nat /\ Len(keys) \in Nat /\ DOMAIN row = 1..Len(row) /\ DOMAIN keys = 1..Len(keys)
  OBVIOUS
<1>2. n \in Nat /\ DOMAIN row \cap DOMAIN keys = 1..n
  BY <1>1
<1>3. \A c \in 1..n : row[c] \in Q /\ keys[c] \in K
  BY <1>1
<1>4. t = Kept(cells, keep)
  BY <1>2 DEF RowText
<1> HIDE DEF n
<1>5. cells \in [1..n -> R] /\ \A c \in 1..n : cells[c] = [key |-> keys[c], val |-> row[c]]
  BY <1>3
<1>6. Under(row, keys) = {c \in 1..n : row[c] # ""}
  <2>1. ASSUME NEW c \in 1..Len(row) PROVE c <= Len(keys) <=> c \in 1..n
    BY <1>1 DEF n
  <2>2. \A c \in 1..n : c \in 1..Len(row)
    BY <1>1 DEF n
  <2>3. QED
    BY <2>1, <2>2 DEF Under
<1> HIDE DEF cells, R
<1>7. cells \in Seq(R) /\ Len(cells) = n /\ DOMAIN cells = 1..n
  BY <1>2, <1>5, SeqIs
<1>8. keep \subseteq 1..Len(cells) /\ keep = Under(row, keys)
  BY <1>6, <1>7
<1> HIDE DEF keep, t
<1>9. t \in Seq(R) /\ \E e : Picks(e, t, cells, keep)
  BY <1>4, <1>7, <1>8, KeptPicks
<1>10. PICK e : Picks(e, t, cells, keep)
  BY <1>9
<1>11. \A i \in 1..Len(t) : e[i] \in 1..n
  BY <1>7, <1>8, <1>10 DEF Picks
<1>12. Fills(e, t, row, keys)
  BY <1>5, <1>8, <1>10, <1>11 DEF Picks, Fills
<1>13. QED
  BY <1>9, <1>12 DEF t, R

\* Whatever a sheet holds, its row texts cover it.
THEOREM SheetCovered ==
    ASSUME NEW Q, NEW sheet \in Seq(Seq(Q))
    PROVE  /\ RowsCover(parseTableWithSmartAnalysis(sheet), sheet)
           /\ \E R : parseTableWithSmartAnalysis(sheet) \in Seq(R)
<1> DEFINE P == Q \cup {""}
           m == Oriented(sheet)
           h == findHeaderRow(m)
           keys == generateSmartKeys(m[h])
           texts == parseTableWithSmartAnalysis(sheet)
           under == {x \in Cells(m) : x[1] > h /\ x[2] <= Len(m[h])}
<1>0. Cardinality(Cells(m)) = Cardinality(Cells(sheet))
  BY OrientedCells
<1>1. m \in Seq(Seq(P))
  BY OrientedCells
<1> SUFFICES /\ Cardinality(Places(texts)) = Cardinality(under)
             /\ \A x \in under : \E y \in Places(texts) :
                   texts[y[1]][y[2]] = [key |-> keys[x[2]], val |-> m[x[1]][x[2]]]
             /\ \E R : texts \in Seq(R)
  BY <1>0, Zenon DEF RowsCover
<1>2. CASE m = <<>>
  <2>1. texts = <<>>
    BY <1>2 DEF parseTableWithSmartAnalysis
  <2>2. Cells(m) = {} /\ Places(texts) = {}
    BY <1>2, <2>1 DEF Cells, Places
  <2>3. under = {}
    BY <2>2
  <2>4. texts \in Seq({})
    BY <2>1
  <2> HIDE DEF texts
  <2>5. QED
    BY <2>2, <2>3, <2>4
<1>3. CASE m # <<>>
  <2>1. h \in 1..Len(m) /\ Len(m) \in Nat /\ m[h] \in Seq(P) /\ Len(m[h]) \in Nat
    <3>1. h \in 1..Len(m)
      BY <1>1, <1>3, HeaderIs
    <3> HIDE DEF m, h, P
    <3>2. m[h] \in Seq(P) /\ Len(m[h]) \in Nat
      BY <1>1, <3>1, RowIs
    <3>3. Len(m) \in Nat
      BY <1>1
    <3>4. QED
      BY <3>1, <3>2, <3>3
  <2>0. h \in 1..Len(m) /\ Len(m) \in Nat
    BY <2>1
  <2>2. PICK K : keys \in Seq(K) /\ Len(keys) = Len(m[h])
    BY <2>1, KeysAre
  <2> DEFINE n == Len(m) - h
             R == [key : K, val : P]
             rowTexts == [r \in 1..n |-> RowText(m[h + r], keys)]
             keep == {r \in DOMAIN rowTexts : rowTexts[r] # <<>>}
  <2>3. texts = Kept(rowTexts, keep)
    BY <1>3, Zenon DEF parseTableWithSmartAnalysis
  <2>5. keys \in Seq(K) /\ Len(keys) = Len(m[h])
    BY <2>2
  <2> HIDE DEF m, h, texts, keys
  <2>6. n \in Nat /\ \A r \in 1..n : h + r \in 1..Len(m) /\ m[h + r] \in Seq(P)
    <3>1. n \in Nat /\ \A r \in 1..n : h + r \in 1..Len(m)
      BY <2>0
    <3>2. QED
      BY <1>1, <3>1, RowIs
  <2> HIDE DEF n, P
  <2>7. ASSUME NEW r \in 1..n
        PROVE  /\ rowTexts[r] \in Seq(R)
               /\ \E e : Fills(e, rowTexts[r], m[h + r], keys)
    BY <2>5, <2>6, RowTextFills
  <2> HIDE DEF R
  <2>8. rowTexts \in Seq(Seq(R)) /\ Len(rowTexts) = n /\ DOMAIN rowTexts = 1..n
    <3> DEFINE A == Seq(R)
    <3>1. rowTexts \in [1..n -> A]
      BY <2>7
    <3> HIDE DEF A
    <3>2. rowTexts \in Seq(A) /\ Len(rowTexts) = n
      BY <2>6, <3>1, SeqIs
    <3>3. QED
      BY <3>2 DEF A
  <2> HIDE DEF rowTexts
  <2>9. keep \subseteq 1..Len(rowTexts)
    BY <2>8
  <2>10. texts \in Seq(Seq(R)) /\ \E e : Picks(e, texts, rowTexts, keep)
    BY <2>3, <2>8, <2>9, KeptPicks
  <2>11. PICK e : Picks(e, texts, rowTexts, keep)
    BY <2>10
  <2> DEFINE d == [r \in 1..n |-> CHOOSE g : Fills(g, rowTexts[r], m[h + r], keys)]
             f == [y \in Places(texts) |-> <<h + e[y[1]], d[e[y[1]]][y[2]]>>]
  <2>12. \A r \in 1..n : Fills(d[r], rowTexts[r], m[h + r], keys)
    BY <2>7
  <2>13. \A r \in keep : r \in 1..n
    BY <2>8, <2>9
  <2> HIDE DEF d, keep
  <2>14. ASSUME NEW i \in 1..Len(texts)
         PROVE  e[i] \in 1..n /\ e[i] \in keep /\ texts[i] = rowTexts[e[i]]
    BY <2>11, <2>13 DEF Picks
  <2>15. ASSUME NEW y \in Places(texts)
         PROVE  /\ y = <<y[1], y[2]>> /\ y[1] \in 1..Len(texts) /\ y[2] \in 1..Len(rowTexts[e[y[1]]])
                /\ e[y[1]] \in 1..n /\ f[y] = <<h + e[y[1]], d[e[y[1]]][y[2]]>>
                /\ f[y] \in under
                /\ texts[y[1]][y[2]] = [key |-> keys[f[y][2]], val |-> m[f[y][1]][f[y][2]]]
    <3>1. y = <<y[1], y[2]>> /\ y[1] \in 1..Len(texts) /\ y[2] \in 1..Len(texts[y[1]])
      BY <2>10, PlaceIs
    <3>2. PICK r, c : r = e[y[1]] /\ c = d[r][y[2]]
      OBVIOUS
    <3>3. r \in 1..n /\ texts[y[1]] = rowTexts[r]
      BY <2>14, <3>1, <3>2
    <3>4. /\ c \in Under(m[h + r], keys)
          /\ rowTexts[r][y[2]] = [key |-> keys[c], val |-> m[h + r][c]]
      BY <2>12, <3>1, <3>2, <3>3 DEF Fills
    <3>5. c \in 1..Len(m[h + r]) /\ c <= Len(m[h]) /\ m[h + r][c] # "" /\ h + r \in 1..Len(m)
      BY <2>5, <2>6, <3>3, <3>4 DEF Under
    <3>6. <<h + r, c>> \in Cells(m)
      BY <1>1, <3>5, CellIs
    <3>7. h + r > h
      BY <2>1, <2>6, <3>3
    <3>8. <<h + r, c>> \in under
      BY <3>5, <3>6, <3>7
    <3>9. f[y] = <<h + r, c>>
      BY <3>2
    <3>10. QED
      BY <3>1, <3>2, <3>3, <3>4, <3>8, <3>9
  <2> HIDE DEF f, under
  <2>16. f \in [Places(texts) -> under]
    BY <2>15 DEF f
  <2>17. ASSUME NEW x \in Places(texts), NEW y \in Places(texts), f[x] = f[y] PROVE x = y
    <3>1. h + e[x[1]] = h + e[y[1]] /\ d[e[x[1]]][x[2]] = d[e[y[1]]][y[2]]
      <4>1. f[x] = <<h + e[x[1]], d[e[x[1]]][x[2]]>> /\ f[y] = <<h + e[y[1]], d[e[y[1]]][y[2]]>>
        BY <2>15
      <4>2. PICK a, b, c, g : /\ a = h + e[x[1]] /\ b = d[e[x[1]]][x[2]]
                              /\ c = h + e[y[1]] /\ g = d[e[y[1]]][y[2]]
        OBVIOUS
      <4>3. <<a, b>> = <<c, g>>
        BY <2>17, <4>1, <4>2
      <4>4. a = c /\ b = g
        BY <4>3
      <4>5. QED
        BY <4>2, <4>4
    <3>2. e[x[1]] \in 1..n /\ e[y[1]] \in 1..n
      BY <2>15
    <3>3. e[x[1]] = e[y[1]]
      BY <2>1, <2>6, <3>1, <3>2
    <3>4. x[1] = y[1]
      BY <2>11, <2>15, <3>3 DEF Picks
    <3>5. PICK r : r = e[x[1]]
      OBVIOUS
    <3>6. x[2] \in 1..Len(rowTexts[r]) /\ y[2] \in 1..Len(rowTexts[r]) /\ d[r][x[2]] = d[r][y[2]] /\ r \in 1..n
      BY <2>15, <3>1, <3>2, <3>3, <3>5
    <3>7. x[2] = y[2]
      BY <2>12, <3>6 DEF Fills
    <3>8. QED
      BY <2>15, <3>4, <3>7
  <2>18. ASSUME NEW b \in under PROVE \E y \in Places(texts) : f[y] = b
    <3>1. b \in Cells(m) /\ b[1] > h /\ b[2] <= Len(m[h])
      BY DEF under
    <3>2. b = <<b[1], b[2]>> /\ b[1] \in 1..Len(m) /\ b[2] \in 1..Len(m[b[1]]) /\ m[b[1]][b[2]] # ""
      BY <1>1, <3>1, CellIs
    <3>3. PICK r, c : r = b[1] - h /\ c = b[2]
      OBVIOUS
    <3>4. r \in 1..n /\ h + r = b[1]
      <4>1. PICK a : a = b[1]
        OBVIOUS
      <4>2. a \in 1..Len(m) /\ a > h /\ r = a - h
        BY <3>1, <3>2, <3>3, <4>1
      <4>3. r \in 1..n /\ h + r = a
        BY <2>0, <4>2 DEF n
      <4>4. QED
        BY <4>1, <4>3
    <3>5. c \in Under(m[h + r], keys)
      BY <2>5, <3>1, <3>2, <3>3, <3>4 DEF Under
    <3>6. PICK l \in 1..Len(rowTexts[r]) : d[r][l] = c
      BY <2>12, <3>4, <3>5 DEF Fills
    <3>7. rowTexts[r] # <<>>
      <4>1. Len(rowTexts[r]) # 0
        BY <2>8, <3>4, <3>6
      <4>2. QED
        BY <4>1
    <3>8. r \in keep
      BY <2>8, <3>4, <3>7 DEF keep
    <3>9. PICK i \in 1..Len(texts) : e[i] = r
      BY <2>11, <3>8 DEF Picks
    <3>10. l \in 1..Len(texts[i])
      BY <2>14, <3>6, <3>9
    <3>11. <<i, l>> \in Places(texts)
      BY <2>10, <3>10, PlaceIs
    <3>12. f[<<i, l>>] = <<h + r, c>>
      BY <3>6, <3>9, <3>11 DEF f
    <3>13. QED
      BY <3>2, <3>3, <3>4, <3>11, <3>12
  <2>19. Cardinality(under) = Cardinality(Places(texts))
    BY <2>10, <2>16, <2>17, <2>18, PlacesFinite, Matched
  <2>20. ASSUME NEW x \in under
         PROVE  \E y \in Places(texts) : texts[y[1]][y[2]] = [key |-> keys[x[2]], val |-> m[x[1]][x[2]]]
    BY <2>15, <2>18
  <2>21. \E T : texts \in Seq(T)
    BY <2>10
  <2>22. QED
    BY <2>19, <2>20, <2>21 DEF under, m, h, keys, texts
<1>4. QED
  BY <1>2, <1>3
=============================================================================
