----------------------------- MODULE DataProofs -----------------------------
(***************************************************************************)
(* Proofs about the E2000+ receiver, the web socket and the HTTP request,  *)
(* for any stream and any way to cut it into blocks, and about EBList, for *)
(* any items and any number of nodes.                                      *)
(* The first section is induction on numbers in a form the provers take:   *)
(* over sets instead of predicates, and functions instead of operators.    *)
(***************************************************************************)
EXTENDS DataLoops, SequenceTheorems, FiniteSetTheorems, WellFoundedInduction, TLAPS

-----------------------------------------------------------------------------
\* Induction and recursion on numbers.

\* A set of numbers that is not empty has a least one.
LEMMA Least ==
    ASSUME NEW T \in SUBSET Nat, T # {}
    PROVE  \E x \in T : \A y \in T : x <= y
<1> DEFINE less == {ss \in Nat \X Nat : ss[1] < ss[2]}
<1>1. IsWellFoundedOn(less, Nat)
  BY NatLessThanWellFounded DEF OpToRel
<1>2. \A x, y \in T : <<y, x>> \notin less => x <= y
  OBVIOUS
<1> HIDE DEF less
<1>3. \E x \in T : \A y \in T : ~ (<<y, x>> \in less)
  BY <1>1, WFMin
<1>4. QED
  BY <1>2, <1>3

\* A set with 0 and with the number after each of its own up to n has all up to n.
LEMMA Counting ==
    ASSUME NEW n \in Nat, NEW T, 0 \in T, \A k \in 0 .. n - 1 : k \in T => k + 1 \in T
    PROVE  \A k \in 0 .. n : k \in T
<1> DEFINE missing == {k \in 0 .. n : k \notin T}
<1> SUFFICES ASSUME missing # {} PROVE FALSE
  OBVIOUS
<1>1. PICK x \in missing : \A y \in missing : x <= y
  <2>1. missing \in SUBSET Nat
    OBVIOUS
  <2> HIDE DEF missing
  <2>2. QED
    BY <2>1, Least
<1>2. x # 0 /\ x \in 1 .. n
  OBVIOUS
<1>3. x - 1 \in 0 .. n - 1 /\ x - 1 \notin missing
  BY <1>1, <1>2
<1>4. x - 1 \in T
  BY <1>3
<1>5. x \in T
  BY <1>2, <1>3, <1>4
<1>6. QED
  BY <1>5

\* f is the first k steps of the computation from base with g.
Computes(f, S, base, g, k) ==
    /\ f \in [0 .. k -> S] /\ f[0] = base
    /\ \A j \in 0 .. k - 1 : f[j + 1] = g[<<j, f[j]>>]

\* One step more.
LEMMA ComputedOnce ==
    ASSUME NEW S, NEW base \in S, NEW g \in [Nat \X S -> S], NEW k \in Nat,
           NEW f, Computes(f, S, base, g, k)
    PROVE  \E h : Computes(h, S, base, g, k + 1)
<1>1. f[k] \in S
  BY DEF Computes
<1>2. g[<<k, f[k]>>] \in S
  BY <1>1
<1>3. PICK x : x = g[<<k, f[k]>>]
  OBVIOUS
<1>4. PICK h : h = [j \in 0 .. k + 1 |-> IF j = k + 1 THEN x ELSE f[j]]
  OBVIOUS
<1>5. h \in [0 .. k + 1 -> S] /\ h[0] = base
  BY <1>2, <1>3, <1>4 DEF Computes
<1>6. ASSUME NEW j \in 0 .. k PROVE h[j + 1] = g[<<j, h[j]>>]
  <2>1. h[j] = f[j]
    BY <1>4
  <2>2. CASE j = k
    <3>1. h[j + 1] = x
      BY <2>2, <1>4
    <3>2. QED
      BY <3>1, <1>3, <2>1, <2>2
  <2>3. CASE j \in 0 .. k - 1
    <3>1. h[j + 1] = f[j + 1]
      BY <1>4, <2>3
    <3>2. QED
      BY <2>1, <2>3, <3>1 DEF Computes
  <2>4. QED
    BY <2>2, <2>3
<1>7. Computes(h, S, base, g, k + 1)
  BY <1>5, <1>6 DEF Computes
<1>8. QED
  BY <1>7

\* What is computed step by step for n steps exists.
LEMMA Computed ==
    ASSUME NEW S, NEW base \in S, NEW g \in [Nat \X S -> S], NEW n \in Nat
    PROVE  \E f : Computes(f, S, base, g, n)
<1> DEFINE done == {k \in Nat : \E f : Computes(f, S, base, g, k)}
<1>1. 0 \in done
  <2>1. PICK f : f = [k \in 0 .. 0 |-> base]
    OBVIOUS
  <2>2. Computes(f, S, base, g, 0)
    BY <2>1 DEF Computes
  <2>3. QED
    BY <2>2
<1>2. ASSUME NEW k \in 0 .. n - 1, k \in done PROVE k + 1 \in done
  <2>1. PICK f : Computes(f, S, base, g, k)
    BY <1>2
  <2>2. k \in Nat /\ k + 1 \in Nat
    OBVIOUS
  <2>3. \E h : Computes(h, S, base, g, k + 1)
    BY <2>1, <2>2, ComputedOnce
  <2>4. QED
    BY <2>2, <2>3
<1>3. \A k \in 0 .. n : k \in done
  <2> HIDE DEF done
  <2>1. QED
    BY <1>1, <1>2, Counting
<1>4. n \in done
  BY <1>3
<1>5. QED
  BY <1>4

\* A function that goes on as g does from every value in S stays in S.
LEMMA StaysIn ==
    ASSUME NEW S, NEW g \in [Nat \X S -> S], NEW n \in Nat, NEW f, f[0] \in S,
           \A k \in 0 .. n - 1 : f[k] \in S => f[k + 1] = g[<<k, f[k]>>]
    PROVE  \A k \in 0 .. n : f[k] \in S
<1> DEFINE inside == {k \in Nat : f[k] \in S}
<1>1. 0 \in inside
  OBVIOUS
<1>2. ASSUME NEW k \in 0 .. n - 1, k \in inside PROVE k + 1 \in inside
  <2>1. k \in Nat /\ k + 1 \in Nat /\ f[k] \in S
    BY <1>2
  <2>2. g[<<k, f[k]>>] \in S
    BY <2>1
  <2>3. QED
    BY <2>1, <2>2
<1>3. \A k \in 0 .. n : k \in inside
  <2> HIDE DEF inside
  <2>1. QED
    BY <1>1, <1>2, Counting
<1>4. QED
  BY <1>3

-----------------------------------------------------------------------------
\* What comes in pieces, and its bytes in blocks.

\* Joined puts one piece behind the other.
LEMMA JoinedPieces ==
    ASSUME NEW B, NEW pieces \in Seq(Seq(B))
    PROVE  /\ Serial!Joined(pieces) \in [0 .. Len(pieces) -> Seq(B)]
           /\ Serial!Joined(pieces)[0] = <<>>
           /\ \A k \in 0 .. Len(pieces) - 1 :
                 Serial!Joined(pieces)[k + 1] = Serial!Joined(pieces)[k] \o pieces[k + 1]
<1> DEFINE step == [t \in Nat \X Seq(B) |->
                       IF t[1] + 1 \in 1 .. Len(pieces) THEN t[2] \o pieces[t[1] + 1] ELSE t[2]]
           Follows(f) == f = [k \in 0 .. Len(pieces) |->
                                 IF k = 0 THEN <<>> ELSE f[k - 1] \o pieces[k]]
<1>1. Len(pieces) \in Nat /\ \A i \in 1 .. Len(pieces) : pieces[i] \in Seq(B)
  BY LenProperties, ElementOfSeq
<1>2. step \in [Nat \X Seq(B) -> Seq(B)]
  BY <1>1, ConcatProperties
<1>3. PICK f : Computes(f, Seq(B), <<>>, step, Len(pieces))
  <2> DEFINE S == Seq(B)
             base == <<>>
             many == Len(pieces)
  <2>1. base \in S /\ step \in [Nat \X S -> S] /\ many \in Nat
    BY <1>1, <1>2, EmptySeq
  <2> HIDE DEF step, S, base, many
  <2>2. \E f : Computes(f, S, base, step, many)
    BY <2>1, Computed
  <2>3. QED
    BY <2>2 DEF S, base, many
<1>4. ASSUME NEW k \in 0 .. Len(pieces) - 1 PROVE f[k + 1] = f[k] \o pieces[k + 1]
  <2>0. k \in 0 .. Len(pieces) /\ k \in Nat /\ k + 1 \in 1 .. Len(pieces)
    BY <1>1
  <2>1. f[k] \in Seq(B)
    BY <1>3, <2>0, ZenonT(60) DEF Computes
  <2>2. step[<<k, f[k]>>] = f[k] \o pieces[k + 1]
    BY <2>0, <2>1
  <2>3. QED
    BY <1>3, <2>2 DEF Computes
<1>5. Follows(f)
  <2>1. f \in [0 .. Len(pieces) -> Seq(B)] /\ f[0] = <<>>
    BY <1>3 DEF Computes
  <2>2. ASSUME NEW k \in 0 .. Len(pieces)
        PROVE  f[k] = IF k = 0 THEN <<>> ELSE f[k - 1] \o pieces[k]
    <3>1. CASE k # 0
      <4>1. k - 1 \in 0 .. Len(pieces) - 1 /\ (k - 1) + 1 = k
        BY <1>1, <3>1
      <4>2. f[(k - 1) + 1] = f[k - 1] \o pieces[(k - 1) + 1]
        BY <1>4, <4>1
      <4>3. QED
        BY <3>1, <4>1, <4>2
    <3>2. QED
      BY <2>1, <3>1
  <2>3. QED
    BY <2>1, <2>2
<1>6. Follows(Serial!Joined(pieces))
  <2>1. Serial!Joined(pieces) = CHOOSE h : Follows(h)
    BY DEF Serial!Joined
  <2> HIDE DEF Follows
  <2>2. QED
    BY <1>5, <2>1
<1>7. \A k \in 0 .. Len(pieces) :
         Serial!Joined(pieces)[k] = IF k = 0 THEN <<>>
                                    ELSE Serial!Joined(pieces)[k - 1] \o pieces[k]
  BY <1>6
<1>8. ASSUME NEW k \in 0 .. Len(pieces) - 1
      PROVE  Serial!Joined(pieces)[k + 1] = Serial!Joined(pieces)[k] \o pieces[k + 1]
  <2>1. k + 1 \in 0 .. Len(pieces) /\ k + 1 # 0 /\ (k + 1) - 1 = k
    BY <1>1
  <2>2. QED
    BY <1>7, <2>1
<1>9. \A k \in 0 .. Len(pieces) : Serial!Joined(pieces)[k] \in Seq(B)
  <2>1. Serial!Joined(pieces)[0] = <<>> /\ <<>> \in Seq(B)
    BY <1>1, <1>7, EmptySeq
  <2>2. ASSUME NEW k \in 0 .. Len(pieces) - 1, Serial!Joined(pieces)[k] \in Seq(B)
        PROVE  Serial!Joined(pieces)[k + 1] = step[<<k, Serial!Joined(pieces)[k]>>]
    <3>1. k \in Nat /\ k + 1 \in 1 .. Len(pieces)
      BY <1>1
    <3>2. QED
      BY <1>8, <2>2, <3>1
  <2> HIDE DEF step
  <2>3. QED
    BY <1>1, <1>2, <2>1, <2>2, StaysIn
<1>10. Serial!Joined(pieces) \in [0 .. Len(pieces) -> Seq(B)]
  <2>1. Serial!Joined(pieces) = [k \in 0 .. Len(pieces) |-> Serial!Joined(pieces)[k]]
    BY <1>6
  <2>2. QED
    BY <1>9, <2>1
<1>11. Serial!Joined(pieces)[0] = <<>>
  BY <1>1, <1>7
<1>12. QED
  BY <1>8, <1>10, <1>11, Zenon

\* Two sequences one behind the other.
LEMMA Concatenated ==
    ASSUME NEW S, NEW a \in Seq(S), NEW b \in Seq(S), NEW c, c = a \o b
    PROVE  /\ c \in Seq(S) /\ Len(a) \in Nat /\ Len(b) \in Nat /\ Len(c) = Len(a) + Len(b)
           /\ \A i \in 1 .. Len(a) : c[i] = a[i]
           /\ \A k \in 1 .. Len(b) : c[Len(a) + k] = b[k]
<1>1. Len(a) \in Nat /\ Len(b) \in Nat
  BY LenProperties
<1>2. \A i \in 1 .. Len(a) + Len(b) : c[i] = IF i <= Len(a) THEN a[i] ELSE b[i - Len(a)]
  BY ConcatProperties
<1>3. \A i \in 1 .. Len(a) : c[i] = a[i]
  BY <1>1, <1>2
<1>4. ASSUME NEW k \in 1 .. Len(b) PROVE c[Len(a) + k] = b[k]
  <2>1. /\ Len(a) + k \in 1 .. Len(a) + Len(b) /\ ~(Len(a) + k <= Len(a))
        /\ (Len(a) + k) - Len(a) = k
    BY <1>1
  <2>2. QED
    BY <1>2, <2>1
<1>5. QED
  BY <1>1, <1>3, <1>4, ConcatProperties

\* A byte of a piece is where the piece stands among the joined ones.
LEMMA ByteOfPiece ==
    ASSUME NEW pieces \in Seq(Seq(Nat)), NEW n \in 0 .. Len(pieces) - 1,
           NEW q \in 1 .. Len(pieces[n + 1]), NEW joined, joined = Serial!Joined(pieces)
    PROVE  /\ Len(joined[n]) + q <= Len(joined[Len(pieces)])
           /\ joined[Len(pieces)][Len(joined[n]) + q] = pieces[n + 1][q]
<1>0. PICK place : place = Len(joined[n]) + q
  OBVIOUS
<1>1. /\ Len(pieces) \in Nat /\ n \in Nat /\ n + 1 \in 1 .. Len(pieces) /\ n \in 0 .. Len(pieces)
      /\ \A k \in 1 .. Len(pieces) : pieces[k] \in Seq(Nat)
  BY LenProperties, ElementOfSeq
<1>2. /\ \A k \in 0 .. Len(pieces) : joined[k] \in Seq(Nat) /\ Len(joined[k]) \in Nat
      /\ \A k \in 0 .. Len(pieces) - 1 : joined[k + 1] = joined[k] \o pieces[k + 1]
  <2>1. /\ joined \in [0 .. Len(pieces) -> Seq(Nat)]
        /\ \A k \in 0 .. Len(pieces) - 1 : joined[k + 1] = joined[k] \o pieces[k + 1]
    BY JoinedPieces
  <2>2. QED
    BY <2>1, LenProperties
<1>3. place \in Nat /\ place >= 1
  <2>1. Len(joined[n]) \in Nat /\ Len(pieces[n + 1]) \in Nat
    BY <1>1, <1>2, LenProperties
  <2>2. QED
    BY <1>0, <2>1
<1> DEFINE there(k) == place <= Len(joined[k]) /\ joined[k][place] = pieces[n + 1][q]
           kept == {j \in Nat : there(n + 1 + j)}
<1>4. there(n + 1)
  <2>1. PICK a, b, c : a = joined[n] /\ b = pieces[n + 1] /\ c = joined[n + 1]
    OBVIOUS
  <2>2. a \in Seq(Nat) /\ b \in Seq(Nat) /\ c = a \o b
    BY <1>1, <1>2, <2>1
  <2>3. /\ Len(a) \in Nat /\ Len(b) \in Nat /\ Len(c) = Len(a) + Len(b)
        /\ \A k \in 1 .. Len(b) : c[Len(a) + k] = b[k]
    BY ONLY <2>2, Concatenated
  <2>4. q \in 1 .. Len(b) /\ Len(a) + q = place
    BY <1>0, <2>1
  <2>5. place <= Len(c) /\ c[place] = b[q]
    BY <2>3, <2>4
  <2>6. QED
    BY <2>1, <2>5
<1>5. ASSUME NEW k \in n + 1 .. Len(pieces) - 1, there(k) PROVE there(k + 1)
  <2>0. k \in 0 .. Len(pieces) /\ k \in 0 .. Len(pieces) - 1 /\ k + 1 \in 1 .. Len(pieces)
    BY <1>1
  <2>1. PICK a, b, c : a = joined[k] /\ b = pieces[k + 1] /\ c = joined[k + 1]
    OBVIOUS
  <2>2. a \in Seq(Nat) /\ b \in Seq(Nat) /\ c = a \o b
    BY <1>1, <1>2, <2>0, <2>1
  <2>3. /\ Len(a) \in Nat /\ Len(b) \in Nat /\ Len(c) = Len(a) + Len(b)
        /\ \A i \in 1 .. Len(a) : c[i] = a[i]
    BY ONLY <2>2, Concatenated
  <2>4. place \in 1 .. Len(a) /\ a[place] = pieces[n + 1][q]
    BY <1>3, <1>5, <2>1, <2>3
  <2>5. place <= Len(c) /\ c[place] = a[place]
    BY <2>3, <2>4
  <2>6. QED
    BY <2>1, <2>4, <2>5
<1> HIDE DEF there
<1>6. 0 \in kept
  <2>1. n + 1 + 0 = n + 1
    BY <1>1
  <2>2. QED
    BY <1>4, <2>1
<1>7. ASSUME NEW j \in 0 .. (Len(pieces) - (n + 1)) - 1, j \in kept PROVE j + 1 \in kept
  <2>1. n + 1 + j \in n + 1 .. Len(pieces) - 1 /\ n + 1 + (j + 1) = (n + 1 + j) + 1 /\ j + 1 \in Nat
    BY <1>1
  <2>2. there((n + 1 + j) + 1)
    BY <1>5, <1>7, <2>1
  <2>3. QED
    BY <2>1, <2>2
<1>8. PICK many : many = Len(pieces) - (n + 1)
  OBVIOUS
<1>9. many \in Nat /\ n + 1 + many = Len(pieces)
  BY <1>1, <1>8
<1> HIDE DEF kept
<1>10. many \in kept
  <2>1. \A j \in 0 .. many - 1 : j \in kept => j + 1 \in kept
    BY <1>7, <1>8
  <2>2. \A j \in 0 .. many : j \in kept
    BY ONLY <1>6, <1>9, <2>1, Counting
  <2>3. QED
    BY <1>9, <2>2
<1>11. there(Len(pieces))
  BY <1>9, <1>10 DEF kept
<1>12. QED
  BY <1>0, <1>11 DEF there

\* Behind the first bytes of a stream, which were taken, come the ones that have
\* arrived and the ones that have not.
Remains(S, stream, taken, here, away) ==
    /\ stream \in Seq(S) /\ here \in Seq(S) /\ away \in Seq(S)
    /\ taken \in Nat /\ Len(stream) = taken + Len(here) + Len(away)
    /\ \A k \in 1 .. Len(here) : here[k] = stream[taken + k]
    /\ \A k \in 1 .. Len(away) : away[k] = stream[taken + Len(here) + k]

\* The two parts of a sequence that is cut.
LEMMA Cut ==
    ASSUME NEW S, NEW s \in Seq(S), NEW at \in 0 .. Len(s)
    PROVE  /\ SubSeq(s, 1, at) \in Seq(S) /\ Len(SubSeq(s, 1, at)) = at
           /\ \A i \in 1 .. at : SubSeq(s, 1, at)[i] = s[i]
           /\ SubSeq(s, at + 1, Len(s)) \in Seq(S) /\ Len(SubSeq(s, at + 1, Len(s))) = Len(s) - at
           /\ \A i \in 1 .. Len(s) - at : SubSeq(s, at + 1, Len(s))[i] = s[at + i]
<1>0. PICK front, back : front = SubSeq(s, 1, at) /\ back = SubSeq(s, at + 1, Len(s))
  OBVIOUS
<1>1. PICK n : n = Len(s)
  OBVIOUS
<1>2. n \in Nat /\ at \in Nat /\ at <= n /\ \A i \in 1 .. n : s[i] \in S
  BY <1>1, LenProperties, ElementOfSeq
<1>3. front \in Seq(S) /\ Len(front) = at /\ \A i \in 1 .. at : front[i] = s[i]
  <2>1. 1 \in Int /\ at \in Int /\ \A i \in 1 .. at : s[i] \in S
    BY <1>2
  <2>2. /\ front \in Seq(S) /\ Len(front) = IF 1 <= at THEN at - 1 + 1 ELSE 0
        /\ \A i \in 1 .. at - 1 + 1 : front[i] = s[1 + i - 1]
    BY ONLY <1>0, <2>1, SubSeqProperties
  <2>3. \A i \in 1 .. at : i \in 1 .. at - 1 + 1 /\ 1 + i - 1 = i
    BY <1>2
  <2>4. Len(front) = at
    BY <1>2, <2>2
  <2>5. \A i \in 1 .. at : front[i] = s[i]
    BY <2>2, <2>3
  <2>6. QED
    BY <2>2, <2>4, <2>5
<1>4. back \in Seq(S) /\ Len(back) = n - at /\ \A i \in 1 .. n - at : back[i] = s[at + i]
  <2>1. at + 1 \in Int /\ n \in Int /\ \A i \in at + 1 .. n : s[i] \in S
    BY <1>2
  <2>2. back = SubSeq(s, at + 1, n)
    BY <1>0, <1>1
  <2>3. /\ back \in Seq(S) /\ Len(back) = IF at + 1 <= n THEN n - (at + 1) + 1 ELSE 0
        /\ \A i \in 1 .. n - (at + 1) + 1 : back[i] = s[at + 1 + i - 1]
    BY ONLY <2>1, <2>2, SubSeqProperties
  <2>4. \A i \in 1 .. n - at : i \in 1 .. n - (at + 1) + 1 /\ at + 1 + i - 1 = at + i
    BY <1>2
  <2>5. Len(back) = n - at
    BY <1>2, <2>3
  <2>6. \A i \in 1 .. n - at : back[i] = s[at + i]
    BY <2>3, <2>4
  <2>7. QED
    BY <2>3, <2>5, <2>6
<1>5. QED
  BY <1>0, <1>1, <1>3, <1>4

\* A block arrives.
LEMMA BlockArrives ==
    ASSUME NEW S, NEW stream, NEW taken, NEW here, NEW away, Remains(S, stream, taken, here, away),
           NEW size \in 1 .. Len(away)
    PROVE  /\ Remains(S, stream, taken, here \o SubSeq(away, 1, size),
                      SubSeq(away, size + 1, Len(away)))
           /\ Len(here \o SubSeq(away, 1, size)) = Len(here) + size
           /\ Len(SubSeq(away, size + 1, Len(away))) = Len(away) - size
<1>0. PICK here2, away2 : /\ here2 = here \o SubSeq(away, 1, size)
                          /\ away2 = SubSeq(away, size + 1, Len(away))
  OBVIOUS
<1>1. PICK front : front = SubSeq(away, 1, size)
  OBVIOUS
<1>2. PICK before, rest : before = Len(here) /\ rest = Len(away)
  OBVIOUS
<1>3. here \in Seq(S) /\ away \in Seq(S) /\ stream \in Seq(S) /\ taken \in Nat
  BY DEF Remains
<1>4. before \in Nat /\ rest \in Nat /\ size \in 1 .. rest /\ size \in 0 .. rest /\ size \in Nat
      /\ Len(stream) = taken + before + rest
  BY <1>2, <1>3, LenProperties DEF Remains
<1>5. /\ front \in Seq(S) /\ Len(front) = size
      /\ \A i \in 1 .. size : front[i] = away[i]
      /\ away2 \in Seq(S) /\ Len(away2) = rest - size
      /\ \A i \in 1 .. rest - size : away2[i] = away[size + i]
  <2>1. size \in 0 .. Len(away) /\ away2 = SubSeq(away, size + 1, Len(away))
    BY <1>0, <1>2, <1>4
  <2>2. /\ front \in Seq(S) /\ Len(front) = size
        /\ \A i \in 1 .. size : front[i] = away[i]
        /\ away2 \in Seq(S) /\ Len(away2) = Len(away) - size
        /\ \A i \in 1 .. Len(away) - size : away2[i] = away[size + i]
    BY ONLY <1>1, <1>3, <2>1, Cut
  <2>3. QED
    BY <1>2, <2>2
<1>6. /\ here2 \in Seq(S) /\ Len(here2) = before + size
      /\ \A i \in 1 .. before : here2[i] = here[i]
      /\ \A i \in 1 .. size : here2[before + i] = front[i]
  <2>1. front \in Seq(S) /\ here2 = here \o front
    BY <1>0, <1>1, <1>5
  <2>2. /\ here2 \in Seq(S) /\ Len(here2) = Len(here) + Len(front)
        /\ \A i \in 1 .. Len(here) : here2[i] = here[i]
        /\ \A i \in 1 .. Len(front) : here2[Len(here) + i] = front[i]
    BY ONLY <1>3, <2>1, Concatenated
  <2>3. QED
    BY <1>2, <1>5, <2>2
<1>7. /\ \A k \in 1 .. before : here[k] = stream[taken + k]
      /\ \A k \in 1 .. rest : away[k] = stream[taken + before + k]
  BY <1>2 DEF Remains
<1>8. ASSUME NEW k \in 1 .. before + size PROVE here2[k] = stream[taken + k]
  <2>1. CASE k \in 1 .. before
    BY <1>6, <1>7, <2>1
  <2>2. CASE k \notin 1 .. before
    <3>1. PICK i : i = k - before
      OBVIOUS
    <3>2. i \in 1 .. size /\ i \in 1 .. rest /\ before + i = k /\ taken + before + i = taken + k
      BY <1>3, <1>4, <2>2, <3>1
    <3>3. here2[before + i] = front[i] /\ front[i] = away[i]
      BY <1>5, <1>6, <3>2
    <3>4. away[i] = stream[taken + before + i]
      BY <1>7, <3>2
    <3>5. QED
      BY <3>2, <3>3, <3>4
  <2>3. QED
    BY <2>1, <2>2
<1>9. ASSUME NEW k \in 1 .. rest - size PROVE away2[k] = stream[taken + (before + size) + k]
  <2>1. size + k \in 1 .. rest /\ taken + before + (size + k) = taken + (before + size) + k
    BY <1>3, <1>4
  <2>2. QED
    BY <1>5, <1>7, <2>1
<1>10. Len(stream) = taken + (before + size) + (rest - size)
  BY <1>3, <1>4
<1>11. Remains(S, stream, taken, here2, away2)
  BY <1>2, <1>3, <1>5, <1>6, <1>8, <1>9, <1>10 DEF Remains
<1>12. QED
  BY <1>0, <1>2, <1>5, <1>6, <1>11

\* The first bytes that have arrived are taken.
LEMMA BytesTaken ==
    ASSUME NEW S, NEW stream, NEW taken, NEW here, NEW away, Remains(S, stream, taken, here, away),
           NEW count \in 0 .. Len(here)
    PROVE  /\ Remains(S, stream, taken + count, SubSeq(here, count + 1, Len(here)), away)
           /\ Len(SubSeq(here, count + 1, Len(here))) = Len(here) - count
           /\ SubSeq(here, 1, count) \in Seq(S) /\ Len(SubSeq(here, 1, count)) = count
           /\ \A k \in 0 .. count - 1 : /\ taken + k < Len(stream)
                                        /\ SubSeq(here, 1, count)[k + 1] = stream[taken + k + 1]
<1>0. PICK here2 : here2 = SubSeq(here, count + 1, Len(here))
  OBVIOUS
<1>1. PICK front : front = SubSeq(here, 1, count)
  OBVIOUS
<1>2. PICK many, rest : many = Len(here) /\ rest = Len(away)
  OBVIOUS
<1>3. here \in Seq(S) /\ away \in Seq(S) /\ stream \in Seq(S) /\ taken \in Nat
  BY DEF Remains
<1>4. /\ many \in Nat /\ rest \in Nat /\ count \in 0 .. many /\ count \in Nat
      /\ Len(stream) = taken + many + rest
  BY <1>2, <1>3, LenProperties DEF Remains
<1>5. /\ front \in Seq(S) /\ Len(front) = count
      /\ \A i \in 1 .. count : front[i] = here[i]
      /\ here2 \in Seq(S) /\ Len(here2) = many - count
      /\ \A i \in 1 .. many - count : here2[i] = here[count + i]
  <2>1. count \in 0 .. Len(here) /\ here2 = SubSeq(here, count + 1, Len(here))
    BY <1>0
  <2>2. /\ front \in Seq(S) /\ Len(front) = count
        /\ \A i \in 1 .. count : front[i] = here[i]
        /\ here2 \in Seq(S) /\ Len(here2) = Len(here) - count
        /\ \A i \in 1 .. Len(here) - count : here2[i] = here[count + i]
    BY ONLY <1>1, <1>3, <2>1, Cut
  <2>3. QED
    BY <1>2, <2>2
<1>6. /\ \A k \in 1 .. many : here[k] = stream[taken + k]
      /\ \A k \in 1 .. rest : away[k] = stream[taken + many + k]
  BY <1>2 DEF Remains
<1>7. ASSUME NEW k \in 1 .. many - count PROVE here2[k] = stream[(taken + count) + k]
  <2>1. count + k \in 1 .. many /\ taken + (count + k) = (taken + count) + k
    BY <1>3, <1>4
  <2>2. QED
    BY <1>5, <1>6, <2>1
<1>8. ASSUME NEW k \in 1 .. rest PROVE away[k] = stream[(taken + count) + (many - count) + k]
  <2>1. taken + many + k = (taken + count) + (many - count) + k
    BY <1>3, <1>4
  <2>2. QED
    BY <1>6, <2>1
<1>9. ASSUME NEW k \in 0 .. count - 1
      PROVE  taken + k < Len(stream) /\ front[k + 1] = stream[taken + k + 1]
  <2>1. /\ k + 1 \in 1 .. count /\ k + 1 \in 1 .. many /\ taken + (k + 1) = taken + k + 1
        /\ taken + k < taken + many + rest
    BY <1>3, <1>4
  <2>2. front[k + 1] = here[k + 1]
    BY <1>5, <2>1
  <2>3. here[k + 1] = stream[taken + (k + 1)]
    BY <1>6, <2>1
  <2>4. QED
    BY <1>4, <2>1, <2>2, <2>3
<1>10. Len(stream) = (taken + count) + (many - count) + rest /\ taken + count \in Nat
  BY <1>3, <1>4
<1>11. Remains(S, stream, taken + count, here2, away)
  BY <1>2, <1>3, <1>5, <1>7, <1>8, <1>10 DEF Remains
<1>12. QED
  BY <1>0, <1>1, <1>2, <1>5, <1>9, <1>11

-----------------------------------------------------------------------------
\* EBE2000Plus.

\* A flipped bit gives another number.
LEMMA Flipped ==
    ASSUME NEW x \in Int, NEW weight \in {1, 8, 16}
    PROVE  Serial!Flip(x, weight) \in Int /\ Serial!Flip(x, weight) # x
BY DEF Serial!Flip

\* The register has eight bits.
LEMMA Shifted ==
    ASSUME NEW crc \in 0 .. 255, NEW bit
    PROVE  Serial!Shift(crc, bit) \in 0 .. 255
<1>1. Serial!Flip(Serial!Flip(crc, 8), 16) \in Int
  BY Flipped
<1>2. PICK x : x = IF (crc % 2) # bit THEN Serial!Flip(Serial!Flip(crc, 8), 16) ELSE crc
  OBVIOUS
<1>3. x \in Int
  BY <1>1, <1>2
<1>4. (x \div 2) % 128 \in 0 .. 127
  BY <1>3
<1>5. Serial!Shift(crc, bit) = (x \div 2) % 128 \/ Serial!Shift(crc, bit) = ((x \div 2) % 128) + 128
  BY <1>2 DEF Serial!Shift
<1>6. QED
  BY <1>4, <1>5

\* A checksum is a byte.
LEMMA ChecksumIsByte ==
    ASSUME NEW bytes, Len(bytes) \in Nat
    PROVE  Serial!calCRC8(bytes) \in 0 .. 255
<1> DEFINE many == 8 * Len(bytes)
           bit(k) == (bytes[k \div 8 + 1] \div 2^(k % 8)) % 2
           step == [t \in Nat \X (0 .. 255) |-> Serial!Shift(t[2], bit(t[1]))]
           Follows(f) == f = [k \in 0 .. many |->
                                 IF k = 0 THEN 255 ELSE Serial!Shift(f[k - 1], bit(k - 1))]
           register == CHOOSE f : Follows(f)
<1>1. many \in Nat
  OBVIOUS
<1>2. step \in [Nat \X (0 .. 255) -> 0 .. 255]
  <2> HIDE DEF bit
  <2>1. QED
    BY Shifted
<1>3. PICK f : Computes(f, 0 .. 255, 255, step, many)
  <2> DEFINE S == 0 .. 255
             base == 255
  <2>1. base \in S
    OBVIOUS
  <2> HIDE DEF S, base, many, step
  <2>2. \E f : Computes(f, S, base, step, many)
    BY <1>1, <1>2, <2>1, Computed DEF S
  <2>3. QED
    BY <2>2 DEF S, base
<1> HIDE DEF bit, many
<1>4. \A k \in Nat, x \in 0 .. 255 : step[<<k, x>>] = Serial!Shift(x, bit(k))
  OBVIOUS
<1> HIDE DEF step
<1>5. Follows(f)
  <2>1. /\ f \in [0 .. many -> 0 .. 255] /\ f[0] = 255
        /\ \A j \in 0 .. many : f[j] \in 0 .. 255
    BY <1>3 DEF Computes
  <2>2. ASSUME NEW k \in 0 .. many, k # 0 PROVE f[k] = Serial!Shift(f[k - 1], bit(k - 1))
    <3>1. k - 1 \in 0 .. many - 1 /\ k - 1 \in 0 .. many /\ k - 1 \in Nat /\ (k - 1) + 1 = k
      BY <1>1, <2>2
    <3>2. f[(k - 1) + 1] = step[<<k - 1, f[k - 1]>>]
      BY <1>3, <3>1 DEF Computes
    <3>3. f[k - 1] \in 0 .. 255
      <4>1. PICK j : j = k - 1
        OBVIOUS
      <4>2. j \in 0 .. many
        BY <3>1, <4>1
      <4>3. f[j] \in 0 .. 255
        BY <2>1, <4>2
      <4>4. QED
        BY <4>1, <4>3
    <3>4. QED
      BY <1>4, <3>1, <3>2, <3>3
  <2>3. QED
    BY <2>1, <2>2
<1>6. Follows(register)
  <2> HIDE DEF Follows
  <2>1. QED
    BY <1>5
<1>7. \A k \in 0 .. many : register[k] = IF k = 0 THEN 255
                                              ELSE Serial!Shift(register[k - 1], bit(k - 1))
  BY <1>6
<1> HIDE DEF register
<1>8. \A k \in 0 .. many : register[k] \in 0 .. 255
  <2>1. register[0] \in 0 .. 255
    BY <1>1, <1>7
  <2>2. ASSUME NEW k \in 0 .. many - 1, register[k] \in 0 .. 255
        PROVE  register[k + 1] = step[<<k, register[k]>>]
    <3>1. k + 1 \in 0 .. many /\ k + 1 # 0 /\ (k + 1) - 1 = k /\ k \in Nat
      BY <1>1
    <3>2. register[k + 1] = Serial!Shift(register[(k + 1) - 1], bit((k + 1) - 1))
      BY <1>7, <3>1, Zenon
    <3>3. register[k + 1] = Serial!Shift(register[k], bit(k))
      BY <3>1, <3>2, Zenon
    <3>4. QED
      BY <1>4, <2>2, <3>1, <3>3, Zenon
  <2> DEFINE S == 0 .. 255
  <2>3. /\ step \in [Nat \X S -> S] /\ register[0] \in S
        /\ \A k \in 0 .. many - 1 : register[k] \in S => register[k + 1] = step[<<k, register[k]>>]
    BY <1>2, <2>1, <2>2
  <2> HIDE DEF S
  <2>4. \A k \in 0 .. many : register[k] \in S
    BY <1>1, <2>3, StaysIn
  <2>5. QED
    BY <2>4 DEF S
<1>9. Serial!calCRC8(bytes) = register[many]
  BY DEF Serial!calCRC8, Serial!crc8, register, many, bit
<1>10. QED
  BY <1>1, <1>8, <1>9

\* What LinesAssumption says of one item of a line.
WellFormed(item) ==
    /\ item.what \in {"telegram", "damaged", "noise"} /\ item.body \in Seq(Nat)
    /\ item.what = "noise" => /\ item.body # <<>>
                              /\ \A j \in 1 .. Len(item.body) : item.body[j] # Serial!StartByte
    /\ item.what # "noise" => Len(item.body) >= 2

\* The three bytes behind the start byte, and the data.
Covered(b) == <<b[1], b[2], Len(b) - 2>> \o SubSeq(b, 3, Len(b))

\* The bytes of a telegram with this checksum, one by one.
IsFrame(wire, b, crc) ==
    /\ wire \in Seq(Nat) /\ Len(wire) = Len(b) + 3
    /\ wire[1] = Serial!StartByte /\ wire[2] = b[1] /\ wire[3] = b[2] /\ wire[4] = Len(b) - 2
    /\ \A i \in 5 .. Len(b) + 2 : wire[i] = b[i - 2]
    /\ wire[Len(b) + 3] = crc

\* A telegram is a frame.
LEMMA Framed ==
    ASSUME NEW b \in Seq(Nat), Len(b) >= 2, NEW crc \in Nat, NEW wire,
           wire = <<Serial!StartByte>> \o (Covered(b) \o <<crc>>)
    PROVE  IsFrame(wire, b, crc) /\ Len(Covered(b)) \in Nat
<1>0. PICK n : n = Len(b)
  OBVIOUS
<1>head. PICK head : head = <<b[1], b[2], Len(b) - 2>>
  OBVIOUS
<1>data. PICK data : data = SubSeq(b, 3, Len(b))
  OBVIOUS
<1>covered. PICK covered : covered = head \o data
  OBVIOUS
<1>end. PICK end : end = <<crc>>
  OBVIOUS
<1>rest. PICK rest : rest = covered \o end
  OBVIOUS
<1>start. PICK start : start = <<Serial!StartByte>>
  OBVIOUS
<1>1. /\ n \in Nat /\ n >= 2 /\ b[1] \in Nat /\ b[2] \in Nat /\ n - 2 \in Nat
      /\ \A i \in 3 .. n : b[i] \in Nat
  BY <1>0, LenProperties, ElementOfSeq
<1>2. head \in Seq(Nat) /\ data \in Seq(Nat) /\ end \in Seq(Nat) /\ start \in Seq(Nat)
  <2>1. data \in Seq(Nat)
    BY <1>0, <1>1, <1>data, SubSeqProperties
  <2>2. QED
    BY <1>0, <1>1, <1>head, <1>end, <1>start, <2>1 DEF Serial!StartByte
<1>3. /\ Len(head) = 3 /\ head[1] = b[1] /\ head[2] = b[2] /\ head[3] = n - 2
      /\ Len(end) = 1 /\ end[1] = crc /\ Len(start) = 1 /\ start[1] = Serial!StartByte
  BY <1>0, <1>1, <1>head, <1>end, <1>start
<1>4. Len(data) = n - 2 /\ \A i \in 1 .. n - 2 : data[i] = b[i + 2]
  <2>1. /\ Len(data) = IF 3 <= n THEN n - 3 + 1 ELSE 0
        /\ \A i \in 1 .. n - 3 + 1 : data[i] = b[3 + i - 1]
    BY <1>0, <1>1, <1>data, SubSeqProperties
  <2>2. Len(data) = n - 2
    BY <1>1, <2>1
  <2>3. \A i \in 1 .. n - 2 : i \in 1 .. n - 3 + 1 /\ 3 + i - 1 = i + 2
    BY <1>1
  <2>4. QED
    BY <2>1, <2>2, <2>3
<1>5. /\ covered \in Seq(Nat) /\ Len(covered) = n + 1
      /\ \A i \in 1 .. 3 : covered[i] = head[i]
      /\ \A i \in 1 .. n - 2 : covered[3 + i] = data[i]
  <2>1. /\ covered \in Seq(Nat) /\ Len(covered) = Len(head) + Len(data)
        /\ \A i \in 1 .. Len(head) : covered[i] = head[i]
        /\ \A i \in 1 .. Len(data) : covered[Len(head) + i] = data[i]
    BY ONLY <1>2, <1>covered, Concatenated
  <2>2. QED
    BY <1>1, <1>3, <1>4, <2>1
<1>6. /\ rest \in Seq(Nat) /\ Len(rest) = n + 2
      /\ \A i \in 1 .. n + 1 : rest[i] = covered[i]
      /\ rest[n + 2] = crc
  <2>0. covered \in Seq(Nat)
    BY <1>5
  <2>1. /\ rest \in Seq(Nat) /\ Len(rest) = Len(covered) + Len(end)
        /\ \A i \in 1 .. Len(covered) : rest[i] = covered[i]
        /\ \A i \in 1 .. Len(end) : rest[Len(covered) + i] = end[i]
    BY ONLY <1>2, <2>0, <1>rest, Concatenated
  <2>2. rest[(n + 1) + 1] = crc
    BY <1>3, <1>5, <2>1
  <2>3. QED
    BY <1>1, <1>3, <1>5, <2>1, <2>2
<1>7. PICK whole : whole = start \o rest
  OBVIOUS
<1>8. /\ whole \in Seq(Nat) /\ Len(whole) = n + 3 /\ whole[1] = Serial!StartByte
      /\ \A i \in 1 .. n + 2 : whole[1 + i] = rest[i]
  <2>0. rest \in Seq(Nat)
    BY <1>6
  <2>1. /\ whole \in Seq(Nat) /\ Len(whole) = Len(start) + Len(rest)
        /\ \A i \in 1 .. Len(start) : whole[i] = start[i]
        /\ \A i \in 1 .. Len(rest) : whole[Len(start) + i] = rest[i]
    BY ONLY <1>2, <2>0, <1>7, Concatenated
  <2>2. QED
    BY <1>1, <1>3, <1>6, <2>1
<1>9. whole[2] = b[1] /\ whole[3] = b[2] /\ whole[4] = n - 2
  <2>0. \A i \in 1 .. n + 2 : whole[i + 1] = rest[i]
    BY <1>1, <1>8
  <2>1. 1 \in 1 .. n + 2 /\ 2 \in 1 .. n + 2 /\ 3 \in 1 .. n + 2
        /\ 1 \in 1 .. n + 1 /\ 2 \in 1 .. n + 1 /\ 3 \in 1 .. n + 1
        /\ 1 \in 1 .. 3 /\ 2 \in 1 .. 3 /\ 3 \in 1 .. 3
    BY <1>1
  <2>2. whole[1 + 1] = rest[1] /\ whole[2 + 1] = rest[2] /\ whole[3 + 1] = rest[3]
    BY <2>0, <2>1
  <2>3. rest[1] = b[1] /\ rest[2] = b[2] /\ rest[3] = n - 2
    BY <1>3, <1>5, <1>6, <2>1
  <2>4. QED
    BY <2>2, <2>3
<1>10. ASSUME NEW i \in 5 .. n + 2 PROVE whole[i] = b[i - 2]
  <2>1. /\ i - 4 \in 1 .. n - 2 /\ i - 1 \in 1 .. n + 1 /\ i - 1 \in 1 .. n + 2
        /\ 3 + (i - 4) = i - 1 /\ 1 + (i - 1) = i /\ (i - 4) + 2 = i - 2
    BY <1>1
  <2>2. covered[i - 1] = data[i - 4]
    BY <1>5, <2>1
  <2>3. rest[i - 1] = covered[i - 1]
    BY <1>6, <2>1
  <2>4. whole[i] = rest[i - 1]
    BY <1>8, <2>1
  <2>5. data[i - 4] = b[i - 2]
    BY <1>4, <2>1
  <2>6. QED
    BY <2>2, <2>3, <2>4, <2>5
<1>11. whole[n + 3] = crc
  <2>1. n + 2 \in 1 .. n + 2 /\ 1 + (n + 2) = n + 3
    BY <1>1
  <2>2. QED
    BY <1>6, <1>8, <2>1
<1>12. Len(Covered(b)) \in Nat
  <2>1. Covered(b) = covered
    BY <1>covered, <1>head, <1>data DEF Covered
  <2>2. QED
    BY <1>1, <1>5, <2>1
<1>13. wire = whole
  BY <1>7, <1>start, <1>rest, <1>covered, <1>head, <1>data, <1>end DEF Covered
<1>14. IsFrame(whole, b, crc)
  BY <1>0, <1>8, <1>9, <1>10, <1>11 DEF IsFrame
<1>15. QED
  BY ONLY <1>12, <1>13, <1>14

\* An item is at least one byte, a telegram three more than its body; the
\* checksum at its end is right unless it was damaged.
LEMMA ItemOnTheLine ==
    ASSUME NEW item, WellFormed(item)
    PROVE  /\ Serial!Wire(item) \in Seq(Nat)
           /\ Len(Serial!Wire(item)) \in Nat /\ Len(Serial!Wire(item)) >= 1
           /\ item.what = "noise" => Serial!Wire(item) = item.body
           /\ item.what # "noise" =>
                 /\ Len(Serial!Wire(item)) = Len(item.body) + 3
                 /\ Serial!Wire(item)[1] = Serial!StartByte
                 /\ Serial!Wire(item)[2] = item.body[1] /\ Serial!Wire(item)[3] = item.body[2]
                 /\ Serial!Wire(item)[4] = Len(item.body) - 2
                 /\ \A i \in 5 .. Len(item.body) + 2 : Serial!Wire(item)[i] = item.body[i - 2]
                 /\ (Serial!Wire(item)[Len(item.body) + 3] = Serial!calCRC8(Covered(item.body)))
                       <=> item.what # "damaged"
<1>1. CASE item.what = "noise"
  <2>1. Serial!Wire(item) = item.body
    BY <1>1 DEF Serial!Wire
  <2>2. item.body \in Seq(Nat) /\ item.body # <<>>
    BY <1>1 DEF WellFormed
  <2>3. Len(item.body) \in Nat /\ Len(item.body) >= 1
    BY <2>2, EmptySeq, LenProperties
  <2>4. QED
    BY <1>1, <2>1, <2>2, <2>3
<1>2. CASE item.what # "noise"
  <2> DEFINE b == item.body
             crc == Serial!calCRC8(Covered(b))
  <2>1. b \in Seq(Nat) /\ Len(b) >= 2
    BY <1>2 DEF WellFormed
  <2>2. Len(Covered(b)) \in Nat
    BY <2>1, Framed
  <2>3. crc \in 0 .. 255
    BY <2>2, ChecksumIsByte
  <2>4. crc \in Nat /\ Serial!Flip(crc, 1) \in Nat /\ Serial!Flip(crc, 1) # crc
    <3> HIDE DEF crc
    <3>1. QED
      BY <2>3 DEF Serial!Flip
  <2>5. PICK last \in Nat : /\ Serial!Wire(item) = <<Serial!StartByte>> \o (Covered(b) \o <<last>>)
                            /\ (last = crc) <=> item.what # "damaged"
    <3>1. CASE item.what = "damaged"
      <4>1. Serial!Wire(item) = <<Serial!StartByte>> \o (Covered(b) \o <<Serial!Flip(crc, 1)>>)
        BY <3>1 DEF Serial!Wire, Covered
      <4> HIDE DEF crc
      <4>2. QED
        BY <2>4, <3>1, <4>1
    <3>2. CASE item.what # "damaged"
      <4>1. Serial!Wire(item) = <<Serial!StartByte>> \o (Covered(b) \o <<crc>>)
        BY <1>2, <3>2 DEF Serial!Wire, Covered
      <4> HIDE DEF crc
      <4>2. QED
        BY <2>4, <3>2, <4>1
    <3>3. QED
      BY <3>1, <3>2
  <2>6. /\ Serial!Wire(item) \in Seq(Nat) /\ Len(Serial!Wire(item)) = Len(b) + 3
        /\ Serial!Wire(item)[1] = Serial!StartByte
        /\ Serial!Wire(item)[2] = b[1] /\ Serial!Wire(item)[3] = b[2]
        /\ Serial!Wire(item)[4] = Len(b) - 2
        /\ \A i \in 5 .. Len(b) + 2 : Serial!Wire(item)[i] = b[i - 2]
        /\ Serial!Wire(item)[Len(b) + 3] = last
    <3>1. PICK wire : wire = Serial!Wire(item)
      OBVIOUS
    <3>2. last \in Nat /\ wire = <<Serial!StartByte>> \o (Covered(b) \o <<last>>)
      BY <2>5, <3>1
    <3>3. IsFrame(wire, b, last)
      BY ONLY <2>1, <3>2, Framed
    <3> HIDE DEF b
    <3>4. QED
      BY ONLY <3>1, <3>3 DEF IsFrame
  <2>7. Len(b) \in Nat
    BY <2>1, LenProperties
  <2> HIDE DEF crc
  <2>8. (Serial!Wire(item)[Len(b) + 3] = crc) <=> item.what # "damaged"
    BY <2>5, <2>6
  <2>9. Len(Serial!Wire(item)) \in Nat /\ Len(Serial!Wire(item)) >= 1
    BY <2>6, <2>7
  <2>10. QED
    BY <1>2, <2>6, <2>8, <2>9 DEF crc
<1>3. QED
  BY <1>1, <1>2

States == {"START", "ADDRESS", "COMMAND", "LENGTH", "DATA", "CRC"}
Outcomes == {<<"error">>} \cup {<<"telgramReceived", t>> : t \in Seq(Nat)}
Objects == [receiveState : States, address : Nat, command : Nat, length : Nat,
            data : Seq(Nat), emitted : Seq(Outcomes)]

\* A byte leaves the receiver a receiver.
LEMMA ByteStays ==
    ASSUME NEW o \in Objects, NEW d \in Nat
    PROVE  Serial!Byte(o, d) \in Objects
<1>1. /\ o.receiveState \in States /\ o.address \in Nat /\ o.command \in Nat /\ o.length \in Nat
      /\ o.data \in Seq(Nat) /\ o.emitted \in Seq(Outcomes)
  BY DEF Objects
<1>2. CASE o.receiveState \in {"START", "ADDRESS", "COMMAND"}
  BY <1>1, <1>2 DEF Serial!Byte, Objects, States
<1>3. CASE o.receiveState = "LENGTH"
  <2>1. Append(o.emitted, <<"error">>) \in Seq(Outcomes) /\ <<>> \in Seq(Nat)
    BY <1>1, AppendProperties, EmptySeq DEF Outcomes
  <2>2. Serial!Byte(o, d) = Serial!Length(o, d)
    BY <1>3 DEF Serial!Byte
  <2>3. CASE d > MaxLength
    <3>1. Serial!Byte(o, d) = [[o EXCEPT !.length = d]
                                EXCEPT !.emitted = Append(o.emitted, <<"error">>)]
      BY <2>2, <2>3 DEF Serial!Length, Serial!Emit, Objects
    <3>2. QED
      BY <1>1, <2>1, <3>1 DEF Objects
  <2>4. CASE ~(d > MaxLength)
    BY <1>1, <2>1, <2>2, <2>4 DEF Serial!Length, Objects, States
  <2>5. QED
    BY <2>3, <2>4
<1>4. CASE o.receiveState = "DATA"
  <2>1. Append(o.data, d) \in Seq(Nat)
    BY <1>1, AppendProperties
  <2>2. Serial!Byte(o, d) = Serial!Data(o, d)
    BY <1>4 DEF Serial!Byte
  <2>3. QED
    BY <1>1, <2>1, <2>2 DEF Serial!Data, Objects, States
<1>5. CASE o.receiveState = "CRC"
  <2> DEFINE telegram == <<o.address, o.command>> \o o.data
             told == IF Serial!calCRC8(<<o.address, o.command, o.length>> \o o.data) = d
                     THEN <<"telgramReceived", telegram>> ELSE <<"error">>
  <2>1. <<o.address, o.command>> \in Seq(Nat)
    BY <1>1
  <2>2. telegram \in Seq(Nat)
    BY <1>1, <2>1, ConcatProperties
  <2>3. told \in Outcomes
    BY <2>2 DEF Outcomes
  <2>4. Serial!Byte(o, d) = [[o EXCEPT !.receiveState = "START"]
                              EXCEPT !.emitted = Append(o.emitted, told)]
    BY <1>5 DEF Serial!Byte, Serial!Crc, Serial!Emit, Objects
  <2> HIDE DEF told
  <2>5. Append(o.emitted, told) \in Seq(Outcomes)
    BY <1>1, <2>3, AppendProperties
  <2>6. QED
    BY <1>1, <2>4, <2>5 DEF Objects, States
<1>6. QED
  BY <1>1, <1>2, <1>3, <1>4, <1>5 DEF States

\* The receiver takes this telegram.
Fits(item) == item.what # "noise" => Len(item.body) - 2 <= MaxLength

\* The receiver after p bytes of an item.
Within(o, item, p) ==
    /\ item.what = "noise" \/ p = 0 => o.receiveState = "START"
    /\ item.what # "noise" =>
          /\ p = 1 => o.receiveState = "ADDRESS"
          /\ p = 2 => o.receiveState = "COMMAND"
          /\ p = 3 => o.receiveState = "LENGTH"
          /\ p >= 2 => o.address = item.body[1]
          /\ p >= 3 => o.command = item.body[2]
          /\ p >= 4 => /\ o.length = Len(item.body) - 2 /\ o.data = SubSeq(item.body, 3, p - 2)
                       /\ o.receiveState = IF p < Len(item.body) + 2 THEN "DATA" ELSE "CRC"

\* Address, command and data are the body again.
LEMMA Rebuilt ==
    ASSUME NEW b \in Seq(Nat), Len(b) >= 2
    PROVE  <<b[1], b[2]>> \o SubSeq(b, 3, Len(b)) = b
<1>1. Len(b) \in Nat /\ b[1] \in Nat /\ b[2] \in Nat
  BY LenProperties, ElementOfSeq
<1>2. /\ 1 \in 1 .. Len(b) + 1 /\ 2 \in 1 - 1 .. Len(b) /\ Len(b) \in 2 .. Len(b)
      /\ 1 \in Int /\ 2 \in Int /\ 2 + 1 = 3
  BY <1>1
<1>3. SubSeq(b, 1, 2) \o SubSeq(b, 2 + 1, Len(b)) = SubSeq(b, 1, Len(b))
  BY ONLY <1>2, b \in Seq(Nat), ConcatAdjacentSubSeq
<1>4. SubSeq(b, 1, Len(b)) = b
  BY SubSeqFull
<1>5. PICK front, pair : front = SubSeq(b, 1, 2) /\ pair = <<b[1], b[2]>>
  OBVIOUS
<1>6. pair \in Seq(Nat) /\ Len(pair) = 2 /\ pair[1] = b[1] /\ pair[2] = b[2]
  BY <1>1, <1>5
<1>7. front \in Seq(Nat) /\ Len(front) = 2 /\ front[1] = b[1] /\ front[2] = b[2]
  <2>1. \A i \in 1 .. 2 : b[i] \in Nat
    BY <1>1
  <2>2. /\ front \in Seq(Nat) /\ Len(front) = IF 1 <= 2 THEN 2 - 1 + 1 ELSE 0
        /\ \A i \in 1 .. 2 - 1 + 1 : front[i] = b[1 + i - 1]
    BY ONLY <1>2, <1>5, <2>1, SubSeqProperties
  <2>3. QED
    BY <2>2
<1>8. front = pair
  <2>1. Len(front) = Len(pair) /\ \A i \in 1 .. Len(front) : front[i] = pair[i]
    BY ONLY <1>6, <1>7
  <2>2. front \in Seq(Nat) /\ pair \in Seq(Nat)
    BY ONLY <1>6, <1>7
  <2>3. QED
    BY ONLY <2>1, <2>2, SeqEqual
<1>9. QED
  BY ONLY <1>2, <1>3, <1>4, <1>5, <1>8, Zenon

\* One more byte of the data.
LEMMA DataGrows ==
    ASSUME NEW b \in Seq(Nat), NEW p \in Nat, p >= 4, p < Len(b) + 2
    PROVE  Append(SubSeq(b, 3, p - 2), b[p - 1]) = SubSeq(b, 3, p - 1)
           /\ Len(SubSeq(b, 3, p - 2)) = p - 4
<1>1. Len(b) \in Nat /\ b[p - 1] \in Nat /\ \A i \in 3 .. p - 2 : b[i] \in Nat
  BY LenProperties, ElementOfSeq
<1>2. /\ 3 \in 1 .. Len(b) /\ p - 1 \in 3 .. Len(b) /\ (p - 1) - 1 = p - 2
      /\ 3 \in Int /\ p - 2 \in Int
  BY <1>1
<1>3. /\ SubSeq(b, 3, p - 2) \in Seq(Nat)
      /\ Len(SubSeq(b, 3, p - 2)) = IF 3 <= p - 2 THEN (p - 2) - 3 + 1 ELSE 0
  BY <1>1, <1>2, SubSeqProperties
<1>4. SubSeq(b, 3, p - 1) = SubSeq(b, 3, (p - 1) - 1) \o <<b[p - 1]>>
  BY <1>2, SubSeqRecursiveSecond
<1>5. Append(SubSeq(b, 3, p - 2), b[p - 1]) = SubSeq(b, 3, p - 2) \o <<b[p - 1]>>
  BY <1>1, <1>3, AppendIsConcat
<1>6. Len(SubSeq(b, 3, p - 2)) = p - 4
  <2>1. PICK many : many = Len(SubSeq(b, 3, p - 2))
    OBVIOUS
  <2>2. many = IF 3 <= p - 2 THEN (p - 2) - 3 + 1 ELSE 0
    BY <1>3, <2>1
  <2>3. many = p - 4
    BY <2>2
  <2>4. QED
    BY <2>1, <2>3
<1>7. QED
  BY <1>2, <1>4, <1>5, <1>6

\* One byte of an item more; with the last one the item is told.
LEMMA NextByte ==
    ASSUME NEW o \in Objects, NEW item, WellFormed(item), Fits(item), NEW p \in Nat,
           p < Len(Serial!Wire(item)), Within(o, item, p)
    PROVE  LET next == Serial!Byte(o, Serial!Wire(item)[p + 1])
           IN  /\ p + 1 < Len(Serial!Wire(item))
                     => Within(next, item, p + 1) /\ next.emitted = o.emitted
               /\ p + 1 = Len(Serial!Wire(item)) => /\ next.receiveState = "START"
                                             /\ next.emitted = o.emitted \o Serial!Told(item)
<1>1. /\ o.receiveState \in States /\ o.address \in Nat /\ o.command \in Nat /\ o.length \in Nat
      /\ o.data \in Seq(Nat) /\ o.emitted \in Seq(Outcomes)
      /\ o = [receiveState |-> o.receiveState, address |-> o.address, command |-> o.command,
              length |-> o.length, data |-> o.data, emitted |-> o.emitted]
  BY DEF Objects
<1> DEFINE b == item.body
           d == Serial!Wire(item)[p + 1]
           next == Serial!Byte(o, d)
<1>2. CASE item.what = "noise"
  <2>1. p + 1 \in 1 .. Len(b) /\ d = b[p + 1]
    BY <1>2, ItemOnTheLine
  <2>2. b[p + 1] # Serial!StartByte
    BY <1>2, <2>1 DEF WellFormed
  <2>3. d # Serial!StartByte
    BY <2>1, <2>2, Zenon
  <2>4. o.receiveState = "START"
    BY <1>2 DEF Within
  <2> HIDE DEF d
  <2>5. next = o
    BY <2>3, <2>4 DEF Serial!Byte
  <2>6. o.emitted \o Serial!Told(item) = o.emitted
    <3>1. Serial!Told(item) = <<>>
      BY <1>2 DEF Serial!Told
    <3>2. QED
      BY <1>1, <3>1, ConcatEmptySeq
  <2> HIDE DEF next
  <2>7. Within(next, item, p + 1)
    BY <1>2, <2>4, <2>5 DEF Within
  <2>8. QED
    BY <2>4, <2>5, <2>6, <2>7 DEF next, d
<1>3. CASE item.what # "noise"
  <2>1. PICK n : n = Len(b)
    OBVIOUS
  <2>2. n \in Nat /\ n >= 2 /\ b \in Seq(Nat) /\ p <= n + 2 /\ n - 2 <= MaxLength
        /\ Len(Serial!Wire(item)) = n + 3
    <3>1. b \in Seq(Nat) /\ Len(b) >= 2
      BY <1>3 DEF WellFormed
    <3>2. Len(b) \in Nat
      BY <3>1, LenProperties
    <3>3. Len(Serial!Wire(item)) = Len(b) + 3
      BY <1>3, ItemOnTheLine
    <3>4. Len(b) - 2 <= MaxLength
      BY <1>3 DEF Fits
    <3>5. QED
      BY <2>1, <3>1, <3>2, <3>3, <3>4
  <2>3. /\ p = 0 => d = Serial!StartByte
        /\ p = 1 => d = b[1]
        /\ p = 2 => d = b[2]
        /\ p = 3 => d = n - 2
        /\ p \in 4 .. n + 1 => d = b[p - 1]
        /\ p = n + 2 => (d = Serial!calCRC8(Covered(b)) <=> item.what # "damaged")
    <3>1. /\ Serial!Wire(item)[1] = Serial!StartByte
          /\ Serial!Wire(item)[2] = item.body[1] /\ Serial!Wire(item)[3] = item.body[2]
          /\ Serial!Wire(item)[4] = Len(item.body) - 2
          /\ \A i \in 5 .. Len(item.body) + 2 : Serial!Wire(item)[i] = item.body[i - 2]
          /\ (Serial!Wire(item)[Len(item.body) + 3] = Serial!calCRC8(Covered(item.body)))
                <=> item.what # "damaged"
      BY <1>3, ItemOnTheLine
    <3>2. ASSUME p \in 4 .. n + 1 PROVE d = b[p - 1]
      <4>1. p + 1 \in 5 .. Len(item.body) + 2 /\ (p + 1) - 2 = p - 1
        BY <2>1, <2>2, <3>2
      <4>2. Serial!Wire(item)[p + 1] = item.body[(p + 1) - 2]
        BY <3>1, <4>1
      <4>3. QED
        BY <4>1, <4>2
    <3>3. ASSUME p = n + 2 PROVE d = Serial!calCRC8(Covered(b)) <=> item.what # "damaged"
      <4>1. p + 1 = Len(item.body) + 3
        BY <2>1, <2>2, <3>3
      <4>2. d = Serial!Wire(item)[Len(item.body) + 3]
        BY <4>1
      <4>3. QED
        BY <3>1, <4>2, Zenon
    <3>4. /\ p = 0 => p + 1 = 1
          /\ p = 1 => p + 1 = 2
          /\ p = 2 => p + 1 = 3
          /\ p = 3 => p + 1 = 4
      OBVIOUS
    <3>5. QED
      BY <2>1, <3>1, <3>2, <3>3, <3>4
  <2>4. b[1] \in Nat /\ b[2] \in Nat
    BY <2>1, <2>2, ElementOfSeq
  <2> HIDE DEF d, b
  <2>5. CASE p = 0
    <3>1. next = [o EXCEPT !.receiveState = "ADDRESS"]
      BY <1>3, <2>3, <2>5 DEF Serial!Byte, Within
    <3>2. next.receiveState = "ADDRESS" /\ next.emitted = o.emitted
      BY <1>1, <3>1
    <3> HIDE DEF next
    <3>3. QED
      BY <1>3, <2>2, <2>5, <3>2 DEF Within, d, next
  <2>6. CASE p = 1
    <3>1. next = [o EXCEPT !.address = d, !.receiveState = "COMMAND"]
      BY <1>3, <2>6 DEF Serial!Byte, Within
    <3>2. next.receiveState = "COMMAND" /\ next.emitted = o.emitted /\ next.address = b[1]
      BY <1>1, <2>3, <2>6, <3>1
    <3> HIDE DEF next
    <3>3. QED
      BY <1>3, <2>2, <2>6, <3>2 DEF Within, d, next, b
  <2>7. CASE p = 2
    <3>1. next = [o EXCEPT !.command = d, !.receiveState = "LENGTH"]
      BY <1>3, <2>7 DEF Serial!Byte, Within
    <3>2. /\ next.receiveState = "LENGTH" /\ next.emitted = o.emitted
          /\ next.address = o.address /\ next.command = b[2]
      BY <1>1, <2>3, <2>7, <3>1
    <3>3. next.address = b[1]
      BY <1>3, <2>7, <3>2 DEF Within, b
    <3> HIDE DEF next
    <3>4. QED
      BY <1>3, <2>2, <2>7, <3>2, <3>3 DEF Within, d, next, b
  <2>8. CASE p = 3
    <3>1. o.receiveState = "LENGTH" /\ o.address = b[1] /\ o.command = b[2]
      BY <1>3, <2>8 DEF Within, b
    <3>2. d = n - 2 /\ ~ (d > MaxLength)
      BY <2>2, <2>3, <2>8, LoopsAssumption DEF Serial!E2000PlusAssumption
    <3>3. next = [[o EXCEPT !.length = d] EXCEPT !.data = <<>>,
                                                 !.receiveState = IF d > 0 THEN "DATA" ELSE "CRC"]
      BY <3>1, <3>2 DEF Serial!Byte, Serial!Length
    <3>4. /\ next.emitted = o.emitted /\ next.address = b[1] /\ next.command = b[2]
          /\ next.length = n - 2 /\ next.data = <<>>
          /\ next.receiveState = IF d > 0 THEN "DATA" ELSE "CRC"
      BY <1>1, <3>1, <3>2, <3>3
    <3> HIDE DEF next
    <3>5. SubSeq(b, 3, (p + 1) - 2) = <<>> /\ p + 1 = 4 /\ (d > 0 <=> p + 1 < n + 2)
      <4>1. (p + 1) - 2 = 2 /\ 2 < 3 /\ p + 1 = 4 /\ (d > 0 <=> p + 1 < n + 2)
        BY <2>2, <2>8, <3>2
      <4>2. SubSeq(b, 3, 2) = <<>>
        BY SubSeqEmpty
      <4>3. QED
        BY <4>1, <4>2
    <3>6. Within(next, item, p + 1)
      <4>1. ~ (item.what = "noise" \/ p + 1 = 0) /\ p + 1 # 1 /\ p + 1 # 2 /\ p + 1 # 3
        BY <1>3, <2>8
      <4>2. next.length = Len(b) - 2 /\ next.data = SubSeq(b, 3, (p + 1) - 2)
            /\ next.receiveState = IF p + 1 < Len(b) + 2 THEN "DATA" ELSE "CRC"
        BY <2>1, <3>4, <3>5
      <4>3. QED
        BY <3>4, <4>1, <4>2 DEF Within, b
    <3>7. p + 1 # n + 3
      BY <2>2, <2>8
    <3>8. QED
      BY <2>2, <3>4, <3>6, <3>7 DEF d, next
  <2>9. CASE p \in 4 .. n + 1
    <3>1. /\ o.receiveState = "DATA" /\ o.address = b[1] /\ o.command = b[2]
          /\ o.length = n - 2 /\ o.data = SubSeq(b, 3, p - 2)
      <4>1. p >= 2 /\ p >= 3 /\ p >= 4 /\ p < Len(b) + 2
        BY <2>1, <2>2, <2>9
      <4>2. QED
        BY <1>3, <2>1, <4>1 DEF Within, b
    <3>2. Append(o.data, d) = SubSeq(b, 3, p - 1) /\ Len(o.data) = p - 4
      <4>1. p >= 4 /\ p < Len(b) + 2
        BY <2>1, <2>2, <2>9
      <4>2. Append(SubSeq(b, 3, p - 2), b[p - 1]) = SubSeq(b, 3, p - 1)
            /\ Len(SubSeq(b, 3, p - 2)) = p - 4
        BY <2>2, <4>1, DataGrows
      <4>3. QED
        BY <2>3, <2>9, <3>1, <4>2
    <3>3. next = [o EXCEPT !.data = Append(o.data, d),
                           !.receiveState = IF Len(o.data) + 1 = o.length THEN "CRC"
                                            ELSE o.receiveState]
      BY <1>1, <3>1 DEF Serial!Byte, Serial!Data
    <3>4. /\ next.emitted = o.emitted /\ next.address = b[1] /\ next.command = b[2]
          /\ next.length = n - 2 /\ next.data = Append(o.data, d)
          /\ next.receiveState = IF Len(o.data) + 1 = o.length THEN "CRC" ELSE "DATA"
      BY <1>1, <3>1, <3>3
    <3> HIDE DEF next
    <3>5. (Len(o.data) + 1 = o.length <=> ~ (p + 1 < n + 2)) /\ (p + 1) - 2 = p - 1
      BY <2>2, <2>9, <3>1, <3>2
    <3>6. Within(next, item, p + 1)
      <4>1. ~ (item.what = "noise" \/ p + 1 = 0) /\ p + 1 # 1 /\ p + 1 # 2 /\ p + 1 # 3
        BY <1>3, <2>9
      <4>2. next.length = Len(b) - 2 /\ next.data = SubSeq(b, 3, (p + 1) - 2)
            /\ next.receiveState = IF p + 1 < Len(b) + 2 THEN "DATA" ELSE "CRC"
        BY <2>1, <3>2, <3>4, <3>5
      <4>3. QED
        BY <3>4, <4>1, <4>2 DEF Within, b
    <3>7. p + 1 # n + 3
      BY <2>2, <2>9
    <3>8. QED
      BY <2>2, <3>4, <3>6, <3>7 DEF d, next
  <2>10. CASE p = n + 2
    <3>1. /\ o.receiveState = "CRC" /\ o.address = b[1] /\ o.command = b[2]
          /\ o.length = n - 2 /\ o.data = SubSeq(b, 3, n)
      <4>1. p >= 2 /\ p >= 3 /\ p >= 4 /\ ~ (p < Len(b) + 2) /\ p - 2 = n
        BY <2>1, <2>2, <2>10
      <4>2. QED
        BY <1>3, <2>1, <4>1 DEF Within, b
    <3>2. /\ <<o.address, o.command>> \o o.data = b
          /\ <<o.address, o.command, o.length>> \o o.data = Covered(b)
      <4>1. <<b[1], b[2]>> \o SubSeq(b, 3, Len(b)) = b
        BY <2>1, <2>2, Rebuilt
      <4>2. QED
        BY <2>1, <3>1, <4>1, Zenon DEF Covered
    <3>3. next = [[o EXCEPT !.receiveState = "START"] EXCEPT !.emitted = Append(o.emitted,
                    IF Serial!calCRC8(Covered(b)) = d THEN <<"telgramReceived", b>>
                    ELSE <<"error">>)]
      BY <1>1, <3>1, <3>2 DEF Serial!Byte, Serial!Crc, Serial!Emit
    <3>4. /\ next.receiveState = "START"
          /\ next.emitted = Append(o.emitted, IF Serial!calCRC8(Covered(b)) = d
                                              THEN <<"telgramReceived", b>> ELSE <<"error">>)
      BY <1>1, <3>3
    <3> HIDE DEF next
    <3>5. PICK told : told = IF Serial!calCRC8(Covered(b)) = d THEN <<"telgramReceived", b>>
                              ELSE <<"error">>
      OBVIOUS
    <3>6. Serial!Told(item) = <<told>>
      <4>1. Serial!calCRC8(Covered(b)) = d <=> item.what # "damaged"
        BY <2>3, <2>10
      <4>2. QED
        BY <1>3, <3>5, <4>1 DEF Serial!Told, b, WellFormed
    <3>7. told \in Outcomes
      BY <2>2, <3>5 DEF Outcomes
    <3>8. Append(o.emitted, told) = o.emitted \o <<told>>
      BY <1>1, <3>7, AppendIsConcat
    <3>9. next.emitted = o.emitted \o Serial!Told(item)
      BY <3>4, <3>5, <3>6, <3>8
    <3>10. ~ (p + 1 < n + 3)
      BY <2>2, <2>10
    <3>11. QED
      BY <2>2, <3>4, <3>9, <3>10 DEF d, next
  <2>11. QED
    BY <2>2, <2>5, <2>6, <2>7, <2>8, <2>9, <2>10 DEF d
<1>4. QED
  BY <1>2, <1>3

\* The receiver after a block is the receiver after its bytes, one by one.
LEMMA ReceivedBytes ==
    ASSUME NEW o \in Objects, NEW bytes \in Seq(Nat)
    PROVE  /\ Serial!Received(o, bytes)[0] = o
           /\ \A k \in 0 .. Len(bytes) : Serial!Received(o, bytes)[k] \in Objects
           /\ \A k \in 0 .. Len(bytes) - 1 :
                 Serial!Received(o, bytes)[k + 1]
                     = Serial!Byte(Serial!Received(o, bytes)[k], bytes[k + 1])
<1> DEFINE step == [t \in Nat \X Objects |->
                       IF t[1] + 1 \in 1 .. Len(bytes) THEN Serial!Byte(t[2], bytes[t[1] + 1])
                       ELSE t[2]]
           Follows(f) == f = [k \in 0 .. Len(bytes) |->
                                 IF k = 0 THEN o ELSE Serial!Byte(f[k - 1], bytes[k])]
<1>1. Len(bytes) \in Nat /\ \A i \in 1 .. Len(bytes) : bytes[i] \in Nat
  BY LenProperties, ElementOfSeq
<1>2. step \in [Nat \X Objects -> Objects]
  BY <1>1, ByteStays
<1>3. PICK f : Computes(f, Objects, o, step, Len(bytes))
  <2> DEFINE many == Len(bytes)
  <2>1. many \in Nat
    BY <1>1
  <2> HIDE DEF step, many
  <2>2. \E f : Computes(f, Objects, o, step, many)
    BY <1>2, <2>1, Computed
  <2>3. QED
    BY <2>2 DEF many
<1>4. ASSUME NEW k \in 0 .. Len(bytes) - 1, NEW x \in Objects
      PROVE  step[<<k, x>>] = Serial!Byte(x, bytes[k + 1])
  <2>1. k \in Nat /\ k + 1 \in 1 .. Len(bytes)
    BY <1>1
  <2>2. QED
    BY <2>1
<1> HIDE DEF step
<1>5. Follows(f)
  <2>1. /\ f \in [0 .. Len(bytes) -> Objects] /\ f[0] = o
        /\ \A j \in 0 .. Len(bytes) : f[j] \in Objects
    BY <1>3 DEF Computes
  <2>2. ASSUME NEW k \in 0 .. Len(bytes), k # 0 PROVE f[k] = Serial!Byte(f[k - 1], bytes[k])
    <3>1. PICK j : j = k - 1
      OBVIOUS
    <3>2. j \in 0 .. Len(bytes) - 1 /\ j \in 0 .. Len(bytes) /\ j + 1 = k
      BY <1>1, <2>2, <3>1
    <3>3. f[j + 1] = step[<<j, f[j]>>]
      BY <1>3, <3>2 DEF Computes
    <3>4. f[j] \in Objects
      BY <2>1, <3>2
    <3>5. step[<<j, f[j]>>] = Serial!Byte(f[j], bytes[j + 1])
      BY <1>4, <3>2, <3>4
    <3>6. QED
      BY <3>1, <3>2, <3>3, <3>5
  <2>3. QED
    BY <2>1, <2>2
<1>6. Follows(Serial!Received(o, bytes))
  <2>1. Serial!Received(o, bytes) = CHOOSE h : Follows(h)
    BY DEF Serial!Received
  <2> HIDE DEF Follows
  <2>2. QED
    BY <1>5, <2>1
<1>7. PICK received : received = Serial!Received(o, bytes)
  OBVIOUS
<1>8. \A k \in 0 .. Len(bytes) :
         received[k] = IF k = 0 THEN o ELSE Serial!Byte(received[k - 1], bytes[k])
  BY <1>6, <1>7
<1>9. received[0] = o
  BY <1>1, <1>8
<1>10. ASSUME NEW k \in 0 .. Len(bytes) - 1
       PROVE  received[k + 1] = Serial!Byte(received[k], bytes[k + 1])
  <2>1. k + 1 \in 0 .. Len(bytes) /\ k + 1 # 0 /\ (k + 1) - 1 = k
    BY <1>1
  <2>2. received[k + 1] = Serial!Byte(received[(k + 1) - 1], bytes[k + 1])
    BY <1>8, <2>1, Zenon
  <2>3. QED
    BY <2>1, <2>2, Zenon
<1>11. \A k \in 0 .. Len(bytes) : received[k] \in Objects
  <2>1. ASSUME NEW k \in 0 .. Len(bytes) - 1, received[k] \in Objects
        PROVE  received[k + 1] = step[<<k, received[k]>>]
    BY <1>4, <1>10, <2>1
  <2>2. received[0] \in Objects
    BY <1>9
  <2>3. QED
    BY <1>1, <1>2, <2>1, <2>2, StaysIn
<1>12. QED
  BY <1>7, <1>9, <1>10, <1>11

-----------------------------------------------------------------------------
\* The bytes of a line, where each item ends among them, and how many the port
\* has and had to announce are behind the receiver.
Bytes == Serial!Wires(input)[Len(input)]
End(n) == Len(Serial!Wires(input)[n])
Taken == Len(Bytes) - Len(arrived) - Len(unread)

\* Every item of the line is well formed.
LEMMA LineIsWellFormed ==
    ASSUME input \in Lines
    PROVE  Len(input) \in Nat /\ \A i \in 1 .. Len(input) : WellFormed(input[i])
<1>1. input \in Seq([what : {"telegram", "damaged", "noise"}, body : Seq(Nat)])
  BY LoopsAssumption
     DEF Serial!E2000PlusAssumption, Serial!LinesAssumption
<1>2. Len(input) \in Nat
  BY <1>1, LenProperties
<1>3. ASSUME NEW i \in 1 .. Len(input) PROVE WellFormed(input[i])
  <2>1. input[i] \in [what : {"telegram", "damaged", "noise"}, body : Seq(Nat)]
    BY <1>1, ElementOfSeq
  <2>2. IF input[i].what = "noise"
        THEN input[i].body # <<>> /\ \A j \in 1 .. Len(input[i].body) :
                                         input[i].body[j] # Serial!StartByte
        ELSE Len(input[i].body) >= 2
    BY LoopsAssumption
     DEF Serial!E2000PlusAssumption, Serial!LinesAssumption
  <2>3. QED
    BY <2>1, <2>2 DEF WellFormed
<1>4. QED
  BY <1>2, <1>3

\* The line is its items one behind the other.
LEMMA LineInPieces ==
    ASSUME input \in Lines
    PROVE  \E pieces \in Seq(Seq(Nat)) :
              /\ Len(pieces) = Len(input) /\ Serial!Wires(input) = Serial!Joined(pieces)
              /\ \A i \in 1 .. Len(input) : pieces[i] = Serial!Wire(input[i])
<1> DEFINE pieces == [i \in DOMAIN input |-> Serial!Wire(input[i])]
<1>1. Len(input) \in Nat /\ DOMAIN input = 1 .. Len(input)
  BY LineIsWellFormed, LenProperties, LoopsAssumption
     DEF Serial!E2000PlusAssumption, Serial!LinesAssumption
<1>2. \A i \in 1 .. Len(input) : Serial!Wire(input[i]) \in Seq(Nat)
  BY LineIsWellFormed, ItemOnTheLine
<1>3. pieces \in Seq(Seq(Nat)) /\ Len(pieces) = Len(input)
  <2>1. pieces \in [1 .. Len(input) -> Seq(Nat)]
    BY <1>1, <1>2
  <2> HIDE DEF pieces
  <2>2. QED
    BY <1>1, <2>1, LenProperties, SeqDef
<1>4. \A i \in 1 .. Len(input) : pieces[i] = Serial!Wire(input[i])
  BY <1>1
<1>5. Serial!Wires(input) = Serial!Joined(pieces)
  BY DEF Serial!Wires
<1>6. QED
  BY <1>3, <1>4, <1>5

\* Where the items are joined.
LEMMA LineOfItems ==
    ASSUME input \in Lines
    PROVE  /\ Serial!Wires(input)[0] = <<>> /\ End(0) = 0
           /\ \A n \in 0 .. Len(input) : Serial!Wires(input)[n] \in Seq(Nat) /\ End(n) \in Nat
           /\ \A n \in 0 .. Len(input) - 1 :
                 /\ Serial!Wires(input)[n + 1] = Serial!Wires(input)[n] \o Serial!Wire(input[n + 1])
                 /\ End(n + 1) = End(n) + Len(Serial!Wire(input[n + 1]))
<1>1. PICK pieces \in Seq(Seq(Nat)) : /\ Len(pieces) = Len(input)
                                     /\ Serial!Wires(input) = Serial!Joined(pieces)
                                     /\ \A i \in 1 .. Len(input) : pieces[i] = Serial!Wire(input[i])
  BY LineInPieces
<1>2. Len(input) \in Nat /\ \A i \in 1 .. Len(input) : Serial!Wire(input[i]) \in Seq(Nat)
  BY LineIsWellFormed, ItemOnTheLine
<1>6. /\ Serial!Wires(input) \in [0 .. Len(input) -> Seq(Nat)]
      /\ Serial!Wires(input)[0] = <<>>
      /\ \A k \in 0 .. Len(input) - 1 :
            Serial!Wires(input)[k + 1] = Serial!Wires(input)[k] \o pieces[k + 1]
  BY <1>1, JoinedPieces
<1>7. \A n \in 0 .. Len(input) : Serial!Wires(input)[n] \in Seq(Nat) /\ End(n) \in Nat
  BY <1>6, LenProperties DEF End
<1>8. ASSUME NEW n \in 0 .. Len(input) - 1
      PROVE  /\ Serial!Wires(input)[n + 1] = Serial!Wires(input)[n] \o Serial!Wire(input[n + 1])
             /\ End(n + 1) = End(n) + Len(Serial!Wire(input[n + 1]))
  <2>1. n + 1 \in 1 .. Len(input) /\ n \in 0 .. Len(input)
    BY <1>2
  <2>2. Serial!Wires(input)[n + 1] = Serial!Wires(input)[n] \o Serial!Wire(input[n + 1])
    BY <1>1, <1>6, <2>1
  <2>3. Serial!Wires(input)[n] \in Seq(Nat) /\ Serial!Wire(input[n + 1]) \in Seq(Nat)
    BY <1>2, <1>7, <2>1
  <2>4. QED
    BY <2>2, <2>3, ConcatProperties DEF End
<1>9. End(0) = 0
  BY <1>6, EmptySeq DEF End
<1>10. QED
  BY <1>6, <1>7, <1>8, <1>9

\* The signals are told one behind the other.
LEMMA SignalsOfItems ==
    ASSUME input \in Lines
    PROVE  /\ Serial!Signals(input)[0] = <<>>
           /\ \A n \in 0 .. Len(input) - 1 :
                 Serial!Signals(input)[n + 1]
                     = Serial!Signals(input)[n] \o Serial!Told(input[n + 1])
<1> DEFINE pieces == [i \in DOMAIN input |-> Serial!Told(input[i])]
<1>1. Len(input) \in Nat /\ DOMAIN input = 1 .. Len(input)
  BY LineIsWellFormed, LenProperties, LoopsAssumption
     DEF Serial!E2000PlusAssumption, Serial!LinesAssumption
<1>2. ASSUME NEW i \in 1 .. Len(input) PROVE Serial!Told(input[i]) \in Seq(Outcomes)
  <2>1. WellFormed(input[i])
    BY LineIsWellFormed
  <2>2. <<"error">> \in Outcomes /\ <<"telgramReceived", input[i].body>> \in Outcomes
    BY <2>1 DEF Outcomes, WellFormed
  <2>3. PICK S : S = Outcomes
    OBVIOUS
  <2>4. PICK good, bad : good = <<"telgramReceived", input[i].body>> /\ bad = <<"error">>
    OBVIOUS
  <2>5. <<good>> \in Seq(S) /\ <<bad>> \in Seq(S) /\ <<>> \in Seq(S)
    BY <2>2, <2>3, <2>4, EmptySeq
  <2>6. Serial!Told(input[i]) \in {<<>>, <<good>>, <<bad>>}
    BY <2>4 DEF Serial!Told
  <2>7. QED
    BY ONLY <2>3, <2>5, <2>6
<1>3. pieces \in Seq(Seq(Outcomes)) /\ Len(pieces) = Len(input)
  <2>1. pieces \in [1 .. Len(input) -> Seq(Outcomes)]
    BY <1>1, <1>2
  <2> HIDE DEF pieces
  <2>2. QED
    BY <1>1, <2>1, LenProperties, SeqDef
<1>4. \A i \in 1 .. Len(input) : pieces[i] = Serial!Told(input[i])
  BY <1>1
<1>5. Serial!Signals(input) = Serial!Joined(pieces)
  BY DEF Serial!Signals
<1> HIDE DEF pieces
<1>6. /\ Serial!Signals(input)[0] = <<>>
      /\ \A k \in 0 .. Len(input) - 1 :
            Serial!Signals(input)[k + 1] = Serial!Signals(input)[k] \o pieces[k + 1]
  BY <1>3, <1>5, JoinedPieces
<1>7. ASSUME NEW n \in 0 .. Len(input) - 1
      PROVE  Serial!Signals(input)[n + 1] = Serial!Signals(input)[n] \o Serial!Told(input[n + 1])
  <2>1. n + 1 \in 1 .. Len(input)
    BY <1>1
  <2>2. QED
    BY <1>4, <1>6, <2>1
<1>8. QED
  BY <1>6, <1>7

\* A byte of an item is where the item stands on the line.
LEMMA ByteOnTheLine ==
    ASSUME input \in Lines, NEW n \in 0 .. Len(input) - 1,
           NEW q \in 1 .. Len(Serial!Wire(input[n + 1]))
    PROVE  End(n) + q <= Len(Bytes) /\ Bytes[End(n) + q] = Serial!Wire(input[n + 1])[q]
<1>1. PICK pieces \in Seq(Seq(Nat)) : /\ Len(pieces) = Len(input)
                                     /\ Serial!Wires(input) = Serial!Joined(pieces)
                                     /\ \A i \in 1 .. Len(input) : pieces[i] = Serial!Wire(input[i])
  BY LineInPieces
<1>2. Len(input) \in Nat /\ n + 1 \in 1 .. Len(input)
  BY LineIsWellFormed
<1>3. n \in 0 .. Len(pieces) - 1 /\ q \in 1 .. Len(pieces[n + 1])
  BY <1>1, <1>2
<1>4. PICK joined : joined = Serial!Joined(pieces)
  OBVIOUS
<1>5. /\ Len(joined[n]) + q <= Len(joined[Len(pieces)])
      /\ joined[Len(pieces)][Len(joined[n]) + q] = pieces[n + 1][q]
  BY <1>3, <1>4, ByteOfPiece
<1>6. QED
  BY <1>1, <1>2, <1>4, <1>5 DEF Bytes, End

\* Up to Understood the items fit.
LEMMA UnderstoodItems ==
    ASSUME input \in Lines
    PROVE  /\ Serial!Understood \in 0 .. Len(input)
           /\ \A i \in 1 .. Serial!Understood : Fits(input[i])
<1> DEFINE long == {i \in 1 .. Len(input) :
                       input[i].what # "noise" /\ Len(input[i].body) - 2 > MaxLength}
           all == long \cup {Len(input) + 1}
<1>1. Len(input) \in Nat
  BY LineIsWellFormed
<1>2. all \in SUBSET Nat /\ all # {}
  BY <1>1
<1>3. Serial!Understood = Serial!Min(all) - 1
  BY DEF Serial!Understood
<1> HIDE DEF all
<1>4. Serial!Min(all) \in all /\ \A y \in all : Serial!Min(all) <= y
  <2>1. \E x \in all : \A y \in all : x <= y
    BY <1>2, Least
  <2>2. QED
    BY <2>1 DEF Serial!Min
<1>5. Serial!Min(all) \in 1 .. Len(input) + 1
  <2>1. \A m \in all : m \in 1 .. Len(input) + 1
    BY <1>1 DEF all
  <2>2. QED
    BY ONLY <1>4, <2>1
<1>6. ASSUME NEW i \in 1 .. Serial!Understood PROVE Fits(input[i])
  <2>1. i \in 1 .. Len(input) /\ ~ (Serial!Min(all) <= i)
    BY <1>1, <1>3, <1>5
  <2>2. i \notin long
    BY <1>4, <2>1 DEF all
  <2>3. input[i].what # "noise" => ~ (Len(input[i].body) - 2 > MaxLength)
    BY <2>1, <2>2
  <2>4. ASSUME input[i].what # "noise" PROVE Len(input[i].body) - 2 <= MaxLength
    <3>1. Len(input[i].body) \in Nat
      BY <2>1, LineIsWellFormed, LenProperties DEF WellFormed
    <3>2. QED
      BY <2>3, <2>4, <3>1, LoopsAssumption DEF Serial!E2000PlusAssumption
  <2>5. QED
    BY <2>4 DEF Fits
<1>7. QED
  BY <1>1, <1>3, <1>5, <1>6

-----------------------------------------------------------------------------
\* The receiver has told the items it has seen and is inside the next one.
\* Without the second part a byte would not keep the first.
Sorted(o, t) ==
    \A n \in 0 .. Serial!Understood, p \in Nat :
       (/\ t = End(n) + p
        /\ IF n < Serial!Understood THEN p < Len(Serial!Wire(input[n + 1])) ELSE p = 0)
         => /\ o.emitted = Serial!Signals(input)[n]
            /\ n < Serial!Understood => Within(o, input[n + 1], p)

\* One byte keeps it.
LEMMA SortedByte ==
    ASSUME input \in Lines, NEW o \in Objects, NEW t \in Nat, t < Len(Bytes), Sorted(o, t)
    PROVE  Sorted(Serial!Byte(o, Bytes[t + 1]), t + 1)
<1> DEFINE next == Serial!Byte(o, Bytes[t + 1])
<1>1. Len(input) \in Nat /\ Serial!Understood \in 0 .. Len(input)
  BY LineIsWellFormed, UnderstoodItems
<1>2. ASSUME NEW m \in 0 .. Serial!Understood - 1, NEW p \in Nat, t = End(m) + p,
             p < Len(Serial!Wire(input[m + 1]))
      PROVE  /\ p + 1 < Len(Serial!Wire(input[m + 1])) => /\ Within(next, input[m + 1], p + 1)
                                                   /\ next.emitted = Serial!Signals(input)[m]
             /\ p + 1 = Len(Serial!Wire(input[m + 1])) =>
                   next.receiveState = "START" /\ next.emitted = Serial!Signals(input)[m + 1]
  <2>1. /\ m \in 0 .. Serial!Understood /\ m < Serial!Understood /\ m + 1 \in 1 .. Serial!Understood
        /\ m + 1 \in 1 .. Len(input) /\ m \in 0 .. Len(input) - 1 /\ m \in 0 .. Len(input)
    BY <1>1
  <2>2. o.emitted = Serial!Signals(input)[m] /\ Within(o, input[m + 1], p)
    BY <1>2, <2>1 DEF Sorted
  <2>3. WellFormed(input[m + 1]) /\ Fits(input[m + 1])
    BY <2>1, LineIsWellFormed, UnderstoodItems
  <2>4. Bytes[t + 1] = Serial!Wire(input[m + 1])[p + 1]
    <3>1. End(m) \in Nat /\ Len(Serial!Wire(input[m + 1])) \in Nat
      BY <2>1, <2>3, LineOfItems, ItemOnTheLine
    <3>2. p + 1 \in 1 .. Len(Serial!Wire(input[m + 1])) /\ End(m) + (p + 1) = t + 1
      BY <1>2, <3>1
    <3>3. QED
      BY <2>1, <3>2, ByteOnTheLine
  <2>5. PICK item : item = input[m + 1]
    OBVIOUS
  <2>6. next = Serial!Byte(o, Serial!Wire(item)[p + 1])
    BY <2>4, <2>5
  <2>7. /\ p + 1 < Len(Serial!Wire(item)) => Within(next, item, p + 1) /\ next.emitted = o.emitted
        /\ p + 1 = Len(Serial!Wire(item)) => /\ next.receiveState = "START"
                                      /\ next.emitted = o.emitted \o Serial!Told(item)
    <3>1. p < Len(Serial!Wire(item)) /\ Within(o, item, p) /\ WellFormed(item) /\ Fits(item)
      BY <1>2, <2>2, <2>3, <2>5
    <3> HIDE DEF next
    <3>2. QED
      BY ONLY <2>6, <3>1, NextByte, o \in Objects, p \in Nat
  <2>8. Serial!Signals(input)[m + 1] = Serial!Signals(input)[m] \o Serial!Told(input[m + 1])
    BY <2>1, SignalsOfItems
  <2> HIDE DEF next
  <2>9. QED
    BY <2>2, <2>5, <2>7, <2>8
<1> HIDE DEF next
<1>3. ASSUME NEW n \in 0 .. Serial!Understood, NEW p \in Nat, t + 1 = End(n) + p,
             IF n < Serial!Understood THEN p < Len(Serial!Wire(input[n + 1])) ELSE p = 0
      PROVE  /\ next.emitted = Serial!Signals(input)[n]
             /\ n < Serial!Understood => Within(next, input[n + 1], p)
  <2>1. End(n) \in Nat /\ End(0) = 0
    BY <1>1, LineOfItems
  <2>2. CASE p # 0
    <3>1. /\ n \in 0 .. Serial!Understood - 1 /\ n < Serial!Understood
          /\ p < Len(Serial!Wire(input[n + 1]))
      BY <1>1, <1>3, <2>2
    <3>2. PICK q : q = p - 1
      OBVIOUS
    <3>3. Len(Serial!Wire(input[n + 1])) \in Nat
      <4>1. n + 1 \in 1 .. Len(input)
        BY <1>1, <3>1
      <4>2. QED
        BY <4>1, LineIsWellFormed, ItemOnTheLine
    <3>4. q \in Nat /\ q + 1 = p /\ t = End(n) + q /\ q < Len(Serial!Wire(input[n + 1]))
      BY <1>3, <2>1, <2>2, <3>1, <3>2, <3>3
    <3>5. Within(next, input[n + 1], q + 1) /\ next.emitted = Serial!Signals(input)[n]
      BY <1>2, <3>1, <3>4
    <3>6. QED
      BY <3>4, <3>5
  <2>3. CASE p = 0
    <3>1. n # 0
      BY <1>3, <2>1, <2>3
    <3>2. PICK m : m = n - 1
      OBVIOUS
    <3>3. m \in 0 .. Serial!Understood - 1 /\ m + 1 = n /\ m \in 0 .. Len(input) - 1
          /\ m + 1 \in 1 .. Len(input) /\ m \in 0 .. Len(input)
      BY <1>1, <3>1, <3>2
    <3>4. End(m + 1) = End(m) + Len(Serial!Wire(input[m + 1])) /\ End(m) \in Nat
      BY <3>3, LineOfItems
    <3>5. Len(Serial!Wire(input[m + 1])) \in Nat /\ Len(Serial!Wire(input[m + 1])) >= 1
      BY <3>3, LineIsWellFormed, ItemOnTheLine
    <3>6. PICK q : q = Len(Serial!Wire(input[m + 1])) - 1
      OBVIOUS
    <3>7. q \in Nat /\ q + 1 = Len(Serial!Wire(input[m + 1])) /\ q < Len(Serial!Wire(input[m + 1]))
      BY <3>5, <3>6
    <3>8. t = End(m) + q
      BY <1>3, <2>3, <3>3, <3>4, <3>5, <3>6
    <3>9. next.receiveState = "START" /\ next.emitted = Serial!Signals(input)[m + 1]
      BY <1>2, <3>3, <3>7, <3>8
    <3>10. ASSUME n < Serial!Understood PROVE Within(next, input[n + 1], 0)
      BY <3>9 DEF Within
    <3>11. QED
      BY <2>3, <3>3, <3>9, <3>10
  <2>4. QED
    BY <2>2, <2>3
<1>4. QED
  BY <1>3 DEF Sorted, next

\* The inductive invariant: what the port has and had to announce is the end of
\* the line, the receiver is sorted for what it has taken, and what the port has
\* is announced.
Inv ==
    /\ input \in Lines /\ object \in Objects
    /\ Remains(Nat, Bytes, Taken, arrived, unread)
    /\ Sorted(object, Taken)
    /\ slots \in Seq({"read"}) /\ (slots = <<>> => arrived = <<>>)

\* All bytes of the line.
LEMMA BytesOfLine ==
    ASSUME input \in Lines
    PROVE  Bytes \in Seq(Nat) /\ Len(Bytes) \in Nat
<1>1. Len(input) \in 0 .. Len(input)
  BY LineIsWellFormed
<1>2. QED
  BY <1>1, LineOfItems, LenProperties DEF Bytes

\* Nothing was taken at the start.
LEMMA InitSorted == Serial!Init => Inv
<1> SUFFICES ASSUME Serial!Init PROVE Inv
  OBVIOUS
<1>1. input \in Lines /\ unread = Bytes /\ arrived = <<>>
  BY DEF Serial!Init, Bytes
<1>2. Len(input) \in Nat /\ Serial!Understood \in 0 .. Len(input)
  BY <1>1, LineIsWellFormed, UnderstoodItems
<1>3. Bytes \in Seq(Nat) /\ Len(Bytes) \in Nat
  BY <1>1, BytesOfLine
<1>4. arrived \in Seq(Nat) /\ Len(arrived) = 0 /\ unread \in Seq(Nat) /\ Len(unread) = Len(Bytes)
  BY <1>1, <1>3, EmptySeq
<1>5. Taken = 0
  BY <1>3, <1>4 DEF Taken
<1>6. object \in Objects /\ object.receiveState = "START" /\ object.emitted = <<>>
  BY EmptySeq DEF Serial!Init, Objects, States
<1>7. ASSUME NEW n \in 0 .. Serial!Understood, NEW p \in Nat, 0 = End(n) + p
      PROVE  n = 0 /\ p = 0
  <2>1. End(n) \in Nat
    BY <1>1, <1>2, LineOfItems
  <2>2. End(n) = 0 /\ p = 0
    BY <1>7, <2>1
  <2>3. ASSUME n # 0 PROVE FALSE
    <3>1. PICK m : m = n - 1
      OBVIOUS
    <3>2. m \in 0 .. Len(input) - 1 /\ m + 1 = n /\ m + 1 \in 1 .. Len(input)
          /\ m \in 0 .. Len(input)
      BY <1>2, <2>3, <3>1
    <3>3. End(m + 1) = End(m) + Len(Serial!Wire(input[m + 1])) /\ End(m) \in Nat
      BY <1>1, <3>2, LineOfItems
    <3>4. Len(Serial!Wire(input[m + 1])) \in Nat /\ Len(Serial!Wire(input[m + 1])) >= 1
      BY <1>1, <3>2, LineIsWellFormed, ItemOnTheLine
    <3>5. End(m + 1) # 0
      BY <3>3, <3>4
    <3>6. QED
      BY <2>2, <3>2, <3>5
  <2>4. QED
    BY <2>2, <2>3
<1>8. Sorted(object, 0)
  <2>1. Serial!Signals(input)[0] = <<>>
    BY <1>1, SignalsOfItems
  <2>2. Within(object, input[0 + 1], 0)
    BY <1>6 DEF Within
  <2>3. QED
    BY <1>6, <1>7, <2>1, <2>2 DEF Sorted
<1>9. Remains(Nat, Bytes, Taken, arrived, unread)
  <2>1. \A k \in 1 .. Len(unread) : Taken + Len(arrived) + k = k
    BY <1>3, <1>4, <1>5
  <2>2. \A k \in 1 .. Len(unread) : unread[k] = Bytes[Taken + Len(arrived) + k]
    BY <1>1, <2>1
  <2>3. Len(Bytes) = Taken + Len(arrived) + Len(unread)
    BY <1>3, <1>4, <1>5
  <2>4. QED
    BY <1>3, <1>4, <1>5, <2>2, <2>3 DEF Remains
<1>10. slots \in Seq({"read"}) /\ (slots = <<>> => arrived = <<>>)
  BY <1>1, EmptySeq DEF Serial!Init
<1>11. QED
  BY <1>1, <1>5, <1>6, <1>8, <1>9, <1>10 DEF Inv

\* A block moves bytes from the line to the port.
LEMMA ArriveSorted ==
    ASSUME Inv, Serial!Arrive
    PROVE  Inv'
<1>1. PICK size \in 1 .. Len(unread) : /\ arrived' = arrived \o SubSeq(unread, 1, size)
                                       /\ unread' = SubSeq(unread, size + 1, Len(unread))
  BY DEF Serial!Arrive
<1>2. input' = input /\ object' = object /\ slots' = Append(slots, "read")
  BY DEF Serial!Arrive
<1>3. Remains(Nat, Bytes, Taken, arrived, unread) /\ input \in Lines
  BY DEF Inv
<1>4. /\ Remains(Nat, Bytes, Taken, arrived', unread')
      /\ Len(arrived') = Len(arrived) + size /\ Len(unread') = Len(unread) - size
  <2>1. /\ Remains(Nat, Bytes, Taken, arrived \o SubSeq(unread, 1, size),
                   SubSeq(unread, size + 1, Len(unread)))
        /\ Len(arrived \o SubSeq(unread, 1, size)) = Len(arrived) + size
        /\ Len(SubSeq(unread, size + 1, Len(unread))) = Len(unread) - size
    BY <1>1, <1>3, BlockArrives
  <2>2. QED
    BY <1>1, <2>1
<1>5. Bytes' = Bytes
  BY <1>2 DEF Bytes
<1>6. Taken' = Taken
  <2>1. PICK here, away, all : here = Len(arrived) /\ away = Len(unread) /\ all = Len(Bytes)
    OBVIOUS
  <2>2. here \in Nat /\ away \in Nat /\ size \in Int /\ all \in Nat
    BY <1>1, <1>3, <2>1, BytesOfLine, LenProperties DEF Remains
  <2>3. Taken' = all - (here + size) - (away - size)
    BY <1>4, <1>5, <2>1 DEF Taken
  <2>4. Taken = all - here - away
    BY <2>1 DEF Taken
  <2>5. QED
    BY <2>2, <2>3, <2>4
<1>7. Sorted(object, Taken)'
  <2>1. Sorted(object, Taken)
    BY DEF Inv
  <2>2. QED
    BY <1>2, <1>6, <2>1 DEF Sorted, End, Serial!Understood
<1>8. slots' \in Seq({"read"}) /\ slots' # <<>>
  <2>1. slots \in Seq({"read"}) /\ "read" \in {"read"}
    BY DEF Inv
  <2>2. QED
    BY <1>2, <2>1, AppendProperties
<1>9. QED
  <2>1. input' \in Lines /\ object' \in Objects
    BY <1>2 DEF Inv
  <2>2. Remains(Nat, Bytes', Taken', arrived', unread')
    BY <1>4, <1>5, <1>6
  <2>3. QED
    BY <1>7, <1>8, <2>1, <2>2 DEF Inv

\* The slot takes all bytes of the port.
LEMMA ReceivedSorted ==
    ASSUME Inv, Serial!dataReceived
    PROVE  Inv'
<1>1. /\ object' = Serial!Received(object, arrived)[Len(arrived)] /\ arrived' = <<>>
      /\ input' = input /\ unread' = unread /\ slots # <<>> /\ slots' = Tail(slots)
  BY DEF Serial!dataReceived
<1>2. /\ input \in Lines /\ object \in Objects /\ arrived \in Seq(Nat) /\ unread \in Seq(Nat)
      /\ Remains(Nat, Bytes, Taken, arrived, unread) /\ Sorted(object, Taken)
  BY DEF Inv, Remains
<1>3. PICK many, rest, taken, all : /\ many = Len(arrived) /\ rest = Len(unread)
                                    /\ taken = Taken /\ all = Len(Bytes)
  OBVIOUS
<1>4. many \in Nat /\ rest \in Nat /\ taken \in Nat /\ all \in Nat /\ all = taken + many + rest
  BY <1>2, <1>3, LenProperties DEF Remains
<1>5. PICK received : received = Serial!Received(object, arrived)
  OBVIOUS
<1>6. /\ received[0] = object
      /\ \A k \in 0 .. many : received[k] \in Objects
      /\ \A k \in 0 .. many - 1 : received[k + 1] = Serial!Byte(received[k], arrived[k + 1])
  BY <1>2, <1>3, <1>5, ReceivedBytes
<1> DEFINE sorted == {k \in Nat : Sorted(received[k], taken + k)}
<1>7. 0 \in sorted
  <2>1. taken + 0 = taken
    BY <1>4
  <2>2. QED
    BY <1>2, <1>3, <1>6, <2>1
<1>8. ASSUME NEW k \in 0 .. many - 1, k \in sorted PROVE k + 1 \in sorted
  <2>1. /\ k \in Nat /\ k + 1 \in Nat /\ k + 1 \in 1 .. many /\ k \in 0 .. many /\ taken + k \in Nat
        /\ taken + k < all /\ (taken + k) + 1 = taken + (k + 1)
    BY <1>4
  <2>2. arrived[k + 1] = Bytes[taken + (k + 1)]
    BY <1>2, <1>3, <2>1 DEF Remains
  <2>3. Sorted(Serial!Byte(received[k], Bytes[(taken + k) + 1]), (taken + k) + 1)
    <3>1. received[k] \in Objects /\ Sorted(received[k], taken + k)
      BY <1>6, <1>8, <2>1
    <3>2. QED
      BY <1>2, <1>3, <2>1, <3>1, SortedByte
  <2>4. received[k + 1] = Serial!Byte(received[k], Bytes[(taken + k) + 1])
    BY <1>6, <2>1, <2>2
  <2>5. Sorted(received[k + 1], taken + (k + 1))
    BY <2>1, <2>3, <2>4
  <2>6. QED
    BY <2>1, <2>5
<1>9. Sorted(received[many], taken + many)
  <2> HIDE DEF sorted
  <2>1. \A k \in 0 .. many : k \in sorted
    BY ONLY <1>4, <1>7, <1>8, Counting
  <2>2. QED
    BY <1>4, <2>1 DEF sorted
<1>10. object' = received[many] /\ object' \in Objects
  BY <1>1, <1>3, <1>4, <1>5, <1>6
<1>11. Bytes' = Bytes
  BY <1>1 DEF Bytes
<1>12. Remains(Nat, Bytes, taken + many, arrived', unread)
  <2>1. many \in 0 .. Len(arrived) /\ Remains(Nat, Bytes, taken, arrived, unread)
    BY <1>2, <1>3, <1>4
  <2>2. arrived' = SubSeq(arrived, many + 1, Len(arrived))
    <3>1. many + 1 > many
      BY <1>4
    <3>2. SubSeq(arrived, many + 1, many) = <<>>
      BY <1>4, <3>1, SubSeqEmpty
    <3>3. QED
      BY <1>1, <1>3, <3>2
  <2>3. QED
    BY <2>1, <2>2, BytesTaken
<1>13. Taken' = taken + many
  <2>1. Taken' = all - Len(arrived') - rest
    BY <1>1, <1>3, <1>11 DEF Taken
  <2>2. Len(arrived') = 0
    BY <1>1, EmptySeq
  <2>3. QED
    BY <1>4, <2>1, <2>2
<1>14. Sorted(object, Taken)'
  BY <1>1, <1>9, <1>10, <1>13 DEF Sorted, End, Serial!Understood
<1>15. slots' \in Seq({"read"})
  <2>1. slots \in Seq({"read"}) /\ slots # <<>>
    BY <1>1 DEF Inv
  <2>2. QED
    BY <1>1, <2>1, HeadTailProperties
<1>16. QED
  <2>1. input' \in Lines
    BY <1>1, <1>2
  <2>2. Remains(Nat, Bytes', Taken', arrived', unread')
    BY <1>1, <1>11, <1>12, <1>13
  <2>3. QED
    BY <1>1, <1>10, <1>14, <1>15, <2>1, <2>2 DEF Inv

\* One step of the line or of the receiver.
LEMMA SortedStep == Inv /\ [Serial!Next]_Serial!vars => Inv'
<1>1. CASE Inv /\ Serial!Arrive
  BY <1>1, ArriveSorted
<1>2. CASE Inv /\ Serial!dataReceived
  BY <1>2, ReceivedSorted
<1>3. CASE Inv /\ UNCHANGED Serial!vars
  <2>1. /\ input' = input /\ unread' = unread /\ arrived' = arrived /\ object' = object
        /\ slots' = slots
    BY <1>3 DEF Serial!vars
  <2>2. QED
    BY <1>3, <2>1 DEF Inv, Remains, Taken, Bytes, Sorted, End, Serial!Understood
<1>4. QED
  BY <1>1, <1>2, <1>3 DEF Serial!Next

\* What the receiver has told is what its inductive invariant says.
LEMMA SortedIsTold == Inv => Serial!CutsDoNotMatter
<1>1. ASSUME Inv PROVE Serial!CutsDoNotMatter
  <2>1. ASSUME NEW n \in 0 .. Serial!Understood,
               Taken \in End(n) .. (IF n < Serial!Understood THEN End(n + 1) - 1 ELSE End(n))
        PROVE  object.emitted = Serial!Signals(input)[n]
    <3>1. /\ Len(input) \in Nat /\ Serial!Understood \in 0 .. Len(input) /\ input \in Lines
          /\ Sorted(object, Taken) /\ Taken \in Nat
      BY <1>1, LineIsWellFormed, UnderstoodItems DEF Inv, Remains
    <3>2. End(n) \in Nat
      BY <3>1, LineOfItems
    <3>3. PICK p : p = Taken - End(n)
      OBVIOUS
    <3>4. CASE n < Serial!Understood
      <4>1. n \in 0 .. Len(input) - 1
        BY <3>1, <3>4
      <4>2. End(n + 1) = End(n) + Len(Serial!Wire(input[n + 1]))
        BY <3>1, <4>1, LineOfItems
      <4>3. Len(Serial!Wire(input[n + 1])) \in Nat
        <5>1. n + 1 \in 1 .. Len(input)
          BY <3>1, <4>1
        <5>2. QED
          BY <3>1, <5>1, LineIsWellFormed, ItemOnTheLine
      <4>4. p \in Nat /\ Taken = End(n) + p /\ p < Len(Serial!Wire(input[n + 1]))
        BY <2>1, <3>1, <3>2, <3>3, <3>4, <4>2, <4>3
      <4>5. QED
        BY <3>1, <3>4, <4>4 DEF Sorted
    <3>5. CASE ~ (n < Serial!Understood)
      <4>1. p = 0 /\ Taken = End(n) + p
        BY <2>1, <3>1, <3>2, <3>3, <3>5
      <4>2. QED
        BY <3>1, <3>5, <4>1 DEF Sorted
    <3>6. QED
      BY <3>4, <3>5
  <2>2. Taken = End(Len(input)) - Len(arrived) - Len(unread)
    BY DEF Taken, Bytes, End
  <2>3. slots = <<>> => arrived = <<>>
    BY <1>1 DEF Inv
  <2>4. QED
    BY <2>1, <2>2, <2>3, Zenon DEF Serial!CutsDoNotMatter, End
<1>2. QED
  BY <1>1

-----------------------------------------------------------------------------
\* EBList.

NodeRecords == [value : Items, next : Nat, previous : Nat]
Lists == [front : Nat, end : Nat, current : Nat, size : Int, nodes : Seq(NodeRecords)]

\* The two differ in their links at most.
SameButLinks(r, o) ==
    /\ r \in Lists /\ r.front = o.front /\ r.end = o.end /\ r.current = o.current
    /\ r.size = o.size /\ Len(r.nodes) = Len(o.nodes)
    /\ \A i \in 1 .. Len(o.nodes) : r.nodes[i].value = o.nodes[i].value

\* The fields of a list and of its nodes.
LEMMA ListFields ==
    ASSUME NEW o \in Lists
    PROVE  /\ o.front \in Nat /\ o.end \in Nat /\ o.current \in Nat /\ o.size \in Int
           /\ o.nodes \in Seq(NodeRecords) /\ Len(o.nodes) \in Nat
           /\ \A i \in 1 .. Len(o.nodes) :
                 /\ o.nodes[i] \in NodeRecords /\ o.nodes[i].value \in Items
                 /\ o.nodes[i].next \in Nat /\ o.nodes[i].previous \in Nat
<1>1. o.front \in Nat /\ o.end \in Nat /\ o.current \in Nat /\ o.size \in Int
      /\ o.nodes \in Seq(NodeRecords)
  BY DEF Lists
<1>2. Len(o.nodes) \in Nat /\ \A i \in 1 .. Len(o.nodes) : o.nodes[i] \in NodeRecords
  BY <1>1, LenProperties, ElementOfSeq
<1>3. \A x \in NodeRecords : x.value \in Items /\ x.next \in Nat /\ x.previous \in Nat
  BY DEF NodeRecords
<1>4. QED
  BY <1>1, <1>2, <1>3

\* The list with one of its nodes replaced.
LEMMA NodeReplaced ==
    ASSUME NEW o \in Lists, NEW n \in 1 .. Len(o.nodes), NEW node \in NodeRecords,
           NEW r, r = [o EXCEPT !.nodes = [o.nodes EXCEPT ![n] = node]]
    PROVE  /\ r \in Lists /\ r.front = o.front /\ r.end = o.end /\ r.current = o.current
           /\ r.size = o.size /\ Len(r.nodes) = Len(o.nodes)
           /\ \A i \in 1 .. Len(o.nodes) : r.nodes[i] = IF i = n THEN node ELSE o.nodes[i]
<1>1. o.nodes \in Seq(NodeRecords)
  BY ListFields
<1>2. PICK nodes : nodes = [o.nodes EXCEPT ![n] = node]
  OBVIOUS
<1>3. /\ nodes \in Seq(NodeRecords) /\ Len(nodes) = Len(o.nodes)
      /\ \A i \in 1 .. Len(o.nodes) : nodes[i] = IF i = n THEN node ELSE o.nodes[i]
  BY <1>1, <1>2, ExceptSeq
<1>4. r = [o EXCEPT !.nodes = nodes]
  BY <1>2
<1>5. /\ r.front = o.front /\ r.end = o.end /\ r.current = o.current /\ r.size = o.size
      /\ r.nodes = nodes
  BY <1>4 DEF Lists
<1>6. r \in Lists
  BY <1>3, <1>4 DEF Lists
<1>7. QED
  BY <1>3, <1>5, <1>6

\* SetNext changes the way forward from one node.
LEMMA NextSet ==
    ASSUME NEW o \in Lists, NEW n \in 0 .. Len(o.nodes), NEW next \in Nat,
           NEW r, r = Linked!SetNext(o, n, next)
    PROVE  /\ SameButLinks(r, o)
           /\ \A i \in 1 .. Len(o.nodes) :
                 /\ r.nodes[i].next = IF i = n THEN next ELSE o.nodes[i].next
                 /\ r.nodes[i].previous = o.nodes[i].previous
<1>1. CASE n = 0
  <2>1. r = o
    BY <1>1 DEF Linked!SetNext, Linked!Null
  <2>2. Len(o.nodes) \in Nat
    BY ListFields
  <2>3. QED
    BY <1>1, <2>1, <2>2 DEF SameButLinks
<1>2. CASE n # 0
  <2>1. n \in 1 .. Len(o.nodes)
    BY <1>2, ListFields
  <2>2. PICK old, node : old = o.nodes[n] /\ node = [old EXCEPT !.next = next]
    OBVIOUS
  <2>3. old \in NodeRecords
    BY <2>1, <2>2, ListFields
  <2>4. node \in NodeRecords /\ node.value = old.value /\ node.previous = old.previous
        /\ node.next = next
    BY <2>2, <2>3 DEF NodeRecords
  <2>5. r = [o EXCEPT !.nodes = [o.nodes EXCEPT ![n] = node]]
    BY <1>2, <2>1, <2>2 DEF Linked!SetNext, Linked!Null, Lists
  <2>6. /\ r \in Lists /\ r.front = o.front /\ r.end = o.end /\ r.current = o.current
        /\ r.size = o.size /\ Len(r.nodes) = Len(o.nodes)
        /\ \A i \in 1 .. Len(o.nodes) : r.nodes[i] = IF i = n THEN node ELSE o.nodes[i]
    BY ONLY <2>1, <2>4, <2>5, NodeReplaced, o \in Lists
  <2>7. ASSUME NEW i \in 1 .. Len(o.nodes)
        PROVE  /\ r.nodes[i].value = o.nodes[i].value
               /\ r.nodes[i].next = IF i = n THEN next ELSE o.nodes[i].next
               /\ r.nodes[i].previous = o.nodes[i].previous
    BY ONLY <2>2, <2>4, <2>6, <2>7
  <2>8. QED
    BY <2>6, <2>7 DEF SameButLinks
<1>3. QED
  BY <1>1, <1>2

\* SetPrevious changes the way back from one node.
LEMMA PreviousSet ==
    ASSUME NEW o \in Lists, NEW n \in 0 .. Len(o.nodes), NEW previous \in Nat,
           NEW r, r = Linked!SetPrevious(o, n, previous)
    PROVE  /\ SameButLinks(r, o)
           /\ \A i \in 1 .. Len(o.nodes) :
                 /\ r.nodes[i].previous = IF i = n THEN previous ELSE o.nodes[i].previous
                 /\ r.nodes[i].next = o.nodes[i].next
<1>1. CASE n = 0
  <2>1. r = o
    BY <1>1 DEF Linked!SetPrevious, Linked!Null
  <2>2. Len(o.nodes) \in Nat
    BY ListFields
  <2>3. QED
    BY <1>1, <2>1, <2>2 DEF SameButLinks
<1>2. CASE n # 0
  <2>1. n \in 1 .. Len(o.nodes)
    BY <1>2, ListFields
  <2>2. PICK old, node : old = o.nodes[n] /\ node = [old EXCEPT !.previous = previous]
    OBVIOUS
  <2>3. old \in NodeRecords
    BY <2>1, <2>2, ListFields
  <2>4. node \in NodeRecords /\ node.value = old.value /\ node.next = old.next
        /\ node.previous = previous
    BY <2>2, <2>3 DEF NodeRecords
  <2>5. r = [o EXCEPT !.nodes = [o.nodes EXCEPT ![n] = node]]
    BY <1>2, <2>1, <2>2 DEF Linked!SetPrevious, Linked!Null, Lists
  <2>6. /\ r \in Lists /\ r.front = o.front /\ r.end = o.end /\ r.current = o.current
        /\ r.size = o.size /\ Len(r.nodes) = Len(o.nodes)
        /\ \A i \in 1 .. Len(o.nodes) : r.nodes[i] = IF i = n THEN node ELSE o.nodes[i]
    BY ONLY <2>1, <2>4, <2>5, NodeReplaced, o \in Lists
  <2>7. ASSUME NEW i \in 1 .. Len(o.nodes)
        PROVE  /\ r.nodes[i].value = o.nodes[i].value
               /\ r.nodes[i].previous = IF i = n THEN previous ELSE o.nodes[i].previous
               /\ r.nodes[i].next = o.nodes[i].next
    BY ONLY <2>2, <2>4, <2>6, <2>7
  <2>8. QED
    BY <2>6, <2>7 DEF SameButLinks
<1>3. QED
  BY <1>1, <1>2

\* A made node is behind the others and has no neighbours.
LEMMA Created ==
    ASSUME NEW o \in Lists, NEW item \in Items, NEW r, r = Linked!Create(o, item)
    PROVE  /\ r \in Lists /\ r.front = o.front /\ r.end = o.end /\ r.current = o.current
           /\ r.size = o.size /\ Len(r.nodes) = Len(o.nodes) + 1
           /\ \A i \in 1 .. Len(o.nodes) : r.nodes[i] = o.nodes[i]
           /\ r.nodes[Len(o.nodes) + 1] = [value |-> item, next |-> 0, previous |-> 0]
<1>1. o.nodes \in Seq(NodeRecords)
  BY ListFields
<1>2. PICK node, nodes : /\ node = [value |-> item, next |-> 0, previous |-> 0]
                         /\ nodes = Append(o.nodes, node)
  OBVIOUS
<1>3. node \in NodeRecords
  BY <1>2 DEF NodeRecords
<1>4. /\ nodes \in Seq(NodeRecords) /\ Len(nodes) = Len(o.nodes) + 1
      /\ \A i \in 1 .. Len(o.nodes) : nodes[i] = o.nodes[i]
      /\ nodes[Len(o.nodes) + 1] = node
  BY <1>1, <1>2, <1>3, AppendProperties
<1>5. r = [o EXCEPT !.nodes = nodes]
  BY <1>2 DEF Linked!Create, Linked!Null, Lists
<1>6. /\ r.front = o.front /\ r.end = o.end /\ r.current = o.current /\ r.size = o.size
      /\ r.nodes = nodes
  BY <1>5 DEF Lists
<1>7. r \in Lists
  BY <1>4, <1>5 DEF Lists
<1>8. QED
  BY <1>2, <1>4, <1>6, <1>7

\* The nodes s are linked from the front both ways, and _end is behind them all
\* if it is on one of them.
Chain(o, s) ==
    /\ s \in Seq(1 .. Len(o.nodes))
    /\ \A i, j \in 1 .. Len(s) : s[i] = s[j] => i = j
    /\ o.front = IF Len(s) = 0 THEN 0 ELSE s[1]
    /\ \A i \in 1 .. Len(s) :
          /\ o.nodes[s[i]].next = IF i = Len(s) THEN 0 ELSE s[i + 1]
          /\ o.nodes[s[i]].previous = IF i = 1 THEN 0 ELSE s[i - 1]
    /\ o.end \in 0 .. Len(o.nodes)
    /\ \A i \in 1 .. Len(s) : o.end = s[i] => i = Len(s)

\* They hold these items, are counted, and _end is on the last of them.
Counted(o, s, items) ==
    /\ items \in Seq(Items) /\ Len(items) = Len(s) /\ o.size = Len(s)
    /\ \A i \in 1 .. Len(s) : o.nodes[s[i]].value = items[i]
    /\ Len(s) # 0 => o.end = s[Len(s)]

\* A list of these nodes, and of these items if it is exact.
Represents(o, s, items, exact) ==
    o \in Lists /\ Chain(o, s) /\ (exact => Counted(o, s, items))

\* A chain in numbers.
LEMMA ChainFacts ==
    ASSUME NEW o \in Lists, NEW s, Chain(o, s)
    PROVE  Len(s) \in Nat /\ Len(o.nodes) \in Nat
           /\ \A i \in 1 .. Len(s) : s[i] \in 1 .. Len(o.nodes) /\ s[i] \in Nat /\ s[i] # 0
<1>1. s \in Seq(1 .. Len(o.nodes)) /\ Len(o.nodes) \in Nat
  BY ListFields DEF Chain
<1>2. Len(s) \in Nat /\ \A i \in 1 .. Len(s) : s[i] \in 1 .. Len(o.nodes)
  BY <1>1, LenProperties, ElementOfSeq
<1>3. \A x \in 1 .. Len(o.nodes) : x \in Nat /\ x # 0
  BY <1>1
<1>4. QED
  BY <1>1, <1>2, <1>3

-----------------------------------------------------------------------------
\* What an iteration meets.

\* A chain is not longer than there are nodes.
LEMMA ChainIsShort ==
    ASSUME NEW o \in Lists, NEW s, Chain(o, s)
    PROVE  Len(s) <= Len(o.nodes)
<1> DEFINE S == 1 .. Len(s)
           T == 1 .. Len(o.nodes)
<1>1. Len(s) \in Nat /\ Len(o.nodes) \in Nat
  BY ChainFacts
<1>2. IsFiniteSet(T) /\ Cardinality(T) = Len(o.nodes) /\ Cardinality(S) = Len(s)
  <2>1. \A n \in Nat : IsFiniteSet(1 .. n) /\ Cardinality(1 .. n) = IF 1 > n THEN 0 ELSE n - 1 + 1
    BY FS_Interval
  <2>2. \A n \in Nat : (IF 1 > n THEN 0 ELSE n - 1 + 1) = n
    OBVIOUS
  <2>3. QED
    BY <1>1, <2>1, <2>2, Zenon
<1>3. s \in Injection(S, T)
  <2>1. s \in [S -> T]
    BY LenProperties DEF Chain
  <2>2. DOMAIN s = S
    BY <2>1
  <2>3. IsInjective(s)
    BY <2>2 DEF IsInjective, Chain
  <2>4. QED
    BY <2>1, <2>3 DEF Injection
<1>4. Cardinality(S) <= Cardinality(T)
  <2> HIDE DEF S, T
  <2>1. QED
    BY <1>2, <1>3, FS_Injection
<1>5. QED
  BY <1>2, <1>4

\* Walk goes along the chain, to Null behind it, and throws from there on.
LEMMA WalkIsTheChain ==
    ASSUME NEW o \in Lists, NEW s, Chain(o, s)
    PROVE  \A k \in Nat : Linked!setCursor(o, k) = IF k < Len(s) THEN s[k + 1]
                                                   ELSE IF k = Len(s) THEN 0 ELSE -2
<1>1. Len(s) \in Nat /\ \A i \in 1 .. Len(s) : s[i] \in Nat /\ s[i] # 0
  BY ChainFacts
<1> DEFINE place(k) == IF k < Len(s) THEN s[k + 1] ELSE IF k = Len(s) THEN 0 ELSE -2
           after(x) == IF x \in {0, -2} THEN -2 ELSE o.nodes[x].next
           Follows(f) == f = [k \in Nat |-> IF k = 0 THEN o.front
                                            ELSE IF f[k - 1] \in {0, -2} THEN -2
                                            ELSE o.nodes[f[k - 1]].next]
<1>2. o.front = place(0)
  BY <1>1 DEF Chain
<1>3. ASSUME NEW k \in Nat PROVE place(k + 1) = after(place(k))
  <2>1. CASE k < Len(s)
    <3>1. k + 1 \in 1 .. Len(s) /\ place(k) = s[k + 1]
      BY <1>1, <2>1
    <3>2. after(place(k)) = o.nodes[s[k + 1]].next
      BY <1>1, <3>1
    <3>3. o.nodes[s[k + 1]].next = IF k + 1 = Len(s) THEN 0 ELSE s[(k + 1) + 1]
      BY <3>1 DEF Chain
    <3>4. place(k + 1) = IF k + 1 = Len(s) THEN 0 ELSE s[(k + 1) + 1]
      BY <1>1, <3>1
    <3>5. QED
      BY <3>2, <3>3, <3>4
  <2>2. CASE ~ (k < Len(s))
    BY <1>1, <2>2
  <2>3. QED
    BY <2>1, <2>2
<1> HIDE DEF place
<1>4. PICK f : f = [k \in Nat |-> place(k)]
  OBVIOUS
<1>5. Follows(f)
  <2>1. ASSUME NEW k \in Nat, k # 0 PROVE f[k] = after(f[k - 1])
    <3>1. PICK j : j = k - 1
      OBVIOUS
    <3>2. j \in Nat /\ j + 1 = k
      BY <2>1, <3>1
    <3>3. f[j] = place(j) /\ f[j + 1] = place(j + 1)
      BY <1>4, <3>2
    <3>4. f[j + 1] = after(f[j])
      BY <1>3, <3>2, <3>3
    <3>5. QED
      BY <3>1, <3>2, <3>4
  <2>2. f[0] = o.front
    BY <1>2, <1>4
  <2>3. QED
    BY <1>4, <2>1, <2>2
<1>6. Follows(Linked!Walk(o))
  <2>1. Linked!Walk(o) = CHOOSE h : Follows(h)
    BY DEF Linked!Walk, Linked!Null, Linked!Thrown, Linked!Node
  <2> HIDE DEF Follows
  <2>2. QED
    BY <1>5, <2>1
<1>7. PICK walk : walk = Linked!Walk(o)
  OBVIOUS
<1>8. walk[0] = o.front /\ \A k \in Nat : k # 0 => walk[k] = after(walk[k - 1])
  BY <1>6, <1>7
<1> HIDE DEF after
<1>9. ASSUME NEW n \in Nat PROVE walk[n] = place(n)
  <2> DEFINE same == {k \in Nat : walk[k] = place(k)}
  <2>1. 0 \in same
    BY <1>2, <1>8
  <2>2. ASSUME NEW k \in 0 .. n - 1, k \in same PROVE k + 1 \in same
    <3>1. k \in Nat /\ k + 1 \in Nat /\ k + 1 # 0 /\ (k + 1) - 1 = k
      OBVIOUS
    <3>2. walk[k + 1] = after(walk[(k + 1) - 1])
      BY <1>8, <3>1
    <3>3. walk[k + 1] = after(place(k))
      BY <2>2, <3>1, <3>2
    <3>4. QED
      BY <1>3, <3>1, <3>3
  <2> HIDE DEF same
  <2>3. \A k \in 0 .. n : k \in same
    BY ONLY <2>1, <2>2, Counting, n \in Nat
  <2>4. n \in same
    BY <2>3
  <2>5. QED
    BY <2>4 DEF same
<1>10. QED
  BY <1>7, <1>9 DEF place, Linked!setCursor

\* An iteration meets the nodes of the chain, one by one.
LEMMA NodesAreTheChain ==
    ASSUME NEW o \in Lists, NEW s, Chain(o, s)
    PROVE  Linked!Nodes(o) = s
<1>1. Len(s) \in Nat /\ Len(o.nodes) \in Nat /\ \A i \in 1 .. Len(s) : s[i] \in Nat /\ s[i] # 0
  BY ChainFacts
<1>2. Len(s) <= Len(o.nodes)
  BY ChainIsShort
<1>3. ASSUME NEW j \in 1 .. Len(o.nodes) + 1
      PROVE  Linked!setCursor(o, j - 1) = IF j <= Len(s) THEN s[j]
                                          ELSE IF j = Len(s) + 1 THEN 0 ELSE -2
  <2>1. PICK k : k = j - 1
    OBVIOUS
  <2>2. k \in Nat /\ k + 1 = j
    BY <1>1, <2>1
  <2>3. Linked!setCursor(o, k) = IF k < Len(s) THEN s[k + 1] ELSE IF k = Len(s) THEN 0 ELSE -2
    BY <2>2, WalkIsTheChain
  <2>4. (k < Len(s) <=> j <= Len(s)) /\ (k = Len(s) <=> j = Len(s) + 1)
    BY <1>1, <2>2
  <2>5. QED
    BY <2>1, <2>2, <2>3, <2>4
<1> DEFINE met == {j \in 1 .. Len(o.nodes) + 1 : Linked!setCursor(o, j - 1) \notin {0, -2}}
<1>4. met = 1 .. Len(s)
  <2>1. ASSUME NEW j \in 1 .. Len(o.nodes) + 1
        PROVE  Linked!setCursor(o, j - 1) \notin {0, -2} <=> j <= Len(s)
    BY <1>1, <1>3
  <2>2. 1 .. Len(s) = {j \in 1 .. Len(o.nodes) + 1 : j <= Len(s)}
    BY <1>1, <1>2
  <2>3. QED
    BY <2>1, <2>2
<1>5. Linked!Nodes(o) = [i \in met |-> Linked!setCursor(o, i - 1)]
  BY DEF Linked!Nodes, Linked!Null, Linked!Thrown
<1> HIDE DEF met
<1>6. \A i \in 1 .. Len(s) : Linked!setCursor(o, i - 1) = s[i]
  <2>1. ASSUME NEW i \in 1 .. Len(s) PROVE i \in 1 .. Len(o.nodes) + 1 /\ i <= Len(s)
    BY <1>1, <1>2
  <2>2. QED
    BY <1>3, <2>1
<1>7. s = [i \in 1 .. Len(s) |-> s[i]]
  BY LenProperties DEF Chain
<1>8. QED
  BY <1>4, <1>5, <1>6, <1>7

\* What an iteration and indexOf() return.
LEMMA ValuesOfChain ==
    ASSUME NEW o \in Lists, NEW s, Chain(o, s)
    PROVE  /\ Linked!Values(o) \in Seq(Items) /\ Len(Linked!Values(o)) = Len(s)
           /\ \A i \in 1 .. Len(s) : Linked!Values(o)[i] = o.nodes[s[i]].value
<1>1. Linked!Nodes(o) = s
  BY NodesAreTheChain
<1>2. DOMAIN s = 1 .. Len(s) /\ Len(s) \in Nat
  BY LenProperties DEF Chain
<1>3. PICK values : values = [i \in 1 .. Len(s) |-> o.nodes[s[i]].value]
  OBVIOUS
<1>4. Linked!Values(o) = values
  BY <1>1, <1>2, <1>3 DEF Linked!Values, Linked!Node
<1>5. \A i \in 1 .. Len(s) : o.nodes[s[i]].value \in Items
  BY ChainFacts, ListFields
<1>6. values \in [1 .. Len(s) -> Items]
  BY <1>3, <1>5
<1>7. values \in Seq(Items)
  BY <1>2, <1>6, SeqDef
<1>8. Len(values) = Len(s)
  BY <1>2, <1>6, <1>7, LenProperties
<1>9. QED
  BY <1>3, <1>4, <1>7, <1>8

\* Place is 0 or a place of the item.
LEMMA PlaceOfItem ==
    ASSUME NEW S, NEW values \in Seq(S), NEW item
    PROVE  /\ Linked!Place(values, item) \in 0 .. Len(values)
           /\ Linked!Place(values, item) # 0 => values[Linked!Place(values, item)] = item
<1> DEFINE places == {i \in 1 .. Len(values) : values[i] = item}
<1>1. Len(values) \in Nat
  BY LenProperties
<1>2. Linked!Place(values, item) = IF places # {} THEN Linked!Min(places) ELSE 0
  BY DEF Linked!Place, Linked!SelectInSeq, Linked!Min
<1>3. places \in SUBSET Nat
  BY <1>1
<1>4. ASSUME places # {} PROVE Linked!Min(places) \in places
  <2> HIDE DEF places
  <2>1. \E x \in places : \A y \in places : x <= y
    BY <1>3, <1>4, Least
  <2>2. QED
    BY <2>1 DEF Linked!Min
<1>5. QED
  BY <1>1, <1>2, <1>4

\* A sequence without its k-th element.
LEMMA Removed ==
    ASSUME NEW S, NEW s \in Seq(S), NEW k \in 1 .. Len(s), NEW t, t = Linked!RemoveAt(s, k)
    PROVE  /\ t \in Seq(S) /\ Len(t) = Len(s) - 1
           /\ \A j \in 1 .. Len(t) : t[j] = IF j < k THEN s[j] ELSE s[j + 1]
<1>1. PICK n : n = Len(s)
  OBVIOUS
<1>2. n \in Nat /\ k \in 1 .. n /\ \A i \in 1 .. n : s[i] \in S
  BY <1>1, LenProperties, ElementOfSeq
<1>3. PICK a, b : a = SubSeq(s, 1, k - 1) /\ b = SubSeq(s, k + 1, n)
  OBVIOUS
<1>4. /\ a \in Seq(S) /\ Len(a) = k - 1 /\ \A i \in 1 .. k - 1 : a[i] = s[i]
  <2>1. 1 \in Int /\ k - 1 \in Int /\ \A i \in 1 .. k - 1 : s[i] \in S
    BY <1>2
  <2>2. /\ a \in Seq(S) /\ Len(a) = IF 1 <= k - 1 THEN k - 1 - 1 + 1 ELSE 0
        /\ \A i \in 1 .. k - 1 - 1 + 1 : a[i] = s[1 + i - 1]
    BY ONLY <1>3, <2>1, SubSeqProperties
  <2>3. \A i \in 1 .. k - 1 : i \in 1 .. k - 1 - 1 + 1 /\ 1 + i - 1 = i
    BY <1>2
  <2>4. Len(a) = k - 1
    BY <1>2, <2>2
  <2>5. \A i \in 1 .. k - 1 : a[i] = s[i]
    BY <2>2, <2>3
  <2>6. QED
    BY <2>2, <2>4, <2>5
<1>5. /\ b \in Seq(S) /\ Len(b) = n - k /\ \A i \in 1 .. n - k : b[i] = s[k + i]
  <2>1. k + 1 \in Int /\ n \in Int /\ \A i \in k + 1 .. n : s[i] \in S
    BY <1>2
  <2>2. /\ b \in Seq(S) /\ Len(b) = IF k + 1 <= n THEN n - (k + 1) + 1 ELSE 0
        /\ \A i \in 1 .. n - (k + 1) + 1 : b[i] = s[k + 1 + i - 1]
    BY ONLY <1>3, <2>1, SubSeqProperties
  <2>3. \A i \in 1 .. n - k : i \in 1 .. n - (k + 1) + 1 /\ k + 1 + i - 1 = k + i
    BY <1>2
  <2>4. Len(b) = n - k
    BY <1>2, <2>2
  <2>5. \A i \in 1 .. n - k : b[i] = s[k + i]
    BY <2>2, <2>3
  <2>6. QED
    BY <2>2, <2>4, <2>5
<1>6. t = a \o b
  BY <1>1, <1>3 DEF Linked!RemoveAt
<1>7. /\ t \in Seq(S) /\ Len(t) = n - 1
      /\ \A i \in 1 .. k - 1 : t[i] = s[i]
      /\ \A i \in 1 .. n - k : t[k - 1 + i] = s[k + i]
  <2>1. a \in Seq(S) /\ b \in Seq(S)
    BY <1>4, <1>5
  <2>2. /\ t \in Seq(S) /\ Len(t) = Len(a) + Len(b)
        /\ \A i \in 1 .. Len(a) : t[i] = a[i]
        /\ \A i \in 1 .. Len(b) : t[Len(a) + i] = b[i]
    BY ONLY <1>6, <2>1, Concatenated
  <2>3. Len(t) = n - 1
    BY <1>2, <1>4, <1>5, <2>2
  <2>4. QED
    BY <1>4, <1>5, <2>2, <2>3
<1>8. ASSUME NEW j \in 1 .. n - 1 PROVE t[j] = IF j < k THEN s[j] ELSE s[j + 1]
  <2>1. CASE j < k
    <3>1. j \in 1 .. k - 1
      BY <1>2, <2>1
    <3>2. QED
      BY <1>7, <2>1, <3>1
  <2>2. CASE ~ (j < k)
    <3>1. PICK i : i = j - k + 1
      OBVIOUS
    <3>2. i \in 1 .. n - k /\ k - 1 + i = j /\ k + i = j + 1
      BY <1>2, <2>2, <3>1
    <3>3. t[k - 1 + i] = s[k + i]
      BY <1>7, <3>2
    <3>4. QED
      BY <2>2, <3>2, <3>3
  <2>3. QED
    BY <2>1, <2>2
<1>9. QED
  BY <1>1, <1>7, <1>8

\* A sequence with an element more at the k-th place.
LEMMA Inserted ==
    ASSUME NEW S, NEW s \in Seq(S), NEW k \in 1 .. Len(s) + 1, NEW e \in S, NEW t,
           t = Linked!InsertAt(s, k, e)
    PROVE  /\ t \in Seq(S) /\ Len(t) = Len(s) + 1
           /\ \A j \in 1 .. Len(t) : t[j] = IF j < k THEN s[j] ELSE IF j = k THEN e ELSE s[j - 1]
<1>1. PICK n : n = Len(s)
  OBVIOUS
<1>2. n \in Nat /\ k \in 1 .. n + 1 /\ \A i \in 1 .. n : s[i] \in S
  BY <1>1, LenProperties, ElementOfSeq
<1>3. PICK a, b, one, c : /\ a = SubSeq(s, 1, k - 1) /\ b = SubSeq(s, k, n) /\ one = <<e>>
                          /\ c = a \o one
  OBVIOUS
<1>4. /\ a \in Seq(S) /\ Len(a) = k - 1 /\ \A i \in 1 .. k - 1 : a[i] = s[i]
  <2>1. 1 \in Int /\ k - 1 \in Int /\ \A i \in 1 .. k - 1 : s[i] \in S
    BY <1>2
  <2>2. /\ a \in Seq(S) /\ Len(a) = IF 1 <= k - 1 THEN k - 1 - 1 + 1 ELSE 0
        /\ \A i \in 1 .. k - 1 - 1 + 1 : a[i] = s[1 + i - 1]
    BY ONLY <1>3, <2>1, SubSeqProperties
  <2>3. \A i \in 1 .. k - 1 : i \in 1 .. k - 1 - 1 + 1 /\ 1 + i - 1 = i
    BY <1>2
  <2>4. Len(a) = k - 1
    BY <1>2, <2>2
  <2>5. \A i \in 1 .. k - 1 : a[i] = s[i]
    BY <2>2, <2>3
  <2>6. QED
    BY <2>2, <2>4, <2>5
<1>5. /\ b \in Seq(S) /\ Len(b) = n - k + 1 /\ \A i \in 1 .. n - k + 1 : b[i] = s[k + i - 1]
  <2>1. k \in Int /\ n \in Int /\ \A i \in k .. n : s[i] \in S
    BY <1>2
  <2>2. /\ b \in Seq(S) /\ Len(b) = IF k <= n THEN n - k + 1 ELSE 0
        /\ \A i \in 1 .. n - k + 1 : b[i] = s[k + i - 1]
    BY ONLY <1>3, <2>1, SubSeqProperties
  <2>3. Len(b) = n - k + 1
    BY <1>2, <2>2
  <2>4. QED
    BY <2>2, <2>3
<1>6. one \in Seq(S) /\ Len(one) = 1 /\ one[1] = e
  BY <1>3
<1>7. /\ c \in Seq(S) /\ Len(c) = k
      /\ \A i \in 1 .. k - 1 : c[i] = s[i]
      /\ c[k] = e
  <2>1. a \in Seq(S) /\ one \in Seq(S) /\ c = a \o one
    BY <1>3, <1>4, <1>6
  <2>2. /\ c \in Seq(S) /\ Len(c) = Len(a) + Len(one)
        /\ \A i \in 1 .. Len(a) : c[i] = a[i]
        /\ \A i \in 1 .. Len(one) : c[Len(a) + i] = one[i]
    BY ONLY <2>1, Concatenated
  <2>3. Len(c) = k /\ (k - 1) + 1 = k
    BY <1>2, <1>4, <1>6, <2>2
  <2>4. c[(k - 1) + 1] = e
    BY <1>4, <1>6, <2>2
  <2>5. QED
    BY <1>4, <2>2, <2>3, <2>4
<1>8. t = c \o b
  BY <1>1, <1>3 DEF Linked!InsertAt
<1>9. /\ t \in Seq(S) /\ Len(t) = n + 1
      /\ \A i \in 1 .. k : t[i] = c[i]
      /\ \A i \in 1 .. n - k + 1 : t[k + i] = b[i]
  <2>1. c \in Seq(S) /\ b \in Seq(S)
    BY <1>5, <1>7
  <2>2. /\ t \in Seq(S) /\ Len(t) = Len(c) + Len(b)
        /\ \A i \in 1 .. Len(c) : t[i] = c[i]
        /\ \A i \in 1 .. Len(b) : t[Len(c) + i] = b[i]
    BY ONLY <1>8, <2>1, Concatenated
  <2>3. Len(t) = n + 1
    BY <1>2, <1>5, <1>7, <2>2
  <2>4. QED
    BY <1>5, <1>7, <2>2, <2>3
<1>10. ASSUME NEW j \in 1 .. n + 1
       PROVE  t[j] = IF j < k THEN s[j] ELSE IF j = k THEN e ELSE s[j - 1]
  <2>1. CASE j < k
    <3>1. j \in 1 .. k - 1 /\ j \in 1 .. k
      BY <1>2, <2>1
    <3>2. QED
      BY <1>7, <1>9, <2>1, <3>1
  <2>2. CASE j = k
    <3>1. k \in 1 .. k
      BY <1>2
    <3>2. QED
      BY <1>7, <1>9, <2>2, <3>1
  <2>3. CASE j > k
    <3>1. PICK i : i = j - k
      OBVIOUS
    <3>2. i \in 1 .. n - k + 1 /\ k + i = j /\ k + i - 1 = j - 1
      BY <1>2, <2>3, <3>1
    <3>3. t[k + i] = s[k + i - 1]
      BY <1>5, <1>9, <3>2
    <3>4. ~ (j < k) /\ j # k
      BY <1>2, <2>3
    <3>5. QED
      BY <3>2, <3>3, <3>4
  <2>4. QED
    BY <1>2, <2>1, <2>2, <2>3
<1>11. QED
  BY <1>1, <1>9, <1>10

-----------------------------------------------------------------------------
\* What the input do to the chain.

\* A node linked behind _end lengthens the chain if _end was on it, and else
\* leaves it as it is.
LEMMA LinkedBehind ==
    ASSUME NEW o, NEW s, NEW items, NEW exact \in BOOLEAN, Represents(o, s, items, exact),
           NEW item \in Items, NEW lit, lit = Len(o.nodes) + 1,
           NEW made \in Lists, Len(made.nodes) = lit,
           \A i \in 1 .. Len(o.nodes) : made.nodes[i] = o.nodes[i],
           made.nodes[lit] = [value |-> item, next |-> 0, previous |-> 0],
           NEW q \in Lists,
           q.nodes = Linked!SetPrevious(Linked!SetNext(made, o.end, lit), lit, o.end).nodes,
           q.front = o.front, q.end = lit, exact => q.size = o.size + 1 /\ Len(s) # 0
    PROVE  \E t : Represents(q, t, Append(items, item), exact)
<1>1. o \in Lists /\ Chain(o, s) /\ (exact => Counted(o, s, items))
  BY DEF Represents
<1>2. PICK n, many : n = Len(s) /\ many = Len(o.nodes)
  OBVIOUS
<1>3. /\ n \in Nat /\ many \in Nat /\ lit = many + 1 /\ lit \in Nat
      /\ o.end \in 0 .. many /\ o.end # lit
      /\ \A i \in 1 .. n : s[i] \in 1 .. many /\ s[i] # lit
  <2>1. n \in Nat /\ many \in Nat /\ \A i \in 1 .. n : s[i] \in 1 .. many
    BY <1>1, <1>2, ChainFacts
  <2>2. o.end \in 0 .. many
    BY <1>1, <1>2 DEF Chain
  <2>3. lit = many + 1
    BY <1>2
  <2>4. QED
    BY <2>1, <2>2, <2>3
<1>4. /\ Len(q.nodes) = lit
      /\ \A i \in 1 .. many : /\ q.nodes[i].value = o.nodes[i].value
                              /\ q.nodes[i].previous = o.nodes[i].previous
                              /\ q.nodes[i].next = IF i = o.end THEN lit ELSE o.nodes[i].next
      /\ q.nodes[lit].value = item /\ q.nodes[lit].next = 0 /\ q.nodes[lit].previous = o.end
  <2>1. PICK r1, r2 : r1 = Linked!SetNext(made, o.end, lit)
                      /\ r2 = Linked!SetPrevious(r1, lit, o.end)
    OBVIOUS
  <2>2. o.end \in 0 .. Len(made.nodes) /\ lit \in Nat /\ o.end \in Nat
    BY <1>3
  <2>3. /\ SameButLinks(r1, made)
        /\ \A i \in 1 .. Len(made.nodes) :
              /\ r1.nodes[i].next = IF i = o.end THEN lit ELSE made.nodes[i].next
              /\ r1.nodes[i].previous = made.nodes[i].previous
    BY ONLY <2>1, <2>2, NextSet, made \in Lists
  <2>4. r1 \in Lists /\ lit \in 0 .. Len(r1.nodes)
    BY <1>3, <2>3 DEF SameButLinks
  <2>5. /\ SameButLinks(r2, r1)
        /\ \A i \in 1 .. Len(r1.nodes) :
              /\ r2.nodes[i].previous = IF i = lit THEN o.end ELSE r1.nodes[i].previous
              /\ r2.nodes[i].next = r1.nodes[i].next
    BY ONLY <2>1, <2>2, <2>4, PreviousSet
  <2>6. /\ Len(r2.nodes) = lit
        /\ \A i \in 1 .. lit : /\ r2.nodes[i].value = made.nodes[i].value
                               /\ r2.nodes[i].previous = IF i = lit THEN o.end
                                                         ELSE made.nodes[i].previous
                               /\ r2.nodes[i].next = IF i = o.end THEN lit
                                                     ELSE made.nodes[i].next
    BY <2>3, <2>5 DEF SameButLinks
  <2>7. q.nodes = r2.nodes
    BY <2>1
  <2>8. \A i \in 1 .. many : i \in 1 .. lit /\ i # lit /\ made.nodes[i] = o.nodes[i]
    BY <1>2, <1>3
  <2>9. lit \in 1 .. lit /\ made.nodes[lit].value = item /\ made.nodes[lit].next = 0
    BY <1>3
  <2>10. \A i \in 1 .. many : /\ q.nodes[i].value = o.nodes[i].value
                              /\ q.nodes[i].previous = o.nodes[i].previous
                              /\ q.nodes[i].next = IF i = o.end THEN lit ELSE o.nodes[i].next
    BY ONLY <2>6, <2>7, <2>8
  <2>11. /\ Len(q.nodes) = lit /\ q.nodes[lit].value = item /\ q.nodes[lit].next = 0
         /\ q.nodes[lit].previous = o.end
    BY ONLY <1>3, <2>6, <2>7, <2>9
  <2>12. QED
    BY ONLY <2>10, <2>11
<1>5. /\ \A i, j \in 1 .. n : s[i] = s[j] => i = j
      /\ q.front = IF n = 0 THEN 0 ELSE s[1]
      /\ \A i \in 1 .. n : /\ o.nodes[s[i]].next = IF i = n THEN 0 ELSE s[i + 1]
                           /\ o.nodes[s[i]].previous = IF i = 1 THEN 0 ELSE s[i - 1]
      /\ \A i \in 1 .. n : o.end = s[i] => i = n
  BY <1>1, <1>2 DEF Chain
<1>0. s \in Seq(1 .. many)
  BY <1>1, <1>2 DEF Chain
<1>9. ASSUME NEW i \in 1 .. n
      PROVE  /\ q.nodes[s[i]].value = o.nodes[s[i]].value
             /\ q.nodes[s[i]].previous = IF i = 1 THEN 0 ELSE s[i - 1]
             /\ q.nodes[s[i]].next = IF s[i] = o.end THEN lit ELSE IF i = n THEN 0 ELSE s[i + 1]
  <2>1. PICK x : x = s[i]
    OBVIOUS
  <2>2. x \in 1 .. many
    BY <1>3, <2>1
  <2>3. /\ q.nodes[x].value = o.nodes[x].value
        /\ q.nodes[x].previous = o.nodes[x].previous
        /\ q.nodes[x].next = IF x = o.end THEN lit ELSE o.nodes[x].next
    BY <1>4, <2>2
  <2>4. /\ o.nodes[x].next = IF i = n THEN 0 ELSE s[i + 1]
        /\ o.nodes[x].previous = IF i = 1 THEN 0 ELSE s[i - 1]
    BY <1>5, <2>1
  <2>5. QED
    BY ONLY <2>1, <2>3, <2>4, Zenon
<1>6. CASE n # 0 /\ o.end = s[n]
  <2>1. PICK t : t = Append(s, lit)
    OBVIOUS
  <2>0. t \in Seq(1 .. lit) /\ Len(t) = n + 1 /\ t[n + 1] = lit
        /\ \A i \in 1 .. n : t[i] = s[i]
    <3>1. s \in Seq(1 .. lit) /\ lit \in 1 .. lit
      <4>1. 1 .. many \subseteq 1 .. lit /\ lit \in 1 .. lit
        BY <1>3
      <4>2. QED
        BY <1>0, <4>1, SeqMonotonic
    <3>2. QED
      BY <1>2, <2>1, <3>1, AppendProperties
  <2>2. Len(t) = n + 1 /\ t[n + 1] = lit /\ \A i \in 1 .. n : t[i] = s[i]
    BY <2>0
  <2>3. ASSUME NEW i \in 1 .. n
        PROVE  /\ q.nodes[t[i]].next = t[i + 1]
               /\ q.nodes[t[i]].previous = IF i = 1 THEN 0 ELSE t[i - 1]
    <3>1. t[i] = s[i] /\ s[i] \in 1 .. many
      BY <1>3, <2>2
    <3>2. q.nodes[s[i]].previous = IF i = 1 THEN 0 ELSE t[i - 1]
      <4>1. i # 1 => i - 1 \in 1 .. n
        BY <1>3
      <4>2. QED
        BY ONLY <1>9, <2>2, <4>1, i \in 1 .. n
    <3>3. CASE i = n
      <4>1. s[i] = o.end /\ t[i + 1] = lit
        BY ONLY <1>6, <2>2, <3>3
      <4>2. QED
        BY ONLY <1>9, <4>1, <3>1, <3>2, i \in 1 .. n, Zenon
    <3>4. CASE i # n
      <4>1. i + 1 \in 1 .. n /\ s[i] # o.end
        BY <1>3, <1>5, <3>4
      <4>2. QED
        BY ONLY <1>9, <2>2, <3>1, <3>2, <3>4, <4>1, i \in 1 .. n
    <3>5. QED
      BY <3>1, <3>2, <3>3, <3>4
  <2>4. Chain(q, t)
    <3>1. ASSUME NEW i \in 1 .. n + 1, NEW j \in 1 .. n + 1, t[i] = t[j] PROVE i = j
      <4>1. (i = n + 1 \/ i \in 1 .. n) /\ (j = n + 1 \/ j \in 1 .. n)
        BY <1>3
      <4>2. QED
        BY ONLY <1>3, <1>5, <2>2, <3>1, <4>1
    <3>2. q.front = t[1]
      <4>1. 1 \in 1 .. n
        BY <1>3, <1>6
      <4>2. QED
        BY <1>5, <1>6, <2>2, <4>1
    <3>3. ASSUME NEW i \in 1 .. n + 1
          PROVE  /\ q.nodes[t[i]].next = IF i = n + 1 THEN 0 ELSE t[i + 1]
                 /\ q.nodes[t[i]].previous = IF i = 1 THEN 0 ELSE t[i - 1]
      <4>1. CASE i \in 1 .. n
        <5>1. i # n + 1
          BY <1>3, <4>1
        <5>2. QED
          BY <2>3, <4>1, <5>1
      <4>2. CASE i = n + 1
        <5>1. i # 1 /\ i - 1 = n /\ n \in 1 .. n
          BY <1>3, <1>6, <4>2
        <5>2. q.nodes[t[i]].next = 0 /\ q.nodes[t[i]].previous = t[n]
          BY <1>4, <1>6, <2>2, <4>2, <5>1
        <5>3. QED
          BY <4>2, <5>1, <5>2
      <4>3. QED
        BY <1>3, <4>1, <4>2
    <3>4. ASSUME NEW i \in 1 .. n + 1, q.end = t[i] PROVE i = n + 1
      <4>1. i \in 1 .. n => t[i] # lit
        BY <1>3, <2>2
      <4>2. QED
        BY <1>3, <3>4, <4>1
    <3>5. q.end \in 0 .. lit /\ n + 1 # 0
      BY <1>3
    <3>6. QED
      BY <1>4, <2>0, <3>1, <3>2, <3>3, <3>4, <3>5, SMTT(30) DEF Chain
  <2>5. ASSUME exact PROVE Counted(q, t, Append(items, item))
    <3>1. /\ items \in Seq(Items) /\ Len(items) = n /\ o.size = n
          /\ \A i \in 1 .. n : o.nodes[s[i]].value = items[i]
      BY <1>1, <1>2, <2>5 DEF Counted
    <3>2. PICK more : more = Append(items, item)
      OBVIOUS
    <3>3. /\ more \in Seq(Items) /\ Len(more) = n + 1 /\ more[n + 1] = item
          /\ \A i \in 1 .. n : more[i] = items[i]
      BY <3>1, <3>2, AppendProperties
    <3>4. ASSUME NEW i \in 1 .. n + 1 PROVE q.nodes[t[i]].value = more[i]
      <4>1. CASE i \in 1 .. n
        BY ONLY <1>9, <2>2, <3>1, <3>3, <4>1
      <4>2. CASE i = n + 1
        BY <1>4, <2>2, <3>3, <4>2
      <4>3. QED
        BY <1>3, <4>1, <4>2
    <3>5. q.size = n + 1 /\ q.end = t[n + 1]
      BY <2>2, <2>5, <3>1
    <3>6. QED
      BY <2>2, <3>2, <3>3, <3>4, <3>5 DEF Counted
  <2>6. QED
    BY <2>4, <2>5 DEF Represents
<1>7. CASE ~ (n # 0 /\ o.end = s[n])
  <2>1. \A i \in 1 .. n : s[i] # o.end
    BY <1>3, <1>5, <1>7
  <2>2. s \in Seq(1 .. lit)
    <3>1. 1 .. many \subseteq 1 .. lit
      BY <1>3
    <3>2. QED
      BY <1>0, <3>1, SeqMonotonic
  <2>3. Chain(q, s)
    <3>1. \A i \in 1 .. n : /\ q.nodes[s[i]].next = IF i = n THEN 0 ELSE s[i + 1]
                            /\ q.nodes[s[i]].previous = IF i = 1 THEN 0 ELSE s[i - 1]
      BY ONLY <1>9, <2>1
    <3>2. \A i \in 1 .. n : q.end # s[i]
      BY <1>3
    <3>3. q.end \in 0 .. lit
      BY <1>3
    <3>4. /\ Len(s) = n /\ \A i, j \in 1 .. n : s[i] = s[j] => i = j
          /\ q.front = IF n = 0 THEN 0 ELSE s[1]
          /\ Len(q.nodes) = lit
      BY <1>2, <1>4, <1>5
    <3>5. QED
      BY ONLY <2>2, <3>1, <3>2, <3>3, <3>4 DEF Chain
  <2>4. ~ exact
    <3>1. SUFFICES ASSUME exact PROVE FALSE
      OBVIOUS
    <3>2. n # 0 /\ o.end = s[n]
      BY <1>1, <1>2, <3>1 DEF Counted
    <3>3. QED
      BY <1>7, <3>2
  <2>5. QED
    BY <2>3, <2>4 DEF Represents
<1>8. QED
  BY <1>6, <1>7

\* Two links more.
LEMMA BothLinked ==
    ASSUME NEW m \in Lists, NEW a \in 0 .. Len(m.nodes), NEW b \in 0 .. Len(m.nodes),
           NEW x \in Nat, NEW y \in Nat,
           NEW r, r = Linked!SetPrevious(Linked!SetNext(m, a, x), b, y)
    PROVE  SameButLinks(r, m)
<1>1. PICK q : q = Linked!SetNext(m, a, x)
  OBVIOUS
<1>2. SameButLinks(q, m)
  BY <1>1, NextSet
<1>3. q \in Lists /\ b \in 0 .. Len(q.nodes)
  BY <1>2 DEF SameButLinks
<1>4. SameButLinks(r, q)
  BY <1>1, <1>3, PreviousSet
<1>5. QED
  BY <1>2, <1>4 DEF SameButLinks

\* append() adds the item to the items of an exact list.
LEMMA Appended ==
    ASSUME NEW o, NEW s, NEW items, NEW exact \in BOOLEAN, Represents(o, s, items, exact),
           NEW item \in Items
    PROVE  \E t : Represents(Linked!append(o, item), t, Append(items, item), exact)
<1>1. o \in Lists /\ Chain(o, s) /\ (exact => Counted(o, s, items))
  BY DEF Represents
<1>2. PICK counted : counted = [o EXCEPT !.size = o.size + 1]
  OBVIOUS
<1>3. /\ counted \in Lists /\ counted.nodes = o.nodes /\ counted.front = o.front
      /\ counted.end = o.end /\ counted.size = o.size + 1
  BY <1>1, <1>2 DEF Lists
<1>4. PICK made : made = Linked!Create(counted, item)
  OBVIOUS
<1>5. PICK lit : lit = Len(o.nodes) + 1
  OBVIOUS
<1>6. /\ made \in Lists /\ made.front = o.front /\ made.end = o.end
      /\ made.size = o.size + 1 /\ Len(made.nodes) = lit
      /\ \A i \in 1 .. Len(o.nodes) : made.nodes[i] = o.nodes[i]
      /\ made.nodes[lit] = [value |-> item, next |-> 0, previous |-> 0]
  <2>1. /\ made \in Lists /\ made.front = counted.front /\ made.end = counted.end
        /\ made.current = counted.current
        /\ made.size = counted.size /\ Len(made.nodes) = Len(counted.nodes) + 1
        /\ \A i \in 1 .. Len(counted.nodes) : made.nodes[i] = counted.nodes[i]
        /\ made.nodes[Len(counted.nodes) + 1] = [value |-> item, next |-> 0, previous |-> 0]
    BY ONLY <1>3, <1>4, Created, item \in Items
  <2>2. QED
    BY ONLY <1>3, <1>5, <2>1
<1>7. Len(o.nodes) \in Nat /\ lit \in Nat /\ lit # 0 /\ lit \in 0 .. lit
      /\ o.end \in 0 .. Len(o.nodes) /\ o.end \in 0 .. lit /\ o.end \in Nat /\ o.size \in Int
  <2>1. Len(o.nodes) \in Nat /\ o.end \in 0 .. Len(o.nodes) /\ o.size \in Int
    BY <1>1, ListFields DEF Chain
  <2>2. QED
    BY <1>5, <2>1
<1>8. PICK linked : linked = Linked!SetPrevious(Linked!SetNext(made, o.end, lit), lit, o.end)
  OBVIOUS
<1>9. linked \in Lists /\ linked.front = o.front /\ linked.size = o.size + 1
  <2>1. SameButLinks(linked, made)
    BY ONLY <1>6, <1>7, <1>8, BothLinked
  <2>2. QED
    BY ONLY <1>6, <2>1 DEF SameButLinks
<1>10. PICK q : q = Linked!append(o, item)
  OBVIOUS
<1>11. CASE o.front = 0
  <2>1. q = [[made EXCEPT !.front = lit] EXCEPT !.end = lit, !.current = lit]
    BY <1>2, <1>4, <1>6, <1>10, <1>11 DEF Linked!append, Linked!Null
  <2>2. /\ q.front = lit /\ q.end = lit /\ q.nodes = made.nodes /\ q.size = o.size + 1
        /\ q \in Lists
    BY ONLY <1>6, <1>7, <2>1 DEF Lists
  <2>3. Len(s) = 0
    <3>1. ASSUME Len(s) # 0 PROVE FALSE
      <4>1. Len(s) \in Nat /\ 1 \in 1 .. Len(s)
        BY <1>1, <3>1, ChainFacts
      <4>2. s[1] # 0
        BY <1>1, <4>1, ChainFacts
      <4>3. o.front = s[1]
        BY <1>1, <3>1 DEF Chain
      <4>4. QED
        BY <1>11, <4>2, <4>3
    <3>2. QED
      BY <3>1
  <2>4. PICK t : t = <<lit>>
    OBVIOUS
  <2>5. t \in Seq(1 .. lit) /\ Len(t) = 1 /\ t[1] = lit
    <3>1. lit \in 1 .. lit
      BY <1>7
    <3>2. QED
      BY <2>4, <3>1
  <2>6. q.nodes[lit].next = 0 /\ q.nodes[lit].previous = 0 /\ q.nodes[lit].value = item
        /\ Len(q.nodes) = lit
    BY ONLY <1>6, <2>2
  <2>7. Chain(q, t)
    <3>1. ASSUME NEW i \in 1 .. 1
          PROVE  /\ q.nodes[t[i]].next = IF i = 1 THEN 0 ELSE t[i + 1]
                 /\ q.nodes[t[i]].previous = IF i = 1 THEN 0 ELSE t[i - 1]
      <4>1. i = 1
        OBVIOUS
      <4>2. QED
        BY ONLY <2>5, <2>6, <4>1
    <3>2. QED
      BY ONLY <1>7, <2>2, <2>5, <2>6, <3>1 DEF Chain
  <2>8. ASSUME exact PROVE Counted(q, t, Append(items, item))
    <3>1. items \in Seq(Items) /\ Len(items) = 0 /\ o.size = 0
      BY <1>1, <2>3, <2>8 DEF Counted
    <3>2. PICK more : more = Append(items, item)
      OBVIOUS
    <3>3. more \in Seq(Items) /\ Len(more) = 1 /\ more[1] = item
      <4>1. /\ more \in Seq(Items) /\ Len(more) = Len(items) + 1
            /\ more[Len(items) + 1] = item
        BY ONLY <3>1, <3>2, AppendProperties, item \in Items
      <4>2. QED
        BY ONLY <3>1, <4>1
    <3>4. ASSUME NEW i \in 1 .. 1 PROVE q.nodes[t[i]].value = more[i]
      <4>1. i = 1
        OBVIOUS
      <4>2. QED
        BY ONLY <2>5, <2>6, <3>3, <4>1
    <3>5. QED
      BY ONLY <2>2, <2>5, <3>1, <3>2, <3>3, <3>4 DEF Counted
  <2>9. QED
    BY <1>10, <2>2, <2>7, <2>8 DEF Represents
<1>12. CASE o.front # 0
  <2>1. q = [linked EXCEPT !.end = lit, !.current = lit]
    BY <1>2, <1>4, <1>6, <1>8, <1>10, <1>12 DEF Linked!append, Linked!Null
  <2>2. /\ q.front = o.front /\ q.end = lit /\ q.nodes = linked.nodes
        /\ q.size = o.size + 1 /\ q \in Lists
    BY ONLY <1>7, <1>9, <2>1 DEF Lists
  <2>3. Len(s) # 0
    BY <1>1, <1>12 DEF Chain
  <2>4. q.nodes = Linked!SetPrevious(Linked!SetNext(made, o.end, lit), lit, o.end).nodes
    BY ONLY <1>8, <2>2
  <2>5. \E t : Represents(q, t, Append(items, item), exact)
    BY ONLY <1>5, <1>6, <2>2, <2>3, <2>4, LinkedBehind, Represents(o, s, items, exact),
            item \in Items, exact \in BOOLEAN
  <2>6. QED
    BY <1>10, <2>5
<1>13. QED
  BY <1>11, <1>12

\* insertAt() behind the last node links the item and does not count it.
LEMMA InsertedBehind ==
    ASSUME NEW o, NEW s, NEW items, NEW exact \in BOOLEAN, Represents(o, s, items, exact),
           NEW item \in Items, NEW index, Linked!setCursor(o, index) = 0
    PROVE  \E t : Represents(Linked!insertAt(o, index, item), t, <<>>, FALSE)
<1>1. o \in Lists /\ Chain(o, s)
  BY DEF Represents
<1>2. PICK made, lit : made = Linked!Create(o, item) /\ lit = Len(o.nodes) + 1
  OBVIOUS
<1>3. /\ made \in Lists /\ made.front = o.front /\ made.end = o.end
      /\ made.size = o.size /\ Len(made.nodes) = lit
      /\ \A i \in 1 .. Len(o.nodes) : made.nodes[i] = o.nodes[i]
      /\ made.nodes[lit] = [value |-> item, next |-> 0, previous |-> 0]
  BY ONLY <1>1, <1>2, Created, item \in Items
<1>4. Len(o.nodes) \in Nat /\ lit \in Nat /\ lit \in 0 .. lit
      /\ o.end \in 0 .. lit /\ o.end \in Nat
  <2>1. Len(o.nodes) \in Nat /\ o.end \in 0 .. Len(o.nodes)
    BY <1>1, ListFields DEF Chain
  <2>2. QED
    BY <1>2, <2>1
<1>5. PICK linked : linked = Linked!SetPrevious(Linked!SetNext(made, o.end, lit), lit, o.end)
  OBVIOUS
<1>6. linked \in Lists /\ linked.front = o.front
  <2>1. SameButLinks(linked, made)
    BY ONLY <1>3, <1>4, <1>5, BothLinked
  <2>2. QED
    BY ONLY <1>3, <2>1 DEF SameButLinks
<1>7. PICK q : q = Linked!insertAt(o, index, item)
  OBVIOUS
<1>8. q = [linked EXCEPT !.current = lit, !.end = lit]
  BY <1>2, <1>3, <1>5, <1>7 DEF Linked!insertAt, Linked!Null
<1>9. q.front = o.front /\ q.end = lit /\ q.nodes = linked.nodes /\ q \in Lists
  BY ONLY <1>4, <1>6, <1>8 DEF Lists
<1>10. q.nodes = Linked!SetPrevious(Linked!SetNext(made, o.end, lit), lit, o.end).nodes
  BY ONLY <1>5, <1>9
<1>11. PICK no : no = FALSE
  OBVIOUS
<1>12. Represents(o, s, items, no) /\ no \in BOOLEAN /\ (no => q.size = o.size + 1 /\ Len(s) # 0)
  BY <1>1, <1>11 DEF Represents
<1>13. \E t : Represents(q, t, Append(items, item), no)
  BY ONLY <1>2, <1>3, <1>9, <1>10, <1>12, LinkedBehind, item \in Items
<1>14. QED
  BY <1>7, <1>11, <1>13 DEF Represents

\* The four assignments of insertAt() between p and at.
LinkBetween(m, lit, p, at) ==
    Linked!SetPrevious(Linked!SetNext(Linked!SetNext(
        Linked!SetPrevious(m, lit, p), p, lit), lit, at), at, lit)

\* A node linked between two of the chain.
LEMMA LinkedBetween ==
    ASSUME NEW m \in Lists, NEW lit \in 1 .. Len(m.nodes), NEW at \in 1 .. Len(m.nodes),
           NEW p \in 0 .. Len(m.nodes), p # lit, at # lit,
           NEW r, r = LinkBetween(m, lit, p, at)
    PROVE  /\ SameButLinks(r, m)
           /\ \A i \in 1 .. Len(m.nodes) :
                 /\ r.nodes[i].next = IF i = lit THEN at ELSE IF i = p THEN lit
                                      ELSE m.nodes[i].next
                 /\ r.nodes[i].previous = IF i = at THEN lit ELSE IF i = lit THEN p
                                          ELSE m.nodes[i].previous
<1>1. PICK r1, r2, r3 : /\ r1 = Linked!SetPrevious(m, lit, p)
                        /\ r2 = Linked!SetNext(r1, p, lit)
                        /\ r3 = Linked!SetNext(r2, lit, at)
                        /\ r = Linked!SetPrevious(r3, at, lit)
  BY DEF LinkBetween
<1>2. Len(m.nodes) \in Nat
  BY ListFields
<1>3. /\ lit \in 0 .. Len(m.nodes) /\ at \in 0 .. Len(m.nodes) /\ p \in 0 .. Len(m.nodes)
      /\ lit \in Nat /\ at \in Nat /\ p \in Nat
  BY <1>2
<1>4. /\ SameButLinks(r1, m)
      /\ \A i \in 1 .. Len(m.nodes) :
            /\ r1.nodes[i].previous = IF i = lit THEN p ELSE m.nodes[i].previous
            /\ r1.nodes[i].next = m.nodes[i].next
  BY ONLY <1>1, <1>3, PreviousSet, m \in Lists
<1>5. r1 \in Lists /\ Len(r1.nodes) = Len(m.nodes) /\ p \in 0 .. Len(r1.nodes)
  BY <1>3, <1>4 DEF SameButLinks
<1>6. /\ SameButLinks(r2, r1)
      /\ \A i \in 1 .. Len(r1.nodes) :
            /\ r2.nodes[i].next = IF i = p THEN lit ELSE r1.nodes[i].next
            /\ r2.nodes[i].previous = r1.nodes[i].previous
  BY ONLY <1>1, <1>3, <1>5, NextSet
<1>7. r2 \in Lists /\ Len(r2.nodes) = Len(m.nodes) /\ lit \in 0 .. Len(r2.nodes)
  BY <1>3, <1>5, <1>6 DEF SameButLinks
<1>8. /\ SameButLinks(r3, r2)
      /\ \A i \in 1 .. Len(r2.nodes) :
            /\ r3.nodes[i].next = IF i = lit THEN at ELSE r2.nodes[i].next
            /\ r3.nodes[i].previous = r2.nodes[i].previous
  BY ONLY <1>1, <1>3, <1>7, NextSet
<1>9. r3 \in Lists /\ Len(r3.nodes) = Len(m.nodes) /\ at \in 0 .. Len(r3.nodes)
  BY <1>3, <1>7, <1>8 DEF SameButLinks
<1>10. /\ SameButLinks(r, r3)
       /\ \A i \in 1 .. Len(r3.nodes) :
             /\ r.nodes[i].previous = IF i = at THEN lit ELSE r3.nodes[i].previous
             /\ r.nodes[i].next = r3.nodes[i].next
  BY ONLY <1>1, <1>3, <1>9, PreviousSet
<1>11. SameButLinks(r, m)
  BY ONLY <1>4, <1>6, <1>8, <1>10 DEF SameButLinks
<1>12. ASSUME NEW i \in 1 .. Len(m.nodes)
       PROVE  /\ r.nodes[i].next = IF i = lit THEN at ELSE IF i = p THEN lit
                                   ELSE m.nodes[i].next
              /\ r.nodes[i].previous = IF i = at THEN lit ELSE IF i = lit THEN p
                                       ELSE m.nodes[i].previous
  BY ONLY <1>4, <1>5, <1>6, <1>7, <1>8, <1>9, <1>10, i \in 1 .. Len(m.nodes)
<1>13. QED
  BY <1>11, <1>12

\* insertAt() before a node puts the item there.
LEMMA InsertedBetween ==
    ASSUME NEW o, NEW s, NEW items, NEW exact \in BOOLEAN, Represents(o, s, items, exact),
           NEW item \in Items, NEW k \in 1 .. Len(s), NEW index, Linked!setCursor(o, index) = s[k]
    PROVE  \E t : Represents(Linked!insertAt(o, index, item), t,
                             Linked!InsertAt(items, k, item), exact)
<1>1. o \in Lists /\ Chain(o, s) /\ (exact => Counted(o, s, items))
  BY DEF Represents
<1>2. PICK n, many, at, lit : /\ n = Len(s) /\ many = Len(o.nodes)
                              /\ at = s[k] /\ lit = Len(o.nodes) + 1
  OBVIOUS
<1>3. PICK p : p = o.nodes[at].previous
  OBVIOUS
<1>4. /\ n \in Nat /\ many \in Nat /\ k \in 1 .. n /\ lit = many + 1 /\ lit \in Nat
      /\ o.end \in 0 .. many /\ o.end # lit /\ at \in 1 .. many /\ o.size \in Int
      /\ \A i \in 1 .. n : s[i] \in 1 .. many /\ s[i] # lit
  <2>1. n \in Nat /\ many \in Nat /\ (\A i \in 1 .. n : s[i] \in 1 .. many) /\ o.size \in Int
    BY <1>1, <1>2, ChainFacts, ListFields
  <2>2. o.end \in 0 .. many
    BY <1>1, <1>2 DEF Chain
  <2>3. lit = many + 1 /\ k \in 1 .. n /\ at = s[k]
    BY <1>2
  <2>4. QED
    BY ONLY <2>1, <2>2, <2>3
<1>5. /\ \A i, j \in 1 .. n : s[i] = s[j] => i = j
      /\ o.front = IF n = 0 THEN 0 ELSE s[1]
      /\ \A i \in 1 .. n : /\ o.nodes[s[i]].next = IF i = n THEN 0 ELSE s[i + 1]
                           /\ o.nodes[s[i]].previous = IF i = 1 THEN 0 ELSE s[i - 1]
      /\ \A i \in 1 .. n : o.end = s[i] => i = n
  BY <1>1, <1>2 DEF Chain
<1>6. p = IF k = 1 THEN 0 ELSE s[k - 1]
  BY <1>2, <1>3, <1>4, <1>5
<1>7. p \in 0 .. many
  <2>1. k # 1 => k - 1 \in 1 .. n
    BY <1>4
  <2>2. QED
    BY ONLY <1>4, <1>6, <2>1
<1>8. PICK made : made = Linked!Create(o, item)
  OBVIOUS
<1>9. /\ made \in Lists /\ made.front = o.front /\ made.end = o.end
      /\ made.size = o.size /\ Len(made.nodes) = lit
      /\ \A i \in 1 .. many : made.nodes[i] = o.nodes[i]
      /\ made.nodes[lit] = [value |-> item, next |-> 0, previous |-> 0]
  BY ONLY <1>1, <1>2, <1>8, Created, item \in Items
<1>10. PICK between : between = LinkBetween(made, lit, p, at)
  OBVIOUS
<1>11. /\ SameButLinks(between, made)
       /\ \A i \in 1 .. lit :
             /\ between.nodes[i].next = IF i = lit THEN at ELSE IF i = p THEN lit
                                        ELSE made.nodes[i].next
             /\ between.nodes[i].previous = IF i = at THEN lit ELSE IF i = lit THEN p
                                            ELSE made.nodes[i].previous
  <2>1. lit \in 1 .. lit /\ at \in 1 .. lit /\ p \in 0 .. lit /\ p # lit /\ at # lit
    BY ONLY <1>4, <1>7
  <2>2. made \in Lists /\ Len(made.nodes) = lit
    BY <1>9
  <2>3. lit \in 1 .. Len(made.nodes) /\ at \in 1 .. Len(made.nodes) /\ p \in 0 .. Len(made.nodes)
    BY ONLY <2>1, <2>2
  <2>4. /\ SameButLinks(between, made)
        /\ \A i \in 1 .. Len(made.nodes) :
              /\ between.nodes[i].next = IF i = lit THEN at ELSE IF i = p THEN lit
                                         ELSE made.nodes[i].next
              /\ between.nodes[i].previous = IF i = at THEN lit ELSE IF i = lit THEN p
                                             ELSE made.nodes[i].previous
    BY ONLY <1>10, <2>1, <2>2, <2>3, LinkedBetween
  <2>5. QED
    BY ONLY <2>2, <2>4
<1>12. PICK q : q = Linked!insertAt(o, index, item)
  OBVIOUS
<1>13. q = [between EXCEPT !.front = IF at = o.front THEN lit ELSE between.front,
                           !.current = lit, !.size = between.size + 1]
  <2>1. at # 0
    BY <1>4
  <2>2. Linked!setCursor(o, index) = at
    BY <1>2
  <2>3. between \in Lists
    BY <1>11 DEF SameButLinks
  <2>4. QED
    BY <1>3, <1>8, <1>9, <1>10, <1>12, <2>1, <2>2, <2>3
       DEF LinkBetween, Linked!insertAt, Linked!Null, Linked!Node, Lists
<1>14. /\ q.front = (IF at = o.front THEN lit ELSE o.front) /\ q.end = o.end
       /\ q.nodes = between.nodes /\ q.size = o.size + 1 /\ q \in Lists /\ Len(q.nodes) = lit
  <2>1. /\ between \in Lists /\ between.front = o.front /\ between.end = o.end
        /\ between.size = o.size /\ Len(between.nodes) = lit
    BY ONLY <1>9, <1>11 DEF SameButLinks
  <2>2. lit \in Nat /\ o.size \in Int
    BY <1>4
  <2>3. PICK first : first = IF at = o.front THEN lit ELSE between.front
    OBVIOUS
  <2>4. first \in Nat
    BY ONLY <2>1, <2>2, <2>3 DEF Lists
  <2>5. PICK count : count = o.size + 1
    OBVIOUS
  <2>6. count \in Int
    BY ONLY <2>2, <2>5
  <2>7. q = [between EXCEPT !.front = first, !.current = lit, !.size = count]
    BY ONLY <1>13, <2>1, <2>3, <2>5
  <2>8. between \in Lists
    BY <2>1
  <2>9. /\ q.front = first /\ q.end = between.end /\ q.nodes = between.nodes
        /\ q.size = count /\ q \in Lists
    BY ONLY <2>2, <2>4, <2>6, <2>7, <2>8 DEF Lists
  <2>10. QED
    BY ONLY <2>1, <2>3, <2>5, <2>9
<1>15. ASSUME NEW i \in 1 .. n
       PROVE  /\ q.nodes[s[i]].value = o.nodes[s[i]].value
              /\ q.nodes[s[i]].next = IF i = k - 1 THEN lit ELSE IF i = n THEN 0 ELSE s[i + 1]
              /\ q.nodes[s[i]].previous = IF i = k THEN lit ELSE IF i = 1 THEN 0 ELSE s[i - 1]
  <2>1. PICK x : x = s[i]
    OBVIOUS
  <2>2. x \in 1 .. many /\ x \in 1 .. lit /\ x # lit
    BY ONLY <1>4, <2>1, i \in 1 .. n
  <2>3. /\ q.nodes[x].next = IF x = p THEN lit ELSE o.nodes[x].next
        /\ q.nodes[x].previous = IF x = at THEN lit ELSE o.nodes[x].previous
    BY ONLY <1>9, <1>11, <1>14, <2>2
  <2>4. q.nodes[x].value = o.nodes[x].value
    BY ONLY <1>9, <1>11, <1>14, <2>2 DEF SameButLinks
  <2>5. /\ o.nodes[x].next = IF i = n THEN 0 ELSE s[i + 1]
        /\ o.nodes[x].previous = IF i = 1 THEN 0 ELSE s[i - 1]
    BY ONLY <1>5, <2>1, i \in 1 .. n
  <2>6. x = at <=> i = k
    BY ONLY <1>2, <1>4, <1>5, <2>1, i \in 1 .. n
  <2>7. x = p <=> i = k - 1
    <3>1. CASE k = 1
      <4>1. x # 0 /\ i # k - 1
        BY ONLY <1>4, <2>2, <3>1, i \in 1 .. n
      <4>2. QED
        BY ONLY <1>6, <3>1, <4>1
    <3>2. CASE k # 1
      <4>1. PICK j : j = k - 1
        OBVIOUS
      <4>2. j \in 1 .. n
        BY ONLY <1>4, <3>2, <4>1
      <4>3. p = s[j]
        BY ONLY <1>6, <3>2, <4>1
      <4>4. QED
        BY ONLY <1>5, <2>1, <4>1, <4>2, <4>3, i \in 1 .. n
    <3>3. QED
      BY <3>1, <3>2
  <2>8. QED
    BY ONLY <2>1, <2>3, <2>4, <2>5, <2>6, <2>7, Zenon
<1>16. q.nodes[lit].next = at /\ q.nodes[lit].previous = p /\ q.nodes[lit].value = item
  <2>1. lit \in 1 .. lit /\ lit # at
    BY ONLY <1>4
  <2>2. q.nodes[lit].next = at /\ q.nodes[lit].previous = p
    BY ONLY <1>11, <1>14, <2>1
  <2>3. q.nodes[lit].value = item
    BY ONLY <1>9, <1>11, <1>14, <2>1 DEF SameButLinks
  <2>4. QED
    BY <2>2, <2>3
<1>17. PICK t : t = Linked!InsertAt(s, k, lit)
  OBVIOUS
<1>18. /\ t \in Seq(1 .. lit) /\ Len(t) = n + 1
       /\ \A j \in 1 .. n + 1 : t[j] = IF j < k THEN s[j] ELSE IF j = k THEN lit ELSE s[j - 1]
  <2>1. PICK S : S = 1 .. lit
    OBVIOUS
  <2>2. s \in Seq(S)
    <3>1. 1 .. many \subseteq S
      BY <1>4, <2>1
    <3>2. s \in Seq(1 .. many)
      BY <1>1, <1>2 DEF Chain
    <3>3. QED
      BY <3>1, <3>2, SeqMonotonic
  <2>3. k \in 1 .. Len(s) + 1 /\ lit \in S
    BY ONLY <1>2, <1>4, <2>1
  <2>4. /\ t \in Seq(S) /\ Len(t) = Len(s) + 1
        /\ \A j \in 1 .. Len(t) : t[j] = IF j < k THEN s[j] ELSE IF j = k THEN lit ELSE s[j - 1]
    BY ONLY <1>17, <2>2, <2>3, Inserted
  <2>5. QED
    BY ONLY <1>2, <2>1, <2>4
<1>19. t \in Seq(1 .. lit) /\ Len(t) = n + 1
  BY <1>18
<1>20. /\ \A j \in 1 .. k - 1 : t[j] = s[j]
       /\ t[k] = lit
       /\ \A j \in k .. n : t[j + 1] = s[j]
  <2>1. \A j \in 1 .. n + 1 : t[j] = IF j < k THEN s[j] ELSE IF j = k THEN lit ELSE s[j - 1]
    BY <1>18
  <2>2. ASSUME NEW j \in 1 .. k - 1 PROVE t[j] = s[j]
    <3>1. j \in 1 .. n + 1 /\ j < k
      BY ONLY <1>4, j \in 1 .. k - 1
    <3>2. QED
      BY ONLY <2>1, <3>1
  <2>3. k \in 1 .. n + 1 /\ ~ (k < k)
    BY ONLY <1>4
  <2>4. ASSUME NEW j \in k .. n PROVE t[j + 1] = s[j]
    <3>1. j + 1 \in 1 .. n + 1 /\ ~ (j + 1 < k) /\ j + 1 # k /\ (j + 1) - 1 = j
      BY ONLY <1>4, j \in k .. n
    <3>2. t[j + 1] = s[(j + 1) - 1]
      BY ONLY <2>1, <3>1
    <3>3. QED
      BY ONLY <3>1, <3>2
  <2>5. QED
    BY ONLY <2>1, <2>2, <2>3, <2>4
<1>21. \A j \in 1 .. n + 1 : j \in 1 .. k - 1 \/ j = k \/ \E i \in k .. n : j = i + 1
  <2>1. ASSUME NEW j \in 1 .. n + 1, ~ (j \in 1 .. k - 1), j # k
        PROVE  \E i \in k .. n : j = i + 1
    <3>1. j - 1 \in k .. n /\ j = (j - 1) + 1
      BY ONLY <1>4, <2>1
    <3>2. QED
      BY ONLY <3>1
  <2>2. QED
    BY <2>1
<1>22. Chain(q, t)
  <2>1. ASSUME NEW i \in 1 .. n + 1, NEW j \in 1 .. n + 1, t[i] = t[j] PROVE i = j
    <3>1. ASSUME NEW h \in 1 .. n + 1, h # k
          PROVE  \E x \in 1 .. n : t[h] = s[x] /\ h = IF x < k THEN x ELSE x + 1
      <4>1. CASE h \in 1 .. k - 1
        <5>1. h \in 1 .. n /\ h < k /\ t[h] = s[h]
          BY ONLY <1>4, <1>20, <4>1
        <5>2. QED
          BY ONLY <5>1
      <4>2. ASSUME NEW x \in k .. n, h = x + 1
            PROVE  \E y \in 1 .. n : t[h] = s[y] /\ h = IF y < k THEN y ELSE y + 1
        <5>1. x \in 1 .. n /\ ~ (x < k) /\ t[h] = s[x]
          BY ONLY <1>4, <1>20, <4>2
        <5>2. QED
          BY ONLY <4>2, <5>1
      <4>3. QED
        BY <1>21, <3>1, <4>1, <4>2
    <3>2. \A x \in 1 .. n : s[x] # lit
      BY ONLY <1>4
    <3>3. CASE i = k \/ j = k
      BY ONLY <1>20, <2>1, <3>1, <3>2, <3>3
    <3>4. CASE i # k /\ j # k
      <4>1. PICK x \in 1 .. n : t[i] = s[x] /\ i = IF x < k THEN x ELSE x + 1
        BY <3>1, <3>4
      <4>2. PICK y \in 1 .. n : t[j] = s[y] /\ j = IF y < k THEN y ELSE y + 1
        BY <3>1, <3>4
      <4>3. s[x] = s[y]
        BY ONLY <2>1, <4>1, <4>2, Zenon
      <4>4. \A g, h \in 1 .. n : s[g] = s[h] => g = h
        BY ONLY <1>5, Zenon
      <4>5. x = y
        BY ONLY <4>3, <4>4, x \in 1 .. n, y \in 1 .. n, Zenon
      <4>6. QED
        BY ONLY <4>1, <4>2, <4>5, Zenon
    <3>5. QED
      BY <3>3, <3>4
  <2>2. q.front = t[1]
    <3>1. CASE k = 1
      BY ONLY <1>2, <1>4, <1>5, <1>14, <1>20, <3>1
    <3>2. CASE k # 1
      <4>1. 1 \in 1 .. k - 1 /\ 1 \in 1 .. n /\ n # 0
        BY ONLY <1>4, <3>2
      <4>2. at # s[1]
        BY ONLY <1>2, <1>4, <1>5, <3>2, <4>1
      <4>3. QED
        BY ONLY <1>5, <1>14, <1>20, <4>1, <4>2
    <3>3. QED
      BY <3>1, <3>2
  <2>3. ASSUME NEW j \in 1 .. n + 1
        PROVE  /\ q.nodes[t[j]].next = IF j = n + 1 THEN 0 ELSE t[j + 1]
               /\ q.nodes[t[j]].previous = IF j = 1 THEN 0 ELSE t[j - 1]
    <3>1. CASE j \in 1 .. k - 1
      <4>1. j \in 1 .. n /\ j # n /\ j # n + 1 /\ j # k /\ t[j] = s[j]
        BY ONLY <1>4, <1>20, <3>1
      <4>2. /\ q.nodes[s[j]].next = IF j = k - 1 THEN lit ELSE s[j + 1]
            /\ q.nodes[s[j]].previous = IF j = 1 THEN 0 ELSE s[j - 1]
        BY ONLY <1>15, <4>1
      <4>3. j = k - 1 => j + 1 = k
        BY ONLY <1>4, <3>1
      <4>4. j # k - 1 => j + 1 \in 1 .. k - 1
        BY ONLY <1>4, <3>1
      <4>5. j # 1 => j - 1 \in 1 .. k - 1
        BY ONLY <1>4, <3>1
      <4>6. q.nodes[s[j]].next = t[j + 1]
        BY ONLY <1>20, <4>2, <4>3, <4>4
      <4>7. q.nodes[s[j]].previous = IF j = 1 THEN 0 ELSE t[j - 1]
        BY ONLY <1>20, <4>2, <4>5
      <4>8. QED
        BY ONLY <4>1, <4>6, <4>7
    <3>2. CASE j = k
      <4>1. k \in k .. n /\ k # n + 1
        BY ONLY <1>4
      <4>2. t[k + 1] = at
        BY ONLY <1>2, <1>20, <4>1
      <4>3. k # 1 => k - 1 \in 1 .. k - 1
        BY ONLY <1>4
      <4>4. p = IF k = 1 THEN 0 ELSE t[k - 1]
        BY ONLY <1>6, <1>20, <4>3
      <4>5. QED
        BY ONLY <1>16, <1>20, <3>2, <4>1, <4>2, <4>4
    <3>3. ASSUME NEW i \in k .. n, j = i + 1
          PROVE  /\ q.nodes[t[j]].next = IF j = n + 1 THEN 0 ELSE t[j + 1]
                 /\ q.nodes[t[j]].previous = IF j = 1 THEN 0 ELSE t[j - 1]
      <4>1. /\ i \in 1 .. n /\ i # k - 1 /\ j # 1 /\ j - 1 = i /\ (i = n <=> j = n + 1)
            /\ (i # n => i + 1 \in k .. n) /\ (i # k => i - 1 \in k .. n /\ (i - 1) + 1 = i)
            /\ (i # k => i # 1)
        BY ONLY <1>4, <3>3
      <4>2. t[j] = s[i]
        BY ONLY <1>20, <3>3
      <4>3. /\ q.nodes[s[i]].next = IF i = n THEN 0 ELSE s[i + 1]
            /\ q.nodes[s[i]].previous = IF i = k THEN lit ELSE IF i = 1 THEN 0 ELSE s[i - 1]
        BY ONLY <1>15, <4>1
      <4>4. i # n => t[j + 1] = s[i + 1]
        BY ONLY <1>20, <3>3, <4>1
      <4>5. i # k => t[j - 1] = s[i - 1]
        <5>1. SUFFICES ASSUME i # k PROVE t[j - 1] = s[i - 1]
          OBVIOUS
        <5>2. PICK h : h = i - 1
          OBVIOUS
        <5>3. h \in k .. n /\ h + 1 = i
          BY ONLY <4>1, <5>1, <5>2
        <5>4. t[h + 1] = s[h]
          BY ONLY <1>20, <5>3
        <5>5. QED
          BY ONLY <4>1, <5>2, <5>3, <5>4
      <4>6. i = k => t[j - 1] = lit
        BY ONLY <1>20, <4>1
      <4>7. q.nodes[t[j]].next = IF j = n + 1 THEN 0 ELSE t[j + 1]
        BY ONLY <4>1, <4>2, <4>3, <4>4
      <4>8. q.nodes[t[j]].previous = IF j = 1 THEN 0 ELSE t[j - 1]
        BY ONLY <4>1, <4>2, <4>3, <4>5, <4>6
      <4>9. QED
        BY ONLY <4>7, <4>8
    <3>4. QED
      BY <1>21, <3>1, <3>2, <3>3
  <2>4. ASSUME NEW j \in 1 .. n + 1, q.end = t[j] PROVE j = n + 1
    <3>1. CASE j \in 1 .. k - 1
      <4>1. j \in 1 .. n /\ j # n /\ t[j] = s[j]
        BY ONLY <1>4, <1>20, <3>1
      <4>2. QED
        BY ONLY <1>5, <1>14, <2>4, <4>1
    <3>2. CASE j = k
      BY ONLY <1>4, <1>14, <1>20, <2>4, <3>2
    <3>3. ASSUME NEW i \in k .. n, j = i + 1 PROVE j = n + 1
      <4>1. i \in 1 .. n /\ t[j] = s[i]
        BY ONLY <1>4, <1>20, <3>3
      <4>2. i = n
        BY ONLY <1>5, <1>14, <2>4, <4>1
      <4>3. QED
        BY <3>3, <4>2
    <3>4. QED
      BY <1>21, <3>1, <3>2, <3>3
  <2>5. q.end \in 0 .. lit /\ n + 1 # 0
    BY ONLY <1>4, <1>14
  <2>6. QED
    BY ONLY <1>14, <1>19, <2>1, <2>2, <2>3, <2>4, <2>5 DEF Chain
<1>23. ASSUME exact PROVE Counted(q, t, Linked!InsertAt(items, k, item))
  <2>1. items \in Seq(Items) /\ Len(items) = n /\ o.size = n /\ o.end = s[n]
        /\ \A i \in 1 .. n : o.nodes[s[i]].value = items[i]
    <3>1. n # 0
      BY ONLY <1>4
    <3>2. QED
      BY <1>1, <1>2, <1>23, <3>1 DEF Counted
  <2>2. PICK more : more = Linked!InsertAt(items, k, item)
    OBVIOUS
  <2>3. /\ more \in Seq(Items) /\ Len(more) = n + 1
        /\ \A j \in 1 .. n + 1 : more[j] = IF j < k THEN items[j]
                                           ELSE IF j = k THEN item ELSE items[j - 1]
    <3>1. k \in 1 .. Len(items) + 1 /\ items \in Seq(Items)
      BY ONLY <1>4, <2>1
    <3>2. /\ more \in Seq(Items) /\ Len(more) = Len(items) + 1
          /\ \A j \in 1 .. Len(more) : more[j] = IF j < k THEN items[j]
                                             ELSE IF j = k THEN item ELSE items[j - 1]
      BY ONLY <2>2, <3>1, Inserted, item \in Items, SMTT(30)
    <3>3. Len(more) = n + 1
      BY ONLY <2>1, <3>2
    <3>4. QED
      BY ONLY <3>2, <3>3, Zenon
  <2>4. ASSUME NEW j \in 1 .. n + 1 PROVE q.nodes[t[j]].value = more[j]
    <3>1. CASE j \in 1 .. k - 1
      <4>1. j \in 1 .. n /\ j < k /\ t[j] = s[j]
        BY ONLY <1>4, <1>20, <3>1
      <4>2. more[j] = items[j]
        BY ONLY <2>3, <4>1, j \in 1 .. n + 1
      <4>3. q.nodes[s[j]].value = o.nodes[s[j]].value /\ o.nodes[s[j]].value = items[j]
        BY ONLY <1>15, <2>1, <4>1
      <4>4. QED
        BY ONLY <4>1, <4>2, <4>3, Zenon
    <3>2. CASE j = k
      <4>1. ~ (j < k)
        BY ONLY <1>4, <3>2
      <4>2. QED
        BY ONLY <1>16, <1>20, <2>3, <3>2, <4>1, j \in 1 .. n + 1
    <3>3. ASSUME NEW i \in k .. n, j = i + 1 PROVE q.nodes[t[j]].value = more[j]
      <4>1. i \in 1 .. n /\ t[j] = s[i] /\ ~ (j < k) /\ j # k /\ j - 1 = i
        BY ONLY <1>4, <1>20, <3>3
      <4>2. more[j] = items[j - 1]
        BY ONLY <2>3, <4>1, j \in 1 .. n + 1
      <4>3. q.nodes[s[i]].value = o.nodes[s[i]].value
        BY ONLY <1>15, <4>1
      <4>4. o.nodes[s[i]].value = items[i]
        BY ONLY <2>1, <4>1
      <4>5. QED
        BY ONLY <4>1, <4>2, <4>3, <4>4, Zenon
    <3>4. QED
      BY ONLY <1>21, <3>1, <3>2, <3>3, j \in 1 .. n + 1
  <2>5. q.size = n + 1
    BY ONLY <1>14, <2>1
  <2>6. q.end = t[n + 1]
    <3>1. n \in k .. n
      BY ONLY <1>4
    <3>2. QED
      BY ONLY <1>14, <1>20, <2>1, <3>1
  <2>7. more \in Seq(Items) /\ Len(more) = n + 1
    BY <2>3
  <2>8. QED
    BY ONLY <1>19, <2>2, <2>4, <2>5, <2>6, <2>7 DEF Counted
<1>24. QED
  BY <1>12, <1>14, <1>22, <1>23 DEF Represents

\* A node of the chain unlinked: the others stay linked, and the list is exact if
\* _end is on the last of them.
LEMMA UnlinkedNode ==
    ASSUME NEW o, NEW s, NEW items, NEW exact \in BOOLEAN, Represents(o, s, items, exact),
           NEW k \in 1 .. Len(s), NEW q \in Lists, NEW kept \in BOOLEAN,
           q.nodes = Linked!Unlink(o, s[k]).nodes,
           q.front = IF k = 1 THEN o.nodes[s[k]].next ELSE o.front,
           q.size = o.size - 1,
           q.end = o.end \/ (o.end = s[k] /\ q.end = o.nodes[s[k]].previous),
           kept => exact /\ (Len(s) = 1 \/ k < Len(s) \/ q.end = o.nodes[s[k]].previous)
    PROVE  Represents(q, Linked!RemoveAt(s, k), Linked!RemoveAt(items, k), kept)
<1>1. o \in Lists /\ Chain(o, s) /\ (exact => Counted(o, s, items))
  BY DEF Represents
<1>2. PICK n, many, at : n = Len(s) /\ many = Len(o.nodes) /\ at = s[k]
  OBVIOUS
<1>3. PICK p, a : p = o.nodes[at].previous /\ a = o.nodes[at].next
  OBVIOUS
<1>4. /\ n \in Nat /\ many \in Nat /\ k \in 1 .. n /\ o.end \in 0 .. many /\ at \in 1 .. many
      /\ o.size \in Int /\ \A i \in 1 .. n : s[i] \in 1 .. many
  <2>1. n \in Nat /\ many \in Nat /\ (\A i \in 1 .. n : s[i] \in 1 .. many) /\ o.size \in Int
    BY <1>1, <1>2, ChainFacts, ListFields
  <2>2. o.end \in 0 .. many
    BY <1>1, <1>2 DEF Chain
  <2>3. k \in 1 .. n /\ at = s[k]
    BY <1>2
  <2>4. QED
    BY ONLY <2>1, <2>2, <2>3
<1>5. /\ \A i, j \in 1 .. n : s[i] = s[j] => i = j
      /\ o.front = IF n = 0 THEN 0 ELSE s[1]
      /\ \A i \in 1 .. n : /\ o.nodes[s[i]].next = IF i = n THEN 0 ELSE s[i + 1]
                           /\ o.nodes[s[i]].previous = IF i = 1 THEN 0 ELSE s[i - 1]
      /\ \A i \in 1 .. n : o.end = s[i] => i = n
  BY <1>1, <1>2 DEF Chain
<1>6. p = (IF k = 1 THEN 0 ELSE s[k - 1]) /\ a = (IF k = n THEN 0 ELSE s[k + 1])
  BY ONLY <1>2, <1>3, <1>4, <1>5
<1>7. p \in 0 .. many /\ a \in 0 .. many
  <2>1. (k # 1 => k - 1 \in 1 .. n) /\ (k # n => k + 1 \in 1 .. n)
    BY ONLY <1>4
  <2>2. QED
    BY ONLY <1>4, <1>6, <2>1
<1>8. \A i, j \in 1 .. n : s[i] = s[j] => i = j
  BY ONLY <1>5, Zenon
<1>9. /\ Len(q.nodes) = many
      /\ \A i \in 1 .. many : /\ q.nodes[i].value = o.nodes[i].value
                              /\ q.nodes[i].next = IF i = p THEN a ELSE o.nodes[i].next
                              /\ q.nodes[i].previous = IF i = a THEN p ELSE o.nodes[i].previous
  <2>1. PICK r1, r2 : r1 = Linked!SetPrevious(o, a, p) /\ r2 = Linked!SetNext(r1, p, a)
    OBVIOUS
  <2>2. a \in 0 .. Len(o.nodes) /\ p \in 0 .. Len(o.nodes) /\ a \in Nat /\ p \in Nat
    BY ONLY <1>2, <1>4, <1>7
  <2>3. /\ SameButLinks(r1, o)
        /\ \A i \in 1 .. Len(o.nodes) :
              /\ r1.nodes[i].previous = IF i = a THEN p ELSE o.nodes[i].previous
              /\ r1.nodes[i].next = o.nodes[i].next
    <3>1. o \in Lists /\ r1 = Linked!SetPrevious(o, a, p)
      BY <1>1, <2>1
    <3>2. QED
      BY ONLY <2>2, <3>1, PreviousSet
  <2>4. r1 \in Lists /\ p \in 0 .. Len(r1.nodes) /\ Len(r1.nodes) = Len(o.nodes)
    BY ONLY <2>2, <2>3 DEF SameButLinks
  <2>5. /\ SameButLinks(r2, r1)
        /\ \A i \in 1 .. Len(r1.nodes) :
              /\ r2.nodes[i].next = IF i = p THEN a ELSE r1.nodes[i].next
              /\ r2.nodes[i].previous = r1.nodes[i].previous
    <3>1. r1 \in Lists /\ p \in 0 .. Len(r1.nodes) /\ a \in Nat /\ r2 = Linked!SetNext(r1, p, a)
      BY ONLY <2>1, <2>2, <2>4
    <3>2. QED
      BY ONLY <3>1, NextSet
  <2>6. q.nodes = r2.nodes
    <3>1. r2 \in Lists
      BY <2>5 DEF SameButLinks
    <3>2. PICK r : r = Linked!Unlink(o, at)
      OBVIOUS
    <3>3. r = [r2 EXCEPT !.front = IF p = 0 THEN a ELSE r2.front, !.size = r2.size - 1]
      BY ONLY <1>3, <2>1, <3>1, <3>2 DEF Linked!Unlink, Linked!Node, Linked!Null, Lists
    <3>4. r.nodes = r2.nodes
      BY ONLY <3>1, <3>3 DEF Lists
    <3>5. QED
      BY <1>2, <3>2, <3>4
  <2>7. Len(r2.nodes) = many
    BY ONLY <1>2, <2>4, <2>5 DEF SameButLinks
  <2>8. ASSUME NEW i \in 1 .. many
        PROVE  /\ r2.nodes[i].value = o.nodes[i].value
               /\ r2.nodes[i].next = IF i = p THEN a ELSE o.nodes[i].next
               /\ r2.nodes[i].previous = IF i = a THEN p ELSE o.nodes[i].previous
    <3>1. r2.nodes[i].value = o.nodes[i].value
      BY ONLY <1>2, <2>3, <2>4, <2>5, i \in 1 .. many DEF SameButLinks
    <3>2. QED
      BY ONLY <1>2, <2>3, <2>4, <2>5, <3>1, i \in 1 .. many
  <2>9. QED
    BY ONLY <2>6, <2>7, <2>8
<1>10. ASSUME NEW i \in 1 .. n, i # k
       PROVE  /\ q.nodes[s[i]].value = o.nodes[s[i]].value
              /\ q.nodes[s[i]].next = IF i = k - 1 THEN a ELSE IF i = n THEN 0 ELSE s[i + 1]
              /\ q.nodes[s[i]].previous = IF i = k + 1 THEN p ELSE IF i = 1 THEN 0 ELSE s[i - 1]
  <2>1. PICK x : x = s[i]
    OBVIOUS
  <2>2. x \in 1 .. many /\ x # 0
    BY ONLY <1>4, <2>1, i \in 1 .. n
  <2>3. /\ q.nodes[x].value = o.nodes[x].value
        /\ q.nodes[x].next = IF x = p THEN a ELSE o.nodes[x].next
        /\ q.nodes[x].previous = IF x = a THEN p ELSE o.nodes[x].previous
    BY ONLY <1>9, <2>2
  <2>4. /\ o.nodes[x].next = IF i = n THEN 0 ELSE s[i + 1]
        /\ o.nodes[x].previous = IF i = 1 THEN 0 ELSE s[i - 1]
    BY ONLY <1>5, <2>1, i \in 1 .. n
  <2>5. x = p <=> i = k - 1
    <3>1. CASE k = 1
      <4>1. i # k - 1
        BY ONLY <1>4, <3>1, i \in 1 .. n
      <4>2. QED
        BY ONLY <1>6, <2>2, <3>1, <4>1
    <3>2. CASE k # 1
      <4>1. PICK j : j = k - 1
        OBVIOUS
      <4>2. j \in 1 .. n
        BY ONLY <1>4, <3>2, <4>1
      <4>3. p = s[j]
        BY ONLY <1>6, <3>2, <4>1
      <4>4. QED
        BY ONLY <1>8, <2>1, <4>1, <4>2, <4>3, i \in 1 .. n
    <3>3. QED
      BY <3>1, <3>2
  <2>6. x = a <=> i = k + 1
    <3>1. CASE k = n
      <4>1. i # k + 1
        BY ONLY <1>4, <3>1, i \in 1 .. n
      <4>2. QED
        BY ONLY <1>6, <2>2, <3>1, <4>1
    <3>2. CASE k # n
      <4>1. PICK j : j = k + 1
        OBVIOUS
      <4>2. j \in 1 .. n
        BY ONLY <1>4, <3>2, <4>1
      <4>3. a = s[j]
        BY ONLY <1>6, <3>2, <4>1
      <4>4. QED
        BY ONLY <1>8, <2>1, <4>1, <4>2, <4>3, i \in 1 .. n
    <3>3. QED
      BY <3>1, <3>2
  <2>7. QED
    BY ONLY <2>1, <2>3, <2>4, <2>5, <2>6, Zenon
<1>11. PICK t : t = Linked!RemoveAt(s, k)
  OBVIOUS
<1>12. /\ t \in Seq(1 .. many) /\ Len(t) = n - 1
       /\ \A j \in 1 .. n - 1 : t[j] = IF j < k THEN s[j] ELSE s[j + 1]
  <2>1. PICK S : S = 1 .. many
    OBVIOUS
  <2>2. s \in Seq(S) /\ k \in 1 .. Len(s)
    BY <1>1, <1>2, <2>1 DEF Chain
  <2>3. /\ t \in Seq(S) /\ Len(t) = Len(s) - 1
        /\ \A j \in 1 .. Len(t) : t[j] = IF j < k THEN s[j] ELSE s[j + 1]
    BY ONLY <1>11, <2>2, Removed
  <2>4. QED
    BY ONLY <1>2, <2>1, <2>3
<1>13. t \in Seq(1 .. many) /\ Len(t) = n - 1
  BY <1>12
<1>14. /\ \A j \in 1 .. k - 1 : t[j] = s[j]
       /\ \A j \in k .. n - 1 : t[j] = s[j + 1]
  <2>1. \A j \in 1 .. n - 1 : t[j] = IF j < k THEN s[j] ELSE s[j + 1]
    BY <1>12
  <2>2. ASSUME NEW j \in 1 .. k - 1 PROVE t[j] = s[j]
    <3>1. j \in 1 .. n - 1 /\ j < k
      BY ONLY <1>4, j \in 1 .. k - 1
    <3>2. QED
      BY ONLY <2>1, <3>1
  <2>3. ASSUME NEW j \in k .. n - 1 PROVE t[j] = s[j + 1]
    <3>1. j \in 1 .. n - 1 /\ ~ (j < k)
      BY ONLY <1>4, j \in k .. n - 1
    <3>2. QED
      BY ONLY <2>1, <3>1
  <2>4. QED
    BY <2>2, <2>3
<1>15. \A j \in 1 .. n - 1 : j \in 1 .. k - 1 \/ j \in k .. n - 1
  BY ONLY <1>4
<1>16. ASSUME NEW j \in 1 .. n - 1
       PROVE  \E i \in 1 .. n : t[j] = s[i] /\ i # k /\ i = IF j < k THEN j ELSE j + 1
  <2>1. CASE j \in 1 .. k - 1
    <3>1. j \in 1 .. n /\ j < k /\ j # k /\ t[j] = s[j]
      BY ONLY <1>4, <1>14, <2>1
    <3>2. QED
      BY ONLY <3>1
  <2>2. CASE j \in k .. n - 1
    <3>1. j + 1 \in 1 .. n /\ ~ (j < k) /\ j + 1 # k /\ t[j] = s[j + 1]
      BY ONLY <1>4, <1>14, <2>2
    <3>2. QED
      BY ONLY <3>1
  <2>3. QED
    BY <1>15, <2>1, <2>2
<1>17. Chain(q, t)
  <2>1. ASSUME NEW i \in 1 .. n - 1, NEW j \in 1 .. n - 1, t[i] = t[j] PROVE i = j
    <3>1. PICK x \in 1 .. n : t[i] = s[x] /\ x = IF i < k THEN i ELSE i + 1
      BY <1>16
    <3>2. PICK y \in 1 .. n : t[j] = s[y] /\ y = IF j < k THEN j ELSE j + 1
      BY <1>16
    <3>3. s[x] = s[y]
      BY ONLY <2>1, <3>1, <3>2, Zenon
    <3>4. x = y
      BY ONLY <1>8, <3>3, x \in 1 .. n, y \in 1 .. n, Zenon
    <3>5. QED
      BY ONLY <1>4, <3>1, <3>2, <3>4, i \in 1 .. n - 1, j \in 1 .. n - 1
  <2>2. q.front = IF n - 1 = 0 THEN 0 ELSE t[1]
    <3>1. CASE k = 1
      <4>1. q.front = a
        BY <1>2, <1>3, <3>1
      <4>2. n - 1 # 0 => 1 \in k .. n - 1 /\ n # 1
        BY ONLY <1>4, <3>1
      <4>3. n - 1 # 0 => t[1] = s[1 + 1]
        BY ONLY <1>14, <4>2
      <4>4. n - 1 = 0 <=> n = 1
        BY ONLY <1>4
      <4>5. QED
        BY ONLY <1>6, <3>1, <4>1, <4>3, <4>4
    <3>2. CASE k # 1
      <4>1. 1 \in 1 .. k - 1 /\ n # 0 /\ n - 1 # 0
        BY ONLY <1>4, <3>2
      <4>2. q.front = s[1]
        BY <1>5, <3>2, <4>1
      <4>3. QED
        BY ONLY <1>14, <4>1, <4>2
    <3>3. QED
      BY <3>1, <3>2
  <2>3. ASSUME NEW j \in 1 .. n - 1
        PROVE  /\ q.nodes[t[j]].next = IF j = n - 1 THEN 0 ELSE t[j + 1]
               /\ q.nodes[t[j]].previous = IF j = 1 THEN 0 ELSE t[j - 1]
    <3>1. CASE j \in 1 .. k - 1
      <4>1. j \in 1 .. n /\ j # n /\ j # k /\ j # k + 1 /\ t[j] = s[j]
        BY ONLY <1>4, <1>14, <3>1
      <4>2. /\ q.nodes[s[j]].next = IF j = k - 1 THEN a ELSE s[j + 1]
            /\ q.nodes[s[j]].previous = IF j = 1 THEN 0 ELSE s[j - 1]
        BY ONLY <1>10, <4>1
      <4>3. j # 1 => j - 1 \in 1 .. k - 1
        BY ONLY <1>4, <3>1
      <4>4. q.nodes[s[j]].previous = IF j = 1 THEN 0 ELSE t[j - 1]
        BY ONLY <1>14, <4>2, <4>3
      <4>5. q.nodes[s[j]].next = IF j = n - 1 THEN 0 ELSE t[j + 1]
        <5>1. CASE j = k - 1
          <6>1. j + 1 = k /\ (j = n - 1 <=> k = n) /\ (k # n => k \in k .. n - 1)
            BY ONLY <1>4, <5>1
          <6>2. k # n => t[k] = s[k + 1]
            BY ONLY <1>14, <6>1
          <6>3. QED
            BY ONLY <1>6, <4>2, <5>1, <6>1, <6>2
        <5>2. CASE j # k - 1
          <6>1. j + 1 \in 1 .. k - 1 /\ j # n - 1
            BY ONLY <1>4, <3>1, <5>2
          <6>2. QED
            BY ONLY <1>14, <4>2, <5>2, <6>1
        <5>3. QED
          BY <5>1, <5>2
      <4>6. QED
        BY ONLY <4>1, <4>4, <4>5
    <3>2. CASE j \in k .. n - 1
      <4>1. PICK i : i = j + 1
        OBVIOUS
      <4>2. /\ i \in 1 .. n /\ i # k /\ i # k - 1 /\ i # 1 /\ i - 1 = j
            /\ (i = n <=> j = n - 1) /\ (i = k + 1 <=> j = k)
        BY ONLY <1>4, <3>2, <4>1
      <4>3. /\ q.nodes[s[i]].next = IF i = n THEN 0 ELSE s[i + 1]
            /\ q.nodes[s[i]].previous = IF i = k + 1 THEN p ELSE s[i - 1]
        BY ONLY <1>10, <4>2
      <4>4. t[j] = s[i]
        BY ONLY <1>14, <3>2, <4>1
      <4>5. j # n - 1 => t[j + 1] = s[i + 1]
        <5>1. j # n - 1 => j + 1 \in k .. n - 1
          BY ONLY <1>4, <3>2
        <5>2. QED
          BY ONLY <1>14, <4>1, <5>1
      <4>6. j # k => t[j - 1] = s[i - 1] /\ j # 1
        <5>1. SUFFICES ASSUME j # k PROVE t[j - 1] = s[i - 1] /\ j # 1
          OBVIOUS
        <5>2. PICK h : h = j - 1
          OBVIOUS
        <5>3. h \in k .. n - 1 /\ h + 1 = j /\ j # 1
          BY ONLY <1>4, <3>2, <5>1, <5>2
        <5>4. t[h] = s[h + 1]
          BY ONLY <1>14, <5>3
        <5>5. QED
          BY ONLY <4>2, <5>2, <5>3, <5>4
      <4>7. j = k => p = IF j = 1 THEN 0 ELSE t[j - 1]
        <5>1. k # 1 => k - 1 \in 1 .. k - 1
          BY ONLY <1>4
        <5>2. k # 1 => t[k - 1] = s[k - 1]
          BY ONLY <1>14, <5>1
        <5>3. QED
          BY ONLY <1>6, <5>2
      <4>8. q.nodes[t[j]].next = IF j = n - 1 THEN 0 ELSE t[j + 1]
        BY ONLY <4>2, <4>3, <4>4, <4>5
      <4>9. q.nodes[t[j]].previous = IF j = 1 THEN 0 ELSE t[j - 1]
        BY ONLY <4>2, <4>3, <4>4, <4>6, <4>7
      <4>10. QED
        BY ONLY <4>8, <4>9
    <3>3. QED
      BY <1>15, <3>1, <3>2
  <2>4. q.end \in 0 .. many
    BY <1>2, <1>3, <1>4, <1>7
  <2>5. ASSUME NEW j \in 1 .. n - 1, q.end = t[j] PROVE j = n - 1
    <3>1. PICK i \in 1 .. n : t[j] = s[i] /\ i # k /\ i = IF j < k THEN j ELSE j + 1
      BY <1>16
    <3>2. CASE q.end = o.end
      <4>1. i = n
        BY ONLY <1>5, <2>5, <3>1, <3>2, i \in 1 .. n
      <4>2. QED
        BY ONLY <1>4, <3>1, <4>1, j \in 1 .. n - 1
    <3>3. CASE o.end = s[k] /\ q.end = p
      <4>1. k = n
        BY ONLY <1>4, <1>5, <3>3
      <4>2. p # 0
        BY ONLY <1>4, <2>5, <3>1, <3>3, i \in 1 .. n
      <4>3. PICK h : h = k - 1
        OBVIOUS
      <4>4. k # 1 /\ p = s[h]
        BY ONLY <1>6, <4>2, <4>3
      <4>5. h \in 1 .. n /\ h = n - 1
        BY ONLY <1>4, <4>1, <4>3, <4>4
      <4>6. s[i] = s[h]
        BY ONLY <2>5, <3>1, <3>3, <4>4, Zenon
      <4>7. i = h
        BY ONLY <1>8, <4>5, <4>6, i \in 1 .. n, Zenon
      <4>8. QED
        BY ONLY <1>4, <3>1, <4>1, <4>5, <4>7, j \in 1 .. n - 1
    <3>4. QED
      BY <1>2, <1>3, <3>2, <3>3
  <2>6. /\ \A i, j \in 1 .. Len(t) : t[i] = t[j] => i = j
        /\ q.front = IF Len(t) = 0 THEN 0 ELSE t[1]
        /\ \A i \in 1 .. Len(t) :
              /\ q.nodes[t[i]].next = IF i = Len(t) THEN 0 ELSE t[i + 1]
              /\ q.nodes[t[i]].previous = IF i = 1 THEN 0 ELSE t[i - 1]
        /\ \A i \in 1 .. Len(t) : q.end = t[i] => i = Len(t)
    BY ONLY <1>13, <2>1, <2>2, <2>3, <2>5, Zenon
  <2>7. t \in Seq(1 .. Len(q.nodes)) /\ q.end \in 0 .. Len(q.nodes)
    BY <1>9, <1>13, <2>4, Zenon
  <2>8. QED
    BY ONLY <2>6, <2>7, Zenon DEF Chain
<1>18. ASSUME kept PROVE Counted(q, t, Linked!RemoveAt(items, k))
  <2>1. exact /\ (n = 1 \/ k < n \/ q.end = p)
    BY <1>2, <1>3, <1>18
  <2>2. items \in Seq(Items) /\ Len(items) = n /\ o.size = n /\ o.end = s[n]
        /\ \A i \in 1 .. n : o.nodes[s[i]].value = items[i]
    <3>1. n # 0
      BY ONLY <1>4
    <3>2. QED
      BY <1>1, <1>2, <2>1, <3>1 DEF Counted
  <2>3. PICK less : less = Linked!RemoveAt(items, k)
    OBVIOUS
  <2>4. /\ less \in Seq(Items) /\ Len(less) = n - 1
        /\ \A j \in 1 .. n - 1 : less[j] = IF j < k THEN items[j] ELSE items[j + 1]
    <3>1. k \in 1 .. Len(items) /\ items \in Seq(Items)
      BY ONLY <1>4, <2>2
    <3>2. /\ less \in Seq(Items) /\ Len(less) = Len(items) - 1
          /\ \A j \in 1 .. Len(less) : less[j] = IF j < k THEN items[j] ELSE items[j + 1]
      BY ONLY <2>3, <3>1, Removed
    <3>3. QED
      BY ONLY <2>2, <3>2
  <2>5. ASSUME NEW j \in 1 .. n - 1 PROVE q.nodes[t[j]].value = less[j]
    <3>1. PICK i \in 1 .. n : t[j] = s[i] /\ i # k /\ i = IF j < k THEN j ELSE j + 1
      BY <1>16
    <3>2. less[j] = items[i]
      BY ONLY <2>4, <3>1, j \in 1 .. n - 1
    <3>3. q.nodes[s[i]].value = o.nodes[s[i]].value
      BY ONLY <1>10, <3>1, i \in 1 .. n
    <3>4. o.nodes[s[i]].value = items[i]
      BY ONLY <2>2, i \in 1 .. n
    <3>5. QED
      BY ONLY <3>1, <3>2, <3>3, <3>4, Zenon
  <2>6. n - 1 # 0 => q.end = t[n - 1]
    <3>1. SUFFICES ASSUME n - 1 # 0 PROVE q.end = t[n - 1]
      OBVIOUS
    <3>2. CASE k < n
      <4>1. n - 1 \in k .. n - 1 /\ (n - 1) + 1 = n /\ n \in 1 .. n /\ n # k
        BY ONLY <1>4, <3>2
      <4>2. t[n - 1] = s[(n - 1) + 1]
        BY ONLY <1>14, <4>1
      <4>3. s[n] # s[k]
        BY ONLY <1>4, <1>8, <4>1
      <4>4. q.end = o.end
        BY <2>2, <4>3
      <4>5. QED
        BY ONLY <2>2, <4>1, <4>2, <4>4
    <3>3. CASE ~ (k < n)
      <4>1. k = n /\ k # 1 /\ n # 1 /\ n - 1 \in 1 .. k - 1
        BY ONLY <1>4, <3>1, <3>3
      <4>2. q.end = p
        BY ONLY <2>1, <3>3, <4>1
      <4>3. t[n - 1] = s[n - 1]
        BY ONLY <1>14, <4>1
      <4>4. QED
        BY ONLY <1>6, <4>1, <4>2, <4>3
    <3>4. QED
      BY <3>2, <3>3
  <2>7. q.size = n - 1
    BY <2>2
  <2>8. less \in Seq(Items) /\ Len(less) = n - 1
    BY <2>4
  <2>9. QED
    BY ONLY <1>13, <2>3, <2>5, <2>6, <2>7, <2>8 DEF Counted
<1>19. QED
  BY <1>11, <1>17, <1>18 DEF Represents

\* Unlink changes the links, the front if the first is unlinked, and the count.
LEMMA UnlinkFields ==
    ASSUME NEW o \in Lists, NEW s, Chain(o, s), NEW k \in 1 .. Len(s),
           NEW r, r = Linked!Unlink(o, s[k])
    PROVE  /\ r \in Lists /\ r.front = (IF k = 1 THEN o.nodes[s[k]].next ELSE o.front)
           /\ r.end = o.end /\ r.size = o.size - 1 /\ r.current = o.current
           /\ o.nodes[s[k]].previous \in Nat /\ o.nodes[s[k]].next \in Nat
<1>1. PICK at, p, a : at = s[k] /\ p = o.nodes[at].previous /\ a = o.nodes[at].next
  OBVIOUS
<1>2. Len(s) \in Nat /\ Len(o.nodes) \in Nat
      /\ \A i \in 1 .. Len(s) : s[i] \in 1 .. Len(o.nodes) /\ s[i] # 0
  BY ChainFacts
<1>3. at \in 1 .. Len(o.nodes) /\ p \in Nat /\ a \in Nat
  BY <1>1, <1>2, ListFields
<1>4. a = (IF k = Len(s) THEN 0 ELSE s[k + 1]) /\ p = (IF k = 1 THEN 0 ELSE s[k - 1])
  BY <1>1 DEF Chain
<1>5. a \in 0 .. Len(o.nodes) /\ p \in 0 .. Len(o.nodes) /\ (p = 0 <=> k = 1)
  <2>1. (k # 1 => k - 1 \in 1 .. Len(s)) /\ (k # Len(s) => k + 1 \in 1 .. Len(s))
    BY <1>2
  <2>2. QED
    BY ONLY <1>2, <1>4, <2>1
<1>6. PICK r1, r2 : r1 = Linked!SetPrevious(o, a, p) /\ r2 = Linked!SetNext(r1, p, a)
  OBVIOUS
<1>7. SameButLinks(r1, o)
  BY ONLY <1>3, <1>5, <1>6, PreviousSet, o \in Lists
<1>8. r1 \in Lists /\ p \in 0 .. Len(r1.nodes)
  BY ONLY <1>5, <1>7 DEF SameButLinks
<1>9. SameButLinks(r2, r1)
  BY ONLY <1>3, <1>6, <1>8, NextSet
<1>10. /\ r2 \in Lists /\ r2.front = o.front /\ r2.end = o.end /\ r2.size = o.size
       /\ r2.current = o.current
  BY ONLY <1>7, <1>9 DEF SameButLinks
<1>11. PICK first, count : first = (IF p = 0 THEN a ELSE r2.front) /\ count = r2.size - 1
  OBVIOUS
<1>12. first \in Nat /\ count \in Int
  BY ONLY <1>3, <1>10, <1>11 DEF Lists
<1>13. r = [r2 EXCEPT !.front = first, !.size = count]
  BY <1>1, <1>6, <1>10, <1>11 DEF Linked!Unlink, Linked!Node, Linked!Null, Lists
<1>14. /\ r \in Lists /\ r.front = first /\ r.end = r2.end /\ r.size = count
       /\ r.current = r2.current
  BY ONLY <1>10, <1>12, <1>13 DEF Lists
<1>15. QED
  BY ONLY <1>1, <1>3, <1>5, <1>10, <1>11, <1>14

\* remove() unlinks the first node of the item; the list stays exact unless that
\* was the last of several.
LEMMA ItemRemoved ==
    ASSUME NEW o, NEW s, NEW items, NEW exact \in BOOLEAN, Represents(o, s, items, exact),
           NEW item, NEW k, k = Linked!Place(Linked!Values(o), item)
    PROVE  \E t : Represents(Linked!remove(o, item), t,
                             IF k = 0 THEN items ELSE Linked!RemoveAt(items, k),
                             exact /\ (k < Len(s) \/ k \in {0, 1}))
<1>1. o \in Lists /\ Chain(o, s)
  BY DEF Represents
<1>2. Linked!Values(o) \in Seq(Items) /\ Len(Linked!Values(o)) = Len(s) /\ Linked!Nodes(o) = s
  BY <1>1, ValuesOfChain, NodesAreTheChain
<1>3. k \in 0 .. Len(s) /\ Len(s) \in Nat
  BY <1>1, <1>2, PlaceOfItem, ChainFacts
<1>4. Linked!indexOf(o, item) = k - 1
  BY DEF Linked!indexOf
<1>5. CASE k = 0
  <2>1. Linked!remove(o, item) = o
    BY <1>3, <1>4, <1>5 DEF Linked!remove
  <2>2. QED
    BY <1>5, <2>1 DEF Represents
<1>6. CASE k # 0
  <2>1. k \in 1 .. Len(s) /\ k - 1 # -1 /\ (k - 1) + 1 = k
    BY <1>3, <1>6
  <2>2. PICK r : r = Linked!Unlink(o, s[k])
    OBVIOUS
  <2>3. Linked!remove(o, item) = r
    BY <1>2, <1>4, <2>1, <2>2 DEF Linked!remove
  <2>4. /\ r \in Lists /\ r.front = (IF k = 1 THEN o.nodes[s[k]].next ELSE o.front)
        /\ r.end = o.end /\ r.size = o.size - 1
    BY ONLY <1>1, <2>1, <2>2, UnlinkFields
  <2>5. PICK kept : kept = (exact /\ (k < Len(s) \/ k \in {0, 1}))
    OBVIOUS
  <2>6. kept \in BOOLEAN /\ (kept => exact /\ (Len(s) = 1 \/ k < Len(s)
                                                 \/ r.end = o.nodes[s[k]].previous))
    <3>1. PICK n : n = Len(s)
      OBVIOUS
    <3>2. n \in Nat /\ k \in 1 .. n
      BY ONLY <1>3, <2>1, <3>1
    <3>3. k # 0 /\ (k = 1 => n = 1 \/ k < n)
      BY ONLY <3>2
    <3>4. k \in {0, 1} => k = 1
      BY ONLY <3>3
    <3>5. QED
      BY ONLY <2>5, <3>1, <3>3, <3>4, exact \in BOOLEAN, Zenon
  <2>7. r.nodes = Linked!Unlink(o, s[k]).nodes
    BY <2>2
  <2>8. Represents(r, Linked!RemoveAt(s, k), Linked!RemoveAt(items, k), kept)
    BY ONLY <2>1, <2>4, <2>6, <2>7, UnlinkedNode, Represents(o, s, items, exact), exact \in BOOLEAN
  <2>9. QED
    BY <1>6, <2>3, <2>5, <2>8
<1>7. QED
  BY <1>5, <1>6

\* removeAt() takes _end back with it: the list stays exact.
LEMMA IndexRemoved ==
    ASSUME NEW o, NEW s, NEW items, NEW exact \in BOOLEAN, Represents(o, s, items, exact),
           NEW k \in 1 .. Len(s), NEW index, Linked!setCursor(o, index) = s[k]
    PROVE  Represents(Linked!removeAt(o, index), Linked!RemoveAt(s, k),
                      Linked!RemoveAt(items, k), exact)
<1>1. o \in Lists /\ Chain(o, s) /\ (exact => Counted(o, s, items))
  BY DEF Represents
<1>2. PICK at, p, a, r : /\ at = s[k] /\ p = o.nodes[at].previous /\ a = o.nodes[at].next
                         /\ r = Linked!Unlink(o, at)
  OBVIOUS
<1>3. /\ r \in Lists /\ r.front = (IF k = 1 THEN a ELSE o.front)
      /\ r.end = o.end /\ r.size = o.size - 1 /\ r.current = o.current /\ p \in Nat /\ a \in Nat
  <2>1. r = Linked!Unlink(o, s[k]) /\ o \in Lists /\ Chain(o, s)
    BY <1>1, <1>2
  <2>2. /\ r \in Lists /\ r.front = (IF k = 1 THEN o.nodes[s[k]].next ELSE o.front)
        /\ r.end = o.end /\ r.size = o.size - 1 /\ r.current = o.current
        /\ o.nodes[s[k]].previous \in Nat /\ o.nodes[s[k]].next \in Nat
    BY ONLY <2>1, UnlinkFields, k \in 1 .. Len(s)
  <2>3. QED
    BY ONLY <1>2, <2>2, Zenon
<1>4. PICK first, end : /\ first = IF at = o.front THEN a ELSE o.front
                        /\ end = IF at = o.end THEN p ELSE o.end
  OBVIOUS
<1>5. PICK q : q = Linked!removeAt(o, index)
  OBVIOUS
<1>6. q = [r EXCEPT !.front = first, !.end = end, !.current = a]
  BY <1>2, <1>3, <1>4, <1>5 DEF Linked!removeAt, Linked!Node, Lists
<1>7. first \in Nat /\ end \in Nat
  BY <1>1, <1>3, <1>4, ListFields
<1>8. q \in Lists /\ q.front = first /\ q.end = end /\ q.size = o.size - 1 /\ q.nodes = r.nodes
  BY ONLY <1>3, <1>6, <1>7 DEF Lists
<1>9. first = IF k = 1 THEN a ELSE o.front
  <2>1. Len(s) \in Nat
    BY <1>1, ChainFacts
  <2>2. Len(s) # 0 /\ 1 \in 1 .. Len(s)
    BY <2>1
  <2>3. o.front = s[1]
    BY <1>1, <2>2 DEF Chain
  <2>4. at = o.front <=> k = 1
    BY <1>1, <1>2, <2>2, <2>3 DEF Chain
  <2>5. QED
    BY <1>4, <2>4
<1>10. exact => q.end = p \/ k < Len(s)
  <2>1. SUFFICES ASSUME exact, ~ (k < Len(s)) PROVE q.end = p
    OBVIOUS
  <2>2. Len(s) \in Nat
    BY <1>1, ChainFacts
  <2>3. k = Len(s) /\ Len(s) # 0
    BY <2>1, <2>2
  <2>4. o.end = s[k]
    BY <1>1, <2>1, <2>3 DEF Counted
  <2>5. QED
    BY <1>2, <1>4, <1>8, <2>4
<1>11. /\ q.nodes = Linked!Unlink(o, s[k]).nodes
       /\ q.front = IF k = 1 THEN o.nodes[s[k]].next ELSE o.front
       /\ q.end = o.end \/ (o.end = s[k] /\ q.end = o.nodes[s[k]].previous)
       /\ exact => exact /\ (Len(s) = 1 \/ k < Len(s) \/ q.end = o.nodes[s[k]].previous)
  BY ONLY <1>2, <1>4, <1>8, <1>9, <1>10, Zenon
<1>12. QED
  BY ONLY <1>5, <1>8, <1>11, UnlinkedNode, Represents(o, s, items, exact), exact \in BOOLEAN,
          k \in 1 .. Len(s)

\* What moves the cursor only.
LEMMA CursorMoved ==
    ASSUME NEW o, NEW s, NEW items, NEW exact \in BOOLEAN, Represents(o, s, items, exact),
           NEW current \in Nat
    PROVE  Represents([o EXCEPT !.current = current], s, items, exact)
<1>1. PICK q : q = [o EXCEPT !.current = current]
  OBVIOUS
<1>2. o \in Lists /\ Chain(o, s) /\ (exact => Counted(o, s, items))
  BY DEF Represents
<1>3. /\ q \in Lists /\ q.front = o.front /\ q.end = o.end /\ q.size = o.size
      /\ q.nodes = o.nodes
  BY ONLY <1>1, <1>2, current \in Nat DEF Lists
<1>4. Chain(q, s)
  BY ONLY <1>2, <1>3 DEF Chain
<1>5. exact => Counted(q, s, items)
  BY ONLY <1>2, <1>3 DEF Counted
<1>6. QED
  BY ONLY <1>1, <1>3, <1>4, <1>5 DEF Represents

-----------------------------------------------------------------------------
\* clear() and the copy constructor.

\* The lists with a chain, and the first node of one removed as clear() does.
Chained == {x \in Lists : \E s : Chain(x, s)}
Shorter(x) ==
    IF x.size = 0 THEN x
    ELSE IF x.front = 0 THEN [x EXCEPT !.current = 0]
    ELSE Linked!removeAt(x, 0)

\* One turn of the loop in clear().
LEMMA ShorterList ==
    ASSUME NEW o, NEW s, NEW items, NEW exact \in BOOLEAN, Represents(o, s, items, exact)
    PROVE  \E t, rest : /\ Represents(Shorter(o), t, rest, exact)
                        /\ exact => Len(t) = IF Len(s) = 0 THEN 0 ELSE Len(s) - 1
<1>1. o \in Lists /\ Chain(o, s) /\ (exact => Counted(o, s, items))
  BY DEF Represents
<1>2. Len(s) \in Nat /\ \A i \in 1 .. Len(s) : s[i] # 0
  BY <1>1, ChainFacts
<1>3. CASE o.size = 0 \/ o.front = 0
  <2>1. Represents(Shorter(o), s, items, exact)
    <3>1. CASE o.size = 0
      BY <3>1 DEF Shorter
    <3>2. CASE o.size # 0
      <4>1. PICK q, z : q = [o EXCEPT !.current = z] /\ z = 0
        OBVIOUS
      <4>2. Represents(q, s, items, exact)
        BY <4>1, CursorMoved
      <4>3. Shorter(o) = q
        BY <1>3, <3>2, <4>1, Zenon DEF Shorter
      <4>4. QED
        BY <4>2, <4>3
    <3>3. QED
      BY <3>1, <3>2
  <2>2. Len(s) # 0 => 1 \in 1 .. Len(s) /\ s[1] # 0
    BY <1>2
  <2>3. o.front = 0 => Len(s) = 0
    BY ONLY <1>1, <2>2 DEF Chain
  <2>4. exact => Len(s) = 0
    BY <1>1, <1>3, <2>3 DEF Counted
  <2>5. QED
    BY <2>1, <2>4
<1>4. CASE ~ (o.size = 0 \/ o.front = 0)
  <2>1. Shorter(o) = Linked!removeAt(o, 0)
    BY <1>4 DEF Shorter
  <2>2. Len(s) # 0
    BY <1>1, <1>4 DEF Chain
  <2>3. 1 \in 1 .. Len(s) /\ 0 < Len(s) /\ 0 \in Nat /\ 0 + 1 = 1
    BY <1>2, <2>2
  <2>4. Linked!setCursor(o, 0) = s[1]
    <3>1. Linked!setCursor(o, 0) = s[0 + 1]
      BY ONLY <1>1, <2>3, WalkIsTheChain
    <3>2. QED
      BY ONLY <2>3, <3>1
  <2>5. PICK t, rest : t = Linked!RemoveAt(s, 1) /\ rest = Linked!RemoveAt(items, 1)
    OBVIOUS
  <2>6. Represents(Linked!removeAt(o, 0), t, rest, exact)
    BY ONLY <2>3, <2>4, <2>5, IndexRemoved, Represents(o, s, items, exact), exact \in BOOLEAN
  <2>7. Len(t) = Len(s) - 1
    <3>1. s \in Seq(1 .. Len(o.nodes))
      BY <1>1 DEF Chain
    <3>2. QED
      BY ONLY <2>3, <2>5, <3>1, Removed
  <2>8. QED
    BY ONLY <2>1, <2>2, <2>6, <2>7
<1>5. QED
  BY <1>3, <1>4

\* clear() leaves an exact list without items, any other linked.
LEMMA Cleared ==
    ASSUME NEW o, NEW s, NEW items, NEW exact \in BOOLEAN, Represents(o, s, items, exact)
    PROVE  \E t : Represents(Linked!clear(o), t, <<>>, exact)
<1>1. PICK n : n = Len(o.nodes)
  OBVIOUS
<1>2. o \in Lists /\ Chain(o, s) /\ o \in Chained
  BY DEF Represents, Chained
<1>3. n \in Nat /\ Len(s) \in Nat /\ Len(s) <= n
  BY ONLY <1>1, <1>2, ChainFacts, ChainIsShort
<1> DEFINE step == [x \in Nat \X Chained |-> Shorter(x[2])]
           Follows(f) == f = [k \in 0 .. n |-> IF k = 0 THEN o ELSE
                                 IF f[k - 1].size = 0 THEN f[k - 1]
                                 ELSE IF f[k - 1].front = 0
                                 THEN [f[k - 1] EXCEPT !.current = 0]
                                 ELSE Linked!removeAt(f[k - 1], 0)]
<1>4. step \in [Nat \X Chained -> Chained]
  <2>1. ASSUME NEW x \in Chained PROVE Shorter(x) \in Chained
    <3>1. PICK c, no : Chain(x, c) /\ no = FALSE
      BY DEF Chained
    <3>2. Represents(x, c, <<>>, no) /\ no \in BOOLEAN
      BY <3>1 DEF Chained, Represents
    <3>3. \E t, rest : Represents(Shorter(x), t, rest, no)
      BY ONLY <3>2, ShorterList
    <3>4. QED
      BY <3>3 DEF Chained, Represents
  <2>2. QED
    BY <2>1
<1>5. PICK f : Computes(f, Chained, o, step, n)
  <2> HIDE DEF step
  <2>1. QED
    BY ONLY <1>2, <1>3, <1>4, Computed
<1>6. Follows(f)
  <2>1. f \in [0 .. n -> Chained] /\ f[0] = o
    BY ONLY <1>5 DEF Computes
  <2>2. ASSUME NEW k \in 0 .. n, k # 0 PROVE f[k] = Shorter(f[k - 1])
    <3>1. PICK j : j = k - 1
      OBVIOUS
    <3>2. j \in Nat /\ j \in 0 .. n - 1 /\ j \in 0 .. n /\ j + 1 = k
      BY <1>3, <2>2, <3>1
    <3>3. f[j + 1] = step[<<j, f[j]>>]
      BY ONLY <1>5, <3>2 DEF Computes
    <3>4. f[j] \in Chained
      BY ONLY <2>1, <3>2
    <3>5. step[<<j, f[j]>>] = Shorter(f[j])
      BY ONLY <3>2, <3>4
    <3>6. QED
      BY <3>1, <3>2, <3>3, <3>5
  <2>3. QED
    BY <2>1, <2>2 DEF Shorter
<1>7. PICK cleared : cleared = CHOOSE h : Follows(h)
  OBVIOUS
<1>8. Linked!clear(o) = cleared[n]
  BY <1>1, <1>7 DEF Linked!clear, Linked!Null
<1>9. Follows(cleared)
  <2> HIDE DEF Follows
  <2>1. QED
    BY <1>6, <1>7
<1>10. /\ cleared[0] = o
       /\ \A k \in 0 .. n : k # 0 => cleared[k] = Shorter(cleared[k - 1])
  <2>1. cleared = [k \in 0 .. n |-> IF k = 0 THEN o ELSE Shorter(cleared[k - 1])]
    BY ONLY <1>9, Zenon DEF Shorter
  <2>2. QED
    BY ONLY <1>3, <2>1
<1> HIDE DEF step, Follows
<1> DEFINE Left(k) == \E t, rest : /\ Represents(cleared[k], t, rest, exact)
                                   /\ exact => Len(t) + k = Len(s) \/ Len(t) = 0
           done == {k \in Nat : Left(k)}
<1>11. 0 \in done
  <2>1. Represents(cleared[0], s, items, exact) /\ Len(s) + 0 = Len(s)
    BY <1>3, <1>10
  <2>2. QED
    BY <2>1
<1>12. ASSUME NEW k \in 0 .. n - 1, k \in done PROVE k + 1 \in done
  <2>1. k \in Nat /\ k + 1 \in Nat /\ k + 1 \in 0 .. n /\ k + 1 # 0 /\ (k + 1) - 1 = k
    BY <1>3
  <2>2. cleared[k + 1] = Shorter(cleared[k])
    BY ONLY <1>10, <2>1
  <2>3. PICK c, its : /\ Represents(cleared[k], c, its, exact)
                      /\ exact => Len(c) + k = Len(s) \/ Len(c) = 0
    BY <1>12
  <2>4. PICK t, rest : /\ Represents(Shorter(cleared[k]), t, rest, exact)
                       /\ exact => Len(t) = IF Len(c) = 0 THEN 0 ELSE Len(c) - 1
    BY ONLY <2>3, ShorterList, exact \in BOOLEAN
  <2>5. Len(c) \in Nat
    BY <2>3, ChainFacts DEF Represents
  <2>6. PICK x, y, z : x = Len(c) /\ y = Len(t) /\ z = Len(s)
    OBVIOUS
  <2>7. ASSUME exact PROVE y + (k + 1) = z \/ y = 0
    <3>1. x \in Nat /\ (x + k = z \/ x = 0) /\ y = IF x = 0 THEN 0 ELSE x - 1
      BY ONLY <2>3, <2>4, <2>5, <2>6, <2>7
    <3>2. QED
      BY ONLY <2>1, <3>1
  <2>8. Left(k + 1)
    BY ONLY <2>2, <2>4, <2>6, <2>7
  <2>9. QED
    BY <2>1, <2>8
<1>13. PICK t, rest : /\ Represents(cleared[n], t, rest, exact)
                      /\ exact => Len(t) + n = Len(s) \/ Len(t) = 0
  <2>1. n \in 0 .. n
    BY <1>3
  <2>2. n \in done
    <3> HIDE DEF done
    <3>1. \A k \in 0 .. n : k \in done
      BY ONLY <1>3, <1>11, <1>12, Counting
    <3>2. QED
      BY <2>1, <3>1
  <2>3. QED
    BY <2>2
<1>14. exact => Counted(cleared[n], t, <<>>)
  <2>1. SUFFICES ASSUME exact PROVE Counted(cleared[n], t, <<>>)
    OBVIOUS
  <2>2. Counted(cleared[n], t, rest) /\ Len(t) \in Nat
    BY <1>13, <2>1, ChainFacts DEF Represents
  <2>3. Len(t) = 0
    BY <1>3, <1>13, <2>1, <2>2
  <2>4. rest = <<>>
    BY <2>2, <2>3, EmptySeq DEF Counted
  <2>5. QED
    BY <2>2, <2>4
<1>15. Represents(cleared[n], t, <<>>, exact)
  BY <1>13, <1>14 DEF Represents
<1>16. QED
  BY <1>8, <1>15

\* The new list has no items.
LEMMA EmptyList == Represents(Linked!Empty, <<>>, <<>>, TRUE)
<1>1. PICK e : e = Linked!Empty
  OBVIOUS
<1>2. /\ e = [front |-> 0, end |-> 0, current |-> 0, size |-> 0, nodes |-> <<>>]
      /\ <<>> \in Seq(NodeRecords)
  BY <1>1, EmptySeq DEF Linked!Empty, Linked!Null
<1>3. e \in Lists /\ e.front = 0 /\ e.end = 0 /\ e.size = 0 /\ e.nodes = <<>>
  BY <1>2 DEF Lists
<1>4. PICK s : s = <<>>
  OBVIOUS
<1>5. Len(e.nodes) = 0 /\ Len(s) = 0 /\ s \in Seq(1 .. 0) /\ s \in Seq(Items)
  BY <1>3, <1>4, EmptySeq
<1>6. \A i \in 1 .. Len(s) : FALSE
  BY <1>5
<1>7. Chain(e, s)
  BY ONLY <1>3, <1>5, <1>6 DEF Chain
<1>8. Counted(e, s, s)
  BY ONLY <1>3, <1>5, <1>6 DEF Counted
<1>9. QED
  BY <1>1, <1>3, <1>4, <1>7, <1>8 DEF Represents

\* The items of an exact list are what an iteration visits.
LEMMA ValuesOfItems ==
    ASSUME NEW o, NEW s, NEW items, o \in Lists, Chain(o, s), Counted(o, s, items)
    PROVE  Linked!Values(o) = items
<1>1. PICK values : values = Linked!Values(o)
  OBVIOUS
<1>2. /\ values \in Seq(Items) /\ Len(values) = Len(s)
      /\ \A i \in 1 .. Len(s) : values[i] = o.nodes[s[i]].value
  BY ONLY <1>1, ValuesOfChain, o \in Lists, Chain(o, s)
<1>3. /\ items \in Seq(Items) /\ Len(items) = Len(s)
      /\ \A i \in 1 .. Len(s) : o.nodes[s[i]].value = items[i]
  BY DEF Counted
<1>4. Len(values) = Len(items) /\ \A i \in 1 .. Len(values) : values[i] = items[i]
  BY ONLY <1>2, <1>3
<1>5. values = items
  BY ONLY <1>2, <1>3, <1>4, SeqEqual
<1>6. QED
  BY <1>1, <1>5

\* The copy is an exact list of what an iteration of the other visits.
LEMMA CopiedValues ==
    ASSUME NEW o, NEW values, values = Linked!Values(o), values \in Seq(Items)
    PROVE  \E t : Represents(Linked!Copy(o), t, values, TRUE)
<1>1. PICK n, yes : n = Len(values) /\ yes = TRUE
  OBVIOUS
<1>2. n \in Nat /\ (\A i \in 1 .. n : values[i] \in Items) /\ yes \in BOOLEAN
  BY <1>1, LenProperties, ElementOfSeq
<1> DEFINE step == [x \in Nat \X Chained |->
                       IF x[1] + 1 \in 1 .. n THEN Linked!append(x[2], values[x[1] + 1]) ELSE x[2]]
           Follows(f) == f = [k \in 0 .. n |-> IF k = 0 THEN Linked!Empty
                                               ELSE Linked!append(f[k - 1], values[k])]
<1>3. Represents(Linked!Empty, <<>>, <<>>, yes) /\ Linked!Empty \in Chained
  BY <1>1, EmptyList DEF Represents, Chained
<1>4. ASSUME NEW x \in Chained, NEW item \in Items PROVE Linked!append(x, item) \in Chained
  <2>1. PICK c, no : Chain(x, c) /\ no = FALSE
    BY DEF Chained
  <2>2. Represents(x, c, <<>>, no) /\ no \in BOOLEAN
    BY <2>1 DEF Chained, Represents
  <2>3. \E t : Represents(Linked!append(x, item), t, Append(<<>>, item), no)
    BY ONLY <2>2, Appended, item \in Items
  <2>4. QED
    BY <2>3 DEF Chained, Represents
<1>5. step \in [Nat \X Chained -> Chained]
  BY <1>2, <1>4
<1>6. PICK f : Computes(f, Chained, Linked!Empty, step, n)
  <2> HIDE DEF step
  <2>1. QED
    BY ONLY <1>2, <1>3, <1>5, Computed
<1>7. Follows(f)
  <2>1. f \in [0 .. n -> Chained] /\ f[0] = Linked!Empty
    BY ONLY <1>6 DEF Computes
  <2>2. ASSUME NEW k \in 0 .. n, k # 0 PROVE f[k] = Linked!append(f[k - 1], values[k])
    <3>1. PICK j : j = k - 1
      OBVIOUS
    <3>2. j \in Nat /\ j \in 0 .. n - 1 /\ j \in 0 .. n /\ j + 1 = k /\ j + 1 \in 1 .. n
      BY <1>2, <2>2, <3>1
    <3>3. f[j + 1] = step[<<j, f[j]>>]
      BY ONLY <1>6, <3>2 DEF Computes
    <3>4. f[j] \in Chained
      BY ONLY <2>1, <3>2
    <3>5. step[<<j, f[j]>>] = Linked!append(f[j], values[j + 1])
      BY ONLY <3>2, <3>4
    <3>6. QED
      BY <3>1, <3>2, <3>3, <3>5
  <2>3. QED
    BY <2>1, <2>2
<1>8. PICK copied : copied = CHOOSE h : Follows(h)
  OBVIOUS
<1>9. Linked!Copy(o) = copied[n]
  BY <1>1, <1>8 DEF Linked!Copy
<1>10. Follows(copied)
  <2> HIDE DEF Follows
  <2>1. QED
    BY <1>7, <1>8
<1>11. /\ copied[0] = Linked!Empty
       /\ \A k \in 0 .. n : k # 0 => copied[k] = Linked!append(copied[k - 1], values[k])
  BY ONLY <1>2, <1>10
<1> HIDE DEF step, Follows
<1> DEFINE Done(k) == \E t, its : /\ Represents(copied[k], t, its, yes) /\ Len(its) = k
                                  /\ \A i \in 1 .. k : its[i] = values[i]
           done == {k \in Nat : Done(k)}
<1>12. 0 \in done
  <2>1. Len(<<>>) = 0 /\ \A i \in 1 .. 0 : <<>>[i] = values[i]
    BY EmptySeq
  <2>2. QED
    BY <1>3, <1>11, <2>1
<1>13. ASSUME NEW k \in 0 .. n - 1, k \in done PROVE k + 1 \in done
  <2>1. /\ k \in Nat /\ k + 1 \in Nat /\ k + 1 \in 0 .. n /\ k + 1 # 0 /\ (k + 1) - 1 = k
        /\ k + 1 \in 1 .. n
    BY <1>2
  <2>2. PICK item : item = values[k + 1]
    OBVIOUS
  <2>3. item \in Items
    BY ONLY <1>2, <2>1, <2>2
  <2>4. copied[k + 1] = Linked!append(copied[k], item)
    BY ONLY <1>11, <2>1, <2>2
  <2>5. PICK c, its : /\ Represents(copied[k], c, its, yes) /\ Len(its) = k
                      /\ \A i \in 1 .. k : its[i] = values[i]
    BY <1>13
  <2>6. PICK more : more = Append(its, item)
    OBVIOUS
  <2>7. PICK t : Represents(copied[k + 1], t, more, yes)
    <3>1. \E t : Represents(Linked!append(copied[k], item), t, Append(its, item), yes)
      BY ONLY <1>2, <2>3, <2>5, Appended
    <3>2. QED
      BY ONLY <2>4, <2>6, <3>1
  <2>8. its \in Seq(Items)
    BY <1>1, <2>5 DEF Represents, Counted
  <2>9. /\ Len(more) = k + 1 /\ more[k + 1] = item
        /\ \A i \in 1 .. k : more[i] = its[i]
    BY ONLY <2>3, <2>5, <2>6, <2>8, AppendProperties
  <2>10. \A i \in 1 .. k + 1 : i \in 1 .. k \/ i = k + 1
    BY ONLY <2>1
  <2>11. \A i \in 1 .. k + 1 : more[i] = values[i]
    BY ONLY <2>2, <2>5, <2>9, <2>10
  <2>12. Done(k + 1)
    BY ONLY <2>7, <2>9, <2>11
  <2>13. QED
    BY <2>1, <2>12
<1>14. PICK t, its : /\ Represents(copied[n], t, its, yes) /\ Len(its) = n
                     /\ \A i \in 1 .. n : its[i] = values[i]
  <2>1. n \in 0 .. n
    BY <1>2
  <2>2. n \in done
    <3> HIDE DEF done
    <3>1. \A k \in 0 .. n : k \in done
      BY ONLY <1>2, <1>12, <1>13, Counting
    <3>2. QED
      BY <2>1, <3>1
  <2>3. QED
    BY <2>2
<1>15. its \in Seq(Items)
  BY <1>1, <1>14 DEF Represents, Counted
<1>16. its = values
  BY ONLY <1>1, <1>14, <1>15, SeqEqual, values \in Seq(Items)
<1>17. QED
  BY <1>1, <1>9, <1>14, <1>16

\* The copy of an exact list has its items.
LEMMA Copied ==
    ASSUME NEW o, NEW s, NEW items, NEW exact \in BOOLEAN, Represents(o, s, items, exact)
    PROVE  \E t : Represents(Linked!Copy(o), t, items, exact)
<1>1. o \in Lists /\ Chain(o, s) /\ (exact => Counted(o, s, items))
  BY DEF Represents
<1>2. PICK values : values = Linked!Values(o)
  OBVIOUS
<1>3. values \in Seq(Items)
  BY <1>1, <1>2, ValuesOfChain
<1>4. PICK t : Represents(Linked!Copy(o), t, values, TRUE)
  BY ONLY <1>2, <1>3, CopiedValues
<1>5. exact => values = items
  BY <1>1, <1>2, ValuesOfItems
<1>6. Represents(Linked!Copy(o), t, items, exact)
  BY <1>4, <1>5 DEF Represents
<1>7. QED
  BY <1>6

-----------------------------------------------------------------------------
\* The list through every call.

\* The nodes of the list are linked both ways, and if it is exact they are the
\* items its caller has in mind, counted, with _end on the last of them.
ListInv ==
    /\ input.exact \in BOOLEAN
    /\ \E s : Represents(object, s, input.items, input.exact)

\* A call that leaves a list of these items.
LEMMA Became ==
    ASSUME NEW o, NEW items, NEW exact \in BOOLEAN, NEW kept \in BOOLEAN, NEW t,
           Represents(o, t, items, kept), input.exact \in BOOLEAN,
           input.exact /\ exact => kept, Linked!Becomes(o, items, exact)
    PROVE  ListInv'
<1>1. object' = o
  BY DEF Linked!Becomes
<1>2. CASE input.exact /\ exact
  <2>1. input' = [items |-> items, exact |-> TRUE]
    BY <1>2 DEF Linked!Becomes
  <2>2. input'.items = items /\ input'.exact = TRUE
    BY <2>1
  <2>3. Represents(object', t, input'.items, input'.exact)
    BY <1>1, <1>2, <2>2 DEF Represents
  <2>4. QED
    BY <2>2, <2>3 DEF ListInv
<1>3. CASE ~ (input.exact /\ exact)
  <2>1. input' = [items |-> <<>>, exact |-> FALSE]
    BY <1>3 DEF Linked!Becomes
  <2>2. input'.items = <<>> /\ input'.exact = FALSE
    BY <2>1
  <2>3. Represents(object', t, input'.items, input'.exact)
    BY <1>1, <2>2 DEF Represents
  <2>4. QED
    BY <2>2, <2>3 DEF ListInv
<1>4. QED
  BY <1>2, <1>3

\* A call that throws.
LEMMA Threw ==
    ASSUME ListInv, Linked!Throws
    PROVE  ListInv'
<1>1. PICK s : Represents(object, s, input.items, input.exact)
  BY DEF ListInv
<1>2. input.exact \in BOOLEAN
  BY DEF ListInv
<1>3. PICK q, yes, z : q = [object EXCEPT !.current = z] /\ yes = TRUE /\ z = 0
  OBVIOUS
<1>4. z \in Nat /\ yes \in BOOLEAN /\ (input.exact /\ yes => input.exact)
  BY <1>3
<1>5. Represents(q, s, input.items, input.exact)
  BY ONLY <1>1, <1>2, <1>3, <1>4, CursorMoved
<1>6. Linked!Becomes(q, input.items, yes)
  BY <1>3 DEF Linked!Throws, Linked!Null
<1>7. QED
  BY ONLY <1>2, <1>4, <1>5, <1>6, Became

\* The items an exact list is asked about.
LEMMA ExactItems ==
    ASSUME NEW o, NEW s, NEW items, NEW exact \in BOOLEAN, Represents(o, s, items, exact)
    PROVE  exact => Len(items) = Len(s) /\ Linked!Values(o) = items
  BY ValuesOfItems DEF Represents, Counted

\* append() keeps the list.
LEMMA AppendItemKeeps ==
    ASSUME ListInv, Linked!AppendItem
    PROVE  ListInv'
<1>1. PICK s : Represents(object, s, input.items, input.exact)
  BY DEF ListInv
<1>2. input.exact \in BOOLEAN
  BY DEF ListInv
<1>3. PICK item \in Items :
         Linked!Becomes(Linked!append(object, item), Append(input.items, item), TRUE)
  BY DEF Linked!AppendItem
<1>4. \E t : Represents(Linked!append(object, item), t, Append(input.items, item), input.exact)
  BY ONLY <1>1, <1>2, <1>3, Appended
<1>5. QED
  BY <1>2, <1>3, <1>4, Became

\* insertAt() keeps the list, whether it links before a node, behind the last or
\* throws.
LEMMA InsertKeeps ==
    ASSUME ListInv, Linked!Insert
    PROVE  ListInv'
<1>1. PICK s : Represents(object, s, input.items, input.exact)
  BY DEF ListInv
<1>2. input.exact \in BOOLEAN
  BY DEF ListInv
<1>3. object \in Lists /\ Chain(object, s) /\ object.size \in Int
  BY <1>1 DEF Represents, Lists
<1>4. PICK item \in Items, index \in 0 .. object.size :
         LET at == Linked!setCursor(object, index)
         IN  IF at = -2 \/ (at = 0 /\ object.end = 0) THEN Linked!Throws
             ELSE Linked!Becomes(Linked!insertAt(object, index, item),
                      Linked!InsertAt(input.items, 1 + IF index > Len(input.items)
                                                       THEN Len(input.items) ELSE index, item),
                      at # 0)
  BY DEF Linked!Insert, Linked!Thrown, Linked!Null
<1>5. index \in Nat
  BY <1>3, <1>4
<1>6. PICK at, k, items :
         /\ at = Linked!setCursor(object, index)
         /\ k = 1 + IF index > Len(input.items) THEN Len(input.items) ELSE index
         /\ items = Linked!InsertAt(input.items, k, item)
  OBVIOUS
<1>7. CASE at = -2 \/ (at = 0 /\ object.end = 0)
  <2>1. Linked!Throws
    BY <1>4, <1>6, <1>7
  <2>2. QED
    BY <2>1, Threw
<1>8. CASE ~ (at = -2 \/ (at = 0 /\ object.end = 0))
  <2>1. Linked!Becomes(Linked!insertAt(object, index, item), items, at # 0)
    BY <1>4, <1>6, <1>8
  <2>2. at = IF index < Len(s) THEN s[index + 1] ELSE IF index = Len(s) THEN 0 ELSE -2
    BY <1>3, <1>5, <1>6, WalkIsTheChain
  <2>3. Len(s) \in Nat /\ \A i \in 1 .. Len(s) : s[i] # 0
    BY <1>3, ChainFacts
  <2>4. CASE at = 0
    <3>1. \E t : Represents(Linked!insertAt(object, index, item), t, <<>>, FALSE)
      BY <1>1, <1>2, <1>4, <1>6, <2>4, InsertedBehind
    <3>2. PICK t, no : Represents(Linked!insertAt(object, index, item), t, items, no) /\ no = FALSE
      BY <3>1 DEF Represents
    <3>3. no \in BOOLEAN /\ (input.exact /\ no => no)
      BY <3>2
    <3>4. Linked!Becomes(Linked!insertAt(object, index, item), items, no)
      BY <2>1, <2>4, <3>2
    <3>5. QED
      BY ONLY <1>2, <3>2, <3>3, <3>4, Became
  <2>5. CASE at # 0
    <3>1. index + 1 \in 1 .. Len(s) /\ at = s[index + 1] /\ index < Len(s)
      BY <1>5, <1>8, <2>2, <2>3, <2>5
    <3>2. PICK h : h = index + 1
      OBVIOUS
    <3>3. h \in 1 .. Len(s) /\ Linked!setCursor(object, index) = s[h]
      BY ONLY <1>6, <3>1, <3>2
    <3>4. PICK t : Represents(Linked!insertAt(object, index, item), t,
                              Linked!InsertAt(input.items, h, item), input.exact)
      BY ONLY <1>1, <1>2, <1>4, <3>3, InsertedBetween
    <3>5. input.exact => h = k
      <4>1. SUFFICES ASSUME input.exact PROVE h = k
        OBVIOUS
      <4>2. Len(input.items) = Len(s)
        BY <1>1, <1>2, <4>1, ExactItems
      <4>3. QED
        BY <1>5, <1>6, <2>3, <3>1, <3>2, <4>2
    <3>6. Represents(Linked!insertAt(object, index, item), t, items, input.exact)
      BY <1>6, <3>4, <3>5 DEF Represents
    <3>7. PICK yes : yes = TRUE
      OBVIOUS
    <3>8. Linked!Becomes(Linked!insertAt(object, index, item), items, yes)
      BY <2>1, <2>5, <3>7
    <3>9. QED
      BY <1>2, <3>6, <3>7, <3>8, Became
  <2>6. QED
    BY <2>4, <2>5
<1>9. QED
  BY <1>7, <1>8

\* remove() keeps the list, exact unless it took the last of several.
LEMMA RemoveItemKeeps ==
    ASSUME ListInv, Linked!RemoveItem
    PROVE  ListInv'
<1>1. PICK s : Represents(object, s, input.items, input.exact)
  BY DEF ListInv
<1>2. input.exact \in BOOLEAN
  BY DEF ListInv
<1>3. PICK item \in Items :
         LET at == Linked!Place(input.items, item)
         IN  Linked!Becomes(Linked!remove(object, item),
                            IF at = 0 THEN input.items ELSE Linked!RemoveAt(input.items, at),
                            at < Len(input.items) \/ at \in {0, 1})
  BY DEF Linked!RemoveItem
<1>4. PICK at, items, certain :
         /\ at = Linked!Place(input.items, item)
         /\ items = IF at = 0 THEN input.items ELSE Linked!RemoveAt(input.items, at)
         /\ certain = (at < Len(input.items) \/ at \in {0, 1})
  OBVIOUS
<1>5. certain \in BOOLEAN /\ Linked!Becomes(Linked!remove(object, item), items, certain)
  BY <1>3, <1>4
<1>6. PICK k : k = Linked!Place(Linked!Values(object), item)
  OBVIOUS
<1>7. PICK t : Represents(Linked!remove(object, item), t,
                          IF k = 0 THEN input.items ELSE Linked!RemoveAt(input.items, k),
                          input.exact /\ (k < Len(s) \/ k \in {0, 1}))
  BY ONLY <1>1, <1>2, <1>6, ItemRemoved
<1>8. PICK kept : kept = (input.exact /\ certain)
  OBVIOUS
<1>9. input.exact => k = at /\ Len(input.items) = Len(s)
  BY <1>1, <1>2, <1>4, <1>6, ExactItems
<1>10. Represents(Linked!remove(object, item), t, items, kept)
  BY <1>4, <1>7, <1>8, <1>9 DEF Represents
<1>11. QED
  BY <1>2, <1>5, <1>8, <1>10, Became

\* A cursor that found a node is on one of the chain.
LEMMA CursorOnNode ==
    ASSUME NEW o \in Lists, NEW s, Chain(o, s), NEW index \in Nat,
           Linked!setCursor(o, index) \notin {0, -2}
    PROVE  index + 1 \in 1 .. Len(s) /\ Linked!setCursor(o, index) = s[index + 1]
<1>1. Linked!setCursor(o, index) = IF index < Len(s) THEN s[index + 1]
                                   ELSE IF index = Len(s) THEN 0 ELSE -2
  BY WalkIsTheChain
<1>2. Len(s) \in Nat
  BY ChainFacts
<1>3. QED
  BY <1>1, <1>2

\* removeAt() keeps the list.
LEMMA RemoveIndexKeeps ==
    ASSUME ListInv, Linked!RemoveIndex
    PROVE  ListInv'
<1>1. PICK s : Represents(object, s, input.items, input.exact)
  BY DEF ListInv
<1>2. input.exact \in BOOLEAN
  BY DEF ListInv
<1>3. object \in Lists /\ Chain(object, s) /\ Len(Linked!Values(object)) = Len(s) /\ Len(s) \in Nat
  BY <1>1, ValuesOfChain, ChainFacts DEF Represents
<1>4. PICK index \in 0 .. Len(Linked!Values(object)) :
         IF Linked!setCursor(object, index) \in {0, -2} THEN Linked!Throws
         ELSE Linked!Becomes(Linked!removeAt(object, index),
                             IF index < Len(input.items)
                             THEN Linked!RemoveAt(input.items, index + 1)
                             ELSE input.items, TRUE)
  BY DEF Linked!RemoveIndex, Linked!Thrown, Linked!Null
<1>5. CASE Linked!setCursor(object, index) \in {0, -2}
  BY <1>4, <1>5, Threw
<1>6. CASE Linked!setCursor(object, index) \notin {0, -2}
  <2>1. index \in Nat
    BY <1>3, <1>4
  <2>2. PICK h, items, yes :
           /\ h = index + 1 /\ yes = TRUE
           /\ items = IF index < Len(input.items) THEN Linked!RemoveAt(input.items, index + 1)
                      ELSE input.items
    OBVIOUS
  <2>3. h \in 1 .. Len(s) /\ Linked!setCursor(object, index) = s[h]
    BY ONLY <1>3, <1>6, <2>1, <2>2, CursorOnNode
  <2>4. Represents(Linked!removeAt(object, index), Linked!RemoveAt(s, h),
                   Linked!RemoveAt(input.items, h), input.exact)
    BY ONLY <1>1, <1>2, <2>3, IndexRemoved
  <2>5. input.exact => items = Linked!RemoveAt(input.items, h)
    <3>1. SUFFICES ASSUME input.exact PROVE items = Linked!RemoveAt(input.items, h)
      OBVIOUS
    <3>2. Len(input.items) = Len(s)
      BY <1>1, <1>2, <3>1, ExactItems
    <3>3. index < Len(input.items)
      BY ONLY <1>3, <2>1, <2>2, <2>3, <3>2
    <3>4. QED
      BY ONLY <2>2, <3>3
  <2>6. Represents(Linked!removeAt(object, index), Linked!RemoveAt(s, h), items, input.exact)
    BY <2>4, <2>5 DEF Represents
  <2>7. Linked!Becomes(Linked!removeAt(object, index), items, yes)
    BY <1>4, <1>6, <2>2
  <2>8. yes \in BOOLEAN /\ (input.exact /\ yes => input.exact)
    BY <2>2
  <2>9. QED
    BY ONLY <1>2, <2>6, <2>7, <2>8, Became
<1>7. QED
  BY <1>5, <1>6

\* clear() keeps the list.
LEMMA ClearKeeps ==
    ASSUME ListInv, Linked!Clear
    PROVE  ListInv'
<1>1. PICK s : Represents(object, s, input.items, input.exact)
  BY DEF ListInv
<1>2. input.exact \in BOOLEAN
  BY DEF ListInv
<1>3. \E t : Represents(Linked!clear(object), t, <<>>, input.exact)
  BY ONLY <1>1, <1>2, Cleared
<1>4. Linked!Becomes(Linked!clear(object), <<>>, TRUE)
  BY DEF Linked!Clear
<1>5. QED
  BY <1>2, <1>3, <1>4, Became

\* get() keeps the list.
LEMMA GetKeeps ==
    ASSUME ListInv, Linked!Get
    PROVE  ListInv'
<1>1. PICK s : Represents(object, s, input.items, input.exact)
  BY DEF ListInv
<1>2. input.exact \in BOOLEAN
  BY DEF ListInv
<1>3. object \in Lists /\ Chain(object, s) /\ Len(Linked!Values(object)) = Len(s) /\ Len(s) \in Nat
  BY <1>1, ValuesOfChain, ChainFacts DEF Represents
<1>4. PICK index \in 0 .. Len(Linked!Values(object)) :
         IF Linked!setCursor(object, index) \in {0, -2} THEN Linked!Throws
         ELSE Linked!Becomes([object EXCEPT !.current = Linked!setCursor(object, index)],
                             input.items, TRUE)
  BY DEF Linked!Get, Linked!Thrown, Linked!Null
<1>5. CASE Linked!setCursor(object, index) \in {0, -2}
  BY <1>4, <1>5, Threw
<1>6. CASE Linked!setCursor(object, index) \notin {0, -2}
  <2>1. index \in Nat
    BY <1>3, <1>4
  <2>2. PICK c, yes : c = Linked!setCursor(object, index) /\ yes = TRUE
    OBVIOUS
  <2>3. c \in Nat
    <3>1. index + 1 \in 1 .. Len(s) /\ c = s[index + 1]
      BY ONLY <1>3, <1>6, <2>1, <2>2, CursorOnNode
    <3>2. QED
      BY <1>3, <3>1, ChainFacts
  <2>4. Represents([object EXCEPT !.current = c], s, input.items, input.exact)
    BY ONLY <1>1, <1>2, <2>3, CursorMoved
  <2>5. Linked!Becomes([object EXCEPT !.current = c], input.items, yes)
    BY <1>4, <1>6, <2>2
  <2>6. yes \in BOOLEAN /\ (input.exact /\ yes => input.exact)
    BY <2>2
  <2>7. QED
    BY ONLY <1>2, <2>4, <2>5, <2>6, Became
<1>7. QED
  BY <1>5, <1>6

\* The copy is the list.
LEMMA TakeCopyKeeps ==
    ASSUME ListInv, Linked!TakeCopy
    PROVE  ListInv'
<1>1. PICK s : Represents(object, s, input.items, input.exact)
  BY DEF ListInv
<1>2. input.exact \in BOOLEAN
  BY DEF ListInv
<1>3. \E t : Represents(Linked!Copy(object), t, input.items, input.exact)
  BY ONLY <1>1, <1>2, Copied
<1>4. Linked!Becomes(Linked!Copy(object), input.items, TRUE)
  BY DEF Linked!TakeCopy
<1>5. QED
  BY <1>2, <1>3, <1>4, Became

\* A new list has no nodes and no items.
LEMMA InitLinked == Linked!Init => ListInv
<1>1. SUFFICES ASSUME Linked!Init PROVE ListInv
  OBVIOUS
<1>2. input.items = <<>> /\ input.exact = TRUE /\ object = Linked!Empty
  BY <1>1 DEF Linked!Init
<1>3. Represents(object, <<>>, input.items, input.exact)
  BY <1>2, EmptyList, Zenon
<1>4. QED
  BY <1>2, <1>3 DEF ListInv

\* The nodes stay linked both ways, and are the items while the list is exact.
LEMMA ListKept == ListInv /\ [Linked!Next]_Linked!vars => ListInv'
<1>1. SUFFICES ASSUME ListInv, [Linked!Next]_Linked!vars PROVE ListInv'
  OBVIOUS
<1>2. CASE UNCHANGED Linked!vars
  BY <1>1, <1>2 DEF ListInv, Linked!vars
<1>3. QED
  BY <1>1, <1>2, AppendItemKeeps, InsertKeeps, RemoveItemKeeps, RemoveIndexKeeps, ClearKeeps,
     GetKeeps, TakeCopyKeeps DEF Linked!Next

\* A list that represents its items is the sequence its caller has in mind, its
\* size and indexOf() tell of that sequence, and _end is on its last item.
LEMMA RepresentedIsTheSequence == ListInv => Linked!ListIsTheSequence
<1>1. SUFFICES ASSUME ListInv, input.exact PROVE
         /\ Linked!Values(object) = input.items /\ object.size = Len(input.items)
         /\ \A item \in Items :
               Linked!indexOf(object, item) + 1 = Linked!Place(input.items, item)
         /\ input.items # <<>> => object.end = Linked!Last(Linked!Nodes(object))
  BY DEF Linked!ListIsTheSequence
<1>2. PICK s : Represents(object, s, input.items, input.exact)
  BY <1>1 DEF ListInv
<1>3. object \in Lists /\ Chain(object, s) /\ Counted(object, s, input.items)
  BY <1>1, <1>2 DEF Represents
<1>4. PICK values : values = Linked!Values(object)
  OBVIOUS
<1>5. values = input.items
  BY <1>3, <1>4, ValuesOfItems
<1>6. ASSUME NEW item \in Items
      PROVE  Linked!indexOf(object, item) + 1 = Linked!Place(input.items, item)
  <2>1. PICK k : k = Linked!Place(input.items, item)
    OBVIOUS
  <2>2. k \in Int
    <3>1. input.items \in Seq(Items) /\ Len(input.items) \in Nat
      BY <1>3, LenProperties DEF Counted
    <3>2. k \in 0 .. Len(input.items)
      BY ONLY <2>1, <3>1, PlaceOfItem
    <3>3. QED
      BY <3>1, <3>2
  <2>3. Linked!indexOf(object, item) = k - 1
    BY <1>4, <1>5, <2>1 DEF Linked!indexOf
  <2>4. QED
    BY <2>1, <2>2, <2>3
<1>7. Linked!Nodes(object) = s
  BY <1>3, NodesAreTheChain
<1>8. object.size = Len(input.items)
  BY <1>3 DEF Counted
<1>9. ASSUME input.items # <<>> PROVE object.end = s[Len(s)]
  <2>1. input.items \in Seq(Items) /\ Len(input.items) = Len(s)
    BY <1>3 DEF Counted
  <2>2. Len(s) # 0
    BY <1>9, <2>1, EmptySeq
  <2>3. QED
    BY <1>3, <2>2 DEF Counted
<1>10. QED
  BY <1>4, <1>5, <1>6, <1>7, <1>8, <1>9 DEF Linked!Last

\* Where the nodes are a chain the links go back as they go forward, and an
\* iteration meets no node twice.
LEMMA RepresentedIsMirrored == ListInv => Linked!LinksMirror
<1>1. SUFFICES ASSUME ListInv PROVE Linked!LinksMirror
  OBVIOUS
<1>2. PICK s : Represents(object, s, input.items, input.exact)
  BY <1>1 DEF ListInv
<1>3. object \in Lists /\ Chain(object, s)
  BY <1>2 DEF Represents
<1>4. Linked!Nodes(object) = s
  BY <1>3, NodesAreTheChain
<1>5. Len(s) \in Nat /\ DOMAIN s = 1 .. Len(s)
  BY <1>3, LenProperties DEF Chain
<1>6. ASSUME NEW i \in 1 .. Len(s) - 1 PROVE object.nodes[s[i + 1]].previous = s[i]
  <2>1. PICK h : h = i + 1
    OBVIOUS
  <2>2. h \in 1 .. Len(s) /\ h # 1 /\ h - 1 = i
    BY <1>5, <2>1
  <2>3. object.nodes[s[h]].previous = s[h - 1]
    BY <1>3, <2>2 DEF Chain
  <2>4. QED
    BY <2>1, <2>2, <2>3
<1>7. ASSUME s # <<>> PROVE object.nodes[s[1]].previous = 0
  <2>1. Len(s) # 0
    BY <1>3, <1>7, EmptySeq DEF Chain
  <2>2. 1 \in 1 .. Len(s)
    BY <1>5, <2>1
  <2>3. QED
    BY <1>3, <2>2 DEF Chain
<1>8. Linked!IsInjective(s)
  <2>1. \A i, j \in 1 .. Len(s) : s[i] = s[j] => i = j
    BY <1>3 DEF Chain
  <2>2. QED
    BY <1>5, <2>1, Zenon DEF Linked!IsInjective
<1>9. QED
  BY <1>4, <1>6, <1>7, <1>8 DEF Linked!LinksMirror, Linked!Node, Linked!Null

-----------------------------------------------------------------------------
\* EBWebSocket.

\* The bits of a number of one byte, and the number of the bits.
LEMMA ByteOfBits ==
    ASSUME NEW a \in 0 .. 255
    PROVE  a = Socket!Bit(a, 1) + 2 * Socket!Bit(a, 2) + 4 * Socket!Bit(a, 4)
               + 8 * Socket!Bit(a, 8) + 16 * Socket!Bit(a, 16) + 32 * Socket!Bit(a, 32)
               + 64 * Socket!Bit(a, 64) + 128 * Socket!Bit(a, 128)
<1>1. a = 2 * (a \div 2) + Socket!Bit(a, 1)
  BY DEF Socket!Bit
<1>2. a \div 2 = 2 * (a \div 4) + Socket!Bit(a, 2)
  BY DEF Socket!Bit
<1>3. a \div 4 = 2 * (a \div 8) + Socket!Bit(a, 4)
  BY DEF Socket!Bit
<1>4. a \div 8 = 2 * (a \div 16) + Socket!Bit(a, 8)
  BY DEF Socket!Bit
<1>5. a \div 16 = 2 * (a \div 32) + Socket!Bit(a, 16)
  BY DEF Socket!Bit
<1>6. a \div 32 = 2 * (a \div 64) + Socket!Bit(a, 32)
  BY DEF Socket!Bit
<1>7. a \div 64 = 2 * (a \div 128) + Socket!Bit(a, 64)
  BY DEF Socket!Bit
<1>8. a \div 128 = Socket!Bit(a, 128)
  BY DEF Socket!Bit
<1>9. /\ Socket!Bit(a, 1) \in Int /\ Socket!Bit(a, 2) \in Int /\ Socket!Bit(a, 4) \in Int
      /\ Socket!Bit(a, 8) \in Int /\ Socket!Bit(a, 16) \in Int /\ Socket!Bit(a, 32) \in Int
      /\ Socket!Bit(a, 64) \in Int /\ Socket!Bit(a, 128) \in Int
  BY DEF Socket!Bit
<1>10. QED
  BY ONLY <1>1, <1>2, <1>3, <1>4, <1>5, <1>6, <1>7, <1>8, <1>9, a \in Int

LEMMA BitsOfByte ==
    ASSUME NEW b1 \in {0, 1}, NEW b2 \in {0, 1}, NEW b4 \in {0, 1}, NEW b8 \in {0, 1},
           NEW b16 \in {0, 1}, NEW b32 \in {0, 1}, NEW b64 \in {0, 1}, NEW b128 \in {0, 1},
           NEW x, x = b1 + 2 * b2 + 4 * b4 + 8 * b8 + 16 * b16 + 32 * b32 + 64 * b64 + 128 * b128
    PROVE  /\ x \in 0 .. 255
           /\ Socket!Bit(x, 1) = b1 /\ Socket!Bit(x, 2) = b2 /\ Socket!Bit(x, 4) = b4
           /\ Socket!Bit(x, 8) = b8 /\ Socket!Bit(x, 16) = b16 /\ Socket!Bit(x, 32) = b32
           /\ Socket!Bit(x, 64) = b64 /\ Socket!Bit(x, 128) = b128
<1>0. x \in 0 .. 255
  OBVIOUS
<1>1. x \div 1 = b1 + 2 * (b2 + 2 * b4 + 4 * b8 + 8 * b16 + 16 * b32 + 32 * b64 + 64 * b128)
  OBVIOUS
<1>2. x \div 2 = b2 + 2 * (b4 + 2 * b8 + 4 * b16 + 8 * b32 + 16 * b64 + 32 * b128)
  OBVIOUS
<1>3. x \div 4 = b4 + 2 * (b8 + 2 * b16 + 4 * b32 + 8 * b64 + 16 * b128)
  OBVIOUS
<1>4. x \div 8 = b8 + 2 * (b16 + 2 * b32 + 4 * b64 + 8 * b128)
  OBVIOUS
<1>5. x \div 16 = b16 + 2 * (b32 + 2 * b64 + 4 * b128)
  OBVIOUS
<1>6. x \div 32 = b32 + 2 * (b64 + 2 * b128)
  OBVIOUS
<1>7. x \div 64 = b64 + 2 * b128
  OBVIOUS
<1>8. x \div 128 = b128
  OBVIOUS
<1>9. \A b \in {0, 1}, y \in Int : (b + 2 * y) % 2 = b
  OBVIOUS
<1>10. b128 % 2 = b128
  OBVIOUS
<1>11. QED
  BY <1>0, <1>1, <1>2, <1>3, <1>4, <1>5, <1>6, <1>7, <1>8, <1>9, <1>10 DEF Socket!Bit

\* A byte that was masked is unmasked by the same mask.
LEMMA Unmasked ==
    ASSUME NEW a \in 0 .. 255, NEW k \in Nat
    PROVE  /\ Socket!Xor(a, k) \in 0 .. 255
           /\ Socket!Xor(Socket!Xor(a, k), k) = a
<1>1. PICK a1, a2, a4, a8, a16, a32, a64, a128 :
         /\ a1 = Socket!Bit(a, 1) /\ a2 = Socket!Bit(a, 2) /\ a4 = Socket!Bit(a, 4)
         /\ a8 = Socket!Bit(a, 8) /\ a16 = Socket!Bit(a, 16) /\ a32 = Socket!Bit(a, 32)
         /\ a64 = Socket!Bit(a, 64) /\ a128 = Socket!Bit(a, 128)
  OBVIOUS
<1>2. PICK k1, k2, k4, k8, k16, k32, k64, k128 :
         /\ k1 = Socket!Bit(k, 1) /\ k2 = Socket!Bit(k, 2) /\ k4 = Socket!Bit(k, 4)
         /\ k8 = Socket!Bit(k, 8) /\ k16 = Socket!Bit(k, 16) /\ k32 = Socket!Bit(k, 32)
         /\ k64 = Socket!Bit(k, 64) /\ k128 = Socket!Bit(k, 128)
  OBVIOUS
<1>3. /\ a1 \in {0, 1} /\ a2 \in {0, 1} /\ a4 \in {0, 1} /\ a8 \in {0, 1}
      /\ a16 \in {0, 1} /\ a32 \in {0, 1} /\ a64 \in {0, 1} /\ a128 \in {0, 1}
  BY <1>1 DEF Socket!Bit
<1>4. /\ k1 \in {0, 1} /\ k2 \in {0, 1} /\ k4 \in {0, 1} /\ k8 \in {0, 1}
      /\ k16 \in {0, 1} /\ k32 \in {0, 1} /\ k64 \in {0, 1} /\ k128 \in {0, 1}
  BY <1>2 DEF Socket!Bit
<1>5. PICK x1, x2, x4, x8, x16, x32, x64, x128 :
         /\ x1 = (a1 + k1) % 2 /\ x2 = (a2 + k2) % 2 /\ x4 = (a4 + k4) % 2
         /\ x8 = (a8 + k8) % 2 /\ x16 = (a16 + k16) % 2 /\ x32 = (a32 + k32) % 2
         /\ x64 = (a64 + k64) % 2 /\ x128 = (a128 + k128) % 2
  OBVIOUS
<1>6. \A a0, k0 \in {0, 1} : (a0 + k0) % 2 \in {0, 1} /\ (((a0 + k0) % 2) + k0) % 2 = a0
  OBVIOUS
<1>7. /\ x1 \in {0, 1} /\ x2 \in {0, 1} /\ x4 \in {0, 1} /\ x8 \in {0, 1}
      /\ x16 \in {0, 1} /\ x32 \in {0, 1} /\ x64 \in {0, 1} /\ x128 \in {0, 1}
      /\ (x1 + k1) % 2 = a1 /\ (x2 + k2) % 2 = a2 /\ (x4 + k4) % 2 = a4 /\ (x8 + k8) % 2 = a8
      /\ (x16 + k16) % 2 = a16 /\ (x32 + k32) % 2 = a32 /\ (x64 + k64) % 2 = a64
      /\ (x128 + k128) % 2 = a128
  BY ONLY <1>3, <1>4, <1>5, <1>6
<1>8. PICK x : x = Socket!Xor(a, k)
  OBVIOUS
<1>9. x = x1 + 2 * x2 + 4 * x4 + 8 * x8 + 16 * x16 + 32 * x32 + 64 * x64 + 128 * x128
  <2>1. x = 1 * x1 + 2 * x2 + 4 * x4 + 8 * x8 + 16 * x16 + 32 * x32 + 64 * x64 + 128 * x128
    BY <1>1, <1>2, <1>5, <1>8, Zenon DEF Socket!Xor
  <2>2. QED
    BY ONLY <1>7, <2>1
<1>10. /\ x \in 0 .. 255
       /\ Socket!Bit(x, 1) = x1 /\ Socket!Bit(x, 2) = x2 /\ Socket!Bit(x, 4) = x4
       /\ Socket!Bit(x, 8) = x8 /\ Socket!Bit(x, 16) = x16 /\ Socket!Bit(x, 32) = x32
       /\ Socket!Bit(x, 64) = x64 /\ Socket!Bit(x, 128) = x128
  BY ONLY <1>7, <1>9, BitsOfByte, SMTT(30)
<1>11. Socket!Xor(x, k) = 1 * a1 + 2 * a2 + 4 * a4 + 8 * a8 + 16 * a16 + 32 * a32 + 64 * a64
                          + 128 * a128
  BY <1>2, <1>7, <1>10, ZenonT(60) DEF Socket!Xor
<1>12. a = a1 + 2 * a2 + 4 * a4 + 8 * a8 + 16 * a16 + 32 * a32 + 64 * a64 + 128 * a128
  BY <1>1, ByteOfBits
<1>13. Socket!Xor(x, k) = a
  BY ONLY <1>3, <1>11, <1>12
<1>14. QED
  BY <1>8, <1>10, <1>13

LEMMA XorIsNumber ==
    ASSUME NEW a \in Nat, NEW k \in Nat
    PROVE  Socket!Xor(a, k) \in Nat
BY DEF Socket!Xor, Socket!Bit

\* What FramesAssumption says of one frame.
FrameOk(frame) ==
    /\ frame \in [opcode : 0 .. 15, long : BOOLEAN, payload : Seq(0 .. 255)]
    /\ Socket!WellFormed(frame)

\* The bytes in front of the mask, and in front of the payload.
HeadLength(frame) == IF frame.long THEN 4 ELSE 2
Front(frame) == HeadLength(frame) + 4

\* The bytes of a frame, one by one.
IsSent(wire, frame) ==
    LET size == Len(frame.payload)
        h == HeadLength(frame)
    IN  /\ wire \in Seq(Nat) /\ size \in Nat /\ Len(wire) = h + 4 + size
        /\ wire[1] = 128 + frame.opcode
        /\ wire[2] = 128 + (IF frame.long THEN 126 ELSE size)
        /\ frame.long => wire[3] = size \div 256 /\ wire[4] = size % 256
        /\ \A i \in 1 .. 4 : wire[h + i] = Socket!Key[i]
        /\ \A i \in 1 .. size : wire[h + 4 + i]
                                   = Socket!Xor(frame.payload[i], Socket!Key[((i - 1) % 4) + 1])

\* The payload is bytes.
LEMMA PayloadBytes ==
    ASSUME NEW frame, FrameOk(frame)
    PROVE  /\ frame.payload \in Seq(Nat) /\ Len(frame.payload) \in Nat
           /\ frame.opcode \in 0 .. 15 /\ frame.long \in BOOLEAN
           /\ \A i \in 1 .. Len(frame.payload) : frame.payload[i] \in 0 .. 255
           /\ Len(frame.payload) < (IF frame.long THEN 1024 ELSE 126)
<1>1. PICK b : b = frame.payload
  OBVIOUS
<1>2. b \in Seq(0 .. 255) /\ frame.opcode \in 0 .. 15 /\ frame.long \in BOOLEAN
  BY <1>1 DEF FrameOk
<1>3. Len(b) \in Nat /\ \A i \in 1 .. Len(b) : b[i] \in 0 .. 255
  BY <1>2, LenProperties, ElementOfSeq
<1>4. b \in Seq(Nat)
  <2>1. b \in [1 .. Len(b) -> 0 .. 255]
    BY <1>2, LenProperties
  <2>0. \A x \in 0 .. 255 : x \in Nat
    OBVIOUS
  <2>2. \A i \in 1 .. Len(b) : b[i] \in Nat
    BY ONLY <1>3, <2>0, Zenon
  <2>3. b \in [1 .. Len(b) -> Nat]
    BY ONLY <2>1, <2>2
  <2>4. QED
    BY <1>3, <2>3, SeqDef
<1>5. Len(b) < (IF frame.long THEN 1024 ELSE 126)
  BY <1>1 DEF FrameOk, Socket!WellFormed
<1>6. QED
  BY <1>1, <1>2, <1>3, <1>4, <1>5

\* A frame on the wire.
LEMMA FrameSent ==
    ASSUME NEW frame, FrameOk(frame)
    PROVE  IsSent(Socket!Wire(frame), frame)
<1>1. PICK b, n, h : b = frame.payload /\ n = Len(b) /\ h = HeadLength(frame)
  OBVIOUS
<1>2. /\ b \in Seq(Nat) /\ n \in Nat /\ \A i \in 1 .. n : b[i] \in 0 .. 255
      /\ frame.opcode \in 0 .. 15 /\ frame.long \in BOOLEAN /\ h \in {2, 4}
      /\ h = IF frame.long THEN 4 ELSE 2
  BY <1>1, PayloadBytes DEF HeadLength
<1>3. PICK head : head = Socket!FrameHead(frame)
  OBVIOUS
<1>4. /\ head \in Seq(Nat) /\ Len(head) = h /\ head[1] = 128 + frame.opcode
      /\ head[2] = 128 + (IF frame.long THEN 126 ELSE n)
      /\ frame.long => head[3] = n \div 256 /\ head[4] = n % 256
  <2>1. CASE frame.long
    <3>1. head = <<128 + frame.opcode, 128 + 126, n \div 256, n % 256>>
      BY <1>1, <1>3, <2>1 DEF Socket!FrameHead
    <3>2. 128 + frame.opcode \in Nat /\ 128 + 126 \in Nat /\ n \div 256 \in Nat /\ n % 256 \in Nat
      BY <1>2
    <3>3. QED
      BY <1>2, <2>1, <3>1, <3>2
  <2>2. CASE ~ frame.long
    <3>1. head = <<128 + frame.opcode, 128 + n>>
      BY <1>1, <1>3, <2>2 DEF Socket!FrameHead
    <3>2. 128 + frame.opcode \in Nat /\ 128 + n \in Nat
      BY <1>2
    <3>3. QED
      BY <1>2, <2>2, <3>1, <3>2
  <2>3. QED
    BY <2>1, <2>2
<1>5. PICK key : key = Socket!Key
  OBVIOUS
<1>6. key \in Seq(Nat) /\ Len(key) = 4 /\ \A i \in 1 .. 4 : key[i] \in Nat
  BY <1>5 DEF Socket!Key
<1>7. PICK masked : masked = Socket!Masked(b)
  OBVIOUS
<1>8. /\ masked \in Seq(Nat) /\ Len(masked) = n
      /\ \A i \in 1 .. n : masked[i] = Socket!Xor(b[i], key[((i - 1) % 4) + 1])
  <2>1. masked = [i \in 1 .. n |-> Socket!Xor(b[i], key[((i - 1) % 4) + 1])]
    BY <1>1, <1>5, <1>7 DEF Socket!Masked
  <2>2. \A i \in 1 .. n : Socket!Xor(b[i], key[((i - 1) % 4) + 1]) \in Nat
    <3> SUFFICES ASSUME NEW i \in 1 .. n PROVE Socket!Xor(b[i], key[((i - 1) % 4) + 1]) \in Nat
      OBVIOUS
    <3>1. ((i - 1) % 4) + 1 \in 1 .. 4
      BY <1>2
    <3>2. key[((i - 1) % 4) + 1] \in Nat
      BY <1>6, <3>1
    <3>3. b[i] \in Nat
      <4>1. b[i] \in 0 .. 255
        BY ONLY <1>2, i \in 1 .. n, Zenon
      <4>2. QED
        BY ONLY <4>1
    <3>4. QED
      BY ONLY <3>2, <3>3, XorIsNumber
  <2>3. masked \in [1 .. n -> Nat]
    BY <2>1, <2>2
  <2>4. masked \in Seq(Nat) /\ Len(masked) = n
    BY <1>2, <2>3, SeqDef, LenProperties
  <2>5. QED
    BY <2>1, <2>4
<1>9. PICK rest : rest = key \o masked
  OBVIOUS
<1>10. /\ rest \in Seq(Nat) /\ Len(rest) = 4 + n
       /\ \A i \in 1 .. 4 : rest[i] = key[i]
       /\ \A i \in 1 .. n : rest[4 + i] = masked[i]
  <2>1. key \in Seq(Nat) /\ masked \in Seq(Nat)
    BY <1>6, <1>8
  <2>2. /\ rest \in Seq(Nat) /\ Len(rest) = Len(key) + Len(masked)
        /\ \A i \in 1 .. Len(key) : rest[i] = key[i]
        /\ \A i \in 1 .. Len(masked) : rest[Len(key) + i] = masked[i]
    BY ONLY <1>9, <2>1, Concatenated
  <2>3. QED
    BY <1>6, <1>8, <2>2
<1>11. PICK wire : wire = head \o rest
  OBVIOUS
<1>12. /\ wire \in Seq(Nat) /\ Len(wire) = h + (4 + n)
       /\ \A i \in 1 .. h : wire[i] = head[i]
       /\ \A i \in 1 .. 4 + n : wire[h + i] = rest[i]
  <2>1. head \in Seq(Nat) /\ rest \in Seq(Nat)
    BY <1>4, <1>10
  <2>2. /\ wire \in Seq(Nat) /\ Len(wire) = Len(head) + Len(rest)
        /\ \A i \in 1 .. Len(head) : wire[i] = head[i]
        /\ \A i \in 1 .. Len(rest) : wire[Len(head) + i] = rest[i]
    BY ONLY <1>11, <2>1, Concatenated
  <2>3. QED
    BY <1>4, <1>10, <2>2
<1>13. wire = Socket!Wire(frame)
  BY <1>1, <1>3, <1>5, <1>7, <1>9, <1>11 DEF Socket!Wire
<1>14. /\ wire[1] = 128 + frame.opcode
       /\ wire[2] = 128 + (IF frame.long THEN 126 ELSE n)
       /\ frame.long => wire[3] = n \div 256 /\ wire[4] = n % 256
  <2>1. 1 \in 1 .. h /\ 2 \in 1 .. h /\ (frame.long => 3 \in 1 .. h /\ 4 \in 1 .. h)
    BY <1>2
  <2>2. QED
    BY <1>4, <1>12, <2>1
<1>15. ASSUME NEW i \in 1 .. 4 PROVE wire[h + i] = key[i]
  <2>1. i \in 1 .. 4 + n
    BY <1>2
  <2>2. QED
    BY <1>10, <1>12, <2>1
<1>16. ASSUME NEW i \in 1 .. n PROVE wire[h + 4 + i] = Socket!Xor(b[i], key[((i - 1) % 4) + 1])
  <2>1. 4 + i \in 1 .. 4 + n /\ h + (4 + i) = h + 4 + i
    BY <1>2
  <2>2. wire[h + (4 + i)] = rest[4 + i]
    BY <1>12, <2>1
  <2>3. QED
    BY <1>8, <1>10, <2>1, <2>2
<1>17. Len(wire) = h + 4 + n
  BY <1>2, <1>12
<1>18. IsSent(wire, frame)
  <2>1. n = Len(frame.payload) /\ h = HeadLength(frame) /\ b = frame.payload /\ key = Socket!Key
    BY <1>1, <1>5
  <2>2. wire \in Seq(Nat) /\ n \in Nat
    BY <1>2, <1>12
  <2>3. QED
    BY ONLY <1>14, <1>15, <1>16, <1>17, <2>1, <2>2, Zenon DEF IsSent
<1>19. QED
  BY <1>13, <1>18

FrameStates == {"INIT", "PAYLOAD", "PAYLOAD16", "PAYLOAD64", "MASK", "DATA"}
Reported == Nat \X Seq(Nat)
Sockets == [readState : FrameStates, payloadSize : Nat, pos : Nat, opcode : Nat,
            isMask : BOOLEAN, mask : [0 .. 3 -> Nat], data : Seq(Nat), reported : Seq(Reported)]

\* The fields of the socket.
LEMMA SocketFields ==
    ASSUME NEW o \in Sockets
    PROVE  /\ o.readState \in FrameStates /\ o.payloadSize \in Nat /\ o.pos \in Nat
           /\ o.opcode \in Nat /\ o.isMask \in BOOLEAN /\ o.mask \in [0 .. 3 -> Nat]
           /\ o.data \in Seq(Nat) /\ o.reported \in Seq(Reported)
           /\ o = [readState |-> o.readState, payloadSize |-> o.payloadSize, pos |-> o.pos,
                   opcode |-> o.opcode, isMask |-> o.isMask, mask |-> o.mask,
                   data |-> o.data, reported |-> o.reported]
BY DEF Sockets

\* A string of C is a part of the text, and all of it without a zero.
LEMMA StringOfText ==
    ASSUME NEW s \in Seq(Nat)
    PROVE  /\ Socket!CString(s) \in Seq(Nat)
           /\ (\A i \in 1 .. Len(s) : s[i] # 0) => Socket!CString(s) = s
<1> DEFINE zeros == {i \in 1 .. Len(s) : s[i] = 0}
<1>1. Len(s) \in Nat /\ \A i \in 1 .. Len(s) : s[i] \in Nat
  BY LenProperties, ElementOfSeq
<1>2. zeros \in SUBSET Nat /\ zeros \subseteq 1 .. Len(s)
  BY <1>1
<1>3. Socket!CString(s) = IF zeros = {} THEN s ELSE SubSeq(s, 1, Socket!Min(zeros) - 1)
  BY DEF Socket!CString
<1>4. (\A i \in 1 .. Len(s) : s[i] # 0) => zeros = {}
  OBVIOUS
<1> HIDE DEF zeros
<1>5. ASSUME zeros # {} PROVE SubSeq(s, 1, Socket!Min(zeros) - 1) \in Seq(Nat)
  <2>1. \E x \in zeros : \A y \in zeros : x <= y
    BY <1>2, <1>5, Least
  <2>2. Socket!Min(zeros) \in zeros
    BY <2>1 DEF Socket!Min
  <2>3. PICK m, n, at : m = Socket!Min(zeros) /\ n = Len(s) /\ at = m - 1
    OBVIOUS
  <2>4. at \in 0 .. Len(s)
    <3>1. m \in 1 .. n /\ n \in Nat
      BY <1>1, <1>2, <2>2, <2>3
    <3>2. at \in 0 .. n
      BY ONLY <2>3, <3>1
    <3>3. QED
      BY <2>3, <3>2
  <2>5. SubSeq(s, 1, at) \in Seq(Nat)
    BY <2>4, Cut
  <2>6. QED
    BY <2>3, <2>5
<1>6. QED
  BY <1>3, <1>4, <1>5

\* A report is one more of the opcode and the data, or none.
LEMMA ReportStays ==
    ASSUME NEW o \in Sockets
    PROVE  Socket!Report(o) \in Seq(Reported)
<1>1. PICK r, s, d, S : r = o.reported /\ s = Socket!CString(o.data) /\ d = o.data /\ S = Reported
  OBVIOUS
<1>2. r \in Seq(S) /\ s \in Seq(Nat) /\ d \in Seq(Nat)
  BY <1>1, SocketFields, StringOfText
<1>3. <<1, s>> \in S /\ \A k \in {2, 8} : <<k, d>> \in S
  BY <1>1, <1>2 DEF Reported
<1>4. CASE o.opcode = 1
  <2>1. Socket!Report(o) = Append(o.reported, <<1, Socket!CString(o.data)>>)
    BY <1>4 DEF Socket!Report, Socket!Text, Socket!Binary, Socket!Close
  <2>3. Socket!Report(o) = Append(r, <<1, s>>)
    BY ONLY <1>1, <2>1
  <2>2. QED
    BY ONLY <1>1, <1>2, <1>3, <2>3, AppendProperties
<1>5. CASE o.opcode \in {2, 8}
  <2>1. Socket!Report(o) = Append(o.reported, <<o.opcode, o.data>>)
    BY <1>5 DEF Socket!Report, Socket!Text, Socket!Binary, Socket!Close
  <2>3. Socket!Report(o) = Append(r, <<o.opcode, d>>)
    BY ONLY <1>1, <2>1
  <2>4. <<o.opcode, d>> \in S
    BY <1>3, <1>5
  <2>2. QED
    BY ONLY <1>1, <1>2, <2>3, <2>4, AppendProperties
<1>6. CASE o.opcode \notin {1, 2, 8}
  <2>1. Socket!Report(o) = r
    BY <1>1, <1>6 DEF Socket!Report, Socket!Text, Socket!Binary, Socket!Close
  <2>2. QED
    BY <1>1, <1>2, <2>1
<1>7. QED
  BY <1>4, <1>5, <1>6

\* A frame that is complete is reported.
LEMMA Checked ==
    ASSUME NEW o \in Sockets, NEW c, c = Socket!checkMessage(o)
    PROVE  /\ c \in Sockets
           /\ o.pos < o.payloadSize => c = o
           /\ ~ (o.pos < o.payloadSize) =>
                 /\ c.readState = "INIT" /\ c.pos = 0 /\ c.data = <<>>
                 /\ c.payloadSize = o.payloadSize /\ c.reported = Socket!Report(o)
<1>1. PICK r : r = Socket!Report(o)
  OBVIOUS
<1>2. r \in Seq(Reported) /\ <<>> \in Seq(Nat)
  BY <1>1, ReportStays, EmptySeq
<1>3. CASE o.pos < o.payloadSize
  BY <1>3 DEF Socket!checkMessage
<1>4. CASE ~ (o.pos < o.payloadSize)
  <2>1. c = [o EXCEPT !.pos = 0, !.readState = "INIT", !.data = <<>>, !.reported = r]
    BY <1>1, <1>4 DEF Socket!checkMessage
  <2>2. c = [readState |-> "INIT", payloadSize |-> o.payloadSize, pos |-> 0,
             opcode |-> o.opcode, isMask |-> o.isMask, mask |-> o.mask,
             data |-> <<>>, reported |-> r]
    BY <2>1, SocketFields
  <2>3. c \in Sockets
    BY <1>2, <2>2, SocketFields DEF Sockets, FrameStates
  <2>4. QED
    BY <1>1, <1>4, <2>2, <2>3
<1>5. QED
  BY <1>3, <1>4

\* What a report says depends on three fields.
LEMMA ReportOf ==
    ASSUME NEW a, NEW b, a.opcode = b.opcode, a.data = b.data, a.reported = b.reported
    PROVE  Socket!Report(a) = Socket!Report(b)
BY DEF Socket!Report

\* Everything but the fields a byte of the head changes.
KeepsData(next, o) == next.data = o.data /\ next.reported = o.reported

\* The head has been read: the mask is next when there is one.
LEMMA HeadStays ==
    ASSUME NEW o \in Sockets, NEW h, h = Socket!HeadRead(o)
    PROVE  /\ h \in Sockets
           /\ o.isMask => /\ h.readState = "MASK" /\ h.pos = 0 /\ h.payloadSize = o.payloadSize
                          /\ h.opcode = o.opcode /\ h.isMask = o.isMask /\ h.mask = o.mask
                          /\ KeepsData(h, o)
<1>whole. o = [readState |-> o.readState, payloadSize |-> o.payloadSize, pos |-> o.pos,
               opcode |-> o.opcode, isMask |-> o.isMask, mask |-> o.mask,
               data |-> o.data, reported |-> o.reported]
  BY SocketFields
<1>1. PICK m : m = [o EXCEPT !.pos = 0, !.readState = "MASK"]
  OBVIOUS
<1>2. m = [readState |-> "MASK", payloadSize |-> o.payloadSize, pos |-> 0,
           opcode |-> o.opcode, isMask |-> o.isMask, mask |-> o.mask,
           data |-> o.data, reported |-> o.reported]
  BY ONLY <1>whole, <1>1
<1>3. m \in Sockets
  BY <1>2, SocketFields DEF Sockets, FrameStates
<1>4. h = IF o.payloadSize = 0 /\ ~ o.isMask THEN Socket!checkMessage(m) ELSE m
  BY <1>1, Zenon DEF Socket!HeadRead
<1>5. Socket!checkMessage(m) \in Sockets
  BY <1>3, Checked
<1>6. h \in Sockets
  BY ONLY <1>3, <1>4, <1>5, Zenon
<1>7. ASSUME o.isMask PROVE h = m
  BY ONLY <1>4, <1>7, Zenon
<1>8. QED
  BY <1>2, <1>6, <1>7 DEF KeepsData

\* The first byte has the opcode.
LEMMA FirstByte ==
    ASSUME NEW o \in Sockets, NEW d \in Nat, o.readState = "INIT",
           NEW next, next = Socket!Byte(o, d)
    PROVE  /\ next \in Sockets
           /\ next.readState = "PAYLOAD" /\ next.opcode = d % 16 /\ next.pos = o.pos
           /\ next.payloadSize = o.payloadSize /\ KeepsData(next, o)
<1>1. next = [o EXCEPT !.opcode = d % 16, !.readState = "PAYLOAD"]
  BY DEF Socket!Byte
<1>2. next = [readState |-> "PAYLOAD", payloadSize |-> o.payloadSize, pos |-> o.pos,
              opcode |-> d % 16, isMask |-> o.isMask, mask |-> o.mask,
              data |-> o.data, reported |-> o.reported]
  BY <1>1, SocketFields
<1>3. d % 16 \in Nat
  OBVIOUS
<1>4. next \in Sockets
  BY <1>2, <1>3, SocketFields DEF Sockets, FrameStates
<1>5. QED
  BY <1>2, <1>4 DEF KeepsData

\* The second byte has the size, or says how long it is.
LEMMA SecondByte ==
    ASSUME NEW o \in Sockets, NEW d \in Nat, o.readState = "PAYLOAD",
           NEW next, next = Socket!Byte(o, d)
    PROVE  /\ next \in Sockets
           /\ d >= 128 /\ d % 128 < 126 =>
                 /\ next.readState = "MASK" /\ next.pos = 0 /\ next.payloadSize = d % 128
                 /\ next.isMask /\ next.opcode = o.opcode /\ KeepsData(next, o)
           /\ d >= 128 /\ d % 128 = 126 =>
                 /\ next.readState = "PAYLOAD16" /\ next.pos = o.pos
                 /\ next.payloadSize = o.payloadSize
                 /\ next.isMask /\ next.opcode = o.opcode /\ KeepsData(next, o)
<1>whole. o = [readState |-> o.readState, payloadSize |-> o.payloadSize, pos |-> o.pos,
               opcode |-> o.opcode, isMask |-> o.isMask, mask |-> o.mask,
               data |-> o.data, reported |-> o.reported]
  BY SocketFields
<1>1. PICK masked \in BOOLEAN : masked <=> d >= 128
  OBVIOUS
<1>2. PICK flagged : flagged = [o EXCEPT !.isMask = d >= 128]
  OBVIOUS
<1>3. flagged = [o EXCEPT !.isMask = masked]
  <2>1. (d >= 128) = masked
    BY <1>1
  <2>2. QED
    BY <1>2, <2>1, Zenon
<1>4. flagged = [readState |-> o.readState, payloadSize |-> o.payloadSize, pos |-> o.pos,
                 opcode |-> o.opcode, isMask |-> masked, mask |-> o.mask,
                 data |-> o.data, reported |-> o.reported]
  BY ONLY <1>whole, <1>3
<1>5. flagged \in Sockets
  BY <1>1, <1>4, SocketFields DEF Sockets
<1>6. PICK size, small : size = d % 128 /\ small = [flagged EXCEPT !.payloadSize = size]
  OBVIOUS
<1>7. size \in Nat
  BY <1>6
<1>8. small = [readState |-> o.readState, payloadSize |-> size, pos |-> o.pos,
               opcode |-> o.opcode, isMask |-> masked, mask |-> o.mask,
               data |-> o.data, reported |-> o.reported]
  BY <1>4, <1>6
<1>9. small \in Sockets
  BY <1>1, <1>7, <1>8, SocketFields DEF Sockets
<1>10. next = CASE size = 126 -> [flagged EXCEPT !.readState = "PAYLOAD16"]
                [] size = 127 -> [flagged EXCEPT !.readState = "PAYLOAD64"]
                [] OTHER -> Socket!HeadRead(small)
  BY <1>2, <1>6 DEF Socket!Byte
<1>11. CASE size \in {126, 127}
  <2>1. PICK state \in {"PAYLOAD16", "PAYLOAD64"} :
           /\ next = [flagged EXCEPT !.readState = state]
           /\ size = 126 => state = "PAYLOAD16"
    BY ONLY <1>10, <1>11
  <2>2. next = [readState |-> state, payloadSize |-> o.payloadSize, pos |-> o.pos,
                opcode |-> o.opcode, isMask |-> masked, mask |-> o.mask,
                data |-> o.data, reported |-> o.reported]
    BY ONLY <1>4, <2>1
  <2>3. next \in Sockets
    BY <1>1, <2>2, SocketFields DEF Sockets, FrameStates
  <2>4. d >= 128 /\ d % 128 = 126 =>
                 /\ next.readState = "PAYLOAD16" /\ next.pos = o.pos
                 /\ next.payloadSize = o.payloadSize
                 /\ next.isMask /\ next.opcode = o.opcode /\ KeepsData(next, o)
    BY <1>1, <1>6, <2>1, <2>2 DEF KeepsData
  <2>5. ~ (d % 128 < 126)
    BY <1>6, <1>11
  <2>6. QED
    BY <2>3, <2>4, <2>5
<1>12. CASE size \notin {126, 127}
  <2>1. next = Socket!HeadRead(small)
    BY ONLY <1>10, <1>12
  <2>2. small.isMask = masked
    BY ONLY <1>8
  <2>3. /\ next \in Sockets
        /\ masked => /\ next.readState = "MASK" /\ next.pos = 0
                     /\ next.payloadSize = small.payloadSize
                     /\ next.opcode = small.opcode /\ next.isMask = small.isMask
                     /\ KeepsData(next, small)
    BY ONLY <1>9, <2>1, <2>2, HeadStays
  <2>4. /\ small.payloadSize = d % 128 /\ small.opcode = o.opcode
        /\ small.data = o.data /\ small.reported = o.reported
    BY ONLY <1>6, <1>8
  <2>5. d % 128 # 126
    BY <1>6, <1>12
  <2>6. QED
    BY <1>1, <2>2, <2>3, <2>4, <2>5 DEF KeepsData
<1>13. QED
  BY <1>11, <1>12

\* A byte of the long size.
LEMMA ByteOfSize ==
    ASSUME NEW o \in Sockets, NEW d \in Nat, o.readState \in {"PAYLOAD16", "PAYLOAD64"},
           NEW next, next = Socket!Byte(o, d)
    PROVE  /\ next \in Sockets
           /\ o.readState = "PAYLOAD16" /\ o.isMask =>
                 /\ next.payloadSize = o.payloadSize * 256 + d
                 /\ next.isMask /\ next.opcode = o.opcode /\ KeepsData(next, o)
                 /\ o.pos = 0 => next.readState = "PAYLOAD16" /\ next.pos = 1
                 /\ o.pos = 1 => next.readState = "MASK" /\ next.pos = 0
<1>whole. o = [readState |-> o.readState, payloadSize |-> o.payloadSize, pos |-> o.pos,
               opcode |-> o.opcode, isMask |-> o.isMask, mask |-> o.mask,
               data |-> o.data, reported |-> o.reported]
  BY SocketFields
<1>1. PICK size, more, bytes : /\ size = o.payloadSize * 256 + d
                               /\ more = [o EXCEPT !.payloadSize = size, !.pos = o.pos + 1]
                               /\ bytes = IF o.readState = "PAYLOAD16" THEN 2 ELSE 8
  OBVIOUS
<1>2. size \in Nat /\ o.pos + 1 \in Nat /\ o.pos \in Nat
  <2>1. o.payloadSize \in Nat /\ o.pos \in Nat
    BY SocketFields
  <2>2. QED
    BY <1>1, <2>1
<1>3. more = [readState |-> o.readState, payloadSize |-> size, pos |-> o.pos + 1,
              opcode |-> o.opcode, isMask |-> o.isMask, mask |-> o.mask,
              data |-> o.data, reported |-> o.reported]
  BY ONLY <1>whole, <1>1
<1>4. more \in Sockets
  BY <1>2, <1>3, SocketFields DEF Sockets
<1>5. next = Socket!SizeByte(o, d, bytes)
  BY <1>1 DEF Socket!Byte
<1>6. Socket!SizeByte(o, d, bytes) = IF more.pos = bytes THEN Socket!HeadRead(more) ELSE more
  <2>1. more = [o EXCEPT !.payloadSize = o.payloadSize * 256 + d, !.pos = o.pos + 1]
    BY <1>1
  <2>2. QED
    BY <2>1 DEF Socket!SizeByte, Sockets
<1>7. CASE more.pos = bytes
  <2>1. next = Socket!HeadRead(more)
    BY ONLY <1>5, <1>6, <1>7
  <2>2. /\ next \in Sockets
        /\ more.isMask => /\ next.readState = "MASK" /\ next.pos = 0
                          /\ next.payloadSize = more.payloadSize
                          /\ next.opcode = more.opcode /\ next.isMask = more.isMask
                          /\ KeepsData(next, more)
    BY ONLY <1>4, <2>1, HeadStays
  <2>3. o.readState = "PAYLOAD16" => o.pos = 1
    BY <1>1, <1>2, <1>3, <1>7
  <2>4. QED
    BY <1>1, <1>3, <2>2, <2>3 DEF KeepsData
<1>8. CASE more.pos # bytes
  <2>1. next = more
    BY ONLY <1>5, <1>6, <1>8
  <2>2. o.readState = "PAYLOAD16" => o.pos # 1
    BY <1>1, <1>2, <1>3, <1>8
  <2>3. /\ next.readState = o.readState /\ next.pos = o.pos + 1 /\ next.payloadSize = size
        /\ next.isMask = o.isMask /\ next.opcode = o.opcode
        /\ next.data = o.data /\ next.reported = o.reported
    BY ONLY <1>3, <2>1
  <2>4. next \in Sockets
    BY ONLY <1>4, <2>1
  <2>5. o.pos = 0 => o.pos + 1 = 1
    OBVIOUS
  <2>6. QED
    BY <1>1, <2>2, <2>3, <2>4, <2>5 DEF KeepsData
<1>9. QED
  BY <1>7, <1>8

\* A byte of the mask.
LEMMA ByteOfMask ==
    ASSUME NEW o \in Sockets, NEW d \in Nat, o.readState = "MASK",
           NEW next, next = Socket!Byte(o, d)
    PROVE  /\ next \in Sockets
           /\ o.pos < 3 => /\ next.readState = "MASK" /\ next.pos = o.pos + 1
                           /\ next.payloadSize = o.payloadSize /\ next.isMask = o.isMask
                           /\ next.opcode = o.opcode /\ KeepsData(next, o)
                           /\ next.mask = [o.mask EXCEPT ![o.pos] = d]
           /\ o.pos = 3 /\ o.payloadSize # 0 =>
                 /\ next.readState = "DATA" /\ next.pos = 0
                 /\ next.payloadSize = o.payloadSize /\ next.isMask = o.isMask
                 /\ next.opcode = o.opcode /\ KeepsData(next, o)
                 /\ next.mask = [o.mask EXCEPT ![o.pos] = d]
           /\ o.pos = 3 /\ o.payloadSize = 0 =>
                 /\ next.readState = "INIT" /\ next.pos = 0 /\ next.data = <<>>
                 /\ next.payloadSize = 0 /\ next.reported = Socket!Report(o)
<1>whole. o = [readState |-> o.readState, payloadSize |-> o.payloadSize, pos |-> o.pos,
               opcode |-> o.opcode, isMask |-> o.isMask, mask |-> o.mask,
               data |-> o.data, reported |-> o.reported]
  BY SocketFields
<1>1. PICK key, masked, begun : /\ key = [o.mask EXCEPT ![o.pos] = d]
                                /\ masked = [o EXCEPT !.mask[o.pos] = d, !.pos = o.pos + 1]
                                /\ begun = [masked EXCEPT !.pos = 0, !.readState = "DATA"]
  OBVIOUS
<1>2. masked = [readState |-> o.readState, payloadSize |-> o.payloadSize, pos |-> o.pos + 1,
                opcode |-> o.opcode, isMask |-> o.isMask, mask |-> key,
                data |-> o.data, reported |-> o.reported]
  BY ONLY <1>whole, <1>1
<1>3. begun = [readState |-> "DATA", payloadSize |-> o.payloadSize, pos |-> 0,
               opcode |-> o.opcode, isMask |-> o.isMask, mask |-> key,
               data |-> o.data, reported |-> o.reported]
  BY ONLY <1>1, <1>2
<1>4. key \in [0 .. 3 -> Nat] /\ o.pos + 1 \in Nat /\ o.pos \in Nat /\ o.payloadSize \in Nat
  <2>1. o.mask \in [0 .. 3 -> Nat] /\ o.pos \in Nat /\ o.payloadSize \in Nat
    BY SocketFields
  <2>2. key \in [0 .. 3 -> Nat]
    BY ONLY <1>1, <2>1, d \in Nat
  <2>3. QED
    BY ONLY <2>1, <2>2
<1>5. masked \in Sockets /\ begun \in Sockets
  BY <1>2, <1>3, <1>4, SocketFields DEF Sockets, FrameStates
<1>6. next = IF masked.pos < 4 THEN masked
             ELSE IF o.payloadSize = 0 THEN Socket!checkMessage(begun) ELSE begun
  BY <1>1, Zenon DEF Socket!Byte
<1>7. masked.pos = o.pos + 1
  BY ONLY <1>2
<1>8. CASE masked.pos < 4
  <2>1. next = masked
    BY ONLY <1>6, <1>8
  <2>2. o.pos # 3
    BY ONLY <1>4, <1>7, <1>8
  <2>3. QED
    BY <1>1, <1>2, <1>5, <2>1, <2>2, ZenonT(60) DEF KeepsData
<1>9. CASE ~ (masked.pos < 4)
  <2>0. ~ (o.pos < 3)
    BY ONLY <1>4, <1>7, <1>9
  <2>1. CASE o.payloadSize = 0
    <3>1. next = Socket!checkMessage(begun)
      BY ONLY <1>6, <1>9, <2>1
    <3>2. begun.pos = 0 /\ begun.payloadSize = 0 /\ ~ (begun.pos < begun.payloadSize)
      BY ONLY <1>3, <2>1
    <3>3. /\ next \in Sockets /\ next.readState = "INIT" /\ next.pos = 0 /\ next.data = <<>>
          /\ next.payloadSize = begun.payloadSize /\ next.reported = Socket!Report(begun)
      BY ONLY <1>5, <3>1, <3>2, Checked
    <3>4. begun.opcode = o.opcode /\ begun.data = o.data /\ begun.reported = o.reported
      BY ONLY <1>3
    <3>5. Socket!Report(begun) = Socket!Report(o)
      BY ONLY <3>4, ReportOf
    <3>6. QED
      BY ONLY <2>0, <2>1, <3>2, <3>3, <3>5
  <2>2. CASE o.payloadSize # 0
    <3>1. next = begun
      BY ONLY <1>6, <1>9, <2>2
    <3>2. /\ next.readState = "DATA" /\ next.pos = 0
          /\ next.payloadSize = o.payloadSize /\ next.isMask = o.isMask
          /\ next.opcode = o.opcode /\ next.data = o.data /\ next.reported = o.reported
          /\ next.mask = key
      BY ONLY <1>3, <3>1
    <3>3. QED
      BY <1>1, <1>5, <2>0, <2>2, <3>1, <3>2 DEF KeepsData
  <2>3. QED
    BY <2>1, <2>2
<1>10. QED
  BY <1>8, <1>9

\* A byte of the payload.
LEMMA ByteOfPayload ==
    ASSUME NEW o \in Sockets, NEW d \in Nat, o.readState = "DATA",
           NEW next, next = Socket!Byte(o, d),
           NEW grown, grown = Append(o.data, Socket!Xor(d, o.mask[o.pos % 4]))
    PROVE  /\ next \in Sockets
           /\ o.isMask /\ o.pos + 1 < o.payloadSize =>
                 /\ next.readState = "DATA" /\ next.pos = o.pos + 1
                 /\ next.payloadSize = o.payloadSize /\ next.isMask /\ next.mask = o.mask
                 /\ next.opcode = o.opcode /\ next.reported = o.reported /\ next.data = grown
           /\ o.isMask /\ o.pos + 1 = o.payloadSize =>
                 /\ next.readState = "INIT" /\ next.pos = 0 /\ next.data = <<>>
                 /\ next.payloadSize = o.payloadSize
                 /\ next.reported = Socket!Report([o EXCEPT !.data = grown])
<1>whole. o = [readState |-> o.readState, payloadSize |-> o.payloadSize, pos |-> o.pos,
               opcode |-> o.opcode, isMask |-> o.isMask, mask |-> o.mask,
               data |-> o.data, reported |-> o.reported]
  BY SocketFields
<1>1. PICK byte, more : /\ byte = IF o.isMask THEN Socket!Xor(d, o.mask[o.pos % 4]) ELSE d
                        /\ more = [o EXCEPT !.pos = o.pos + 1, !.data = Append(o.data, byte)]
  OBVIOUS
<1>2. PICK data : data = Append(o.data, byte)
  OBVIOUS
<1>3. more = [readState |-> o.readState, payloadSize |-> o.payloadSize, pos |-> o.pos + 1,
              opcode |-> o.opcode, isMask |-> o.isMask, mask |-> o.mask,
              data |-> data, reported |-> o.reported]
  BY ONLY <1>whole, <1>1, <1>2
<1>4. o.pos \in Nat /\ o.pos + 1 \in Nat /\ o.payloadSize \in Nat /\ byte \in Nat
  <2>1. o.pos \in Nat /\ o.mask \in [0 .. 3 -> Nat] /\ o.payloadSize \in Nat
    BY SocketFields
  <2>2. o.pos % 4 \in 0 .. 3
    BY <2>1
  <2>3. o.mask[o.pos % 4] \in Nat
    BY ONLY <2>1, <2>2
  <2>4. Socket!Xor(d, o.mask[o.pos % 4]) \in Nat
    BY <2>3, XorIsNumber
  <2>5. byte \in Nat
    BY ONLY <1>1, <2>4, d \in Nat
  <2>6. QED
    BY <2>1, <2>5
<1>5. data \in Seq(Nat)
  <2>1. o.data \in Seq(Nat)
    BY SocketFields
  <2>2. QED
    BY ONLY <1>2, <1>4, <2>1, AppendProperties
<1>6. more \in Sockets
  BY <1>3, <1>4, <1>5, SocketFields DEF Sockets
<1>7. next = Socket!checkMessage(more)
  BY <1>1, Zenon DEF Socket!Byte
<1>8. more.pos = o.pos + 1 /\ more.payloadSize = o.payloadSize
  BY ONLY <1>3
<1>9. o.isMask => data = grown
  BY ONLY <1>1, <1>2, grown = Append(o.data, Socket!Xor(d, o.mask[o.pos % 4])), Zenon
<1>10. CASE o.pos + 1 < o.payloadSize
  <2>1. next = more /\ next \in Sockets
    <3>1. more.pos < more.payloadSize
      BY <1>8, <1>10
    <3>2. QED
      BY ONLY <1>6, <1>7, <3>1, Checked
  <2>2. o.pos + 1 # o.payloadSize
    BY ONLY <1>4, <1>10
  <2>3. QED
    BY <1>3, <1>9, <2>1, <2>2
<1>11. CASE ~ (o.pos + 1 < o.payloadSize)
  <2>1. ~ (more.pos < more.payloadSize)
    BY <1>8, <1>11
  <2>2. /\ next \in Sockets /\ next.readState = "INIT" /\ next.pos = 0 /\ next.data = <<>>
        /\ next.payloadSize = more.payloadSize /\ next.reported = Socket!Report(more)
    BY ONLY <1>6, <1>7, <2>1, Checked
  <2>3. ASSUME o.isMask PROVE Socket!Report(more) = Socket!Report([o EXCEPT !.data = grown])
    <3>1. PICK other : other = [o EXCEPT !.data = grown]
      OBVIOUS
    <3>2. other.opcode = o.opcode /\ other.data = grown /\ other.reported = o.reported
      BY ONLY <1>whole, <3>1
    <3>3. more.opcode = other.opcode /\ more.data = other.data /\ more.reported = other.reported
      BY ONLY <1>3, <1>9, <2>3, <3>2
    <3>4. QED
      BY ONLY <3>1, <3>3, ReportOf
  <2>4. QED
    BY ONLY <1>8, <1>11, <2>2, <2>3
<1>12. QED
  BY <1>10, <1>11

\* A byte leaves the socket a socket.
LEMMA SocketStays ==
    ASSUME NEW o \in Sockets, NEW d \in Nat
    PROVE  Socket!Byte(o, d) \in Sockets
<1>1. o.readState \in FrameStates
  BY SocketFields
<1>2. CASE o.readState = "INIT"
  BY <1>2, FirstByte
<1>3. CASE o.readState = "PAYLOAD"
  BY <1>3, SecondByte
<1>4. CASE o.readState \in {"PAYLOAD16", "PAYLOAD64"}
  BY <1>4, ByteOfSize
<1>5. CASE o.readState = "MASK"
  BY <1>5, ByteOfMask
<1>6. CASE o.readState = "DATA"
  BY <1>6, ByteOfPayload, ZenonT(60)
<1>7. QED
  BY <1>1, <1>2, <1>3, <1>4, <1>5, <1>6 DEF FrameStates

\* A frame that was read is reported as it was sent.
LEMMA FrameReported ==
    ASSUME NEW frame, FrameOk(frame), NEW o \in Sockets,
           o.opcode = frame.opcode, o.data = frame.payload
    PROVE  /\ Socket!Report(o) = o.reported \o Socket!Told(frame)
           /\ Socket!Told(frame) \in Seq(Reported)
<1>1. PICK r, b, S : r = o.reported /\ b = frame.payload /\ S = Reported
  OBVIOUS
<1>2. r \in Seq(S) /\ b \in Seq(Nat) /\ frame.opcode \in 0 .. 15
  BY <1>1, SocketFields, PayloadBytes
<1>3. CASE frame.opcode \in {1, 2, 8}
  <2>1. PICK t : t = <<frame.opcode, b>>
    OBVIOUS
  <2>2. t \in S
    BY <1>1, <1>2, <1>3, <2>1 DEF Reported
  <2>3. Socket!Told(frame) = <<t>>
    BY <1>1, <1>3, <2>1 DEF Socket!Told, Socket!Text, Socket!Binary, Socket!Close
  <2>4. Socket!Report(o) = Append(r, t)
    <3>1. CASE frame.opcode = 1
      <4>1. Socket!CString(b) = b
        <5>1. \A i \in 1 .. Len(b) : b[i] # 0
          BY <1>1, <3>1 DEF FrameOk, Socket!WellFormed, Socket!Text
        <5>2. QED
          BY <1>2, <5>1, StringOfText
      <4>2. Socket!Report(o) = Append(o.reported, <<1, Socket!CString(o.data)>>)
        BY <3>1 DEF Socket!Report, Socket!Text, Socket!Binary, Socket!Close
      <4>3. o.data = b
        BY <1>1
      <4>4. QED
        BY ONLY <1>1, <2>1, <3>1, <4>1, <4>2, <4>3
    <3>2. CASE frame.opcode \in {2, 8}
      <4>1. Socket!Report(o) = Append(o.reported, <<o.opcode, o.data>>)
        BY <3>2 DEF Socket!Report, Socket!Text, Socket!Binary, Socket!Close
      <4>2. o.data = b /\ o.opcode = frame.opcode
        BY <1>1
      <4>3. QED
        BY ONLY <1>1, <2>1, <4>1, <4>2
    <3>3. QED
      BY <1>3, <3>1, <3>2
  <2>5. Append(r, t) = r \o <<t>> /\ <<t>> \in Seq(S)
    BY ONLY <1>2, <2>2, AppendIsConcat
  <2>6. QED
    BY ONLY <1>1, <2>3, <2>4, <2>5
<1>4. CASE frame.opcode \notin {1, 2, 8}
  <2>1. Socket!Told(frame) = <<>>
    BY <1>4 DEF Socket!Told, Socket!Text, Socket!Binary, Socket!Close
  <2>2. Socket!Report(o) = r
    BY <1>1, <1>4 DEF Socket!Report, Socket!Text, Socket!Binary, Socket!Close
  <2>3. r \o <<>> = r /\ <<>> \in Seq(S)
    BY ONLY <1>2, ConcatEmptySeq, EmptySeq
  <2>4. QED
    BY ONLY <1>1, <2>1, <2>2, <2>3
<1>5. QED
  BY <1>3, <1>4

\* The socket waits for a frame behind one of prev bytes.
Ready(o, prev) ==
    o.readState = "INIT" /\ o.pos = 0 /\ o.payloadSize = prev /\ o.data = <<>>

\* The socket finds the size: the long form needs an empty frame before it.
Sized(frame, prev) == frame.long => prev = 0

\* The socket after p bytes of a frame behind one of prev bytes.
Inside(o, frame, prev, p) ==
    LET size == Len(frame.payload)
        h == HeadLength(frame)
    IN  /\ p = 0 => Ready(o, prev)
        /\ p >= 1 => o.opcode = frame.opcode /\ (p < h + 4 => o.data = <<>>)
        /\ p = 1 => o.readState = "PAYLOAD" /\ o.pos = 0 /\ o.payloadSize = prev
        /\ p >= 2 => o.isMask
        /\ frame.long /\ p = 2 => o.readState = "PAYLOAD16" /\ o.pos = 0 /\ o.payloadSize = prev
        /\ frame.long /\ p = 3 => /\ o.readState = "PAYLOAD16" /\ o.pos = 1
                                  /\ o.payloadSize = size \div 256
        /\ p >= h => o.payloadSize = size
        /\ p \in h .. h + 3 => /\ o.readState = "MASK" /\ o.pos = p - h
                               /\ \A i \in 0 .. p - h - 1 : o.mask[i] = Socket!Key[i + 1]
        /\ p >= h + 4 => /\ o.readState = "DATA" /\ o.pos = p - h - 4
                         /\ \A i \in 0 .. 3 : o.mask[i] = Socket!Key[i + 1]
                         /\ o.data = SubSeq(frame.payload, 1, p - h - 4)

\* One byte more is one byte more of the payload.
LEMMA PayloadGrows ==
    ASSUME NEW b \in Seq(Nat), NEW k \in Nat, k < Len(b)
    PROVE  /\ Append(SubSeq(b, 1, k), b[k + 1]) = SubSeq(b, 1, k + 1)
           /\ SubSeq(b, 1, 0) = <<>> /\ SubSeq(b, 1, Len(b)) = b
<1>1. Len(b) \in Nat /\ k + 1 \in 1 .. Len(b) /\ b[k + 1] \in Nat /\ k \in 0 .. Len(b)
  BY LenProperties, ElementOfSeq
<1>2. SubSeq(b, 1, k) \in Seq(Nat)
  BY <1>1, Cut
<1>3. SubSeq(b, 1, k + 1) = SubSeq(b, 1, (k + 1) - 1) \o <<b[k + 1]>>
  <2>1. 1 \in 1 .. Len(b) /\ k + 1 \in 1 .. Len(b)
    BY <1>1
  <2>2. QED
    BY ONLY <2>1, b \in Seq(Nat), SubSeqRecursiveSecond
<1>4. Append(SubSeq(b, 1, k), b[k + 1]) = SubSeq(b, 1, k) \o <<b[k + 1]>>
  BY ONLY <1>1, <1>2, AppendIsConcat
<1>5. (k + 1) - 1 = k
  BY <1>1
<1>6. SubSeq(b, 1, 0) = <<>>
  BY SubSeqEmpty
<1>7. SubSeq(b, 1, Len(b)) = b
  BY SubSeqFull
<1>8. QED
  BY ONLY <1>3, <1>4, <1>5, <1>6, <1>7

\* What the next byte of a frame does.
Advances(next, o, frame, prev, p, wire) ==
    /\ p + 1 < Len(wire) => Inside(next, frame, prev, p + 1) /\ next.reported = o.reported
    /\ p + 1 = Len(wire) => /\ Ready(next, Len(frame.payload))
                            /\ next.reported = o.reported \o Socket!Told(frame)

\* A byte in front of the mask.
LEMMA HeadAdvances ==
    ASSUME NEW o \in Sockets, NEW frame, FrameOk(frame), NEW prev \in Nat, Sized(frame, prev),
           NEW p \in Nat, p < HeadLength(frame), Inside(o, frame, prev, p),
           NEW wire, IsSent(wire, frame), NEW next, next = Socket!Byte(o, wire[p + 1])
    PROVE  Advances(next, o, frame, prev, p, wire)
<1>1. PICK n, h, d, long : /\ n = Len(frame.payload) /\ h = HeadLength(frame) /\ d = wire[p + 1]
                           /\ long = frame.long
  OBVIOUS
<1>2. /\ n \in Nat /\ long \in BOOLEAN /\ frame.opcode \in 0 .. 15
      /\ n < (IF long THEN 1024 ELSE 126) /\ h = (IF long THEN 4 ELSE 2)
  BY <1>1, PayloadBytes DEF HeadLength
<1>3. /\ Len(wire) = h + 4 + n
      /\ p = 0 => d = 128 + frame.opcode
      /\ p = 1 => d = 128 + (IF long THEN 126 ELSE n)
      /\ p = 2 => d = n \div 256
      /\ p = 3 => d = n % 256
  <2>1. p \in {2, 3} => long
    BY <1>1, <1>2
  <2>2. /\ Len(wire) = h + 4 + n
        /\ wire[1] = 128 + frame.opcode
        /\ wire[2] = 128 + (IF long THEN 126 ELSE n)
        /\ long => wire[3] = n \div 256 /\ wire[4] = n % 256
    BY <1>1 DEF IsSent
  <2>3. /\ p = 0 => d = wire[1]
        /\ p = 1 => d = wire[2]
        /\ p = 2 => d = wire[3]
        /\ p = 3 => d = wire[4]
    <3>1. 0 + 1 = 1 /\ 1 + 1 = 2 /\ 2 + 1 = 3 /\ 3 + 1 = 4
      OBVIOUS
    <3>2. d = wire[p + 1]
      BY <1>1
    <3>3. QED
      BY ONLY <3>1, <3>2
  <2>4. QED
    BY ONLY <2>1, <2>2, <2>3
<1>4. p + 1 < Len(wire) /\ p + 1 # Len(wire) /\ p < h
  <2>1. p < h
    BY <1>1
  <2>2. QED
    BY ONLY <1>2, <1>3, <2>1, p \in Nat
<1>5. CASE p = 0
  <2>1. d \in Nat /\ d % 16 = frame.opcode
    BY <1>2, <1>3, <1>5, SMTT(30)
  <2>2. o.readState = "INIT" /\ o.pos = 0 /\ o.payloadSize = prev /\ o.data = <<>>
    BY <1>5 DEF Inside, Ready
  <2>3. /\ next.readState = "PAYLOAD" /\ next.opcode = d % 16 /\ next.pos = o.pos
        /\ next.payloadSize = o.payloadSize /\ KeepsData(next, o)
    BY <1>1, <2>1, <2>2, FirstByte
  <2>4. Inside(next, frame, prev, 1)
    <3>1. ~ (1 >= h) /\ ~ (1 >= h + 4) /\ ~ (1 \in h .. h + 3)
      BY <1>2
    <3>2. QED
      BY <1>1, <2>1, <2>2, <2>3, <3>1 DEF Inside, KeepsData
  <2>5. QED
    BY <1>4, <1>5, <2>3, <2>4 DEF Advances, KeepsData
<1>6. CASE p = 1
  <2>1. d \in Nat /\ d >= 128 /\ (long => d % 128 = 126) /\ (~ long => d % 128 = n /\ n < 126)
    BY <1>2, <1>3, <1>6
  <2>2. /\ o.readState = "PAYLOAD" /\ o.pos = 0 /\ o.payloadSize = prev /\ o.data = <<>>
        /\ o.opcode = frame.opcode
    <3>1. p < h + 4
      BY <1>2, <1>6
    <3>2. QED
      BY <1>1, <1>6, <3>1 DEF Inside
  <2>3. /\ d % 128 < 126 =>
              /\ next.readState = "MASK" /\ next.pos = 0 /\ next.payloadSize = d % 128
              /\ next.isMask /\ next.opcode = o.opcode /\ KeepsData(next, o)
        /\ d % 128 = 126 =>
              /\ next.readState = "PAYLOAD16" /\ next.pos = o.pos
              /\ next.payloadSize = o.payloadSize
              /\ next.isMask /\ next.opcode = o.opcode /\ KeepsData(next, o)
    BY <1>1, <2>1, <2>2, SecondByte
  <2>4. Inside(next, frame, prev, 2)
    <3>1. CASE long
      <4>1. ~ (2 >= h) /\ ~ (2 >= h + 4) /\ ~ (2 \in h .. h + 3)
        BY <1>2, <3>1
      <4>2. QED
        BY <1>1, <2>1, <2>2, <2>3, <3>1, <4>1 DEF Inside, KeepsData
    <3>2. CASE ~ long
      <4>1. h = 2 /\ ~ (2 >= h + 4) /\ 2 - h = 0 /\ \A i \in 0 .. 2 - h - 1 : FALSE
        BY <1>2, <3>2
      <4>2. QED
        BY <1>1, <2>1, <2>2, <2>3, <3>2, <4>1 DEF Inside, KeepsData
    <3>3. QED
      BY <1>2, <3>1, <3>2
  <2>5. next.reported = o.reported
    BY <1>2, <2>1, <2>3 DEF KeepsData
  <2>6. QED
    BY <1>4, <1>6, <2>4, <2>5 DEF Advances
<1>7. CASE p = 2
  <2>1. long /\ h = 4 /\ prev = 0
    BY <1>1, <1>2, <1>4, <1>7 DEF Sized
  <2>2. d \in Nat /\ 0 * 256 + d = n \div 256
    BY <1>2, <1>3, <1>7
  <2>3. /\ o.readState = "PAYLOAD16" /\ o.pos = 0 /\ o.payloadSize = 0 /\ o.data = <<>>
        /\ o.opcode = frame.opcode /\ o.isMask
    BY <1>1, <1>7, <2>1 DEF Inside
  <2>4. /\ next.payloadSize = o.payloadSize * 256 + d
        /\ next.isMask /\ next.opcode = o.opcode /\ KeepsData(next, o)
        /\ next.readState = "PAYLOAD16" /\ next.pos = 1
    <3>1. next = Socket!Byte(o, d)
      BY <1>1
    <3>2. QED
      BY ONLY <2>2, <2>3, <3>1, o \in Sockets, ByteOfSize
  <2>5. Inside(next, frame, prev, 3)
    <3>1. /\ next.payloadSize = n \div 256 /\ next.isMask /\ next.opcode = frame.opcode
          /\ next.data = <<>> /\ next.readState = "PAYLOAD16" /\ next.pos = 1
      <4>1. o.payloadSize * 256 + d = n \div 256
        BY ONLY <2>2, <2>3
      <4>2. QED
        BY ONLY <2>3, <2>4, <4>1 DEF KeepsData
    <3>2. /\ 3 # 0 /\ 3 >= 1 /\ 3 < 4 + 4 /\ 3 # 1 /\ 3 >= 2 /\ 3 # 2 /\ ~ (3 >= 4)
          /\ 3 \notin 4 .. 4 + 3 /\ ~ (3 >= 4 + 4)
      OBVIOUS
    <3>3. HeadLength(frame) = 4 /\ Len(frame.payload) = n
      BY <1>1, <2>1
    <3>4. QED
      BY ONLY <3>1, <3>2, <3>3, Zenon DEF Inside
  <2>6. QED
    BY <1>4, <1>7, <2>4, <2>5 DEF Advances, KeepsData
<1>8. CASE p = 3
  <2>1. long /\ h = 4
    BY <1>1, <1>2, <1>4, <1>8
  <2>2. d \in Nat /\ (n \div 256) * 256 + d = n
    <3>1. d = n % 256 /\ n \in Nat
      BY <1>2, <1>3, <1>8
    <3>2. QED
      BY ONLY <3>1
  <2>3. /\ o.readState = "PAYLOAD16" /\ o.pos = 1 /\ o.payloadSize = n \div 256 /\ o.data = <<>>
        /\ o.opcode = frame.opcode /\ o.isMask
    <3>1. 3 < h + 4 /\ 3 >= 1 /\ 3 >= 2
      BY <2>1
    <3>2. QED
      BY <1>1, <1>8, <2>1, <3>1 DEF Inside
  <2>4. /\ next.payloadSize = o.payloadSize * 256 + d
        /\ next.isMask /\ next.opcode = o.opcode /\ KeepsData(next, o)
        /\ next.readState = "MASK" /\ next.pos = 0
    <3>1. next = Socket!Byte(o, d)
      BY <1>1
    <3>2. QED
      BY ONLY <2>2, <2>3, <3>1, o \in Sockets, ByteOfSize
  <2>5. Inside(next, frame, prev, 4)
    <3>1. /\ next.payloadSize = n /\ next.isMask /\ next.opcode = frame.opcode
          /\ next.data = <<>> /\ next.readState = "MASK" /\ next.pos = 0
      <4>1. o.payloadSize * 256 + d = n
        BY ONLY <2>2, <2>3
      <4>2. QED
        BY ONLY <2>3, <2>4, <4>1 DEF KeepsData
    <3>2. /\ 4 # 0 /\ 4 >= 1 /\ 4 < 4 + 4 /\ 4 # 1 /\ 4 >= 2 /\ 4 # 2 /\ 4 # 3 /\ 4 >= 4
          /\ 4 - 4 = 0 /\ ~ (4 >= 4 + 4) /\ \A i \in 0 .. 4 - 4 - 1 : FALSE
      OBVIOUS
    <3>3. HeadLength(frame) = 4 /\ Len(frame.payload) = n
      BY <1>1, <2>1
    <3>4. QED
      BY ONLY <3>1, <3>2, <3>3, Zenon DEF Inside
  <2>6. QED
    BY <1>4, <1>8, <2>4, <2>5 DEF Advances, KeepsData
<1>9. QED
  BY <1>2, <1>4, <1>5, <1>6, <1>7, <1>8

\* A byte of the mask; behind it an empty frame ends.
LEMMA MaskAdvances ==
    ASSUME NEW o \in Sockets, NEW frame, FrameOk(frame), NEW prev \in Nat,
           NEW p \in Nat, p \in HeadLength(frame) .. HeadLength(frame) + 3,
           Inside(o, frame, prev, p),
           NEW wire, IsSent(wire, frame), NEW next, next = Socket!Byte(o, wire[p + 1])
    PROVE  Advances(next, o, frame, prev, p, wire)
<1>1. PICK n, h, d, k, b : /\ n = Len(frame.payload) /\ h = HeadLength(frame) /\ d = wire[p + 1]
                           /\ k = p - h /\ b = frame.payload
  OBVIOUS
<1>2. n \in Nat /\ h \in {2, 4} /\ k \in 0 .. 3 /\ p = h + k /\ b \in Seq(Nat)
  BY <1>1, PayloadBytes DEF HeadLength
<1>3. Len(wire) = h + 4 + n /\ d = Socket!Key[k + 1]
  <2>1. Len(wire) = h + 4 + n /\ \A i \in 1 .. 4 : wire[h + i] = Socket!Key[i]
    BY <1>1 DEF IsSent
  <2>2. k + 1 \in 1 .. 4 /\ h + (k + 1) = p + 1
    BY <1>2
  <2>3. QED
    BY <1>1, <2>1, <2>2
<1>4. d \in Nat
  BY <1>2, <1>3 DEF Socket!Key
<1>5. /\ o.readState = "MASK" /\ o.pos = k /\ o.payloadSize = n /\ o.isMask
      /\ o.opcode = frame.opcode /\ o.data = <<>>
      /\ \A i \in 0 .. k - 1 : o.mask[i] = Socket!Key[i + 1]
  <2>1. p >= 1 /\ p >= 2 /\ p < h + 4 /\ p >= h /\ p \in h .. h + 3
    BY <1>2
  <2>2. QED
    BY <1>1, <2>1 DEF Inside
<1>6. PICK key : key = [o.mask EXCEPT ![o.pos] = d]
  OBVIOUS
<1>7. \A i \in 0 .. k : key[i] = Socket!Key[i + 1]
  <2>1. o.mask \in [0 .. 3 -> Nat]
    BY SocketFields
  <2>2. \A i \in 0 .. k : i = k \/ i \in 0 .. k - 1
    BY <1>2
  <2>3. \A i \in 0 .. k : i \in 0 .. 3
    BY <1>2
  <2>4. QED
    BY <1>3, <1>5, <1>6, <2>1, <2>2, <2>3
<1>8. CASE k < 3
  <2>1. /\ next.readState = "MASK" /\ next.pos = o.pos + 1 /\ next.payloadSize = o.payloadSize
        /\ next.isMask = o.isMask /\ next.opcode = o.opcode /\ KeepsData(next, o)
        /\ next.mask = key
    <3>1. next = Socket!Byte(o, d)
      BY <1>1
    <3>2. o.readState = "MASK" /\ o.pos = k /\ o.payloadSize = n
      BY ONLY <1>5
    <3>3. QED
      BY ONLY <1>4, <1>6, <1>8, <3>1, <3>2, o \in Sockets, ByteOfMask
  <2>2. /\ p + 1 # 0 /\ p + 1 # 1 /\ ~ (p + 1 >= h + 4) /\ p + 1 \in h .. h + 3
        /\ k + 1 = (p + 1) - h /\ k = (p + 1) - h - 1 /\ p + 1 >= h /\ p + 1 >= 2
        /\ (frame.long => p + 1 # 2 /\ p + 1 # 3)
    BY <1>1, <1>2, <1>8 DEF HeadLength
  <2>3. Inside(next, frame, prev, p + 1)
    BY <1>1, <1>5, <1>7, <2>1, <2>2 DEF Inside, KeepsData
  <2>4. p + 1 # Len(wire)
    BY <1>2, <1>3, <1>8
  <2>5. QED
    BY <2>1, <2>3, <2>4 DEF Advances, KeepsData
<1>9. CASE k = 3 /\ n # 0
  <2>1. /\ next.readState = "DATA" /\ next.pos = 0 /\ next.payloadSize = o.payloadSize
        /\ next.isMask = o.isMask /\ next.opcode = o.opcode /\ KeepsData(next, o)
        /\ next.mask = key
    <3>1. next = Socket!Byte(o, d)
      BY <1>1
    <3>2. o.readState = "MASK" /\ o.pos = k /\ o.payloadSize = n
      BY ONLY <1>5
    <3>3. QED
      BY ONLY <1>4, <1>6, <1>9, <3>1, <3>2, o \in Sockets, ByteOfMask
  <2>2. /\ p + 1 # 0 /\ p + 1 # 1 /\ p + 1 >= h + 4 /\ ~ (p + 1 < h + 4) /\ p + 1 \notin h .. h + 3
        /\ 0 = (p + 1) - h - 4 /\ p + 1 >= h /\ p + 1 >= 2
        /\ (frame.long => p + 1 # 2 /\ p + 1 # 3)
    BY <1>1, <1>2, <1>9 DEF HeadLength
  <2>3. SubSeq(b, 1, 0) = <<>>
    BY SubSeqEmpty
  <2>4. Inside(next, frame, prev, p + 1)
    BY <1>1, <1>5, <1>7, <1>9, <2>1, <2>2, <2>3 DEF Inside, KeepsData
  <2>5. p + 1 # Len(wire)
    BY <1>2, <1>3, <1>9
  <2>6. QED
    BY <2>1, <2>4, <2>5 DEF Advances, KeepsData
<1>10. CASE k = 3 /\ n = 0
  <2>1. /\ next.readState = "INIT" /\ next.pos = 0 /\ next.data = <<>>
        /\ next.payloadSize = 0 /\ next.reported = Socket!Report(o)
    <3>1. next = Socket!Byte(o, d)
      BY <1>1
    <3>2. o.readState = "MASK" /\ o.pos = k /\ o.payloadSize = n
      BY ONLY <1>5
    <3>3. QED
      BY ONLY <1>4, <1>10, <3>1, <3>2, o \in Sockets, ByteOfMask
  <2>2. b = <<>>
    BY <1>1, <1>2, <1>10, EmptySeq
  <2>3. Socket!Report(o) = o.reported \o Socket!Told(frame)
    BY <1>1, <1>5, <2>2, FrameReported
  <2>4. ~ (p + 1 < Len(wire))
    BY <1>2, <1>3, <1>10
  <2>5. QED
    BY <1>1, <1>10, <2>1, <2>3, <2>4 DEF Advances, Ready
<1>11. QED
  BY <1>2, <1>8, <1>9, <1>10

\* A byte of the payload; behind the last one the frame ends.
LEMMA PayloadAdvances ==
    ASSUME NEW o \in Sockets, NEW frame, FrameOk(frame), NEW prev \in Nat,
           NEW p \in Nat, p >= Front(frame), p < Front(frame) + Len(frame.payload),
           Inside(o, frame, prev, p),
           NEW wire, IsSent(wire, frame), NEW next, next = Socket!Byte(o, wire[p + 1])
    PROVE  Advances(next, o, frame, prev, p, wire)
<1>1. PICK n, h, d, k, b : /\ n = Len(frame.payload) /\ h = HeadLength(frame) /\ d = wire[p + 1]
                           /\ k = p - h - 4 /\ b = frame.payload
  OBVIOUS
<1>2. /\ n \in Nat /\ h \in {2, 4} /\ k \in 0 .. n - 1 /\ p = h + 4 + k /\ b \in Seq(Nat)
      /\ n = Len(b) /\ k \in Nat /\ k < n
  <2>1. n \in Nat /\ h \in {2, 4} /\ b \in Seq(Nat) /\ n = Len(b)
    BY <1>1, PayloadBytes DEF HeadLength
  <2>2. p >= h + 4 /\ p < h + 4 + n /\ k = p - h - 4
    BY <1>1 DEF Front
  <2>3. n \in Nat /\ h \in {2, 4}
    BY ONLY <2>1
  <2>4. k \in 0 .. n - 1 /\ p = h + 4 + k /\ k \in Nat /\ k < n
    BY ONLY <2>2, <2>3, p \in Nat
  <2>5. QED
    BY ONLY <2>1, <2>4
<1>3. PICK x, m : x = b[k + 1] /\ m = Socket!Key[(k % 4) + 1]
  OBVIOUS
<1>4. x \in 0 .. 255 /\ m \in Nat
  <2>1. \A i \in 1 .. n : b[i] \in 0 .. 255
    BY <1>1, PayloadBytes
  <2>2. k + 1 \in 1 .. n /\ (k % 4) + 1 \in 1 .. 4
    BY <1>2
  <2>3. x \in 0 .. 255
    BY ONLY <1>3, <2>1, <2>2
  <2>4. m \in Nat
    BY <1>3, <2>2 DEF Socket!Key
  <2>5. QED
    BY ONLY <2>3, <2>4
<1>5. Len(wire) = h + 4 + n /\ d = Socket!Xor(x, m)
  <2>1. /\ Len(wire) = h + 4 + n
        /\ \A i \in 1 .. n : wire[h + 4 + i] = Socket!Xor(b[i], Socket!Key[((i - 1) % 4) + 1])
    BY <1>1 DEF IsSent
  <2>2. k + 1 \in 1 .. n /\ h + 4 + (k + 1) = p + 1 /\ (k + 1) - 1 = k
    BY <1>2
  <2>3. wire[h + 4 + (k + 1)] = Socket!Xor(b[k + 1], Socket!Key[(((k + 1) - 1) % 4) + 1])
    BY ONLY <2>1, <2>2
  <2>4. QED
    BY ONLY <1>1, <1>3, <2>1, <2>2, <2>3
<1>6. Socket!Xor(d, m) = x /\ d \in Nat
  <2>1. Socket!Xor(Socket!Xor(x, m), m) = x
    BY <1>4, Unmasked
  <2>2. Socket!Xor(x, m) \in 0 .. 255
    BY <1>4, Unmasked
  <2>3. d \in 0 .. 255
    BY ONLY <1>5, <2>2
  <2>4. d \in Nat
    BY ONLY <2>3
  <2>5. QED
    BY ONLY <1>5, <2>1, <2>4
<1>7. /\ o.readState = "DATA" /\ o.pos = k /\ o.payloadSize = n /\ o.isMask
      /\ o.opcode = frame.opcode /\ o.data = SubSeq(b, 1, k)
      /\ \A i \in 0 .. 3 : o.mask[i] = Socket!Key[i + 1]
  <2>1. p >= 1 /\ p >= 2 /\ p >= h /\ p >= h + 4
    BY <1>2
  <2>2. QED
    BY <1>1, <2>1 DEF Inside
<1>8. PICK grown : grown = Append(o.data, Socket!Xor(d, o.mask[o.pos % 4]))
  OBVIOUS
<1>9. grown = SubSeq(b, 1, k + 1) /\ SubSeq(b, 1, n) = b
  <2>1. k % 4 \in 0 .. 3
    BY <1>2
  <2>2. o.mask[o.pos % 4] = m
    BY <1>3, <1>7, <2>1
  <2>3. grown = Append(SubSeq(b, 1, k), b[k + 1])
    BY ONLY <1>3, <1>6, <1>7, <1>8, <2>2
  <2>4. Append(SubSeq(b, 1, k), b[k + 1]) = SubSeq(b, 1, k + 1) /\ SubSeq(b, 1, Len(b)) = b
    BY <1>2, PayloadGrows
  <2>5. QED
    BY <1>2, <2>3, <2>4
<1>10. /\ o.pos + 1 < o.payloadSize =>
             /\ next.readState = "DATA" /\ next.pos = o.pos + 1
             /\ next.payloadSize = o.payloadSize /\ next.isMask /\ next.mask = o.mask
             /\ next.opcode = o.opcode /\ next.reported = o.reported /\ next.data = grown
       /\ o.pos + 1 = o.payloadSize =>
             /\ next.readState = "INIT" /\ next.pos = 0 /\ next.data = <<>>
             /\ next.payloadSize = o.payloadSize
             /\ next.reported = Socket!Report([o EXCEPT !.data = grown])
  <2>1. next = Socket!Byte(o, d)
    BY <1>1
  <2>2. d \in Nat /\ o.readState = "DATA" /\ o.isMask
    BY ONLY <1>6, <1>7
  <2>3. QED
    BY ONLY <1>8, <2>1, <2>2, o \in Sockets, ByteOfPayload
<1>11. CASE k + 1 < n
  <2>1. /\ next.readState = "DATA" /\ next.pos = k + 1 /\ next.payloadSize = n /\ next.isMask
        /\ next.mask = o.mask /\ next.opcode = frame.opcode /\ next.reported = o.reported
        /\ next.data = SubSeq(b, 1, k + 1)
    BY ONLY <1>7, <1>9, <1>10, <1>11
  <2>2. /\ p + 1 # 0 /\ p + 1 # 1 /\ p + 1 >= h + 4 /\ ~ (p + 1 < h + 4) /\ p + 1 \notin h .. h + 3
        /\ k + 1 = (p + 1) - h - 4 /\ p + 1 >= h /\ p + 1 >= 2 /\ p + 1 # 2 /\ p + 1 # 3
    <3>1. n \in Nat /\ h \in {2, 4} /\ k \in 0 .. n - 1 /\ p = h + 4 + k
      BY ONLY <1>2
    <3>2. QED
      BY ONLY <3>1, <1>11
  <2>3. Inside(next, frame, prev, p + 1)
    BY <1>1, <1>7, <2>1, <2>2 DEF Inside
  <2>4. p + 1 # Len(wire)
    BY <1>2, <1>5, <1>11
  <2>5. QED
    BY <2>1, <2>3, <2>4 DEF Advances
<1>12. CASE k + 1 = n
  <2>1. /\ next.readState = "INIT" /\ next.pos = 0 /\ next.data = <<>> /\ next.payloadSize = n
        /\ next.reported = Socket!Report([o EXCEPT !.data = grown])
    BY ONLY <1>7, <1>10, <1>12
  <2>2. PICK full : full = [o EXCEPT !.data = grown]
    OBVIOUS
  <2>3. grown = b
    BY ONLY <1>9, <1>12
  <2>4. /\ full \in Sockets /\ full.opcode = o.opcode /\ full.data = grown
        /\ full.reported = o.reported
    BY <1>2, <2>2, <2>3 DEF Sockets
  <2>5. Socket!Report(full) = full.reported \o Socket!Told(frame)
    <3>1. full.opcode = frame.opcode /\ full.data = frame.payload
      BY <1>1, <1>7, <2>3, <2>4
    <3>2. QED
      BY <2>4, <3>1, FrameReported
  <2>6. next.reported = o.reported \o Socket!Told(frame)
    BY ONLY <2>1, <2>2, <2>4, <2>5
  <2>7. ~ (p + 1 < Len(wire))
    BY <1>2, <1>5, <1>12
  <2>8. Ready(next, n)
    BY <2>1 DEF Ready
  <2>9. QED
    BY <1>1, <2>6, <2>7, <2>8 DEF Advances
<1>13. k + 1 < n \/ k + 1 = n
  BY <1>2
<1>14. QED
  BY <1>11, <1>12, <1>13

\* One byte of a frame more; with the last one the frame is reported.
LEMMA FrameAdvances ==
    ASSUME NEW o \in Sockets, NEW frame, FrameOk(frame), NEW prev \in Nat, Sized(frame, prev),
           NEW p \in Nat, p < Len(Socket!Wire(frame)), Inside(o, frame, prev, p)
    PROVE  Advances(Socket!Byte(o, Socket!Wire(frame)[p + 1]), o, frame, prev, p,
                    Socket!Wire(frame))
<1>1. PICK wire, next : wire = Socket!Wire(frame) /\ next = Socket!Byte(o, wire[p + 1])
  OBVIOUS
<1>2. IsSent(wire, frame)
  BY <1>1, FrameSent
<1>3. /\ HeadLength(frame) \in Nat /\ Len(frame.payload) \in Nat
      /\ Front(frame) = HeadLength(frame) + 4
      /\ p < Front(frame) + Len(frame.payload)
  BY <1>1, <1>2, PayloadBytes DEF IsSent, HeadLength, Front
<1>4. CASE p < HeadLength(frame)
  BY <1>1, <1>2, <1>4, HeadAdvances
<1>5. CASE p \in HeadLength(frame) .. HeadLength(frame) + 3
  BY <1>1, <1>2, <1>5, MaskAdvances
<1>6. CASE p >= Front(frame)
  BY <1>1, <1>2, <1>3, <1>6, PayloadAdvances
<1>7. QED
  BY <1>3, <1>4, <1>5, <1>6

\* The socket after a read is the socket after its bytes, one by one.
LEMMA BytesReceived ==
    ASSUME NEW o \in Sockets, NEW bytes \in Seq(Nat)
    PROVE  /\ Socket!Received(o, bytes)[0] = o
           /\ \A k \in 0 .. Len(bytes) : Socket!Received(o, bytes)[k] \in Sockets
           /\ \A k \in 0 .. Len(bytes) - 1 :
                 Socket!Received(o, bytes)[k + 1]
                     = Socket!Byte(Socket!Received(o, bytes)[k], bytes[k + 1])
<1> DEFINE step == [t \in Nat \X Sockets |->
                       IF t[1] + 1 \in 1 .. Len(bytes) THEN Socket!Byte(t[2], bytes[t[1] + 1])
                       ELSE t[2]]
           Follows(f) == f = [k \in 0 .. Len(bytes) |->
                                 IF k = 0 THEN o ELSE Socket!Byte(f[k - 1], bytes[k])]
<1>1. Len(bytes) \in Nat /\ \A i \in 1 .. Len(bytes) : bytes[i] \in Nat
  BY LenProperties, ElementOfSeq
<1>2. step \in [Nat \X Sockets -> Sockets]
  BY <1>1, SocketStays
<1>3. PICK f : Computes(f, Sockets, o, step, Len(bytes))
  <2> DEFINE many == Len(bytes)
  <2>1. many \in Nat
    BY <1>1
  <2> HIDE DEF step, many
  <2>2. \E f : Computes(f, Sockets, o, step, many)
    BY <1>2, <2>1, Computed
  <2>3. QED
    BY <2>2 DEF many
<1>4. ASSUME NEW k \in 0 .. Len(bytes) - 1, NEW x \in Sockets
      PROVE  step[<<k, x>>] = Socket!Byte(x, bytes[k + 1])
  <2>1. k \in Nat /\ k + 1 \in 1 .. Len(bytes)
    BY <1>1
  <2>2. QED
    BY <2>1
<1> HIDE DEF step
<1>5. Follows(f)
  <2>1. /\ f \in [0 .. Len(bytes) -> Sockets] /\ f[0] = o
        /\ \A j \in 0 .. Len(bytes) : f[j] \in Sockets
    BY <1>3 DEF Computes
  <2>2. ASSUME NEW k \in 0 .. Len(bytes), k # 0 PROVE f[k] = Socket!Byte(f[k - 1], bytes[k])
    <3>1. PICK j : j = k - 1
      OBVIOUS
    <3>2. j \in 0 .. Len(bytes) - 1 /\ j \in 0 .. Len(bytes) /\ j + 1 = k
      BY <1>1, <2>2, <3>1
    <3>3. f[j + 1] = step[<<j, f[j]>>]
      BY <1>3, <3>2 DEF Computes
    <3>4. f[j] \in Sockets
      BY <2>1, <3>2
    <3>5. step[<<j, f[j]>>] = Socket!Byte(f[j], bytes[j + 1])
      BY <1>4, <3>2, <3>4
    <3>6. QED
      BY <3>1, <3>2, <3>3, <3>5
  <2>3. QED
    BY <2>1, <2>2
<1>6. Follows(Socket!Received(o, bytes))
  <2>1. Socket!Received(o, bytes) = CHOOSE h : Follows(h)
    BY DEF Socket!Received
  <2> HIDE DEF Follows
  <2>2. QED
    BY <1>5, <2>1
<1>7. PICK received : received = Socket!Received(o, bytes)
  OBVIOUS
<1>8. \A k \in 0 .. Len(bytes) :
         received[k] = IF k = 0 THEN o ELSE Socket!Byte(received[k - 1], bytes[k])
  BY <1>6, <1>7
<1>9. received[0] = o
  BY <1>1, <1>8
<1>10. ASSUME NEW k \in 0 .. Len(bytes) - 1
       PROVE  received[k + 1] = Socket!Byte(received[k], bytes[k + 1])
  <2>1. k + 1 \in 0 .. Len(bytes) /\ k + 1 # 0 /\ (k + 1) - 1 = k
    BY <1>1
  <2>2. received[k + 1] = Socket!Byte(received[(k + 1) - 1], bytes[k + 1])
    BY <1>8, <2>1, Zenon
  <2>3. QED
    BY <2>1, <2>2, Zenon
<1>11. \A k \in 0 .. Len(bytes) : received[k] \in Sockets
  <2>1. ASSUME NEW k \in 0 .. Len(bytes) - 1, received[k] \in Sockets
        PROVE  received[k + 1] = step[<<k, received[k]>>]
    BY <1>4, <1>10, <2>1
  <2>2. received[0] \in Sockets
    BY <1>9
  <2>3. QED
    BY <1>1, <1>2, <2>1, <2>2, StaysIn
<1>12. QED
  BY <1>7, <1>9, <1>10, <1>11

\* The bytes of the frames, where each frame ends among them, and how many the
\* socket has read.
SocketBytes == Socket!Wires(input)[Len(input)]
SocketEnd(n) == Len(Socket!Wires(input)[n])
SocketTaken == Len(SocketBytes) - Len(arrived) - Len(unread)

\* Every frame is what FramesAssumption says.
LEMMA FramesAreOk ==
    ASSUME input \in Frames
    PROVE  /\ input \in Seq([opcode : 0 .. 15, long : BOOLEAN, payload : Seq(0 .. 255)])
           /\ Len(input) \in Nat /\ DOMAIN input = 1 .. Len(input)
           /\ \A i \in 1 .. Len(input) : FrameOk(input[i])
<1>1. PICK F : F = [opcode : 0 .. 15, long : BOOLEAN, payload : Seq(0 .. 255)]
  OBVIOUS
<1>2. input \in Seq(F) /\ \A i \in 1 .. Len(input) : Socket!WellFormed(input[i])
  BY <1>1, LoopsAssumption DEF Socket!WebSocketAssumption, Socket!FramesAssumption
<1>3. Len(input) \in Nat /\ DOMAIN input = 1 .. Len(input)
  BY <1>2, LenProperties
<1>4. \A i \in 1 .. Len(input) : input[i] \in F
  BY <1>2, ElementOfSeq
<1>5. QED
  BY <1>1, <1>2, <1>3, <1>4 DEF FrameOk

\* The wire of a frame is at least its head and its mask.
LEMMA FrameOnTheWire ==
    ASSUME NEW frame, FrameOk(frame)
    PROVE  /\ Socket!Wire(frame) \in Seq(Nat) /\ Len(Socket!Wire(frame)) \in Nat
           /\ Len(Socket!Wire(frame)) >= 1
<1>1. PICK n, h, all : /\ n = Len(frame.payload) /\ h = HeadLength(frame)
                       /\ all = Len(Socket!Wire(frame))
  OBVIOUS
<1>2. n \in Nat /\ h \in {2, 4}
  BY <1>1, PayloadBytes DEF HeadLength
<1>3. Socket!Wire(frame) \in Seq(Nat) /\ all = h + 4 + n
  BY <1>1, FrameSent DEF IsSent
<1>4. all \in Nat /\ all >= 1
  <2>1. all = h + 4 + n
    BY <1>3
  <2>2. QED
    BY ONLY <1>2, <2>1
<1>5. QED
  BY <1>1, <1>3, <1>4

\* The stream is its frames one behind the other.
LEMMA FramesInPieces ==
    ASSUME input \in Frames
    PROVE  \E pieces \in Seq(Seq(Nat)) :
              /\ Len(pieces) = Len(input) /\ Socket!Wires(input) = Serial!Joined(pieces)
              /\ \A i \in 1 .. Len(input) : pieces[i] = Socket!Wire(input[i])
<1> DEFINE pieces == [i \in DOMAIN input |-> Socket!Wire(input[i])]
<1>1. Len(input) \in Nat /\ DOMAIN input = 1 .. Len(input)
  BY FramesAreOk
<1>2. \A i \in 1 .. Len(input) : Socket!Wire(input[i]) \in Seq(Nat)
  BY FramesAreOk, FrameOnTheWire
<1>3. pieces \in Seq(Seq(Nat)) /\ Len(pieces) = Len(input)
  <2>1. pieces \in [1 .. Len(input) -> Seq(Nat)]
    BY <1>1, <1>2
  <2> HIDE DEF pieces
  <2>2. QED
    BY <1>1, <2>1, LenProperties, SeqDef
<1>4. \A i \in 1 .. Len(input) : pieces[i] = Socket!Wire(input[i])
  BY <1>1
<1>5. Socket!Wires(input) = Serial!Joined(pieces)
  BY DEF Socket!Wires, Socket!Joined, Serial!Joined
<1>6. QED
  BY <1>3, <1>4, <1>5

\* Where the frames are joined.
LEMMA WireOfFrames ==
    ASSUME input \in Frames
    PROVE  /\ Socket!Wires(input)[0] = <<>> /\ SocketEnd(0) = 0
           /\ \A n \in 0 .. Len(input) : Socket!Wires(input)[n] \in Seq(Nat) /\ SocketEnd(n) \in Nat
           /\ \A n \in 0 .. Len(input) - 1 :
                 /\ Socket!Wires(input)[n + 1] = Socket!Wires(input)[n] \o Socket!Wire(input[n + 1])
                 /\ SocketEnd(n + 1) = SocketEnd(n) + Len(Socket!Wire(input[n + 1]))
<1>1. PICK pieces \in Seq(Seq(Nat)) : /\ Len(pieces) = Len(input)
                                     /\ Socket!Wires(input) = Serial!Joined(pieces)
                                     /\ \A i \in 1 .. Len(input) : pieces[i] = Socket!Wire(input[i])
  BY FramesInPieces
<1>2. Len(input) \in Nat /\ \A i \in 1 .. Len(input) : Socket!Wire(input[i]) \in Seq(Nat)
  BY FramesAreOk, FrameOnTheWire
<1>6. /\ Socket!Wires(input) \in [0 .. Len(input) -> Seq(Nat)]
      /\ Socket!Wires(input)[0] = <<>>
      /\ \A k \in 0 .. Len(input) - 1 :
            Socket!Wires(input)[k + 1] = Socket!Wires(input)[k] \o pieces[k + 1]
  BY <1>1, JoinedPieces
<1>7. \A n \in 0 .. Len(input) : Socket!Wires(input)[n] \in Seq(Nat) /\ SocketEnd(n) \in Nat
  BY <1>6, LenProperties DEF SocketEnd
<1>8. ASSUME NEW n \in 0 .. Len(input) - 1
      PROVE  /\ Socket!Wires(input)[n + 1] = Socket!Wires(input)[n] \o Socket!Wire(input[n + 1])
             /\ SocketEnd(n + 1) = SocketEnd(n) + Len(Socket!Wire(input[n + 1]))
  <2>1. n + 1 \in 1 .. Len(input) /\ n \in 0 .. Len(input)
    BY <1>2
  <2>2. Socket!Wires(input)[n + 1] = Socket!Wires(input)[n] \o Socket!Wire(input[n + 1])
    BY <1>1, <1>6, <2>1
  <2>3. Socket!Wires(input)[n] \in Seq(Nat) /\ Socket!Wire(input[n + 1]) \in Seq(Nat)
    BY <1>2, <1>7, <2>1
  <2>4. QED
    BY <2>2, <2>3, ConcatProperties DEF SocketEnd
<1>9. SocketEnd(0) = 0
  BY <1>6, EmptySeq DEF SocketEnd
<1>10. QED
  BY <1>6, <1>7, <1>8, <1>9

\* The reports are told one behind the other.
LEMMA ReportsOfFrames ==
    ASSUME input \in Frames
    PROVE  /\ Socket!Reports(input)[0] = <<>>
           /\ \A n \in 0 .. Len(input) - 1 :
                 Socket!Reports(input)[n + 1]
                     = Socket!Reports(input)[n] \o Socket!Told(input[n + 1])
<1> DEFINE pieces == [i \in DOMAIN input |-> Socket!Told(input[i])]
<1>1. Len(input) \in Nat /\ DOMAIN input = 1 .. Len(input)
  BY FramesAreOk
<1>2. ASSUME NEW i \in 1 .. Len(input) PROVE Socket!Told(input[i]) \in Seq(Reported)
  <2>1. FrameOk(input[i])
    BY FramesAreOk
  <2>2. PICK S, t : S = Reported /\ t = <<input[i].opcode, input[i].payload>>
    OBVIOUS
  <2>3. t \in S
    <3>1. input[i].opcode \in Nat /\ input[i].payload \in Seq(Nat)
      BY <2>1, PayloadBytes, SMTT(30)
    <3>2. QED
      BY <2>2, <3>1 DEF Reported
  <2>4. <<t>> \in Seq(S) /\ <<>> \in Seq(S)
    BY ONLY <2>3, EmptySeq
  <2>5. Socket!Told(input[i]) \in {<<>>, <<t>>}
    BY <2>2 DEF Socket!Told
  <2>6. QED
    BY ONLY <2>2, <2>4, <2>5
<1>3. pieces \in Seq(Seq(Reported)) /\ Len(pieces) = Len(input)
  <2>1. pieces \in [1 .. Len(input) -> Seq(Reported)]
    BY <1>1, <1>2
  <2> HIDE DEF pieces
  <2>2. QED
    BY <1>1, <2>1, LenProperties, SeqDef
<1>4. \A i \in 1 .. Len(input) : pieces[i] = Socket!Told(input[i])
  BY <1>1
<1>5. Socket!Reports(input) = Serial!Joined(pieces)
  BY DEF Socket!Reports, Socket!Joined, Serial!Joined
<1> HIDE DEF pieces
<1>6. /\ Socket!Reports(input)[0] = <<>>
      /\ \A k \in 0 .. Len(input) - 1 :
            Socket!Reports(input)[k + 1] = Socket!Reports(input)[k] \o pieces[k + 1]
  BY <1>3, <1>5, JoinedPieces
<1>7. ASSUME NEW n \in 0 .. Len(input) - 1
      PROVE  Socket!Reports(input)[n + 1] = Socket!Reports(input)[n] \o Socket!Told(input[n + 1])
  <2>1. n + 1 \in 1 .. Len(input)
    BY <1>1
  <2>2. QED
    BY <1>4, <1>6, <2>1
<1>8. QED
  BY <1>6, <1>7

\* A byte of a frame is where the frame stands in the stream.
LEMMA ByteOnTheWire ==
    ASSUME input \in Frames, NEW n \in 0 .. Len(input) - 1,
           NEW q \in 1 .. Len(Socket!Wire(input[n + 1]))
    PROVE  /\ SocketEnd(n) + q <= Len(SocketBytes)
           /\ SocketBytes[SocketEnd(n) + q] = Socket!Wire(input[n + 1])[q]
<1>1. PICK pieces \in Seq(Seq(Nat)) : /\ Len(pieces) = Len(input)
                                     /\ Socket!Wires(input) = Serial!Joined(pieces)
                                     /\ \A i \in 1 .. Len(input) : pieces[i] = Socket!Wire(input[i])
  BY FramesInPieces
<1>2. Len(input) \in Nat /\ n + 1 \in 1 .. Len(input)
  BY FramesAreOk
<1>3. n \in 0 .. Len(pieces) - 1 /\ q \in 1 .. Len(pieces[n + 1])
  BY <1>1, <1>2
<1>4. PICK joined : joined = Serial!Joined(pieces)
  OBVIOUS
<1>5. /\ Len(joined[n]) + q <= Len(joined[Len(pieces)])
      /\ joined[Len(pieces)][Len(joined[n]) + q] = pieces[n + 1][q]
  BY <1>3, <1>4, ByteOfPiece
<1>6. QED
  BY <1>1, <1>2, <1>4, <1>5 DEF SocketBytes, SocketEnd

\* The size of the frame before.
Before(n) == IF n = 0 THEN 0 ELSE Len(input[n].payload)

\* Up to Understood the socket finds the sizes.
LEMMA UnderstoodFrames ==
    ASSUME input \in Frames
    PROVE  /\ Socket!Understood \in 0 .. Len(input)
           /\ \A n \in 0 .. Socket!Understood - 1 :
                 Before(n) \in Nat /\ Sized(input[n + 1], Before(n))
<1> DEFINE lost == {i \in 2 .. Len(input) : input[i].long /\ input[i - 1].payload # <<>>}
           all == lost \cup {Len(input) + 1}
<1>1. Len(input) \in Nat
  BY FramesAreOk
<1>2. all \in SUBSET Nat /\ all # {}
  BY <1>1
<1>3. Socket!Understood = Socket!Min(all) - 1
  BY DEF Socket!Understood
<1> HIDE DEF all
<1>4. Socket!Min(all) \in all /\ \A y \in all : Socket!Min(all) <= y
  <2>1. \E x \in all : \A y \in all : x <= y
    BY <1>2, Least
  <2>2. QED
    BY <2>1 DEF Socket!Min
<1>5. Socket!Min(all) \in 1 .. Len(input) + 1
  <2>1. \A m \in all : m \in 1 .. Len(input) + 1
    BY <1>1 DEF all
  <2>2. QED
    BY ONLY <1>4, <2>1
<1>6. ASSUME NEW n \in 0 .. Socket!Understood - 1
      PROVE  Before(n) \in Nat /\ Sized(input[n + 1], Before(n))
  <2>1. n + 1 \in 1 .. Len(input) /\ ~ (Socket!Min(all) <= n + 1) /\ (n + 1) - 1 = n /\ n \in Nat
    BY <1>1, <1>3, <1>5
  <2>2. CASE n = 0
    BY <2>2 DEF Before, Sized
  <2>3. CASE n # 0
    <3>1. n \in 1 .. Len(input) /\ n + 1 \in 2 .. Len(input)
      BY <1>1, <2>1, <2>3
    <3>2. PICK b : b = input[n].payload
      OBVIOUS
    <3>3. b \in Seq(Nat) /\ Len(b) \in Nat
      BY <3>1, <3>2, FramesAreOk, PayloadBytes
    <3>4. n + 1 \notin lost
      BY <1>4, <2>1 DEF all
    <3>5. input[n + 1].long => b = <<>>
      BY <2>1, <3>1, <3>2, <3>4
    <3>6. Before(n) = Len(b)
      BY <2>3, <3>2 DEF Before
    <3>7. QED
      BY <3>3, <3>5, <3>6, EmptySeq DEF Sized
  <2>4. QED
    BY <2>2, <2>3
<1>7. QED
  BY <1>1, <1>3, <1>5, <1>6

\* The socket has reported the frames it has read and is inside the next one.
\* Without the second part a byte would not keep the first.
FramesSorted(o, t) ==
    \A n \in 0 .. Socket!Understood, p \in Nat :
       (/\ t = SocketEnd(n) + p
        /\ IF n < Socket!Understood THEN p < Len(Socket!Wire(input[n + 1])) ELSE p = 0)
         => /\ o.reported = Socket!Reports(input)[n]
            /\ n < Socket!Understood => Inside(o, input[n + 1], Before(n), p)

\* One byte keeps it.
LEMMA FramesSortedByte ==
    ASSUME input \in Frames, NEW o \in Sockets, NEW t \in Nat, t < Len(SocketBytes),
           FramesSorted(o, t)
    PROVE  FramesSorted(Socket!Byte(o, SocketBytes[t + 1]), t + 1)
<1> DEFINE next == Socket!Byte(o, SocketBytes[t + 1])
<1>1. Len(input) \in Nat /\ Socket!Understood \in 0 .. Len(input)
  BY FramesAreOk, UnderstoodFrames
<1>2. ASSUME NEW m \in 0 .. Socket!Understood - 1, NEW p \in Nat, t = SocketEnd(m) + p,
             p < Len(Socket!Wire(input[m + 1]))
      PROVE  /\ p + 1 < Len(Socket!Wire(input[m + 1])) => /\ Inside(next, input[m + 1], Before(m), p + 1)
                                                   /\ next.reported = Socket!Reports(input)[m]
             /\ p + 1 = Len(Socket!Wire(input[m + 1])) =>
                   Ready(next, Len(input[m + 1].payload)) /\ next.reported = Socket!Reports(input)[m + 1]
  <2>1. /\ m \in 0 .. Socket!Understood /\ m < Socket!Understood /\ m + 1 \in 1 .. Socket!Understood
        /\ m + 1 \in 1 .. Len(input) /\ m \in 0 .. Len(input) - 1 /\ m \in 0 .. Len(input)
    BY <1>1
  <2>2. o.reported = Socket!Reports(input)[m] /\ Inside(o, input[m + 1], Before(m), p)
    BY <1>2, <2>1 DEF FramesSorted
  <2>3. FrameOk(input[m + 1]) /\ Sized(input[m + 1], Before(m)) /\ Before(m) \in Nat
    BY <2>1, FramesAreOk, UnderstoodFrames
  <2>4. SocketBytes[t + 1] = Socket!Wire(input[m + 1])[p + 1]
    <3>1. SocketEnd(m) \in Nat /\ Len(Socket!Wire(input[m + 1])) \in Nat
      BY <2>1, <2>3, WireOfFrames, FrameOnTheWire
    <3>2. p + 1 \in 1 .. Len(Socket!Wire(input[m + 1])) /\ SocketEnd(m) + (p + 1) = t + 1
      BY <1>2, <3>1
    <3>3. QED
      BY <2>1, <3>2, ByteOnTheWire
  <2>5. PICK frame, prev, wire : /\ frame = input[m + 1] /\ prev = Before(m)
                                 /\ wire = Socket!Wire(frame)
    OBVIOUS
  <2>6. next = Socket!Byte(o, wire[p + 1])
    BY <2>4, <2>5
  <2>7. Advances(next, o, frame, prev, p, wire)
    <3>1. /\ p < Len(Socket!Wire(frame)) /\ Inside(o, frame, prev, p) /\ FrameOk(frame)
          /\ prev \in Nat /\ Sized(frame, prev)
      BY <1>2, <2>2, <2>3, <2>5
    <3>2. Advances(Socket!Byte(o, Socket!Wire(frame)[p + 1]), o, frame, prev, p, Socket!Wire(frame))
      BY ONLY <3>1, FrameAdvances, o \in Sockets, p \in Nat
    <3> HIDE DEF next
    <3>3. QED
      BY ONLY <2>5, <2>6, <3>2
  <2>8. Socket!Reports(input)[m + 1] = Socket!Reports(input)[m] \o Socket!Told(input[m + 1])
    BY <2>1, ReportsOfFrames
  <2> HIDE DEF next
  <2>9. QED
    BY <2>2, <2>5, <2>7, <2>8 DEF Advances
<1> HIDE DEF next
<1>3. ASSUME NEW n \in 0 .. Socket!Understood, NEW p \in Nat, t + 1 = SocketEnd(n) + p,
             IF n < Socket!Understood THEN p < Len(Socket!Wire(input[n + 1])) ELSE p = 0
      PROVE  /\ next.reported = Socket!Reports(input)[n]
             /\ n < Socket!Understood => Inside(next, input[n + 1], Before(n), p)
  <2>1. SocketEnd(n) \in Nat /\ SocketEnd(0) = 0
    BY <1>1, WireOfFrames
  <2>2. CASE p # 0
    <3>1. /\ n \in 0 .. Socket!Understood - 1 /\ n < Socket!Understood
          /\ p < Len(Socket!Wire(input[n + 1]))
      BY <1>1, <1>3, <2>2
    <3>2. PICK q : q = p - 1
      OBVIOUS
    <3>3. Len(Socket!Wire(input[n + 1])) \in Nat
      <4>1. n + 1 \in 1 .. Len(input)
        BY <1>1, <3>1
      <4>2. QED
        BY <4>1, FramesAreOk, FrameOnTheWire
    <3>4. q \in Nat /\ q + 1 = p /\ t = SocketEnd(n) + q /\ q < Len(Socket!Wire(input[n + 1]))
      BY <1>3, <2>1, <2>2, <3>1, <3>2, <3>3
    <3>5. Inside(next, input[n + 1], Before(n), q + 1) /\ next.reported = Socket!Reports(input)[n]
      BY <1>2, <3>1, <3>4
    <3>6. QED
      BY <3>4, <3>5
  <2>3. CASE p = 0
    <3>1. n # 0
      BY <1>3, <2>1, <2>3
    <3>2. PICK m : m = n - 1
      OBVIOUS
    <3>3. m \in 0 .. Socket!Understood - 1 /\ m + 1 = n /\ m \in 0 .. Len(input) - 1
          /\ m + 1 \in 1 .. Len(input) /\ m \in 0 .. Len(input)
      BY <1>1, <3>1, <3>2
    <3>4. SocketEnd(m + 1) = SocketEnd(m) + Len(Socket!Wire(input[m + 1])) /\ SocketEnd(m) \in Nat
      BY <3>3, WireOfFrames
    <3>5. Len(Socket!Wire(input[m + 1])) \in Nat /\ Len(Socket!Wire(input[m + 1])) >= 1
      BY <3>3, FramesAreOk, FrameOnTheWire
    <3>6. PICK q : q = Len(Socket!Wire(input[m + 1])) - 1
      OBVIOUS
    <3>7. q \in Nat /\ q + 1 = Len(Socket!Wire(input[m + 1])) /\ q < Len(Socket!Wire(input[m + 1]))
      BY <3>5, <3>6
    <3>8. t = SocketEnd(m) + q
      BY <1>3, <2>3, <3>3, <3>4, <3>5, <3>6
    <3>9. Ready(next, Len(input[m + 1].payload)) /\ next.reported = Socket!Reports(input)[m + 1]
      BY <1>2, <3>3, <3>7, <3>8
    <3>10. ASSUME n < Socket!Understood PROVE Inside(next, input[n + 1], Before(n), 0)
      <4>1. Before(n) = Len(input[m + 1].payload)
        BY <3>1, <3>3 DEF Before
      <4>2. HeadLength(input[n + 1]) \in {2, 4}
        BY DEF HeadLength
      <4>3. QED
        BY <3>9, <4>1, <4>2 DEF Inside
    <3>11. QED
      BY <2>3, <3>3, <3>9, <3>10
  <2>4. QED
    BY <2>2, <2>3
<1>4. QED
  BY <1>3 DEF FramesSorted, next

\* Reads are posted for all bytes that have arrived, and perhaps the end behind them.
Posted(s, many) ==
    /\ s \in Seq({"read", "end"})
    /\ \E k \in Nat : /\ Len(s) \in {k, k + 1}
                      /\ \A i \in 1 .. k : s[i] = "read"
                      /\ Len(s) = k + 1 => s[k + 1] = "end"
                      /\ many <= ReadSize * k

\* What the block size is.
LEMMA ReadSizeOk == ReadSize \in Nat /\ ReadSize >= 1
BY LoopsAssumption DEF Socket!WebSocketAssumption

\* Without an end every slot is a read.
LEMMA NoEnd ==
    ASSUME NEW s, NEW many, Posted(s, many), "end" \notin Socket!Range(s)
    PROVE  /\ Len(s) \in Nat /\ many <= ReadSize * Len(s)
           /\ \A i \in 1 .. Len(s) : s[i] = "read"
<1>1. PICK k \in Nat : /\ Len(s) \in {k, k + 1}
                       /\ \A i \in 1 .. k : s[i] = "read"
                       /\ Len(s) = k + 1 => s[k + 1] = "end"
                       /\ many <= ReadSize * k
  BY DEF Posted
<1>2. s \in Seq({"read", "end"}) /\ DOMAIN s = 1 .. Len(s)
  BY LenProperties DEF Posted
<1>3. ASSUME Len(s) = k + 1 PROVE FALSE
  <2>1. k + 1 \in DOMAIN s
    BY <1>2, <1>3
  <2>2. s[k + 1] \in Socket!Range(s)
    BY <2>1 DEF Socket!Range
  <2>3. QED
    BY <1>1, <1>3, <2>2
<1>4. Len(s) = k
  BY <1>1, <1>3
<1>5. QED
  BY <1>1, <1>4

\* A read is posted with its block.
LEMMA ReadPosted ==
    ASSUME NEW s, NEW many \in Nat, Posted(s, many), "end" \notin Socket!Range(s),
           NEW size \in Nat, size <= ReadSize
    PROVE  Posted(Append(s, "read"), many + size)
<1>1. PICK k, t, R : k = Len(s) /\ t = Append(s, "read") /\ R = ReadSize
  OBVIOUS
<1>2. k \in Nat /\ many <= R * k /\ R \in Nat /\ \A i \in 1 .. k : s[i] = "read"
  BY <1>1, NoEnd, ReadSizeOk
<1>3. /\ t \in Seq({"read", "end"}) /\ Len(t) = k + 1
      /\ \A i \in 1 .. k : t[i] = s[i]
      /\ t[k + 1] = "read"
  <2>1. s \in Seq({"read", "end"}) /\ "read" \in {"read", "end"}
    BY DEF Posted
  <2>2. QED
    BY ONLY <1>1, <2>1, AppendProperties
<1>4. k + 1 \in Nat /\ \A i \in 1 .. k + 1 : t[i] = "read"
  BY <1>2, <1>3
<1>5. many + size <= R * (k + 1)
  <2>1. R * (k + 1) = R * k + R /\ R * k \in Nat
    BY ONLY <1>2
  <2>2. QED
    BY ONLY <1>1, <1>2, <2>1, size <= ReadSize, many \in Nat, size \in Nat
<1>6. Len(t) # (k + 1) + 1
  BY <1>2, <1>3
<1>7. QED
  BY <1>1, <1>3, <1>4, <1>5, <1>6 DEF Posted

\* The end is posted.
LEMMA EndPosted ==
    ASSUME NEW s, NEW many \in Nat, Posted(s, many), "end" \notin Socket!Range(s)
    PROVE  Posted(Append(s, "end"), many)
<1>1. PICK k, t : k = Len(s) /\ t = Append(s, "end")
  OBVIOUS
<1>2. k \in Nat /\ many <= ReadSize * k /\ \A i \in 1 .. k : s[i] = "read"
  BY <1>1, NoEnd
<1>3. /\ t \in Seq({"read", "end"}) /\ Len(t) = k + 1
      /\ \A i \in 1 .. k : t[i] = s[i]
      /\ t[k + 1] = "end"
  <2>1. s \in Seq({"read", "end"}) /\ "end" \in {"read", "end"}
    BY DEF Posted
  <2>2. QED
    BY ONLY <1>1, <2>1, AppendProperties
<1>4. \A i \in 1 .. k : t[i] = "read"
  BY <1>2, <1>3
<1>5. QED
  BY <1>1, <1>2, <1>3, <1>4 DEF Posted

\* A read runs: it takes a block, or all there is.
LEMMA ReadRuns ==
    ASSUME NEW s, NEW many \in Nat, Posted(s, many), s # <<>>, Head(s) = "read",
           NEW rest \in Nat, rest = 0 \/ rest + ReadSize <= many
    PROVE  /\ Posted(Tail(s), rest)
           /\ "end" \notin Socket!Range(s) => "end" \notin Socket!Range(Tail(s))
<1>1. PICK k \in Nat : /\ Len(s) \in {k, k + 1}
                       /\ \A i \in 1 .. k : s[i] = "read"
                       /\ Len(s) = k + 1 => s[k + 1] = "end"
                       /\ many <= ReadSize * k
  BY DEF Posted
<1>2. PICK t, R : t = Tail(s) /\ R = ReadSize
  OBVIOUS
<1>3. s \in Seq({"read", "end"})
  BY DEF Posted
<1>4. /\ t \in Seq({"read", "end"}) /\ Len(t) = Len(s) - 1 /\ s[1] = "read"
      /\ \A i \in 1 .. Len(t) : t[i] = s[i + 1]
      /\ Len(s) \in Nat /\ DOMAIN s = 1 .. Len(s) /\ DOMAIN t = 1 .. Len(t)
  BY ONLY <1>2, <1>3, s # <<>>, Head(s) = "read", HeadTailProperties, LenProperties
<1>5. Len(s) # 0
  BY <1>3, EmptySeq
<1>6. k # 0
  BY <1>1, <1>4, <1>5
<1>7. PICK j : j = k - 1
  OBVIOUS
<1>8. j \in Nat /\ j + 1 = k /\ Len(t) \in {j, j + 1}
  BY <1>1, <1>4, <1>6, <1>7
<1>9. ASSUME NEW i \in 1 .. j PROVE t[i] = "read"
  <2>1. i \in 1 .. Len(t) /\ i + 1 \in 1 .. k
    BY <1>8
  <2>2. QED
    BY <1>1, <1>4, <2>1
<1>10. ASSUME Len(t) = j + 1 PROVE t[j + 1] = "end"
  <2>1. j + 1 \in 1 .. Len(t) /\ (j + 1) + 1 = k + 1 /\ Len(s) = k + 1
    BY <1>4, <1>8, <1>10
  <2>2. QED
    BY <1>1, <1>4, <2>1
<1>11. rest <= R * j
  <2>1. R \in Nat /\ R * k = R * j + R /\ R * j \in Nat
    BY <1>2, <1>8, ReadSizeOk
  <2>2. many <= R * k /\ (rest = 0 \/ rest + R <= many)
    BY <1>1, <1>2
  <2>3. QED
    BY ONLY <2>1, <2>2, rest \in Nat, many \in Nat
<1>12. Posted(t, rest)
  BY <1>2, <1>4, <1>8, <1>9, <1>10, <1>11 DEF Posted
<1>13. ASSUME "end" \notin Socket!Range(s) PROVE "end" \notin Socket!Range(t)
  <2>1. \A i \in DOMAIN t : i + 1 \in DOMAIN s /\ t[i] = s[i + 1]
    BY <1>4
  <2>2. QED
    BY <1>13, <2>1 DEF Socket!Range
<1>14. QED
  BY <1>2, <1>12, <1>13

\* Nothing is left where the end runs, or no slot.
LEMMA NothingLeft ==
    ASSUME NEW s, NEW many \in Nat, Posted(s, many), s = <<>> \/ Head(s) = "end"
    PROVE  many = 0
<1>1. PICK k \in Nat : /\ Len(s) \in {k, k + 1}
                       /\ \A i \in 1 .. k : s[i] = "read"
                       /\ many <= ReadSize * k
  BY DEF Posted
<1>2. s \in Seq({"read", "end"}) /\ Len(s) \in Nat
  BY LenProperties DEF Posted
<1>3. CASE s = <<>>
  <2>1. Len(s) = 0
    BY <1>3, EmptySeq
  <2>2. k = 0
    BY <1>1, <2>1
  <2>3. QED
    BY <1>1, <2>2, ReadSizeOk
<1>4. CASE s # <<>>
  <2>1. s[1] = "end"
    BY <1>2, <1>4, HeadTailProperties
  <2>2. k = 0
    BY <1>1, <2>1
  <2>3. QED
    BY <1>1, <2>2, ReadSizeOk
<1>5. QED
  BY <1>3, <1>4

\* The inductive invariant of the web socket: what has arrived and what has not is
\* the end of the stream, the object is sorted for what it has read, and slots are
\* posted for all that has arrived.
FramesInv ==
    /\ input \in Frames /\ object \in Sockets
    /\ Remains(Nat, SocketBytes, SocketTaken, arrived, unread)
    /\ FramesSorted(object, SocketTaken)
    /\ Posted(slots, Len(arrived))

\* All bytes of the stream.
LEMMA BytesOfFrames ==
    ASSUME input \in Frames
    PROVE  SocketBytes \in Seq(Nat) /\ Len(SocketBytes) \in Nat
<1>1. Len(input) \in 0 .. Len(input)
  BY FramesAreOk
<1>2. QED
  BY <1>1, WireOfFrames, LenProperties DEF SocketBytes

\* Nothing was read at the start.
LEMMA InitFrames == Socket!Init => FramesInv
<1> SUFFICES ASSUME Socket!Init PROVE FramesInv
  OBVIOUS
<1>1. input \in Frames /\ unread = SocketBytes /\ arrived = <<>> /\ slots = <<>>
  BY DEF Socket!Init, SocketBytes
<1>2. Len(input) \in Nat /\ Socket!Understood \in 0 .. Len(input)
  BY <1>1, FramesAreOk, UnderstoodFrames
<1>3. SocketBytes \in Seq(Nat) /\ Len(SocketBytes) \in Nat
  BY <1>1, BytesOfFrames
<1>4. /\ arrived \in Seq(Nat) /\ Len(arrived) = 0
      /\ unread \in Seq(Nat) /\ Len(unread) = Len(SocketBytes)
  BY <1>1, <1>3, EmptySeq
<1>5. SocketTaken = 0
  BY <1>3, <1>4 DEF SocketTaken
<1>6. object \in Sockets /\ Ready(object, 0) /\ object.reported = <<>>
  <2>1. object = [readState |-> "INIT", payloadSize |-> 0, pos |-> 0, opcode |-> 0,
                  isMask |-> FALSE, mask |-> [i \in 0 .. 3 |-> 0], data |-> <<>>,
                  reported |-> <<>>]
    BY DEF Socket!Init, Socket!Fresh
  <2>2. [i \in 0 .. 3 |-> 0] \in [0 .. 3 -> Nat]
    OBVIOUS
  <2>3. <<>> \in Seq(Nat) /\ <<>> \in Seq(Reported)
    BY EmptySeq
  <2>4. QED
    BY <2>1, <2>2, <2>3 DEF Sockets, FrameStates, Ready
<1>7. ASSUME NEW n \in 0 .. Socket!Understood, NEW p \in Nat, 0 = SocketEnd(n) + p
      PROVE  n = 0 /\ p = 0
  <2>1. SocketEnd(n) \in Nat
    BY <1>1, <1>2, WireOfFrames
  <2>2. SocketEnd(n) = 0 /\ p = 0
    BY <1>7, <2>1
  <2>3. ASSUME n # 0 PROVE FALSE
    <3>1. PICK m : m = n - 1
      OBVIOUS
    <3>2. m \in 0 .. Len(input) - 1 /\ m + 1 = n /\ m + 1 \in 1 .. Len(input)
          /\ m \in 0 .. Len(input)
      BY <1>2, <2>3, <3>1
    <3>3. /\ SocketEnd(m + 1) = SocketEnd(m) + Len(Socket!Wire(input[m + 1]))
          /\ SocketEnd(m) \in Nat
      BY <1>1, <3>2, WireOfFrames
    <3>4. Len(Socket!Wire(input[m + 1])) \in Nat /\ Len(Socket!Wire(input[m + 1])) >= 1
      BY <1>1, <3>2, FramesAreOk, FrameOnTheWire
    <3>5. SocketEnd(m + 1) # 0
      BY <3>3, <3>4
    <3>6. QED
      BY <2>2, <3>2, <3>5
  <2>4. QED
    BY <2>2, <2>3
<1>8. FramesSorted(object, 0)
  <2>1. Socket!Reports(input)[0] = <<>>
    BY <1>1, ReportsOfFrames
  <2>2. Inside(object, input[0 + 1], Before(0), 0)
    <3>1. HeadLength(input[0 + 1]) \in {2, 4}
      BY DEF HeadLength
    <3>2. QED
      BY <1>6, <3>1 DEF Inside, Before
  <2>3. QED
    BY <1>6, <1>7, <2>1, <2>2 DEF FramesSorted
<1>9. Remains(Nat, SocketBytes, SocketTaken, arrived, unread)
  <2>1. \A k \in 1 .. Len(unread) : SocketTaken + Len(arrived) + k = k
    BY <1>3, <1>4, <1>5
  <2>2. \A k \in 1 .. Len(unread) : unread[k] = SocketBytes[SocketTaken + Len(arrived) + k]
    BY <1>1, <2>1
  <2>3. Len(SocketBytes) = SocketTaken + Len(arrived) + Len(unread)
    BY <1>3, <1>4, <1>5
  <2>4. QED
    BY <1>3, <1>4, <1>5, <2>2, <2>3 DEF Remains
<1>10. Posted(slots, Len(arrived))
  <2>1. slots \in Seq({"read", "end"}) /\ Len(slots) = 0
    BY <1>1, EmptySeq
  <2>2. Len(arrived) <= ReadSize * 0
    BY <1>4, ReadSizeOk
  <2>3. QED
    BY <2>1, <2>2 DEF Posted
<1>11. QED
  BY <1>1, <1>5, <1>6, <1>8, <1>9, <1>10 DEF FramesInv

\* A step that neither moves bytes nor reads one.
LEMMA FramesUntouched ==
    ASSUME FramesInv, input' = input, unread' = unread, arrived' = arrived, object' = object,
           Posted(slots', Len(arrived))
    PROVE  FramesInv'
<1>1. SocketBytes' = SocketBytes /\ SocketTaken' = SocketTaken
  BY DEF SocketBytes, SocketTaken
<1>2. FramesSorted(object, SocketTaken)'
  <2>1. FramesSorted(object, SocketTaken)
    BY DEF FramesInv
  <2>2. QED
    BY <1>1, <2>1 DEF FramesSorted, SocketEnd, Socket!Understood, Before
<1>3. QED
  BY <1>1, <1>2 DEF FramesInv

\* A block moves bytes from the stream to the socket, and a slot is posted for it.
LEMMA BlockOfFrames ==
    ASSUME FramesInv, Socket!Arrive
    PROVE  FramesInv'
<1>1. PICK size \in 1 .. Len(unread) : /\ size <= ReadSize
                                       /\ arrived' = arrived \o SubSeq(unread, 1, size)
                                       /\ unread' = SubSeq(unread, size + 1, Len(unread))
  BY DEF Socket!Arrive
<1>2. /\ input' = input /\ object' = object /\ slots' = Append(slots, "read")
      /\ "end" \notin Socket!Range(slots)
  BY DEF Socket!Arrive, Socket!Ended
<1>3. Remains(Nat, SocketBytes, SocketTaken, arrived, unread) /\ input \in Frames
  BY DEF FramesInv
<1>4. /\ Remains(Nat, SocketBytes, SocketTaken, arrived', unread')
      /\ Len(arrived') = Len(arrived) + size /\ Len(unread') = Len(unread) - size
  <2>1. /\ Remains(Nat, SocketBytes, SocketTaken, arrived \o SubSeq(unread, 1, size),
                   SubSeq(unread, size + 1, Len(unread)))
        /\ Len(arrived \o SubSeq(unread, 1, size)) = Len(arrived) + size
        /\ Len(SubSeq(unread, size + 1, Len(unread))) = Len(unread) - size
    BY <1>1, <1>3, BlockArrives
  <2>2. QED
    BY <1>1, <2>1
<1>5. SocketBytes' = SocketBytes
  BY <1>2 DEF SocketBytes
<1>6. SocketTaken' = SocketTaken
  <2>1. PICK here, away, all : here = Len(arrived) /\ away = Len(unread) /\ all = Len(SocketBytes)
    OBVIOUS
  <2>2. here \in Nat /\ away \in Nat /\ size \in Int /\ all \in Nat
    BY <1>1, <1>3, <2>1, BytesOfFrames, LenProperties DEF Remains
  <2>3. SocketTaken' = all - (here + size) - (away - size)
    BY <1>4, <1>5, <2>1 DEF SocketTaken
  <2>4. SocketTaken = all - here - away
    BY <2>1 DEF SocketTaken
  <2>5. QED
    BY <2>2, <2>3, <2>4
<1>7. FramesSorted(object, SocketTaken)'
  <2>1. FramesSorted(object, SocketTaken)
    BY DEF FramesInv
  <2>2. QED
    BY <1>2, <1>6, <2>1 DEF FramesSorted, SocketEnd, Socket!Understood, Before
<1>8. Posted(slots', Len(arrived'))
  <2>1. PICK here, away : here = Len(arrived) /\ away = Len(unread)
    OBVIOUS
  <2>2. Posted(slots, here) /\ here \in Nat /\ away \in Nat
    BY <1>3, <2>1, LenProperties DEF FramesInv, Remains
  <2>3. size \in Nat
    BY <1>1, <2>1, <2>2
  <2>4. Posted(Append(slots, "read"), here + size)
    BY <1>1, <1>2, <2>2, <2>3, ReadPosted
  <2>5. QED
    BY <1>2, <1>4, <2>1, <2>4
<1>9. QED
  <2>1. input' \in Frames /\ object' \in Sockets
    BY <1>2 DEF FramesInv
  <2>2. Remains(Nat, SocketBytes', SocketTaken', arrived', unread')
    BY <1>4, <1>5, <1>6
  <2>3. QED
    BY <1>7, <1>8, <2>1, <2>2 DEF FramesInv

\* The slot reads at most ReadSize bytes of what has arrived.
LEMMA ReadOfFrames ==
    ASSUME FramesInv, Socket!tcpReadReady
    PROVE  FramesInv'
<1>1. PICK count : count = Socket!ReadCount
  OBVIOUS
<1>2. PICK front : front = SubSeq(arrived, 1, count)
  OBVIOUS
<1>3. /\ object' = Socket!Received(object, front)[count]
      /\ arrived' = SubSeq(arrived, count + 1, Len(arrived))
      /\ input' = input /\ unread' = unread /\ slots # <<>> /\ Head(slots) = "read"
      /\ \/ slots' = Tail(slots)
         \/ slots' = Append(Tail(slots), "end") /\ "end" \notin Socket!Range(slots)
  BY <1>1, <1>2 DEF Socket!tcpReadReady, Socket!Answer
<1>4. /\ input \in Frames /\ object \in Sockets /\ arrived \in Seq(Nat) /\ unread \in Seq(Nat)
      /\ Remains(Nat, SocketBytes, SocketTaken, arrived, unread) /\ FramesSorted(object, SocketTaken)
  BY DEF FramesInv, Remains
<1>5. PICK many, rest, taken, all : /\ many = Len(arrived) /\ rest = Len(unread)
                                    /\ taken = SocketTaken /\ all = Len(SocketBytes)
  OBVIOUS
<1>6. many \in Nat /\ rest \in Nat /\ taken \in Nat /\ all \in Nat /\ all = taken + many + rest
  BY <1>4, <1>5, LenProperties DEF Remains
<1>7. count \in 0 .. many /\ (count = many \/ count = ReadSize)
  BY <1>1, <1>5, <1>6, ReadSizeOk DEF Socket!ReadCount
<1>8. /\ Remains(Nat, SocketBytes, taken + count, arrived', unread)
      /\ Len(arrived') = many - count
      /\ front \in Seq(Nat) /\ Len(front) = count
      /\ \A k \in 0 .. count - 1 : taken + k < all /\ front[k + 1] = SocketBytes[taken + k + 1]
  <2>1. count \in 0 .. Len(arrived) /\ Remains(Nat, SocketBytes, taken, arrived, unread)
    BY <1>4, <1>5, <1>7
  <2>2. PICK S, stream, here, away, left :
           /\ S = Nat /\ stream = SocketBytes /\ here = arrived /\ away = unread
           /\ left = SubSeq(here, count + 1, Len(here))
    OBVIOUS
  <2>3. Remains(S, stream, taken, here, away) /\ count \in 0 .. Len(here)
    BY ONLY <2>1, <2>2
  <2>4. /\ Remains(S, stream, taken + count, left, away) /\ Len(left) = Len(here) - count
        /\ SubSeq(here, 1, count) \in Seq(S) /\ Len(SubSeq(here, 1, count)) = count
        /\ \A k \in 0 .. count - 1 :
              taken + k < Len(stream) /\ SubSeq(here, 1, count)[k + 1] = stream[taken + k + 1]
    BY ONLY <2>2, <2>3, BytesTaken
  <2>5. QED
    BY ONLY <1>2, <1>3, <1>5, <2>2, <2>4
<1>9. PICK received : received = Socket!Received(object, front)
  OBVIOUS
<1>10. /\ received[0] = object
       /\ \A k \in 0 .. count : received[k] \in Sockets
       /\ \A k \in 0 .. count - 1 : received[k + 1] = Socket!Byte(received[k], front[k + 1])
  BY <1>4, <1>8, <1>9, BytesReceived
<1> DEFINE sorted == {k \in Nat : FramesSorted(received[k], taken + k)}
<1>11. 0 \in sorted
  <2>1. taken + 0 = taken
    BY <1>6
  <2>2. QED
    BY <1>4, <1>5, <1>10, <2>1
<1>12. ASSUME NEW k \in 0 .. count - 1, k \in sorted PROVE k + 1 \in sorted
  <2>1. /\ k \in Nat /\ k + 1 \in Nat /\ k \in 0 .. count /\ taken + k \in Nat
        /\ (taken + k) + 1 = taken + (k + 1)
    BY <1>6, <1>7
  <2>2. taken + k < all /\ front[k + 1] = SocketBytes[(taken + k) + 1]
    BY <1>8
  <2>3. FramesSorted(Socket!Byte(received[k], SocketBytes[(taken + k) + 1]), (taken + k) + 1)
    <3>1. received[k] \in Sockets /\ FramesSorted(received[k], taken + k)
      BY <1>10, <1>12, <2>1
    <3>2. QED
      BY <1>4, <1>5, <2>1, <2>2, <3>1, FramesSortedByte
  <2>4. received[k + 1] = Socket!Byte(received[k], SocketBytes[(taken + k) + 1])
    BY <1>10, <2>1, <2>2
  <2>5. FramesSorted(received[k + 1], taken + (k + 1))
    BY <2>1, <2>3, <2>4
  <2>6. QED
    BY <2>1, <2>5
<1>13. FramesSorted(received[count], taken + count)
  <2> HIDE DEF sorted
  <2>0. count \in Nat
    BY <1>6, <1>7
  <2>1. \A k \in 0 .. count : k \in sorted
    BY ONLY <2>0, <1>11, <1>12, Counting
  <2>2. QED
    BY <2>0, <2>1 DEF sorted
<1>14. object' = received[count] /\ object' \in Sockets
  <2>1. count \in 0 .. count
    BY <1>6, <1>7
  <2>2. QED
    BY <1>3, <1>9, <1>10, <2>1
<1>15. SocketBytes' = SocketBytes
  BY <1>3 DEF SocketBytes
<1>16. SocketTaken' = taken + count
  <2>1. SocketTaken' = all - (many - count) - rest
    BY <1>3, <1>5, <1>8, <1>15 DEF SocketTaken
  <2>2. QED
    BY <1>6, <1>7, <2>1
<1>17. FramesSorted(object, SocketTaken)'
  BY <1>3, <1>13, <1>14, <1>16 DEF FramesSorted, SocketEnd, Socket!Understood, Before
<1>18. Posted(slots', Len(arrived'))
  <2>1. PICK left : left = many - count
    OBVIOUS
  <2>2. left \in Nat /\ (left = 0 \/ left + ReadSize <= many)
    BY <1>6, <1>7, <2>1, ReadSizeOk
  <2>3. Posted(slots, many)
    BY <1>5 DEF FramesInv
  <2>4. /\ Posted(Tail(slots), left)
        /\ "end" \notin Socket!Range(slots) => "end" \notin Socket!Range(Tail(slots))
    BY ONLY <1>3, <1>6, <2>2, <2>3, ReadRuns
  <2>5. "end" \notin Socket!Range(slots) => Posted(Append(Tail(slots), "end"), left)
    BY ONLY <2>2, <2>4, EndPosted
  <2>6. Posted(slots', left)
    BY ONLY <1>3, <2>4, <2>5
  <2>7. QED
    BY <1>8, <2>1, <2>6
<1>19. QED
  <2>1. input' \in Frames
    BY <1>3, <1>4
  <2>2. Remains(Nat, SocketBytes', SocketTaken', arrived', unread')
    BY <1>3, <1>8, <1>15, <1>16
  <2>3. QED
    BY <1>14, <1>17, <1>18, <2>1, <2>2 DEF FramesInv

\* One step of the stream, of the program or of the socket.
LEMMA FramesStep == FramesInv /\ [Socket!Next]_Socket!vars => FramesInv'
<1>1. CASE FramesInv /\ Socket!Arrive
  BY <1>1, BlockOfFrames
<1>2. CASE FramesInv /\ Socket!tcpReadReady
  BY <1>2, ReadOfFrames
<1>3. CASE FramesInv /\ (Socket!Upgrade \/ Socket!sendFrame \/ UNCHANGED Socket!vars)
  <2>1. /\ input' = input /\ unread' = unread /\ arrived' = arrived /\ object' = object
        /\ slots' = slots
    BY <1>3 DEF Socket!Upgrade, Socket!sendFrame, Socket!vars
  <2>2. Posted(slots', Len(arrived))
    BY <1>3, <2>1 DEF FramesInv
  <2>3. QED
    BY <1>3, <2>1, <2>2, FramesUntouched
<1>4. CASE FramesInv /\ Socket!PeerEnds
  <2>1. /\ input' = input /\ unread' = unread /\ arrived' = arrived /\ object' = object
        /\ slots' = Append(slots, "end") /\ "end" \notin Socket!Range(slots)
    BY <1>4 DEF Socket!PeerEnds, Socket!Ended
  <2>2. PICK many : many = Len(arrived)
    OBVIOUS
  <2>3. many \in Nat /\ Posted(slots, many)
    BY <1>4, <2>2, LenProperties DEF FramesInv, Remains
  <2>4. Posted(slots', many)
    BY ONLY <2>1, <2>3, EndPosted
  <2>5. QED
    BY <1>4, <2>1, <2>2, <2>4, FramesUntouched
<1>5. CASE FramesInv /\ Socket!tcpDisconnected
  <2>1. /\ input' = input /\ unread' = unread /\ arrived' = arrived /\ object' = object
        /\ slots' = <<>> /\ Head(slots) = "end"
    BY <1>5 DEF Socket!tcpDisconnected
  <2>2. PICK many : many = Len(arrived)
    OBVIOUS
  <2>3. many \in Nat /\ Posted(slots, many)
    BY <1>5, <2>2, LenProperties DEF FramesInv, Remains
  <2>4. many = 0
    BY ONLY <2>1, <2>3, NothingLeft
  <2>5. Posted(slots', many)
    <3>1. slots' \in Seq({"read", "end"}) /\ Len(slots') = 0
      BY <2>1, EmptySeq
    <3>2. many <= ReadSize * 0
      BY <2>4, ReadSizeOk
    <3>3. QED
      BY <3>1, <3>2 DEF Posted
  <2>6. QED
    BY <1>5, <2>1, <2>2, <2>5, FramesUntouched
<1>6. QED
  BY <1>1, <1>2, <1>3, <1>4, <1>5 DEF Socket!Next

\* What the web socket has reported is what its inductive invariant says.
LEMMA FramesAreReported == FramesInv => Socket!CutsDoNotMatter
<1>1. ASSUME FramesInv PROVE Socket!CutsDoNotMatter
  <2>1. ASSUME NEW n \in 0 .. Socket!Understood,
               SocketTaken \in SocketEnd(n) .. (IF n < Socket!Understood
                                                THEN SocketEnd(n + 1) - 1 ELSE SocketEnd(n))
        PROVE  object.reported = Socket!Reports(input)[n]
    <3>1. /\ Len(input) \in Nat /\ Socket!Understood \in 0 .. Len(input) /\ input \in Frames
          /\ FramesSorted(object, SocketTaken) /\ SocketTaken \in Nat
      BY <1>1, FramesAreOk, UnderstoodFrames DEF FramesInv, Remains
    <3>2. SocketEnd(n) \in Nat
      BY <3>1, WireOfFrames
    <3>3. PICK p : p = SocketTaken - SocketEnd(n)
      OBVIOUS
    <3>4. CASE n < Socket!Understood
      <4>1. n \in 0 .. Len(input) - 1
        BY <3>1, <3>4
      <4>2. SocketEnd(n + 1) = SocketEnd(n) + Len(Socket!Wire(input[n + 1]))
        BY <3>1, <4>1, WireOfFrames
      <4>3. Len(Socket!Wire(input[n + 1])) \in Nat
        <5>1. n + 1 \in 1 .. Len(input)
          BY <3>1, <4>1
        <5>2. QED
          BY <3>1, <5>1, FramesAreOk, FrameOnTheWire
      <4>4. p \in Nat /\ SocketTaken = SocketEnd(n) + p /\ p < Len(Socket!Wire(input[n + 1]))
        BY <2>1, <3>1, <3>2, <3>3, <3>4, <4>2, <4>3
      <4>5. QED
        BY <3>1, <3>4, <4>4 DEF FramesSorted
    <3>5. CASE ~ (n < Socket!Understood)
      <4>1. p = 0 /\ SocketTaken = SocketEnd(n) + p
        BY <2>1, <3>1, <3>2, <3>3, <3>5
      <4>2. QED
        BY <3>1, <3>5, <4>1 DEF FramesSorted
    <3>6. QED
      BY <3>4, <3>5
  <2>2. SocketTaken = SocketEnd(Len(input)) - Len(arrived) - Len(unread)
    BY DEF SocketTaken, SocketBytes, SocketEnd
  <2>3. slots = <<>> => arrived = <<>>
    <3>1. PICK many : many = Len(arrived)
      OBVIOUS
    <3>2. many \in Nat /\ Posted(slots, many) /\ arrived \in Seq(Nat)
      BY <1>1, <3>1, LenProperties DEF FramesInv, Remains
    <3>3. slots = <<>> => many = 0
      BY ONLY <3>2, NothingLeft
    <3>4. QED
      BY <3>1, <3>2, <3>3, EmptySeq
  <2>4. QED
    BY <2>1, <2>2, <2>3, Zenon DEF Socket!CutsDoNotMatter, SocketEnd
<1>2. QED
  BY <1>1

-----------------------------------------------------------------------------
\* EBHttpRequest.

\* The first line end of some symbols, or -1.
FirstEnd(s, at) ==
    \/ at = -1 /\ \A i \in 1 .. Len(s) : s[i] # "\n"
    \/ /\ at \in 0 .. Len(s) - 1 /\ s[at + 1] = "\n"
       /\ \A i \in 1 .. at : s[i] # "\n"

\* LineEnd finds it.
LEMMA LineEndIsFirst ==
    ASSUME NEW s \in Seq(STRING)
    PROVE  FirstEnd(s, Http!LineEnd(s))
<1> DEFINE places == Http!Places(s, <<"\n">>, 0)
<1>1. PICK n, at : n = Len(s) /\ at = Http!LineEnd(s)
  OBVIOUS
<1>2. n \in Nat
  BY <1>1, LenProperties
<1>3. ASSUME NEW i \in 0 .. n - 1 PROVE SubSeq(s, i + 1, i + 1) = <<"\n">> <=> s[i + 1] = "\n"
  <2>1. PICK k, b : k = i + 1 /\ b = SubSeq(s, k, k)
    OBVIOUS
  <2>2. k \in 1 .. Len(s) /\ k \in Int /\ k <= k /\ k - k + 1 = 1 /\ k + 1 - 1 = k
    BY <1>1, <1>2, <2>1
  <2>3. \A j \in k .. k : s[j] \in STRING
    <3>1. s[k] \in STRING
      BY <2>2, ElementOfSeq
    <3>2. \A j \in k .. k : j = k
      BY <2>2
    <3>3. QED
      BY <3>1, <3>2
  <2>4. /\ b \in Seq(STRING) /\ Len(b) = IF k <= k THEN k - k + 1 ELSE 0
        /\ \A j \in 1 .. k - k + 1 : b[j] = s[k + j - 1]
    BY ONLY <2>1, <2>2, <2>3, SubSeqProperties
  <2>5. Len(b) = 1
    BY ONLY <2>2, <2>4
  <2>6. b[1] = s[k]
    <3>1. 1 \in 1 .. k - k + 1
      BY <2>2
    <3>2. QED
      BY ONLY <2>2, <2>4, <3>1
  <2>7. b = <<s[k]>>
    <3>1. s[k] \in STRING
      BY <2>2, ElementOfSeq
    <3>2. <<s[k]>> \in Seq(STRING) /\ Len(<<s[k]>>) = 1 /\ <<s[k]>>[1] = s[k]
      BY <3>1
    <3>3. \A j \in 1 .. Len(b) : b[j] = <<s[k]>>[j]
      <4>1. \A j \in 1 .. 1 : j = 1
        OBVIOUS
      <4>2. QED
        BY ONLY <2>5, <2>6, <3>2, <4>1
    <3>4. QED
      BY ONLY <2>4, <2>5, <3>2, <3>3, SeqEqual
  <2>8. \A x, y : <<x>> = <<y>> <=> x = y
    <3>1. \A x, y : <<x>>[1] = x /\ <<y>>[1] = y
      OBVIOUS
    <3>2. QED
      BY ONLY <3>1
  <2>9. QED
    BY ONLY <2>1, <2>7, <2>8, Zenon
<1>4. places = {i \in 0 .. n - 1 : s[i + 1] = "\n"}
  <2>1. Len(<<"\n">>) = 1
    OBVIOUS
  <2>2. places = {i \in 0 .. n - 1 : SubSeq(s, i + 1, i + 1) = <<"\n">>}
    BY <1>1, <2>1 DEF Http!Places
  <2>3. QED
    BY <1>3, <2>2
<1>5. at = IF 0 >= n \/ places = {} THEN -1
           ELSE CHOOSE i \in places : \A j \in places : i <= j
  BY <1>1 DEF Http!LineEnd, Http!Line, Http!indexOf
<1> HIDE DEF places
<1>6. CASE n = 0 \/ places = {}
  <2>1. at = -1
    BY <1>5, <1>6
  <2>2. \A i \in 1 .. n : s[i] # "\n"
    <3>1. ASSUME NEW i \in 1 .. n PROVE s[i] # "\n"
      <4>1. i - 1 \in 0 .. n - 1 /\ (i - 1) + 1 = i /\ n # 0
        BY <1>2
      <4>2. QED
        BY <1>4, <1>6, <4>1
    <3>2. QED
      BY <3>1
  <2>3. QED
    BY <1>1, <2>1, <2>2 DEF FirstEnd
<1>7. CASE n # 0 /\ places # {}
  <2>1. places \in SUBSET Nat
    BY <1>2, <1>4
  <2>2. \E x \in places : \A y \in places : x <= y
    BY <1>7, <2>1, Least
  <2>3. at \in places /\ \A y \in places : at <= y
    BY <1>2, <1>5, <1>7, <2>2
  <2>4. at \in 0 .. n - 1 /\ s[at + 1] = "\n"
    BY <1>4, <2>3
  <2>5. ASSUME NEW i \in 1 .. at, s[i] = "\n" PROVE FALSE
    <3>1. i - 1 \in 0 .. n - 1 /\ (i - 1) + 1 = i /\ ~ (at <= i - 1)
      BY <1>2, <2>4
    <3>2. i - 1 \in places
      BY <1>4, <2>5, <3>1
    <3>3. QED
      BY <2>3, <3>1, <3>2
  <2>6. QED
    BY <1>1, <2>4, <2>5 DEF FirstEnd
<1>8. QED
  BY <1>6, <1>7

\* The line in front of the line end, and what is behind it.
LEMMA LineCut ==
    ASSUME NEW s \in Seq(STRING), NEW at \in 0 .. Len(s) - 1
    PROVE  /\ Http!mid(s, 0, at) = SubSeq(s, 1, at)
           /\ Http!From(s, at + 1) = SubSeq(s, at + 2, Len(s))
<1>1. PICK n : n = Len(s)
  OBVIOUS
<1>2. n \in Nat /\ at \in 0 .. n - 1
  BY <1>1, LenProperties
<1>3. Http!mid(s, 0, at) = SubSeq(s, 1, at)
  <2>1. ~ (0 < 0) /\ ~ (0 >= n) /\ ~ (at < 0) /\ ~ (0 + at > n) /\ 0 + at = at /\ 0 + 1 = 1
    BY <1>2
  <2>2. QED
    BY <1>1, <2>1 DEF Http!mid
<1>4. CASE at + 1 < n
  <2>1. ~ (at + 1 < 0) /\ ~ (at + 1 >= n) /\ -1 < 0 /\ (at + 1) + 1 = at + 2
    BY <1>2, <1>4
  <2>2. QED
    BY <1>1, <1>3, <2>1 DEF Http!From, Http!mid
<1>5. CASE at + 1 = n
  <2>1. at + 1 >= n /\ at + 2 > n /\ at + 2 \in Int /\ n \in Int
    BY <1>2, <1>5
  <2>2. Http!From(s, at + 1) = <<>>
    BY <1>1, <2>1 DEF Http!From, Http!mid
  <2>3. SubSeq(s, at + 2, n) = <<>>
    BY ONLY <2>1, SubSeqEmpty
  <2>4. QED
    BY <1>1, <1>3, <2>2, <2>3
<1>6. QED
  BY <1>2, <1>4, <1>5

\* LinesRead goes on by one ReadLine at a time.
LEMMA LinesReadSteps ==
    ASSUME NEW o, NEW bytes \in Seq(STRING)
    PROVE  /\ Http!LinesRead(o, bytes)[0] = <<o, bytes>>
           /\ \A k \in 0 .. Len(bytes) - 1 :
                 Http!LinesRead(o, bytes)[k + 1] = Http!ReadLine(Http!LinesRead(o, bytes)[k])
<1>0. PICK n, base : n = Len(bytes) /\ base = <<o, bytes>>
  OBVIOUS
<1>1. n \in Nat
  BY <1>0, LenProperties
<1> DEFINE Goes(f, m) == /\ f = [j \in 0 .. m |-> f[j]] /\ f[0] = base
                         /\ \A j \in 0 .. m - 1 : f[j + 1] = Http!ReadLine(f[j])
           read == {m \in Nat : \E f : Goes(f, m)}
           Follows(f) == f = [k \in 0 .. n |-> IF k = 0 THEN base ELSE Http!ReadLine(f[k - 1])]
<1>2. 0 \in read
  <2>1. PICK f : f = [j \in 0 .. 0 |-> base]
    OBVIOUS
  <2>2. Goes(f, 0)
    BY <2>1
  <2>3. QED
    BY <2>2
<1>3. ASSUME NEW m \in 0 .. n - 1, m \in read PROVE m + 1 \in read
  <2>0. m \in Nat /\ m + 1 \in Nat /\ m \in 0 .. m /\ m + 1 \notin 0 .. m
    BY <1>1
  <2>1. PICK f : Goes(f, m)
    BY <1>3
  <2>2. PICK x : x = Http!ReadLine(f[m])
    OBVIOUS
  <2>3. PICK h : h = [j \in 0 .. m + 1 |-> IF j = m + 1 THEN x ELSE f[j]]
    OBVIOUS
  <2>4. h = [j \in 0 .. m + 1 |-> h[j]]
    BY ONLY <2>3
  <2>5. h[0] = base
    <3>1. 0 \in 0 .. m + 1 /\ 0 # m + 1
      BY <2>0
    <3>2. h[0] = f[0]
      BY ONLY <2>3, <3>1
    <3>3. QED
      BY <2>1, <3>2
  <2>6. ASSUME NEW j \in 0 .. m PROVE h[j + 1] = Http!ReadLine(h[j])
    <3>1. j \in 0 .. m + 1 /\ j + 1 \in 0 .. m + 1 /\ j # m + 1 /\ (j = m \/ j \in 0 .. m - 1)
      BY <2>0
    <3>2. h[j] = f[j]
      BY ONLY <2>3, <3>1
    <3>3. CASE j = m
      <4>1. h[j + 1] = x
        BY ONLY <2>3, <3>1, <3>3
      <4>2. QED
        BY ONLY <2>2, <3>2, <3>3, <4>1
    <3>4. CASE j \in 0 .. m - 1
      <4>1. j + 1 # m + 1
        BY <2>0, <3>4
      <4>2. h[j + 1] = f[j + 1]
        BY ONLY <2>3, <3>1, <4>1
      <4>3. f[j + 1] = Http!ReadLine(f[j])
        BY <2>1, <3>4
      <4>4. QED
        BY ONLY <3>2, <4>2, <4>3
    <3>5. QED
      BY <3>1, <3>3, <3>4
  <2>7. (m + 1) - 1 = m
    BY <2>0
  <2>8. Goes(h, m + 1)
    BY <2>4, <2>5, <2>6, <2>7
  <2> HIDE DEF Goes
  <2>9. QED
    BY <2>0, <2>8
<1>4. n \in read
  <2> HIDE DEF read
  <2>1. \A m \in 0 .. n : m \in read
    BY ONLY <1>1, <1>2, <1>3, Counting
  <2>2. QED
    BY <1>1, <2>1
<1>5. PICK f : Goes(f, n)
  BY <1>4
<1>6. Follows(f)
  <2>1. ASSUME NEW k \in 0 .. n, k # 0 PROVE f[k] = Http!ReadLine(f[k - 1])
    <3>1. PICK j : j = k - 1
      OBVIOUS
    <3>2. j \in 0 .. n - 1 /\ j + 1 = k
      BY <1>1, <2>1, <3>1
    <3>3. f[j + 1] = Http!ReadLine(f[j])
      BY <1>5, <3>2
    <3>4. QED
      BY <3>1, <3>2, <3>3
  <2>2. f = [k \in 0 .. n |-> f[k]] /\ f[0] = base
    BY <1>5
  <2>3. QED
    BY <2>1, <2>2
<1>7. PICK g : g = Http!LinesRead(o, bytes)
  OBVIOUS
<1>8. Follows(g)
  <2>1. g = CHOOSE h : Follows(h)
    BY <1>0, <1>7 DEF Http!LinesRead
  <2> HIDE DEF Follows
  <2>2. QED
    BY <1>6, <2>1
<1>9. \A k \in 0 .. n : g[k] = IF k = 0 THEN base ELSE Http!ReadLine(g[k - 1])
  BY <1>8
<1>10. g[0] = base
  BY <1>1, <1>9
<1>11. ASSUME NEW k \in 0 .. n - 1 PROVE g[k + 1] = Http!ReadLine(g[k])
  <2>1. k + 1 \in 0 .. n /\ k + 1 # 0 /\ (k + 1) - 1 = k
    BY <1>1
  <2>2. g[k + 1] = Http!ReadLine(g[(k + 1) - 1])
    BY ONLY <1>9, <2>1, Zenon
  <2>3. QED
    BY <2>1, <2>2, Zenon
<1>12. QED
  BY <1>0, <1>7, <1>10, <1>11

\* No line is read: there is none, the header has ended or the first was refused.
Settled(read) == \/ Http!LineEnd(read[2]) = -1
                 \/ read[1].headerFinished
                 \/ read[1].thrown

\* A line is read, and the symbols behind it are left.
LEMMA LineIsRead ==
    ASSUME NEW read, read[2] \in Seq(STRING), NEW at, at = Http!LineEnd(read[2])
    PROVE  /\ Settled(read) => Http!ReadLine(read) = read
           /\ ~ Settled(read) =>
                 /\ at \in 0 .. Len(read[2]) - 1
                 /\ Http!ReadLine(read) = <<Http!Parse(read[1], Http!trim(SubSeq(read[2], 1, at))),
                                            SubSeq(read[2], at + 2, Len(read[2]))>>
<1>1. Settled(read) => Http!ReadLine(read) = read
  BY DEF Settled, Http!ReadLine
<1>2. ASSUME ~ Settled(read)
      PROVE  /\ at \in 0 .. Len(read[2]) - 1
             /\ Http!ReadLine(read) = <<Http!Parse(read[1], Http!trim(SubSeq(read[2], 1, at))),
                                        SubSeq(read[2], at + 2, Len(read[2]))>>
  <2>1. FirstEnd(read[2], at)
    BY LineEndIsFirst
  <2>2. at \in 0 .. Len(read[2]) - 1
    BY <1>2, <2>1 DEF FirstEnd, Settled
  <2>3. /\ Http!mid(read[2], 0, at) = SubSeq(read[2], 1, at)
        /\ Http!From(read[2], at + 1) = SubSeq(read[2], at + 2, Len(read[2]))
    BY <2>2, LineCut
  <2>4. Http!ReadLine(read) = <<Http!Parse(read[1], Http!trim(Http!mid(read[2], 0, at))),
                                Http!From(read[2], at + 1)>>
    BY <1>2 DEF Settled, Http!ReadLine
  <2>5. QED
    BY <2>2, <2>3, <2>4
<1>3. QED
  BY <1>1, <1>2

\* What is left after a line is shorter.
LEMMA LeftIsShorter ==
    ASSUME NEW read, read[2] \in Seq(STRING)
    PROVE  /\ Http!ReadLine(read)[2] \in Seq(STRING)
           /\ ~ Settled(read) => Len(Http!ReadLine(read)[2]) < Len(read[2])
<1>1. PICK at, n, s : at = Http!LineEnd(read[2]) /\ n = Len(read[2]) /\ s = read[2]
  OBVIOUS
<1>2. CASE Settled(read)
  BY <1>2, LineIsRead
<1>3. CASE ~ Settled(read)
  <2>1. /\ at \in 0 .. n - 1
        /\ Http!ReadLine(read)[2] = SubSeq(s, at + 2, n)
    BY <1>1, <1>3, LineIsRead
  <2>2. n \in Nat /\ (at + 1) + 1 = at + 2 /\ at + 1 \in 0 .. n
    <3>1. n \in Nat
      BY <1>1, LenProperties
    <3>2. QED
      BY <2>1, <3>1
  <2>3. s \in Seq(STRING) /\ at + 1 \in 0 .. Len(s)
    BY <1>1, <2>2
  <2>4. /\ SubSeq(s, (at + 1) + 1, Len(s)) \in Seq(STRING)
        /\ Len(SubSeq(s, (at + 1) + 1, Len(s))) = Len(s) - (at + 1)
    BY ONLY <2>3, Cut
  <2>5. n - (at + 1) < n
    BY <2>1, <2>2
  <2>6. QED
    BY <1>1, <2>1, <2>2, <2>4, <2>5
<1>4. QED
  BY <1>2, <1>3

\* After one ReadLine per symbol nothing is left to read.
LEMMA AllLinesRead ==
    ASSUME NEW o, NEW bytes \in Seq(STRING)
    PROVE  /\ \A k \in 0 .. Len(bytes) : Http!LinesRead(o, bytes)[k][2] \in Seq(STRING)
           /\ Settled(Http!ReadLines(o, bytes))
<1>1. PICK n, g : n = Len(bytes) /\ g = Http!LinesRead(o, bytes)
  OBVIOUS
<1>2. n \in Nat
  BY <1>1, LenProperties
<1>3. g[0] = <<o, bytes>> /\ \A k \in 0 .. n - 1 : g[k + 1] = Http!ReadLine(g[k])
  BY <1>1, LinesReadSteps
<1> DEFINE fits == {k \in Nat : /\ g[k][2] \in Seq(STRING)
                                /\ Settled(g[k]) \/ Len(g[k][2]) + k <= n}
<1>4. 0 \in fits
  BY <1>1, <1>2, <1>3
<1>5. ASSUME NEW k \in 0 .. n - 1, k \in fits PROVE k + 1 \in fits
  <2>1. PICK read, next : read = g[k] /\ next = g[k + 1]
    OBVIOUS
  <2>2. /\ read[2] \in Seq(STRING) /\ next = Http!ReadLine(read)
        /\ Settled(read) \/ Len(read[2]) + k <= n
    BY <1>3, <1>5, <2>1
  <2>3. next[2] \in Seq(STRING) /\ (~ Settled(read) => Len(next[2]) < Len(read[2]))
    BY ONLY <2>2, LeftIsShorter
  <2>4. Settled(read) => next = read
    BY ONLY <2>2, LineIsRead
  <2>5. Len(next[2]) \in Nat /\ Len(read[2]) \in Nat
    BY ONLY <2>2, <2>3, LenProperties
  <2>6. k \in Nat /\ k + 1 \in Nat
    BY <1>2
  <2>7. ~ Settled(read) => Len(next[2]) + (k + 1) <= n
    <3>1. PICK a, b : a = Len(next[2]) /\ b = Len(read[2])
      OBVIOUS
    <3>2. ~ Settled(read) => a < b /\ b + k <= n
      BY <2>2, <2>3, <3>1
    <3>3. a \in Nat /\ b \in Nat
      BY <2>5, <3>1
    <3>4. a < b /\ b + k <= n => a + (k + 1) <= n
      BY ONLY <1>2, <2>6, <3>3
    <3>5. QED
      BY <3>1, <3>2, <3>4
  <2>8. Settled(next) \/ Len(next[2]) + (k + 1) <= n
    BY <2>4, <2>7
  <2>9. QED
    BY <2>1, <2>3, <2>6, <2>8
<1>6. \A k \in 0 .. n : k \in fits
  <2> HIDE DEF fits
  <2>1. QED
    BY ONLY <1>2, <1>4, <1>5, Counting
<1>7. \A k \in 0 .. n : g[k][2] \in Seq(STRING)
  BY <1>6
<1>8. Settled(g[n])
  <2>1. n \in 0 .. n
    BY <1>2
  <2>2. g[n][2] \in Seq(STRING) /\ (Settled(g[n]) \/ Len(g[n][2]) + n <= n)
    BY <1>6, <2>1
  <2>3. CASE Len(g[n][2]) + n <= n
    <3>1. PICK s : s = g[n][2]
      OBVIOUS
    <3>2. s \in Seq(STRING) /\ Len(s) \in Nat
      BY <2>2, <3>1, LenProperties
    <3>3. Len(s) = 0
      BY <1>2, <2>3, <3>1, <3>2
    <3>4. FirstEnd(s, Http!LineEnd(s))
      BY <3>2, LineEndIsFirst
    <3>5. Http!LineEnd(s) = -1
      BY <3>3, <3>4 DEF FirstEnd
    <3>6. QED
      BY <3>1, <3>5 DEF Settled
  <2>4. QED
    BY <2>2, <2>3
<1>9. QED
  BY <1>1, <1>7, <1>8 DEF Http!ReadLines

\* The members of a request.
Members(o) ==
    /\ o = [firstLine |-> o.firstLine, headerFinished |-> o.headerFinished,
            readFinished |-> o.readFinished, contentSize |-> o.contentSize,
            values |-> o.values, requestMethod |-> o.requestMethod,
            requestPath |-> o.requestPath, data |-> o.data,
            postParameter |-> o.postParameter, ready |-> o.ready, thrown |-> o.thrown]
    /\ o.readFinished \in BOOLEAN /\ o.thrown \in BOOLEAN
    /\ o.ready = IF o.readFinished THEN 1 ELSE 0

\* What the lines of the head leave alone.
Unheard(next, o) == /\ next.readFinished = o.readFinished /\ next.data = o.data
                    /\ next.postParameter = o.postParameter /\ next.ready = o.ready

\* A line of the head changes the members of the head only.
LEMMA LineKeeps ==
    ASSUME NEW o, Members(o), NEW line
    PROVE  Members(Http!Parse(o, line)) /\ Unheard(Http!Parse(o, line), o)
<1>whole. /\ o = [firstLine |-> o.firstLine, headerFinished |-> o.headerFinished,
                  readFinished |-> o.readFinished, contentSize |-> o.contentSize,
                  values |-> o.values, requestMethod |-> o.requestMethod,
                  requestPath |-> o.requestPath, data |-> o.data,
                  postParameter |-> o.postParameter, ready |-> o.ready, thrown |-> o.thrown]
          /\ o.readFinished \in BOOLEAN /\ o.thrown \in BOOLEAN
          /\ o.ready = IF o.readFinished THEN 1 ELSE 0
  BY DEF Members
<1>1. PICK next : next = Http!Parse(o, line)
  OBVIOUS
<1>2. \/ \E thrown \in BOOLEAN : \E method, path :
            next = [o EXCEPT !.firstLine = FALSE, !.thrown = thrown,
                             !.requestMethod = method, !.requestPath = path]
      \/ next = [o EXCEPT !.headerFinished = TRUE]
      \/ \E values : next = [o EXCEPT !.values = values]
      \/ \E values, size : next = [o EXCEPT !.values = values, !.contentSize = size]
  <2>1. CASE o.firstLine
    <3>1. next = Http!extractMethodProtocolAndPath(o, line)
      BY <1>1, <2>1 DEF Http!Parse
    <3>2. PICK parts : parts = Http!split(line, <<" ">>)
      OBVIOUS
    <3>3. PICK thrown \in BOOLEAN : thrown = ~ (Len(parts) >= 3)
      OBVIOUS
    <3>4. PICK method : method = IF Len(parts) > 0 THEN parts[1] ELSE o.requestMethod
      OBVIOUS
    <3>5. PICK path : path = IF Len(parts) > 1 THEN parts[2] ELSE o.requestPath
      OBVIOUS
    <3>6. next = [o EXCEPT !.firstLine = FALSE, !.thrown = thrown,
                           !.requestMethod = method, !.requestPath = path]
      BY <3>1, <3>2, <3>3, <3>4, <3>5, Zenon DEF Http!extractMethodProtocolAndPath
    <3>7. QED
      BY <3>6
  <2>2. CASE ~ o.firstLine /\ line = <<>>
    BY <1>1, <2>2 DEF Http!Parse
  <2>3. CASE ~ o.firstLine /\ line # <<>>
    <3>1. next = Http!HeaderLine(o, line)
      BY <1>1, <2>3 DEF Http!Parse
    <3>2. PICK values : values = Http!processLine(o.values, line)
      OBVIOUS
    <3>3. PICK read : read = [o EXCEPT !.values = values]
      OBVIOUS
    <3>4. PICK size : size = Http!stoi(Http!getValue(read.values, <<"content-length">>))
      OBVIOUS
    <3>5. next = read \/ next = [read EXCEPT !.contentSize = size]
      BY <3>1, <3>2, <3>3, <3>4, Zenon DEF Http!HeaderLine
    <3>6. [read EXCEPT !.contentSize = size] = [o EXCEPT !.values = values, !.contentSize = size]
      BY ONLY <1>whole, <3>3
    <3>7. QED
      BY ONLY <3>3, <3>5, <3>6, Zenon
  <2>4. QED
    BY <2>1, <2>2, <2>3
<1>3. PICK first, ends, size, values, method, path, thrown :
         /\ next = [firstLine |-> first, headerFinished |-> ends,
                    readFinished |-> o.readFinished, contentSize |-> size,
                    values |-> values, requestMethod |-> method,
                    requestPath |-> path, data |-> o.data,
                    postParameter |-> o.postParameter, ready |-> o.ready, thrown |-> thrown]
         /\ thrown \in BOOLEAN
  <2>1. CASE \E thrown \in BOOLEAN : \E method, path :
                next = [o EXCEPT !.firstLine = FALSE, !.thrown = thrown,
                                 !.requestMethod = method, !.requestPath = path]
    <3>0. PICK thrown \in BOOLEAN :
             \E method, path :
                next = [o EXCEPT !.firstLine = FALSE, !.thrown = thrown,
                                 !.requestMethod = method, !.requestPath = path]
      BY ONLY <2>1
    <3>1. PICK method, path :
                next = [o EXCEPT !.firstLine = FALSE, !.thrown = thrown,
                                 !.requestMethod = method, !.requestPath = path]
      BY ONLY <3>0
    <3>2. next = [firstLine |-> FALSE, headerFinished |-> o.headerFinished,
                  readFinished |-> o.readFinished, contentSize |-> o.contentSize,
                  values |-> o.values, requestMethod |-> method,
                  requestPath |-> path, data |-> o.data,
                  postParameter |-> o.postParameter, ready |-> o.ready, thrown |-> thrown]
      BY ONLY <1>whole, <3>1
    <3>3. QED
      BY ONLY <3>0, <3>2, Zenon
  <2>2. CASE next = [o EXCEPT !.headerFinished = TRUE]
    <3>1. next = [firstLine |-> o.firstLine, headerFinished |-> TRUE,
                  readFinished |-> o.readFinished, contentSize |-> o.contentSize,
                  values |-> o.values, requestMethod |-> o.requestMethod,
                  requestPath |-> o.requestPath, data |-> o.data,
                  postParameter |-> o.postParameter, ready |-> o.ready, thrown |-> o.thrown]
      BY ONLY <1>whole, <2>2
    <3>2. QED
      BY ONLY <1>whole, <3>1, ZenonT(60)
  <2>3. CASE \E values : next = [o EXCEPT !.values = values]
    <3>1. PICK values : next = [o EXCEPT !.values = values]
      BY ONLY <2>3
    <3>2. next = [firstLine |-> o.firstLine, headerFinished |-> o.headerFinished,
                  readFinished |-> o.readFinished, contentSize |-> o.contentSize,
                  values |-> values, requestMethod |-> o.requestMethod,
                  requestPath |-> o.requestPath, data |-> o.data,
                  postParameter |-> o.postParameter, ready |-> o.ready, thrown |-> o.thrown]
      BY ONLY <1>whole, <3>1
    <3>3. QED
      BY ONLY <1>whole, <3>2, ZenonT(60)
  <2>4. CASE \E values, size : next = [o EXCEPT !.values = values, !.contentSize = size]
    <3>1. PICK values, size : next = [o EXCEPT !.values = values, !.contentSize = size]
      BY ONLY <2>4
    <3>2. next = [firstLine |-> o.firstLine, headerFinished |-> o.headerFinished,
                  readFinished |-> o.readFinished, contentSize |-> size,
                  values |-> values, requestMethod |-> o.requestMethod,
                  requestPath |-> o.requestPath, data |-> o.data,
                  postParameter |-> o.postParameter, ready |-> o.ready, thrown |-> o.thrown]
      BY ONLY <1>whole, <3>1
    <3>3. QED
      BY ONLY <1>whole, <3>2, ZenonT(60)
  <2>5. QED
    BY ONLY <1>2, <2>1, <2>2, <2>3, <2>4
<1>4. /\ next.firstLine = first /\ next.headerFinished = ends
      /\ next.readFinished = o.readFinished /\ next.contentSize = size
      /\ next.values = values /\ next.requestMethod = method
      /\ next.requestPath = path /\ next.data = o.data
      /\ next.postParameter = o.postParameter /\ next.ready = o.ready /\ next.thrown = thrown
  BY ONLY <1>3
<1>5. next = [firstLine |-> next.firstLine, headerFinished |-> next.headerFinished,
              readFinished |-> next.readFinished, contentSize |-> next.contentSize,
              values |-> next.values, requestMethod |-> next.requestMethod,
              requestPath |-> next.requestPath, data |-> next.data,
              postParameter |-> next.postParameter, ready |-> next.ready, thrown |-> next.thrown]
  BY ONLY <1>3, <1>4
<1>6. Members(next) /\ Unheard(next, o)
  BY ONLY <1>whole, <1>3, <1>4, <1>5 DEF Members, Unheard
<1>7. QED
  BY <1>1, <1>6

\* The lines of a head leave alone what one line does.
LEMMA LinesKeep ==
    ASSUME NEW o, Members(o), NEW bytes \in Seq(STRING)
    PROVE  \A k \in 0 .. Len(bytes) :
              Members(Http!LinesRead(o, bytes)[k][1]) /\ Unheard(Http!LinesRead(o, bytes)[k][1], o)
<1>1. PICK n, g : n = Len(bytes) /\ g = Http!LinesRead(o, bytes)
  OBVIOUS
<1>2. n \in Nat
  BY <1>1, LenProperties
<1>3. g[0] = <<o, bytes>> /\ \A k \in 0 .. n - 1 : g[k + 1] = Http!ReadLine(g[k])
  BY <1>1, LinesReadSteps
<1> DEFINE kept == {k \in Nat : Members(g[k][1]) /\ Unheard(g[k][1], o)}
<1>4. 0 \in kept
  BY <1>3 DEF Unheard
<1>5. ASSUME NEW k \in 0 .. n - 1, k \in kept PROVE k + 1 \in kept
  <2>1. PICK read, next : read = g[k] /\ next = g[k + 1]
    OBVIOUS
  <2>2. Members(read[1]) /\ Unheard(read[1], o) /\ next = Http!ReadLine(read)
    BY <1>3, <1>5, <2>1
  <2>3. read[2] \in Seq(STRING)
    <3>1. k \in 0 .. n
      BY <1>2
    <3>2. QED
      BY <1>1, <2>1, <3>1, AllLinesRead
  <2>4. Members(next[1]) /\ Unheard(next[1], read[1])
    <3>1. CASE Settled(read)
      <4>1. next = read
        BY <2>2, <2>3, <3>1, LineIsRead
      <4>2. QED
        BY <2>2, <4>1 DEF Unheard
    <3>2. CASE ~ Settled(read)
      <4>1. PICK line : next[1] = Http!Parse(read[1], line)
        BY <2>2, <2>3, <3>2, LineIsRead
      <4>2. QED
        BY <2>2, <4>1, LineKeeps
    <3>3. QED
      BY <3>1, <3>2
  <2>5. Unheard(next[1], o)
    BY ONLY <2>2, <2>4 DEF Unheard
  <2>6. k + 1 \in Nat
    BY <1>2
  <2>7. QED
    BY <2>1, <2>4, <2>5, <2>6
<1>6. \A k \in 0 .. n : k \in kept
  <2> HIDE DEF kept
  <2>1. QED
    BY ONLY <1>2, <1>4, <1>5, Counting
<1>7. QED
  BY <1>1, <1>6

\* Once no line is read, none is.
LEMMA SettledStays ==
    ASSUME NEW o, NEW bytes \in Seq(STRING), NEW k \in 0 .. Len(bytes),
           Settled(Http!LinesRead(o, bytes)[k])
    PROVE  Http!ReadLines(o, bytes) = Http!LinesRead(o, bytes)[k]
<1>1. PICK n, g : n = Len(bytes) /\ g = Http!LinesRead(o, bytes)
  OBVIOUS
<1>2. n \in Nat /\ k \in 0 .. n /\ Settled(g[k])
  BY <1>1, LenProperties
<1>3. g[0] = <<o, bytes>> /\ \A j \in 0 .. n - 1 : g[j + 1] = Http!ReadLine(g[j])
  BY <1>1, LinesReadSteps
<1>4. PICK left : left = n - k
  OBVIOUS
<1>5. left \in Nat /\ k + left = n
  BY <1>2, <1>4
<1> DEFINE same == {j \in Nat : g[k + j] = g[k]}
<1>6. 0 \in same
  <2>1. k + 0 = k
    BY <1>2
  <2>2. QED
    BY <2>1
<1>7. ASSUME NEW j \in 0 .. left - 1, j \in same PROVE j + 1 \in same
  <2>1. k + j \in 0 .. n - 1 /\ (k + j) + 1 = k + (j + 1) /\ j + 1 \in Nat /\ k + j \in 0 .. n
    BY <1>2, <1>5
  <2>2. PICK read : read = g[k + j]
    OBVIOUS
  <2>3. read = g[k] /\ g[k + (j + 1)] = Http!ReadLine(read)
    BY <1>3, <1>7, <2>1, <2>2
  <2>4. read[2] \in Seq(STRING) /\ Settled(read)
    BY <1>1, <1>2, <2>1, <2>2, <2>3, AllLinesRead
  <2>5. Http!ReadLine(read) = read
    BY ONLY <2>4, LineIsRead
  <2>6. QED
    BY <2>1, <2>3, <2>5
<1>8. left \in same
  <2> HIDE DEF same
  <2>1. \A j \in 0 .. left : j \in same
    BY ONLY <1>5, <1>6, <1>7, Counting
  <2>2. QED
    BY <1>5, <2>1
<1>9. QED
  BY <1>1, <1>5, <1>8 DEF Http!ReadLines

\* The head of the request, read in one piece, after each of its lines.
HeadLines == Http!LinesRead(Http!Fresh, input.head)

\* The bytes of the request and what follows it, and how many of them were taken.
RequestBytes == input.head \o (input.body \o input.more)
RequestTaken == Len(RequestBytes) - Len(arrived) - Len(unread)

\* What the requests are.
LEMMA RequestIsOk ==
    ASSUME input \in Requests
    PROVE  /\ input.head \in Seq(STRING) /\ input.body \in Seq(STRING) /\ input.more \in Seq(STRING)
           /\ Len(input.head) \in Nat /\ Len(input.body) \in Nat /\ Len(input.more) \in Nat
           /\ input.ok => Http!IsRequest(input)
<1>1. /\ {input.head, input.body, input.more} \subseteq Seq(STRING)
      /\ input.ok => Http!IsRequest(input)
  BY LoopsAssumption DEF Http!HttpRequestAssumption
<1>2. QED
  BY <1>1, LenProperties

\* The head begins the stream, and the body is behind it.
LEMMA StreamOfRequest ==
    ASSUME input \in Requests
    PROVE  /\ RequestBytes \in Seq(STRING)
           /\ Len(RequestBytes) = Len(input.head) + (Len(input.body) + Len(input.more))
           /\ \A i \in 1 .. Len(input.head) : RequestBytes[i] = input.head[i]
           /\ \A i \in 1 .. Len(input.body) :
                 RequestBytes[Len(input.head) + i] = input.body[i]
<1>1. PICK head, body, more : head = input.head /\ body = input.body /\ more = input.more
  OBVIOUS
<1>2. head \in Seq(STRING) /\ body \in Seq(STRING) /\ more \in Seq(STRING)
  BY <1>1, RequestIsOk
<1>3. PICK rest, all : rest = body \o more /\ all = head \o rest
  OBVIOUS
<1>4. /\ rest \in Seq(STRING) /\ Len(rest) = Len(body) + Len(more)
      /\ \A i \in 1 .. Len(body) : rest[i] = body[i]
  BY ONLY <1>2, <1>3, Concatenated
<1>5. /\ all \in Seq(STRING) /\ Len(all) = Len(head) + Len(rest)
      /\ \A i \in 1 .. Len(head) : all[i] = head[i]
      /\ \A i \in 1 .. Len(rest) : all[Len(head) + i] = rest[i]
  BY ONLY <1>2, <1>3, <1>4, Concatenated
<1>6. PICK h, b, m : h = Len(head) /\ b = Len(body) /\ m = Len(more)
  OBVIOUS
<1>7. h \in Nat /\ b \in Nat /\ m \in Nat
  BY ONLY <1>2, <1>6, LenProperties
<1>8. ASSUME NEW i \in 1 .. b PROVE all[h + i] = body[i]
  <2>1. i \in 1 .. Len(rest)
    BY ONLY <1>4, <1>6, <1>7, i \in 1 .. b
  <2>2. QED
    BY ONLY <1>4, <1>5, <1>6, <2>1, i \in 1 .. b
<1>9. RequestBytes = all
  BY <1>1, <1>3 DEF RequestBytes
<1>10. QED
  BY ONLY <1>1, <1>4, <1>5, <1>6, <1>8, <1>9

\* The length of the head, and the members of the request behind it.
HeadSize == Len(input.head)
HeadRead == HeadLines[HeadSize][1]

\* How much of the head its first k lines are.
TakenBy(k) == HeadSize - Len(HeadLines[k][2])

\* What the requests are that are read as they should be.
LEMMA HeadOfRequest ==
    ASSUME input \in Requests, input.ok
    PROVE  /\ HeadSize \in Nat
           /\ HeadLines[HeadSize][2] = <<>> /\ HeadRead.headerFinished
           /\ HeadRead.requestPath = input.path
           /\ HeadRead.contentSize \in (IF input.body = <<>> THEN {-1, 0} ELSE {Len(input.body)})
           /\ input.form = IF Http!PostsForm(HeadRead)
                           THEN Http!processPOSTParameters(input.body) ELSE <<>>
           /\ ~ HeadRead.thrown
<1>1. Http!IsRequest(input)
  BY RequestIsOk
<1>2. Http!ReadLines(Http!Fresh, input.head) = HeadLines[HeadSize]
  BY DEF Http!ReadLines, HeadLines, HeadSize
<1>3. HeadSize \in Nat
  BY RequestIsOk DEF HeadSize
<1>4. QED
  BY <1>1, <1>2, <1>3 DEF Http!IsRequest, HeadRead

\* The members of a new request.
LEMMA FreshMembers == /\ Members(Http!Fresh) /\ ~ Http!Fresh.readFinished
                      /\ Http!Fresh.data = <<>> /\ Http!Fresh.postParameter = <<>>
                      /\ Http!Fresh.ready = 0 /\ Http!Fresh.thrown = FALSE
                      /\ ~ Http!Fresh.headerFinished
<1>1. PICK o : o = Http!Fresh
  OBVIOUS
<1>2. o = [firstLine |-> TRUE, headerFinished |-> FALSE, readFinished |-> FALSE,
           contentSize |-> -1, values |-> <<>>, requestMethod |-> <<>>,
           requestPath |-> <<>>, data |-> <<>>, postParameter |-> <<>>,
           ready |-> 0, thrown |-> FALSE]
  BY <1>1 DEF Http!Fresh
<1>3. /\ o.firstLine = TRUE /\ o.headerFinished = FALSE /\ o.readFinished = FALSE
      /\ o.contentSize = -1 /\ o.values = <<>> /\ o.requestMethod = <<>>
      /\ o.requestPath = <<>> /\ o.data = <<>> /\ o.postParameter = <<>>
      /\ o.ready = 0 /\ o.thrown = FALSE
  BY ONLY <1>2
<1>4. Members(o)
  BY ONLY <1>2, <1>3 DEF Members
<1>5. QED
  BY <1>1, <1>3, <1>4

\* After each line of the head: nothing but members of the head has changed, the
\* first line is not refused, and while the header goes on a line is left to read.
LEMMA LineOfHead ==
    ASSUME input \in Requests, input.ok, NEW k \in 0 .. HeadSize
    PROVE  /\ HeadLines[k][2] \in Seq(STRING)
           /\ Members(HeadLines[k][1]) /\ Unheard(HeadLines[k][1], Http!Fresh)
           /\ HeadLines[k][1].thrown = FALSE
           /\ Settled(HeadLines[k]) => HeadLines[k] = HeadLines[HeadSize]
           /\ Settled(HeadLines[k]) <=> HeadLines[k][1].headerFinished
           /\ k = HeadSize => Settled(HeadLines[k])
<1>1. PICK bytes, n, g, o : /\ bytes = input.head /\ n = Len(bytes)
                            /\ g = Http!LinesRead(o, bytes) /\ o = Http!Fresh
  OBVIOUS
<1>2. bytes \in Seq(STRING) /\ n \in Nat /\ n = HeadSize /\ g = HeadLines
  BY <1>1, RequestIsOk DEF HeadSize, HeadLines
<1>3. Members(o)
  BY <1>1, FreshMembers
<1>4. g[k][2] \in Seq(STRING) /\ Members(g[k][1]) /\ Unheard(g[k][1], o)
  <2>1. k \in 0 .. Len(bytes)
    BY <1>1, <1>2
  <2>2. QED
    BY ONLY <1>1, <1>2, <1>3, <2>1, AllLinesRead, LinesKeep
<1>5. Settled(g[k]) => g[k] = g[n]
  <2>1. k \in 0 .. Len(bytes)
    BY <1>1, <1>2
  <2>2. Settled(g[k]) => Http!ReadLines(o, bytes) = g[k]
    BY ONLY <1>1, <1>2, <2>1, SettledStays
  <2>3. Http!ReadLines(o, bytes) = g[n]
    BY <1>1 DEF Http!ReadLines
  <2>4. QED
    BY <2>2, <2>3
<1>6. g[n][1].headerFinished /\ ~ g[n][1].thrown
  BY <1>2, HeadOfRequest DEF HeadRead
<1>7. g[k][1].thrown = FALSE
  <2>1. g[k][1].thrown => g[k] = g[n]
    BY <1>5 DEF Settled
  <2>2. g[k][1].thrown \in BOOLEAN
    BY <1>4 DEF Members
  <2>3. QED
    BY <1>6, <2>1, <2>2
<1>8. Settled(g[n])
  BY <1>6 DEF Settled
<1>9. Settled(g[k]) <=> g[k][1].headerFinished
  <2>1. Settled(g[k]) => g[k][1].headerFinished
    BY <1>5, <1>6
  <2>2. g[k][1].headerFinished => Settled(g[k])
    BY DEF Settled
  <2>3. QED
    BY <2>1, <2>2
<1>10. QED
  BY <1>1, <1>2, <1>4, <1>5, <1>7, <1>8, <1>9

\* The lines of the head that were not read yet are its end.
LEMMA HeadRemains ==
    ASSUME input \in Requests, input.ok
    PROVE  \A k \in 0 .. HeadSize :
              Remains(STRING, input.head, TakenBy(k), HeadLines[k][2], <<>>)
<1>1. PICK head, n, g : head = input.head /\ n = HeadSize /\ g = HeadLines
  OBVIOUS
<1>2. head \in Seq(STRING) /\ n \in Nat /\ n = Len(head)
  BY <1>1, RequestIsOk DEF HeadSize
<1>3. g[0] = <<Http!Fresh, head>> /\ \A k \in 0 .. n - 1 : g[k + 1] = Http!ReadLine(g[k])
  BY <1>1, <1>2, LinesReadSteps DEF HeadLines
<1>4. <<>> \in Seq(STRING) /\ Len(<<>>) = 0
  BY EmptySeq
<1> DEFINE end == {k \in Nat : Remains(STRING, head, n - Len(g[k][2]), g[k][2], <<>>)}
<1>5. 0 \in end
  <2>1. PICK s : s = g[0][2]
    OBVIOUS
  <2>2. s = head
    BY <1>3, <2>1
  <2>3. n - Len(s) = 0 /\ \A k \in 1 .. n : 0 + k = k
    BY <1>2, <2>2
  <2>4. Len(head) = 0 + Len(head) + Len(<<>>)
    BY <1>2, <1>4
  <2>5. \A k \in 1 .. Len(<<>>) : <<>>[k] = head[0 + Len(head) + k]
    BY <1>4
  <2>6. \A k \in 1 .. Len(head) : head[k] = head[0 + k]
    BY <1>2, <2>3
  <2>7. Remains(STRING, head, 0, head, <<>>)
    BY ONLY <1>2, <1>4, <2>4, <2>5, <2>6, 0 \in Nat DEF Remains
  <2>8. QED
    BY <2>1, <2>2, <2>3, <2>7
<1>6. ASSUME NEW k \in 0 .. n - 1, k \in end PROVE k + 1 \in end
  <2>0. k \in 0 .. n /\ k + 1 \in Nat
    BY <1>2
  <2>1. PICK read, next : read = g[k] /\ next = g[k + 1]
    OBVIOUS
  <2>2. /\ next = Http!ReadLine(read) /\ read[2] \in Seq(STRING)
        /\ Remains(STRING, head, n - Len(read[2]), read[2], <<>>)
    <3>1. g[k][2] \in Seq(STRING)
      BY <1>1, <2>0, LineOfHead
    <3>2. QED
      BY <1>3, <1>6, <2>1, <3>1
  <2>3. CASE Settled(read)
    <3>1. next = read
      BY ONLY <2>2, <2>3, LineIsRead
    <3>2. QED
      BY <2>0, <2>1, <2>2, <3>1
  <2>4. CASE ~ Settled(read)
    <3>1. PICK at, s, taken : at = Http!LineEnd(s) /\ s = read[2] /\ taken = n - Len(s)
      OBVIOUS
    <3>2. at \in 0 .. Len(s) - 1 /\ next[2] = SubSeq(s, at + 2, Len(s))
      BY ONLY <2>2, <2>4, <3>1, LineIsRead
    <3>3. PICK count : count = at + 1
      OBVIOUS
    <3>4. Len(s) \in Nat /\ count \in 0 .. Len(s) /\ count + 1 = at + 2
      <4>1. Len(s) \in Nat
        BY <2>2, <3>1, LenProperties
      <4>2. QED
        BY <3>2, <3>3, <4>1
    <3>5. PICK S, empty : S = STRING /\ empty = <<>>
      OBVIOUS
    <3>6. Remains(S, head, taken, s, empty)
      BY <2>2, <3>1, <3>5
    <3>7. /\ Remains(S, head, taken + count, SubSeq(s, count + 1, Len(s)), empty)
          /\ Len(SubSeq(s, count + 1, Len(s))) = Len(s) - count
      BY ONLY <3>4, <3>6, BytesTaken
    <3>8. taken + count = n - Len(next[2])
      <4>1. Len(next[2]) = Len(s) - count
        BY ONLY <3>2, <3>4, <3>7
      <4>2. QED
        BY ONLY <1>2, <3>1, <3>4, <4>1
    <3>9. Remains(STRING, head, n - Len(next[2]), next[2], <<>>)
      BY ONLY <3>2, <3>4, <3>5, <3>7, <3>8
    <3>10. QED
      BY <2>0, <2>1, <3>9
  <2>5. QED
    BY <2>3, <2>4
<1>7. \A k \in 0 .. n : k \in end
  <2> HIDE DEF end
  <2>1. QED
    BY ONLY <1>2, <1>5, <1>6, Counting
<1>8. QED
  BY <1>1, <1>7 DEF TakenBy

\* A line that is read from what has arrived is the line of the head.
LEMMA LineOnTheWire ==
    ASSUME input \in Requests, input.ok, NEW k \in 0 .. HeadSize, NEW read, NEW away,
           read[1] = HeadLines[k][1], ~ Settled(read),
           Remains(STRING, RequestBytes, TakenBy(k), read[2], away)
    PROVE  /\ k + 1 \in 0 .. HeadSize
           /\ Http!ReadLine(read)[1] = HeadLines[k + 1][1]
           /\ Remains(STRING, RequestBytes, TakenBy(k + 1), Http!ReadLine(read)[2], away)
<1>1. PICK S, head, all, n, line, here, s, taken :
         /\ S = STRING /\ head = input.head /\ all = RequestBytes /\ n = HeadSize
         /\ line = HeadLines[k] /\ here = read[2] /\ s = line[2] /\ taken = TakenBy(k)
  OBVIOUS
<1>2. /\ head \in Seq(S) /\ n \in Nat /\ n = Len(head)
      /\ \A i \in 1 .. n : all[i] = head[i]
  BY <1>1, RequestIsOk, StreamOfRequest DEF HeadSize
<1>3. /\ Remains(S, head, taken, s, <<>>) /\ Remains(S, all, taken, here, away)
      /\ taken = n - Len(s)
  BY <1>1, HeadRemains DEF TakenBy
<1>4. /\ here \in Seq(S) /\ s \in Seq(S) /\ taken \in Nat /\ Len(here) \in Nat /\ Len(s) \in Nat
      /\ \A i \in 1 .. Len(here) : here[i] = all[taken + i]
      /\ \A i \in 1 .. Len(s) : s[i] = head[taken + i]
  BY ONLY <1>3, LenProperties DEF Remains
<1>5. PICK at, end : at = Http!LineEnd(here) /\ end = Http!LineEnd(s)
  OBVIOUS
<1>6. ~ line[1].headerFinished /\ ~ Settled(line)
  <2>1. Settled(line) <=> line[1].headerFinished
    BY <1>1, LineOfHead
  <2>2. line[1] = read[1]
    BY <1>1
  <2>3. ~ line[1].headerFinished
    BY <2>2 DEF Settled
  <2>4. QED
    BY <2>1, <2>3
<1>7. k # n /\ k \in 0 .. n - 1 /\ k + 1 \in 0 .. n
  <2>1. k # n
    BY <1>1, <1>6, LineOfHead
  <2>2. QED
    BY <1>1, <1>2, <2>1
<1>8. HeadLines[k + 1] = Http!ReadLine(line)
  BY <1>1, <1>2, <1>7, LinesReadSteps DEF HeadLines
<1>9. /\ at \in 0 .. Len(here) - 1
      /\ Http!ReadLine(read) = <<Http!Parse(read[1], Http!trim(SubSeq(here, 1, at))),
                                 SubSeq(here, at + 2, Len(here))>>
  BY <1>1, <1>4, <1>5, LineIsRead
<1>10. /\ end \in 0 .. Len(s) - 1
       /\ Http!ReadLine(line) = <<Http!Parse(line[1], Http!trim(SubSeq(s, 1, end))),
                                  SubSeq(s, end + 2, Len(s))>>
  BY <1>1, <1>4, <1>5, <1>6, LineIsRead
<1>11. ASSUME NEW i \in Nat, i >= 1, i <= Len(here), i <= Len(s) PROVE here[i] = s[i]
  <2>1. i \in 1 .. Len(here) /\ i \in 1 .. Len(s) /\ taken + i \in 1 .. n
    BY ONLY <1>2, <1>3, <1>4, <1>11
  <2>2. QED
    BY ONLY <1>2, <1>4, <2>1
<1>12. at = end
  <2>1. FirstEnd(here, at) /\ FirstEnd(s, end)
    BY <1>1, <1>4, <1>5, LineEndIsFirst
  <2>2. /\ here[at + 1] = "\n" /\ \A i \in 1 .. at : here[i] # "\n"
        /\ s[end + 1] = "\n" /\ \A i \in 1 .. end : s[i] # "\n"
    <3>1. at # -1 /\ end # -1
      BY <1>4, <1>9, <1>10
    <3>2. QED
      BY ONLY <2>1, <3>1 DEF FirstEnd
  <2>3. ASSUME at < end PROVE FALSE
    <3>1. PICK i : i = at + 1
      OBVIOUS
    <3>2. i \in Nat /\ i >= 1 /\ i <= Len(here) /\ i <= Len(s) /\ i \in 1 .. end
      BY ONLY <1>4, <1>9, <1>10, <2>3, <3>1
    <3>3. here[i] = s[i]
      BY ONLY <1>11, <3>2
    <3>4. QED
      BY ONLY <2>2, <3>1, <3>2, <3>3
  <2>4. ASSUME end < at PROVE FALSE
    <3>1. PICK i : i = end + 1
      OBVIOUS
    <3>2. i \in Nat /\ i >= 1 /\ i <= Len(here) /\ i <= Len(s) /\ i \in 1 .. at
      BY ONLY <1>4, <1>9, <1>10, <2>4, <3>1
    <3>3. here[i] = s[i]
      BY ONLY <1>11, <3>2
    <3>4. QED
      BY ONLY <2>2, <3>1, <3>2, <3>3
  <2>5. at \in Int /\ end \in Int
    BY ONLY <1>4, <1>9, <1>10
  <2>6. QED
    BY ONLY <2>3, <2>4, <2>5
<1>13. SubSeq(here, 1, at) = SubSeq(s, 1, at)
  <2>1. PICK a, b : a = SubSeq(here, 1, at) /\ b = SubSeq(s, 1, at)
    OBVIOUS
  <2>2. at \in 0 .. Len(here) /\ at \in 0 .. Len(s) /\ at \in Nat
    BY ONLY <1>4, <1>9, <1>10, <1>12
  <2>3. a \in Seq(S) /\ Len(a) = at /\ \A i \in 1 .. at : a[i] = here[i]
    BY ONLY <1>4, <2>1, <2>2, Cut
  <2>4. b \in Seq(S) /\ Len(b) = at /\ \A i \in 1 .. at : b[i] = s[i]
    BY ONLY <1>4, <2>1, <2>2, Cut
  <2>5. ASSUME NEW i \in 1 .. at PROVE a[i] = b[i]
    <3>1. i \in Nat /\ i >= 1 /\ i <= Len(here) /\ i <= Len(s)
      BY ONLY <1>4, <2>2, i \in 1 .. at
    <3>2. here[i] = s[i]
      BY ONLY <1>11, <3>1
    <3>3. QED
      BY ONLY <2>3, <2>4, <3>2, i \in 1 .. at
  <2>6. a = b
    BY ONLY <2>3, <2>4, <2>5, SeqEqual
  <2>7. QED
    BY ONLY <2>1, <2>6
<1>14. PICK count : count = at + 1
  OBVIOUS
<1>15. count \in 0 .. Len(here) /\ count \in 0 .. Len(s) /\ count + 1 = at + 2 /\ count \in Nat
  BY ONLY <1>4, <1>9, <1>10, <1>12, <1>14
<1>16. Remains(S, all, taken + count, SubSeq(here, count + 1, Len(here)), away)
  BY ONLY <1>3, <1>15, BytesTaken
<1>17. PICK next, got, first, second, left, behind :
          /\ next = HeadLines[k + 1] /\ got = Http!ReadLine(read)
          /\ first = Http!Parse(read[1], Http!trim(SubSeq(here, 1, at)))
          /\ second = Http!Parse(line[1], Http!trim(SubSeq(s, 1, end)))
          /\ left = SubSeq(here, at + 2, Len(here)) /\ behind = SubSeq(s, end + 2, Len(s))
  OBVIOUS
<1>18. got = <<first, left>> /\ next = <<second, behind>>
  BY ONLY <1>8, <1>9, <1>10, <1>17
<1>19. got[1] = first /\ got[2] = left /\ next[1] = second /\ next[2] = behind
  BY ONLY <1>18
<1>20. first = second
  <2>1. read[1] = line[1]
    BY <1>1
  <2>2. SubSeq(here, 1, at) = SubSeq(s, 1, end)
    BY ONLY <1>12, <1>13
  <2>3. QED
    BY ONLY <1>17, <2>1, <2>2
<1>21. left = SubSeq(here, count + 1, Len(here)) /\ behind = SubSeq(s, count + 1, Len(s))
  BY ONLY <1>12, <1>15, <1>17
<1>22. TakenBy(k + 1) = taken + count
  <2>1. Len(behind) = Len(s) - count
    BY ONLY <1>4, <1>15, <1>21, Cut
  <2>2. TakenBy(k + 1) = n - Len(behind)
    BY <1>1, <1>17, <1>19 DEF TakenBy
  <2>3. QED
    BY ONLY <1>2, <1>3, <1>4, <1>15, <2>1, <2>2
<1>23. Remains(STRING, RequestBytes, TakenBy(k + 1), got[2], away)
  BY ONLY <1>1, <1>16, <1>19, <1>21, <1>22
<1>24. QED
  BY ONLY <1>1, <1>7, <1>17, <1>19, <1>20, <1>23

\* So are all lines that are read from what has arrived, until none is left.
LEMMA LinesOnTheWire ==
    ASSUME input \in Requests, input.ok, NEW k \in 0 .. HeadSize, NEW here, NEW away,
           Remains(STRING, RequestBytes, TakenBy(k), here, away),
           NEW lines, lines = Http!ReadLines(HeadLines[k][1], here)
    PROVE  /\ Settled(lines)
           /\ \E m \in 0 .. HeadSize :
                 /\ lines[1] = HeadLines[m][1]
                 /\ Remains(STRING, RequestBytes, TakenBy(m), lines[2], away)
<1>1. PICK n, o, g : n = Len(here) /\ o = HeadLines[k][1] /\ g = Http!LinesRead(o, here)
  OBVIOUS
<1>2. here \in Seq(STRING) /\ n \in Nat
  BY <1>1, LenProperties DEF Remains
<1>3. g[0] = <<o, here>> /\ \A j \in 0 .. n - 1 : g[j + 1] = Http!ReadLine(g[j])
  BY <1>1, <1>2, LinesReadSteps
<1> DEFINE Reads(read) == \E m \in 0 .. HeadSize :
                             /\ read[1] = HeadLines[m][1]
                             /\ Remains(STRING, RequestBytes, TakenBy(m), read[2], away)
           reads == {j \in Nat : Reads(g[j])}
<1>4. 0 \in reads
  <2>1. g[0][1] = HeadLines[k][1] /\ g[0][2] = here
    BY <1>1, <1>3
  <2>2. QED
    BY <2>1
<1>5. ASSUME NEW j \in 0 .. n - 1, j \in reads PROVE j + 1 \in reads
  <2>1. PICK read, next : read = g[j] /\ next = g[j + 1]
    OBVIOUS
  <2>2. next = Http!ReadLine(read) /\ j + 1 \in Nat
    BY <1>2, <1>3, <2>1
  <2>3. PICK m \in 0 .. HeadSize : /\ read[1] = HeadLines[m][1]
                                   /\ Remains(STRING, RequestBytes, TakenBy(m), read[2], away)
    BY <1>5, <2>1
  <2>4. CASE Settled(read)
    <3>1. read[2] \in Seq(STRING)
      BY <2>3 DEF Remains
    <3>2. next = read
      BY ONLY <2>2, <2>4, <3>1, LineIsRead
    <3>3. QED
      BY <2>1, <2>2, <2>3, <3>2
  <2>5. CASE ~ Settled(read)
    <3>1. /\ m + 1 \in 0 .. HeadSize /\ next[1] = HeadLines[m + 1][1]
          /\ Remains(STRING, RequestBytes, TakenBy(m + 1), next[2], away)
      BY <2>2, <2>3, <2>5, LineOnTheWire
    <3>2. QED
      BY <2>1, <2>2, <3>1
  <2>6. QED
    BY <2>4, <2>5
<1>6. n \in reads
  <2> HIDE DEF reads
  <2>1. \A j \in 0 .. n : j \in reads
    BY ONLY <1>2, <1>4, <1>5, Counting
  <2>2. QED
    BY <1>2, <2>1
<1>7. lines = g[n]
  BY <1>1 DEF Http!ReadLines
<1>8. Settled(lines)
  BY <1>1, <1>2, AllLinesRead
<1>9. QED
  BY <1>6, <1>7, <1>8

\* The members behind the head, with so much of the body.
WithBody(data, size) == [HeadRead EXCEPT !.data = data, !.contentSize = size]
BodyRead(n) == WithBody(SubSeq(input.body, 1, n), Len(input.body) - n)

\* The members of a request that becomes ready.
Finished(o) == [o EXCEPT !.readFinished = TRUE, !.ready = @ + 1,
                         !.postParameter = IF Http!PostsForm(o)
                                           THEN Http!processPOSTParameters(o.data) ELSE @]

\* The members behind the head.
LEMMA HeadMembers ==
    ASSUME input \in Requests, input.ok
    PROVE  /\ Members(HeadRead) /\ HeadRead.headerFinished /\ ~ HeadRead.readFinished
           /\ HeadRead.data = <<>> /\ HeadRead.postParameter = <<>>
           /\ HeadRead.ready = 0 /\ HeadRead.thrown = FALSE
           /\ HeadRead.requestPath = input.path
<1>1. HeadSize \in 0 .. HeadSize
  BY HeadOfRequest
<1>2. Members(HeadRead) /\ Unheard(HeadRead, Http!Fresh) /\ HeadRead.thrown = FALSE
  BY <1>1, LineOfHead DEF HeadRead
<1>3. QED
  BY <1>2, FreshMembers, HeadOfRequest DEF Unheard

\* The same members with so much of the body, and so much to come.
Collecting(o, data, size) ==
    /\ Members(o) /\ o.headerFinished /\ ~ o.readFinished
    /\ o.data = data /\ o.postParameter = <<>>
    /\ o.ready = 0 /\ o.thrown = FALSE /\ o.requestPath = input.path
    /\ o.values = HeadRead.values /\ o.contentSize = size

\* That is what they are with a part of the body.
LEMMA BodyMembers ==
    ASSUME input \in Requests, input.ok, NEW data, NEW size
    PROVE  Collecting(WithBody(data, size), data, size)
<1>1. PICK h, o : h = HeadRead /\ o = WithBody(data, size)
  OBVIOUS
<1>2. /\ Members(h) /\ h.headerFinished /\ ~ h.readFinished
      /\ h.data = <<>> /\ h.postParameter = <<>>
      /\ h.ready = 0 /\ h.thrown = FALSE /\ h.requestPath = input.path
  BY <1>1, HeadMembers
<1>3. /\ h = [firstLine |-> h.firstLine, headerFinished |-> h.headerFinished,
              readFinished |-> h.readFinished, contentSize |-> h.contentSize,
              values |-> h.values, requestMethod |-> h.requestMethod,
              requestPath |-> h.requestPath, data |-> h.data,
              postParameter |-> h.postParameter, ready |-> h.ready, thrown |-> h.thrown]
  BY ONLY <1>2 DEF Members
<1>4. o = [h EXCEPT !.data = data, !.contentSize = size]
  BY <1>1 DEF WithBody
<1>5. o = [firstLine |-> h.firstLine, headerFinished |-> h.headerFinished,
           readFinished |-> h.readFinished, contentSize |-> size,
           values |-> h.values, requestMethod |-> h.requestMethod,
           requestPath |-> h.requestPath, data |-> data,
           postParameter |-> h.postParameter, ready |-> h.ready, thrown |-> h.thrown]
  BY ONLY <1>3, <1>4
<1>6. /\ o.firstLine = h.firstLine /\ o.headerFinished = h.headerFinished
      /\ o.readFinished = h.readFinished /\ o.contentSize = size
      /\ o.values = h.values /\ o.requestMethod = h.requestMethod
      /\ o.requestPath = h.requestPath /\ o.data = data
      /\ o.postParameter = h.postParameter /\ o.ready = h.ready /\ o.thrown = h.thrown
  BY ONLY <1>5
<1>7. Members(o)
  <2>1. h.readFinished \in BOOLEAN /\ h.thrown \in BOOLEAN /\ h.ready = IF h.readFinished THEN 1 ELSE 0
    BY ONLY <1>2 DEF Members
  <2>2. o = [firstLine |-> o.firstLine, headerFinished |-> o.headerFinished,
             readFinished |-> o.readFinished, contentSize |-> o.contentSize,
             values |-> o.values, requestMethod |-> o.requestMethod,
             requestPath |-> o.requestPath, data |-> o.data,
             postParameter |-> o.postParameter, ready |-> o.ready, thrown |-> o.thrown]
    BY ONLY <1>5, <1>6
  <2>3. QED
    BY ONLY <1>6, <2>1, <2>2 DEF Members
<1>8. Collecting(o, data, size)
  BY ONLY <1>1, <1>2, <1>6, <1>7 DEF Collecting
<1>9. QED
  BY <1>1, <1>8

\* Collecting adds to the body and counts down.
LEMMA BodyCollected ==
    ASSUME input \in Requests, input.ok, NEW data, NEW size, NEW bytes
    PROVE  Http!Collect(WithBody(data, size), bytes) = WithBody(data \o bytes, size - Len(bytes))
<1>1. PICK h, o, whole, left : /\ h = HeadRead /\ o = WithBody(data, size)
                               /\ whole = data \o bytes /\ left = size - Len(bytes)
  OBVIOUS
<1>2. h = [firstLine |-> h.firstLine, headerFinished |-> h.headerFinished,
           readFinished |-> h.readFinished, contentSize |-> h.contentSize,
           values |-> h.values, requestMethod |-> h.requestMethod,
           requestPath |-> h.requestPath, data |-> h.data,
           postParameter |-> h.postParameter, ready |-> h.ready, thrown |-> h.thrown]
  BY <1>1, HeadMembers DEF Members
<1>3. o = [h EXCEPT !.data = data, !.contentSize = size]
  BY <1>1 DEF WithBody
<1>4. Http!Collect(o, bytes) = [o EXCEPT !.data = whole, !.contentSize = left]
  <2>0. o.data = data /\ o.contentSize = size
    BY ONLY <1>2, <1>3
  <2>1. Http!Collect(o, bytes) = [o EXCEPT !.data = o.data \o bytes,
                                           !.contentSize = o.contentSize - Len(bytes)]
    BY DEF Http!Collect
  <2>2. QED
    BY ONLY <1>1, <2>0, <2>1
<1>5. [o EXCEPT !.data = whole, !.contentSize = left]
         = [h EXCEPT !.data = whole, !.contentSize = left]
  BY ONLY <1>2, <1>3
<1>6. WithBody(whole, left) = [h EXCEPT !.data = whole, !.contentSize = left]
  BY <1>1 DEF WithBody
<1>7. QED
  BY ONLY <1>1, <1>4, <1>5, <1>6

\* The members behind the head are those with nothing of the body.
LEMMA HeadHasNoBody ==
    ASSUME input \in Requests, input.ok
    PROVE  HeadRead = WithBody(<<>>, HeadRead.contentSize)
<1>1. PICK h : h = HeadRead
  OBVIOUS
<1>2. h = [firstLine |-> h.firstLine, headerFinished |-> h.headerFinished,
           readFinished |-> h.readFinished, contentSize |-> h.contentSize,
           values |-> h.values, requestMethod |-> h.requestMethod,
           requestPath |-> h.requestPath, data |-> h.data,
           postParameter |-> h.postParameter, ready |-> h.ready, thrown |-> h.thrown]
  BY <1>1, HeadMembers DEF Members
<1>3. h.data = <<>>
  BY <1>1, HeadMembers
<1>4. h = [h EXCEPT !.data = <<>>, !.contentSize = h.contentSize]
  BY ONLY <1>2, <1>3
<1>5. QED
  BY <1>1, <1>4 DEF WithBody

\* Becoming ready disturbs no member of the head.
LEMMA FinishedMembers ==
    ASSUME NEW o, Members(o), ~ o.readFinished
    PROVE  /\ Members(Finished(o)) /\ Finished(o).readFinished /\ Finished(o).thrown = o.thrown
           /\ Finished(o).requestPath = o.requestPath /\ Finished(o).data = o.data
           /\ Finished(o).postParameter = IF Http!PostsForm(o)
                                          THEN Http!processPOSTParameters(o.data)
                                          ELSE o.postParameter
<1>1. PICK next, form : /\ next = Finished(o)
                        /\ form = IF Http!PostsForm(o)
                                  THEN Http!processPOSTParameters(o.data) ELSE o.postParameter
  OBVIOUS
<1>2. /\ o = [firstLine |-> o.firstLine, headerFinished |-> o.headerFinished,
              readFinished |-> o.readFinished, contentSize |-> o.contentSize,
              values |-> o.values, requestMethod |-> o.requestMethod,
              requestPath |-> o.requestPath, data |-> o.data,
              postParameter |-> o.postParameter, ready |-> o.ready, thrown |-> o.thrown]
      /\ o.thrown \in BOOLEAN /\ o.ready = 0
  BY DEF Members
<1>3. next = [o EXCEPT !.readFinished = TRUE, !.ready = 1, !.postParameter = form]
  <2>1. next = [o EXCEPT !.readFinished = TRUE, !.ready = o.ready + 1, !.postParameter = form]
    BY <1>1 DEF Finished
  <2>2. o.ready + 1 = 1
    BY <1>2
  <2>3. QED
    BY ONLY <2>1, <2>2
<1>4. next = [firstLine |-> o.firstLine, headerFinished |-> o.headerFinished,
              readFinished |-> TRUE, contentSize |-> o.contentSize,
              values |-> o.values, requestMethod |-> o.requestMethod,
              requestPath |-> o.requestPath, data |-> o.data,
              postParameter |-> form, ready |-> 1, thrown |-> o.thrown]
  BY ONLY <1>2, <1>3
<1>5. /\ next.firstLine = o.firstLine /\ next.headerFinished = o.headerFinished
      /\ next.readFinished = TRUE /\ next.contentSize = o.contentSize
      /\ next.values = o.values /\ next.requestMethod = o.requestMethod
      /\ next.requestPath = o.requestPath /\ next.data = o.data
      /\ next.postParameter = form /\ next.ready = 1 /\ next.thrown = o.thrown
  BY ONLY <1>4
<1>6. next = [firstLine |-> next.firstLine, headerFinished |-> next.headerFinished,
              readFinished |-> next.readFinished, contentSize |-> next.contentSize,
              values |-> next.values, requestMethod |-> next.requestMethod,
              requestPath |-> next.requestPath, data |-> next.data,
              postParameter |-> next.postParameter, ready |-> next.ready, thrown |-> next.thrown]
  BY ONLY <1>4, <1>5
<1>7. Members(next)
  BY ONLY <1>2, <1>5, <1>6 DEF Members
<1>8. QED
  BY <1>1, <1>5, <1>7

\* The body grows by what has arrived: it is the front of the body the client sent,
\* or begins with it.
LEMMA BodyOnTheWire ==
    ASSUME input \in Requests, NEW n \in 0 .. Len(input.body) - 1, NEW here, NEW away,
           Remains(STRING, RequestBytes, HeadSize + n, here, away),
           NEW data, data = SubSeq(input.body, 1, n) \o here, NEW many, many = n + Len(here)
    PROVE  /\ Remains(STRING, RequestBytes, HeadSize + many, <<>>, away)
           /\ many < Len(input.body) => data = SubSeq(input.body, 1, many)
           /\ many >= Len(input.body) => /\ Http!IsPrefix(input.body, data)
                                         /\ input.more = <<>> => data = input.body
<1>1. PICK S, all, body, front, h, b, e, l :
         /\ S = STRING /\ all = RequestBytes /\ body = input.body /\ front = SubSeq(body, 1, n)
         /\ h = HeadSize /\ b = Len(body) /\ e = Len(input.more) /\ l = Len(here)
  OBVIOUS
<1>2. /\ body \in Seq(S) /\ h \in Nat /\ b \in Nat /\ e \in Nat /\ Len(all) = h + (b + e)
      /\ \A i \in 1 .. b : all[h + i] = body[i]
  BY <1>1, RequestIsOk, StreamOfRequest DEF HeadSize
<1>3. Remains(S, all, h + n, here, away) /\ n \in 0 .. b - 1
  BY <1>1
<1>4. /\ here \in Seq(S) /\ away \in Seq(S) /\ all \in Seq(S) /\ l \in Nat /\ Len(away) \in Nat
      /\ Len(all) = (h + n) + l + Len(away)
      /\ \A i \in 1 .. l : here[i] = all[(h + n) + i]
      /\ \A i \in 1 .. Len(away) : away[i] = all[(h + n) + l + i]
  BY ONLY <1>1, <1>3, LenProperties DEF Remains
<1>5. n \in 0 .. Len(body)
  BY ONLY <1>1, <1>2, <1>3
<1>6. /\ front \in Seq(S) /\ Len(front) = n /\ \A i \in 1 .. n : front[i] = body[i]
  BY ONLY <1>1, <1>2, <1>5, Cut
<1>7. data = front \o here
  BY <1>1
<1>8. /\ data \in Seq(S) /\ Len(data) = Len(front) + Len(here)
      /\ \A i \in 1 .. Len(front) : data[i] = front[i]
      /\ \A i \in 1 .. Len(here) : data[Len(front) + i] = here[i]
  <2>1. front \in Seq(S) /\ here \in Seq(S)
    BY ONLY <1>4, <1>6
  <2>2. QED
    BY ONLY <1>7, <2>1, Concatenated
<1>9. many = n + l /\ Len(data) = many /\ many \in Nat /\ n \in Nat
  <2>1. many = n + l
    BY <1>1
  <2>2. QED
    BY ONLY <1>1, <1>2, <1>3, <1>4, <1>6, <1>8, <2>1
<1>10. ASSUME NEW i \in Nat, i >= 1, i <= many, i <= b PROVE data[i] = body[i]
  <2>1. CASE i <= n
    <3>1. i \in 1 .. n /\ i \in 1 .. Len(front)
      BY ONLY <1>6, <1>9, <1>10, <2>1
    <3>2. QED
      BY ONLY <1>6, <1>8, <3>1
  <2>2. CASE ~ (i <= n)
    <3>1. PICK j : j = i - n
      OBVIOUS
    <3>2. j \in 1 .. l /\ n + j = i /\ (h + n) + j = h + i /\ i \in 1 .. b
      BY ONLY <1>2, <1>4, <1>9, <1>10, <2>2, <3>1
    <3>3. data[n + j] = here[j]
      BY ONLY <1>1, <1>6, <1>8, <3>2
    <3>4. here[j] = all[h + i]
      BY ONLY <1>4, <3>2
    <3>5. all[h + i] = body[i]
      BY ONLY <1>2, <3>2
    <3>6. QED
      BY ONLY <3>2, <3>3, <3>4, <3>5
  <2>3. QED
    BY <2>1, <2>2
<1>11. Remains(S, all, h + many, <<>>, away)
  <2>1. <<>> \in Seq(S) /\ Len(<<>>) = 0
    BY EmptySeq
  <2>2. h + many \in Nat /\ Len(all) = (h + many) + 0 + Len(away)
    <3>1. PICK m : m = Len(away)
      OBVIOUS
    <3>2. h \in Nat /\ n \in Nat /\ l \in Nat /\ m \in Nat /\ many = n + l
      BY ONLY <1>2, <1>4, <1>9, <3>1
    <3>3. h + many \in Nat /\ (h + n) + l + m = (h + many) + 0 + m
      BY ONLY <3>2
    <3>4. QED
      BY ONLY <1>4, <3>1, <3>3
  <2>3. \A i \in 1 .. Len(away) : (h + n) + l + i = (h + many) + 0 + i
    BY ONLY <1>2, <1>4, <1>9
  <2>4. \A i \in 1 .. Len(away) : away[i] = all[(h + many) + 0 + i]
    BY ONLY <1>4, <2>3
  <2>5. \A i \in 1 .. 0 : <<>>[i] = all[(h + many) + i]
    OBVIOUS
  <2>6. QED
    BY ONLY <1>4, <2>1, <2>2, <2>4, <2>5 DEF Remains
<1>12. ASSUME many < b PROVE data = SubSeq(body, 1, many)
  <2>1. PICK part : part = SubSeq(body, 1, many)
    OBVIOUS
  <2>2. many \in 0 .. Len(body)
    BY ONLY <1>1, <1>2, <1>9, <1>12
  <2>3. part \in Seq(S) /\ Len(part) = many /\ \A i \in 1 .. many : part[i] = body[i]
    BY ONLY <1>2, <2>1, <2>2, Cut
  <2>4. \A i \in 1 .. many : data[i] = part[i]
    <3>1. ASSUME NEW i \in 1 .. many PROVE data[i] = part[i]
      <4>1. i \in Nat /\ i >= 1 /\ i <= many /\ i <= b
        BY ONLY <1>2, <1>9, <1>12, i \in 1 .. many
      <4>2. data[i] = body[i]
        BY ONLY <1>10, <4>1
      <4>3. QED
        BY ONLY <2>3, <4>2, i \in 1 .. many
    <3>2. QED
      BY <3>1
  <2>5. data = part
    BY ONLY <1>8, <1>9, <2>3, <2>4, SeqEqual
  <2>6. QED
    BY ONLY <2>1, <2>5
<1>13. ASSUME many >= b PROVE Http!IsPrefix(body, data)
  <2>1. PICK x, y : x = SubSeq(body, 1, b) /\ y = SubSeq(data, 1, b)
    OBVIOUS
  <2>2. b \in 0 .. Len(body) /\ b \in 0 .. Len(data)
    BY ONLY <1>1, <1>2, <1>9, <1>13
  <2>3. x \in Seq(S) /\ Len(x) = b /\ \A i \in 1 .. b : x[i] = body[i]
    BY ONLY <1>2, <2>1, <2>2, Cut
  <2>4. y \in Seq(S) /\ Len(y) = b /\ \A i \in 1 .. b : y[i] = data[i]
    BY ONLY <1>8, <2>1, <2>2, Cut
  <2>5. ASSUME NEW i \in 1 .. b PROVE x[i] = y[i]
    <3>1. i \in Nat /\ i >= 1 /\ i <= many /\ i <= b
      BY ONLY <1>2, <1>9, <1>13, i \in 1 .. b
    <3>2. data[i] = body[i]
      BY ONLY <1>10, <3>1
    <3>3. QED
      BY ONLY <2>3, <2>4, <3>2, i \in 1 .. b
  <2>6. x = y
    BY ONLY <2>3, <2>4, <2>5, SeqEqual
  <2>7. QED
    BY ONLY <1>1, <1>9, <1>13, <2>1, <2>6 DEF Http!IsPrefix
<1>14. ASSUME many >= b, input.more = <<>> PROVE data = body
  <2>1. e = 0
    BY <1>1, <1>14, EmptySeq
  <2>2. many = b
    BY ONLY <1>2, <1>4, <1>9, <1>14, <2>1
  <2>3. ASSUME NEW i \in 1 .. many PROVE data[i] = body[i]
    <3>1. i \in Nat /\ i >= 1 /\ i <= many /\ i <= b
      BY ONLY <1>2, <2>2, i \in 1 .. many
    <3>2. QED
      BY ONLY <1>10, <3>1
  <2>4. QED
    BY ONLY <1>1, <1>2, <1>8, <1>9, <2>2, <2>3, SeqEqual
<1>15. QED
  BY <1>1, <1>9, <1>11, <1>12, <1>13, <1>14

\* What the slot makes of the lines it reads: the head goes on, there is no body to
\* wait for, the body goes on, or it is complete.
LEMMA SlotReads ==
    ASSUME NEW o, NEW bytes, ~ o.readFinished,
           NEW lines, lines = Http!ReadLines(o, bytes), NEW next, next = Http!readReady(o, bytes)
    PROVE  \/ /\ ~ lines[1].headerFinished
              /\ next[1] = lines[1] /\ next[2] = lines[2]
           \/ /\ lines[1].headerFinished /\ ~ (lines[1].contentSize > 0)
              /\ next[1] = (IF lines[1].contentSize <= 0 THEN Finished(lines[1]) ELSE lines[1])
              /\ next[2] = lines[2]
           \/ /\ lines[1].headerFinished /\ lines[1].contentSize > 0
              /\ ~ Http!Collect(lines[1], lines[2]).headerFinished
                 \/ ~ (Http!Collect(lines[1], lines[2]).contentSize <= 0)
              /\ next[1] = Http!Collect(lines[1], lines[2]) /\ next[2] = <<>>
           \/ /\ lines[1].headerFinished /\ lines[1].contentSize > 0
              /\ Http!Collect(lines[1], lines[2]).headerFinished
              /\ Http!Collect(lines[1], lines[2]).contentSize <= 0
              /\ next[1] = Finished(Http!Collect(lines[1], lines[2])) /\ next[2] = <<>>
<1>1. PICK head, left, more : /\ head = lines[1] /\ left = lines[2]
                              /\ more = Http!Collect(head, left)
  OBVIOUS
<1>2. CASE ~ head.headerFinished
  <2>1. next = <<head, left>>
    BY <1>1, <1>2 DEF Http!readReady, Http!ReadBody, Http!CheckReady
  <2>2. next[1] = head /\ next[2] = left
    BY ONLY <2>1
  <2>3. QED
    BY ONLY <1>1, <1>2, <2>2
<1>3. CASE head.headerFinished /\ ~ (head.contentSize > 0)
  <2>1. next = <<IF head.contentSize <= 0 THEN Finished(head) ELSE head, left>>
    BY <1>1, <1>3 DEF Http!readReady, Http!ReadBody, Http!CheckReady, Finished
  <2>2. next[1] = (IF head.contentSize <= 0 THEN Finished(head) ELSE head) /\ next[2] = left
    BY ONLY <2>1
  <2>3. QED
    BY ONLY <1>1, <1>3, <2>2
<1>4. CASE /\ head.headerFinished /\ head.contentSize > 0
           /\ ~ more.headerFinished \/ ~ (more.contentSize <= 0)
  <2>1. next = <<more, <<>>>>
    BY <1>1, <1>4 DEF Http!readReady, Http!ReadBody, Http!CheckReady
  <2>2. next[1] = more /\ next[2] = <<>>
    BY ONLY <2>1
  <2>3. QED
    BY ONLY <1>1, <1>4, <2>2
<1>5. CASE /\ head.headerFinished /\ head.contentSize > 0
           /\ more.headerFinished /\ more.contentSize <= 0
  <2>1. next = <<Finished(more), <<>>>>
    BY <1>1, <1>5 DEF Http!readReady, Http!ReadBody, Http!CheckReady, Finished
  <2>2. next[1] = Finished(more) /\ next[2] = <<>>
    BY ONLY <2>1
  <2>3. QED
    BY ONLY <1>1, <1>5, <2>2
<1>6. QED
  BY ONLY <1>2, <1>3, <1>4, <1>5

\* Collecting disturbs nothing but the body and the count.
LEMMA CollectMembers ==
    ASSUME NEW o, Members(o), NEW bytes
    PROVE  /\ Members(Http!Collect(o, bytes)) /\ Http!Collect(o, bytes).thrown = o.thrown
           /\ Http!Collect(o, bytes).readFinished = o.readFinished
<1>1. PICK next, data, size : /\ next = Http!Collect(o, bytes) /\ data = o.data \o bytes
                              /\ size = o.contentSize - Len(bytes)
  OBVIOUS
<1>2. /\ o = [firstLine |-> o.firstLine, headerFinished |-> o.headerFinished,
              readFinished |-> o.readFinished, contentSize |-> o.contentSize,
              values |-> o.values, requestMethod |-> o.requestMethod,
              requestPath |-> o.requestPath, data |-> o.data,
              postParameter |-> o.postParameter, ready |-> o.ready, thrown |-> o.thrown]
      /\ o.readFinished \in BOOLEAN /\ o.thrown \in BOOLEAN
      /\ o.ready = IF o.readFinished THEN 1 ELSE 0
  BY DEF Members
<1>3. next = [o EXCEPT !.data = data, !.contentSize = size]
  BY <1>1 DEF Http!Collect
<1>4. next = [firstLine |-> o.firstLine, headerFinished |-> o.headerFinished,
              readFinished |-> o.readFinished, contentSize |-> size,
              values |-> o.values, requestMethod |-> o.requestMethod,
              requestPath |-> o.requestPath, data |-> data,
              postParameter |-> o.postParameter, ready |-> o.ready, thrown |-> o.thrown]
  BY ONLY <1>2, <1>3
<1>5. /\ next.firstLine = o.firstLine /\ next.headerFinished = o.headerFinished
      /\ next.readFinished = o.readFinished /\ next.contentSize = size
      /\ next.values = o.values /\ next.requestMethod = o.requestMethod
      /\ next.requestPath = o.requestPath /\ next.data = data
      /\ next.postParameter = o.postParameter /\ next.ready = o.ready /\ next.thrown = o.thrown
  BY ONLY <1>4
<1>6. next = [firstLine |-> next.firstLine, headerFinished |-> next.headerFinished,
              readFinished |-> next.readFinished, contentSize |-> next.contentSize,
              values |-> next.values, requestMethod |-> next.requestMethod,
              requestPath |-> next.requestPath, data |-> next.data,
              postParameter |-> next.postParameter, ready |-> next.ready, thrown |-> next.thrown]
  BY ONLY <1>4, <1>5
<1>7. Members(next)
  BY ONLY <1>2, <1>5, <1>6 DEF Members
<1>8. QED
  BY <1>1, <1>5, <1>7

\* The exception is caught: nothing else changes.
LEMMA ThrownIsCaught ==
    ASSUME NEW o, Members(o)
    PROVE  /\ Members([o EXCEPT !.thrown = FALSE])
           /\ o.thrown = FALSE => [o EXCEPT !.thrown = FALSE] = o
<1>1. PICK next : next = [o EXCEPT !.thrown = FALSE]
  OBVIOUS
<1>2. /\ o = [firstLine |-> o.firstLine, headerFinished |-> o.headerFinished,
              readFinished |-> o.readFinished, contentSize |-> o.contentSize,
              values |-> o.values, requestMethod |-> o.requestMethod,
              requestPath |-> o.requestPath, data |-> o.data,
              postParameter |-> o.postParameter, ready |-> o.ready, thrown |-> o.thrown]
      /\ o.readFinished \in BOOLEAN /\ o.thrown \in BOOLEAN
      /\ o.ready = IF o.readFinished THEN 1 ELSE 0
  BY DEF Members
<1>3. next = [firstLine |-> o.firstLine, headerFinished |-> o.headerFinished,
              readFinished |-> o.readFinished, contentSize |-> o.contentSize,
              values |-> o.values, requestMethod |-> o.requestMethod,
              requestPath |-> o.requestPath, data |-> o.data,
              postParameter |-> o.postParameter, ready |-> o.ready, thrown |-> FALSE]
  BY ONLY <1>1, <1>2
<1>4. /\ next.firstLine = o.firstLine /\ next.headerFinished = o.headerFinished
      /\ next.readFinished = o.readFinished /\ next.contentSize = o.contentSize
      /\ next.values = o.values /\ next.requestMethod = o.requestMethod
      /\ next.requestPath = o.requestPath /\ next.data = o.data
      /\ next.postParameter = o.postParameter /\ next.ready = o.ready /\ next.thrown = FALSE
  BY ONLY <1>3
<1>5. next = [firstLine |-> next.firstLine, headerFinished |-> next.headerFinished,
              readFinished |-> next.readFinished, contentSize |-> next.contentSize,
              values |-> next.values, requestMethod |-> next.requestMethod,
              requestPath |-> next.requestPath, data |-> next.data,
              postParameter |-> next.postParameter, ready |-> next.ready, thrown |-> next.thrown]
  BY ONLY <1>3, <1>4
<1>6. Members(next)
  BY ONLY <1>2, <1>4, <1>5 DEF Members
<1>7. o.thrown = FALSE => next = o
  BY ONLY <1>2, <1>3
<1>8. QED
  BY <1>1, <1>6, <1>7

\* Whatever arrives, the slot leaves a request with the members of one.
LEMMA SlotKeeps ==
    ASSUME NEW o, Members(o), NEW bytes \in Seq(STRING), NEW next, next = Http!readReady(o, bytes)
    PROVE  Members(next[1]) /\ next[2] \in Seq(STRING)
<1>1. CASE o.readFinished
  <2>1. next = <<o, bytes>>
    BY <1>1 DEF Http!readReady
  <2>2. QED
    BY <2>1
<1>2. CASE ~ o.readFinished
  <2>1. PICK lines, n : lines = Http!ReadLines(o, bytes) /\ n = Len(bytes)
    OBVIOUS
  <2>2. /\ Members(lines[1]) /\ lines[1].readFinished = o.readFinished
        /\ lines[2] \in Seq(STRING)
    <3>1. n \in 0 .. Len(bytes)
      BY <2>1, LenProperties
    <3>2. lines = Http!LinesRead(o, bytes)[n]
      BY <2>1 DEF Http!ReadLines
    <3>3. QED
      BY <3>1, <3>2, AllLinesRead, LinesKeep DEF Unheard
  <2>3. PICK head, more : head = lines[1] /\ more = Http!Collect(head, lines[2])
    OBVIOUS
  <2>4. Members(head) /\ ~ head.readFinished /\ Members(more) /\ ~ more.readFinished
    BY <1>2, <2>2, <2>3, CollectMembers
  <2>5. Members(Finished(head)) /\ Members(Finished(more))
    BY <2>4, FinishedMembers
  <2>6. <<>> \in Seq(STRING)
    BY EmptySeq
  <2>7. next[1] \in {head, more, Finished(head), Finished(more)} /\ next[2] \in {lines[2], <<>>}
    BY <1>2, <2>1, <2>3, SlotReads
  <2>8. QED
    BY <2>2, <2>4, <2>5, <2>6, <2>7
<1>3. QED
  BY <1>1, <1>2

\* How far a request is when so much was taken: within its head, within its body,
\* or ready.
InHead(o, taken) ==
    \E k \in 0 .. HeadSize :
        o = HeadLines[k][1] /\ ~ o.headerFinished /\ taken = TakenBy(k)
InBody(o, taken) ==
    \E n \in 0 .. Len(input.body) - 1 : o = BodyRead(n) /\ taken = HeadSize + n
IsReady(o, taken) ==
    /\ o.readFinished /\ o.thrown = FALSE
    /\ taken >= HeadSize + Len(input.body)
    /\ o.requestPath = input.path
    /\ Http!IsPrefix(input.body, o.data)
    /\ input.more = <<>> => o.data = input.body /\ o.postParameter = input.form
RequestSorted(o, taken) == InHead(o, taken) \/ InBody(o, taken) \/ IsReady(o, taken)

\* Nothing is left that the next slot would read: no line, nothing of the body.
NothingWaits(o, here) ==
    ~ o.readFinished => IF o.headerFinished THEN here = <<>> ELSE Http!LineEnd(here) = -1

\* A request that becomes ready has its body and its form.
LEMMA RequestBecomesReady ==
    ASSUME input \in Requests, input.ok, NEW data, NEW size, NEW taken,
           taken >= HeadSize + Len(input.body), Http!IsPrefix(input.body, data),
           input.more = <<>> => data = input.body
    PROVE  IsReady(Finished(WithBody(data, size)), taken)
<1>1. PICK o : o = WithBody(data, size)
  OBVIOUS
<1>2. /\ Members(o) /\ ~ o.readFinished /\ o.data = data /\ o.postParameter = <<>>
      /\ o.thrown = FALSE /\ o.requestPath = input.path /\ o.values = HeadRead.values
  <2>1. Collecting(o, data, size)
    BY <1>1, BodyMembers
  <2>2. QED
    BY ONLY <2>1 DEF Collecting
<1>3. PICK next : next = Finished(o)
  OBVIOUS
<1>4. /\ next.readFinished /\ next.thrown = o.thrown /\ next.requestPath = o.requestPath
      /\ next.data = o.data
      /\ next.postParameter = IF Http!PostsForm(o) THEN Http!processPOSTParameters(o.data)
                              ELSE o.postParameter
  BY ONLY <1>2, <1>3, FinishedMembers
<1>5. Http!PostsForm(o) <=> Http!PostsForm(HeadRead)
  BY <1>2 DEF Http!PostsForm
<1>6. input.form = IF Http!PostsForm(HeadRead) THEN Http!processPOSTParameters(input.body) ELSE <<>>
  BY HeadOfRequest
<1>7. input.more = <<>> => next.data = input.body /\ next.postParameter = input.form
  BY <1>2, <1>4, <1>5, <1>6
<1>8. IsReady(next, taken)
  BY <1>2, <1>4, <1>7 DEF IsReady
<1>9. QED
  BY <1>1, <1>3, <1>8

\* A slot that goes on with the body.
LEMMA SlotReadsBody ==
    ASSUME input \in Requests, input.ok, NEW n \in 0 .. Len(input.body) - 1,
           NEW here, NEW away, Remains(STRING, RequestBytes, HeadSize + n, here, away),
           NEW next, next = Http!Collect(BodyRead(n), here)
    PROVE  /\ next.headerFinished /\ next.thrown = FALSE /\ ~ next.readFinished
           /\ \E taken \in Nat :
                 /\ Remains(STRING, RequestBytes, taken, <<>>, away)
                 /\ IF next.contentSize <= 0 THEN IsReady(Finished(next), taken)
                    ELSE InBody(next, taken)
<1>1. PICK data, many, b : /\ data = SubSeq(input.body, 1, n) \o here /\ many = n + Len(here)
                           /\ b = Len(input.body)
  OBVIOUS
<1>2. here \in Seq(STRING) /\ Len(here) \in Nat /\ b \in Nat /\ n \in Nat /\ HeadSize \in Nat
  BY <1>1, RequestIsOk, LenProperties DEF Remains, HeadSize
<1>3. many \in Nat /\ HeadSize + many \in Nat /\ (b - n) - Len(here) = b - many
  BY ONLY <1>1, <1>2
<1>4. next = WithBody(data, b - many)
  <2>1. next = Http!Collect(WithBody(SubSeq(input.body, 1, n), b - n), here)
    BY <1>1 DEF BodyRead
  <2>2. Http!Collect(WithBody(SubSeq(input.body, 1, n), b - n), here)
           = WithBody(SubSeq(input.body, 1, n) \o here, (b - n) - Len(here))
    BY BodyCollected
  <2>3. QED
    BY ONLY <1>1, <1>3, <2>1, <2>2
<1>5. /\ next.headerFinished /\ next.thrown = FALSE /\ ~ next.readFinished
      /\ next.contentSize = b - many
  <2>1. Collecting(next, data, b - many)
    BY <1>4, BodyMembers
  <2>2. QED
    BY ONLY <2>1 DEF Collecting
<1>6. /\ Remains(STRING, RequestBytes, HeadSize + many, <<>>, away)
      /\ many < b => data = SubSeq(input.body, 1, many)
      /\ many >= b => /\ Http!IsPrefix(input.body, data)
                      /\ input.more = <<>> => data = input.body
  BY <1>1, BodyOnTheWire
<1>7. CASE many < b
  <2>1. many \in 0 .. b - 1 /\ ~ (b - many <= 0)
    BY ONLY <1>2, <1>3, <1>7
  <2>2. next = BodyRead(many)
    BY <1>1, <1>4, <1>6, <1>7 DEF BodyRead
  <2>3. InBody(next, HeadSize + many)
    BY <1>1, <2>1, <2>2 DEF InBody
  <2>4. ~ (next.contentSize <= 0)
    BY ONLY <1>5, <2>1
  <2>5. QED
    BY ONLY <1>3, <1>5, <1>6, <2>3, <2>4
<1>8. CASE many >= b
  <2>1. b - many <= 0 /\ HeadSize + many >= HeadSize + b
    BY ONLY <1>2, <1>3, <1>8
  <2>2. IsReady(Finished(next), HeadSize + many)
    BY <1>1, <1>4, <1>6, <1>8, <2>1, RequestBecomesReady
  <2>3. next.contentSize <= 0
    BY ONLY <1>5, <2>1
  <2>4. QED
    BY ONLY <1>3, <1>5, <1>6, <2>2, <2>3
<1>9. many < b \/ many >= b
  BY ONLY <1>2, <1>3
<1>10. QED
  BY ONLY <1>7, <1>8, <1>9, Zenon

\* A slot whose lines end the header.
LEMMA SlotEndsHead ==
    ASSUME input \in Requests, input.ok, NEW o, ~ o.readFinished, NEW here, NEW away,
           NEW lines, lines = Http!ReadLines(o, here), lines[1] = HeadRead,
           Remains(STRING, RequestBytes, HeadSize, lines[2], away),
           NEW next, next = Http!readReady(o, here)
    PROVE  /\ next[1].thrown = FALSE /\ NothingWaits(next[1], next[2])
           /\ \E taken \in Nat : /\ Remains(STRING, RequestBytes, taken, next[2], away)
                                 /\ RequestSorted(next[1], taken)
<1>1. PICK h, left, b : h = HeadRead /\ left = lines[2] /\ b = Len(input.body)
  OBVIOUS
<1>2. /\ h.headerFinished /\ b \in Nat /\ input.body \in Seq(STRING) /\ HeadSize \in Nat
      /\ h.contentSize \in (IF input.body = <<>> THEN {-1, 0} ELSE {b})
  BY <1>1, HeadOfRequest, RequestIsOk
<1>3. CASE input.body = <<>>
  <2>1. h.contentSize <= 0 /\ ~ (h.contentSize > 0)
    BY ONLY <1>2, <1>3
  <2>2. next[1] = Finished(h) /\ next[2] = left
    BY <1>1, <1>2, <2>1, SlotReads
  <2>3. h = WithBody(<<>>, h.contentSize)
    BY <1>1, HeadHasNoBody
  <2>4. IsReady(next[1], HeadSize)
    <3>1. b = 0 /\ HeadSize >= HeadSize + b
      <4>1. b = 0
        BY <1>1, <1>3, EmptySeq
      <4>2. QED
        BY ONLY <1>2, <4>1
    <3>2. Http!IsPrefix(input.body, <<>>)
      <4>1. Len(<<>>) <= Len(<<>>) /\ SubSeq(<<>>, 1, Len(<<>>)) = SubSeq(<<>>, 1, Len(<<>>))
        <5>1. Len(<<>>) = 0
          OBVIOUS
        <5>2. QED
          BY <5>1
      <4>2. QED
        BY <1>3, <4>1 DEF Http!IsPrefix
    <3>3. PICK size : size = h.contentSize
      OBVIOUS
    <3>4. IsReady(Finished(WithBody(<<>>, size)), HeadSize)
      BY <1>1, <1>3, <3>1, <3>2, RequestBecomesReady
    <3>5. QED
      BY ONLY <2>2, <2>3, <3>3, <3>4
  <2>5. Remains(STRING, RequestBytes, HeadSize, next[2], away)
    BY <1>1, <2>2
  <2>6. QED
    BY <1>2, <2>4, <2>5 DEF IsReady, NothingWaits, RequestSorted
<1>4. CASE input.body # <<>>
  <2>1. b # 0 /\ 0 \in 0 .. b - 1 /\ HeadSize + 0 = HeadSize /\ b - 0 = b
    <3>1. b # 0
      BY <1>1, <1>2, <1>4, EmptySeq
    <3>2. QED
      BY ONLY <1>2, <3>1
  <2>2. h.contentSize = b /\ h.contentSize > 0
    BY ONLY <1>2, <1>4, <2>1
  <2>3. h = BodyRead(0)
    <3>1. SubSeq(input.body, 1, 0) = <<>>
      OBVIOUS
    <3>2. h = WithBody(<<>>, b)
      BY <1>1, <2>2, HeadHasNoBody
    <3>3. QED
      BY <1>1, <2>1, <3>1, <3>2 DEF BodyRead
  <2>4. PICK more : more = Http!Collect(h, left)
    OBVIOUS
  <2>5. /\ more.headerFinished /\ more.thrown = FALSE /\ ~ more.readFinished
        /\ \E taken \in Nat :
              /\ Remains(STRING, RequestBytes, taken, <<>>, away)
              /\ IF more.contentSize <= 0 THEN IsReady(Finished(more), taken)
                 ELSE InBody(more, taken)
    <3>1. Remains(STRING, RequestBytes, HeadSize + 0, left, away)
      BY <1>1, <2>1
    <3>2. more = Http!Collect(BodyRead(0), left)
      BY <2>3, <2>4
    <3>3. 0 \in 0 .. Len(input.body) - 1
      BY <1>1, <2>1
    <3>4. QED
      BY <3>1, <3>2, <3>3, SlotReadsBody
  <2>6. /\ next[1] = IF more.contentSize <= 0 THEN Finished(more) ELSE more
        /\ next[2] = <<>>
    BY <1>1, <1>2, <2>2, <2>4, <2>5, SlotReads
  <2>7. QED
    BY <2>5, <2>6 DEF IsReady, NothingWaits, RequestSorted
<1>5. QED
  BY <1>3, <1>4

\* The slot of a request of which so much was taken.
LEMMA SlotSorts ==
    ASSUME input \in Requests, input.ok, NEW o, Members(o),
           NEW taken, NEW here, NEW away, Remains(STRING, RequestBytes, taken, here, away),
           RequestSorted(o, taken), NEW next, next = Http!readReady(o, here)
    PROVE  /\ next[1].thrown = FALSE /\ NothingWaits(next[1], next[2])
           /\ \E t \in Nat : /\ Remains(STRING, RequestBytes, t, next[2], away)
                             /\ RequestSorted(next[1], t)
<1>0. PICK lines : lines = Http!ReadLines(o, here)
  OBVIOUS
<1>1. CASE IsReady(o, taken)
  <2>1. next = <<o, here>>
    BY <1>1 DEF Http!readReady, IsReady
  <2>2. next[1] = o /\ next[2] = here
    BY ONLY <2>1
  <2>3. taken \in Nat
    BY DEF Remains
  <2>4. QED
    BY <1>1, <2>2, <2>3 DEF IsReady, NothingWaits, RequestSorted
<1>2. CASE InHead(o, taken)
  <2>1. PICK k \in 0 .. HeadSize :
           o = HeadLines[k][1] /\ ~ o.headerFinished /\ taken = TakenBy(k)
    BY <1>2 DEF InHead
  <2>2. ~ o.readFinished
    BY <2>1, LineOfHead, FreshMembers DEF Unheard
  <2>3. Remains(STRING, RequestBytes, TakenBy(k), here, away) /\ lines = Http!ReadLines(HeadLines[k][1], here)
    BY <1>0, <2>1
  <2>4. Settled(lines)
    BY <2>3, LinesOnTheWire
  <2>5. PICK m \in 0 .. HeadSize : /\ lines[1] = HeadLines[m][1]
                                   /\ Remains(STRING, RequestBytes, TakenBy(m), lines[2], away)
    BY <2>3, LinesOnTheWire
  <2>6. CASE ~ lines[1].headerFinished
    <3>1. next[1] = lines[1] /\ next[2] = lines[2]
      BY <1>0, <2>2, <2>6, SlotReads
    <3>2. next[1].thrown = FALSE
      BY <2>5, <3>1, LineOfHead
    <3>3. Http!LineEnd(next[2]) = -1
      BY <2>4, <2>6, <3>1, <3>2 DEF Settled
    <3>4. TakenBy(m) \in Nat
      BY <2>5 DEF Remains
    <3>5. InHead(next[1], TakenBy(m))
      BY <2>5, <2>6, <3>1 DEF InHead
    <3>6. QED
      BY <2>5, <2>6, <3>1, <3>2, <3>3, <3>4, <3>5 DEF NothingWaits, RequestSorted
  <2>7. CASE lines[1].headerFinished
    <3>1. HeadLines[m] = HeadLines[HeadSize]
      BY <2>5, <2>7, LineOfHead
    <3>2. lines[1] = HeadRead
      BY <2>5, <3>1 DEF HeadRead
    <3>3. TakenBy(m) = HeadSize
      <4>1. HeadLines[m][2] = <<>> /\ HeadSize \in Nat
        BY <3>1, HeadOfRequest
      <4>2. Len(HeadLines[m][2]) = 0
        BY <4>1, EmptySeq
      <4>3. QED
        BY <4>1, <4>2 DEF TakenBy
    <3>4. Remains(STRING, RequestBytes, HeadSize, lines[2], away)
      BY <2>5, <3>3
    <3>5. QED
      BY <1>0, <2>2, <3>2, <3>4, SlotEndsHead
  <2>8. QED
    BY <2>6, <2>7
<1>3. CASE InBody(o, taken)
  <2>1. PICK n \in 0 .. Len(input.body) - 1 : o = BodyRead(n) /\ taken = HeadSize + n
    BY <1>3 DEF InBody
  <2>2. PICK size : size = Len(input.body) - n
    OBVIOUS
  <2>3. /\ o.headerFinished /\ ~ o.readFinished /\ o.contentSize = size
    <3>1. o = WithBody(SubSeq(input.body, 1, n), size)
      BY <2>1, <2>2 DEF BodyRead
    <3>2. Collecting(o, SubSeq(input.body, 1, n), size)
      BY <3>1, BodyMembers
    <3>3. QED
      BY ONLY <3>2 DEF Collecting
  <2>4. size > 0
    <3>1. Len(input.body) \in Nat
      BY RequestIsOk
    <3>2. QED
      BY <2>2, <3>1
  <2>5. lines[1] = o /\ lines[2] = here
    <3>1. here \in Seq(STRING) /\ Len(here) \in Nat
      BY LenProperties DEF Remains
    <3>2. 0 \in 0 .. Len(here) /\ Http!LinesRead(o, here)[0] = <<o, here>>
      BY <3>1, LinesReadSteps
    <3>3. Settled(Http!LinesRead(o, here)[0])
      BY <2>3, <3>2 DEF Settled
    <3>4. lines = <<o, here>>
      BY <1>0, <3>1, <3>2, <3>3, SettledStays
    <3>5. QED
      BY ONLY <3>4
  <2>6. PICK more : more = Http!Collect(o, here)
    OBVIOUS
  <2>7. /\ more.headerFinished /\ more.thrown = FALSE /\ ~ more.readFinished
        /\ \E t \in Nat :
              /\ Remains(STRING, RequestBytes, t, <<>>, away)
              /\ IF more.contentSize <= 0 THEN IsReady(Finished(more), t)
                 ELSE InBody(more, t)
    <3>1. Remains(STRING, RequestBytes, HeadSize + n, here, away) /\ more = Http!Collect(BodyRead(n), here)
      BY <2>1, <2>6
    <3>2. QED
      BY <3>1, SlotReadsBody
  <2>8. /\ next[1] = IF more.contentSize <= 0 THEN Finished(more) ELSE more
        /\ next[2] = <<>>
    BY <1>0, <2>3, <2>4, <2>5, <2>6, <2>7, SlotReads
  <2>9. QED
    BY <2>7, <2>8 DEF IsReady, NothingWaits, RequestSorted
<1>4. QED
  BY <1>1, <1>2, <1>3 DEF RequestSorted

\* The inductive invariant of the HTTP request: what has arrived and what has not is
\* the end of the stream, the request is as far as what was taken, and without a
\* slot nothing waits for one.
RequestInv ==
    /\ input \in Requests /\ Members(object)
    /\ arrived \in Seq(STRING) /\ unread \in Seq(STRING)
    /\ input.ok => /\ Remains(STRING, RequestBytes, RequestTaken, arrived, unread)
                   /\ RequestSorted(object, RequestTaken)
                   /\ slots = <<>> => NothingWaits(object, arrived)

\* So much was taken of the stream.
LEMMA TakenOfRequest ==
    ASSUME NEW taken, Remains(STRING, RequestBytes, taken, arrived, unread)
    PROVE  RequestTaken = taken
<1>1. PICK here, away : here = Len(arrived) /\ away = Len(unread)
  OBVIOUS
<1>2. here \in Nat /\ away \in Nat /\ taken \in Nat /\ Len(RequestBytes) = taken + here + away
  BY <1>1, LenProperties DEF Remains
<1>3. QED
  BY <1>1, <1>2 DEF RequestTaken

\* Nothing was read at the start.
LEMMA InitRequest == Http!Init => RequestInv
<1> SUFFICES ASSUME Http!Init PROVE RequestInv
  OBVIOUS
<1>1. /\ input \in Requests /\ unread = RequestBytes /\ arrived = <<>> /\ slots = <<>>
      /\ object = Http!Fresh
  BY DEF Http!Init, RequestBytes
<1>2. /\ arrived \in Seq(STRING) /\ Len(arrived) = 0
      /\ unread \in Seq(STRING) /\ Len(unread) \in Nat
  BY <1>1, StreamOfRequest, EmptySeq, LenProperties
<1>3. ASSUME input.ok
      PROVE  /\ Remains(STRING, RequestBytes, RequestTaken, arrived, unread)
             /\ RequestSorted(object, RequestTaken)
             /\ NothingWaits(object, arrived)
  <2>1. Remains(STRING, RequestBytes, 0, arrived, unread)
    <3>1. \A i \in 1 .. Len(unread) : unread[i] = RequestBytes[0 + Len(arrived) + i]
      <4>1. \A i \in 1 .. Len(unread) : 0 + Len(arrived) + i = i
        BY <1>2
      <4>2. QED
        BY <1>1, <4>1
    <3>2. Len(RequestBytes) = 0 + Len(arrived) + Len(unread)
      BY <1>1, <1>2
    <3>3. \A i \in 1 .. Len(arrived) : arrived[i] = RequestBytes[0 + i]
      BY <1>2
    <3>4. QED
      BY <1>1, <1>2, <3>1, <3>2, <3>3 DEF Remains
  <2>2. RequestTaken = 0
    BY <2>1, TakenOfRequest
  <2>3. InHead(object, 0)
    <3>1. /\ HeadSize \in Nat /\ HeadSize = Len(input.head) /\ input.head \in Seq(STRING)
      BY <1>1, RequestIsOk DEF HeadSize
    <3>2. HeadLines[0] = <<Http!Fresh, input.head>>
      BY <3>1, LinesReadSteps DEF HeadLines
    <3>3. HeadLines[0][1] = Http!Fresh /\ HeadLines[0][2] = input.head
      BY ONLY <3>2
    <3>4. TakenBy(0) = 0
      BY <3>1, <3>3 DEF TakenBy
    <3>5. 0 \in 0 .. HeadSize
      BY <3>1
    <3>6. QED
      BY <1>1, <3>3, <3>4, <3>5, FreshMembers DEF InHead
  <2>4. NothingWaits(object, arrived)
    <3>1. FirstEnd(arrived, Http!LineEnd(arrived))
      BY <1>2, LineEndIsFirst
    <3>2. Http!LineEnd(arrived) = -1
      BY <1>2, <3>1 DEF FirstEnd
    <3>3. QED
      BY <1>1, <3>2, FreshMembers DEF NothingWaits
  <2>5. QED
    BY <2>1, <2>2, <2>3, <2>4 DEF RequestSorted
<1>4. QED
  BY <1>1, <1>2, <1>3, FreshMembers DEF RequestInv

\* A block moves symbols from the stream to the socket, and a slot is posted for it.
LEMMA BlockOfRequest ==
    ASSUME RequestInv, Http!Arrive
    PROVE  RequestInv'
<1>1. PICK size \in 1 .. Len(unread) : /\ arrived' = arrived \o SubSeq(unread, 1, size)
                                       /\ unread' = SubSeq(unread, size + 1, Len(unread))
  BY DEF Http!Arrive
<1>2. input' = input /\ object' = object /\ slots' = Append(slots, "read")
  BY DEF Http!Arrive
<1>3. arrived \in Seq(STRING) /\ unread \in Seq(STRING) /\ input \in Requests /\ Members(object)
  BY DEF RequestInv
<1>4. arrived' \in Seq(STRING) /\ unread' \in Seq(STRING)
  <2>1. Len(unread) \in Nat
    BY <1>3, LenProperties
  <2>2. size \in 0 .. Len(unread)
    BY <2>1
  <2>3. PICK S, s : S = STRING /\ s = unread
    OBVIOUS
  <2>4. SubSeq(s, 1, size) \in Seq(S) /\ SubSeq(s, size + 1, Len(s)) \in Seq(S)
    <3>1. s \in Seq(S) /\ size \in 0 .. Len(s)
      BY <1>3, <2>2, <2>3
    <3>2. QED
      BY ONLY <3>1, Cut
  <2>5. QED
    BY <1>1, <1>3, <2>3, <2>4
<1>5. slots' # <<>>
  BY <1>2
<1>6. ASSUME input.ok
      PROVE  /\ Remains(STRING, RequestBytes, RequestTaken, arrived', unread')
             /\ RequestTaken' = RequestTaken
  <2>1. Remains(STRING, RequestBytes, RequestTaken, arrived, unread)
    BY <1>6 DEF RequestInv
  <2>2. /\ Remains(STRING, RequestBytes, RequestTaken, arrived \o SubSeq(unread, 1, size),
                   SubSeq(unread, size + 1, Len(unread)))
        /\ Len(arrived \o SubSeq(unread, 1, size)) = Len(arrived) + size
        /\ Len(SubSeq(unread, size + 1, Len(unread))) = Len(unread) - size
    BY <2>1, BlockArrives
  <2>3. RequestBytes' = RequestBytes
    BY <1>2 DEF RequestBytes
  <2>4. RequestTaken' = RequestTaken
    <3>1. PICK here, away, all : /\ here = Len(arrived) /\ away = Len(unread)
                                 /\ all = Len(RequestBytes)
      OBVIOUS
    <3>2. here \in Nat /\ away \in Nat /\ size \in Int /\ all \in Nat
      BY <1>1, <1>3, <2>1, <3>1, LenProperties DEF Remains
    <3>3. RequestTaken' = all - (here + size) - (away - size)
      BY <1>1, <2>2, <2>3, <3>1 DEF RequestTaken
    <3>4. RequestTaken = all - here - away
      BY <3>1 DEF RequestTaken
    <3>5. QED
      BY <3>2, <3>3, <3>4
  <2>5. QED
    BY <1>1, <2>2, <2>4
<1>7. ASSUME input.ok PROVE RequestSorted(object, RequestTaken)'
  <2>1. RequestSorted(object, RequestTaken)
    BY <1>7 DEF RequestInv
  <2>2. RequestTaken' = RequestTaken
    BY <1>6, <1>7
  <2>3. QED
    BY <1>2, <2>1, <2>2 DEF RequestSorted, InHead, InBody, IsReady, BodyRead, WithBody,
                            HeadRead, HeadLines, HeadSize, TakenBy
<1>8. RequestBytes' = RequestBytes /\ input'.ok = input.ok
  BY <1>2 DEF RequestBytes
<1>9. input'.ok => Remains(STRING, RequestBytes', RequestTaken', arrived', unread')
  BY <1>6, <1>8
<1>10. Members(object)'
  BY <1>2, <1>3 DEF Members
<1>11. QED
  BY <1>2, <1>3, <1>4, <1>5, <1>7, <1>8, <1>9, <1>10 DEF RequestInv

\* The slot reads what has arrived.
LEMMA ReadOfRequest ==
    ASSUME RequestInv, Http!ReadReady
    PROVE  RequestInv'
<1>1. PICK next : next = Http!readReady(object, arrived)
  OBVIOUS
<1>2. /\ object' = [next[1] EXCEPT !.thrown = FALSE] /\ arrived' = next[2]
      /\ input' = input /\ unread' = unread
  BY <1>1 DEF Http!ReadReady
<1>3. arrived \in Seq(STRING) /\ unread \in Seq(STRING) /\ input \in Requests /\ Members(object)
  BY DEF RequestInv
<1>4. Members(next[1]) /\ next[2] \in Seq(STRING)
  BY ONLY <1>1, <1>3, SlotKeeps
<1>5. PICK o : o = next[1]
  OBVIOUS
<1>6. /\ Members([o EXCEPT !.thrown = FALSE])
      /\ o.thrown = FALSE => [o EXCEPT !.thrown = FALSE] = o
  BY ONLY <1>4, <1>5, ThrownIsCaught
<1>7. object' = [o EXCEPT !.thrown = FALSE]
  BY ONLY <1>2, <1>5
<1>8. Members(object)'
  <2>1. PICK p : p = [o EXCEPT !.thrown = FALSE]
    OBVIOUS
  <2>2. Members(p) /\ object' = p
    BY ONLY <1>6, <1>7, <2>1
  <2>3. QED
    BY ONLY <2>2 DEF Members
<1>9. RequestBytes' = RequestBytes
  BY <1>2 DEF RequestBytes
<1>10. ASSUME input.ok
       PROVE  /\ Remains(STRING, RequestBytes, RequestTaken, arrived, unread)'
              /\ RequestSorted(object, RequestTaken)'
              /\ NothingWaits(object, arrived)'
  <2>1. PICK taken, here, away : taken = RequestTaken /\ here = arrived /\ away = unread
    OBVIOUS
  <2>2. Remains(STRING, RequestBytes, taken, here, away) /\ RequestSorted(object, taken)
    BY <1>10, <2>1 DEF RequestInv
  <2>3. PICK p : p = object
    OBVIOUS
  <2>4. /\ next[1].thrown = FALSE /\ NothingWaits(next[1], next[2])
        /\ \E t \in Nat : /\ Remains(STRING, RequestBytes, t, next[2], away)
                          /\ RequestSorted(next[1], t)
    BY <1>1, <1>3, <1>10, <2>1, <2>2, SlotSorts
  <2>5. PICK t \in Nat : /\ Remains(STRING, RequestBytes, t, next[2], away)
                         /\ RequestSorted(next[1], t)
    BY <2>4
  <2>6. object' = next[1]
    BY ONLY <1>5, <1>6, <1>7, <2>4
  <2>7. RequestTaken' = t
    <3>1. PICK many, rest : many = Len(next[2]) /\ rest = Len(away)
      OBVIOUS
    <3>2. many \in Nat /\ rest \in Nat /\ Len(RequestBytes) = t + many + rest
      BY <2>5, <3>1, LenProperties DEF Remains
    <3>3. RequestTaken' = Len(RequestBytes) - many - rest
      BY <1>2, <1>9, <2>1, <3>1 DEF RequestTaken
    <3>4. QED
      BY <3>2, <3>3
  <2>8. Remains(STRING, RequestBytes, RequestTaken, arrived, unread)'
    BY <1>2, <1>9, <2>1, <2>5, <2>7
  <2>9. RequestSorted(object, RequestTaken)'
    BY <1>2, <2>5, <2>6, <2>7 DEF RequestSorted, InHead, InBody, IsReady, BodyRead, WithBody,
                                  HeadRead, HeadLines, HeadSize, TakenBy
  <2>10. NothingWaits(object, arrived)'
    BY <1>2, <2>4, <2>6 DEF NothingWaits
  <2>11. QED
    BY <2>8, <2>9, <2>10
<1>11. input'.ok = input.ok
  BY <1>2
<1>12. QED
  BY <1>2, <1>3, <1>4, <1>8, <1>10, <1>11 DEF RequestInv

\* A reply is sent to a request that is ready, and nothing reads for it any more.
LEMMA ReplyToRequest ==
    ASSUME RequestInv, Http!sendReply \/ UNCHANGED Http!vars
    PROVE  RequestInv'
<1>1. /\ input' = input /\ unread' = unread /\ arrived' = arrived /\ object' = object
      /\ object.ready = 1 \/ slots' = slots
  BY DEF Http!sendReply, Http!vars
<1>2. Members(object)'
  BY <1>1 DEF RequestInv, Members
<1>3. RequestBytes' = RequestBytes /\ RequestTaken' = RequestTaken /\ input'.ok = input.ok
  BY <1>1 DEF RequestBytes, RequestTaken
<1>4. ASSUME input.ok
      PROVE  /\ Remains(STRING, RequestBytes, RequestTaken, arrived, unread)'
             /\ RequestSorted(object, RequestTaken)'
             /\ slots' = <<>> => NothingWaits(object, arrived)'
  <2>1. /\ Remains(STRING, RequestBytes, RequestTaken, arrived, unread)
        /\ RequestSorted(object, RequestTaken)
        /\ slots = <<>> => NothingWaits(object, arrived)
    BY <1>4 DEF RequestInv
  <2>2. Remains(STRING, RequestBytes, RequestTaken, arrived, unread)'
    BY <1>1, <1>3, <2>1
  <2>3. RequestSorted(object, RequestTaken)'
    BY <1>1, <1>3, <2>1 DEF RequestSorted, InHead, InBody, IsReady, BodyRead, WithBody,
                            HeadRead, HeadLines, HeadSize, TakenBy
  <2>4. slots' = <<>> => NothingWaits(object, arrived)
    <3>1. CASE object.ready = 1
      <4>1. object.readFinished
        BY <3>1 DEF RequestInv, Members
      <4>2. QED
        BY <4>1 DEF NothingWaits
    <3>2. CASE slots' = slots
      BY <2>1, <3>2
    <3>3. QED
      BY <1>1, <3>1, <3>2
  <2>5. QED
    BY <1>1, <2>2, <2>3, <2>4 DEF NothingWaits
<1>5. QED
  BY <1>1, <1>2, <1>3, <1>4 DEF RequestInv

\* One step of the stream, of the loop or of the program.
LEMMA RequestStep == RequestInv /\ [Http!Next]_Http!vars => RequestInv'
BY BlockOfRequest, ReadOfRequest, ReplyToRequest DEF Http!Next

\* What was read of the request is what its inductive invariant says.
LEMMA RequestIsTold == RequestInv => Http!CutsDoNotMatter
<1>1. SUFFICES ASSUME RequestInv PROVE Http!CutsDoNotMatter
  OBVIOUS
<1>2. PICK h, b, e, here, away, taken :
         /\ h = HeadSize /\ b = Len(input.body) /\ e = Len(input.more)
         /\ here = Len(arrived) /\ away = Len(unread) /\ taken = RequestTaken
  OBVIOUS
<1>3. input \in Requests /\ Members(object) /\ arrived \in Seq(STRING) /\ unread \in Seq(STRING)
  BY <1>1 DEF RequestInv
<1>4. h \in Nat /\ b \in Nat /\ e \in Nat /\ here \in Nat /\ away \in Nat
      /\ Len(RequestBytes) = h + (b + e)
  BY <1>2, <1>3, RequestIsOk, StreamOfRequest, LenProperties DEF HeadSize
<1>5. object.ready = (IF object.readFinished THEN 1 ELSE 0) /\ object.readFinished \in BOOLEAN
  BY <1>3 DEF Members
<1>6. object.ready <= 1
  BY ONLY <1>5
<1>7. ASSUME input.ok PROVE /\ Remains(STRING, RequestBytes, taken, arrived, unread)
                            /\ RequestSorted(object, taken)
                            /\ slots = <<>> => NothingWaits(object, arrived)
                            /\ taken \in Nat /\ h + (b + e) = taken + here + away
  <2>1. /\ Remains(STRING, RequestBytes, taken, arrived, unread)
        /\ RequestSorted(object, taken)
        /\ slots = <<>> => NothingWaits(object, arrived)
    BY <1>1, <1>2, <1>7 DEF RequestInv
  <2>2. taken \in Nat /\ h + (b + e) = taken + here + away
    BY <1>2, <1>4, <2>1 DEF Remains
  <2>3. QED
    BY <2>1, <2>2
<1>8. ASSUME input.ok, InHead(object, taken) \/ InBody(object, taken)
      PROVE  ~ object.readFinished
  <2>1. CASE InHead(object, taken)
    BY <1>3, <1>8, <2>1, LineOfHead, FreshMembers, ZenonT(60) DEF InHead, Unheard
  <2>2. CASE InBody(object, taken)
    <3>1. PICK n : object = BodyRead(n)
      BY <2>2 DEF InBody
    <3>2. PICK data, size : object = WithBody(data, size)
      BY <3>1 DEF BodyRead
    <3>3. Collecting(object, data, size)
      BY <1>3, <1>8, <3>2, BodyMembers
    <3>4. QED
      BY <3>3 DEF Collecting
  <2>3. QED
    BY <1>8, <2>1, <2>2
<1>9. ASSUME object.ready = 1, input.ok
      PROVE  /\ here + away <= e
             /\ object.requestPath = input.path
             /\ Http!IsPrefix(input.body, object.data)
             /\ input.more = <<>> => /\ object.data = input.body
                                     /\ object.postParameter = input.form
  <2>1. object.readFinished
    BY ONLY <1>5, <1>9
  <2>2. IsReady(object, taken)
    BY <1>7, <1>8, <1>9, <2>1 DEF RequestSorted
  <2>3. taken >= h + b
    BY <1>2, <2>2 DEF IsReady
  <2>4. here + away <= e
    <3>1. taken \in Nat /\ h + (b + e) = taken + here + away
      BY <1>7, <1>9
    <3>2. QED
      BY ONLY <1>4, <2>3, <3>1
  <2>5. QED
    BY <2>2, <2>4 DEF IsReady
<1>10. ASSUME away <= e, slots = <<>>, input.ok PROVE object.ready = 1
  <2>1. taken \in Nat /\ h + (b + e) = taken + here + away /\ RequestSorted(object, taken)
        /\ NothingWaits(object, arrived)
    BY <1>7, <1>10
  <2>2. taken + here >= h + b
    BY ONLY <1>4, <1>10, <2>1
  <2>3. ASSUME InHead(object, taken) PROVE FALSE
    <3>1. PICK k \in 0 .. h :
             object = HeadLines[k][1] /\ ~ object.headerFinished /\ taken = TakenBy(k)
      BY <1>2, <2>3 DEF InHead
    <3>2. PICK s, at : s = HeadLines[k][2] /\ at = Http!LineEnd(s)
      OBVIOUS
    <3>3. /\ s \in Seq(STRING) /\ HeadLines[k][1].thrown = FALSE
          /\ ~ Settled(HeadLines[k])
      BY <1>2, <1>3, <1>10, <3>1, <3>2, LineOfHead
    <3>4. at # -1
      BY <3>2, <3>3 DEF Settled
    <3>5. at \in 0 .. Len(s) - 1 /\ s[at + 1] = "\n"
      <4>1. FirstEnd(s, at)
        BY <3>2, <3>3, LineEndIsFirst
      <4>2. QED
        BY ONLY <3>4, <4>1 DEF FirstEnd
    <3>6. PICK i : i = at + 1
      OBVIOUS
    <3>7. Len(s) \in Nat /\ taken = h - Len(s)
      BY <1>2, <3>1, <3>2, <3>3, LenProperties DEF TakenBy
    <3>8. i \in 1 .. Len(s) /\ i \in 1 .. here /\ taken + i \in 1 .. h
      BY ONLY <1>4, <2>1, <2>2, <3>5, <3>6, <3>7
    <3>9. arrived[i] = RequestBytes[taken + i]
      BY <1>2, <1>7, <1>10, <3>8 DEF Remains
    <3>10. RequestBytes[taken + i] = input.head[taken + i]
      BY <1>2, <1>3, <3>8, StreamOfRequest DEF HeadSize
    <3>11. s[i] = input.head[taken + i]
      <4>1. Remains(STRING, input.head, taken, s, <<>>)
        BY <1>2, <1>3, <1>10, <3>1, <3>2, HeadRemains
      <4>2. QED
        BY <3>8, <4>1 DEF Remains
    <3>12. arrived[i] = "\n"
      BY ONLY <3>5, <3>6, <3>9, <3>10, <3>11
    <3>13. Http!LineEnd(arrived) = -1
      BY <1>8, <1>10, <2>1, <2>3, <3>1 DEF NothingWaits
    <3>14. FirstEnd(arrived, -1)
      BY <1>3, <3>13, LineEndIsFirst
    <3>15. QED
      BY <1>2, <3>8, <3>12, <3>14 DEF FirstEnd
  <2>4. ASSUME InBody(object, taken) PROVE FALSE
    <3>1. PICK n \in 0 .. b - 1 : object = BodyRead(n) /\ taken = h + n
      BY <1>2, <2>4 DEF InBody
    <3>2. PICK data, size : object = WithBody(data, size)
      BY <3>1 DEF BodyRead
    <3>3. Collecting(object, data, size)
      BY <1>3, <1>10, <3>2, BodyMembers
    <3>4. arrived = <<>>
      BY <2>1, <3>3 DEF Collecting, NothingWaits
    <3>5. here = 0
      BY <1>2, <3>4, EmptySeq
    <3>6. QED
      BY ONLY <1>4, <2>2, <3>1, <3>5
  <2>5. IsReady(object, taken)
    BY <2>1, <2>3, <2>4 DEF RequestSorted
  <2>6. object.readFinished
    BY <2>5 DEF IsReady
  <2>7. QED
    BY ONLY <1>5, <2>6
<1>11. QED
  BY <1>2, <1>6, <1>9, <1>10 DEF Http!CutsDoNotMatter

-----------------------------------------------------------------------------
\* The components of DataLoops, in one behaviour each.

SerialInv == kind = "serial" => Inv
SocketInv == kind = "socket" => FramesInv
HttpInv == kind = "http" => RequestInv
LinkedInv == kind = "list" => ListInv
LoopsInv == SerialInv /\ SocketInv /\ HttpInv /\ LinkedInv

\* Only a step of its own component disturbs an invariant.
LEMMA LoopsInvariant == Spec => []LoopsInv
<1>1. Init => LoopsInv
  BY InitSorted, InitFrames, InitRequest, InitLinked
     DEF Init, LoopsInv, SerialInv, SocketInv, HttpInv, LinkedInv
<1>2. LoopsInv /\ [Next]_vars => LoopsInv'
  <2> SUFFICES ASSUME LoopsInv, [Next]_vars
               PROVE  SerialInv' /\ SocketInv' /\ HttpInv' /\ LinkedInv'
    BY DEF LoopsInv
  <2>0. /\ kind = "serial" => Inv
        /\ kind = "socket" => FramesInv
        /\ kind = "http" => RequestInv
        /\ kind = "list" => ListInv
    BY DEF LoopsInv, SerialInv, SocketInv, HttpInv, LinkedInv
  <2>1. CASE SerialStep
    BY <2>0, <2>1, SortedStep DEF SerialStep, SerialInv, SocketInv, HttpInv, LinkedInv
  <2>2. CASE SocketStep
    BY <2>0, <2>2, FramesStep DEF SocketStep, SerialInv, SocketInv, HttpInv, LinkedInv
  <2>3. CASE HttpStep
    BY <2>0, <2>3, RequestStep DEF HttpStep, SerialInv, SocketInv, HttpInv, LinkedInv
  <2>4. CASE ListStep
    BY <2>0, <2>4, ListKept DEF ListStep, SerialInv, SocketInv, HttpInv, LinkedInv
  <2>5. CASE UNCHANGED vars
    <3>1. /\ kind' = kind /\ UNCHANGED Serial!vars /\ UNCHANGED Socket!vars
          /\ UNCHANGED Http!vars /\ UNCHANGED Linked!vars
      BY <2>5 DEF vars, Serial!vars, Socket!vars, Http!vars, Linked!vars
    <3>2. QED
      BY <2>0, <3>1, SortedStep, FramesStep, RequestStep, ListKept
         DEF SerialInv, SocketInv, HttpInv, LinkedInv
  <2>6. QED
    BY <2>1, <2>2, <2>3, <2>4, <2>5 DEF Next
<1>3. QED
  BY <1>1, <1>2, PTL DEF Spec

\* For every line, every sequence of frames and every request, however their bytes
\* are cut into blocks: dataReceived tells each telegram it has taken once, in order,
\* as received when its CRC is right and as an error when not; tcpReadReady reports
\* each frame once, in order, when its last byte is read; and readReady makes a
\* request ready once, with its own path, body and form, when all of it has come.
THEOREM CutsNeverMatter == Spec => []CutsDoNotMatter
<1>1. LoopsInv => CutsDoNotMatter
  BY SortedIsTold, FramesAreReported, RequestIsTold
     DEF LoopsInv, SerialInv, SocketInv, HttpInv, CutsDoNotMatter
<1>2. QED
  BY <1>1, LoopsInvariant, PTL

\* For any items and any number of calls: until one that loses count the list is
\* the sequence its caller has in mind, and whatever has been called its links go
\* back as they go forward.
THEOREM ListStaysTheSequence == Spec => []ListIsTheSequence
<1>1. LoopsInv => ListIsTheSequence
  BY RepresentedIsTheSequence, RepresentedIsMirrored DEF LoopsInv, LinkedInv, ListIsTheSequence
<1>2. QED
  BY <1>1, LoopsInvariant, PTL
=============================================================================
