----------------------------- MODULE WireProofs -----------------------------
(***************************************************************************)
(* Proofs about commands as text, for commands, payloads and buffers of    *)
(* every size: what is formatted parses to what was meant, a read that     *)
(* starts where a command does handles it, and records are read back.      *)
(***************************************************************************)
EXTENDS Wire, FiniteSetTheorems, SequenceTheorems, TLAPS

-----------------------------------------------------------------------------
(* Counting, and the loops of the source as functions of how often they    *)
(* were run.                                                               *)
LEMMA LeastExists ==
  ASSUME NEW S, S \subseteq Nat, S # {}
  PROVE  \E x \in S : \A y \in S : x <= y
<1> DEFINE T == { 0 .. n : n \in S }
<1>1. T \subseteq FiniteSubsetsOf(Nat)
  <2>1. \A n \in S : 0 .. n \in SUBSET Nat /\ IsFiniteSet(0 .. n)
    BY FS_Interval
  <2> QED
    BY <2>1 DEF FiniteSubsetsOf
<1>2. T # {}
  OBVIOUS
<1>3. PICK U \in T : \A V \in T : ~(<< V, U >> \in StrictSubsetOrdering(Nat))
  <2> HIDE DEF T
  <2> QED
    BY <1>1, <1>2, FS_StrictSubsetOrderingWellFounded, WFMin
<1>4. PICK x \in S : U = 0 .. x
  OBVIOUS
<1>5. ASSUME NEW y \in S, y < x PROVE FALSE
  <2>1. 0 .. y \in T /\ 0 .. y \in SUBSET Nat /\ 0 .. x \in SUBSET Nat
    OBVIOUS
  <2>2. 0 .. y \subseteq 0 .. x /\ x \in 0 .. x /\ x \notin 0 .. y
    BY <1>5
  <2>3. << 0 .. y, U >> \in StrictSubsetOrdering(Nat)
    BY <1>4, <2>1, <2>2 DEF StrictSubsetOrdering
  <2> QED
    BY <1>3, <2>1, <2>3
<1> QED
  BY <1>5

LEMMA CountUp ==
  ASSUME NEW N \in Nat, NEW S, 0 \in S,
         \A n \in 0 .. N - 1 : n \in S => n + 1 \in S
  PROVE  \A n \in 0 .. N : n \in S
<1> DEFINE Missed == (0 .. N) \ S
<1>1. SUFFICES ASSUME Missed # {} PROVE FALSE
  OBVIOUS
<1>2. PICK n \in Missed : \A k \in Missed : n <= k
  <2>1. Missed \subseteq Nat
    OBVIOUS
  <2> QED
    BY <1>1, <2>1, LeastExists
<1>3. n \in 0 .. N /\ n \notin S /\ n # 0
  OBVIOUS
<1>4. n - 1 \in 0 .. N - 1 /\ n - 1 \in 0 .. N /\ (n - 1) + 1 = n /\ ~(n <= n - 1)
  BY <1>3
<1>5. n - 1 \in S
  BY <1>2, <1>4
<1> QED
  BY <1>3, <1>4, <1>5

(* h[n] is what the first n steps of a loop make of a, staying in S.       *)
Loops(h, S, step, a, N) ==
  /\ h \in [0 .. N -> S]
  /\ h[0] = a
  /\ \A n \in 1 .. N : h[n] = step[n][h[n - 1]]

LEMMA LoopExists ==
  ASSUME NEW S, NEW N \in Nat, NEW step \in [1 .. N -> [S -> S]], NEW a \in S
  PROVE  \E h : Loops(h, S, step, a, N)
<1> DEFINE Runs(m) == { h \in [0 .. m -> S] :
                          h[0] = a /\ \A n \in 1 .. m : h[n] = step[n][h[n - 1]] }
           Done == { m \in Nat : Runs(m) # {} }
<1>1. 0 \in Done
  <2>1. [n \in 0 .. 0 |-> a] \in Runs(0)
    OBVIOUS
  <2> QED
    BY <2>1
<1>2. ASSUME NEW m \in 0 .. N - 1, m \in Done PROVE m + 1 \in Done
  <2>1. PICK h \in Runs(m) : TRUE
    BY <1>2
  <2>2. /\ m \in Nat /\ m + 1 \in 1 .. N
        /\ h \in [0 .. m -> S] /\ h[0] = a
        /\ \A n \in 1 .. m : h[n] = step[n][h[n - 1]]
    BY <2>1
  <2> DEFINE g == [n \in 0 .. m + 1 |-> IF n <= m THEN h[n] ELSE step[m + 1][h[m]]]
  <2>3. g \in [0 .. m + 1 -> S] /\ g[0] = a
    <3>1. h[m] \in S /\ step[m + 1] \in [S -> S]
      BY <2>2
    <3> QED
      BY <2>2, <3>1
  <2>4. ASSUME NEW n \in 1 .. m + 1 PROVE g[n] = step[n][g[n - 1]]
    <3>1. n - 1 \in 0 .. m /\ n - 1 \in 0 .. m + 1 /\ g[n - 1] = h[n - 1]
      BY <2>2, <2>4
    <3>2. CASE n = m + 1
      BY <2>2, <3>1, <3>2
    <3>3. CASE n # m + 1
      <4>1. n \in 1 .. m /\ n <= m /\ n \in 0 .. m + 1
        BY <2>2, <3>1, <3>3
      <4> QED
        BY <2>2, <3>1, <4>1
    <3> QED
      BY <3>2, <3>3
  <2>5. g \in Runs(m + 1)
    <3> HIDE DEF g
    <3> QED
      BY <2>3, <2>4
  <2> QED
    BY <2>2, <2>5
<1>3. N \in Done
  <2> HIDE DEF Done
  <2>1. \A n \in 0 .. N : n \in Done
    BY <1>1, <1>2, CountUp
  <2> QED
    BY <2>1
<1>4. PICK h \in Runs(N) : TRUE
  BY <1>3
<1> QED
  BY <1>4 DEF Loops

-----------------------------------------------------------------------------
(* Characters: the end of a run, and what is skipped.                      *)
LEMMA RunIs ==
  ASSUME NEW s, NEW Chars, Len(s) \in Nat, NEW k \in 0 .. Len(s),
         \A i \in 1 .. k : s[i] \in Chars, k < Len(s) => s[k + 1] \notin Chars
  PROVE  Run(s, Chars) = k
<1> DEFINE Ends(j) == /\ \A i \in 1 .. j : s[i] \in Chars
                      /\ j < Len(s) => s[j + 1] \notin Chars
<1>1. ASSUME NEW j \in 0 .. Len(s), Ends(j) PROVE j = k
  <2>1. j < k => j + 1 \in 1 .. k
    OBVIOUS
  <2>2. k < j => k + 1 \in 1 .. j
    OBVIOUS
  <2> QED
    BY <1>1, <2>1, <2>2
<1>2. Ends(k)
  OBVIOUS
<1>3. Run(s, Chars) = CHOOSE j \in 0 .. Len(s) : Ends(j)
  BY DEF Run
<1> HIDE DEF Ends
<1> QED
  BY <1>1, <1>2, <1>3

LEMMA RunEnds ==
  ASSUME NEW s, NEW Chars, Len(s) \in Nat
  PROVE  /\ Run(s, Chars) \in 0 .. Len(s)
         /\ \A i \in 1 .. Run(s, Chars) : s[i] \in Chars
         /\ Run(s, Chars) < Len(s) => s[Run(s, Chars) + 1] \notin Chars
<1> DEFINE Ends(j) == /\ \A i \in 1 .. j : s[i] \in Chars
                      /\ j < Len(s) => s[j + 1] \notin Chars
           Goes == { j \in Nat : \A i \in 1 .. j : s[i] \in Chars }
<1>1. \E j \in 0 .. Len(s) : Ends(j)
  <2>1. SUFFICES ASSUME \A j \in 0 .. Len(s) : ~Ends(j) PROVE FALSE
    OBVIOUS
  <2>2. 0 \in Goes
    OBVIOUS
  <2>3. ASSUME NEW n \in 0 .. Len(s) - 1, n \in Goes PROVE n + 1 \in Goes
    <3>1. \A i \in 1 .. n : s[i] \in Chars
      BY <2>3
    <3>2. s[n + 1] \in Chars
      <4>1. n \in 0 .. Len(s) /\ n < Len(s)
        OBVIOUS
      <4>2. ~Ends(n)
        BY <2>1, <4>1
      <4> QED
        BY <3>1, <4>2
    <3>3. \A i \in 1 .. n + 1 : i \in 1 .. n \/ i = n + 1
      OBVIOUS
    <3> QED
      BY <3>1, <3>2, <3>3
  <2>4. \A n \in 0 .. Len(s) : n \in Goes
    <3> HIDE DEF Goes
    <3> QED
      BY <2>2, <2>3, CountUp
  <2>5. Ends(Len(s))
    BY <2>4
  <2> QED
    BY <2>1, <2>5
<1>2. Run(s, Chars) = CHOOSE j \in 0 .. Len(s) : Ends(j)
  BY DEF Run
<1>3. Run(s, Chars) \in 0 .. Len(s) /\ Ends(Run(s, Chars))
  <2> HIDE DEF Ends
  <2> QED
    BY <1>1, <1>2
<1> QED
  BY <1>3

LEMMA NothingIsSkipped ==
  ASSUME NEW S, NEW s \in Seq(S), s # << >> => s[1] \notin Space
  PROVE  SkipSpace(s) = s
<1>1. Len(s) \in Nat /\ DOMAIN s = 1 .. Len(s) /\ (0 < Len(s) => s # << >>)
  BY LenProperties
<1>2. Run(s, Space) = 0
  BY <1>1, RunIs
<1>3. SkipSpace(s) = SubSeq(s, 1, Len(s))
  BY <1>2 DEF SkipSpace
<1> QED
  BY <1>1, <1>3

-----------------------------------------------------------------------------
(* Numbers: strtol reads digits as "%02X" and its like write them.         *)
Values(v, s, base) ==
  v = [k \in 0 .. Len(s) |-> IF k = 0 THEN 0 ELSE base * v[k - 1] + s[k]]

LEMMA StrtolIs ==
  ASSUME NEW base \in {10, 16}, NEW s \in Seq(0 .. base - 1)
  PROVE  \E v : Values(v, s, base) /\ strtol(s, base) = v[Len(s)]
<1>1. Len(s) \in Nat /\ DOMAIN s = 1 .. Len(s) /\ \A i \in 1 .. Len(s) : s[i] \in 0 .. base - 1
  BY LenProperties, ElementOfSeq
<1>2. SkipSpace(s) = s
  <2>1. s # << >> => 1 \in 1 .. Len(s)
    BY <1>1, EmptySeq
  <2>2. s # << >> => s[1] \notin Space
    BY <1>1, <2>1 DEF Space, CR, LF
  <2> QED
    BY <2>2, NothingIsSkipped
<1>3. Run(s, 0 .. base - 1) = Len(s)
  BY <1>1, RunIs
<1>4. \E v : Values(v, s, base)
  <2> DEFINE step == [k \in 1 .. Len(s) |-> [x \in Nat |-> base * x + s[k]]]
  <2>1. \A k \in 1 .. Len(s), x \in Nat : base * x + s[k] \in Nat
    BY <1>1
  <2>2. step \in [1 .. Len(s) -> [Nat -> Nat]]
    BY <1>1, <2>1
  <2>3. \A k \in 1 .. Len(s), x \in Nat : step[k][x] = base * x + s[k]
    OBVIOUS
  <2> HIDE DEF step
  <2>4. PICK v : Loops(v, Nat, step, 0, Len(s))
    BY <1>1, <2>2, LoopExists
  <2>5. \A k \in 0 .. Len(s) : v[k] = IF k = 0 THEN 0 ELSE base * v[k - 1] + s[k]
    <3>1. ASSUME NEW k \in 1 .. Len(s) PROVE v[k] = base * v[k - 1] + s[k]
      <4>1. k - 1 \in 0 .. Len(s)
        BY <1>1
      <4>2. v[k - 1] \in Nat /\ v[k] = step[k][v[k - 1]]
        BY <2>4, <4>1 DEF Loops
      <4> QED
        BY <2>3, <4>2
    <3> QED
      BY <1>1, <2>4, <3>1 DEF Loops
  <2>6. v = [k \in 0 .. Len(s) |-> v[k]]
    BY <2>4 DEF Loops
  <2> QED
    BY <2>5, <2>6 DEF Values
<1>5. PICK v : v = CHOOSE w : Values(w, s, base)
  OBVIOUS
<1>6. strtol(s, base) = v[Len(s)]
  BY <1>2, <1>3, <1>5 DEF strtol, Values
<1> QED
  BY <1>4, <1>5, <1>6

LEMMA ValuesGoOn ==
  ASSUME NEW v, NEW s, NEW base, Len(s) \in Nat, Values(v, s, base)
  PROVE  /\ v[0] = 0
         /\ \A k \in 0 .. Len(s) - 1 : v[k + 1] = base * v[k] + s[k + 1]
<1>1. ASSUME NEW k \in 0 .. Len(s) - 1 PROVE v[k + 1] = base * v[k] + s[k + 1]
  <2>1. k + 1 \in 0 .. Len(s) /\ k + 1 # 0 /\ (k + 1) - 1 = k
    OBVIOUS
  <2> QED
    BY <2>1 DEF Values
<1> QED
  BY <1>1 DEF Values

LEMMA StrtolOfOne ==
  ASSUME NEW d \in 0 .. 9
  PROVE  strtol(<< d >>, 10) = d
<1>1. PICK s : s = << d >>
  OBVIOUS
<1>2. s \in Seq(0 .. 10 - 1) /\ Len(s) = 1 /\ s[1] = d
  BY <1>1
<1>3. PICK v : Values(v, s, 10) /\ strtol(s, 10) = v[Len(s)]
  BY <1>2, StrtolIs
<1>4. 0 \in 0 .. Len(s) - 1
  BY <1>2
<1>5. v[0] = 0 /\ v[0 + 1] = 10 * v[0] + s[0 + 1]
  BY <1>2, <1>3, <1>4, ValuesGoOn
<1> QED
  BY <1>1, <1>2, <1>3, <1>5

LEMMA StrtolOfTwo ==
  ASSUME NEW s \in Seq(0 .. 15), Len(s) = 2
  PROVE  strtol(s, 16) = 16 * s[1] + s[2]
<1>1. 1 \in 1 .. Len(s) /\ 2 \in 1 .. Len(s) /\ 0 \in 0 .. Len(s) - 1 /\ 1 \in 0 .. Len(s) - 1
  OBVIOUS
<1>2. s[1] \in 0 .. 15 /\ s[2] \in 0 .. 15
  BY <1>1, ElementOfSeq
<1>3. s \in Seq(0 .. 16 - 1)
  OBVIOUS
<1>4. PICK v : Values(v, s, 16) /\ strtol(s, 16) = v[Len(s)]
  BY <1>3, StrtolIs
<1>5. v[0] = 0 /\ v[0 + 1] = 16 * v[0] + s[0 + 1] /\ v[1 + 1] = 16 * v[1] + s[1 + 1]
  BY <1>1, <1>4, ValuesGoOn
<1> QED
  BY <1>2, <1>4, <1>5

LEMMA NumeralOfByte ==
  ASSUME NEW n \in 0 .. 255
  PROVE  /\ Numeral(n, 2) \in Seq(0 .. 15) /\ Len(Numeral(n, 2)) = 2
         /\ 16 * Numeral(n, 2)[1] + Numeral(n, 2)[2] = n
<1>1. 16 ^ (2 - 1) = 16 /\ 16 ^ (2 - 2) = 1
  OBVIOUS
<1>2. PICK s : s = Numeral(n, 2)
  OBVIOUS
<1>3. s[1] = (n \div 16) % 16 /\ s[2] = n % 16
  BY <1>1, <1>2 DEF Numeral
<1>4. \A i \in 1 .. 2 : s[i] \in 0 .. 15
  BY <1>3
<1>5. s = [i \in 1 .. 2 |-> s[i]]
  BY <1>2 DEF Numeral
<1>6. s \in Seq(0 .. 15) /\ Len(s) = 2
  BY <1>4, <1>5
<1>7. 16 * s[1] + s[2] = n
  BY <1>3
<1> QED
  BY <1>2, <1>6, <1>7

LEMMA NumeralOfLength ==
  ASSUME NEW n \in Nat
  PROVE  /\ Numeral(n, 6) \in Seq(0 .. 15) /\ Len(Numeral(n, 6)) = 6
         /\ n < 16 ^ PAYLOAD_LENGTH_SIZE => strtol(Numeral(n, 6), 16) = n
<1>1. /\ 16 ^ (6 - 1) = 1048576 /\ 16 ^ (6 - 2) = 65536 /\ 16 ^ (6 - 3) = 4096
      /\ 16 ^ (6 - 4) = 256 /\ 16 ^ (6 - 5) = 16 /\ 16 ^ (6 - 6) = 1
      /\ 16 ^ 6 = 16777216
  BY SMT
<1>2. PICK s : s = Numeral(n, 6)
  OBVIOUS
<1>3. /\ s[1] = (n \div 1048576) % 16 /\ s[2] = (n \div 65536) % 16
      /\ s[3] = (n \div 4096) % 16 /\ s[4] = (n \div 256) % 16
      /\ s[5] = (n \div 16) % 16 /\ s[6] = n % 16
  BY <1>1, <1>2, SMT DEF Numeral
<1>4. \A i \in 1 .. 6 : s[i] \in 0 .. 15
  BY <1>3, SMT
<1>5. s = [i \in 1 .. 6 |-> s[i]]
  BY <1>2 DEF Numeral
<1>6. s \in Seq(0 .. 15) /\ Len(s) = 6
  BY <1>4, <1>5
<1>7. s \in Seq(0 .. 16 - 1)
  BY <1>6
<1>8. PICK v : Values(v, s, 16) /\ strtol(s, 16) = v[6]
  BY <1>6, <1>7, StrtolIs
<1>9. /\ v[0] = 0
      /\ v[0 + 1] = 16 * v[0] + s[0 + 1] /\ v[1 + 1] = 16 * v[1] + s[1 + 1]
      /\ v[2 + 1] = 16 * v[2] + s[2 + 1] /\ v[3 + 1] = 16 * v[3] + s[3 + 1]
      /\ v[4 + 1] = 16 * v[4] + s[4 + 1] /\ v[5 + 1] = 16 * v[5] + s[5 + 1]
  <2>1. Len(s) \in Nat /\ Len(s) - 1 = 5
    BY <1>6
  <2>2. v[0] = 0 /\ \A k \in 0 .. Len(s) - 1 : v[k + 1] = 16 * v[k] + s[k + 1]
    BY <1>8, <2>1, ValuesGoOn
  <2>3. ASSUME NEW k \in {0, 1, 2, 3, 4, 5} PROVE v[k + 1] = 16 * v[k] + s[k + 1]
    <3>1. k \in 0 .. Len(s) - 1
      BY <2>1
    <3> QED
      BY <2>2, <3>1
  <2> QED
    BY <2>2, <2>3
<1>10. ASSUME n < 16 ^ PAYLOAD_LENGTH_SIZE PROVE n < 16777216
  BY <1>1, <1>10, SMT DEF PAYLOAD_LENGTH_SIZE
<1>11. ASSUME n < 16777216 PROVE v[6] = n
  <2>1. /\ v[1] = s[1] /\ v[2] = 16 * v[1] + s[2] /\ v[3] = 16 * v[2] + s[3]
        /\ v[4] = 16 * v[3] + s[4] /\ v[5] = 16 * v[4] + s[5] /\ v[6] = 16 * v[5] + s[6]
    BY <1>4, <1>9
  <2>2. /\ n \div 65536 = 16 * (n \div 1048576) + s[2] /\ s[1] = n \div 1048576
        /\ n \div 4096 = 16 * (n \div 65536) + s[3]
        /\ n \div 256 = 16 * (n \div 4096) + s[4]
        /\ n \div 16 = 16 * (n \div 256) + s[5]
        /\ n = 16 * (n \div 16) + s[6]
    BY <1>3, <1>11, SMT
  <2> QED
    BY <2>1, <2>2, SMT
<1>12. n < 16 ^ PAYLOAD_LENGTH_SIZE => v[6] = n
  BY <1>10, <1>11, SMT
<1> QED
  BY <1>2, <1>6, <1>8, <1>12

-----------------------------------------------------------------------------
(* Texts put together: g[k] is the first k of them.                        *)
Joins(g, S, seqs) ==
  /\ g \in [0 .. Len(seqs) -> Seq(S)]
  /\ g[0] = << >>
  /\ \A k \in 1 .. Len(seqs) : g[k] = g[k - 1] \o seqs[k]

LEMMA JoinExists ==
  ASSUME NEW S, NEW seqs \in Seq(Seq(S))
  PROVE  \E g : Joins(g, S, seqs)
<1> DEFINE step == [k \in 1 .. Len(seqs) |-> [x \in Seq(S) |-> x \o seqs[k]]]
<1>1. Len(seqs) \in Nat /\ << >> \in Seq(S)
  BY LenProperties, EmptySeq
<1>2. \A k \in 1 .. Len(seqs) : seqs[k] \in Seq(S)
  BY ElementOfSeq
<1>3. \A k \in 1 .. Len(seqs) : \A x \in Seq(S) : x \o seqs[k] \in Seq(S)
  BY <1>2, ConcatProperties
<1>4. step \in [1 .. Len(seqs) -> [Seq(S) -> Seq(S)]]
  BY <1>3
<1>5. \A k \in 1 .. Len(seqs) : \A x \in Seq(S) : step[k][x] = x \o seqs[k]
  OBVIOUS
<1> HIDE DEF step
<1>6. PICK g : Loops(g, Seq(S), step, << >>, Len(seqs))
  BY <1>1, <1>4, LoopExists
<1>7. ASSUME NEW k \in 1 .. Len(seqs) PROVE g[k] = g[k - 1] \o seqs[k]
  <2>1. k - 1 \in 0 .. Len(seqs)
    BY <1>1
  <2>2. g[k - 1] \in Seq(S) /\ g[k] = step[k][g[k - 1]]
    BY <1>6, <2>1 DEF Loops
  <2> QED
    BY <1>5, <2>2
<1> QED
  BY <1>6, <1>7 DEF Joins, Loops

LEMMA FlattenIsJoined ==
  ASSUME NEW S, NEW seqs \in Seq(Seq(S)), NEW g, Joins(g, S, seqs)
  PROVE  FlattenSeq(seqs) = g[Len(seqs)]
<1> DEFINE Flattens(f) ==
      f = [i \in 1 .. Len(seqs) |-> IF i = 1 THEN seqs[i] ELSE f[i - 1] \o seqs[i]]
<1>1. Len(seqs) \in Nat /\ \A k \in 1 .. Len(seqs) : seqs[k] \in Seq(S)
  BY LenProperties, ElementOfSeq
<1>2. CASE Len(seqs) = 0
  BY <1>1, <1>2, EmptySeq DEF FlattenSeq, Joins
<1>3. CASE Len(seqs) # 0
  <2>1. FlattenSeq(seqs) = (CHOOSE f : Flattens(f))[Len(seqs)]
    BY <1>3 DEF FlattenSeq
  <2>2. \A k \in 1 .. Len(seqs) : g[k] = IF k = 1 THEN seqs[k] ELSE g[k - 1] \o seqs[k]
    <3>1. ASSUME 1 \in 1 .. Len(seqs) PROVE g[1] = seqs[1]
      <4>1. g[0] = << >> /\ seqs[1] \in Seq(S) /\ 1 - 1 = 0
        BY <1>1, <3>1 DEF Joins
      <4>2. << >> \o seqs[1] = seqs[1]
        BY <4>1, ConcatEmptySeq
      <4>3. \A k \in 1 .. Len(seqs) : k - 1 = 0 => g[k] = g[0] \o seqs[k]
        BY DEF Joins
      <4> QED
        BY <3>1, <4>1, <4>2, <4>3
    <3> QED
      BY <3>1 DEF Joins
  <2>3. PICK h : h = [k \in 1 .. Len(seqs) |-> g[k]]
    OBVIOUS
  <2>4. \A k \in 1 .. Len(seqs) : h[k] = IF k = 1 THEN seqs[k] ELSE h[k - 1] \o seqs[k]
    <3>1. ASSUME NEW k \in 1 .. Len(seqs), k # 1 PROVE h[k - 1] = g[k - 1] /\ h[k] = g[k]
      <4>1. k - 1 \in 1 .. Len(seqs)
        BY <1>1, <3>1
      <4> QED
        BY <2>3, <4>1
    <3> QED
      BY <2>2, <2>3, <3>1
  <2>5. Flattens(h)
    <3>1. h = [k \in 1 .. Len(seqs) |-> h[k]]
      BY <2>3
    <3> QED
      BY <2>4, <3>1
  <2>6. PICK f : f = CHOOSE x : Flattens(x)
    OBVIOUS
  <2>7. Flattens(f)
    <3> HIDE DEF Flattens
    <3> QED
      BY <2>5, <2>6
  <2>8. \A k \in 1 .. Len(seqs) : f[k] = IF k = 1 THEN seqs[k] ELSE f[k - 1] \o seqs[k]
    BY <2>7
  <2> DEFINE Same == { k \in Nat : k = 0 \/ f[k] = g[k] }
  <2>9. ASSUME NEW k \in 0 .. Len(seqs) - 1, k \in Same PROVE k + 1 \in Same
    <3>1. k + 1 \in 1 .. Len(seqs) /\ (k + 1) - 1 = k /\ (k = 0 <=> k + 1 = 1)
      BY <1>1
    <3>2. f[k + 1] = IF k = 0 THEN seqs[k + 1] ELSE f[k] \o seqs[k + 1]
      BY <2>8, <3>1
    <3>3. g[k + 1] = IF k = 0 THEN seqs[k + 1] ELSE g[k] \o seqs[k + 1]
      BY <2>2, <3>1
    <3>4. f[k + 1] = g[k + 1]
      BY <2>9, <3>2, <3>3
    <3> QED
      BY <3>1, <3>4
  <2>10. 0 \in Same
    OBVIOUS
  <2>11. \A k \in 0 .. Len(seqs) : k \in Same
    <3> HIDE DEF Same
    <3> QED
      BY <1>1, <2>9, <2>10, CountUp
  <2>12. Len(seqs) \in Same
    <3> HIDE DEF Same
    <3> QED
      BY <1>1, <2>11
  <2>13. f[Len(seqs)] = g[Len(seqs)]
    BY <1>3, <2>12
  <2> QED
    BY <2>1, <2>6, <2>13
<1> QED
  BY <1>2, <1>3

LEMMA StartIsJoined ==
  ASSUME NEW S, NEW seqs \in Seq(Seq(S)), NEW g, Joins(g, S, seqs), NEW n \in 0 .. Len(seqs)
  PROVE  FlattenSeq(SubSeq(seqs, 1, n)) = g[n]
<1>1. Len(seqs) \in Nat /\ \A k \in 1 .. Len(seqs) : seqs[k] \in Seq(S)
  BY LenProperties, ElementOfSeq
<1>2. PICK t : t = SubSeq(seqs, 1, n)
  OBVIOUS
<1>3. t \in Seq(Seq(S)) /\ Len(t) = n /\ \A i \in 1 .. n : t[i] = seqs[i]
  <2>1. \A i \in 1 .. n : seqs[i] \in Seq(S)
    BY <1>1
  <2>2. t \in Seq(Seq(S)) /\ Len(t) = n
    BY <1>2, <2>1, SubSeqProperties
  <2>3. \A i \in 1 .. n : t[i] = seqs[1 + i - 1]
    <3>1. \A i \in 1 .. n - 1 + 1 : t[i] = seqs[1 + i - 1]
      BY <1>2, <2>1, SubSeqProperties
    <3> QED
      BY <3>1
  <2> QED
    BY <2>2, <2>3
<1>4. PICK h : h = [k \in 0 .. n |-> g[k]]
  OBVIOUS
<1>5. Joins(h, S, t)
  <2>1. h \in [0 .. n -> Seq(S)] /\ h[0] = << >>
    BY <1>1, <1>4 DEF Joins
  <2>2. ASSUME NEW k \in 1 .. n PROVE h[k] = h[k - 1] \o t[k]
    <3>1. k \in 1 .. Len(seqs) /\ k \in 0 .. n /\ k - 1 \in 0 .. n
      BY <1>1
    <3>2. h[k] = g[k] /\ h[k - 1] = g[k - 1] /\ t[k] = seqs[k]
      BY <1>3, <1>4, <3>1
    <3> QED
      BY <3>1, <3>2 DEF Joins
  <2> QED
    BY <1>3, <2>1, <2>2 DEF Joins
<1>6. FlattenSeq(t) = h[n]
  BY <1>3, <1>5, FlattenIsJoined
<1> QED
  BY <1>2, <1>4, <1>6

(* c is a with b after it.                                                 *)
Follows(a, b, c) ==
  /\ Len(a) \in Nat /\ Len(b) \in Nat /\ Len(c) = Len(a) + Len(b)
  /\ \A i \in 1 .. Len(a) : c[i] = a[i]
  /\ \A i \in 1 .. Len(b) : c[Len(a) + i] = b[i]

LEMMA ConcatFollows ==
  ASSUME NEW S, NEW a \in Seq(S), NEW b \in Seq(S)
  PROVE  a \o b \in Seq(S) /\ Follows(a, b, a \o b)
<1>1. PICK c : c = a \o b
  OBVIOUS
<1>2. /\ c \in Seq(S) /\ Len(c) = Len(a) + Len(b) /\ Len(a) \in Nat /\ Len(b) \in Nat
      /\ \A i \in 1 .. Len(a) + Len(b) : c[i] = IF i <= Len(a) THEN a[i] ELSE b[i - Len(a)]
  BY <1>1, ConcatProperties, LenProperties
<1>3. \A i \in 1 .. Len(a) : c[i] = a[i]
  BY <1>2
<1>4. ASSUME NEW i \in 1 .. Len(b) PROVE c[Len(a) + i] = b[i]
  <2>1. Len(a) + i \in 1 .. Len(a) + Len(b) /\ ~(Len(a) + i <= Len(a)) /\ (Len(a) + i) - Len(a) = i
    BY <1>2
  <2> QED
    BY <1>2, <2>1
<1> QED
  BY <1>1, <1>2, <1>3, <1>4 DEF Follows

LEMMA JoinGoesOn ==
  ASSUME NEW S, NEW seqs \in Seq(Seq(S)), NEW g, Joins(g, S, seqs),
         NEW k \in 0 .. Len(seqs) - 1
  PROVE  Follows(g[k], seqs[k + 1], g[k + 1])
<1>1. Len(seqs) \in Nat /\ \A j \in 1 .. Len(seqs) : seqs[j] \in Seq(S)
  BY LenProperties, ElementOfSeq
<1>2. k + 1 \in 1 .. Len(seqs) /\ (k + 1) - 1 = k /\ k \in 0 .. Len(seqs)
  BY <1>1
<1>3. PICK a, b, c : a = g[k] /\ b = seqs[k + 1] /\ c = g[k + 1]
  OBVIOUS
<1>4. a \in Seq(S) /\ b \in Seq(S)
  BY <1>1, <1>2, <1>3 DEF Joins
<1>5. c = a \o b
  BY <1>2, <1>3 DEF Joins
<1>6. Follows(a, b, c)
  BY <1>4, <1>5, ConcatFollows
<1> QED
  BY <1>3, <1>6

LEMMA JoinBegins ==
  ASSUME NEW S, NEW seqs \in Seq(Seq(S)), NEW g, Joins(g, S, seqs), NEW n \in 1 .. Len(seqs)
  PROVE  /\ Len(seqs[1]) <= Len(g[n]) /\ Len(g[1]) = Len(seqs[1])
         /\ \A i \in 1 .. Len(seqs[1]) : g[n][i] = seqs[1][i]
<1> DEFINE Begins(k) == /\ Len(g[k]) \in Nat /\ Len(seqs[1]) <= Len(g[k])
                        /\ \A i \in 1 .. Len(seqs[1]) : g[k][i] = seqs[1][i]
           Good == { k \in Nat : k = 0 \/ Begins(k) }
<1>1. Len(seqs) \in Nat /\ 0 \in 0 .. Len(seqs) - 1 /\ n \in 0 .. Len(seqs)
  BY LenProperties
<1>2. PICK first : first = seqs[1]
  OBVIOUS
<1>3. Follows(g[0], first, g[1]) /\ g[0] = << >> /\ Len(<< >>) = 0
  <2>1. Follows(g[0], seqs[0 + 1], g[0 + 1])
    BY <1>1, JoinGoesOn
  <2>2. 0 + 1 = 1
    OBVIOUS
  <2> QED
    BY <1>2, <2>1, <2>2, EmptySeq DEF Joins
<1>4. Len(first) \in Nat /\ Len(g[1]) = Len(first) /\ \A i \in 1 .. Len(first) : g[1][i] = first[i]
  BY <1>3 DEF Follows
<1>5. ASSUME NEW k \in 0 .. Len(seqs) - 1, k \in Good PROVE k + 1 \in Good
  <2>1. CASE k = 0
    BY <1>2, <1>4, <2>1
  <2>2. CASE k # 0
    <3>1. PICK a, b, c : a = g[k] /\ b = seqs[k + 1] /\ c = g[k + 1]
      OBVIOUS
    <3>2. Follows(a, b, c)
      BY <3>1, JoinGoesOn
    <3>3. Len(a) \in Nat /\ Len(first) <= Len(a) /\ \A i \in 1 .. Len(first) : a[i] = first[i]
      BY <1>2, <1>5, <2>2, <3>1
    <3>4. Len(c) \in Nat /\ Len(first) <= Len(c)
      BY <1>4, <3>2, <3>3 DEF Follows
    <3>5. \A i \in 1 .. Len(first) : i \in 1 .. Len(a)
      BY <1>4, <3>3
    <3>6. \A i \in 1 .. Len(first) : c[i] = first[i]
      BY <3>2, <3>3, <3>5 DEF Follows
    <3> QED
      BY <1>2, <3>1, <3>4, <3>6
  <2> QED
    BY <2>1, <2>2
<1>6. 0 \in Good
  OBVIOUS
<1>7. n \in Good
  <2> HIDE DEF Good
  <2> QED
    BY <1>1, <1>5, <1>6, CountUp
<1> QED
  BY <1>2, <1>4, <1>7

(* Of texts of two characters, each has its place.                         *)
LEMMA JoinOfPairs ==
  ASSUME NEW S, NEW seqs \in Seq(Seq(S)), NEW g, Joins(g, S, seqs), NEW n \in 0 .. Len(seqs),
         \A i \in 1 .. Len(seqs) : Len(seqs[i]) = 2
  PROVE  /\ Len(g[n]) = 2 * n
         /\ \A i \in 1 .. n : g[n][2 * i - 1] = seqs[i][1] /\ g[n][2 * i] = seqs[i][2]
<1> DEFINE Paired(k) == /\ Len(g[k]) = 2 * k
                        /\ \A i \in 1 .. k : g[k][2 * i - 1] = seqs[i][1] /\ g[k][2 * i] = seqs[i][2]
           Good == { k \in Nat : Paired(k) }
<1>1. Len(seqs) \in Nat
  BY LenProperties
<1>2. 0 \in Good
  BY EmptySeq DEF Joins
<1>3. ASSUME NEW k \in 0 .. Len(seqs) - 1, k \in Good PROVE k + 1 \in Good
  <2> DEFINE a == g[k]
             c == g[k + 1]
  <2>1. Len(a) = 2 * k /\ \A i \in 1 .. k : a[2 * i - 1] = seqs[i][1] /\ a[2 * i] = seqs[i][2]
    BY <1>3
  <2>2. Len(seqs[k + 1]) = 2
    BY <1>1
  <2>3. Follows(a, seqs[k + 1], c)
    BY JoinGoesOn
  <2> HIDE DEF a, c
  <2>4. /\ Len(c) = 2 * k + 2
        /\ \A i \in 1 .. 2 * k : c[i] = a[i]
        /\ \A i \in 1 .. 2 : c[2 * k + i] = seqs[k + 1][i]
    BY <2>1, <2>2, <2>3 DEF Follows
  <2>5. ASSUME NEW i \in 1 .. k + 1
        PROVE  c[2 * i - 1] = seqs[i][1] /\ c[2 * i] = seqs[i][2]
    <3>1. CASE i = k + 1
      <4>1. 2 * i - 1 = 2 * k + 1 /\ 2 * i = 2 * k + 2 /\ 1 \in 1 .. 2 /\ 2 \in 1 .. 2
        BY <3>1
      <4> QED
        BY <2>4, <3>1, <4>1
    <3>2. CASE i # k + 1
      <4>1. i \in 1 .. k /\ 2 * i - 1 \in 1 .. 2 * k /\ 2 * i \in 1 .. 2 * k
        BY <3>2
      <4> QED
        BY <2>1, <2>4, <4>1
    <3> QED
      BY <3>1, <3>2
  <2>6. Len(c) = 2 * (k + 1)
    BY <2>4
  <2> QED
    BY <2>5, <2>6 DEF c
<1>4. n \in Good
  <2> HIDE DEF Good
  <2> QED
    BY <1>1, <1>2, <1>3, CountUp
<1> QED
  BY <1>4

-----------------------------------------------------------------------------
(* A command as text, and what parsing it gives.                           *)
LEMMA SameTexts ==
  ASSUME NEW S, NEW s \in Seq(S), NEW t \in Seq(S), Len(s) = Len(t),
         \A i \in 1 .. Len(t) : s[i] = t[i]
  PROVE  s = t
<1>1. s = [i \in 1 .. Len(t) |-> s[i]] /\ t = [i \in 1 .. Len(t) |-> t[i]]
  BY LenProperties
<1> QED
  BY <1>1

LEMMA IsText ==
  ASSUME NEW S, NEW n \in Nat, NEW f \in [1 .. n -> S]
  PROVE  f \in Seq(S) /\ Len(f) = n /\ DOMAIN f = 1 .. n
OBVIOUS

LEMMA PartIs ==
  ASSUME NEW S, NEW t \in Seq(S), NEW b, NEW m \in Nat,
         \A i \in 1 .. Len(t) : b[m + i] = t[i]
  PROVE  SubSeq(b, m + 1, m + Len(t)) = t
<1>1. PICK w : w = Len(t)
  OBVIOUS
<1>2. w \in Nat /\ \A i \in 1 .. w : t[i] \in S /\ b[m + i] = t[i]
  BY <1>1, LenProperties, ElementOfSeq
<1>3. PICK lo, hi : lo = m + 1 /\ hi = m + w
  OBVIOUS
<1>4. lo \in Int /\ hi \in Int /\ hi - lo + 1 = w /\ (lo <= hi <=> 0 < w)
  BY <1>2, <1>3
<1>5. ASSUME NEW i \in lo .. hi PROVE b[i] \in S
  <2>1. i - m \in 1 .. w /\ m + (i - m) = i
    BY <1>2, <1>3
  <2> QED
    BY <1>2, <2>1
<1>6. PICK p : p = SubSeq(b, lo, hi)
  OBVIOUS
<1>7. /\ p \in Seq(S) /\ Len(p) = IF lo <= hi THEN hi - lo + 1 ELSE 0
      /\ \A i \in 1 .. hi - lo + 1 : p[i] = b[lo + i - 1]
  BY <1>4, <1>5, <1>6, SubSeqProperties
<1>8. Len(p) = w
  BY <1>2, <1>4, <1>7
<1>9. ASSUME NEW i \in 1 .. w PROVE p[i] = t[i]
  <2>1. i \in 1 .. hi - lo + 1 /\ lo + i - 1 = m + i
    BY <1>2, <1>3, <1>4
  <2> QED
    BY <1>2, <1>7, <2>1
<1>10. p = t
  BY <1>1, <1>7, <1>8, <1>9, SameTexts
<1> QED
  BY <1>1, <1>3, <1>6, <1>10

(* s begins with the digits of c, two, six and two for each byte.          *)
Spells(s, c) ==
  /\ \A i \in 1 .. 2 : s[i] = Numeral(c.id, 2)[i]
  /\ \A i \in 1 .. 6 : s[2 + i] = Numeral(Len(c.data), 6)[i]
  /\ \A i \in 1 .. Len(c.data) : /\ s[8 + 2 * i - 1] = Numeral(c.data[i], 2)[1]
                                 /\ s[8 + 2 * i] = Numeral(c.data[i], 2)[2]

LEMMA CommandsAreTyped ==
  ASSUME NEW c \in Cmds
  PROVE  /\ c.id \in 0 .. 255 /\ c.data \in Seq(0 .. 255)
         /\ Len(c.data) \in Nat /\ Len(c.data) < 16 ^ PAYLOAD_LENGTH_SIZE
         /\ \A i \in 1 .. Len(c.data) : c.data[i] \in 0 .. 255
<1>1. c.id \in 0 .. 255 /\ c.data \in Seq(0 .. 255) /\ Len(c.data) < 16 ^ PAYLOAD_LENGTH_SIZE
  BY WireAssumption
<1> QED
  BY <1>1, LenProperties, ElementOfSeq

LEMMA InlineSpells ==
  ASSUME NEW c \in Cmds
  PROVE  /\ inline_cmd(c) \in Seq(0 .. 15) /\ Len(inline_cmd(c)) = 8 + 2 * Len(c.data)
         /\ Spells(inline_cmd(c), c)
<1>1. PICK data, n : data = c.data /\ n = Len(c.data)
  OBVIOUS
<1>2. n \in Nat /\ data \in Seq(0 .. 255) /\ DOMAIN data = 1 .. n /\ n = Len(data)
      /\ \A i \in 1 .. n : data[i] \in 0 .. 255
  BY <1>1, CommandsAreTyped, LenProperties
<1>3. PICK seqs : seqs = [i \in DOMAIN data |-> Numeral(data[i], 2)]
  OBVIOUS
<1>4. \A i \in 1 .. n : /\ seqs[i] = Numeral(data[i], 2) /\ seqs[i] \in Seq(0 .. 15)
                        /\ Len(seqs[i]) = 2
  BY <1>2, <1>3, NumeralOfByte
<1>5. seqs \in Seq(Seq(0 .. 15)) /\ Len(seqs) = n
  <2>1. seqs = [i \in 1 .. n |-> seqs[i]]
    BY <1>2, <1>3
  <2> QED
    BY <1>2, <1>4, <2>1
<1>6. PICK g : Joins(g, 0 .. 15, seqs)
  BY <1>5, JoinExists
<1>7. PICK bytes : bytes = FlattenSeq(seqs)
  OBVIOUS
<1>8. /\ bytes \in Seq(0 .. 15) /\ Len(bytes) = 2 * n
      /\ \A i \in 1 .. n : bytes[2 * i - 1] = seqs[i][1] /\ bytes[2 * i] = seqs[i][2]
  <2>1. n \in 0 .. n /\ bytes = g[n]
    BY <1>2, <1>5, <1>6, <1>7, FlattenIsJoined
  <2>2. g[n] \in Seq(0 .. 15)
    BY <1>5, <1>6, <2>1 DEF Joins
  <2>3. /\ Len(g[n]) = 2 * n
        /\ \A i \in 1 .. n : g[n][2 * i - 1] = seqs[i][1] /\ g[n][2 * i] = seqs[i][2]
    BY <1>4, <1>5, <1>6, <2>1, JoinOfPairs, SMTT(30)
  <2> QED
    BY <2>1, <2>2, <2>3
<1>9. PICK a, b : a = Numeral(c.id, 2) /\ b = Numeral(n, 6)
  OBVIOUS
<1>10. a \in Seq(0 .. 15) /\ Len(a) = 2 /\ b \in Seq(0 .. 15) /\ Len(b) = 6
  BY <1>2, <1>9, CommandsAreTyped, NumeralOfByte, NumeralOfLength
<1>11. PICK ab, s : ab = a \o b /\ s = ab \o bytes
  OBVIOUS
<1>12. inline_cmd(c) = s
  BY <1>1, <1>3, <1>7, <1>9, <1>11 DEF inline_cmd, CMD_ID_SIZE, PAYLOAD_LENGTH_SIZE
<1>13. ab \in Seq(0 .. 15) /\ Follows(a, b, ab)
  BY <1>10, <1>11, ConcatFollows
<1>14. s \in Seq(0 .. 15) /\ Follows(ab, bytes, s)
  BY <1>8, <1>11, <1>13, ConcatFollows
<1>15. /\ Len(ab) = 8 /\ \A i \in 1 .. 2 : ab[i] = a[i]
       /\ \A i \in 1 .. 6 : ab[2 + i] = b[i]
  BY <1>10, <1>13 DEF Follows
<1>16. /\ Len(s) = 8 + 2 * n /\ \A i \in 1 .. 8 : s[i] = ab[i]
       /\ \A i \in 1 .. 2 * n : s[8 + i] = bytes[i]
  BY <1>8, <1>14, <1>15 DEF Follows
<1>17. \A i \in 1 .. 2 : s[i] = a[i]
  BY <1>15, <1>16
<1>18. ASSUME NEW i \in 1 .. 6 PROVE s[2 + i] = b[i]
  <2>1. 2 + i \in 1 .. 8
    OBVIOUS
  <2> QED
    BY <1>15, <1>16, <2>1
<1>19. ASSUME NEW i \in 1 .. n
       PROVE  s[8 + 2 * i - 1] = seqs[i][1] /\ s[8 + 2 * i] = seqs[i][2]
  <2>1. 2 * i - 1 \in 1 .. 2 * n /\ 2 * i \in 1 .. 2 * n /\ 8 + (2 * i - 1) = 8 + 2 * i - 1
    BY <1>2
  <2> QED
    BY <1>8, <1>16, <2>1
<1>20. Spells(s, c)
  BY <1>1, <1>4, <1>9, <1>17, <1>18, <1>19 DEF Spells
<1> QED
  BY <1>1, <1>12, <1>14, <1>16, <1>20

LEMMA MinOfTwo ==
  ASSUME NEW m \in Nat, NEW n \in Nat
  PROVE  Min({m, n}) \in {m, n} /\ Min({m, n}) <= m /\ Min({m, n}) <= n
<1>1. \E x \in {m, n} : \A y \in {m, n} : x <= y
  OBVIOUS
<1>2. PICK k : k = Min({m, n})
  OBVIOUS
<1>3. k \in {m, n} /\ \A y \in {m, n} : k <= y
  BY <1>1, <1>2 DEF Min
<1> QED
  BY <1>2, <1>3

LEMMA ByteIsRead ==
  ASSUME NEW d \in 0 .. 255, NEW b, NEW m \in Nat,
         \A i \in 1 .. 2 : b[m + i] = Numeral(d, 2)[i]
  PROVE  strtol(SubSeq(b, m + 1, m + 2), 16) = d
<1>1. PICK t : t = Numeral(d, 2)
  OBVIOUS
<1>2. t \in Seq(0 .. 15) /\ Len(t) = 2 /\ 16 * t[1] + t[2] = d
  BY <1>1, NumeralOfByte
<1>3. SubSeq(b, m + 1, m + Len(t)) = t
  <2>1. \A i \in 1 .. Len(t) : b[m + i] = t[i]
    BY <1>1, <1>2
  <2> QED
    BY <1>2, <2>1, PartIs
<1>4. strtol(t, 16) = d
  BY <1>2, StrtolOfTwo
<1> QED
  BY <1>2, <1>3, <1>4

LEMMA ParseIsMeant ==
  ASSUME NEW c \in Cmds, NEW b, Spells(b, c)
  PROVE  parse_cmd(b) = Meant(c)
<1>1. PICK data, len : data = c.data /\ len = Len(c.data)
  OBVIOUS
<1>2. /\ c.id \in 0 .. 255 /\ data \in Seq(0 .. 255) /\ len \in Nat /\ len = Len(data)
      /\ \A i \in 1 .. len : data[i] \in 0 .. 255
  BY <1>1, CommandsAreTyped
<1>3. strtol(SubSeq(b, 1, 2), 16) = c.id
  <2>1. \A i \in 1 .. 2 : b[0 + i] = Numeral(c.id, 2)[i]
    BY DEF Spells
  <2>2. strtol(SubSeq(b, 0 + 1, 0 + 2), 16) = c.id
    BY <1>2, <2>1, ByteIsRead
  <2> QED
    BY <2>2
<1>4. strtol(SubSeq(b, 3, 8), 16) = len
  <2>1. PICK t : t = Numeral(len, 6)
    OBVIOUS
  <2>2. t \in Seq(0 .. 15) /\ Len(t) = 6 /\ strtol(t, 16) = len
    BY <1>1, <1>2, <2>1, CommandsAreTyped, NumeralOfLength
  <2>3. \A i \in 1 .. Len(t) : b[2 + i] = t[i]
    BY <1>1, <2>1, <2>2 DEF Spells
  <2>4. SubSeq(b, 2 + 1, 2 + Len(t)) = t
    BY <2>2, <2>3, PartIs
  <2>5. 2 + 1 = 3 /\ 2 + Len(t) = 8
    BY <2>2
  <2> QED
    BY <2>2, <2>4, <2>5
<1>5. PICK n : n = Min({len, STRUCT_SIZE})
  OBVIOUS
<1>6. n \in Nat /\ n <= len /\ \A i \in 1 .. n : i \in 1 .. len /\ data[i] \in 0 .. 255
  <2>1. STRUCT_SIZE \in Nat
    BY WireAssumption
  <2>2. n \in {len, STRUCT_SIZE} /\ n <= len
    BY <1>2, <1>5, <2>1, MinOfTwo
  <2>3. len \in Nat /\ n \in Nat
    BY <1>2, <2>1, <2>2
  <2>4. \A i \in 1 .. n : i \in 1 .. len
    BY <2>2, <2>3
  <2> QED
    BY <1>2, <2>2, <2>3, <2>4
<1>7. ASSUME NEW i \in 1 .. n
      PROVE  strtol(SubSeq(b, 8 + 2 * i - 1, 8 + 2 * i), 16) = data[i]
  <2>1. i \in 1 .. len /\ data[i] \in 0 .. 255 /\ i \in Nat
    BY <1>6
  <2>2. PICK m : m = 8 + 2 * i - 2
    OBVIOUS
  <2>3. m \in Nat /\ m + 1 = 8 + 2 * i - 1 /\ m + 2 = 8 + 2 * i
    BY <1>6, <2>2
  <2>4. b[m + 1] = Numeral(data[i], 2)[1] /\ b[m + 2] = Numeral(data[i], 2)[2]
    BY <1>1, <2>1, <2>3 DEF Spells
  <2>5. \A j \in 1 .. 2 : b[m + j] = Numeral(data[i], 2)[j]
    <3>1. \A j \in 1 .. 2 : j = 1 \/ j = 2
      OBVIOUS
    <3> QED
      BY <2>4, <3>1
  <2>6. strtol(SubSeq(b, m + 1, m + 2), 16) = data[i]
    BY <2>1, <2>3, <2>5, ByteIsRead
  <2> QED
    BY <2>3, <2>6
<1>8. PICK t : t = [i \in 1 .. n |-> strtol(SubSeq(b, 8 + 2 * i - 1, 8 + 2 * i), 16)]
  OBVIOUS
<1>9. t = SubSeq(data, 1, n)
  <2>1. \A i \in 1 .. n : t[i] = data[i] /\ data[i] \in 0 .. 255
    <3>1. \A i \in 1 .. n : t[i] = strtol(SubSeq(b, 8 + 2 * i - 1, 8 + 2 * i), 16)
      BY <1>8
    <3> QED
      BY <1>6, <1>7, <3>1
  <2>2. t = [i \in 1 .. n |-> t[i]]
    BY <1>8
  <2>3. t \in Seq(0 .. 255) /\ Len(t) = n
    <3>1. t \in [1 .. n -> 0 .. 255]
      BY <2>1, <2>2
    <3> QED
      BY <1>6, <3>1, IsText
  <2>4. \A i \in 1 .. Len(t) : data[0 + i] = t[i]
    BY <2>1, <2>3
  <2>5. SubSeq(data, 0 + 1, 0 + Len(t)) = t
    BY <2>3, <2>4, PartIs
  <2> QED
    BY <1>6, <2>3, <2>5
<1>10. parse_cmd(b) = [id |-> strtol(SubSeq(b, 1, 2), 16), len |-> strtol(SubSeq(b, 3, 8), 16),
                       data |-> [i \in 1 .. Min({strtol(SubSeq(b, 3, 8), 16), STRUCT_SIZE}) |->
                                   strtol(SubSeq(b, 8 + 2 * i - 1, 8 + 2 * i), 16)]]
  <2>1. CMD_ID_SIZE = 2 /\ CMD_ID_SIZE + 1 = 3 /\ HEADER = 8
    BY DEF CMD_ID_SIZE, PAYLOAD_LENGTH_SIZE, HEADER
  <2> QED
    BY <2>1 DEF parse_cmd, Parsed
<1>11. parse_cmd(b) = [id |-> c.id, len |-> len, data |-> t]
  BY <1>3, <1>4, <1>5, <1>8, <1>10
<1> QED
  BY <1>1, <1>5, <1>9, <1>11 DEF Meant

-----------------------------------------------------------------------------
(* What is sent: a line for each command.                                  *)
Line(c) == write_to_socket(inline_cmd(c))

Lines(cs) == [i \in DOMAIN cs |-> Line(cs[i])]

LEMMA LineIs ==
  ASSUME NEW c \in Cmds
  PROVE  /\ Line(c) \in Seq(0 .. LF) /\ Len(inline_cmd(c)) \in Nat
         /\ Len(Line(c)) = Len(inline_cmd(c)) + 2
         /\ \A i \in 1 .. Len(inline_cmd(c)) : Line(c)[i] = inline_cmd(c)[i]
         /\ Line(c)[Len(inline_cmd(c)) + 1] = CR /\ Line(c)[Len(inline_cmd(c)) + 2] = LF
<1>1. PICK s, l : s = inline_cmd(c) /\ l = Line(c)
  OBVIOUS
<1>2. s \in Seq(0 .. LF) /\ Len(s) \in Nat
  <2>1. s \in Seq(0 .. 15)
    BY <1>1, InlineSpells
  <2>2. \A i \in 1 .. Len(s) : s[i] \in 0 .. LF
    BY <2>1, ElementOfSeq DEF LF
  <2>3. Len(s) \in Nat /\ s \in [1 .. Len(s) -> 0 .. LF]
    BY <2>1, <2>2, LenProperties
  <2> QED
    BY <2>3, IsText
<1>3. CRLF \in Seq(0 .. LF) /\ Len(CRLF) = 2 /\ CRLF[1] = CR /\ CRLF[2] = LF
  BY DEF CRLF, CR, LF
<1>4. l \in Seq(0 .. LF) /\ Follows(s, CRLF, l)
  BY <1>1, <1>2, <1>3, ConcatFollows DEF Line, write_to_socket
<1>5. 1 \in 1 .. Len(CRLF) /\ 2 \in 1 .. Len(CRLF)
  BY <1>3
<1> QED
  BY <1>1, <1>2, <1>3, <1>4, <1>5 DEF Follows

LEMMA LinesAre ==
  ASSUME NEW cs \in Seq(Cmds)
  PROVE  /\ Lines(cs) \in Seq(Seq(0 .. LF)) /\ Len(Lines(cs)) = Len(cs) /\ Len(cs) \in Nat
         /\ \A i \in 1 .. Len(cs) : cs[i] \in Cmds /\ Lines(cs)[i] = Line(cs[i])
<1>1. Len(cs) \in Nat /\ DOMAIN cs = 1 .. Len(cs) /\ \A i \in 1 .. Len(cs) : cs[i] \in Cmds
  BY LenProperties, ElementOfSeq
<1>2. Lines(cs) \in [1 .. Len(cs) -> Seq(0 .. LF)]
  BY <1>1, LineIs DEF Lines
<1>3. Lines(cs) \in Seq(Seq(0 .. LF)) /\ Len(Lines(cs)) = Len(cs)
  BY <1>1, <1>2, IsText
<1> QED
  BY <1>1, <1>3 DEF Lines

LEMMA StartIs ==
  ASSUME NEW S, NEW s \in Seq(S), NEW n \in 0 .. Len(s)
  PROVE  /\ SubSeq(s, 1, n) \in Seq(S) /\ Len(SubSeq(s, 1, n)) = n
         /\ \A i \in 1 .. n : SubSeq(s, 1, n)[i] = s[i]
<1>1. Len(s) \in Nat /\ \A i \in 1 .. Len(s) : s[i] \in S
  BY LenProperties, ElementOfSeq
<1>2. PICK t : t = [i \in 1 .. n |-> s[i]]
  OBVIOUS
<1>3. t \in [1 .. n -> S] /\ \A i \in 1 .. n : t[i] = s[i]
  BY <1>1, <1>2
<1>4. n \in Nat /\ t \in Seq(S) /\ Len(t) = n
  BY <1>1, <1>3, IsText
<1>5. \A i \in 1 .. Len(t) : s[0 + i] = t[i]
  BY <1>3, <1>4
<1>6. SubSeq(s, 0 + 1, 0 + Len(t)) = t
  BY <1>4, <1>5, PartIs
<1> QED
  BY <1>3, <1>4, <1>6

LEMMA TextIsJoined ==
  ASSUME NEW cs \in Seq(Cmds), NEW g, Joins(g, 0 .. LF, Lines(cs)), NEW n \in 0 .. Len(cs)
  PROVE  Text(SubSeq(cs, 1, n)) = g[n] /\ g[n] \in Seq(0 .. LF)
<1>1. PICK t, l : t = SubSeq(cs, 1, n) /\ l = Lines(cs)
  OBVIOUS
<1>2. t \in Seq(Cmds) /\ Len(t) = n /\ \A i \in 1 .. n : t[i] = cs[i]
  BY <1>1, StartIs
<1>3. l \in Seq(Seq(0 .. LF)) /\ Len(l) = Len(cs) /\ Len(cs) \in Nat
      /\ \A i \in 1 .. Len(cs) : l[i] = Line(cs[i])
  BY <1>1, LinesAre
<1>4. Lines(t) = SubSeq(l, 1, n)
  <2>1. /\ SubSeq(l, 1, n) \in Seq(Seq(0 .. LF)) /\ Len(SubSeq(l, 1, n)) = n
        /\ \A i \in 1 .. n : SubSeq(l, 1, n)[i] = l[i]
    BY <1>3, StartIs
  <2>2. /\ Lines(t) \in Seq(Seq(0 .. LF)) /\ Len(Lines(t)) = n
        /\ \A i \in 1 .. n : Lines(t)[i] = Line(t[i])
    BY <1>2, LinesAre
  <2>3. \A i \in 1 .. n : Lines(t)[i] = SubSeq(l, 1, n)[i]
    BY <1>2, <1>3, <2>1, <2>2
  <2> QED
    BY <2>1, <2>2, <2>3, SameTexts
<1>5. Text(t) = FlattenSeq(Lines(t))
  BY DEF Text, Lines, Line
<1>6. FlattenSeq(SubSeq(l, 1, n)) = g[n]
  BY <1>1, <1>3, StartIsJoined
<1> QED
  BY <1>1, <1>3, <1>4, <1>5, <1>6 DEF Joins

LEMMA AllIsTheStart ==
  ASSUME NEW S, NEW s \in Seq(S)
  PROVE  SubSeq(s, 1, Len(s)) = s
<1>1. Len(s) \in Nat /\ Len(s) \in 0 .. Len(s)
  BY LenProperties
<1> QED
  BY <1>1, StartIs, SameTexts

LEMMA MaxExists ==
  ASSUME NEW N \in Nat, NEW S, S \subseteq 0 .. N, 0 \in S
  PROVE  Max(S) \in S /\ \A y \in S : y <= Max(S)
<1> DEFINE T == { N - x : x \in S }
<1>1. T \subseteq Nat /\ T # {}
  OBVIOUS
<1>2. PICK t \in T : \A u \in T : t <= u
  <2> HIDE DEF T
  <2> QED
    BY <1>1, LeastExists
<1>3. PICK x \in S : t = N - x
  OBVIOUS
<1>4. \A y \in S : x >= y
  <2>1. ASSUME NEW y \in S PROVE x >= y
    <3>1. N - y \in T
      OBVIOUS
    <3>2. N - x <= N - y /\ x \in 0 .. N /\ y \in 0 .. N
      BY <1>2, <1>3, <3>1
    <3> QED
      BY <3>2
  <2> QED
    BY <2>1
<1>5. PICK m : m = Max(S)
  OBVIOUS
<1>6. m \in S /\ \A y \in S : m >= y
  BY <1>4, <1>5 DEF Max
<1> QED
  BY <1>5, <1>6

-----------------------------------------------------------------------------
(* A read takes n characters of what was sent: k commands to their ends,   *)
(* and part of the next; g[k] is the text of the first k.                  *)
Reading(n, g, k) ==
  /\ Joins(g, 0 .. LF, Lines(pending))
  /\ k \in 0 .. Len(pending)
  /\ Len(g[k]) <= offset + n
  /\ k < Len(pending) => offset + n < Len(g[k + 1])
  /\ offset + n <= Len(g[Len(pending)])
  /\ pending' = SubSeq(pending, k + 1, Len(pending))
  /\ offset' = offset + n - Len(g[k])
  /\ buffer' \in [1 .. BUF_SIZE -> 0 .. NUL]
  /\ \A i \in 1 .. n : buffer'[i] = g[Len(pending)][offset + i]
  /\ buffer'[n + 1] = NUL
  /\ sent' = sent

Recording(ok, k) ==
  IF ok
  THEN /\ file' = write_cmd(file, buffer')
       /\ records' = Append(records, [cmd |-> parse_cmd(buffer'),
                                      clean |-> offset = 0 /\ k = 1 /\ offset' = 0])
  ELSE UNCHANGED << file, records >>

LEMMA ReadIs ==
  ASSUME WireTypeOK, NEW n \in 1 .. Room, NEW ok \in BOOLEAN, Read(n, ok)
  PROVE  \E g, k : Reading(n, g, k) /\ Recording(ok, k)
<1>1. /\ pending \in Seq(Cmds) /\ offset \in Nat /\ buffer \in [1 .. BUF_SIZE -> 0 .. NUL]
      /\ Len(pending) \in Nat /\ BUF_SIZE \in Nat /\ n \in Nat /\ n + 1 \in 1 .. BUF_SIZE
  <2>1. pending \in Seq(Cmds) /\ buffer \in [1 .. BUF_SIZE -> 0 .. NUL]
    BY DEF WireTypeOK
  <2>2. offset \in Nat
    BY DEF WireTypeOK
  <2> QED
    BY <2>1, <2>2, WireAssumption, LenProperties DEF Room
<1>2. PICK g : Joins(g, 0 .. LF, Lines(pending))
  BY <1>1, LinesAre, JoinExists
<1>3. \A j \in 0 .. Len(pending) : /\ Text(SubSeq(pending, 1, j)) = g[j]
                                   /\ g[j] \in Seq(0 .. LF) /\ Len(g[j]) \in Nat
  BY <1>1, <1>2, TextIsJoined, LenProperties
<1>4. PICK all : all = g[Len(pending)]
  OBVIOUS
<1>5. Text(pending) = all /\ all \in Seq(0 .. LF) /\ Len(all) \in Nat
  <2>1. Len(pending) \in 0 .. Len(pending) /\ SubSeq(pending, 1, Len(pending)) = pending
    BY <1>1, AllIsTheStart
  <2> QED
    BY <1>3, <1>4, <2>1
<1>6. PICK stream : stream = Stream
  OBVIOUS
<1>7. /\ stream = SubSeq(all, offset + 1, Len(all))
  BY <1>5, <1>6 DEF Stream
<1>8. /\ stream \in Seq(0 .. LF) /\ Len(stream) = IF offset + 1 <= Len(all) THEN Len(all) - offset ELSE 0
      /\ \A i \in 1 .. Len(all) - offset : stream[i] = all[offset + i]
  <2>1. PICK lo, hi : lo = offset + 1 /\ hi = Len(all)
    OBVIOUS
  <2>2. lo \in Int /\ hi \in Int /\ hi - lo + 1 = Len(all) - offset
    BY <1>1, <1>5, <2>1
  <2>3. \A i \in lo .. hi : all[i] \in 0 .. LF
    <3>1. \A i \in lo .. hi : i \in 1 .. Len(all)
      BY <1>1, <1>5, <2>1
    <3>2. \A i \in 1 .. Len(all) : all[i] \in 0 .. LF
      BY <1>5, ElementOfSeq
    <3> QED
      BY <3>1, <3>2
  <2>4. /\ stream \in Seq(0 .. LF) /\ Len(stream) = IF lo <= hi THEN hi - lo + 1 ELSE 0
        /\ \A i \in 1 .. hi - lo + 1 : stream[i] = all[lo + i - 1]
    BY <1>7, <2>1, <2>2, <2>3, SubSeqProperties
  <2>5. \A i \in 1 .. Len(all) - offset : lo + i - 1 = offset + i
    BY <1>1, <1>5, <2>1
  <2> QED
    BY <2>1, <2>2, <2>4, <2>5
<1>9. n <= Len(stream)
  <2>1. n = Min({Len(stream), Room}) \/ n < Len(stream)
    BY <1>6 DEF Read
  <2>2. Len(stream) \in Nat /\ Room \in Nat
    BY <1>1, <1>8, WireAssumption, LenProperties DEF Room, HEADER, CMD_ID_SIZE, PAYLOAD_LENGTH_SIZE
  <2>3. Min({Len(stream), Room}) <= Len(stream)
    BY <2>2, MinOfTwo
  <2> QED
    BY <1>1, <2>1, <2>2, <2>3
<1>10. offset + n <= Len(all) /\ \A i \in 1 .. n : stream[i] = all[offset + i] /\ stream[i] \in 0 .. LF
  <2>1. offset + 1 <= Len(all) /\ n <= Len(all) - offset
    BY <1>1, <1>5, <1>8, <1>9
  <2>2. \A i \in 1 .. n : i \in 1 .. Len(all) - offset /\ i \in 1 .. Len(stream)
    BY <1>1, <1>5, <1>8, <1>9, <2>1
  <2>3. \A i \in 1 .. Len(stream) : stream[i] \in 0 .. LF
    BY <1>8, ElementOfSeq
  <2> QED
    BY <1>1, <1>5, <1>8, <2>1, <2>2, <2>3
<1>11. PICK S : S = { j \in 0 .. Len(pending) : Len(Text(SubSeq(pending, 1, j))) <= offset + n }
  OBVIOUS
<1>12. PICK k : k = Max(S)
  OBVIOUS
<1>13. k \in S /\ \A j \in S : j <= k
  <2>1. 0 \in S
    <3>1. 0 \in 0 .. Len(pending) /\ Len(g[0]) = 0
      BY <1>1, <1>2, EmptySeq DEF Joins
    <3> QED
      BY <1>1, <1>3, <1>11, <3>1
  <2> QED
    BY <1>1, <1>11, <1>12, <2>1, MaxExists
<1>14. k \in 0 .. Len(pending) /\ Len(g[k]) <= offset + n
  BY <1>3, <1>11, <1>13
<1>15. ASSUME k < Len(pending) PROVE offset + n < Len(g[k + 1])
  <2>1. k + 1 \in 0 .. Len(pending) /\ ~(k + 1 <= k)
    BY <1>1, <1>14, <1>15
  <2>2. k + 1 \notin S /\ Len(g[k + 1]) \in Nat
    BY <1>3, <1>13, <2>1
  <2>3. ~(Len(g[k + 1]) <= offset + n)
    BY <1>3, <1>11, <2>1, <2>2
  <2> QED
    BY <1>1, <2>2, <2>3
<1>16. buffer' = [i \in 1 .. BUF_SIZE |->
                    IF i <= n THEN stream[i] ELSE IF i = n + 1 THEN NUL ELSE buffer[i]]
  BY <1>6 DEF Read
<1>17. /\ buffer' \in [1 .. BUF_SIZE -> 0 .. NUL]
       /\ \A i \in 1 .. n : buffer'[i] = all[offset + i]
       /\ buffer'[n + 1] = NUL
  <2>1. ASSUME NEW i \in 1 .. BUF_SIZE
        PROVE  (IF i <= n THEN stream[i] ELSE IF i = n + 1 THEN NUL ELSE buffer[i]) \in 0 .. NUL
    <3>1. i <= n => stream[i] \in 0 .. LF
      BY <1>1, <1>10
    <3> QED
      BY <1>1, <3>1 DEF NUL, LF
  <2>2. buffer' \in [1 .. BUF_SIZE -> 0 .. NUL]
    BY <1>16, <2>1
  <2>3. \A i \in 1 .. n : i \in 1 .. BUF_SIZE /\ i <= n
    BY <1>1
  <2>4. \A i \in 1 .. n : buffer'[i] = stream[i]
    BY <1>16, <2>3
  <2>5. buffer'[n + 1] = NUL
    BY <1>1, <1>16
  <2> QED
    BY <1>10, <2>2, <2>4, <2>5
<1>18. /\ pending' = SubSeq(pending, k + 1, Len(pending))
       /\ offset' = offset + n - Len(Text(SubSeq(pending, 1, k)))
       /\ sent' = sent /\ Recording(ok, k)
  BY <1>11, <1>12 DEF Read, Recording
<1>19. offset' = offset + n - Len(g[k])
  BY <1>3, <1>14, <1>18
<1>20. Reading(n, g, k)
  BY <1>2, <1>4, <1>10, <1>14, <1>15, <1>17, <1>18, <1>19 DEF Reading
<1> QED
  BY <1>18, <1>20

-----------------------------------------------------------------------------
(* Types.                                                                  *)
LEMMA FirstLineIs ==
  ASSUME NEW cs \in Seq(Cmds), cs # << >>
  PROVE  /\ cs[1] \in Cmds /\ Len(cs) \in Nat \ {0}
         /\ Len(Text(SubSeq(cs, 1, 1))) = Len(Line(cs[1]))
         /\ Len(Line(cs[1])) \in Nat \ {0}
<1>1. Len(cs) \in Nat \ {0} /\ 1 \in 1 .. Len(cs) /\ 1 \in 0 .. Len(cs)
  BY EmptySeq
<1>2. PICK l : l = Lines(cs)
  OBVIOUS
<1>3. l \in Seq(Seq(0 .. LF)) /\ Len(l) = Len(cs) /\ cs[1] \in Cmds /\ l[1] = Line(cs[1])
  BY <1>1, <1>2, LinesAre
<1>4. PICK g : Joins(g, 0 .. LF, l)
  BY <1>3, JoinExists
<1>5. Text(SubSeq(cs, 1, 1)) = g[1]
  BY <1>1, <1>2, <1>4, TextIsJoined
<1>6. Len(g[1]) = Len(l[1])
  BY <1>1, <1>3, <1>4, JoinBegins
<1>7. Len(Line(cs[1])) \in Nat \ {0}
  <2>1. Len(inline_cmd(cs[1])) \in Nat /\ Len(Line(cs[1])) = Len(inline_cmd(cs[1])) + 2
    BY <1>3, LineIs
  <2> QED
    BY <2>1
<1> QED
  BY <1>1, <1>3, <1>5, <1>6, <1>7

LEMMA StringIs ==
  ASSUME NEW b \in [1 .. BUF_SIZE -> 0 .. NUL]
  PROVE  String(b) \in Seq(0 .. NUL - 1)
<1>1. BUF_SIZE \in Nat /\ b \in Seq(0 .. NUL) /\ Len(b) = BUF_SIZE
  BY WireAssumption, IsText
<1>2. PICK n : n = Run(b, 0 .. NUL - 1)
  OBVIOUS
<1>3. n \in 0 .. Len(b) /\ \A i \in 1 .. n : b[i] \in 0 .. NUL - 1
  BY <1>1, <1>2, RunEnds
<1>4. 1 \in Int /\ n \in Int
  BY <1>1, <1>3
<1>5. SubSeq(b, 1, n) \in Seq(0 .. NUL - 1)
  BY <1>3, <1>4, SubSeqProperties
<1> QED
  BY <1>2, <1>5 DEF String

LEMMA Reassociates ==
  ASSUME NEW S, NEW a \in Seq(S), NEW b \in Seq(S), NEW c \in Seq(S)
  PROVE  (a \o b) \o c = a \o (b \o c)
BY ConcatAssociative

Record(s) == (<< CLIENT_ID, LF >> \o s) \o << LF >>

LEMMA RecordIsWritten ==
  ASSUME NEW text \in Seq(0 .. NUL - 1), NEW b \in [1 .. BUF_SIZE -> 0 .. NUL]
  PROVE  /\ write_cmd(text, b) = text \o Record(String(b))
         /\ Record(String(b)) \in Seq(0 .. NUL - 1)
         /\ write_cmd(text, b) \in Seq(0 .. NUL - 1)
<1>1. PICK s, a, e : s = String(b) /\ a = << CLIENT_ID, LF >> /\ e = << LF >>
  OBVIOUS
<1>2. s \in Seq(0 .. NUL - 1) /\ a \in Seq(0 .. NUL - 1) /\ e \in Seq(0 .. NUL - 1)
  <2>1. CLIENT_ID \in 0 .. NUL - 1 /\ LF \in 0 .. NUL - 1
    BY WireAssumption DEF NUL, LF
  <2> QED
    BY <1>1, <2>1, StringIs
<1>3. write_cmd(text, b) = ((text \o a) \o s) \o e
  BY <1>1 DEF write_cmd
<1>4. /\ a \o s \in Seq(0 .. NUL - 1) /\ (a \o s) \o e \in Seq(0 .. NUL - 1)
      /\ text \o ((a \o s) \o e) \in Seq(0 .. NUL - 1)
  BY <1>2, ConcatProperties
<1>5. ((text \o a) \o s) \o e = text \o ((a \o s) \o e)
  <2>1. (text \o a) \o s = text \o (a \o s)
    BY <1>2, Reassociates
  <2>2. (text \o (a \o s)) \o e = text \o ((a \o s) \o e)
    BY <1>2, <1>4, Reassociates, SMTT(30)
  <2> QED
    BY <2>1, <2>2
<1> QED
  BY <1>1, <1>3, <1>4, <1>5 DEF Record

LEMMA InitTypes == Init => WireTypeOK
<1> SUFFICES ASSUME Init PROVE WireTypeOK
  OBVIOUS
<1>1. BUF_SIZE \in Nat /\ MaxSent \in Nat
  BY WireAssumption
<1>2. << >> \in Seq(Cmds) /\ Len(<< >>) = 0 /\ << >> \in Seq(0 .. NUL - 1)
  BY EmptySeq
<1>3. buffer \in [1 .. BUF_SIZE -> 0 .. NUL]
  BY DEF Init, NUL
<1> QED
  BY <1>1, <1>2, <1>3 DEF Init, WireTypeOK

LEMMA SendKeepsTypes ==
  ASSUME WireTypeOK, NEW c \in Cmds, send_cmd_to(c)
  PROVE  WireTypeOK'
<1>1. /\ sent < MaxSent /\ sent' = sent + 1 /\ pending' = Append(pending, c)
      /\ UNCHANGED << offset, buffer, file, records >>
  BY DEF send_cmd_to
<1>2. /\ sent \in 0 .. MaxSent /\ MaxSent \in Nat /\ pending \in Seq(Cmds)
      /\ Len(pending) \in Nat /\ Len(pending) <= sent
  BY WireAssumption, LenProperties DEF WireTypeOK
<1>3. /\ pending' \in Seq(Cmds) /\ pending' # << >> /\ Len(pending') = Len(pending) + 1
      /\ \A i \in 1 .. Len(pending) : pending'[i] = pending[i]
  BY <1>1, <1>2, AppendProperties
<1>4. PICK most : most = Len(Text(SubSeq(pending', 1, 1))) - 1
  OBVIOUS
<1>5. most \in Nat
  <2>1. Len(Text(SubSeq(pending', 1, 1))) \in Nat \ {0}
    BY <1>3, FirstLineIs
  <2> QED
    BY <1>4, <2>1
<1>6. offset \in 0 .. most
  <2>1. CASE pending = << >>
    BY <1>5, <2>1 DEF WireTypeOK
  <2>2. CASE pending # << >>
    <3>1. /\ Len(Text(SubSeq(pending, 1, 1))) = Len(Line(pending[1])) /\ Len(pending) \in Nat \ {0}
      BY <1>2, <2>2, FirstLineIs
    <3>2. Len(Text(SubSeq(pending', 1, 1))) = Len(Line(pending'[1]))
      BY <1>3, FirstLineIs
    <3>3. pending'[1] = pending[1]
      BY <1>3, <3>1
    <3> QED
      BY <1>4, <2>2, <3>1, <3>2, <3>3 DEF WireTypeOK
  <2> QED
    BY <2>1, <2>2
<1>7. offset' > 0 \/ Len(pending') < sent' => \E i \in 1 .. BUF_SIZE : buffer'[i] = NUL
  <2>1. Len(pending') < sent' => Len(pending) < sent
    BY <1>1, <1>2, <1>3
  <2> QED
    BY <1>1, <2>1 DEF WireTypeOK
<1>8. sent' \in 0 .. MaxSent /\ Len(pending') <= sent'
  BY <1>1, <1>2, <1>3
<1>9. offset' \in 0 .. IF pending' = << >> THEN 0 ELSE Len(Text(SubSeq(pending', 1, 1))) - 1
  BY <1>1, <1>3, <1>4, <1>6
<1>10. buffer' \in [1 .. BUF_SIZE -> 0 .. NUL] /\ file' \in Seq(0 .. NUL - 1)
  BY <1>1 DEF WireTypeOK
<1> QED
  BY <1>3, <1>7, <1>8, <1>9, <1>10 DEF WireTypeOK, Text, write_to_socket

LEMMA AfterReading ==
  ASSUME WireTypeOK, NEW n \in 1 .. Room, NEW g, NEW k, Reading(n, g, k)
  PROVE  /\ pending' \in Seq(Cmds) /\ Len(pending') = Len(pending) - k
         /\ offset' \in 0 .. IF pending' = << >> THEN 0 ELSE Len(Text(SubSeq(pending', 1, 1))) - 1
<1>1. PICK cs, N : cs = pending /\ N = Len(pending)
  OBVIOUS
<1>2. /\ cs \in Seq(Cmds) /\ N = Len(cs) /\ N \in Nat /\ offset \in Nat /\ n \in Nat
      /\ k \in 0 .. N /\ \A i \in 1 .. N : cs[i] \in Cmds
  <2>1. offset \in Nat /\ cs \in Seq(Cmds)
    BY <1>1 DEF WireTypeOK
  <2>2. n \in Nat
    BY WireAssumption DEF Room
  <2>3. k \in 0 .. N
    BY <1>1 DEF Reading
  <2> QED
    BY <1>1, <2>1, <2>2, <2>3, LenProperties, ElementOfSeq
<1>3. PICK after : after = pending'
  OBVIOUS
<1>4. /\ after \in Seq(Cmds) /\ Len(after) = N - k
      /\ k < N => after[1] = cs[k + 1]
  <2>1. PICK lo : lo = k + 1
    OBVIOUS
  <2>2. lo \in Int /\ N \in Int /\ N - lo + 1 = N - k /\ (lo <= N <=> k < N)
        /\ \A i \in lo .. N : cs[i] \in Cmds
    BY <1>2, <2>1
  <2>3. after = SubSeq(cs, lo, N)
    BY <1>1, <1>3, <2>1 DEF Reading
  <2>4. /\ after \in Seq(Cmds) /\ Len(after) = IF lo <= N THEN N - lo + 1 ELSE 0
        /\ \A i \in 1 .. N - lo + 1 : after[i] = cs[lo + i - 1]
    BY <2>2, <2>3, SubSeqProperties
  <2>5. k < N => 1 \in 1 .. N - lo + 1 /\ lo + 1 - 1 = k + 1
    BY <1>2, <2>1
  <2> QED
    BY <1>2, <2>2, <2>4, <2>5
<1>5. PICK l : l = Lines(cs)
  OBVIOUS
<1>6. /\ l \in Seq(Seq(0 .. LF)) /\ Len(l) = N
      /\ \A i \in 1 .. N : l[i] = Line(cs[i])
  BY <1>2, <1>5, LinesAre
<1>7. /\ Joins(g, 0 .. LF, l)
      /\ Len(g[k]) <= offset + n /\ (k < N => offset + n < Len(g[k + 1]))
      /\ offset + n <= Len(g[N]) /\ offset' = offset + n - Len(g[k])
  BY <1>1, <1>5 DEF Reading
<1>8. \A j \in 0 .. N : Len(g[j]) \in Nat
  <2>1. \A j \in 0 .. N : g[j] \in Seq(0 .. LF)
    BY <1>6, <1>7 DEF Joins
  <2> QED
    BY <2>1, LenProperties
<1>9. CASE k = N
  <2>1. offset' = 0 /\ after = << >>
    <3>1. Len(after) = 0
      BY <1>2, <1>4, <1>9
    <3>2. Len(g[k]) \in Nat
      BY <1>2, <1>8
    <3> QED
      BY <1>2, <1>4, <1>7, <1>9, <3>1, <3>2, EmptySeq
  <2> QED
    BY <1>1, <1>3, <1>4, <2>1
<1>10. CASE k # N
  <2>1. k < N /\ k \in 0 .. Len(l) - 1 /\ k + 1 \in 1 .. N /\ k + 1 \in 0 .. N
    BY <1>2, <1>6, <1>10
  <2>2. Len(g[k + 1]) = Len(g[k]) + Len(l[k + 1])
    <3>1. Joins(g, 0 .. LF, l) /\ l \in Seq(Seq(0 .. LF)) /\ k \in 0 .. Len(l) - 1
      BY <1>6, <1>7, <2>1
    <3>2. Follows(g[k], l[k + 1], g[k + 1])
      BY <3>1, JoinGoesOn
    <3> QED
      BY <3>2 DEF Follows
  <2>3. after # << >> /\ after[1] = cs[k + 1]
    <3>1. Len(after) # 0
      BY <1>2, <1>4, <2>1
    <3> QED
      BY <1>4, <2>1, <3>1, EmptySeq
  <2>4. PICK most : most = Len(Text(SubSeq(after, 1, 1)))
    OBVIOUS
  <2>5. most = Len(l[k + 1]) /\ most \in Nat
    BY <1>4, <1>6, <2>1, <2>3, <2>4, FirstLineIs
  <2>6. offset' \in 0 .. most - 1
    <3>1. PICK a, b : a = Len(g[k]) /\ b = Len(g[k + 1])
      OBVIOUS
    <3>2. a \in Nat /\ b \in Nat
      BY <1>2, <1>8, <2>1, <3>1
    <3>3. a <= offset + n /\ offset + n < b /\ b = a + most /\ offset' = offset + n - a
      BY <1>7, <2>1, <2>2, <2>5, <3>1
    <3> QED
      BY <1>2, <2>5, <3>2, <3>3
  <2> QED
    BY <1>1, <1>3, <1>4, <2>3, <2>4, <2>6
<1> QED
  BY <1>9, <1>10

LEMMA ReadKeepsTypes ==
  ASSUME WireTypeOK, NEW n \in 1 .. Room, NEW ok \in BOOLEAN, Read(n, ok)
  PROVE  WireTypeOK'
<1>1. PICK g, k : Reading(n, g, k) /\ Recording(ok, k)
  BY ReadIs
<1>2. /\ pending' \in Seq(Cmds) /\ Len(pending') = Len(pending) - k
      /\ offset' \in 0 .. IF pending' = << >> THEN 0 ELSE Len(Text(SubSeq(pending', 1, 1))) - 1
  BY <1>1, AfterReading
<1>3. /\ k \in 0 .. Len(pending) /\ sent' = sent /\ buffer' \in [1 .. BUF_SIZE -> 0 .. NUL]
      /\ buffer'[n + 1] = NUL
  BY <1>1 DEF Reading
<1>4. /\ sent \in 0 .. MaxSent /\ MaxSent \in Nat /\ pending \in Seq(Cmds)
      /\ Len(pending) \in Nat /\ Len(pending) <= sent
  BY WireAssumption, LenProperties DEF WireTypeOK
<1>5. sent' \in 0 .. MaxSent /\ Len(pending') <= sent'
  BY <1>2, <1>3, <1>4
<1>6. \E i \in 1 .. BUF_SIZE : buffer'[i] = NUL
  <2>1. n + 1 \in 1 .. BUF_SIZE
    BY WireAssumption DEF Room
  <2> QED
    BY <1>3, <2>1
<1>7. file' \in Seq(0 .. NUL - 1)
  <2>1. CASE ok
    <3>1. file' = write_cmd(file, buffer')
      BY <1>1, <2>1 DEF Recording
    <3> QED
      BY <1>3, <3>1, RecordIsWritten DEF WireTypeOK
  <2>2. CASE ~ok
    BY <1>1, <2>2 DEF Recording, WireTypeOK
  <2> QED
    BY <2>1, <2>2
<1> QED
  BY <1>2, <1>3, <1>5, <1>6, <1>7 DEF WireTypeOK, Text, write_to_socket

(* What is read is a string in the buffer, whole; what is still to be read *)
(* of a command is some of it; and the database is text, whatever is       *)
(* recorded there (socket.c:15-37, persistor.c:34-44).                     *)
THEOREM WireTypeCorrect == Spec => []WireTypeOK
<1>1. Init => WireTypeOK
  BY InitTypes
<1>2. WireTypeOK /\ [Next]_vars => WireTypeOK'
  <2> SUFFICES ASSUME WireTypeOK, [Next]_vars PROVE WireTypeOK'
    OBVIOUS
  <2>1. CASE \E c \in Cmds : send_cmd_to(c)
    BY <2>1, SendKeepsTypes
  <2>2. CASE \E n \in 1 .. Room : \E ok \in BOOLEAN : Read(n, ok)
    BY <2>2, ReadKeepsTypes
  <2>3. CASE UNCHANGED vars
    BY <2>3 DEF vars, WireTypeOK, Text, write_to_socket
  <2> QED
    BY <2>1, <2>2, <2>3 DEF Next
<1> QED
  BY <1>1, <1>2, PTL DEF Spec

-----------------------------------------------------------------------------
(* The command at the start of the buffer.                                 *)
LEMMA WholeLineIsInBuffer ==
  ASSUME WireTypeOK, NEW n \in 1 .. Room, NEW g, NEW k, Reading(n, g, k), offset = 0, k # 0
  PROVE  /\ pending[1] \in Cmds /\ Len(Line(pending[1])) <= n
         /\ \A i \in 1 .. Len(Line(pending[1])) : buffer'[i] = Line(pending[1])[i]
<1>1. PICK cs, N : cs = pending /\ N = Len(pending)
  OBVIOUS
<1>2. /\ cs \in Seq(Cmds) /\ N = Len(cs) /\ N \in Nat /\ n \in Nat
      /\ k \in 1 .. N /\ 1 \in 1 .. N /\ N \in 1 .. N /\ cs[1] \in Cmds
  <2>1. cs \in Seq(Cmds)
    BY <1>1 DEF WireTypeOK
  <2>2. n \in Nat
    BY WireAssumption DEF Room
  <2>3. k \in 0 .. N
    BY <1>1 DEF Reading
  <2> QED
    BY <1>1, <2>1, <2>2, <2>3, LenProperties, ElementOfSeq
<1>3. PICK l : l = Lines(cs)
  OBVIOUS
<1>4. /\ l \in Seq(Seq(0 .. LF)) /\ Len(l) = N /\ l[1] = Line(cs[1])
  BY <1>2, <1>3, LinesAre
<1>5. /\ Joins(g, 0 .. LF, l) /\ Len(g[k]) <= 0 + n
      /\ \A i \in 1 .. n : buffer'[i] = g[N][0 + i]
  BY <1>1, <1>3 DEF Reading
<1>6. Len(l[1]) <= Len(g[k]) /\ \A i \in 1 .. Len(l[1]) : g[N][i] = l[1][i]
  <2>1. k \in 1 .. Len(l) /\ N \in 1 .. Len(l)
    BY <1>2, <1>4
  <2>2. Len(l[1]) <= Len(g[k])
    BY <1>4, <1>5, <2>1, JoinBegins
  <2>3. \A i \in 1 .. Len(l[1]) : g[N][i] = l[1][i]
    <3>1. Joins(g, 0 .. LF, l) /\ l \in Seq(Seq(0 .. LF)) /\ N \in 1 .. Len(l)
      BY <1>4, <1>5, <2>1
    <3> QED
      BY ONLY <3>1, JoinBegins
  <2> QED
    BY <2>2, <2>3
<1>7. Len(g[k]) \in Nat /\ Len(l[1]) \in Nat
  <2>1. g[k] \in Seq(0 .. LF) /\ l[1] \in Seq(0 .. LF)
    <3>1. k \in 0 .. Len(l)
      BY <1>2, <1>4
    <3> QED
      BY <1>2, <1>4, <1>5, <3>1, ElementOfSeq DEF Joins
  <2> QED
    BY <2>1, LenProperties
<1>8. PICK w : w = Len(l[1])
  OBVIOUS
<1>9. w <= n /\ \A i \in 1 .. w : i \in 1 .. n /\ 0 + i = i
  BY <1>2, <1>5, <1>6, <1>7, <1>8
<1> QED
  BY <1>1, <1>2, <1>4, <1>5, <1>6, <1>8, <1>9

LEMMA SpeltAlike ==
  ASSUME NEW c \in Cmds, NEW b, \A i \in 1 .. Len(inline_cmd(c)) : b[i] = inline_cmd(c)[i]
  PROVE  Spells(b, c)
<1>1. PICK s, n : s = inline_cmd(c) /\ n = Len(c.data)
  OBVIOUS
<1>2. Len(s) = 8 + 2 * n /\ n \in Nat /\ Spells(s, c)
  BY <1>1, InlineSpells, CommandsAreTyped
<1>3. /\ \A i \in 1 .. 2 : i \in 1 .. 8 + 2 * n
      /\ \A i \in 1 .. 6 : 2 + i \in 1 .. 8 + 2 * n
      /\ \A i \in 1 .. n : 8 + 2 * i - 1 \in 1 .. 8 + 2 * n /\ 8 + 2 * i \in 1 .. 8 + 2 * n
  BY <1>2
<1>4. \A i \in 1 .. 8 + 2 * n : b[i] = s[i]
  BY <1>1, <1>2
<1> QED
  BY <1>1, <1>2, <1>3, <1>4 DEF Spells

LEMMA FirstIsMeant ==
  ASSUME WireTypeOK, NEW n \in 1 .. Room, NEW g, NEW k, Reading(n, g, k), offset = 0, k # 0
  PROVE  parse_cmd(buffer') = Meant(pending[1])
<1>1. PICK c, b : c = pending[1] /\ b = buffer'
  OBVIOUS
<1>2. c \in Cmds /\ \A i \in 1 .. Len(Line(c)) : b[i] = Line(c)[i]
  BY <1>1, WholeLineIsInBuffer
<1>3. \A i \in 1 .. Len(inline_cmd(c)) : i \in 1 .. Len(Line(c)) /\ Line(c)[i] = inline_cmd(c)[i]
  BY <1>2, LineIs
<1>4. Spells(b, c)
  BY <1>2, <1>3, SpeltAlike
<1> QED
  BY <1>1, <1>2, <1>4, ParseIsMeant

LEMMA FirstIsInTheString ==
  ASSUME WireTypeOK, NEW n \in 1 .. Room, NEW g, NEW k, Reading(n, g, k), offset = 0, k # 0
  PROVE  HEADER + 2 * Len(pending[1].data) <= Len(String(buffer'))
<1>1. PICK c, b, l, r, d : /\ c = pending[1] /\ b = buffer' /\ l = Line(c) /\ d = Len(c.data)
                           /\ r = Run(b, 0 .. NUL - 1)
  OBVIOUS
<1>2. c \in Cmds /\ Len(l) <= n /\ \A i \in 1 .. Len(l) : b[i] = l[i]
  BY <1>1, WholeLineIsInBuffer
<1>3. d \in Nat /\ Len(l) = HEADER + 2 * d + 2 /\ l \in Seq(0 .. LF)
  BY <1>1, <1>2, LineIs, InlineSpells, CommandsAreTyped, SMTT(30)
     DEF HEADER, CMD_ID_SIZE, PAYLOAD_LENGTH_SIZE
<1>4. BUF_SIZE \in Nat /\ b \in Seq(0 .. NUL) /\ Len(b) = BUF_SIZE /\ n < BUF_SIZE
  <2>1. b \in [1 .. BUF_SIZE -> 0 .. NUL]
    BY <1>1 DEF Reading
  <2>2. BUF_SIZE \in Nat
    BY WireAssumption
  <2>3. n < BUF_SIZE
    BY <2>2 DEF Room
  <2>4. b \in Seq(0 .. NUL) /\ Len(b) = BUF_SIZE
    BY ONLY <2>1, <2>2, IsText
  <2> QED
    BY <2>2, <2>3, <2>4
<1>5. r \in 0 .. Len(b) /\ (r < Len(b) => b[r + 1] \notin 0 .. NUL - 1)
  BY <1>1, <1>4, RunEnds
<1>6. HEADER + 2 * d <= r
  <2>1. SUFFICES ASSUME r < HEADER + 2 * d PROVE FALSE
    BY <1>3, <1>4, <1>5 DEF HEADER, CMD_ID_SIZE, PAYLOAD_LENGTH_SIZE
  <2>2. r + 1 \in 1 .. Len(l) /\ r < Len(b)
    BY <1>2, <1>3, <1>4, <1>5, <2>1 DEF HEADER, CMD_ID_SIZE, PAYLOAD_LENGTH_SIZE
  <2>3. l[r + 1] \in 0 .. LF
    BY <1>3, <2>2, ElementOfSeq
  <2>4. b[r + 1] \in 0 .. NUL - 1
    BY <1>2, <2>2, <2>3 DEF NUL, LF
  <2> QED
    BY <1>5, <2>2, <2>4
<1>7. Len(String(b)) = r
  <2>1. r \in 0 .. Len(b) /\ b \in Seq(0 .. NUL) /\ Len(b) \in Nat
    BY <1>4, <1>5
  <2>2. Len(SubSeq(b, 1, r)) = r
    BY ONLY <2>1
  <2> QED
    BY <1>1, <2>2 DEF String
<1> QED
  BY <1>1, <1>6, <1>7

(* A reader that has caught up, and reads a command wholly, handles it,    *)
(* whatever comes along with it and whatever the buffer held, and reads    *)
(* nothing else: of any command, at any buffer size (cmd.c:10-84,          *)
(* socket.c:15-37).                                                        *)
THEOREM FirstCommandHandled == Spec => FirstIsHandled
<1>1. ASSUME WireTypeOK, [Next]_vars
      PROVE  [Len(pending') < Len(pending) /\ offset = 0 => Handles(buffer', pending[1])]_vars
  <2>1. SUFFICES ASSUME Len(pending') < Len(pending), offset = 0
                 PROVE  Handles(buffer', pending[1])
    OBVIOUS
  <2>2. pending \in Seq(Cmds) /\ Len(pending) \in Nat
    BY <1>1, LenProperties DEF WireTypeOK
  <2>3. CASE \E c \in Cmds : send_cmd_to(c)
    <3>1. PICK c \in Cmds : pending' = Append(pending, c)
      BY <2>3 DEF send_cmd_to
    <3>2. Len(pending') = Len(pending) + 1
      BY <2>2, <3>1, AppendProperties
    <3> QED
      BY <2>1, <2>2, <3>2
  <2>4. CASE \E n \in 1 .. Room : \E ok \in BOOLEAN : Read(n, ok)
    <3>1. PICK n \in 1 .. Room, ok \in BOOLEAN : Read(n, ok)
      BY <2>4
    <3>2. PICK g, k : Reading(n, g, k)
      BY <1>1, <3>1, ReadIs
    <3>3. Len(pending') = Len(pending) - k /\ k \in 0 .. Len(pending)
      BY <1>1, <3>2, AfterReading DEF Reading
    <3>4. k # 0
      BY <2>1, <2>2, <3>3
    <3> QED
      BY <1>1, <2>1, <3>2, <3>4, FirstIsMeant, FirstIsInTheString DEF Handles
  <2>5. CASE UNCHANGED vars
    BY <2>1, <2>2, <2>5 DEF vars
  <2> QED
    BY <1>1, <2>3, <2>4, <2>5 DEF Next
<1> QED
  BY <1>1, WireTypeCorrect, PTL DEF Spec, FirstIsHandled
-----------------------------------------------------------------------------
(* A record read back.                                                     *)
LEMMA RestIs ==
  ASSUME NEW S, NEW s \in Seq(S), NEW m \in 0 .. Len(s)
  PROVE  /\ SubSeq(s, m + 1, Len(s)) \in Seq(S)
         /\ Len(SubSeq(s, m + 1, Len(s))) = Len(s) - m
         /\ \A i \in 1 .. Len(s) - m : SubSeq(s, m + 1, Len(s))[i] = s[m + i]
<1>1. PICK w : w = Len(s)
  OBVIOUS
<1>2. w \in Nat /\ m \in 0 .. w /\ \A i \in 1 .. w : s[i] \in S
  BY <1>1, LenProperties, ElementOfSeq
<1>3. PICK t : t = [i \in 1 .. w - m |-> s[m + i]]
  OBVIOUS
<1>4. \A i \in 1 .. w - m : m + i \in 1 .. w
  BY <1>2
<1>5. w - m \in Nat /\ t \in [1 .. w - m -> S]
  BY <1>2, <1>3, <1>4
<1>6. t \in Seq(S) /\ Len(t) = w - m
  BY <1>5, IsText
<1>7. \A i \in 1 .. Len(t) : s[m + i] = t[i]
  BY <1>3, <1>6
<1>8. SubSeq(s, m + 1, m + Len(t)) = t
  BY <1>2, <1>6, <1>7, PartIs
<1>9. m + Len(t) = w
  BY <1>2, <1>6
<1> QED
  BY <1>1, <1>3, <1>6, <1>8, <1>9

LEMMA SkippedIs ==
  ASSUME NEW S, NEW s \in Seq(S), NEW m \in 0 .. Len(s),
         \A i \in 1 .. m : s[i] \in Space, m < Len(s) => s[m + 1] \notin Space
  PROVE  SkipSpace(s) = SubSeq(s, m + 1, Len(s))
<1>1. Run(s, Space) = m
  BY LenProperties, RunIs
<1> QED
  BY <1>1 DEF SkipSpace

(* A record of s, with rest after it, by its characters.                   *)
Lays(t, s, rest) ==
  /\ Len(t) = Len(s) + 5 + Len(rest)
  /\ t[1] = CLIENT_ID /\ t[2] = LF
  /\ \A i \in 1 .. Len(s) : t[2 + i] = s[i]
  /\ t[Len(s) + 3] = CR /\ t[Len(s) + 4] = LF /\ t[Len(s) + 5] = LF
  /\ \A i \in 1 .. Len(rest) : t[Len(s) + 5 + i] = rest[i]

LEMMA RecordLays ==
  ASSUME NEW s \in Seq(0 .. LF), NEW rest \in Seq(0 .. LF)
  PROVE  /\ Record(s \o CRLF) \o rest \in Seq(0 .. LF)
         /\ Lays(Record(s \o CRLF) \o rest, s, rest)
<1>1. PICK a, e, w : a = << CLIENT_ID, LF >> /\ e = << LF >> /\ w = Len(s)
  OBVIOUS
<1>2. /\ a \in Seq(0 .. LF) /\ e \in Seq(0 .. LF) /\ CRLF \in Seq(0 .. LF) /\ w \in Nat
      /\ Len(a) = 2 /\ a[1] = CLIENT_ID /\ a[2] = LF /\ Len(e) = 1 /\ e[1] = LF
      /\ Len(CRLF) = 2 /\ CRLF[1] = CR /\ CRLF[2] = LF
  <2>1. CLIENT_ID \in 0 .. LF /\ LF \in 0 .. LF /\ CR \in 0 .. LF
    BY WireAssumption DEF LF, CR
  <2> QED
    BY <1>1, <2>1, LenProperties DEF CRLF
<1>3. PICK b, c, d, t : b = s \o CRLF /\ c = a \o b /\ d = c \o e /\ t = d \o rest
  OBVIOUS
<1>4. b \in Seq(0 .. LF) /\ Follows(s, CRLF, b)
  BY <1>2, <1>3, ConcatFollows
<1>5. c \in Seq(0 .. LF) /\ Follows(a, b, c)
  BY <1>2, <1>3, <1>4, ConcatFollows
<1>6. d \in Seq(0 .. LF) /\ Follows(c, e, d)
  BY <1>2, <1>3, <1>5, ConcatFollows
<1>7. t \in Seq(0 .. LF) /\ Follows(d, rest, t)
  BY <1>3, <1>6, ConcatFollows
<1>8. Len(b) = w + 2 /\ (\A i \in 1 .. w : b[i] = s[i]) /\ b[w + 1] = CR /\ b[w + 2] = LF
  BY <1>1, <1>2, <1>4 DEF Follows
<1>9. Len(c) = w + 4 /\ c[1] = CLIENT_ID /\ c[2] = LF /\ \A i \in 1 .. w + 2 : c[2 + i] = b[i]
  BY <1>2, <1>5, <1>8 DEF Follows
<1>10. Len(d) = w + 5 /\ (\A i \in 1 .. w + 4 : d[i] = c[i]) /\ d[w + 5] = LF
  <2>1. 1 \in 1 .. Len(e) /\ Len(c) + 1 = w + 5
    BY <1>2, <1>9
  <2> QED
    BY <1>2, <1>6, <1>9, <2>1 DEF Follows
<1>11. /\ Len(t) = w + 5 + Len(rest) /\ (\A i \in 1 .. w + 5 : t[i] = d[i])
       /\ \A i \in 1 .. Len(rest) : t[w + 5 + i] = rest[i]
  BY <1>2, <1>7, <1>10 DEF Follows
<1>12. /\ 1 \in 1 .. w + 5 /\ 1 \in 1 .. w + 4 /\ 2 \in 1 .. w + 5 /\ 2 \in 1 .. w + 4
       /\ w + 3 \in 1 .. w + 5 /\ w + 3 \in 1 .. w + 4 /\ w + 3 = 2 + (w + 1)
       /\ w + 4 \in 1 .. w + 5 /\ w + 4 \in 1 .. w + 4 /\ w + 4 = 2 + (w + 2)
       /\ w + 1 \in 1 .. w + 2 /\ w + 2 \in 1 .. w + 2 /\ w + 5 \in 1 .. w + 5
  BY <1>2
<1>13. t[1] = CLIENT_ID /\ t[2] = LF /\ t[w + 3] = CR /\ t[w + 4] = LF /\ t[w + 5] = LF
  BY <1>8, <1>9, <1>10, <1>11, <1>12
<1>14. ASSUME NEW i \in 1 .. w PROVE t[2 + i] = s[i]
  <2>1. i \in 1 .. w + 2 /\ 2 + i \in 1 .. w + 5 /\ 2 + i \in 1 .. w + 4
    BY <1>2
  <2> QED
    BY <1>8, <1>9, <1>10, <1>11, <2>1
<1>15. Lays(t, s, rest)
  BY <1>1, <1>11, <1>13, <1>14 DEF Lays
<1> QED
  BY <1>1, <1>3, <1>7, <1>15 DEF Record
LEMMA WordIsParsed ==
  ASSUME NEW c \in Cmds, Len(inline_cmd(c)) <= BUF_SIZE
  PROVE  parse_cmd(Filled(inline_cmd(c))) = Meant(c)
<1>1. PICK s, b : s = inline_cmd(c) /\ b = Filled(s)
  OBVIOUS
<1>2. Len(s) \in Nat /\ Len(s) <= BUF_SIZE /\ BUF_SIZE \in Nat
  BY <1>1, WireAssumption, LineIs
<1>3. b = [i \in 1 .. BUF_SIZE |-> IF i <= Len(s) THEN s[i] ELSE NUL]
  BY <1>1 DEF Filled
<1>4. \A i \in 1 .. Len(s) : i \in 1 .. BUF_SIZE /\ i <= Len(s)
  BY <1>2
<1>5. \A i \in 1 .. Len(s) : b[i] = s[i]
  BY <1>3, <1>4
<1>6. Spells(b, c)
  BY <1>1, <1>5, SpeltAlike
<1> QED
  BY <1>1, <1>6, ParseIsMeant

LEMMA NotSpaces ==
  /\ CR \in Space /\ LF \in Space /\ CR \notin 0 .. 15 /\ LF \notin 0 .. 9
  /\ CLIENT_ID \in 0 .. 9 /\ CLIENT_ID \notin Space
  /\ \A d \in 0 .. 15 : d \notin Space
BY WireAssumption DEF CR, LF, Space

LEMMA RecordIsRead ==
  ASSUME NEW c \in Cmds, Len(inline_cmd(c)) <= BUF_SIZE,
         NEW rest \in Seq(0 .. LF), rest # << >> => rest[1] \notin Space
  PROVE  read_cmd(Record(inline_cmd(c) \o CRLF) \o rest)
           = [client_id |-> CLIENT_ID, cmd |-> Meant(c), rest |-> rest]
<1>1. PICK s, w : s = inline_cmd(c) /\ w = Len(s)
  OBVIOUS
<1>2. PICK t, r : t = Record(s \o CRLF) \o rest /\ r = Len(rest)
  OBVIOUS
<1>3. /\ s \in Seq(0 .. 15) /\ w \in Nat /\ w >= 8 /\ \A i \in 1 .. w : s[i] \in 0 .. 15
  <2>1. PICK n : n = Len(c.data)
    OBVIOUS
  <2>2. s \in Seq(0 .. 15) /\ w = 8 + 2 * n /\ n \in Nat
    BY <1>1, <2>1, InlineSpells, CommandsAreTyped
  <2>3. \A i \in 1 .. w : s[i] \in 0 .. 15
    BY <1>1, <2>2, ElementOfSeq
  <2> QED
    BY <2>2, <2>3
<1>4. r \in Nat /\ (r > 0 => rest[1] \notin Space)
  <2>1. r \in Nat /\ (r > 0 => rest # << >>)
    BY <1>2, LenProperties, EmptySeq
  <2> QED
    BY <2>1
<1>5. /\ t \in Seq(0 .. LF) /\ Len(t) = w + 5 + r
      /\ t[1] = CLIENT_ID /\ t[2] = LF
      /\ \A i \in 1 .. w : t[2 + i] = s[i]
      /\ t[w + 3] = CR /\ t[w + 4] = LF /\ t[w + 5] = LF
      /\ \A i \in 1 .. r : t[w + 5 + i] = rest[i]
  <2>1. s \in Seq(0 .. LF)
    <3>1. s \in [1 .. w -> 0 .. LF]
      <4>1. s = [i \in 1 .. w |-> s[i]]
        BY <1>1, <1>3
      <4>2. \A i \in 1 .. w : s[i] \in 0 .. LF
        BY <1>3 DEF LF
      <4> QED
        BY <4>1, <4>2
    <3> QED
      BY <1>3, <3>1, IsText
  <2>2. t \in Seq(0 .. LF) /\ Lays(t, s, rest)
    BY <1>2, <2>1, RecordLays
  <2> QED
    BY <1>1, <1>2, <2>2 DEF Lays
<1>6. SkipSpace(t) = t
  <2>1. t[1] \notin Space
    BY <1>5, NotSpaces
  <2> QED
    BY <1>5, <2>1, NothingIsSkipped
<1>7. Run(t, 0 .. 9) = 1
  <2>1. Len(t) \in Nat /\ 1 \in 0 .. Len(t) /\ 1 + 1 = 2
    BY <1>3, <1>4, <1>5
  <2>2. t[1 + 1] \notin 0 .. 9 /\ \A i \in 1 .. 1 : t[i] \in 0 .. 9
    BY <1>5, <2>1, NotSpaces
  <2> QED
    BY <2>1, <2>2, RunIs
<1>8. strtol(SubSeq(t, 1, 1), 10) = CLIENT_ID
  <2>1. PICK d : d = << CLIENT_ID >>
    OBVIOUS
  <2>2. d \in Seq(0 .. LF) /\ Len(d) = 1 /\ d[1] = CLIENT_ID
    BY <2>1, NotSpaces DEF LF
  <2>3. \A i \in 1 .. Len(d) : t[0 + i] = d[i]
    BY <1>5, <2>2
  <2>4. SubSeq(t, 0 + 1, 0 + Len(d)) = d
    BY <2>2, <2>3, PartIs
  <2>5. SubSeq(t, 1, 1) = << CLIENT_ID >>
    BY <2>1, <2>2, <2>4
  <2> QED
    BY <2>5, NotSpaces, StrtolOfOne
<1>9. PICK tail : tail = SubSeq(t, 1 + 1, Len(t))
  OBVIOUS
<1>10. /\ tail \in Seq(0 .. LF) /\ Len(tail) = w + 4 + r
       /\ \A i \in 1 .. w + 4 + r : tail[i] = t[1 + i]
  <2>1. 1 \in 0 .. Len(t) /\ Len(t) - 1 = w + 4 + r /\ t \in Seq(0 .. LF)
    BY <1>3, <1>4, <1>5
  <2> QED
    BY <1>9, <2>1, RestIs
<1>11. PICK word : word = SubSeq(tail, 1 + 1, Len(tail))
  OBVIOUS
<1>12. SkipSpace(tail) = word
  <2>1. 1 \in 0 .. Len(tail) /\ 1 \in 1 .. w + 4 + r /\ 2 \in 1 .. w + 4 + r /\ 1 \in 1 .. w
    BY <1>3, <1>4, <1>10
  <2>2. tail[1] = t[2] /\ tail[2] = t[2 + 1]
    BY <1>10, <2>1
  <2>3. tail[1] \in Space
    BY <1>5, <2>2, NotSpaces
  <2>4. tail[1 + 1] \notin Space
    <3>1. tail[2] = s[1] /\ s[1] \in 0 .. 15
      BY <1>3, <1>5, <2>1, <2>2
    <3> QED
      BY <3>1, NotSpaces
  <2>5. \A i \in 1 .. 1 : tail[i] \in Space
    BY <2>3
  <2> QED
    BY <1>10, <1>11, <2>1, <2>4, <2>5, SkippedIs
<1>13. /\ word \in Seq(0 .. LF) /\ Len(word) = w + 3 + r
       /\ \A i \in 1 .. w + 3 + r : word[i] = t[2 + i]
  <2>1. 1 \in 0 .. Len(tail) /\ Len(tail) - 1 = w + 3 + r
    BY <1>3, <1>4, <1>10
  <2>2. /\ word \in Seq(0 .. LF) /\ Len(word) = w + 3 + r
        /\ \A i \in 1 .. w + 3 + r : word[i] = tail[1 + i]
    BY <1>10, <1>11, <2>1, RestIs
  <2>3. \A i \in 1 .. w + 3 + r : 1 + i \in 1 .. w + 4 + r /\ 1 + (1 + i) = 2 + i
    BY <1>3, <1>4
  <2> QED
    BY <1>10, <2>2, <2>3
<1>14. /\ \A i \in 1 .. w : word[i] = s[i]
       /\ word[w + 1] = CR /\ word[w + 2] = LF /\ word[w + 3] = LF
       /\ \A i \in 1 .. r : word[w + 3 + i] = rest[i]
  <2>1. /\ \A i \in 1 .. w : i \in 1 .. w + 3 + r
        /\ w + 1 \in 1 .. w + 3 + r /\ w + 2 \in 1 .. w + 3 + r /\ w + 3 \in 1 .. w + 3 + r
        /\ 2 + (w + 1) = w + 3 /\ 2 + (w + 2) = w + 4 /\ 2 + (w + 3) = w + 5
        /\ \A i \in 1 .. r : w + 3 + i \in 1 .. w + 3 + r /\ 2 + (w + 3 + i) = w + 5 + i
    BY <1>3, <1>4
  <2>2. \A i \in 1 .. w : word[i] = s[i]
    BY <1>5, <1>13, <2>1
  <2>3. word[w + 1] = CR /\ word[w + 2] = LF /\ word[w + 3] = LF
    BY <1>5, <1>13, <2>1
  <2>4. \A i \in 1 .. r : word[w + 3 + i] = rest[i]
    BY <1>5, <1>13, <2>1
  <2> QED
    BY <2>2, <2>3, <2>4
<1>15. Run(word, 0 .. 15) = w
  <2>1. Len(word) \in Nat /\ w \in 0 .. Len(word)
    BY <1>3, <1>4, <1>13
  <2>2. (\A i \in 1 .. w : word[i] \in 0 .. 15) /\ word[w + 1] \notin 0 .. 15
    BY <1>3, <1>14, NotSpaces
  <2> QED
    BY <2>1, <2>2, RunIs
<1>16. SubSeq(word, 1, w) = s
  <2>1. \A i \in 1 .. Len(s) : word[0 + i] = s[i]
    BY <1>1, <1>14
  <2>2. SubSeq(word, 0 + 1, 0 + Len(s)) = s
    BY <1>3, <2>1, PartIs
  <2> QED
    BY <1>1, <1>3, <2>2
<1>17. PICK end : end = SubSeq(word, w + 1, Len(word))
  OBVIOUS
<1>18. /\ end \in Seq(0 .. LF) /\ Len(end) = 3 + r
       /\ \A i \in 1 .. 3 + r : end[i] = word[w + i]
  <2>1. w \in 0 .. Len(word) /\ Len(word) - w = 3 + r
    BY <1>3, <1>4, <1>13
  <2> QED
    BY <1>13, <1>17, <2>1, RestIs, ZenonT(60)
<1>19. /\ end[1] = CR /\ end[2] = LF /\ end[3] = LF
       /\ \A i \in 1 .. r : end[3 + i] = rest[i]
  <2>1. /\ 1 \in 1 .. 3 + r /\ 2 \in 1 .. 3 + r /\ 3 \in 1 .. 3 + r
        /\ \A i \in 1 .. r : 3 + i \in 1 .. 3 + r /\ w + (3 + i) = w + 3 + i
    BY <1>3, <1>4
  <2> QED
    BY <1>14, <1>18, <2>1
<1>20. SkipSpace(end) = SubSeq(end, 3 + 1, Len(end))
  <2>1. 3 \in 0 .. Len(end)
    BY <1>4, <1>18
  <2>2. \A i \in 1 .. 3 : end[i] \in Space
    <3>1. \A i \in 1 .. 3 : i = 1 \/ i = 2 \/ i = 3
      OBVIOUS
    <3> QED
      BY <1>19, <3>1, NotSpaces
  <2>3. 3 < Len(end) => end[3 + 1] \notin Space
    <3>1. 3 < Len(end) => r > 0 /\ 1 \in 1 .. r
      BY <1>4, <1>18
    <3> QED
      BY <1>4, <1>19, <3>1
  <2> QED
    BY <1>18, <2>1, <2>2, <2>3, SkippedIs
<1>21. SubSeq(end, 3 + 1, Len(end)) = rest
  <2>1. \A i \in 1 .. Len(rest) : end[3 + i] = rest[i]
    BY <1>2, <1>19
  <2>2. SubSeq(end, 3 + 1, 3 + Len(rest)) = rest
    BY <2>1, PartIs
  <2> QED
    BY <1>2, <1>18, <2>2
<1>22. read_cmd(t) = [client_id |-> CLIENT_ID, cmd |-> parse_cmd(Filled(s)), rest |-> rest]
  BY <1>6, <1>7, <1>8, <1>9, <1>12, <1>15, <1>16, <1>17, <1>20, <1>21 DEF read_cmd
<1>23. parse_cmd(Filled(s)) = Meant(c)
  BY <1>1, WordIsParsed
<1> QED
  BY <1>1, <1>2, <1>22, <1>23
-----------------------------------------------------------------------------
(* The file: t is a record of cmd, written from one whole command, with    *)
(* rest after it.                                                          *)
Holds(cmd, t, rest) ==
  \E c \in Cmds : /\ Len(inline_cmd(c)) <= BUF_SIZE
                  /\ cmd = Meant(c)
                  /\ t = Record(inline_cmd(c) \o CRLF) \o rest

LEMMA TextOfTheFile == Seq(0 .. NUL - 1) = Seq(0 .. LF)
<1>1. NUL - 1 = LF
  BY DEF NUL, LF
<1> QED
  BY <1>1

LEMMA RecordBegins ==
  ASSUME NEW s \in Seq(0 .. LF)
  PROVE  /\ Record(s) \in Seq(0 .. LF) /\ Record(s) # << >>
         /\ Record(s)[1] = CLIENT_ID
<1>1. PICK a, e, c, d : /\ a = << CLIENT_ID, LF >> /\ e = << LF >>
                        /\ c = a \o s /\ d = c \o e
  OBVIOUS
<1>2. /\ a \in Seq(0 .. LF) /\ e \in Seq(0 .. LF) /\ Len(a) = 2 /\ a[1] = CLIENT_ID
      /\ Len(s) \in Nat /\ Len(e) = 1
  <2>1. CLIENT_ID \in 0 .. LF /\ LF \in 0 .. LF
    BY WireAssumption DEF LF
  <2> QED
    BY <1>1, <2>1, LenProperties
<1>3. c \in Seq(0 .. LF) /\ Follows(a, s, c)
  BY <1>1, <1>2, ConcatFollows
<1>4. d \in Seq(0 .. LF) /\ Follows(c, e, d)
  BY <1>1, <1>2, <1>3, ConcatFollows
<1>5. Len(c) = 2 + Len(s) /\ c[1] = CLIENT_ID
  <2>1. 1 \in 1 .. Len(a)
    BY <1>2
  <2> QED
    BY <1>2, <1>3, <2>1 DEF Follows
<1>6. Len(d) = 3 + Len(s) /\ d[1] = CLIENT_ID
  <2>1. 1 \in 1 .. Len(c)
    BY <1>2, <1>5
  <2> QED
    BY <1>2, <1>4, <1>5, <2>1 DEF Follows
<1>7. d # << >>
  <2>1. Len(d) # 0
    BY <1>2, <1>6
  <2> QED
    BY <1>4, <2>1, EmptySeq
<1> QED
  BY <1>1, <1>4, <1>6, <1>7 DEF Record

LEMMA WholeIsText ==
  ASSUME NEW c \in Cmds
  PROVE  inline_cmd(c) \o CRLF \in Seq(0 .. LF)
<1>1. Line(c) \in Seq(0 .. LF)
  BY LineIs
<1> QED
  BY <1>1 DEF Line, write_to_socket

LEMMA StillHolds ==
  ASSUME NEW cmd, NEW t, NEW rest \in Seq(0 .. LF), NEW new \in Seq(0 .. LF),
         Holds(cmd, t, rest)
  PROVE  Holds(cmd, t \o new, rest \o new)
<1>1. PICK c \in Cmds : /\ Len(inline_cmd(c)) <= BUF_SIZE /\ cmd = Meant(c)
                        /\ t = Record(inline_cmd(c) \o CRLF) \o rest
  BY DEF Holds
<1>2. PICK r : r = Record(inline_cmd(c) \o CRLF)
  OBVIOUS
<1>3. r \in Seq(0 .. LF)
  BY <1>2, WholeIsText, RecordBegins
<1>4. (r \o rest) \o new = r \o (rest \o new)
  BY <1>3, Reassociates
<1>5. t \o new = r \o (rest \o new)
  BY <1>1, <1>2, <1>4
<1> QED
  BY <1>1, <1>2, <1>5 DEF Holds

LEMMA HeldIsRead ==
  ASSUME NEW cmd, NEW t, NEW rest \in Seq(0 .. LF),
         rest # << >> => rest[1] \notin Space, Holds(cmd, t, rest)
  PROVE  read_cmd(t) = [client_id |-> CLIENT_ID, cmd |-> cmd, rest |-> rest]
<1>1. PICK c \in Cmds : /\ Len(inline_cmd(c)) <= BUF_SIZE /\ cmd = Meant(c)
                        /\ t = Record(inline_cmd(c) \o CRLF) \o rest
  BY DEF Holds
<1>2. read_cmd(Record(inline_cmd(c) \o CRLF) \o rest)
        = [client_id |-> CLIENT_ID, cmd |-> Meant(c), rest |-> rest]
  BY <1>1, RecordIsRead
<1> QED
  BY <1>1, <1>2

LEMMA BeginsStill ==
  ASSUME NEW t \in Seq(0 .. LF), NEW new \in Seq(0 .. LF),
         new # << >>, new[1] \notin Space, t # << >> => t[1] \notin Space
  PROVE  t \o new \in Seq(0 .. LF) /\ (t \o new)[1] \notin Space
<1>1. PICK u : u = t \o new
  OBVIOUS
<1>2. u \in Seq(0 .. LF) /\ Follows(t, new, u)
  BY <1>1, ConcatFollows
<1>3. Len(t) \in Nat /\ Len(new) \in Nat /\ Len(new) # 0 /\ (Len(t) = 0 <=> t = << >>)
  BY LenProperties, EmptySeq
<1>4. CASE t = << >>
  <2>1. 1 \in 1 .. Len(new) /\ Len(t) + 1 = 1
    BY <1>3, <1>4
  <2>2. u[1] = new[1]
    BY <1>2, <2>1 DEF Follows
  <2> QED
    BY <1>1, <1>2, <2>2
<1>5. CASE t # << >>
  <2>1. 1 \in 1 .. Len(t)
    BY <1>3, <1>5
  <2>2. u[1] = t[1]
    BY <1>2, <2>1 DEF Follows
  <2> QED
    BY <1>1, <1>2, <1>5, <2>2
<1> QED
  BY <1>4, <1>5

LEMMA CleanIsWhole ==
  ASSUME WireTypeOK, NEW n \in 1 .. Room, NEW g, Reading(n, g, 1), offset = 0, offset' = 0
  PROVE  \E c \in Cmds : /\ Len(inline_cmd(c)) <= BUF_SIZE
                         /\ parse_cmd(buffer') = Meant(c)
                         /\ String(buffer') = inline_cmd(c) \o CRLF
<1>1. PICK c, b, l : c = pending[1] /\ b = buffer' /\ l = Line(c)
  OBVIOUS
<1>2. /\ c \in Cmds /\ Len(l) <= n /\ \A i \in 1 .. Len(l) : b[i] = l[i]
  BY <1>1, WholeLineIsInBuffer
<1>3. parse_cmd(b) = Meant(c)
  BY <1>1, FirstIsMeant
<1>4. /\ l \in Seq(0 .. LF) /\ Len(inline_cmd(c)) \in Nat /\ Len(l) = Len(inline_cmd(c)) + 2
      /\ l = inline_cmd(c) \o CRLF
  BY <1>1, <1>2, LineIs DEF Line, write_to_socket
<1>5. n \in Nat /\ n + 1 \in 1 .. BUF_SIZE /\ BUF_SIZE \in Nat
  BY WireAssumption DEF Room
<1>6. Len(l) = n
  <2>1. PICK N, s : N = Len(pending) /\ s = Lines(pending)
    OBVIOUS
  <2>2. pending \in Seq(Cmds) /\ N \in Nat
    BY <2>1, LenProperties DEF WireTypeOK
  <2>3. 1 \in 0 .. N /\ Joins(g, 0 .. LF, s) /\ 0 = 0 + n - Len(g[1])
    BY <2>1 DEF Reading
  <2>4. N \in Nat /\ 1 \in 1 .. N
    BY <2>2, <2>3
  <2>5. s \in Seq(Seq(0 .. LF)) /\ Len(s) = N /\ s[1] = l
    BY <1>1, <2>1, <2>2, <2>4, LinesAre
  <2>6. Len(g[1]) = Len(s[1])
    <3>1. Joins(g, 0 .. LF, s) /\ s \in Seq(Seq(0 .. LF)) /\ 1 \in 1 .. Len(s)
      BY <2>3, <2>4, <2>5
    <3> QED
      BY ONLY <3>1, JoinBegins
  <2> QED
    BY <1>4, <1>5, <2>3, <2>5, <2>6
<1>7. b \in [1 .. BUF_SIZE -> 0 .. NUL] /\ b[n + 1] = NUL
  BY <1>1 DEF Reading
<1>8. Len(b) = BUF_SIZE
  BY <1>5, <1>7, IsText
<1>9. Run(b, 0 .. NUL - 1) = n
  <2>1. Len(b) \in Nat /\ n \in 0 .. Len(b)
    BY <1>5, <1>8
  <2>2. \A i \in 1 .. n : b[i] \in 0 .. NUL - 1
    <3>1. \A i \in 1 .. Len(l) : l[i] \in 0 .. LF
      BY <1>4, ElementOfSeq
    <3> QED
      BY <1>2, <1>6, <3>1 DEF NUL, LF
  <2>3. b[n + 1] \notin 0 .. NUL - 1
    BY <1>7 DEF NUL
  <2> QED
    BY <2>1, <2>2, <2>3, RunIs
<1>10. String(b) = l
  <2>1. l \in Seq(0 .. LF) /\ 0 \in Nat /\ \A i \in 1 .. Len(l) : b[0 + i] = l[i]
    BY <1>2, <1>4
  <2>2. SubSeq(b, 0 + 1, 0 + Len(l)) = l
    BY ONLY <2>1, PartIs
  <2> QED
    BY <1>5, <1>6, <1>9, <2>2 DEF String
<1>11. Len(inline_cmd(c)) <= BUF_SIZE
  BY <1>4, <1>5, <1>6
<1> QED
  BY <1>1, <1>2, <1>3, <1>4, <1>10, <1>11

(* f[k] is what the first m records leave of a text when k are read.       *)
Tails(f, m, text, recs) ==
  /\ f \in [0 .. m -> Seq(0 .. LF)] /\ f[0] = text
  /\ \A k \in 1 .. m : recs[k].clean /\ Holds(recs[k].cmd, f[k - 1], f[k])
  /\ \A k \in 0 .. m : f[k] # << >> => f[k][1] \notin Space

(* The first m records are whole and the next is not; when all of them are *)
(* there is nothing after them.                                            *)
WholeRecords(f, m) ==
  /\ m \in 0 .. Len(records)
  /\ Tails(f, m, file, records)
  /\ m = Len(records) => f[m] = << >>
  /\ m < Len(records) => ~records[m + 1].clean

FileInv ==
  /\ \E R : records \in Seq(R)
  /\ \E f, m : WholeRecords(f, m)

(* What is behind a text does not change how its first records are read.   *)
Behind(f, m, text, recs, more, new) ==
  /\ m \in Nat /\ Tails(f, m, text, recs)
  /\ \A k \in 1 .. m : more[k] = recs[k]
  /\ new \in Seq(0 .. LF) /\ new # << >> /\ new[1] \notin Space

LEMMA TailsGrow ==
  ASSUME NEW m, NEW f, NEW text, NEW recs, NEW more, NEW new,
         Behind(f, m, text, recs, more, new)
  PROVE  \E h : Tails(h, m, text \o new, more) /\ h[m] = f[m] \o new
<1> USE DEF Behind
<1>1. PICK h : h = [k \in 0 .. m |-> f[k] \o new]
  OBVIOUS
<1>2. \A k \in 0 .. m : h[k] = f[k] \o new
  BY <1>1
<1>3. ASSUME NEW k \in 0 .. m PROVE h[k] \in Seq(0 .. LF) /\ h[k][1] \notin Space
  <2>1. f[k] \in Seq(0 .. LF) /\ (f[k] # << >> => f[k][1] \notin Space)
    BY DEF Tails
  <2>2. f[k] \o new \in Seq(0 .. LF) /\ (f[k] \o new)[1] \notin Space
    BY <2>1, BeginsStill
  <2> QED
    BY <1>2, <2>2
<1>4. h \in [0 .. m -> Seq(0 .. LF)]
  BY <1>1, <1>2, <1>3
<1>5. ASSUME NEW k \in 1 .. m PROVE more[k].clean /\ Holds(more[k].cmd, h[k - 1], h[k])
  <2>1. k \in 0 .. m /\ k - 1 \in 0 .. m
    OBVIOUS
  <2>2. f[k] \in Seq(0 .. LF) /\ recs[k].clean /\ Holds(recs[k].cmd, f[k - 1], f[k])
    BY <2>1 DEF Tails
  <2>3. Holds(recs[k].cmd, f[k - 1] \o new, f[k] \o new)
    BY <2>2, StillHolds
  <2>4. h[k - 1] = f[k - 1] \o new /\ h[k] = f[k] \o new /\ more[k] = recs[k]
    BY <1>2, <2>1
  <2> QED
    BY <2>2, <2>3, <2>4
<1>6. 0 \in 0 .. m /\ m \in 0 .. m
  OBVIOUS
<1>7. h[0] = text \o new
  BY <1>2, <1>6 DEF Tails
<1>8. Tails(h, m, text \o new, more)
  BY <1>3, <1>4, <1>5, <1>7 DEF Tails
<1> QED
  BY <1>2, <1>6, <1>8

LEMMA TailsEnd ==
  ASSUME NEW m \in Nat, NEW h, NEW text, NEW recs,
         Tails(h, m, text, recs), recs[m + 1].clean, Holds(recs[m + 1].cmd, h[m], << >>)
  PROVE  \E u : Tails(u, m + 1, text, recs) /\ u[m + 1] = << >>
<1>1. PICK u : u = [k \in 0 .. m + 1 |-> IF k <= m THEN h[k] ELSE << >>]
  OBVIOUS
<1>2. /\ \A k \in 0 .. m : k \in 0 .. m + 1 /\ k <= m
      /\ 0 \in 0 .. m /\ m + 1 \in 0 .. m + 1 /\ ~(m + 1 <= m) /\ (m + 1) - 1 = m
      /\ \A k \in 0 .. m + 1 : k \in 0 .. m \/ k = m + 1
      /\ \A k \in 1 .. m + 1 : (k \in 1 .. m /\ k \in 0 .. m /\ k - 1 \in 0 .. m) \/ k = m + 1
  OBVIOUS
<1>3. (\A k \in 0 .. m : u[k] = h[k]) /\ u[m + 1] = << >>
  BY <1>1, <1>2
<1>4. ASSUME NEW k \in 0 .. m + 1
      PROVE  u[k] \in Seq(0 .. LF) /\ (u[k] # << >> => u[k][1] \notin Space)
  <2>1. CASE k \in 0 .. m
    BY <1>3, <2>1 DEF Tails
  <2>2. CASE k = m + 1
    <3>1. << >> \in Seq(0 .. LF)
      BY EmptySeq
    <3> QED
      BY <1>3, <2>2, <3>1
  <2> QED
    BY <1>2, <2>1, <2>2
<1>5. u \in [0 .. m + 1 -> Seq(0 .. LF)]
  <2>1. u = [k \in 0 .. m + 1 |-> u[k]]
    BY <1>1
  <2> QED
    BY <1>4, <2>1
<1>6. ASSUME NEW k \in 1 .. m + 1 PROVE recs[k].clean /\ Holds(recs[k].cmd, u[k - 1], u[k])
  <2>1. CASE k \in 1 .. m /\ k \in 0 .. m /\ k - 1 \in 0 .. m
    <3>1. recs[k].clean /\ Holds(recs[k].cmd, h[k - 1], h[k])
      BY <2>1 DEF Tails
    <3> QED
      BY <1>3, <2>1, <3>1
  <2>2. CASE k = m + 1
    <3>1. u[k - 1] = h[m] /\ u[k] = << >>
      <4>1. k - 1 = m /\ m \in 0 .. m
        BY <2>2
      <4> QED
        BY <1>3, <2>2, <4>1
    <3> QED
      BY <2>2, <3>1
  <2> QED
    BY <1>2, <2>1, <2>2
<1>7. u[0] = text
  BY <1>2, <1>3 DEF Tails
<1>8. Tails(u, m + 1, text, recs)
  BY <1>4, <1>5, <1>6, <1>7 DEF Tails
<1> QED
  BY <1>3, <1>8

LEMMA ReadKeepsFile ==
  ASSUME WireTypeOK, FileInv, NEW n \in 1 .. Room, NEW ok \in BOOLEAN, Read(n, ok)
  PROVE  FileInv'
<1>1. PICK g, k : Reading(n, g, k) /\ Recording(ok, k)
  BY ReadIs
<1>2. CASE ~ok
  BY <1>1, <1>2 DEF Recording, FileInv, WholeRecords
<1>3. CASE ok
  <2>1. PICK R : records \in Seq(R)
    BY DEF FileInv
  <2>2. PICK f, m : WholeRecords(f, m)
    BY DEF FileInv
  <2>3. PICK e : e = [cmd |-> parse_cmd(buffer'), clean |-> offset = 0 /\ k = 1 /\ offset' = 0]
    OBVIOUS
  <2>4. PICK b, new, N, more : /\ b = buffer' /\ new = Record(String(b)) /\ N = Len(records)
                              /\ more = records'
    OBVIOUS
  <2>5. more = Append(records, e)
    BY <1>1, <1>3, <2>3, <2>4 DEF Recording
  <2>6. /\ N \in Nat /\ more \in Seq(R \cup {e}) /\ Len(more) = N + 1
        /\ \A i \in 1 .. N : more[i] = records[i]
        /\ more[N + 1] = e
    <3>1. records \in Seq(R \cup {e}) /\ N \in Nat
      <4>1. N \in Nat /\ records \in [1 .. N -> R]
        BY <2>1, <2>4, LenProperties
      <4>2. records \in [1 .. N -> R \cup {e}]
        BY <4>1
      <4> QED
        BY <4>1, <4>2, IsText
    <3> QED
      BY <2>4, <2>5, <3>1, AppendProperties
  <2>7. b \in [1 .. BUF_SIZE -> 0 .. NUL]
    BY <1>1, <2>4 DEF Reading
  <2>8. String(b) \in Seq(0 .. LF)
    BY <2>7, StringIs, TextOfTheFile
  <2>9. new \in Seq(0 .. LF) /\ new # << >> /\ new[1] \notin Space
    <3>1. new[1] = CLIENT_ID
      BY <2>4, <2>8, RecordBegins
    <3> QED
      BY <2>4, <2>8, <3>1, RecordBegins, NotSpaces
  <2>10. file' = file \o new
    <3>1. file' = write_cmd(file, b)
      BY <1>1, <1>3, <2>4 DEF Recording
    <3>2. file \in Seq(0 .. NUL - 1)
      BY DEF WireTypeOK
    <3> QED
      BY <2>4, <2>7, <3>1, <3>2, RecordIsWritten
  <2>11. /\ m \in 0 .. N /\ m \in Nat /\ Tails(f, m, file, records)
         /\ (m = N => f[m] = << >>) /\ (m < N => ~records[m + 1].clean)
    BY <2>2, <2>4, <2>6 DEF WholeRecords
  <2>12. \A i \in 1 .. m : more[i] = records[i]
    <3>1. \A i \in 1 .. m : i \in 1 .. N
      BY <2>6, <2>11
    <3> QED
      BY <2>6, <3>1
  <2>13. PICK h : Tails(h, m, file \o new, more) /\ h[m] = f[m] \o new
    <3>1. Behind(f, m, file, records, more, new)
      BY <2>9, <2>11, <2>12 DEF Behind
    <3> QED
      BY <3>1, TailsGrow
  <2>14. CASE m = N /\ e.clean
    <3>1. h[m] = new
      BY <2>9, <2>11, <2>13, <2>14, ConcatEmptySeq
    <3>2. offset = 0 /\ k = 1 /\ offset' = 0
      BY <2>3, <2>14
    <3>3. PICK c \in Cmds : /\ Len(inline_cmd(c)) <= BUF_SIZE /\ parse_cmd(b) = Meant(c)
                            /\ String(b) = inline_cmd(c) \o CRLF
      BY <1>1, <2>4, <3>2, CleanIsWhole
    <3>4. e.cmd = Meant(c) /\ new = Record(inline_cmd(c) \o CRLF)
      BY <2>3, <2>4, <3>3
    <3>5. new = Record(inline_cmd(c) \o CRLF) \o << >>
      BY <2>9, <3>4, ConcatEmptySeq
    <3>6. Holds(e.cmd, new, << >>)
      BY <3>3, <3>4, <3>5 DEF Holds
    <3>7. more[m + 1].clean /\ Holds(more[m + 1].cmd, h[m], << >>)
      BY <2>6, <2>14, <3>1, <3>6
    <3>8. PICK u : Tails(u, m + 1, file \o new, more) /\ u[m + 1] = << >>
      BY <2>11, <2>13, <3>7, TailsEnd
    <3>9. m + 1 \in 0 .. Len(more) /\ ~(m + 1 < Len(more))
      BY <2>6, <2>11, <2>14
    <3>10. WholeRecords(u, m + 1)'
      BY <2>4, <2>10, <3>8, <3>9 DEF WholeRecords, Tails, Holds, inline_cmd, Meant, Record
    <3> QED
      BY <2>4, <2>6, <3>10 DEF FileInv
  <2>15. CASE ~(m = N /\ e.clean)
    <3>1. ~more[m + 1].clean
      <4>1. CASE m = N
        BY <2>6, <2>15, <4>1
      <4>2. CASE m # N
        <5>1. m + 1 \in 1 .. N /\ m < N
          BY <2>6, <2>11, <4>2
        <5> QED
          BY <2>6, <2>11, <5>1
      <4> QED
        BY <4>1, <4>2
    <3>2. m \in 0 .. Len(more) /\ m # Len(more)
      BY <2>6, <2>11
    <3>3. WholeRecords(h, m)'
      BY <2>4, <2>10, <2>13, <3>1, <3>2 DEF WholeRecords, Tails, Holds
    <3> QED
      BY <2>4, <2>6, <3>3 DEF FileInv
  <2> QED
    BY <2>14, <2>15
<1> QED
  BY <1>2, <1>3

LEMMA FileIsWhole == Spec => []FileInv
<1>1. Init => FileInv
  <2> SUFFICES ASSUME Init PROVE FileInv
    OBVIOUS
  <2>1. PICK f : f = [k \in 0 .. 0 |-> << >>]
    OBVIOUS
  <2>2. /\ records = << >> /\ file = << >> /\ Len(records) = 0 /\ records \in Seq({})
        /\ << >> \in Seq(0 .. LF)
    BY EmptySeq DEF Init
  <2>3. f \in [0 .. 0 -> Seq(0 .. LF)] /\ f[0] = << >> /\ \A k \in 0 .. 0 : f[k] = << >>
    BY <2>1, <2>2
  <2>4. Tails(f, 0, file, records)
    BY <2>2, <2>3 DEF Tails
  <2>5. WholeRecords(f, 0)
    BY <2>2, <2>3, <2>4 DEF WholeRecords
  <2> QED
    BY <2>2, <2>5 DEF FileInv
<1>2. WireTypeOK /\ FileInv /\ [Next]_vars => FileInv'
  <2> SUFFICES ASSUME WireTypeOK, FileInv, [Next]_vars PROVE FileInv'
    OBVIOUS
  <2>1. CASE \E c \in Cmds : send_cmd_to(c)
    BY <2>1 DEF send_cmd_to, FileInv, WholeRecords
  <2>2. CASE \E n \in 1 .. Room : \E ok \in BOOLEAN : Read(n, ok)
    BY <2>2, ReadKeepsFile
  <2>3. CASE UNCHANGED vars
    BY <2>3 DEF vars, FileInv, WholeRecords
  <2> QED
    BY <2>1, <2>2, <2>3 DEF Next
<1> QED
  BY <1>1, <1>2, WireTypeCorrect, PTL DEF Spec

LEMMA LeftIs ==
  ASSUME NEW m \in Nat, NEW f, NEW recs, Tails(f, m, file, recs), NEW n \in 0 .. m
  PROVE  Left(n) = f[n]
<1> DEFINE Leaves(h) == h = [k \in 0 .. n |-> IF k = 0 THEN file ELSE read_cmd(h[k - 1]).rest]
<1>1. \A k \in 1 .. m : f[k] = read_cmd(f[k - 1]).rest
  <2>1. ASSUME NEW k \in 1 .. m PROVE f[k] = read_cmd(f[k - 1]).rest
    <3>1. k \in 0 .. m
      OBVIOUS
    <3>2. /\ f[k] \in Seq(0 .. LF) /\ (f[k] # << >> => f[k][1] \notin Space)
          /\ Holds(recs[k].cmd, f[k - 1], f[k])
      BY <3>1 DEF Tails
    <3>3. read_cmd(f[k - 1]) = [client_id |-> CLIENT_ID, cmd |-> recs[k].cmd, rest |-> f[k]]
      BY <3>2, HeldIsRead
    <3> QED
      BY <3>3
  <2> QED
    BY <2>1
<1>2. f[0] = file
  BY DEF Tails
<1>3. n \in Nat /\ 0 \in 0 .. n /\ n \in 0 .. n /\ \A k \in 0 .. n : k = 0 \/ (k \in 1 .. m /\ k - 1 \in 0 .. n)
  OBVIOUS
<1>4. \E h : Leaves(h)
  <2>1. PICK h : h = [k \in 0 .. n |-> f[k]]
    OBVIOUS
  <2>2. ASSUME NEW k \in 0 .. n
        PROVE  f[k] = IF k = 0 THEN file ELSE read_cmd(h[k - 1]).rest
    <3>1. CASE k = 0
      BY <1>2, <3>1
    <3>2. CASE k # 0
      <4>1. h[k - 1] = f[k - 1] /\ k \in 1 .. m
        BY <1>3, <2>1, <3>2
      <4> QED
        BY <1>1, <3>2, <4>1
    <3> QED
      BY <3>1, <3>2
  <2>3. Leaves(h)
    BY <2>1, <2>2
  <2> QED
    BY <2>3
<1>5. ASSUME NEW h, Leaves(h) PROVE h[n] = f[n]
  <2> DEFINE Same == { k \in Nat : h[k] = f[k] }
  <2>1. 0 \in Same
    BY <1>2, <1>3, <1>5
  <2>2. ASSUME NEW k \in 0 .. n - 1, k \in Same PROVE k + 1 \in Same
    <3>1. k + 1 \in 0 .. n /\ k + 1 # 0 /\ (k + 1) - 1 = k /\ k + 1 \in 1 .. m /\ k + 1 \in Nat
      OBVIOUS
    <3>2. h[k + 1] = read_cmd(h[k]).rest
      BY <1>5, <3>1
    <3>3. f[k + 1] = read_cmd(f[k]).rest
      BY <1>1, <3>1
    <3> QED
      BY <2>2, <3>1, <3>2, <3>3
  <2>3. \A k \in 0 .. n : k \in Same
    <3> HIDE DEF Same
    <3> QED
      BY <1>3, <2>1, <2>2, CountUp
  <2> QED
    BY <1>3, <2>3
<1>6. Left(n) = (CHOOSE h : Leaves(h))[n]
  BY DEF Left
<1> HIDE DEF Leaves
<1> QED
  BY <1>4, <1>5, <1>6

(* What is replayed after a restart is what was handled before it, record  *)
(* for record, up to the first that was not written from one whole         *)
(* command: of any commands, however often the reads were split            *)
(* (persistor.c:34-62, src/server/main.h:36-38).                          *)
THEOREM RecordsReadBack == Spec => []FileReadsBack
<1>1. FileInv => FileReadsBack
  <2> SUFFICES ASSUME FileInv, NEW n \in DOMAIN records,
                      \A k \in 1 .. n : records[k].clean
               PROVE  LET r == read_cmd(Left(n - 1))
                      IN  r.client_id = CLIENT_ID /\ r.cmd = records[n].cmd
    BY DEF FileReadsBack
  <2>1. PICK N : N = Len(records)
    OBVIOUS
  <2>2. N \in Nat /\ n \in 1 .. N
    <3>1. PICK R : records \in Seq(R)
      BY DEF FileInv
    <3> QED
      BY <2>1, <3>1, LenProperties
  <2>3. PICK f, m : WholeRecords(f, m)
    BY DEF FileInv
  <2>4. m \in 0 .. N /\ Tails(f, m, file, records) /\ (m < N => ~records[m + 1].clean)
    BY <2>1, <2>3 DEF WholeRecords
  <2>5. n <= m
    <3>1. SUFFICES ASSUME ~(n <= m) PROVE FALSE
      OBVIOUS
    <3>2. m < N /\ m + 1 \in 1 .. n
      BY <2>2, <2>4, <3>1
    <3> QED
      BY <2>4, <3>2
  <2>6. m \in Nat /\ n - 1 \in 0 .. m /\ n \in 1 .. m /\ n \in 0 .. m
    BY <2>2, <2>4, <2>5
  <2>7. Left(n - 1) = f[n - 1]
    BY <2>4, <2>6, LeftIs
  <2>8. /\ f[n] \in Seq(0 .. LF) /\ (f[n] # << >> => f[n][1] \notin Space)
        /\ Holds(records[n].cmd, f[n - 1], f[n])
    BY <2>4, <2>6 DEF Tails
  <2>9. read_cmd(f[n - 1]) = [client_id |-> CLIENT_ID, cmd |-> records[n].cmd, rest |-> f[n]]
    BY <2>8, HeldIsRead
  <2> QED
    BY <2>7, <2>9
<1> QED
  BY <1>1, FileIsWhole, PTL
=============================================================================
