------------------------- MODULE RewardEngineProofs -------------------------
(***************************************************************************)
(* Proofs about the reward engine for every value of the constants: the    *)
(* state keeps its type (every balance a natural number, every coinbase    *)
(* record a byte string) and an imported block gives a PoC member past its *)
(* 120% cap neither a PoC part nor AllPocBalance.                          *)
(*                                                                         *)
(* The engine's arithmetic is over folds of the community modules          *)
(* (SumFunction, FoldLeft, FlattenSeq) and the recursive function          *)
(* IntBytes.  The first part proves what each of them returns from the     *)
(* equation of its recursive definition, got from WFInductiveDef, and a    *)
(* least counterexample (WFMin).                                           *)
(***************************************************************************)
EXTENDS RewardEngine, FiniteSetTheorems, WellFoundedInduction,
        NaturalsInduction, SequenceTheorems, TLAPS

-----------------------------------------------------------------------------
(* The sum of a function with a finite domain and natural values is a     *)
(* natural number: SumFunction folds + over the domain, one element at a  *)
(* time, by a recursive function on the subsets of the domain.             *)
LEMMA SumFunctionNat ==
  ASSUME NEW fun, IsFiniteSet(DOMAIN fun), \A i \in DOMAIN fun : fun[i] \in Nat
  PROVE  SumFunction(fun) \in Nat
<1> DEFINE S == DOMAIN fun
           Def(g, s) == IF s = {} THEN 0
                        ELSE LET x == CHOOSE x \in s : TRUE IN fun[x] + g[s \ {x}]
           iter == CHOOSE iter : iter = [s \in SUBSET S |-> Def(iter, s)]
           R == StrictSubsetOrdering(S)
<1>1. SumFunction(fun) = iter[S]
  BY DEF SumFunction, SumFunctionOnSet, FoldFunctionOnSet, MapThenFoldSet
<1>2. IsWellFoundedOn(R, SUBSET S)
  BY FS_StrictSubsetOrderingWellFounded, FS_FiniteSubsetsOfFinite
<1>3. WFDefOn(R, SUBSET S, Def)
  <2> SUFFICES ASSUME NEW g, NEW h, NEW s \in SUBSET S,
                      \A y \in SetLessThan(s, R, SUBSET S) : g[y] = h[y]
               PROVE  Def(g, s) = Def(h, s)
    BY DEF WFDefOn
  <2>1. CASE s = {}
    BY <2>1
  <2>2. CASE s # {}
    <3> DEFINE x == CHOOSE x \in s : TRUE
    <3>1. s \ {x} \in SetLessThan(s, R, SUBSET S)
      BY <2>2 DEF SetLessThan, StrictSubsetOrdering
    <3>2. QED
      BY <2>2, <3>1
  <2>3. QED
    BY <2>1, <2>2
<1>4. WFInductiveDefines(iter, SUBSET S, Def)
  <2>1. OpDefinesFcn(iter, SUBSET S, Def)
    BY DEF OpDefinesFcn
  <2> HIDE DEF Def, iter, R, S
  <2>2. QED
    BY <1>2, <1>3, <2>1, WFInductiveDef
<1>5. \A s \in SUBSET S : iter[s] \in Nat
  <2> SUFFICES ASSUME \E s \in SUBSET S : iter[s] \notin Nat PROVE FALSE
    OBVIOUS
  <2> DEFINE Bad == {s \in SUBSET S : iter[s] \notin Nat}
  <2>1. PICK m \in Bad : \A y \in Bad : ~(<<y, m>> \in R)
    <3>1. Bad \subseteq SUBSET S /\ Bad # {}
      OBVIOUS
    <3> HIDE DEF R, Bad
    <3>2. QED
      BY <3>1, <1>2, WFMin
  <2>2. iter[m] = Def(iter, m)
    BY <1>4 DEF WFInductiveDefines
  <2>3. m # {}
    BY <2>1, <2>2
  <2> DEFINE x == CHOOSE x \in m : TRUE
  <2>4. x \in m /\ <<m \ {x}, m>> \in R
    BY <2>3 DEF StrictSubsetOrdering
  <2>5. iter[m \ {x}] \in Nat
    BY <2>1, <2>4
  <2>6. QED
    BY <2>1, <2>2, <2>3, <2>4, <2>5
<1>6. QED
  BY <1>1, <1>5

(* A non-empty set of positions 1..n has a largest element, which Max      *)
(* picks: FoldLeft takes the positions from the last one down.            *)
LEMMA MaxOfPositions ==
  ASSUME NEW n \in Nat, NEW s \in SUBSET (1 .. n), s # {}
  PROVE  Max(s) \in s /\ \A y \in s : y <= Max(s)
<1> DEFINE T == {n - x : x \in s}
<1>1. T \subseteq Nat /\ T # {}
  OBVIOUS
<1>2. PICK m \in T : \A y \in T : ~(<<y, m>> \in OpToRel(<, Nat))
  BY <1>1, NatLessThanWellFounded, WFMin
<1>3. PICK x0 \in s : m = n - x0
  OBVIOUS
<1>4. \A y \in s : y <= x0
  <2> SUFFICES ASSUME NEW y \in s, y > x0 PROVE FALSE
    OBVIOUS
  <2>1. n - y \in T /\ n - y < m /\ n - y \in Nat /\ m \in Nat
    BY <1>3
  <2>2. QED
    BY <1>2, <2>1 DEF OpToRel
<1>5. \E x \in s : \A y \in s : x >= y
  BY <1>4
<1>6. QED
  BY <1>5 DEF Max

(* The fee pool of accumulateRewards stays a natural number: FoldLeft      *)
(* applies fee = (fee + gasPrice * gas) * 70 / 100 from the last          *)
(* transaction down, by a recursive function on the sets of positions.    *)
LEMMA FeeFoldNat ==
  ASSUME NEW base \in Nat, NEW fees \in Seq(Nat)
  PROVE  FoldLeft(LAMBDA f, t : ((f + t) * 70) \div 100, base, fees) \in Nat
<1> DEFINE S == DOMAIN fees
           Def(g, s) == IF s = {} THEN base
                        ELSE LET x == Max(s) IN ((g[s \ {x}] + fees[x]) * 70) \div 100
           iter == CHOOSE iter : iter = [s \in SUBSET S |-> Def(iter, s)]
           R == StrictSubsetOrdering(S)
<1>1. FoldLeft(LAMBDA f, t : ((f + t) * 70) \div 100, base, fees) = iter[S]
  BY DEF FoldLeft, MapThenFoldSet
<1>2. S = 1 .. Len(fees) /\ Len(fees) \in Nat /\ IsFiniteSet(S)
  BY LenProperties, FS_Interval
<1>3. IsWellFoundedOn(R, SUBSET S)
  BY <1>2, FS_StrictSubsetOrderingWellFounded, FS_FiniteSubsetsOfFinite
<1>4. \A s \in SUBSET S : s # {} => Max(s) \in s /\ <<s \ {Max(s)}, s>> \in R
  <2> SUFFICES ASSUME NEW s \in SUBSET S, s # {}
               PROVE  Max(s) \in s /\ <<s \ {Max(s)}, s>> \in R
    OBVIOUS
  <2>1. s \in SUBSET (1 .. Len(fees)) /\ s # {}
    BY <1>2
  <2>2. Max(s) \in s
    BY <1>2, <2>1, MaxOfPositions
  <2>3. QED
    BY <2>2 DEF StrictSubsetOrdering
<1>5. WFDefOn(R, SUBSET S, Def)
  <2> SUFFICES ASSUME NEW g, NEW h, NEW s \in SUBSET S,
                      \A y \in SetLessThan(s, R, SUBSET S) : g[y] = h[y]
               PROVE  Def(g, s) = Def(h, s)
    BY DEF WFDefOn
  <2>1. CASE s = {}
    BY <2>1
  <2>2. CASE s # {}
    <3>1. s \ {Max(s)} \in SetLessThan(s, R, SUBSET S)
      BY <2>2, <1>4 DEF SetLessThan
    <3>2. QED
      BY <2>2, <3>1
  <2>3. QED
    BY <2>1, <2>2
<1>6. WFInductiveDefines(iter, SUBSET S, Def)
  <2>1. OpDefinesFcn(iter, SUBSET S, Def)
    BY DEF OpDefinesFcn
  <2> HIDE DEF Def, iter, R, S
  <2>2. QED
    BY <1>3, <1>5, <2>1, WFInductiveDef
<1>7. \A s \in SUBSET S : iter[s] \in Nat
  <2> SUFFICES ASSUME \E s \in SUBSET S : iter[s] \notin Nat PROVE FALSE
    OBVIOUS
  <2> DEFINE Bad == {s \in SUBSET S : iter[s] \notin Nat}
  <2>1. PICK m \in Bad : \A y \in Bad : ~(<<y, m>> \in R)
    <3>1. Bad \subseteq SUBSET S /\ Bad # {}
      OBVIOUS
    <3> HIDE DEF R, Bad
    <3>2. QED
      BY <3>1, <1>3, WFMin
  <2>2. iter[m] = Def(iter, m)
    BY <1>6 DEF WFInductiveDefines
  <2>3. m # {}
    BY <2>1, <2>2
  <2>4. Max(m) \in m /\ <<m \ {Max(m)}, m>> \in R
    BY <2>3, <1>4
  <2>5. iter[m \ {Max(m)}] \in Nat
    BY <2>1, <2>4
  <2>6. fees[Max(m)] \in Nat
    BY <2>4, <1>2
  <2>7. QED
    <3> HIDE DEF iter
    <3>1. iter[m] \notin Nat
      BY <2>1
    <3>2. iter[m] = ((iter[m \ {Max(m)}] + fees[Max(m)]) * 70) \div 100
      BY <2>2, <2>3
    <3>3. \A a, b \in Nat : ((a + b) * 70) \div 100 \in Nat
      OBVIOUS
    <3>4. QED
      BY <2>5, <2>6, <3>1, <3>2, <3>3
<1>8. QED
  BY <1>1, <1>7

(* Concatenating sequences over T gives a sequence over T: FlattenSeq     *)
(* appends seqs[i] to the concatenation of the ones before it, by a        *)
(* recursive function on 1 .. Len(seqs).                                   *)
LEMMA FlattenSeqType ==
  ASSUME NEW T, NEW seqs \in Seq(Seq(T))
  PROVE  FlattenSeq(seqs) \in Seq(T)
<1> DEFINE n == Len(seqs)
           S == 1 .. n
           Def(g, i) == IF i = 1 THEN seqs[i] ELSE g[i - 1] \o seqs[i]
           flatten == CHOOSE flatten : flatten = [i \in S |-> Def(flatten, i)]
           R == OpToRel(<, Nat)
<1>1. n \in Nat /\ DOMAIN seqs = S
  BY LenProperties
<1>2. CASE n = 0
  <2>1. seqs = << >>
    BY <1>1, <1>2, EmptySeq
  <2>2. QED
    BY <1>2, <2>1, EmptySeq DEF FlattenSeq
<1>3. CASE n # 0
  <2>1. FlattenSeq(seqs) = flatten[n]
    BY <1>3 DEF FlattenSeq
  <2>2. IsWellFoundedOn(R, S)
    <3>1. S \subseteq Nat
      BY <1>1
    <3> HIDE DEF S
    <3>2. QED
      BY <3>1, NatLessThanWellFounded, IsWellFoundedOnSubset, Zenon
  <2>3. WFDefOn(R, S, Def)
    <3> SUFFICES ASSUME NEW g, NEW h, NEW i \in S,
                        \A y \in SetLessThan(i, R, S) : g[y] = h[y]
                 PROVE  Def(g, i) = Def(h, i)
      BY DEF WFDefOn
    <3>1. i # 1 => i - 1 \in SetLessThan(i, R, S)
      BY <1>1 DEF SetLessThan, OpToRel
    <3>2. QED
      BY <3>1
  <2>4. WFInductiveDefines(flatten, S, Def)
    <3>1. OpDefinesFcn(flatten, S, Def)
      BY DEF OpDefinesFcn
    <3> HIDE DEF Def, flatten, R, S
    <3>2. QED
      BY <2>2, <2>3, <3>1, WFInductiveDef
  <2> HIDE DEF flatten
  <2>5. \A i \in S : flatten[i] \in Seq(T)
    <3> SUFFICES ASSUME \E i \in S : flatten[i] \notin Seq(T) PROVE FALSE
      OBVIOUS
    <3> DEFINE Bad == {i \in S : flatten[i] \notin Seq(T)}
    <3>1. PICK m \in Bad : \A y \in Bad : ~(<<y, m>> \in R)
      <4>1. Bad \subseteq S /\ Bad # {}
        OBVIOUS
      <4> HIDE DEF R, Bad, S
      <4>2. QED
        BY <4>1, <2>2, WFMin
    <3>2. flatten[m] = Def(flatten, m)
      BY <2>4 DEF WFInductiveDefines
    <3>3. seqs[m] \in Seq(T)
      BY <1>1
    <3>4. CASE m = 1
      BY <3>1, <3>2, <3>3, <3>4
    <3>5. CASE m # 1
      <4>1. m - 1 \in S /\ <<m - 1, m>> \in R
        BY <3>5, <1>1 DEF OpToRel
      <4>2. flatten[m - 1] \in Seq(T)
        BY <3>1, <4>1
      <4>3. flatten[m] = flatten[m - 1] \o seqs[m]
        BY <3>2, <3>5
      <4>4. QED
        BY <3>1, <3>3, <4>2, <4>3, ConcatProperties
    <3>6. QED
      BY <3>4, <3>5
  <2>6. QED
    BY <1>1, <1>3, <2>1, <2>5
<1>4. QED
  BY <1>2, <1>3

-----------------------------------------------------------------------------
(* The codec.  A byte is a digit below ByteBase.                           *)
Byte == 0 .. ByteBase - 1

(* big.Int.Bytes() of a natural number is a string of bytes: IntBytes      *)
(* recurses on x \div ByteBase, which is below x once x > 0.               *)
LEMMA IntBytesType ==
  \A x \in Nat : IntBytes[x] \in Seq(Byte)
<1> USE CodecAssumption
<1> DEFINE Def(g, x) == IF x = 0 THEN << >> ELSE g[x \div ByteBase] \o << x % ByteBase >>
           R == OpToRel(<, Nat)
<1>1. WFDefOn(R, Nat, Def)
  <2> SUFFICES ASSUME NEW g, NEW h, NEW x \in Nat,
                      \A y \in SetLessThan(x, R, Nat) : g[y] = h[y]
               PROVE  Def(g, x) = Def(h, x)
    BY DEF WFDefOn
  <2>1. x # 0 => x \div ByteBase \in SetLessThan(x, R, Nat)
    BY DEF SetLessThan, OpToRel
  <2>2. QED
    BY <2>1
<1>2. WFInductiveDefines(IntBytes, Nat, Def)
  <2>1. OpDefinesFcn(IntBytes, Nat, Def)
    BY DEF OpDefinesFcn, IntBytes
  <2> HIDE DEF Def
  <2>2. QED
    BY <1>1, <2>1, NatLessThanWellFounded, WFInductiveDef, Zenon
<1> SUFFICES ASSUME \E x \in Nat : IntBytes[x] \notin Seq(Byte) PROVE FALSE
  OBVIOUS
<1> DEFINE Bad == {x \in Nat : IntBytes[x] \notin Seq(Byte)}
<1>3. PICK m \in Bad : \A y \in Bad : ~(<<y, m>> \in R)
  <2>1. Bad \subseteq Nat /\ Bad # {}
    OBVIOUS
  <2> HIDE DEF Bad
  <2>2. QED
    BY <2>1, NatLessThanWellFounded, WFMin, Zenon
<1>4. IntBytes[m] = Def(IntBytes, m)
  <2> HIDE DEF Def
  <2>1. QED
    BY <1>2 DEF WFInductiveDefines
<1>5. m # 0
  BY <1>3, <1>4, EmptySeq
<1>6. m \div ByteBase \in Nat /\ <<m \div ByteBase, m>> \in R /\ m % ByteBase \in Byte
  BY <1>5 DEF OpToRel, Byte
<1>7. IntBytes[m \div ByteBase] \in Seq(Byte)
  BY <1>3, <1>6
<1>8. IntBytes[m \div ByteBase] \o << m % ByteBase >> \in Seq(Byte)
  <2>1. Append(IntBytes[m \div ByteBase], m % ByteBase) \in Seq(Byte)
    BY <1>6, <1>7, AppendProperties
  <2>2. QED
    BY <1>6, <1>7, <2>1, AppendIsConcat
<1>9. QED
  BY <1>3, <1>4, <1>5, <1>8

(* FormatUint64Bytes of a natural number is FieldBytes bytes: the padding *)
(* makes up for a short Bytes(), and b[:8] cuts a long one.                *)
LEMMA FormatType ==
  ASSUME NEW x \in Nat
  PROVE  FormatUint64Bytes(x) \in Seq(Byte)
<1> USE CodecAssumption
<1> DEFINE ib == IntBytes[x]
           l == Len(ib)
           pad == IF l < FieldBytes THEN [i \in 1 .. FieldBytes - l |-> 0] ELSE << >>
<1>1. ib \in Seq(Byte) /\ l \in Nat
  BY IntBytesType, LenProperties
<1>2. pad \in Seq(Byte) /\ Len(pad) = IF l < FieldBytes THEN FieldBytes - l ELSE 0
  <2>1. CASE l < FieldBytes
    <3>1. [i \in 1 .. FieldBytes - l |-> 0] \in Seq(Byte)
      BY <1>1, <2>1, IsASeq DEF Byte
    <3>2. QED
      BY <1>1, <2>1, <3>1
  <2>2. CASE ~(l < FieldBytes)
    BY <2>2, EmptySeq
  <2>3. QED
    BY <2>1, <2>2
<1>3. pad \o ib \in Seq(Byte) /\ Len(pad \o ib) >= FieldBytes
  BY <1>1, <1>2, ConcatProperties
<1>4. \A i \in 1 .. FieldBytes : (pad \o ib)[i] \in Byte
  <2> SUFFICES ASSUME NEW i \in 1 .. FieldBytes PROVE (pad \o ib)[i] \in Byte
    OBVIOUS
  <2>1. i \in 1 .. Len(pad \o ib)
    BY <1>3, LenProperties
  <2> HIDE DEF pad, ib
  <2>2. QED
    BY <1>3, <2>1, ElementOfSeq
<1>5. QED
  <2>1. SubSeq(pad \o ib, 1, FieldBytes) \in Seq(Byte)
    BY <1>4, SubSeqProperties
  <2>2. QED
    BY <2>1 DEF FormatUint64Bytes

(* The addresses are finite: Users and the zero address.                  *)
LEMMA AccountsFinite ==
  IsFiniteSet(Accounts)
BY InputAssumption, FS_AddElement DEF Accounts

(* A coinbase record map as NUCReward4 builds it: addresses to natural    *)
(* PoC, PoW and pool parts.                                                *)
IsCtxs(c) ==
  /\ DOMAIN c \subseteq Accounts
  /\ \A a \in DOMAIN c : c[a] \in [poc : Nat, pow : Nat, pool : Nat]

(* CoinbaseTxs.Encode, in any iteration order of the map, yields a byte   *)
(* string: each entry is an address followed by three fields of bytes.     *)
LEMMA EncodeType ==
  ASSUME NEW c, IsCtxs(c), NEW order \in EncodeOrders(c)
  PROVE  Encode(c, order) \in Bytes
<1> DEFINE Sym == Accounts \cup Byte
<1>1. Cardinality(DOMAIN c) \in Nat
  BY AccountsFinite, FS_Subset, FS_CardinalityType DEF IsCtxs
<1>2. order \in Seq(DOMAIN c)
  <2>1. order \in [1 .. Cardinality(DOMAIN c) -> DOMAIN c]
    BY DEF EncodeOrders, SetToSeqs
  <2>2. QED
    BY <1>1, <2>1
<1>3. ASSUME NEW a \in DOMAIN c
      PROVE  EncodeEntry(a, c[a]) \in Seq(Sym)
  <2>1. c[a] \in [poc : Nat, pow : Nat, pool : Nat] /\ a \in Accounts
    BY DEF IsCtxs
  <2>2. /\ FormatUint64Bytes(c[a].poc) \in Seq(Sym)
        /\ FormatUint64Bytes(c[a].pow) \in Seq(Sym)
        /\ FormatUint64Bytes(c[a].pool) \in Seq(Sym)
    BY <2>1, FormatType, SeqMonotonic
  <2>3. << a >> \in Seq(Sym)
    BY <2>1
  <2>4. QED
    BY <2>2, <2>3, ConcatProperties DEF EncodeEntry
<1>4. [i \in 1 .. Len(order) |-> EncodeEntry(order[i], c[order[i]])] \in Seq(Seq(Sym))
  <2>1. Len(order) \in Nat /\ \A i \in 1 .. Len(order) : order[i] \in DOMAIN c
    BY <1>2, LenProperties
  <2>2. QED
    BY <2>1, <1>3, IsASeq
<1>5. QED
  BY <1>4, FlattenSeqType DEF Encode, Bytes, Byte

-----------------------------------------------------------------------------
(* The pagers.                                                             *)

(* Min picks the least of a non-empty set of naturals: the first failing *)
(* page.                                                                   *)
LEMMA MinOfNats ==
  ASSUME NEW s \in SUBSET Nat, s # {}
  PROVE  Min(s) \in s /\ \A y \in s : Min(s) <= y
<1>1. PICK m \in s : \A y \in s : ~(<<y, m>> \in OpToRel(<, Nat))
  BY NatLessThanWellFounded, WFMin
<1>2. \A y \in s : m <= y
  <2> SUFFICES ASSUME NEW y \in s, y < m PROVE FALSE
    OBVIOUS
  <2>1. <<y, m>> \in OpToRel(<, Nat)
    BY DEF OpToRel
  <2>2. QED
    BY <1>1, <2>1
<1>3. QED
  BY <1>2 DEF Min

(* Min of two integers is one of them and bounds both.                    *)
LEMMA MinOfPair ==
  ASSUME NEW a \in Int, NEW b \in Int
  PROVE  Min({a, b}) \in {a, b} /\ Min({a, b}) <= a /\ Min({a, b}) <= b
<1>1. \E x \in {a, b} : \A y \in {a, b} : x <= y
  <2>1. CASE a <= b
    BY <2>1
  <2>2. CASE b < a
    BY <2>2
  <2>3. QED
    BY <2>1, <2>2
<1>2. QED
  BY <1>1 DEF Min

(* What a pager returns is entries of the list: the pages before the      *)
(* first failing one, each a slice of the list or nothing.                 *)
LEMMA GatherType ==
  ASSUME NEW E, NEW list \in Seq(E), NEW outcome
  PROVE  Gather(list, outcome) \in Seq({list[i] : i \in 1 .. Len(list)})
<1> DEFINE L == {list[i] : i \in 1 .. Len(list)}
           pages == (Len(list) + PageSize - 1) \div PageSize
           failed == {p \in 1 .. pages : outcome.pages[p] = "fails"}
           upto == IF failed = {} THEN pages ELSE Min(failed) - 1
           page(p) == IF outcome.pages[p] = "garbled" THEN << >>
                      ELSE SubSeq(list, (p - 1) * PageSize + 1,
                                        Min({p * PageSize, Len(list)}))
<1>1. Len(list) \in Nat /\ PageSize \in Nat \ {0}
  BY LenProperties, RewardAssumption
<1>2. pages \in Nat /\ failed \subseteq 1 .. pages
  BY <1>1
<1> HIDE DEF pages, failed
<1>3. upto \in 0 .. pages
  <2>1. CASE failed # {}
    <3>1. failed \in SUBSET Nat
      BY <1>2
    <3>2. Min(failed) \in 1 .. pages
      BY <2>1, <1>2, <3>1, MinOfNats
    <3>3. QED
      BY <1>2, <2>1, <3>2 DEF upto
  <2>2. QED
    BY <2>1, <1>2 DEF upto
<1> HIDE DEF upto
<1>4. ASSUME NEW p \in 1 .. upto
      PROVE  page(p) \in Seq(L)
  <2> DEFINE lo == (p - 1) * PageSize + 1
             hi == Min({p * PageSize, Len(list)})
  <2>1. p \in Nat \ {0} /\ p * PageSize \in Int
    BY <1>1, <1>2, <1>3
  <2>2. lo \in Int /\ lo >= 1
    BY <1>1, <2>1
  <2>3. hi \in Int /\ hi <= Len(list)
    <3>1. Len(list) \in Int /\ p * PageSize \in Int
      BY <1>1, <2>1
    <3>2. hi \in {p * PageSize, Len(list)} /\ hi <= Len(list)
      BY <3>1, MinOfPair, Zenon DEF hi
    <3>3. QED
      BY <1>1, <2>1, <3>2
  <2> HIDE DEF lo, hi
  <2>4. \A i \in lo .. hi : list[i] \in L
    BY <2>2, <2>3
  <2>5. SubSeq(list, lo, hi) \in Seq(L)
    BY <2>2, <2>3, <2>4, SubSeqProperties
  <2>6. << >> \in Seq(L)
    BY EmptySeq
  <2>7. QED
    BY <2>5, <2>6 DEF lo, hi
<1>5. [p \in 1 .. upto |-> page(p)] \in Seq(Seq(L))
  <2>1. upto \in Nat
    BY <1>2, <1>3
  <2> HIDE DEF page, L
  <2>2. QED
    BY <2>1, <1>4, IsASeq
<1>6. << >> \in Seq(L)
  BY EmptySeq
<1>7. QED
  BY <1>5, <1>6, FlattenSeqType DEF Gather, pages, failed, upto

(* A member map as MiningUsers leaves it: addresses to a natural weight   *)
(* and a bound flag.                                                       *)
IsMembers(ms) ==
  /\ DOMAIN ms \subseteq Accounts
  /\ \A a \in DOMAIN ms : ms[a].weight \in Nat /\ ms[a].bind \in BOOLEAN

(* The map GetAllPocers3 and GetAllPowers3 build from the entries they     *)
(* keep is a member map.                                                   *)
LEMMA MemberMapType ==
  ASSUME NEW got, NEW ok,
         \A i \in ok : got[i].user \in Accounts /\ got[i].records \in Nat
  PROVE  IsMembers([a \in {got[i].user : i \in ok} |->
                      Member(got[CHOOSE i \in ok : got[i].user = a])])
<1>1. ASSUME NEW a \in {got[i].user : i \in ok}
      PROVE  /\ a \in Accounts
             /\ Member(got[CHOOSE i \in ok : got[i].user = a]).weight \in Nat
             /\ Member(got[CHOOSE i \in ok : got[i].user = a]).bind \in BOOLEAN
  <2>1. (CHOOSE i \in ok : got[i].user = a) \in ok
    OBVIOUS
  <2>2. QED
    BY <2>1 DEF Member
<1>2. QED
  BY <1>1 DEF IsMembers

(* The entries a pager returns are entries of the registry's list.        *)
LEMMA GatherEntries ==
  ASSUME NEW E, NEW list \in Seq(E), NEW outcome
  PROVE  LET got == Gather(list, outcome)
         IN  \A i \in 1 .. Len(got) : got[i] \in E /\ \E j \in 1 .. Len(list) : got[i] = list[j]
<1> DEFINE got == Gather(list, outcome)
<1>1. got \in Seq({list[j] : j \in 1 .. Len(list)})
  BY GatherType
<1>2. \A i \in 1 .. Len(got) : \E j \in 1 .. Len(list) : got[i] = list[j]
  BY <1>1, ElementOfSeq
<1>3. QED
  BY <1>2, ElementOfSeq

(* The members of the three classes, for a registry answer of the input.  *)
LEMMA ClassesType ==
  ASSUME NEW reg \in Registries, NEW ap
  PROVE  /\ IsMembers(AllPocers3(reg, ap))
         /\ IsMembers(AllPowers3(reg))
         /\ AllPoolers3(reg) \subseteq Accounts
<1>1. IsMembers(AllPocers3(reg, ap))
  <2> DEFINE got == Gather(reg.pocers, reg.pocCall)
  <2>1. reg.pocers \in Seq([user : Accounts, records : Nat, stake : Nat, bind : Accounts])
    BY InputAssumption
  <2>2. \A i \in 1 .. Len(got) : got[i].user \in Accounts /\ got[i].records \in Nat
    <3> DEFINE Entry == [user : Accounts, records : Nat, stake : Nat, bind : Accounts]
    <3>1. \A i \in 1 .. Len(got) : got[i] \in Entry
      BY <2>1, GatherEntries
    <3>2. QED
      BY <3>1
  <2>3. QED
    BY <2>2, MemberMapType DEF AllPocers3
<1>2. IsMembers(AllPowers3(reg))
  <2> DEFINE got == Gather(reg.powers, reg.powCall)
  <2>1. reg.powers \in Seq([user : Accounts, records : Nat, bind : Accounts])
    BY InputAssumption
  <2>2. \A i \in 1 .. Len(got) : got[i].user \in Accounts /\ got[i].records \in Nat
    <3> DEFINE Entry == [user : Accounts, records : Nat, bind : Accounts]
    <3>1. \A i \in 1 .. Len(got) : got[i] \in Entry
      BY <2>1, GatherEntries
    <3>2. QED
      BY <3>1
  <2>3. QED
    BY <2>2, MemberMapType DEF AllPowers3
<1>3. AllPoolers3(reg) \subseteq Accounts
  <2> DEFINE got == Gather(reg.poolers, reg.poolCall)
  <2>0. reg.poolers \in Seq(Accounts)
    BY InputAssumption
  <2>1. \A i \in 1 .. Len(got) : got[i] \in Accounts
    BY <2>0, GatherEntries
  <2>2. QED
    BY <2>1, GatherType, LenProperties DEF AllPoolers3, Range
<1>4. QED
  BY <1>1, <1>2, <1>3

-----------------------------------------------------------------------------
(* The rewards.                                                            *)

(* A member's share, its pool's cut and what it keeps are natural numbers, *)
(* and so is what a pool is forwarded: the cut is 10% of the share,       *)
(* rounded down, so never more than the share.                             *)
LEMMA CutsNat ==
  ASSUME NEW ms, IsMembers(ms), NEW R \in Nat
  PROVE  /\ \A a \in DOMAIN ms : /\ Share(ms, R, a) \in Nat
                                 /\ PoolCut(ms, R, a) \in Nat
                                 /\ UserCut(ms, R, a) \in Nat
         /\ \A p : Forwarded(ms, R, p) \in Nat
<1>1. IsFiniteSet(DOMAIN ms)
  BY AccountsFinite, FS_Subset DEF IsMembers
<1>2. SumFunction([b \in DOMAIN ms |-> ms[b].weight]) \in Nat
  BY <1>1, SumFunctionNat DEF IsMembers
<1>3. ASSUME NEW a \in DOMAIN ms
      PROVE  /\ Share(ms, R, a) \in Nat
             /\ PoolCut(ms, R, a) \in Nat
             /\ UserCut(ms, R, a) \in Nat
  <2>1. Share(ms, R, a) \in Nat
    BY <1>2 DEF Share, IsMembers
  <2>2. ms[a].bind => PoolCut(ms, R, a) = (Share(ms, R, a) * 10) \div 100
    BY DEF PoolCut
  <2>3. ~ms[a].bind => PoolCut(ms, R, a) = 0
    BY DEF PoolCut
  <2>4. ms[a].bind \in BOOLEAN
    BY DEF IsMembers
  <2>5. QED
    BY <2>1, <2>2, <2>3, <2>4 DEF UserCut
<1>4. ASSUME NEW p
      PROVE  Forwarded(ms, R, p) \in Nat
  <2> DEFINE D == {b \in DOMAIN ms : ms[b].bind /\ ms[b].pool = p}
  <2>1. IsFiniteSet(D)
    BY <1>1, FS_Subset
  <2>2. QED
    BY <2>1, <1>3, SumFunctionNat DEF Forwarded
<1>5. QED
  BY <1>3, <1>4

(* GetRewardByType3 of a natural reward is a natural number.              *)
LEMMA RewardByTypeNat ==
  ASSUME NEW reg \in Registries, NEW reward \in Nat, NEW n
  PROVE  GetRewardByType3(reward, reg.ratio, n) \in Nat
<1>1. reg.ratio \in Nat \cup {CallFails} /\ (reg.ratio \in Nat => 2 ^ reg.ratio \in Nat \ {0})
  BY InputAssumption
<1>2. QED
  BY <1>1 DEF GetRewardByType3, CallFails

(* NUCReward4 builds a coinbase record map.                               *)
LEMMA NUCRewardType ==
  ASSUME NEW reg \in Registries, NEW ap, NEW n
  PROVE  IsCtxs(NUCReward4(reg, ap, n))
<1> DEFINE poolers == AllPoolers3(reg)
           pocers == AllPocers3(reg, ap)
           powers == AllPowers3(reg)
           pocR == GetRewardByType3(PocBlockReward, reg.ratio, n)
           powR == GetRewardByType3(PowBlockReward, reg.ratio, n)
<1>1. IsMembers(pocers) /\ IsMembers(powers) /\ poolers \subseteq Accounts
  BY ClassesType
<1>2. pocR \in Nat /\ powR \in Nat
  BY RewardAssumption, RewardByTypeNat
<1>3. /\ \A a \in DOMAIN pocers : UserCut(pocers, pocR, a) \in Nat
      /\ \A a \in DOMAIN powers : UserCut(powers, powR, a) \in Nat
      /\ \A a : Forwarded(pocers, pocR, a) + Forwarded(powers, powR, a) \in Nat
  BY <1>1, <1>2, CutsNat
<1>4. QED
  BY <1>1, <1>3 DEF NUCReward4, IsCtxs, IsMembers

(* Every address is credited a natural amount by accumulateRewards: its  *)
(* uncle rewards ((8 - depth) / 8 of blockReward, the uncles being at most *)
(* 6 deep), its parts and powFee share, and for the sink the top-up and    *)
(* the team fee.                                                           *)
LEMMA CreditNat ==
  ASSUME NEW c, IsCtxs(c), NEW uncles \in UncleLists, NEW fees \in TxFeeLists,
         NEW n \in Int
  PROVE  Credit(c, uncles, fees, n) \in [Accounts -> Nat]
<1> USE RewardAssumption
<1>1. uncles \in Seq([depth : 1 .. 6, coinbase : Accounts]) /\ fees \in Seq(Nat)
  BY InputAssumption
<1>2. \A x \in Accounts : UncleCredit(uncles, n, x) \in Nat
  <2> SUFFICES ASSUME NEW x \in Accounts PROVE UncleCredit(uncles, n, x) \in Nat
    OBVIOUS
  <2> DEFINE D == {j \in 1 .. Len(uncles) : uncles[j].coinbase = x}
  <2>1. Len(uncles) \in Nat
    BY <1>1, LenProperties
  <2>2. IsFiniteSet(1 .. Len(uncles))
    BY <2>1, FS_Interval
  <2>3. IsFiniteSet(D) /\ D \subseteq 1 .. Len(uncles)
    BY <2>2, FS_Subset
  <2>4. \A i \in D : UncleReward(uncles[i], n) \in Nat
    <3> SUFFICES ASSUME NEW i \in D PROVE UncleReward(uncles[i], n) \in Nat
      OBVIOUS
    <3>1. uncles[i] \in [depth : 1 .. 6, coinbase : Accounts]
      BY <1>1, <2>3, ElementOfSeq
    <3>2. (n - uncles[i].depth) + 8 - n \in Nat
      BY <3>1
    <3>3. ((n - uncles[i].depth) + 8 - n) * FrontierBlockReward \in Nat
      BY <3>2
    <3>4. QED
      BY <3>3 DEF UncleReward
  <2> HIDE DEF D
  <2>5. QED
    BY <2>3, <2>4, SumFunctionNat DEF UncleCredit, D
<1>3. Fee(uncles, fees) \in Nat /\ TeamFee(uncles, fees) \in Nat
  <2>1. Len(uncles) * (FrontierBlockReward \div 32) \in Nat
    BY <1>1, LenProperties
  <2>2. Fee(uncles, fees) \in Nat
    BY <1>1, <2>1, FeeFoldNat DEF Fee
  <2>3. QED
    BY <2>2 DEF TeamFee
<1>4. PowFeeShare(c, uncles, fees) \in Nat
  <2>1. IsFiniteSet(DOMAIN c)
    BY AccountsFinite, FS_Subset DEF IsCtxs
  <2>2. DOMAIN c # {} => Cardinality(DOMAIN c) \in Nat \ {0}
    BY <2>1, FS_CardinalityType, FS_EmptySet
  <2>3. QED
    BY <1>3, <2>2 DEF PowFeeShare
<1>5. \A a \in DOMAIN c : Paid(c, PowFeeShare(c, uncles, fees), a) \in Nat
  BY <1>4 DEF Paid, IsCtxs
<1>6. SumFunction([a \in DOMAIN c |-> Paid(c, PowFeeShare(c, uncles, fees), a)]) \in Nat
  <2>1. IsFiniteSet(DOMAIN c)
    BY AccountsFinite, FS_Subset DEF IsCtxs
  <2>2. QED
    BY <1>5, <2>1, SumFunctionNat
<1>7. QED
  BY <1>2, <1>3, <1>5, <1>6 DEF Credit

(* AddAllPocBalance adds a natural PoC part, or nothing.                  *)
LEMMA PocCreditNat ==
  ASSUME NEW c, IsCtxs(c)
  PROVE  PocCredit(c) \in [Accounts -> Nat]
BY DEF PocCredit, IsCtxs

-----------------------------------------------------------------------------
(* Type correctness.                                                       *)

(* Finalize's Put into the side database, kept or failed, leaves a map    *)
(* from heights to byte strings.                                           *)
LEMMA SaveRecordType ==
  ASSUME TypeOK, NEW h \in Heights, NEW c, IsCtxs(c), SaveRecord(h, c)
  PROVE  /\ DOMAIN recordDB' \subseteq Heights
         /\ \A k \in DOMAIN recordDB' : recordDB'[k] \in Bytes
<1>1. CASE \E order \in EncodeOrders(c) : recordDB' = Put(recordDB, h, Encode(c, order))
  <2>1. PICK order \in EncodeOrders(c) : recordDB' = Put(recordDB, h, Encode(c, order))
    BY <1>1
  <2>2. Encode(c, order) \in Bytes
    BY EncodeType
  <2>3. QED
    BY <2>1, <2>2 DEF TypeOK, Put
<1>2. CASE UNCHANGED recordDB
  BY <1>2 DEF TypeOK
<1>3. QED
  BY <1>1, <1>2 DEF SaveRecord

(* The engine starts with nothing credited and nothing saved.             *)
LEMMA TypeInit ==
  Init => TypeOK
<1> SUFFICES ASSUME Init PROVE TypeOK
  OBVIOUS
<1>1. StartNumber \in Nat /\ MaxBlocks \in Nat
  BY RewardAssumption
<1>2. QED
  BY <1>1 DEF Init, TypeOK

(* Every step keeps the type: an import credits natural amounts and       *)
(* records a byte string; a template or a late block only saves one.      *)
LEMMA TypeStep ==
  ASSUME TypeOK, [Next]_vars
  PROVE  TypeOK'
<1> USE RewardAssumption
<1>1. CASE Import
  <2>1. PICK reg \in Registries, uncles \in UncleLists, fees \in TxFeeLists :
          LET ctxs == NUCReward4(reg, allPoc, number)
              credit == Credit(ctxs, uncles, fees, number)
          IN  /\ SaveRecord(number, ctxs)
              /\ \E order \in EncodeOrders(ctxs) :
                   canon' = Put(canon, number, [reg |-> reg, uncles |-> uncles, fees |-> fees,
                                   ctxs |-> ctxs, header |-> Encode(ctxs, order)])
              /\ balance' = [x \in Accounts |-> balance[x] + credit[x]]
              /\ allPoc' = [x \in Accounts |-> allPoc[x] + PocCredit(ctxs)[x]]
              /\ parentPoc' = allPoc
              /\ number' = number + 1
    BY <1>1 DEF Import
  <2> DEFINE ctxs == NUCReward4(reg, allPoc, number)
  <2>2. IsCtxs(ctxs)
    BY NUCRewardType
  <2>3. number \in Heights /\ number \in Int
    BY <1>1 DEF Import, Heights
  <2>4. /\ DOMAIN recordDB' \subseteq Heights
        /\ \A k \in DOMAIN recordDB' : recordDB'[k] \in Bytes
    BY <2>1, <2>2, <2>3, SaveRecordType
  <2>5. Credit(ctxs, uncles, fees, number) \in [Accounts -> Nat]
    BY <2>2, <2>3, CreditNat
  <2>6. PocCredit(ctxs) \in [Accounts -> Nat]
    BY <2>2, PocCreditNat
  <2>7. /\ DOMAIN canon' = StartNumber .. number' - 1
        /\ \A h \in DOMAIN canon' : canon'[h].header \in Bytes
    <3>1. PICK order \in EncodeOrders(ctxs) :
            canon' = Put(canon, number, [reg |-> reg, uncles |-> uncles, fees |-> fees,
                                   ctxs |-> ctxs, header |-> Encode(ctxs, order)])
      BY <2>1
    <3>2. Encode(ctxs, order) \in Bytes
      BY <2>2, EncodeType
    <3>3. QED
      BY <2>1, <2>3, <3>1, <3>2 DEF TypeOK, Put, Heights
  <2>8. number' \in StartNumber .. StartNumber + MaxBlocks
    BY <2>1, <2>3 DEF Heights
  <2>9. /\ balance' \in [Accounts -> Nat]
        /\ allPoc' \in [Accounts -> Nat] /\ parentPoc' \in [Accounts -> Nat]
    BY <2>1, <2>5, <2>6 DEF TypeOK
  <2> HIDE DEF ctxs
  <2>10. QED
    BY <2>4, <2>7, <2>8, <2>9 DEF TypeOK
<1>2. CASE Template
  <2>1. PICK reg \in Registries : SaveRecord(number, NUCReward4(reg, allPoc, number))
    BY <1>2 DEF Template
  <2>2. QED
    BY <1>2, <2>1, NUCRewardType, SaveRecordType DEF Template, TypeOK
<1>3. CASE Late
  <2>1. PICK reg \in Registries : SaveRecord(number - 1, NUCReward4(reg, parentPoc, number - 1))
    BY <1>3 DEF Late
  <2>2. QED
    BY <1>3, <2>1, NUCRewardType, SaveRecordType DEF Late, TypeOK
<1>4. CASE UNCHANGED vars
  BY <1>4 DEF vars, TypeOK
<1>5. QED
  BY <1>1, <1>2, <1>3, <1>4 DEF Next

(* The reward engine's state keeps its type for every value of the        *)
(* constants: balances and AllPocBalance are natural numbers, and the      *)
(* side database and the canonical headers hold byte strings for heights  *)
(* of the run, the headers exactly for the blocks imported so far.         *)
THEOREM RewardTypeCorrect ==
  Spec => []TypeOK
BY TypeInit, TypeStep, PTL DEF Spec

-----------------------------------------------------------------------------
(* The PoC cap.                                                           *)

(* The action PocCapRespected constrains: an import leaves a pledging     *)
(* address at or above 120% of its stake without a PoC part.              *)
CapStep ==
  number' = number + 1 =>
    \A i \in 1 .. Len(Imported.reg.pocers) :
      LET e == Imported.reg.pocers[i] IN
      e.user \in Users /\ allPoc[e.user] * 100 >= e.stake * 120 =>
        /\ e.user \in DOMAIN Imported.ctxs => Imported.ctxs[e.user].poc = 0
        /\ allPoc'[e.user] = allPoc[e.user]

(* Every entry GetAllPocers3 walks over is an entry of the registry's    *)
(* answer.                                                                 *)
LEMMA PocersFromList ==
  ASSUME NEW reg \in Registries
  PROVE  LET got == Gather(reg.pocers, reg.pocCall)
         IN  \A m \in 1 .. Len(got) : \E j \in 1 .. Len(reg.pocers) : got[m] = reg.pocers[j]
<1> DEFINE E == [user : Accounts, records : Nat, stake : Nat, bind : Accounts]
<1>1. reg.pocers \in Seq(E)
  BY InputAssumption
<1> HIDE DEF E
<1>2. LET got == Gather(reg.pocers, reg.pocCall)
      IN  \A i \in 1 .. Len(got) : got[i] \in E /\ \E j \in 1 .. Len(reg.pocers) : got[i] = reg.pocers[j]
  BY <1>1, GatherEntries
<1>3. QED
  BY <1>2

(* GetAllPocers3 skips every entry whose CanGetMaxReward does not exceed  *)
(* GetAllPocBalance (lines 121-126).  An entry of an address that has     *)
(* reached 120% of its stake is skipped, and so is every other entry of   *)
(* that address, which carries the same stake: the address is not a PoC  *)
(* member.                                                                 *)
LEMMA CappedNotPocer ==
  ASSUME ConsistentStakes, NEW reg \in Registries, NEW ap \in [Accounts -> Nat],
         NEW i \in 1 .. Len(reg.pocers),
         ap[reg.pocers[i].user] * 100 >= reg.pocers[i].stake * 120
  PROVE  reg.pocers[i].user \notin DOMAIN AllPocers3(reg, ap)
<1> DEFINE pl == reg.pocers
           got == Gather(pl, reg.pocCall)
           ok == {k \in 1 .. Len(got) : /\ got[k].user # Zero
                                        /\ CanGetMaxReward(got[k].stake) > ap[got[k].user]}
           u == pl[i].user
           E == [user : Accounts, records : Nat, stake : Nat, bind : Accounts]
<1>1. pl \in Seq(E)
  BY InputAssumption
<1>2. DOMAIN AllPocers3(reg, ap) = {got[k].user : k \in ok}
  BY DEF AllPocers3
<1>3. SUFFICES ASSUME NEW k \in ok, got[k].user = u PROVE FALSE
  BY <1>2
<1>4. \E j \in 1 .. Len(pl) : got[k] = pl[j]
  <2>1. \A m \in 1 .. Len(got) : \E j \in 1 .. Len(pl) : got[m] = pl[j]
    BY PocersFromList
  <2>2. k \in 1 .. Len(got)
    OBVIOUS
  <2> HIDE DEF got
  <2>3. QED
    BY <2>1, <2>2
<1>5. PICK j \in 1 .. Len(pl) : got[k] = pl[j]
  BY <1>4
<1>6. pl[j].stake = pl[i].stake
  BY <1>3, <1>5 DEF ConsistentStakes
<1>7. CanGetMaxReward(pl[i].stake) > ap[u]
  BY <1>3, <1>5, <1>6
<1>8. pl[i] \in E
  BY <1>1, ElementOfSeq
<1> HIDE DEF got, ok
<1>9. pl[i].stake \in Nat /\ ap[u] \in Nat
  BY <1>8
<1>10. QED
  BY <1>7, <1>9 DEF CanGetMaxReward

(* An import credits AddAllPocBalance only with the PoC parts of the      *)
(* coinbase record (lines 710-717), and a capped address has none; a      *)
(* template or a late block does not advance the chain.                   *)
LEMMA PocCapStep ==
  ASSUME ConsistentStakes, TypeOK, [Next]_vars
  PROVE  CapStep
<1> USE RewardAssumption
<1>1. CASE Import
  <2>1. PICK reg \in Registries, uncles \in UncleLists, fees \in TxFeeLists :
          LET ctxs == NUCReward4(reg, allPoc, number)
          IN  /\ \E order \in EncodeOrders(ctxs) :
                   canon' = Put(canon, number, [reg |-> reg, uncles |-> uncles, fees |-> fees,
                                                ctxs |-> ctxs, header |-> Encode(ctxs, order)])
              /\ allPoc' = [x \in Accounts |-> allPoc[x] + PocCredit(ctxs)[x]]
    BY <1>1 DEF Import
  <2> DEFINE ctxs == NUCReward4(reg, allPoc, number)
             pocers == AllPocers3(reg, allPoc)
  <2>2. Imported.reg = reg /\ Imported.ctxs = ctxs
    BY <2>1 DEF Imported, Put
  <2> SUFFICES ASSUME NEW i \in 1 .. Len(reg.pocers),
                      reg.pocers[i].user \in Users,
                      allPoc[reg.pocers[i].user] * 100 >= reg.pocers[i].stake * 120
               PROVE  /\ reg.pocers[i].user \in DOMAIN ctxs => ctxs[reg.pocers[i].user].poc = 0
                      /\ allPoc'[reg.pocers[i].user] = allPoc[reg.pocers[i].user]
    BY <2>2 DEF CapStep
  <2> DEFINE u == reg.pocers[i].user
  <2>3. u \notin DOMAIN pocers
    BY CappedNotPocer DEF TypeOK
  <2>4. u \in DOMAIN ctxs => ctxs[u].poc = 0
    BY <2>3 DEF NUCReward4
  <2>5. PocCredit(ctxs)[u] = 0
    BY <2>4 DEF PocCredit, Accounts
  <2>6. allPoc[u] \in Nat
    BY DEF TypeOK, Accounts
  <2>7. allPoc'[u] = allPoc[u] + PocCredit(ctxs)[u]
    BY <2>1 DEF Accounts
  <2> HIDE DEF ctxs, pocers
  <2>8. QED
    BY <2>4, <2>5, <2>6, <2>7
<1>2. CASE Template \/ Late \/ UNCHANGED vars
  <2>1. number' = number /\ number \in Int
    BY <1>2 DEF Template, Late, vars, TypeOK
  <2>2. QED
    BY <2>1 DEF CapStep
<1>3. QED
  BY <1>1, <1>2 DEF Next

(* For every registry that lists each address with one stake, whatever   *)
(* the number of participants, blocks and pages: a PoC member whose       *)
(* AllPocBalance has reached 120% of its stake gets no PoC part in the    *)
(* coinbase record of a block the chain imports, and its AllPocBalance    *)
(* does not grow (GetAllPocers3, lines 121-126, and AddAllPocBalance).    *)
THEOREM PocCapCorrect ==
  ASSUME ConsistentStakes
  PROVE  Spec => PocCapRespected
<1>1. TypeOK /\ [Next]_vars => [CapStep]_vars
  BY PocCapStep
<1>2. QED
  BY <1>1, RewardTypeCorrect, PTL DEF Spec, PocCapRespected, CapStep
=============================================================================
