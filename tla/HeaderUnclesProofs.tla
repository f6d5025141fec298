------------------------- MODULE HeaderUnclesProofs -------------------------
(***************************************************************************)
(* Proof that no header is rewarded twice as an uncle on a chain, for     *)
(* every uncle window, bound and set of proposed headers.  VerifyUncles   *)
(* (consensus.go lines 204-258) looks only UncleWindow generations back;  *)
(* the proof shows why that suffices: an uncle's parent must lie in the   *)
(* window, so a block deeper than the window cannot take it again.        *)
(*                                                                         *)
(* The operators below take the chain database as a parameter bl, so that *)
(* their lemmas hold of blocks and of blocks' alike.                      *)
(***************************************************************************)
EXTENDS HeaderChainProofs

(* ChainOf of a database bl.                                               *)
ChainIn(bl) ==
  LET c[i \in 0 .. Len(bl)] ==
        IF i \in 1 .. Len(bl) THEN {i} \cup c[bl[i].parent] ELSE {}
  IN  c

(* The walk of VerifyUncles (lines 219-230) over a database bl.            *)
WalkIn(bl, b) ==
  LET walk[k \in 0 .. UncleWindow] ==
        IF k = 0 THEN <<>>
        ELSE LET prev == walk[k - 1]
                 next == IF prev = <<>> THEN b.parent ELSE bl[prev[Len(prev)]].parent
             IN  IF next \in 1 .. Len(bl) THEN Append(prev, next) ELSE prev
  IN  walk

(* The window the walk covers: the ancestors of a header b whose number  *)
(* is at least b's minus UncleWindow.                                     *)
Window(bl, b) == {a \in ChainIn(bl)[b.parent] : bl[a].number >= b.number - UncleWindow}

(* A chain database: genesis first, every parent earlier, and numbers     *)
(* one more than the parent's (the InvalidNumber check of line 291).      *)
Chained(bl) ==
  /\ bl \in Seq(Headers) /\ Len(bl) >= 1 /\ bl[1] = Genesis
  /\ \A i \in 2 .. Len(bl) : /\ bl[i].parent \in 1 .. i - 1
                             /\ bl[i].number = bl[bl[i].parent].number + 1

(* What VerifyUncles established when the header at position i was        *)
(* admitted: its uncles are earlier headers, none twice, none in the      *)
(* window, none an uncle of a header in the window, each with its parent  *)
(* in the window.                                                          *)
UnclesAdmitted(bl, i) ==
  LET b == bl[i] IN
  \A k \in 1 .. Len(b.uncles) :
    /\ b.uncles[k] \in 1 .. i - 1
    /\ \A j \in 1 .. k - 1 : b.uncles[j] # b.uncles[k]
    /\ b.uncles[k] \notin Window(bl, b)
    /\ \A a \in Window(bl, b) : b.uncles[k] \notin Range(bl[a].uncles)
    /\ bl[b.uncles[k]].parent \in Window(bl, b)

(* The inductive invariant behind UnclesOnce.                             *)
UncleInv ==
  /\ TypeOK
  /\ Chained(blocks)
  /\ \A i \in 2 .. Len(blocks) : UnclesAdmitted(blocks, i)

-----------------------------------------------------------------------------
(* The chain of a header.                                                  *)

(* ChainOf unfolds as its definition says: a header's chain is the header *)
(* and its parent's chain; position 0, genesis's parent, has none.       *)
LEMMA ChainDef ==
  ASSUME NEW bl, Chained(bl)
  PROVE  \A i \in 0 .. Len(bl) :
           ChainIn(bl)[i] = IF i \in 1 .. Len(bl) THEN {i} \cup ChainIn(bl)[bl[i].parent] ELSE {}
<1> DEFINE S == 0 .. Len(bl)
           Def(g, i) == IF i \in 1 .. Len(bl) THEN {i} \cup g[bl[i].parent] ELSE {}
           c == CHOOSE c : c = [i \in S |-> Def(c, i)]
           R == OpToRel(<, Nat)
<1>1. Len(bl) \in Nat
  BY LenProperties DEF Chained
<1>2. \A i \in 1 .. Len(bl) : bl[i].parent \in 0 .. i - 1
  <2> SUFFICES ASSUME NEW i \in 1 .. Len(bl) PROVE bl[i].parent \in 0 .. i - 1
    OBVIOUS
  <2>1. CASE i = 1
    BY <2>1, GenesisAssumption DEF Chained
  <2>2. CASE i # 1
    BY <2>2 DEF Chained
  <2>3. QED
    BY <2>1, <2>2
<1>3. IsWellFoundedOn(R, S)
  <2>1. S \subseteq Nat
    BY <1>1
  <2> HIDE DEF S
  <2>2. QED
    BY <2>1, NatLessThanWellFounded, IsWellFoundedOnSubset, Zenon
<1>4. WFDefOn(R, S, Def)
  <2> SUFFICES ASSUME NEW g, NEW h, NEW i \in S,
                      \A y \in SetLessThan(i, R, S) : g[y] = h[y]
               PROVE  Def(g, i) = Def(h, i)
    BY DEF WFDefOn
  <2>1. i \in 1 .. Len(bl) => bl[i].parent \in SetLessThan(i, R, S)
    BY <1>1, <1>2 DEF SetLessThan, OpToRel
  <2>2. QED
    BY <2>1
<1>5. WFInductiveDefines(c, S, Def)
  <2>1. OpDefinesFcn(c, S, Def)
    BY DEF OpDefinesFcn
  <2> HIDE DEF Def, c, R, S
  <2>2. QED
    BY <1>3, <1>4, <2>1, WFInductiveDef
<1>6. ChainIn(bl) = c
  BY DEF ChainIn
<1> HIDE DEF c
<1>7. QED
  BY <1>5, <1>6 DEF WFInductiveDefines

(* The chain of the header at position i: it holds i and earlier         *)
(* positions only, numbers fall along it, it contains the chains of its   *)
(* members, and any two of its members lie on one another's chain.        *)
ChainShape(bl, i) ==
  LET C == ChainIn(bl) IN
  /\ i \in C[i] /\ C[i] \subseteq 1 .. i
  /\ \A a \in C[i] : a # i => bl[a].number < bl[i].number
  /\ \A a \in C[i] : C[a] \subseteq C[i]
  /\ \A a1, a2 \in C[i] : a1 \in C[a2] \/ a2 \in C[a1]

LEMMA ChainFacts ==
  ASSUME NEW bl, Chained(bl)
  PROVE  \A i \in 1 .. Len(bl) : ChainShape(bl, i)
<1> DEFINE C == ChainIn(bl)
<1>1. Len(bl) \in Nat /\ \A a \in 1 .. Len(bl) : bl[a].number \in Nat
  <2>1. \A a \in 1 .. Len(bl) : bl[a] \in Headers
    BY ElementOfSeq DEF Chained
  <2>2. QED
    BY <2>1, LenProperties DEF Chained, Headers
<1>2. \A i \in 0 .. Len(bl) : C[i] = IF i \in 1 .. Len(bl) THEN {i} \cup C[bl[i].parent] ELSE {}
  BY ChainDef, Zenon
<1> SUFFICES ASSUME \E i \in 1 .. Len(bl) : ~ChainShape(bl, i) PROVE FALSE
  OBVIOUS
<1> DEFINE Bad == {i \in 1 .. Len(bl) : ~ChainShape(bl, i)}
<1>3. PICK m \in Bad : \A y \in Bad : m <= y
  <2>1. Bad \subseteq Nat /\ Bad # {}
    BY <1>1
  <2> HIDE DEF Bad
  <2>2. QED
    BY <2>1, MinExists
<1>4. CASE m = 1
  <2>1. C[1] = {1}
    <3>1. 0 \in 0 .. Len(bl) /\ 0 \notin 1 .. Len(bl) /\ 1 \in 0 .. Len(bl) /\ 1 \in 1 .. Len(bl)
      BY <1>1 DEF Chained
    <3>2. C[0] = {} /\ C[1] = {1} \cup C[bl[1].parent]
      BY <1>2, <3>1, Zenon
    <3>3. bl[1].parent = 0
      BY GenesisAssumption DEF Chained
    <3>4. QED
      BY <3>2, <3>3
  <2>2. QED
    BY <1>3, <1>4, <2>1 DEF ChainShape
<1>5. CASE m # 1
  <2> DEFINE p == bl[m].parent
  <2>1. p \in 1 .. m - 1 /\ bl[m].number = bl[p].number + 1
    BY <1>5 DEF Chained
  <2>2. ChainShape(bl, p)
    BY <1>3, <2>1
  <2>3. C[m] = {m} \cup C[p]
    <3>1. m \in 0 .. Len(bl) /\ m \in 1 .. Len(bl)
      BY <1>1
    <3>2. QED
      BY <1>2, <3>1, Zenon
  <2>4. C[m] \subseteq 1 .. m /\ m \in C[m]
    BY <2>1, <2>2, <2>3 DEF ChainShape
  <2>5. \A a \in C[m] : a # m => bl[a].number < bl[m].number
    <3> SUFFICES ASSUME NEW a \in C[m], a # m PROVE bl[a].number < bl[m].number
      OBVIOUS
    <3>1. a \in C[p]
      BY <2>3
    <3>2. a \in 1 .. Len(bl) /\ p \in 1 .. Len(bl)
      BY <1>1, <2>1, <2>2, <3>1 DEF ChainShape
    <3>3. a = p \/ bl[a].number < bl[p].number
      BY <2>2, <3>1 DEF ChainShape
    <3>4. QED
      BY <1>1, <2>1, <3>2, <3>3
  <2>6. \A a \in C[m] : C[a] \subseteq C[m]
    BY <2>2, <2>3 DEF ChainShape
  <2>7. \A a1, a2 \in C[m] : a1 \in C[a2] \/ a2 \in C[a1]
    BY <2>2, <2>3, <2>4, <2>6 DEF ChainShape
  <2>8. QED
    BY <1>3, <2>4, <2>5, <2>6, <2>7 DEF ChainShape
<1>6. QED
  BY <1>4, <1>5

(* One step down a chain: genesis at position 1 has number 0 and parent  *)
(* 0, any later header the number after its parent's.                     *)
LEMMA ChainStep ==
  ASSUME NEW bl, Chained(bl), NEW i \in 1 .. Len(bl)
  PROVE  /\ ChainIn(bl)[i] = {i} \cup ChainIn(bl)[bl[i].parent]
         /\ bl[i].number \in Nat
         /\ i = 1 => bl[i].parent = 0 /\ bl[i].number = 0
         /\ i # 1 => /\ bl[i].parent \in 1 .. i - 1
                     /\ bl[i].number = bl[bl[i].parent].number + 1
                     /\ bl[i].number > 0
<1>1. Len(bl) \in Nat /\ \A a \in 1 .. Len(bl) : bl[a] \in Headers
  BY ElementOfSeq, LenProperties DEF Chained
<1>2. \A a \in 1 .. Len(bl) : bl[a].number \in Nat
  BY <1>1 DEF Headers
<1>3. ChainIn(bl)[i] = {i} \cup ChainIn(bl)[bl[i].parent]
  <2>1. \A k \in 0 .. Len(bl) :
          ChainIn(bl)[k] = IF k \in 1 .. Len(bl) THEN {k} \cup ChainIn(bl)[bl[k].parent] ELSE {}
    BY ChainDef, Zenon
  <2>2. i \in 0 .. Len(bl) /\ i \in 1 .. Len(bl)
    BY <1>1
  <2>3. QED
    BY <2>1, <2>2, Zenon
<1>4. i = 1 => bl[i].parent = 0 /\ bl[i].number = 0
  BY GenesisAssumption, HeaderAssumption DEF Chained
<1>5. i # 1 => /\ bl[i].parent \in 1 .. i - 1
               /\ bl[i].number = bl[bl[i].parent].number + 1
  BY DEF Chained
<1>6. i # 1 => bl[i].number > 0
  <2> SUFFICES ASSUME i # 1 PROVE bl[i].number > 0
    OBVIOUS
  <2>1. bl[i].parent \in 1 .. Len(bl)
    BY <1>1, <1>5
  <2>2. QED
    BY <1>2, <1>5, <2>1
<1>7. QED
  BY <1>2, <1>3, <1>4, <1>5, <1>6

(* A chain holds one header of each number.                               *)
LEMMA OnePerNumber ==
  ASSUME NEW bl, Chained(bl), NEW i \in 1 .. Len(bl), NEW a1 \in ChainIn(bl)[i],
         NEW a2 \in ChainIn(bl)[i], bl[a1].number = bl[a2].number
  PROVE  a1 = a2
<1> DEFINE C == ChainIn(bl)
<1>1. \A x \in 1 .. Len(bl) : ChainShape(bl, x)
  BY ChainFacts
<1>2. Len(bl) \in Nat
  BY LenProperties DEF Chained
<1>3. a1 \in 1 .. Len(bl) /\ a2 \in 1 .. Len(bl)
  BY <1>1, <1>2 DEF ChainShape
<1>4. a1 \in C[a2] \/ a2 \in C[a1]
  BY <1>1 DEF ChainShape
<1>5. ChainShape(bl, a1) /\ ChainShape(bl, a2)
  BY <1>1, <1>3
<1>6. a1 \in C[a2] /\ a1 # a2 => bl[a1].number < bl[a2].number
  BY <1>5 DEF ChainShape
<1>7. a2 \in C[a1] /\ a1 # a2 => bl[a2].number < bl[a1].number
  BY <1>5 DEF ChainShape
<1>8. bl[a1].number \in Nat /\ bl[a2].number \in Nat
  BY <1>3, ChainStep
<1>9. QED
  BY <1>4, <1>6, <1>7, <1>8

(* Appending a header leaves the chains of the earlier headers as they   *)
(* were.                                                                   *)
LEMMA ChainAppend ==
  ASSUME NEW bl, NEW h \in Headers, Chained(bl), Chained(Append(bl, h))
  PROVE  \A i \in 0 .. Len(bl) : ChainIn(Append(bl, h))[i] = ChainIn(bl)[i]
<1> DEFINE bl2 == Append(bl, h)
           C == ChainIn(bl)
           C2 == ChainIn(bl2)
<1>1. /\ Len(bl) \in Nat /\ Len(bl2) = Len(bl) + 1
      /\ \A i \in 1 .. Len(bl) : bl2[i] = bl[i]
  BY AppendProperties DEF Chained
<1>2. C[0] = {} /\ C2[0] = {}
  <2>1. \A k \in 0 .. Len(bl) : C[k] = IF k \in 1 .. Len(bl) THEN {k} \cup C[bl[k].parent] ELSE {}
    BY ChainDef, Zenon
  <2>2. \A k \in 0 .. Len(bl2) : C2[k] = IF k \in 1 .. Len(bl2) THEN {k} \cup C2[bl2[k].parent] ELSE {}
    BY ChainDef, Zenon
  <2>3. 0 \in 0 .. Len(bl) /\ 0 \notin 1 .. Len(bl) /\ 0 \in 0 .. Len(bl2) /\ 0 \notin 1 .. Len(bl2)
    BY <1>1
  <2> HIDE DEF C, C2, bl2
  <2>4. QED
    BY <2>1, <2>2, <2>3, Zenon
<1> SUFFICES ASSUME \E i \in 0 .. Len(bl) : C2[i] # C[i] PROVE FALSE
  OBVIOUS
<1> DEFINE Bad == {i \in 0 .. Len(bl) : C2[i] # C[i]}
<1>3. PICK m \in Bad : \A y \in Bad : m <= y
  <2>1. Bad \subseteq Nat /\ Bad # {}
    BY <1>1
  <2> HIDE DEF Bad
  <2>2. QED
    BY <2>1, MinExists
<1>4. m # 0
  BY <1>2, <1>3
<1>5. m \in 1 .. Len(bl) /\ m \in 1 .. Len(bl2)
  BY <1>1, <1>3, <1>4
<1>6. C[m] = {m} \cup C[bl[m].parent] /\ C2[m] = {m} \cup C2[bl2[m].parent]
  BY <1>5, ChainStep
<1>7. bl2[m] = bl[m] /\ bl[m].parent \in 0 .. m - 1
  BY <1>1, <1>5, ChainStep
<1>8. C2[bl[m].parent] = C[bl[m].parent]
  BY <1>1, <1>3, <1>5, <1>7
<1>9. QED
  BY <1>3, <1>6, <1>7, <1>8

-----------------------------------------------------------------------------
(* The walk of VerifyUncles covers the window.                             *)

(* A sequence with one more element ranges over one more value.           *)
LEMMA RangeAppend ==
  ASSUME NEW S, NEW s \in Seq(S), NEW x \in S
  PROVE  Range(Append(s, x)) = Range(s) \cup {x}
<1>1. /\ Len(s) \in Nat /\ DOMAIN s = 1 .. Len(s)
      /\ DOMAIN Append(s, x) = 1 .. Len(s) + 1
      /\ \A i \in 1 .. Len(s) : Append(s, x)[i] = s[i]
      /\ Append(s, x)[Len(s) + 1] = x
  BY AppendProperties, LenProperties
<1>2. QED
  BY <1>1 DEF Range

(* The walk unfolds as its definition says.                               *)
LEMMA WalkDef ==
  ASSUME NEW bl, NEW b
  PROVE  \A k \in 0 .. UncleWindow :
           WalkIn(bl, b)[k] =
             IF k = 0 THEN <<>>
             ELSE LET prev == WalkIn(bl, b)[k - 1]
                      next == IF prev = <<>> THEN b.parent ELSE bl[prev[Len(prev)]].parent
                  IN  IF next \in 1 .. Len(bl) THEN Append(prev, next) ELSE prev
<1> DEFINE S == 0 .. UncleWindow
           Def(g, k) ==
             IF k = 0 THEN <<>>
             ELSE LET prev == g[k - 1]
                      next == IF prev = <<>> THEN b.parent ELSE bl[prev[Len(prev)]].parent
                  IN  IF next \in 1 .. Len(bl) THEN Append(prev, next) ELSE prev
           w == CHOOSE w : w = [k \in S |-> Def(w, k)]
           R == OpToRel(<, Nat)
<1>1. UncleWindow \in Nat
  BY HeaderAssumption
<1>2. IsWellFoundedOn(R, S)
  <2>1. S \subseteq Nat
    BY <1>1
  <2> HIDE DEF S
  <2>2. QED
    BY <2>1, NatLessThanWellFounded, IsWellFoundedOnSubset, Zenon
<1>3. WFDefOn(R, S, Def)
  <2> SUFFICES ASSUME NEW g, NEW h, NEW k \in S,
                      \A y \in SetLessThan(k, R, S) : g[y] = h[y]
               PROVE  Def(g, k) = Def(h, k)
    BY DEF WFDefOn
  <2>1. k # 0 => k - 1 \in SetLessThan(k, R, S)
    BY <1>1 DEF SetLessThan, OpToRel
  <2>2. k # 0 => g[k - 1] = h[k - 1]
    BY <2>1
  <2>3. QED
    BY <2>2
<1>4. WFInductiveDefines(w, S, Def)
  <2>1. OpDefinesFcn(w, S, Def)
    BY DEF OpDefinesFcn
  <2> HIDE DEF Def, w, R, S
  <2>2. QED
    BY <1>2, <1>3, <2>1, WFInductiveDef
<1>5. WalkIn(bl, b) = w
  BY DEF WalkIn
<1> HIDE DEF w
<1>6. QED
  BY <1>4, <1>5 DEF WFInductiveDefines

(* After k steps the walk from a header b whose parent is on the chain    *)
(* holds, in order, the ancestors down to number b.number - k, and its   *)
(* last element has the lowest number reached (genesis's 0 once the walk *)
(* has gone past it).                                                      *)
WalkShape(bl, b, k) ==
  LET w == WalkIn(bl, b)[k]
      C == ChainIn(bl)
  IN  /\ w \in Seq(1 .. Len(bl))
      /\ Range(w) = {a \in C[b.parent] : bl[a].number >= b.number - k}
      /\ k # 0 => /\ w # <<>>
                  /\ w[Len(w)] \in C[b.parent]
                  /\ bl[w[Len(w)]].number = IF b.number - k >= 0 THEN b.number - k ELSE 0

LEMMA WalkFacts ==
  ASSUME NEW bl, Chained(bl), NEW b, b.parent \in 1 .. Len(bl),
         b.number = bl[b.parent].number + 1
  PROVE  \A k \in 0 .. UncleWindow : WalkShape(bl, b, k)
<1> DEFINE C == ChainIn(bl)
           p == b.parent
           w == WalkIn(bl, b)
           n(a) == bl[a].number
<1>1. /\ UncleWindow \in Nat /\ Len(bl) \in Nat
      /\ \A a \in 1 .. Len(bl) : n(a) \in Nat
      /\ b.number \in Nat
  <2>1. \A a \in 1 .. Len(bl) : bl[a] \in Headers
    BY ElementOfSeq DEF Chained
  <2>2. Len(bl) \in Nat
    BY LenProperties DEF Chained
  <2>3. \A a \in 1 .. Len(bl) : n(a) \in Nat
    BY <2>1 DEF Headers
  <2>4. UncleWindow \in Nat
    BY HeaderAssumption
  <2>5. b.number \in Nat
    BY <2>3
  <2>6. QED
    BY <2>2, <2>3, <2>4, <2>5
<1>2. \A a \in 1 .. Len(bl) : ChainShape(bl, a)
  BY ChainFacts
<1>3. \A k \in 0 .. UncleWindow :
        w[k] = IF k = 0 THEN <<>>
               ELSE LET prev == w[k - 1]
                        next == IF prev = <<>> THEN b.parent ELSE bl[prev[Len(prev)]].parent
                    IN  IF next \in 1 .. Len(bl) THEN Append(prev, next) ELSE prev
  BY WalkDef
<1>4. C[p] \subseteq 1 .. Len(bl) /\ p \in C[p]
  BY <1>1, <1>2 DEF ChainShape
<1>5. \A a \in C[p] : n(a) <= n(p)
  BY <1>1, <1>2, <1>4 DEF ChainShape
<1> SUFFICES ASSUME \E k \in 0 .. UncleWindow : ~WalkShape(bl, b, k) PROVE FALSE
  OBVIOUS
<1> DEFINE Bad == {k \in 0 .. UncleWindow : ~WalkShape(bl, b, k)}
<1>6. PICK m \in Bad : \A y \in Bad : m <= y
  <2>1. Bad \subseteq Nat /\ Bad # {}
    BY <1>1
  <2> HIDE DEF Bad
  <2>2. QED
    BY <2>1, MinExists
<1>7. m \in 0 .. UncleWindow
  BY <1>6
<1> USE <1>1, <1>7
<1>8. CASE m = 0
  <2> USE <1>8
  <2>1. w[0] = <<>>
    BY <1>1, <1>3
  <2>2. {a \in C[p] : n(a) >= b.number - 0} = {}
    BY <1>1, <1>4, <1>5
  <2>3. Range(w[0]) = {}
    BY <2>1 DEF Range
  <2>4. WalkShape(bl, b, 0)
    BY <2>1, <2>2, <2>3 DEF WalkShape
  <2>5. QED
    BY <1>6, <1>8, <2>4
<1>9. CASE m = 1
  <2> USE <1>9
  <2>1. w[1] = <<p>>
    <3>1. w[1] = IF w[0] = <<>> THEN (IF p \in 1 .. Len(bl) THEN Append(w[0], p) ELSE w[0])
                 ELSE w[1]
      BY <1>1, <1>3
    <3>2. w[0] = <<>>
      BY <1>1, <1>3
    <3>3. QED
      BY <3>1, <3>2
  <2>2. {a \in C[p] : n(a) >= b.number - 1} = {p}
    BY <1>1, <1>2, <1>4, <1>5 DEF ChainShape
  <2>3. Range(w[1]) = {p} /\ w[1] \in Seq(1 .. Len(bl))
    BY <2>1 DEF Range
  <2>4. WalkShape(bl, b, 1)
    BY <1>1, <1>4, <2>1, <2>2, <2>3 DEF WalkShape
  <2>5. QED
    BY <1>6, <1>9, <2>4
<1>10. CASE m \notin {0, 1}
  <2> USE <1>10
  <2> DEFINE prev == w[m - 1]
             L == prev[Len(prev)]
             next == bl[L].parent
  <2>1. WalkShape(bl, b, m - 1) /\ m - 1 # 0 /\ m - 1 \in 0 .. UncleWindow
    BY <1>6
  <2>2. /\ prev \in Seq(1 .. Len(bl))
        /\ Range(prev) = {a \in C[p] : n(a) >= b.number - (m - 1)}
        /\ prev # <<>> /\ L \in C[p]
        /\ n(L) = IF b.number - (m - 1) >= 0 THEN b.number - (m - 1) ELSE 0
    BY <2>1 DEF WalkShape
  <2>3. w[m] = IF next \in 1 .. Len(bl) THEN Append(prev, next) ELSE prev
    BY <1>3, <2>2
  <2> HIDE DEF prev, L, next
  <2>4. L \in 1 .. Len(bl) /\ n(L) \in Nat
    BY <1>4, <2>2
  <2>5. C[L] \subseteq C[p]
    BY <1>2, <1>4, <2>2 DEF ChainShape
  <2>6. \A a \in C[p] : n(a) \in Nat
    BY <1>4
  <2>7. CASE n(L) = 0
    <3>1. L = 1
      BY <2>4, <2>7, ChainStep
    <3>2. next \notin 1 .. Len(bl)
      <4>1. next = 0
        BY <3>1, <2>4, ChainStep DEF next
      <4>2. QED
        BY <4>1
    <3>3. w[m] = prev
      BY <2>3, <3>2
    <3>4. b.number - (m - 1) <= 0
      BY <2>2, <2>7
    <3>5. {a \in C[p] : n(a) >= b.number - m} = Range(prev)
      <4>1. ASSUME NEW a \in C[p] PROVE n(a) >= b.number - m /\ n(a) >= b.number - (m - 1)
        <5>1. n(a) \in Nat /\ m \in Nat /\ b.number \in Nat
          BY <2>6
        <5> HIDE DEF n
        <5>2. QED
          BY <5>1, <3>4
      <4>2. QED
        BY <2>2, <4>1
    <3>6. WalkShape(bl, b, m)
      <4>1. (IF b.number - m >= 0 THEN b.number - m ELSE 0) = 0
        BY <3>4
      <4>2. QED
        BY <2>2, <2>7, <3>3, <3>5, <4>1 DEF WalkShape, L
    <3>7. QED
      BY <1>6, <3>6
  <2>8. CASE n(L) # 0
    <3>1. next \in 1 .. L - 1 /\ n(L) = n(next) + 1
      BY <2>4, <2>8, ChainStep DEF next
    <3>2. next \in 1 .. Len(bl) /\ n(next) \in Nat
      BY <2>4, <3>1
    <3>3. w[m] = Append(prev, next)
      BY <2>3, <3>2
    <3>4. next \in C[p]
      <4>1. C[L] = {L} \cup C[next]
        BY <2>4, ChainStep DEF next
      <4>2. next \in C[next]
        BY <1>2, <3>2 DEF ChainShape
      <4>3. QED
        BY <2>5, <4>1, <4>2
    <3>5. n(next) = b.number - m /\ b.number - m >= 0
      <4>1. n(L) = b.number - (m - 1)
        BY <2>2, <2>8
      <4>2. m \in Nat /\ b.number \in Nat
        OBVIOUS
      <4>3. n(L) = n(next) + 1 /\ n(next) \in Nat
        BY <3>1, <3>2
      <4> HIDE DEF n
      <4> HIDE <1>1
      <4>4. n(next) = b.number - m
        BY <4>1, <4>2, <4>3
      <4>5. QED
        BY <4>3, <4>4
    <3>6. {a \in C[p] : n(a) >= b.number - m} = Range(prev) \cup {next}
      <4>1. ASSUME NEW a \in C[p], n(a) >= b.number - m, n(a) < b.number - (m - 1)
            PROVE  a = next
        <5>1. n(a) = n(next)
          <6>1. n(a) \in Nat /\ m \in Nat /\ b.number \in Nat
            BY <2>6
          <6> HIDE DEF n
          <6> HIDE <1>1
          <6>2. n(a) = b.number - m
            BY <4>1, <6>1
          <6>3. QED
            BY <3>5, <6>2
        <5>2. QED
          BY <1>4, <3>4, <4>1, <5>1, OnePerNumber
      <4>2. \A a \in C[p] : n(a) >= b.number - (m - 1) => n(a) >= b.number - m
        <5> SUFFICES ASSUME NEW a \in C[p], n(a) >= b.number - (m - 1)
                     PROVE  n(a) >= b.number - m
          OBVIOUS
        <5>1. n(a) \in Nat /\ m \in Nat /\ b.number \in Nat
          BY <2>6
        <5> HIDE DEF n
        <5> HIDE <1>1
        <5>2. QED
          BY <5>1
      <4>3. ASSUME NEW a \in C[p], n(a) >= b.number - m
            PROVE  a \in Range(prev) \cup {next}
        <5>1. n(a) >= b.number - (m - 1) \/ n(a) < b.number - (m - 1)
          <6>1. n(a) \in Nat /\ m \in Nat /\ b.number \in Nat
            BY <2>6
          <6> HIDE DEF n
          <6>2. QED
            BY <6>1
        <5>2. QED
          BY <2>2, <4>1, <4>3, <5>1
      <4>4. \A a \in Range(prev) \cup {next} : a \in C[p] /\ n(a) >= b.number - m
        <5>1. n(next) >= b.number - m
          BY <3>5
        <5>2. QED
          BY <2>2, <3>4, <4>2, <5>1
      <4>5. QED
        BY <4>3, <4>4
    <3>7. /\ Range(w[m]) = Range(prev) \cup {next}
          /\ w[m] \in Seq(1 .. Len(bl))
          /\ w[m] # <<>> /\ w[m][Len(w[m])] = next
      <4>1. Len(prev) \in Nat
        BY <2>2, LenProperties
      <4>2. /\ Append(prev, next) \in Seq(1 .. Len(bl))
            /\ Len(Append(prev, next)) = Len(prev) + 1
            /\ Append(prev, next)[Len(prev) + 1] = next
        BY <2>2, <3>2, AppendProperties
      <4>3. Range(Append(prev, next)) = Range(prev) \cup {next}
        BY <2>2, <3>2, RangeAppend
      <4>4. Append(prev, next) # <<>>
        <5>1. Len(<<>>) = 0
          BY EmptySeq
        <5>2. Len(prev) + 1 # 0
          BY <4>1
        <5>3. QED
          BY <4>2, <5>1, <5>2, Zenon
      <4>5. QED
        BY <3>3, <4>2, <4>3, <4>4
    <3>8. WalkShape(bl, b, m)
      BY <3>4, <3>5, <3>6, <3>7 DEF WalkShape
    <3>9. QED
      BY <1>6, <3>8
  <2>9. QED
    BY <2>7, <2>8
<1>11. QED
  BY <1>8, <1>9, <1>10

(* The walk of VerifyUncles from a header b whose parent is on the chain *)
(* visits exactly the window of b.                                        *)
LEMMA WalkWindow ==
  ASSUME NEW bl, Chained(bl), NEW b, b.parent \in 1 .. Len(bl),
         b.number = bl[b.parent].number + 1
  PROVE  Range(WalkIn(bl, b)[UncleWindow]) = Window(bl, b)
<1>1. UncleWindow \in 0 .. UncleWindow
  BY HeaderAssumption
<1>2. WalkShape(bl, b, UncleWindow)
  BY <1>1, WalkFacts
<1>3. QED
  BY <1>2 DEF WalkShape, Window

-----------------------------------------------------------------------------
(* What VerifyHeader and VerifyUncles establish of an admitted header.    *)

(* Whatever the seal check, VerifyHeader accepts a new header only with   *)
(* the number after its parent's (the InvalidNumber check).               *)
LEMMA NumberOk ==
  ASSUME TypeOK, NEW h \in Headers, \A i \in Ids : blocks[i] # h, VerifyHeader(h) = "ok"
  PROVE  h.parent \in Ids /\ h.number = blocks[h.parent].number + 1
<1>1. h.parent \in Ids /\ \A i \in 1 .. 9 : ~HeaderChecks(h, blocks[h.parent], FALSE, TRUE)[i].fails
  BY VerifyHeaderOk
<1> DEFINE checks == HeaderChecks(h, blocks[h.parent], FALSE, TRUE)
<1>2. ~checks[8].fails
  <2>1. 8 \in 1 .. 9
    OBVIOUS
  <2>2. QED
    BY <1>1, <2>1, Zenon
<1> HIDE DEF checks
<1>3. ~(h.number - blocks[h.parent].number # 1)
  <2>1. SUFFICES ASSUME h.number - blocks[h.parent].number # 1 PROVE FALSE
    OBVIOUS
  <2>2. checks[8] = [fails |-> TRUE, err |-> "InvalidNumber"]
    BY <2>1 DEF checks, HeaderChecks
  <2>3. QED
    BY <1>2, <2>2
<1>4. h.number \in Nat /\ blocks[h.parent].number \in Nat
  BY <1>1, ParentFacts DEF Headers
<1>5. QED
  BY <1>1, <1>3, <1>4

(* VerifyUncles accepts a header only when no uncle has an error.         *)
LEMMA UnclesOk ==
  ASSUME NEW h, h.uncles \in Seq(Nat), VerifyUncles(h) = "ok"
  PROVE  \A k \in 1 .. Len(h.uncles) : UncleError(h, k) = "ok"
<1> DEFINE checks == [i \in 1 .. Len(h.uncles) |->
                        [fails |-> UncleError(h, i) # "ok", err |-> UncleError(h, i)]]
<1>1. Len(h.uncles) \in Nat
  BY LenProperties
<1>2. FirstError(checks) = "ok"
  <2>1. ~(Len(h.uncles) > MaxUncles)
    BY DEF VerifyUncles
  <2>2. QED
    BY <2>1 DEF VerifyUncles
<1>3. Len(checks) = Len(h.uncles)
  BY <1>1
<1>4. \A k \in 1 .. Len(h.uncles) :
        checks[k] = [fails |-> UncleError(h, k) # "ok", err |-> UncleError(h, k)]
  OBVIOUS
<1> HIDE DEF checks, UncleError
<1>5. \A k \in 1 .. Len(checks) : checks[k].fails => checks[k].err # "ok"
  <2> SUFFICES ASSUME NEW k \in 1 .. Len(checks), checks[k].fails
               PROVE  checks[k].err # "ok"
    OBVIOUS
  <2>1. CASE UncleError(h, k) = "ok"
    <3>1. checks[k] = [fails |-> FALSE, err |-> "ok"]
      BY <1>3, <1>4, <2>1
    <3>2. QED
      BY <3>1
  <2>2. CASE UncleError(h, k) # "ok"
    <3>1. k \in 1 .. Len(h.uncles)
      BY <1>3
    <3>2. checks[k] = [fails |-> UncleError(h, k) # "ok", err |-> UncleError(h, k)]
      BY <1>4, <3>1
    <3>3. QED
      BY <2>2, <3>2
  <2>3. QED
    BY <2>1, <2>2
<1>6. \A k \in 1 .. Len(checks) : ~checks[k].fails
  <2> HIDE DEF FirstError
  <2>1. QED
    BY <1>1, <1>2, <1>3, <1>5, FirstErrorOk, Zenon
<1>7. ASSUME NEW k \in 1 .. Len(h.uncles) PROVE UncleError(h, k) = "ok"
  <2>1. SUFFICES ASSUME UncleError(h, k) # "ok" PROVE FALSE
    OBVIOUS
  <2>2. checks[k] = [fails |-> TRUE, err |-> UncleError(h, k)]
    BY <1>4, <2>1
  <2>3. QED
    BY <1>3, <1>6, <2>2
<1>8. QED
  BY <1>7

(* An uncle without error is fresh, no ancestor, and the child of one.   *)
LEMMA UncleErrorOk ==
  ASSUME NEW h, NEW k, UncleError(h, k) = "ok"
  PROVE  /\ h.uncles[k] \notin UNION {Range(blocks[a].uncles) : a \in Ancestors(h)}
         /\ \A j \in 1 .. k - 1 : h.uncles[j] # h.uncles[k]
         /\ h.uncles[k] \notin Ancestors(h)
         /\ blocks[h.uncles[k]].parent \in Ancestors(h)
<1> HIDE DEF Ancestors, VerifyHeaderError
<1>1. h.uncles[k] \notin (UNION {Range(blocks[a].uncles) : a \in Ancestors(h)})
                             \cup {h.uncles[j] : j \in 1 .. k - 1}
  BY DEF UncleError
<1>2. h.uncles[k] \notin Ancestors(h)
  BY <1>1 DEF UncleError
<1>3. blocks[h.uncles[k]].parent \in Ancestors(h)
  BY <1>1, <1>2 DEF UncleError
<1>4. QED
  BY <1>1, <1>2, <1>3

(* Ancestors, the set the walk of VerifyUncles gathers, is the window.   *)
LEMMA AncestorsWindow ==
  ASSUME Chained(blocks), NEW b, b.parent \in Ids,
         b.number = blocks[b.parent].number + 1
  PROVE  Ancestors(b) = Window(blocks, b)
<1>1. Ancestors(b) = Range(WalkIn(blocks, b)[UncleWindow])
  BY DEF Ancestors, WalkIn, Ids
<1>2. QED
  BY <1>1, WalkWindow DEF Ids

-----------------------------------------------------------------------------
(* The inductive invariant.                                                *)

(* Appending a header leaves the window of any header whose parent was   *)
(* already in the database as it was.                                     *)
LEMMA WindowAppend ==
  ASSUME NEW bl, NEW h \in Headers, Chained(bl), Chained(Append(bl, h)),
         NEW b, b.parent \in 1 .. Len(bl)
  PROVE  /\ Window(Append(bl, h), b) = Window(bl, b)
         /\ Window(bl, b) \subseteq 1 .. Len(bl)
<1>1. /\ Len(bl) \in Nat
      /\ \A i \in 1 .. Len(bl) : Append(bl, h)[i] = bl[i]
  BY AppendProperties DEF Chained
<1>2. ChainIn(Append(bl, h))[b.parent] = ChainIn(bl)[b.parent]
  BY <1>1, ChainAppend
<1>3. ChainIn(bl)[b.parent] \subseteq 1 .. Len(bl)
  <2>1. ChainShape(bl, b.parent)
    BY ChainFacts
  <2>2. QED
    BY <1>1, <2>1 DEF ChainShape
<1>4. QED
  BY <1>1, <1>2, <1>3 DEF Window

(* Admitting a header keeps the invariant: the new header is chained to  *)
(* its parent by InvalidNumber and its uncles pass VerifyUncles over the *)
(* window; the earlier headers, their chains and windows are unchanged.  *)
LEMMA AdmitUncleInv ==
  ASSUME UncleInv, NEW h, Proposed(h)
  PROVE  UncleInv'
<1> DEFINE bl2 == Append(blocks, h)
           N == Len(blocks)
<1>1. /\ h \in Headers /\ h.parent \in Ids /\ h.uncles \in UncleLists
      /\ blocks' = bl2
      /\ \A i \in Ids : blocks[i] # h
      /\ VerifyHeader(h) = "ok" /\ VerifyUncles(h) = "ok"
  BY DEF Proposed, Admit
<1>2. TypeOK /\ Chained(blocks) /\ \A i \in 2 .. N : UnclesAdmitted(blocks, i)
  BY DEF UncleInv
<1>3. TypeOK'
  BY <1>1, <1>2, AdmitTypeOK DEF Proposed
<1>4. h.number = blocks[h.parent].number + 1
  BY <1>1, <1>2, NumberOk
<1>5. /\ N \in Nat /\ N >= 1 /\ Len(bl2) = N + 1
      /\ \A i \in 1 .. N : bl2[i] = blocks[i]
      /\ bl2[N + 1] = h
      /\ bl2 \in Seq(Headers)
  BY <1>1, <1>2, AppendProperties DEF Chained
<1>6. Chained(bl2)
  <2>1. bl2[1] = Genesis
    BY <1>2, <1>5 DEF Chained
  <2>2. ASSUME NEW i \in 2 .. Len(bl2)
        PROVE  bl2[i].parent \in 1 .. i - 1 /\ bl2[i].number = bl2[bl2[i].parent].number + 1
    <3>1. CASE i \in 2 .. N
      <4>1. blocks[i].parent \in 1 .. i - 1
            /\ blocks[i].number = blocks[blocks[i].parent].number + 1
        BY <1>2, <3>1 DEF Chained
      <4>2. QED
        BY <1>5, <3>1, <4>1
    <3>2. CASE i = N + 1
      BY <1>1, <1>4, <1>5, <3>2 DEF Ids
    <3>3. QED
      BY <1>5, <3>1, <3>2
  <2>3. QED
    BY <1>5, <2>1, <2>2 DEF Chained
<1>7. ASSUME NEW i \in 2 .. N PROVE UnclesAdmitted(bl2, i)
  <2> DEFINE b == blocks[i]
  <2>1. UnclesAdmitted(blocks, i)
    BY <1>2
  <2>2. bl2[i] = b /\ b.parent \in 1 .. N
    BY <1>2, <1>5 DEF Chained
  <2>3. Window(bl2, b) = Window(blocks, b) /\ Window(blocks, b) \subseteq 1 .. N
    BY <1>1, <1>2, <1>6, <2>2, WindowAppend
  <2>4. SUFFICES ASSUME NEW k \in 1 .. Len(b.uncles)
                 PROVE  /\ b.uncles[k] \in 1 .. i - 1
                        /\ \A j \in 1 .. k - 1 : b.uncles[j] # b.uncles[k]
                        /\ b.uncles[k] \notin Window(bl2, b)
                        /\ \A a \in Window(bl2, b) : b.uncles[k] \notin Range(bl2[a].uncles)
                        /\ bl2[b.uncles[k]].parent \in Window(bl2, b)
    BY <2>2 DEF UnclesAdmitted
  <2>5. /\ b.uncles[k] \in 1 .. i - 1
        /\ \A j \in 1 .. k - 1 : b.uncles[j] # b.uncles[k]
        /\ b.uncles[k] \notin Window(blocks, b)
        /\ \A a \in Window(blocks, b) : b.uncles[k] \notin Range(blocks[a].uncles)
        /\ blocks[b.uncles[k]].parent \in Window(blocks, b)
    BY <2>1 DEF UnclesAdmitted
  <2>6. bl2[b.uncles[k]] = blocks[b.uncles[k]]
    BY <1>5, <2>5
  <2>7. \A a \in Window(blocks, b) : bl2[a] = blocks[a]
    BY <1>5, <2>3
  <2>8. QED
    BY <2>3, <2>5, <2>6, <2>7
<1>8. UnclesAdmitted(bl2, N + 1)
  <2> DEFINE W == Window(blocks, h)
  <2>1. Ancestors(h) = W
    BY <1>1, <1>2, <1>4, AncestorsWindow
  <2>2. Window(bl2, h) = W /\ W \subseteq 1 .. N
    BY <1>1, <1>2, <1>6, WindowAppend DEF Ids
  <2>3. h.uncles \in Seq(Nat) /\ \A k \in 1 .. Len(h.uncles) : h.uncles[k] \in 1 .. N
    <3>1. PICK j \in 0 .. MaxUncles + 1 : h.uncles \in [1 .. j -> Ids]
      BY <1>1 DEF UncleLists
    <3>2. j \in Nat
      BY <3>1, HeaderAssumption
    <3>3. h.uncles \in Seq(Nat) /\ Len(h.uncles) = j
      BY <3>1, <3>2 DEF Ids
    <3>4. QED
      BY <3>1, <3>3 DEF Ids
  <2>4. \A k \in 1 .. Len(h.uncles) : UncleError(h, k) = "ok"
    BY <1>1, <2>3, UnclesOk
  <2>5. bl2[N + 1] = h
    BY <1>5
  <2>6. SUFFICES ASSUME NEW k \in 1 .. Len(h.uncles)
                 PROVE  /\ h.uncles[k] \in 1 .. (N + 1) - 1
                        /\ \A j \in 1 .. k - 1 : h.uncles[j] # h.uncles[k]
                        /\ h.uncles[k] \notin Window(bl2, h)
                        /\ \A a \in Window(bl2, h) : h.uncles[k] \notin Range(bl2[a].uncles)
                        /\ bl2[h.uncles[k]].parent \in Window(bl2, h)
    BY <2>5 DEF UnclesAdmitted
  <2>7. /\ h.uncles[k] \notin UNION {Range(blocks[a].uncles) : a \in W}
        /\ \A j \in 1 .. k - 1 : h.uncles[j] # h.uncles[k]
        /\ h.uncles[k] \notin W
        /\ blocks[h.uncles[k]].parent \in W
    BY <2>1, <2>4, UncleErrorOk
  <2>8. h.uncles[k] \in 1 .. N /\ bl2[h.uncles[k]] = blocks[h.uncles[k]]
    BY <1>5, <2>3
  <2>9. \A a \in W : bl2[a] = blocks[a]
    BY <1>5, <2>2
  <2>10. QED
    BY <1>5, <2>2, <2>7, <2>8, <2>9
<1>9. QED
  <2>1. \A i \in 2 .. Len(bl2) : UnclesAdmitted(bl2, i)
    BY <1>5, <1>7, <1>8
  <2>2. QED
    BY <1>1, <1>3, <1>6, <2>1 DEF UncleInv

-----------------------------------------------------------------------------
(* The invariant implies UnclesOnce.                                       *)

(* What the invariant says of the k-th uncle of the header at position a: *)
(* genesis has none, so a is a later header, and VerifyUncles admitted it. *)
LEMMA AdmittedAt ==
  ASSUME UncleInv, NEW a \in Ids, NEW k \in 1 .. Len(blocks[a].uncles)
  PROVE  /\ a \in 2 .. Len(blocks)
         /\ blocks[a].uncles[k] \in 1 .. a - 1
         /\ \A j \in 1 .. k - 1 : blocks[a].uncles[j] # blocks[a].uncles[k]
         /\ blocks[a].uncles[k] \notin Window(blocks, blocks[a])
         /\ \A x \in Window(blocks, blocks[a]) : blocks[a].uncles[k] \notin Range(blocks[x].uncles)
         /\ blocks[blocks[a].uncles[k]].parent \in Window(blocks, blocks[a])
<1>1. a # 1
  <2>1. blocks[1].uncles = <<>> /\ Len(<<>>) = 0
    BY GenesisAssumption, EmptySeq DEF UncleInv, Chained
  <2>2. QED
    BY <2>1
<1>2. a \in 2 .. Len(blocks)
  BY <1>1 DEF Ids
<1>3. UnclesAdmitted(blocks, a)
  BY <1>2 DEF UncleInv
<1>4. QED
  BY <1>2, <1>3 DEF UnclesAdmitted

(* The uncle list of a header is a sequence of positions.                 *)
LEMMA UnclesSeq ==
  ASSUME UncleInv, NEW a \in Ids
  PROVE  blocks[a].uncles \in Seq(Nat) /\ DOMAIN blocks[a].uncles = 1 .. Len(blocks[a].uncles)
<1>1. blocks[a] \in Headers
  BY DEF UncleInv, TypeOK, Ids
<1>2. blocks[a].uncles \in Seq(Nat)
  BY <1>1 DEF Headers
<1>3. QED
  BY <1>2, LenProperties

(* Window membership spelled out.                                          *)
LEMMA InWindow ==
  ASSUME NEW bl, NEW b, NEW x
  PROVE  x \in Window(bl, b) <=> x \in ChainIn(bl)[b.parent] /\ bl[x].number >= b.number - UncleWindow
  BY DEF Window

(* No header lists an uncle twice.                                        *)
LEMMA InjectiveUncles ==
  ASSUME UncleInv, NEW a \in Ids
  PROVE  IsInjective(blocks[a].uncles)
<1> DEFINE us == blocks[a].uncles
<1>1. DOMAIN us = 1 .. Len(us) /\ Len(us) \in Nat
  BY UnclesSeq, LenProperties
<1>2. ASSUME NEW x \in 1 .. Len(us), NEW y \in 1 .. Len(us), x < y PROVE us[x] # us[y]
  BY <1>2, AdmittedAt
<1>3. QED
  BY <1>1, <1>2 DEF IsInjective

(* Two headers of one chain have no uncle in common: the later one, a2,   *)
(* sees the earlier one, a1, in its window, because a1 lies above the     *)
(* parent of any uncle of a1 and that parent lies in a2's window.         *)
LEMMA DisjointUncles ==
  ASSUME UncleInv, NEW a1 \in Ids, NEW a2 \in Ids, a1 \in ChainIn(blocks)[a2], a1 # a2
  PROVE  Range(blocks[a1].uncles) \cap Range(blocks[a2].uncles) = {}
<1> DEFINE C == ChainIn(blocks)
           n(x) == blocks[x].number
           W == UncleWindow
<1> SUFFICES ASSUME NEW u \in Range(blocks[a1].uncles) \cap Range(blocks[a2].uncles)
             PROVE  FALSE
  OBVIOUS
<1>1. Chained(blocks) /\ Len(blocks) \in Nat /\ W \in Nat
  BY HeaderAssumption DEF UncleInv, TypeOK
<1>1a. \A x \in 1 .. Len(blocks) : n(x) \in Nat
  <2>1. \A x \in 1 .. Len(blocks) : blocks[x] \in Headers
    BY DEF UncleInv, TypeOK
  <2>2. QED
    BY <2>1 DEF Headers
<1>2. PICK k1 \in 1 .. Len(blocks[a1].uncles) : blocks[a1].uncles[k1] = u
  BY UnclesSeq DEF Range
<1>3. PICK k2 \in 1 .. Len(blocks[a2].uncles) : blocks[a2].uncles[k2] = u
  BY UnclesSeq DEF Range
<1> DEFINE p1 == blocks[a1].parent
           p2 == blocks[a2].parent
           pu == blocks[u].parent
<1>4. /\ a1 \in 2 .. Len(blocks)
      /\ pu \in Window(blocks, blocks[a1])
  BY <1>2, AdmittedAt
<1>5. /\ a2 \in 2 .. Len(blocks)
      /\ \A x \in Window(blocks, blocks[a2]) : u \notin Range(blocks[x].uncles)
      /\ pu \in Window(blocks, blocks[a2])
  BY <1>3, AdmittedAt
<1>6. C[a1] = {a1} \cup C[p1] /\ p1 \in 1 .. Len(blocks) /\ n(a1) = n(p1) + 1
  BY <1>1, <1>4, ChainStep
<1>7. C[a2] = {a2} \cup C[p2] /\ p2 \in 1 .. Len(blocks)
  BY <1>1, <1>5, ChainStep
<1>8. a1 \in C[p2]
  BY <1>7
<1>9. pu \in C[p1] /\ n(pu) >= n(a2) - W
  BY <1>4, <1>5, InWindow
<1>10. n(pu) <= n(p1)
  <2>1. ChainShape(blocks, p1)
    BY <1>1, <1>6, ChainFacts
  <2>2. pu \in 1 .. Len(blocks) /\ n(pu) \in Nat /\ n(p1) \in Nat
    BY <1>1, <1>6, <1>9, <2>1, ChainStep DEF ChainShape
  <2>3. QED
    BY <1>9, <2>1, <2>2 DEF ChainShape
<1>11. n(a1) >= n(a2) - W
  <2>1. pu \in 1 .. Len(blocks)
    <3>1. ChainShape(blocks, p1)
      BY <1>1, <1>6, ChainFacts
    <3>2. QED
      BY <1>1, <1>6, <1>9, <3>1 DEF ChainShape
  <2>2. n(a1) \in Nat /\ n(p1) \in Nat /\ n(pu) \in Nat /\ n(a2) \in Nat
    <3>1. {a1, p1, pu, a2} \subseteq 1 .. Len(blocks)
      BY <1>4, <1>5, <1>6, <2>1
    <3> HIDE DEF n
    <3>2. QED
      BY <1>1a, <3>1, Zenon
  <2> HIDE DEF n
  <2>3. QED
    BY <1>1, <1>6, <1>9, <1>10, <2>2
<1>12. a1 \in Window(blocks, blocks[a2])
  BY <1>8, <1>11, InWindow
<1>13. QED
  BY <1>2, <1>5, <1>12 DEF Range

(* No header of a chain is an uncle on it: an uncle u of a on a's chain  *)
(* would lie below a, and its parent in a's window would put u itself in *)
(* the window, where VerifyUncles refuses it as an ancestor.              *)
LEMMA NoChainUncle ==
  ASSUME UncleInv, NEW b \in Ids, NEW a \in ChainIn(blocks)[b]
  PROVE  Range(blocks[a].uncles) \cap ChainIn(blocks)[b] = {}
<1> DEFINE C == ChainIn(blocks)
           n(x) == blocks[x].number
           W == UncleWindow
<1> SUFFICES ASSUME NEW u \in Range(blocks[a].uncles) \cap C[b] PROVE FALSE
  OBVIOUS
<1>1. /\ Chained(blocks) /\ Len(blocks) \in Nat /\ W \in Nat
      /\ \A x \in 1 .. Len(blocks) : n(x) \in Nat
  <2>1. \A x \in 1 .. Len(blocks) : blocks[x] \in Headers
    BY DEF UncleInv, TypeOK
  <2>2. \A x \in 1 .. Len(blocks) : n(x) \in Nat
    BY <2>1 DEF Headers
  <2>3. Chained(blocks) /\ Len(blocks) \in Nat /\ W \in Nat
    BY HeaderAssumption DEF UncleInv, TypeOK
  <2>4. QED
    BY <2>2, <2>3
<1>2. ChainShape(blocks, b)
  BY <1>1, ChainFacts DEF Ids
<1>3. a \in Ids /\ u \in Ids
  BY <1>2 DEF ChainShape, Ids
<1>4. PICK k \in 1 .. Len(blocks[a].uncles) : blocks[a].uncles[k] = u
  BY <1>3, UnclesSeq DEF Range
<1> DEFINE p == blocks[a].parent
           pu == blocks[u].parent
<1>5. /\ a \in 2 .. Len(blocks) /\ u \in 1 .. a - 1
      /\ u \notin Window(blocks, blocks[a])
      /\ pu \in Window(blocks, blocks[a])
  BY <1>3, <1>4, AdmittedAt
<1>6. C[a] = {a} \cup C[p] /\ p \in 1 .. Len(blocks) /\ n(a) = n(p) + 1
  BY <1>1, <1>5, ChainStep
<1>7. u \in C[p]
  <2>1. u \in C[a] \/ a \in C[u]
    BY <1>2, <1>3 DEF ChainShape
  <2>2. ~(a \in C[u])
    <3>1. C[u] \subseteq 1 .. u
      BY <1>1, <1>3, ChainFacts DEF ChainShape, Ids
    <3>2. QED
      BY <1>5, <3>1
  <2>3. QED
    BY <1>5, <1>6, <2>1, <2>2
<1>8. pu \in C[p] /\ n(pu) >= n(a) - W
  BY <1>5, InWindow
<1>9. C[p] \subseteq 1 .. Len(blocks)
  <2>1. ChainShape(blocks, p)
    BY <1>1, <1>6, ChainFacts
  <2>2. QED
    BY <1>1, <1>6, <2>1 DEF ChainShape
<1>10. u # 1 /\ n(u) = n(pu) + 1
  <2>1. u = 1 => pu = 0
    BY <1>1, <1>3, ChainStep DEF Ids
  <2>2. u # 1
    BY <1>8, <1>9, <2>1
  <2>3. QED
    BY <1>1, <1>3, <2>2, ChainStep DEF Ids
<1>11. n(u) >= n(a) - W
  <2>1. n(u) \in Nat /\ n(pu) \in Nat /\ n(a) \in Nat
    BY <1>1, <1>3, <1>8, <1>9 DEF Ids
  <2> HIDE DEF n
  <2>2. QED
    BY <1>1, <1>8, <1>10, <2>1
<1>12. u \in Window(blocks, blocks[a])
  BY <1>7, <1>11, InWindow
<1>13. QED
  BY <1>5, <1>12

(* ChainOf is the chain of the database.                                  *)
LEMMA ChainOfIn ==
  ChainOf = ChainIn(blocks)
  BY DEF ChainOf, ChainIn, Ids

(* The inductive invariant implies UnclesOnce.                            *)
LEMMA UncleInvOnce ==
  UncleInv => UnclesOnce
<1> SUFFICES ASSUME UncleInv, NEW b \in Ids
             PROVE  LET ch == ChainIn(blocks)[b] IN
                    /\ \A a \in ch : IsInjective(blocks[a].uncles)
                    /\ \A a1, a2 \in ch :
                         a1 # a2 => Range(blocks[a1].uncles) \cap Range(blocks[a2].uncles) = {}
                    /\ \A a \in ch : Range(blocks[a].uncles) \cap ch = {}
  BY ChainOfIn DEF UnclesOnce
<1> DEFINE C == ChainIn(blocks)
<1>1. ChainShape(blocks, b) /\ C[b] \subseteq Ids
  <2>1. Chained(blocks)
    BY DEF UncleInv
  <2>2. ChainShape(blocks, b)
    BY <2>1, ChainFacts DEF Ids
  <2>3. QED
    BY <2>2 DEF ChainShape, Ids
<1>2. \A a \in C[b] : IsInjective(blocks[a].uncles)
  BY <1>1, InjectiveUncles
<1>3. ASSUME NEW a1 \in C[b], NEW a2 \in C[b], a1 # a2
      PROVE  Range(blocks[a1].uncles) \cap Range(blocks[a2].uncles) = {}
  <2>1. a1 \in C[a2] \/ a2 \in C[a1]
    BY <1>1 DEF ChainShape
  <2>2. CASE a1 \in C[a2]
    BY <1>1, <1>3, <2>2, DisjointUncles
  <2>3. CASE a2 \in C[a1]
    <3>1. Range(blocks[a2].uncles) \cap Range(blocks[a1].uncles) = {}
      BY <1>1, <1>3, <2>3, DisjointUncles
    <3>2. QED
      BY <3>1
  <2>4. QED
    BY <2>1, <2>2, <2>3
<1>4. \A a \in C[b] : Range(blocks[a].uncles) \cap C[b] = {}
  BY NoChainUncle
<1>5. QED
  BY <1>2, <1>3, <1>4

(* The database starts as genesis alone.                                  *)
LEMMA InitUncleInv ==
  Init => UncleInv
<1> SUFFICES ASSUME Init PROVE UncleInv
  OBVIOUS
<1>1. TypeOK
  BY TypeInit
<1>2. Genesis \in Headers
  BY HeaderAssumption
<1>3. blocks = <<Genesis>> /\ <<Genesis>> \in Seq(Headers) /\ Len(<<Genesis>>) = 1
  BY <1>2 DEF Init
<1>4. QED
  BY <1>1, <1>3 DEF UncleInv, Chained

(* Every step keeps the invariant.                                        *)
LEMMA StepUncleInv ==
  UncleInv /\ [Next]_vars => UncleInv'
<1> SUFFICES ASSUME UncleInv, [Next]_vars PROVE UncleInv'
  OBVIOUS
<1>1. TypeOK
  BY DEF UncleInv
<1>2. CASE Mine \/ Receive
  <2>1. PICK h : Proposed(h)
    BY <1>1, <1>2, MineAdmits, ReceiveAdmits
  <2>2. QED
    BY <2>1, AdmitUncleInv
<1>3. CASE Tick \/ UNCHANGED vars
  <2>1. TypeOK'
    BY <1>1, TypeStep
  <2>2. blocks' = blocks
    BY <1>3 DEF Tick, vars
  <2>3. QED
    BY <2>1, <2>2 DEF UncleInv
<1>4. QED
  BY <1>2, <1>3 DEF Next

(* Every uncle is rewarded once, on the whole chain and for every uncle  *)
(* window: VerifyUncles (consensus.go lines 204-258) gathers the uncles  *)
(* of UncleWindow ancestors only, and that is enough because an uncle's  *)
(* parent must lie in the window.                                          *)
THEOREM UnclesOnceCorrect == Spec => []UnclesOnce
<1>1. Init => UncleInv
  BY InitUncleInv
<1>2. UncleInv /\ [Next]_vars => UncleInv'
  BY StepUncleInv
<1>3. UncleInv => UnclesOnce
  BY UncleInvOnce
<1>4. QED
  BY <1>1, <1>2, <1>3, PTL DEF Spec
=============================================================================
