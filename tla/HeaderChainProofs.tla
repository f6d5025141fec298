------------------------- MODULE HeaderChainProofs -------------------------
(***************************************************************************)
(* Proofs about HeaderChain for every value of its constants: the type    *)
(* invariant, and that every admitted header meets the header rules of    *)
(* the spec against its parent.                                           *)
(***************************************************************************)
EXTENDS HeaderChain, WellFoundedInduction, SequenceTheorems, TLAPS

-----------------------------------------------------------------------------
(* Lemmas about the operators the checks are built from.                  *)

(* A non-empty set of naturals has a least element (the first failing    *)
(* check exists).                                                          *)
LEMMA MinExists ==
  ASSUME NEW T, T \subseteq Nat, T # {}
  PROVE  \E x \in T : \A y \in T : x <= y
  <1>1. \E x \in T : \A y \in T : ~(<<y, x>> \in OpToRel(<, Nat))
    BY NatLessThanWellFounded, WFMin
  <1>2. \A x, y \in Nat : <<y, x>> \in OpToRel(<, Nat) <=> y < x
    BY Zenon DEF OpToRel
  <1>3. \A x, y \in Nat : ~(y < x) => x <= y
    OBVIOUS
  <1>4. PICK x \in T : \A y \in T : ~(<<y, x>> \in OpToRel(<, Nat))
    BY <1>1
  <1>5. \A y \in T : ~(y < x)
    BY <1>2, <1>4, Zenon
  <1>6. QED
    BY <1>3, <1>5

(* FirstError answers "ok" only when no check fails, provided no failing  *)
(* check reports "ok" as its error.                                       *)
LEMMA FirstErrorOk ==
  ASSUME NEW checks, Len(checks) \in Nat,
         \A i \in 1 .. Len(checks) : checks[i].fails => checks[i].err # "ok",
         FirstError(checks) = "ok"
  PROVE  \A i \in 1 .. Len(checks) : ~checks[i].fails
  <1> DEFINE bad == {i \in 1 .. Len(checks) : checks[i].fails}
  <1>1. SUFFICES ASSUME bad # {} PROVE FALSE
    OBVIOUS
  <1>2. \E i \in bad : \A j \in bad : i <= j
    <2>1. bad \subseteq Nat
      OBVIOUS
    <2> HIDE DEF bad
    <2>2. QED
      BY <1>1, <2>1, MinExists
  <1>3. (CHOOSE i \in bad : \A j \in bad : i <= j) \in bad
    BY <1>2
  <1>4. FirstError(checks) = checks[CHOOSE i \in bad : \A j \in bad : i <= j].err
    BY <1>1 DEF FirstError
  <1>5. QED
    BY <1>3, <1>4, HeaderAssumption

(* The retarget calcDifficultyFrontier never goes below MinimumDifficulty *)
(* and agrees with the rule of spec section 4.3 (the code floors the      *)
(* bombed value a second time; that floor never bites, as the bomb is     *)
(* positive).                                                             *)
LEMMA CalcDifficultyRule ==
  ASSUME NEW p, p.difficulty \in Nat, p.number \in 0 .. 2 * MaxBlocks, NEW time \in Int
  PROVE  /\ CalcDifficulty(time, p) \in Nat
         /\ CalcDifficulty(time, p) >= MinimumDifficulty
         /\ CalcDifficulty(time, p) = SpecDifficulty(time, p)
  <1> DEFINE adjust == p.difficulty \div DifficultyBoundDivisor
             d == IF time - p.time < DurationLimit THEN p.difficulty + adjust
                                                   ELSE p.difficulty - adjust
             floored == IF d < MinimumDifficulty THEN MinimumDifficulty ELSE d
             period == (p.number + 1) \div ExpDiffPeriod
             bomb == 2 ^ (period - 2)
  <1>1. floored \in Int /\ floored >= MinimumDifficulty
    BY HeaderAssumption
  <1>2. period \in Nat /\ period <= 2 * MaxBlocks + 1
    BY HeaderAssumption
  <1>3. CASE period > 1
    <2>1. bomb \in Nat
      <3>1. period - 2 \in 0 .. 2 * MaxBlocks
        BY <1>2, <1>3, HeaderAssumption
      <3>2. QED
        BY <3>1, HeaderAssumption
    <2>2. CalcDifficulty(time, p) = floored + bomb
      BY <1>1, <1>3, <2>1, HeaderAssumption DEF CalcDifficulty, calcDifficultyFrontier
    <2>3. SpecDifficulty(time, p) = floored + bomb
      BY <1>3, HeaderAssumption DEF SpecDifficulty
    <2>4. QED
      BY <1>1, <2>1, <2>2, <2>3, HeaderAssumption
  <1>4. CASE ~(period > 1)
    <2>1. CalcDifficulty(time, p) = floored
      BY <1>4 DEF CalcDifficulty, calcDifficultyFrontier
    <2>2. SpecDifficulty(time, p) = floored
      BY <1>4, HeaderAssumption DEF SpecDifficulty
    <2>3. QED
      BY <1>1, <2>1, <2>2, HeaderAssumption
  <1>5. QED
    BY <1>3, <1>4, HeaderAssumption

-----------------------------------------------------------------------------
(* Type correctness.                                                      *)

(* The assumption on the constants, in the pieces the proofs cite.       *)
LEMMA ConstantFacts ==
  /\ MaxBlocks \in Nat \ {0} /\ MaxTime \in Nat /\ MinimumDifficulty \in Nat \ {0}
  /\ TimeSteps \subseteq Nat /\ GasLimits \subseteq Nat /\ GasUsed \subseteq Nat
  /\ ExtraLens \subseteq Nat /\ Results \subseteq Nat /\ NucDifficulties \subseteq Int
  /\ Genesis \in Headers /\ Genesis.number = 0 /\ Genesis.time <= MaxTime
  /\ Genesis.time \in Nat
  <1>1. Genesis \in Headers
    BY HeaderAssumption
  <1>2. Genesis.time \in Nat
    BY <1>1 DEF Headers
  <1>3. QED
    BY <1>2, HeaderAssumption

(* A header in the database is a Headers record whose number is within    *)
(* twice its position (Receive may skip one number).                      *)
LEMMA ParentFacts ==
  ASSUME TypeOK, NEW p \in Ids
  PROVE  /\ blocks[p] \in Headers
         /\ blocks[p].number \in 0 .. 2 * (Len(blocks) - 1)
         /\ blocks[p].number \in 0 .. 2 * MaxBlocks
  <1>1. blocks[p] \in Headers
    BY DEF TypeOK, Ids
  <1>2. blocks[p].number \in Nat
    BY <1>1 DEF Headers
  <1>3. blocks[p].number <= 2 * (p - 1) /\ p <= Len(blocks) /\ Len(blocks) <= MaxBlocks
    BY DEF TypeOK, Ids
  <1> HIDE DEF Headers
  <1>4. QED
    BY <1>1, <1>2, <1>3, ConstantFacts DEF Ids

LEMMA UncleListsNat ==
  UncleLists \subseteq Seq(Nat)
  BY DEF UncleLists, Ids

(* Admitting a new header whose parent is in the database keeps the type *)
(* invariant: the database stays injective and parents stay earlier.      *)
LEMMA AdmitTypeOK ==
  ASSUME TypeOK, NEW h \in Headers, h.parent \in Ids, h.number <= 2 * Len(blocks),
         Admit(h)
  PROVE  TypeOK'
  <1> HIDE DEF Headers
  <1>1. blocks' = Append(blocks, h) /\ now' = now /\ Len(blocks) < MaxBlocks
    BY DEF Admit
  <1>2. \A i \in Ids : blocks[i] # h
    BY DEF Admit
  <1>3. /\ blocks' \in Seq(Headers)
        /\ Len(blocks') = Len(blocks) + 1
        /\ \A i \in 1 .. Len(blocks) : blocks'[i] = blocks[i]
        /\ blocks'[Len(blocks) + 1] = h
    <2>1. blocks \in Seq(Headers)
      BY DEF TypeOK
    <2>2. QED
      BY <1>1, <2>1, AppendProperties
  <1>4. Len(blocks) \in 1 .. MaxBlocks - 1
    BY <1>1, HeaderAssumption DEF TypeOK
  <1>5. IsInjective(blocks')
    <2>1. DOMAIN blocks' = 1 .. Len(blocks) + 1 /\ DOMAIN blocks = 1 .. Len(blocks)
      BY <1>3 DEF TypeOK
    <2>2. QED
      BY <1>2, <1>3, <1>4, <2>1 DEF TypeOK, IsInjective, Ids
  <1>6. \A i \in 2 .. Len(blocks') : blocks'[i].parent \in 1 .. i - 1
    BY <1>3, <1>4 DEF TypeOK, Ids
  <1>7. \A i \in 1 .. Len(blocks') : blocks'[i].number <= 2 * (i - 1)
    <2> SUFFICES ASSUME NEW i \in 1 .. Len(blocks') PROVE blocks'[i].number <= 2 * (i - 1)
      OBVIOUS
    <2>1. CASE i <= Len(blocks)
      BY <1>3, <1>4, <2>1 DEF TypeOK, Ids
    <2>2. CASE i = Len(blocks) + 1
      BY <1>3, <1>4, <2>2
    <2>3. QED
      BY <1>3, <1>4, <2>1, <2>2
  <1>8. now' \in Genesis.time .. MaxTime
    BY <1>1 DEF TypeOK
  <1>9. Len(blocks') \in 1 .. MaxBlocks
    BY <1>3, <1>4, HeaderAssumption
  <1>10. QED
    BY <1>3, <1>5, <1>6, <1>7, <1>8, <1>9 DEF TypeOK, Ids

(* A header Mine or Receive proposes is a Headers record whose parent is  *)
(* in the database, whose number is within twice the database's length    *)
(* and whose uncles are headers of the database.                           *)
Proposed(h) ==
  /\ h \in Headers /\ h.parent \in Ids /\ h.number <= 2 * Len(blocks)
  /\ h.uncles \in UncleLists /\ Admit(h)

(* The header Mine builds with Prepare's difficulty is well formed.        *)
LEMMA MineAdmits ==
  ASSUME TypeOK, Mine
  PROVE  \E h : Proposed(h)
  <1>1. PICK p \in Ids, dt \in TimeSteps, cb \in Coinbases, gl \in GasLimits,
             gu \in GasUsed, us \in UncleLists, r \in Results :
          LET d == CalcDifficulty(blocks[p].time + dt, blocks[p]) IN
          Admit([parent |-> p, number |-> blocks[p].number + 1,
                 time |-> blocks[p].time + dt, coinbase |-> cb, difficulty |-> d,
                 nucDifficulty |-> d, mixOk |-> TRUE, result |-> r, gasLimit |-> gl,
                 gasUsed |-> gu, extra |-> 0, uncles |-> us])
    BY DEF Mine
  <1> DEFINE d == CalcDifficulty(blocks[p].time + dt, blocks[p])
             h == [parent |-> p, number |-> blocks[p].number + 1,
                   time |-> blocks[p].time + dt, coinbase |-> cb, difficulty |-> d,
                   nucDifficulty |-> d, mixOk |-> TRUE, result |-> r, gasLimit |-> gl,
                   gasUsed |-> gu, extra |-> 0, uncles |-> us]
  <1>2. blocks[p] \in Headers /\ blocks[p].number \in 0 .. 2 * (Len(blocks) - 1)
        /\ blocks[p].number \in 0 .. 2 * MaxBlocks
    BY ParentFacts
  <1>3. blocks[p].difficulty \in Nat /\ blocks[p].time \in Nat
    BY <1>2 DEF Headers
  <1>3a. dt \in Nat /\ gl \in Nat /\ gu \in Nat /\ r \in Nat /\ us \in Seq(Nat)
    BY UncleListsNat, ConstantFacts
  <1>4. d \in Nat
    <2>1. blocks[p].time + dt \in Int
      BY <1>3, <1>3a
    <2> HIDE DEF Headers
    <2>2. QED
      BY <1>2, <1>3, <2>1, CalcDifficultyRule
  <1>5. h \in Headers
    <2>1. p \in Nat /\ blocks[p].number + 1 \in Nat /\ blocks[p].time + dt \in Nat
      BY <1>2, <1>3, <1>3a DEF Ids
    <2>2. d \in Int
      BY <1>4
    <2>3. QED
      BY <1>3a, <1>4, <2>1, <2>2, Zenon DEF Headers
  <1>6. h.parent \in Ids /\ h.number <= 2 * Len(blocks) /\ h.uncles \in UncleLists
    BY <1>2 DEF Ids
  <1>7. QED
    BY <1>1, <1>5, <1>6 DEF Proposed

(* A header received from a peer is well formed whatever fields it has.   *)
LEMMA ReceiveAdmits ==
  ASSUME TypeOK, Receive
  PROVE  \E h : Proposed(h)
  <1>1. PICK p \in Ids, dn \in {1, 2}, dt \in TimeSteps, cb \in Coinbases, dd \in {0, 1},
             nd \in NucDifficulties, mix \in BOOLEAN, r \in Results, gl \in GasLimits,
             gu \in GasUsed, ex \in ExtraLens, us \in UncleLists :
          Admit([parent |-> p, number |-> blocks[p].number + dn,
                 time |-> blocks[p].time + dt, coinbase |-> cb,
                 difficulty |-> CalcDifficulty(blocks[p].time + dt, blocks[p]) + dd,
                 nucDifficulty |-> nd, mixOk |-> mix, result |-> r,
                 gasLimit |-> gl, gasUsed |-> gu, extra |-> ex, uncles |-> us])
    BY DEF Receive
  <1> DEFINE h == [parent |-> p, number |-> blocks[p].number + dn,
                   time |-> blocks[p].time + dt, coinbase |-> cb,
                   difficulty |-> CalcDifficulty(blocks[p].time + dt, blocks[p]) + dd,
                   nucDifficulty |-> nd, mixOk |-> mix, result |-> r,
                   gasLimit |-> gl, gasUsed |-> gu, extra |-> ex, uncles |-> us]
  <1>2. blocks[p] \in Headers /\ blocks[p].number \in 0 .. 2 * (Len(blocks) - 1)
        /\ blocks[p].number \in 0 .. 2 * MaxBlocks
    BY ParentFacts
  <1>3. blocks[p].difficulty \in Nat /\ blocks[p].time \in Nat
    BY <1>2 DEF Headers
  <1>3a. dt \in Nat /\ gl \in Nat /\ gu \in Nat /\ r \in Nat /\ us \in Seq(Nat)
         /\ ex \in Nat /\ nd \in Int
    BY UncleListsNat, ConstantFacts
  <1>4. CalcDifficulty(blocks[p].time + dt, blocks[p]) \in Nat
    <2>1. blocks[p].time + dt \in Int
      BY <1>3, <1>3a
    <2> HIDE DEF Headers
    <2>2. QED
      BY <1>2, <1>3, <2>1, CalcDifficultyRule
  <1>5. h \in Headers
    <2>1. p \in Nat /\ blocks[p].number + dn \in Nat /\ blocks[p].time + dt \in Nat
      <3>1. p \in Nat
        BY DEF Ids
      <3>2. blocks[p].number \in Nat /\ dn \in Nat
        BY <1>2
      <3>3. blocks[p].time + dt \in Nat
        BY <1>3, <1>3a
      <3>4. QED
        BY <3>1, <3>2, <3>3
    <2>2. CalcDifficulty(blocks[p].time + dt, blocks[p]) + dd \in Nat
      BY <1>4
    <2>3. QED
      BY <1>3a, <2>1, <2>2, Zenon DEF Headers
  <1>6. h.parent \in Ids /\ h.number <= 2 * Len(blocks) /\ h.uncles \in UncleLists
    BY <1>2 DEF Ids
  <1>7. Admit(h)
    BY <1>1
  <1> HIDE DEF h
  <1>8. QED
    BY <1>5, <1>6, <1>7 DEF Proposed

(* The initial database, genesis alone, is well typed.                    *)
LEMMA TypeInit ==
  Init => TypeOK
  <1> SUFFICES ASSUME Init PROVE TypeOK
    OBVIOUS
  <1>1. Genesis \in Headers /\ Genesis.number = 0 /\ Genesis.time <= MaxTime
        /\ MaxBlocks \in Nat \ {0}
    BY ConstantFacts
  <1>2. Genesis.time \in Nat
    BY <1>1 DEF Headers
  <1> HIDE DEF Headers
  <1>3. blocks \in Seq(Headers) /\ Len(blocks) \in 1 .. MaxBlocks
    BY <1>1 DEF Init
  <1>4. IsInjective(blocks)
    BY DEF Init, IsInjective
  <1>5. QED
    BY <1>1, <1>2, <1>3, <1>4 DEF Init, TypeOK, Ids

(* Every step keeps the type invariant.                                    *)
LEMMA TypeStep ==
  TypeOK /\ [Next]_vars => TypeOK'
  <1> SUFFICES ASSUME TypeOK, [Next]_vars PROVE TypeOK'
    OBVIOUS
  <1>1. CASE Mine \/ Receive
    <2>1. PICK h : Proposed(h)
      BY <1>1, MineAdmits, ReceiveAdmits
    <2>2. QED
      BY <2>1, AdmitTypeOK DEF Proposed
  <1>2. CASE Tick
    <2>1. blocks' = blocks /\ now' = now + 1 /\ now < MaxTime
      BY <1>2 DEF Tick
    <2> HIDE DEF Headers
    <2>2. now' \in Genesis.time .. MaxTime
      BY <2>1, ConstantFacts DEF TypeOK
    <2>3. QED
      BY <2>1, <2>2 DEF TypeOK, Ids
  <1>3. CASE UNCHANGED vars
    BY <1>3 DEF vars, TypeOK, Ids
  <1>4. QED
    BY <1>1, <1>2, <1>3 DEF Next

(* The chain database is always a sequence of headers, genesis first,     *)
(* with no header twice and every parent earlier than its child: what    *)
(* Admit's known-header test and VerifyHeader's parent lookup give.       *)
THEOREM HeaderTypeCorrect == Spec => []TypeOK
  BY TypeInit, TypeStep, PTL DEF Spec

-----------------------------------------------------------------------------
(* Every admitted header meets the header rules.                          *)

(* VerifyHeader accepts a new header only when its parent is in the       *)
(* database with the number before it and no check of verifyHeader fails. *)
LEMMA VerifyHeaderOk ==
  ASSUME TypeOK, NEW h, \A i \in Ids : blocks[i] # h, VerifyHeader(h) = "ok"
  PROVE  /\ h.parent \in Ids
         /\ \A i \in 1 .. 9 : ~HeaderChecks(h, blocks[h.parent], FALSE, TRUE)[i].fails
  <1>1. h.parent \in Ids /\ VerifyHeaderError(h, blocks[h.parent], FALSE, TRUE) = "ok"
    BY DEF VerifyHeader
  <1> DEFINE checks == HeaderChecks(h, blocks[h.parent], FALSE, TRUE)
  <1> HIDE DEF checks
  <1>2. Len(checks) = 9
    BY DEF checks, HeaderChecks
  <1>3. \A i \in 1 .. 9 : checks[i].fails => checks[i].err # "ok"
    <2> SUFFICES ASSUME NEW i \in 1 .. 9, checks[i].fails PROVE checks[i].err # "ok"
      OBVIOUS
    <2>1. CASE i \in 1 .. 8
      BY <2>1 DEF checks, HeaderChecks
    <2>2. CASE i = 9
      <3>1. checks[9] = [fails |-> TRUE /\ SealError(h) # "ok", err |-> SealError(h)]
        BY DEF checks, HeaderChecks
      <3> HIDE DEF SealError
      <3>2. CASE SealError(h) # "ok"
        <4>1. checks[i].err = SealError(h)
          BY <2>2, <3>1
        <4>2. QED
          BY <3>2, <4>1
      <3>3. CASE SealError(h) = "ok"
        <4>1. checks[9] = [fails |-> FALSE, err |-> "ok"]
          BY <3>1, <3>3
        <4>2. QED
          BY <2>2, <4>1
      <3>4. QED
        BY <3>2, <3>3
    <2>3. QED
      BY <2>1, <2>2
  <1>4. FirstError(checks) = "ok"
    BY <1>1 DEF VerifyHeaderError, checks
  <1>5. \A i \in 1 .. Len(checks) : checks[i].fails => checks[i].err # "ok"
    BY <1>2, <1>3
  <1> HIDE DEF FirstError
  <1>6. \A i \in 1 .. Len(checks) : ~checks[i].fails
    <2>1. Len(checks) \in Nat
      BY <1>2
    <2>2. QED
      BY <1>4, <1>5, <2>1, FirstErrorOk, Zenon
  <1>7. QED
    BY <1>1, <1>2, <1>6 DEF checks

(* The rules HeaderRules states of a header h against its parent p.       *)
RuleOf(h, p) ==
  /\ h.gasUsed <= h.gasLimit /\ h.gasLimit <= GasCap
  /\ h.gasLimit - p.gasLimit < p.gasLimit \div GasLimitBoundDivisor
  /\ p.gasLimit - h.gasLimit < p.gasLimit \div GasLimitBoundDivisor
  /\ h.gasLimit >= MinGasLimit
  /\ h.number = p.number + 1 /\ h.time > p.time
  /\ h.difficulty = SpecDifficulty(h.time, p) /\ h.difficulty > 0
  /\ h.nucDifficulty > 0 /\ h.extra <= MaximumExtraDataSize

(* With a real seal check, a new header that VerifyHeader accepts meets   *)
(* the rules against its parent: each rule is one check of verifyHeader   *)
(* that did not fail, the retarget by CalcDifficultyRule.                 *)
LEMMA NewHeaderRule ==
  ASSUME TypeOK, ~FakePow, NEW h \in Headers, \A i \in Ids : blocks[i] # h,
         VerifyHeader(h) = "ok"
  PROVE  RuleOf(h, blocks[h.parent])
  <1>1. h.parent \in Ids /\ \A i \in 1 .. 9 : ~HeaderChecks(h, blocks[h.parent], FALSE, TRUE)[i].fails
    BY VerifyHeaderOk
  <1> DEFINE p == blocks[h.parent]
  <1>2. p \in Headers /\ p.number \in 0 .. 2 * MaxBlocks
    BY <1>1, ParentFacts
  <1> DEFINE checks == HeaderChecks(h, p, FALSE, TRUE)
             gasDiff == IF p.gasLimit >= h.gasLimit THEN p.gasLimit - h.gasLimit
                                                    ELSE h.gasLimit - p.gasLimit
  <1>3. \A i \in 1 .. 9 : ~checks[i].fails
    BY <1>1
  <1> HIDE DEF checks
  <1>4. ~(h.extra > MaximumExtraDataSize)
    <2>1. SUFFICES ASSUME h.extra > MaximumExtraDataSize PROVE FALSE
      OBVIOUS
    <2>2. checks[1] = [fails |-> TRUE, err |-> "ExtraTooLong"]
      BY <2>1 DEF checks, HeaderChecks
    <2>3. QED
      BY <1>3, <2>2
  <1>5. ~(h.time <= p.time)
    <2>1. SUFFICES ASSUME h.time <= p.time PROVE FALSE
      OBVIOUS
    <2>2. checks[3] = [fails |-> TRUE, err |-> "ZeroBlockTime"]
      BY <2>1 DEF checks, HeaderChecks
    <2>3. QED
      BY <1>3, <2>2
  <1>5a. ~(CalcDifficulty(h.time, p) # h.difficulty)
    <2>1. SUFFICES ASSUME CalcDifficulty(h.time, p) # h.difficulty PROVE FALSE
      OBVIOUS
    <2>2. checks[4] = [fails |-> TRUE, err |-> "InvalidDifficulty"]
      BY <2>1 DEF checks, HeaderChecks
    <2>3. QED
      BY <1>3, <2>2
  <1>5b. ~(h.gasLimit > GasCap)
    <2>1. SUFFICES ASSUME h.gasLimit > GasCap PROVE FALSE
      OBVIOUS
    <2>2. checks[5] = [fails |-> TRUE, err |-> "InvalidGasLimit"]
      BY <2>1 DEF checks, HeaderChecks
    <2>3. QED
      BY <1>3, <2>2
  <1>5c. ~(h.gasUsed > h.gasLimit)
    <2>1. SUFFICES ASSUME h.gasUsed > h.gasLimit PROVE FALSE
      OBVIOUS
    <2>2. checks[6] = [fails |-> TRUE, err |-> "InvalidGasUsed"]
      BY <2>1 DEF checks, HeaderChecks
    <2>3. QED
      BY <1>3, <2>2
  <1>5d. ~(gasDiff >= p.gasLimit \div GasLimitBoundDivisor \/ h.gasLimit < MinGasLimit)
    <2>1. SUFFICES ASSUME gasDiff >= p.gasLimit \div GasLimitBoundDivisor \/ h.gasLimit < MinGasLimit PROVE FALSE
      OBVIOUS
    <2>2. checks[7] = [fails |-> TRUE, err |-> "InvalidGasLimit"]
      BY <2>1 DEF checks, HeaderChecks, gasDiff
    <2>3. QED
      BY <1>3, <2>2
  <1>5e. ~(h.number - p.number # 1)
    <2>1. SUFFICES ASSUME h.number - p.number # 1 PROVE FALSE
      OBVIOUS
    <2>2. checks[8] = [fails |-> TRUE, err |-> "InvalidNumber"]
      BY <2>1 DEF checks, HeaderChecks
    <2>3. QED
      BY <1>3, <2>2
  <1>5f. SealError(h) = "ok"
    <2>1. SUFFICES ASSUME SealError(h) # "ok" PROVE FALSE
      OBVIOUS
    <2>2. checks[9] = [fails |-> TRUE, err |-> SealError(h)]
      BY <2>1 DEF checks, HeaderChecks
    <2>3. QED
      BY <1>3, <2>2
  <1>6. h.nucDifficulty > 0
    <2>1. h.nucDifficulty \in Int
      BY DEF Headers
    <2>2. QED
      BY <1>5f, <2>1, HeaderAssumption DEF SealError
  <1>7. /\ h.gasLimit \in Nat /\ h.gasUsed \in Nat /\ h.extra \in Nat /\ h.time \in Nat
        /\ h.number \in Nat /\ h.difficulty \in Nat
        /\ p.gasLimit \in Nat /\ p.time \in Nat /\ p.number \in Nat /\ p.difficulty \in Nat
    BY <1>2 DEF Headers
  <1>8. /\ h.difficulty = SpecDifficulty(h.time, p)
        /\ h.difficulty >= MinimumDifficulty
    <2> HIDE DEF Headers
    <2>1. CalcDifficulty(h.time, p) >= MinimumDifficulty
          /\ CalcDifficulty(h.time, p) = SpecDifficulty(h.time, p)
      BY <1>2, <1>7, CalcDifficultyRule
    <2>2. QED
      BY <1>5a, <2>1
  <1>9. QED
    <2> HIDE DEF Headers
    <2>1. GasLimitBoundDivisor \in Nat \ {0} /\ MinimumDifficulty \in Nat \ {0}
          /\ GasCap \in Nat /\ MaximumExtraDataSize \in Nat /\ MinGasLimit \in Nat
      BY HeaderAssumption
    <2>2. QED
      BY <1>4, <1>5, <1>5b, <1>5c, <1>5d, <1>5e, <1>6, <1>7, <1>8, <2>1
      DEF RuleOf, gasDiff

(* Admitting a new header keeps the header rules: the old headers and     *)
(* their parents are where they were, the new one meets them.             *)
LEMMA AdmitRules ==
  ASSUME TypeOK, HeaderRules, ~FakePow, NEW h, Proposed(h)
  PROVE  HeaderRules'
  <1> HIDE DEF Headers
  <1>1. h \in Headers /\ h.parent \in Ids /\ blocks' = Append(blocks, h)
        /\ \A i \in Ids : blocks[i] # h /\ VerifyHeader(h) = "ok"
    BY DEF Proposed, Admit
  <1>2. /\ Len(blocks') = Len(blocks) + 1
        /\ \A i \in 1 .. Len(blocks) : blocks'[i] = blocks[i]
        /\ blocks'[Len(blocks) + 1] = h
    <2>1. blocks \in Seq(Headers)
      BY DEF TypeOK
    <2>2. QED
      BY <1>1, <2>1, AppendProperties
  <1>3. SUFFICES ASSUME NEW i \in 2 .. Len(blocks')
                 PROVE  RuleOf(blocks'[i], blocks'[blocks'[i].parent])
    BY DEF HeaderRules, RuleOf
  <1>4. Len(blocks) \in Nat
    BY DEF TypeOK
  <1>5. CASE i <= Len(blocks)
    <2>1. blocks'[i] = blocks[i] /\ blocks[i].parent \in 1 .. i - 1
      BY <1>2, <1>4, <1>5 DEF TypeOK
    <2>2. blocks'[blocks[i].parent] = blocks[blocks[i].parent]
      BY <1>2, <1>4, <1>5, <2>1
    <2>3. RuleOf(blocks[i], blocks[blocks[i].parent])
      BY <1>4, <1>5 DEF HeaderRules, RuleOf
    <2>4. QED
      BY <2>1, <2>2, <2>3
  <1>6. CASE i = Len(blocks) + 1
    <2>1. blocks'[i] = h /\ blocks'[h.parent] = blocks[h.parent]
      BY <1>1, <1>2, <1>6 DEF Ids
    <2>2. RuleOf(h, blocks[h.parent])
      BY <1>1, NewHeaderRule
    <2>3. QED
      BY <2>1, <2>2
  <1>7. QED
    BY <1>2, <1>4, <1>5, <1>6

(* Under a real seal check (PowMode neither fake mode), every header in   *)
(* the chain database meets the header rules of spec section 2 and the    *)
(* retarget of section 4.3 against its parent: verifyHeader's checks,     *)
(* run once when the header is admitted, stay true of the database.       *)
THEOREM HeaderRulesCorrect ==
  ASSUME ~FakePow
  PROVE  Spec => []HeaderRules
  <1>1. Init => HeaderRules
    BY DEF Init, HeaderRules
  <1>2. TypeOK /\ HeaderRules /\ [Next]_vars => HeaderRules'
    <2> SUFFICES ASSUME TypeOK, HeaderRules, [Next]_vars PROVE HeaderRules'
      OBVIOUS
    <2>1. CASE Mine \/ Receive
      <3>1. PICK h : Proposed(h)
        BY <2>1, MineAdmits, ReceiveAdmits
      <3>2. QED
        BY <3>1, AdmitRules
    <2>2. CASE Tick \/ UNCHANGED vars
      <3>1. blocks' = blocks
        BY <2>2 DEF Tick, vars
      <3>2. QED
        BY <3>1 DEF HeaderRules
    <2>3. QED
      BY <2>1, <2>2 DEF Next
  <1>3. QED
    BY <1>1, <1>2, TypeInit, TypeStep, PTL DEF Spec
=============================================================================
