-------------------------- MODULE AwalePlayProofs ---------------------------
(***************************************************************************)
(* Proofs about play() for boards of every size: no iteration of the       *)
(* sowing loops makes or loses a seed, every count stays within the seeds  *)
(* in play, and a hand is never sown into the pit it came from.  Then that *)
(* a call of play(), sowing pit by pit, is one step of AwaleGame.          *)
(***************************************************************************)
EXTENDS AwalePlay, RulesProofs

(* The seeds out of the pits: captured, or in the hand of a sowing.        *)
OutOfPits ==
  awale.score[PLAYER1] + awale.score[PLAYER2] + (IF pc = "sow" THEN seeds ELSE 0)

(* SeedsAreConserved and CopyWithinSeeds, stated of some running totals.   *)
SeedsAreCounted ==
  \E s \in [0 .. Pits -> 0 .. TotalSeeds] :
    CountsSeeds(s, awale.grid) /\ s[Pits] + OutOfPits = TotalSeeds

CopyIsCounted ==
  \E s \in [0 .. Pits -> 0 .. TotalSeeds] :
    /\ CountsSeeds(s, copy)
    /\ s[Pits] + (IF pc = "simulate" THEN seeds ELSE 0) <= TotalSeeds

(* The inductive invariant.                                                *)
PlayInv == TypeOK /\ SeedsAreCounted /\ CopyIsCounted /\ NeverSownBack

-----------------------------------------------------------------------------
LEMMA InitPlayInv == Init => PlayInv
<1> SUFFICES ASSUME Init PROVE PlayInv
  OBVIOUS
<1>1. /\ awale \in Awale /\ HoldsSeeds(awale.grid, TotalSeeds)
      /\ awale.score[PLAYER1] = 0 /\ awale.score[PLAYER2] = 0
  BY ResetHolds DEF Init
<1>2. PICK s \in [0 .. Pits -> 0 .. TotalSeeds] :
        CountsSeeds(s, awale.grid) /\ s[Pits] = TotalSeeds
  BY <1>1, AwaleGridIsNat, PitBounds, TotalIsNat
<1>3. /\ pc = "idle" /\ awale \in Awale /\ entry = awale /\ copy = awale.grid
      /\ validity = "INVALID" /\ over = FALSE /\ seeds = 0
      /\ player = PLAYER1 /\ target = 0 /\ pos = [row |-> 0, line |-> PLAYER1]
  BY <1>1 DEF Init
<1>4. TypeOK
  <2>1. 0 \in Rows /\ PLAYER1 \in PlayerID /\ 0 \in 0 .. TotalSeeds
    BY TotalIsNat, PitNumbers DEF Rows, PlayerID
  <2>2. copy \in Grid /\ pos \in Position
    BY <1>3, <2>1, AwaleGridIsNat DEF Position
  <2> QED
    BY <1>3, <2>1, <2>2 DEF TypeOK
<1>5. SeedsAreCounted
  <2>1. OutOfPits = 0
    BY <1>1, <1>3 DEF OutOfPits
  <2>2. s[Pits] + OutOfPits = TotalSeeds
    BY <1>2, <2>1, TotalIsNat
  <2> QED
    BY <1>2, <2>2 DEF SeedsAreCounted
<1>6. CopyIsCounted
  <2>1. s[Pits] + (IF pc = "simulate" THEN seeds ELSE 0) <= TotalSeeds
    BY <1>2, <1>3, TotalIsNat
  <2> QED
    BY <1>2, <1>3, <2>1 DEF CopyIsCounted
<1>7. NeverSownBack
  BY <1>3 DEF NeverSownBack
<1> QED
  BY <1>4, <1>5, <1>6, <1>7 DEF PlayInv

(* The invariant without the quantified counts, as the steps use it.       *)
LEMMA PlayInvCounts ==
  ASSUME PlayInv
  PROVE  /\ TypeOK
         /\ awale.grid \in NatGrid /\ copy \in NatGrid
         /\ \A q \in PlayerID : awale.score[q] \in Nat
         /\ \E n \in 0 .. TotalSeeds :
              HoldsSeeds(awale.grid, n) /\ n + OutOfPits = TotalSeeds
         /\ \E n \in 0 .. TotalSeeds :
              /\ HoldsSeeds(copy, n)
              /\ n + (IF pc = "simulate" THEN seeds ELSE 0) <= TotalSeeds
<1>1. TypeOK
  BY DEF PlayInv
<1>2. awale.grid \in NatGrid /\ \A q \in PlayerID : awale.score[q] \in Nat
  BY <1>1, AwaleGridIsNat DEF TypeOK
<1>3. copy \in NatGrid
  BY <1>1, TotalIsNat DEF TypeOK, Grid, NatGrid
<1>4. \E n \in 0 .. TotalSeeds :
        HoldsSeeds(awale.grid, n) /\ n + OutOfPits = TotalSeeds
  BY CountsHold DEF PlayInv, SeedsAreCounted
<1>5. \E n \in 0 .. TotalSeeds :
        /\ HoldsSeeds(copy, n)
        /\ n + (IF pc = "simulate" THEN seeds ELSE 0) <= TotalSeeds
  BY CountsHold DEF PlayInv, CopyIsCounted
<1> QED
  BY <1>1, <1>2, <1>3, <1>4, <1>5

LEMMA RefuseKeepsPlayInv ==
  ASSUME PlayInv, NEW p, NEW t, Refuse(p, t)
  PROVE  PlayInv'
<1>1. /\ pc = "idle" /\ pc' = "idle"
      /\ UNCHANGED << awale, seeds, pos, copy, player, target, entry >>
      /\ validity' \in Validity /\ over' \in BOOLEAN
  BY DEF Refuse, Return, call, Validity, GameOver
<1>2. TypeOK'
  BY <1>1 DEF PlayInv, TypeOK
<1>3. SeedsAreCounted'
  BY <1>1 DEF PlayInv, SeedsAreCounted, OutOfPits
<1>4. CopyIsCounted'
  BY <1>1 DEF PlayInv, CopyIsCounted
<1>5. NeverSownBack'
  BY <1>1 DEF NeverSownBack
<1> QED
  BY <1>2, <1>3, <1>4, <1>5 DEF PlayInv

LEMMA BeginSimulationKeepsPlayInv ==
  ASSUME PlayInv, NEW p \in PlayerID, NEW t, BeginSimulation(p, t)
  PROVE  PlayInv'
<1>1. /\ pc = "idle" /\ pc' = "simulate" /\ t \in Rows
      /\ player' = p /\ target' = t /\ entry' = awale
      /\ seeds' = awale.grid[t][p]
      /\ pos' = [row |-> t, line |-> p]
      /\ copy' = [awale.grid EXCEPT ![t][p] = 0]
      /\ UNCHANGED << awale, validity, over >>
  BY DEF BeginSimulation
<1>2. TypeOK /\ awale.grid \in NatGrid /\ awale.grid[t][p] \in Nat
  BY <1>1, PlayInvCounts DEF NatGrid
<1>3. PICK n \in 0 .. TotalSeeds : HoldsSeeds(awale.grid, n)
  BY PlayInvCounts
<1>4. /\ n + 0 - awale.grid[t][p] \in Nat
      /\ HoldsSeeds(copy', n + 0 - awale.grid[t][p])
  <2>1. n \in Nat /\ 0 \in Nat /\ t \in Rows
    BY <1>1, TotalIsNat
  <2>2. /\ n + 0 - awale.grid[t][p] \in Nat
        /\ HoldsSeeds([awale.grid EXCEPT ![t][p] = 0], n + 0 - awale.grid[t][p])
    BY <1>2, <1>3, <2>1, PitChange
  <2> QED
    BY <1>1, <2>2
<1>5. copy' \in NatGrid
  BY <1>1, <1>2 DEF NatGrid
<1>6. (n + 0 - awale.grid[t][p]) + seeds' <= TotalSeeds
  BY <1>1, <1>2, <1>3, TotalIsNat
<1>7. /\ copy' \in Grid /\ seeds' \in 0 .. TotalSeeds
      /\ \E s \in [0 .. Pits -> 0 .. TotalSeeds] :
            CountsSeeds(s, copy') /\ s[Pits] + seeds' <= TotalSeeds
  BY <1>1, <1>2, <1>4, <1>5, <1>6, CountedCopy
<1>8. TypeOK'
  BY <1>1, <1>2, <1>7 DEF TypeOK, Position
<1>9. SeedsAreCounted'
  BY <1>1 DEF PlayInv, SeedsAreCounted, OutOfPits
<1>10. CopyIsCounted'
  BY <1>1, <1>7 DEF CopyIsCounted
<1>11. NeverSownBack'
  BY <1>1, <1>2 DEF NeverSownBack, NatGrid
<1> QED
  BY <1>8, <1>9, <1>10, <1>11 DEF PlayInv

LEMMA SimulateSeedKeepsPlayInv ==
  ASSUME PlayInv, SimulateSeed
  PROVE  PlayInv'
<1>1. /\ pc = "simulate" /\ pc' = "simulate" /\ seeds > 0
      /\ pos' = Ahead(pos)
      /\ UNCHANGED << awale, validity, over, player, target, entry >>
  BY DEF SimulateSeed, call
<1>2. /\ TypeOK /\ copy \in NatGrid /\ seeds \in Nat /\ pos' \in Position
  BY <1>1, PlayInvCounts, AheadIsPosition, TotalIsNat DEF TypeOK
<1>3. SeedsAreCounted'
  BY <1>1 DEF PlayInv, SeedsAreCounted, OutOfPits
<1>4. CASE pos' = Begin
  <2>1. UNCHANGED << copy, seeds >>
    BY <1>4 DEF SimulateSeed
  <2>2. TypeOK'
    BY <1>1, <1>2, <2>1 DEF TypeOK
  <2>3. CopyIsCounted'
    BY <1>1, <2>1 DEF PlayInv, CopyIsCounted
  <2>4. NeverSownBack'
    BY <1>1, <2>1 DEF PlayInv, NeverSownBack
  <2> QED
    BY <1>3, <2>2, <2>3, <2>4 DEF PlayInv
<1>5. CASE pos' # Begin
  <2>1. copy' = DropOnCopy(player, copy, pos') /\ seeds' = seeds - 1
    BY <1>5 DEF SimulateSeed
  <2>2. PICK v \in Nat :
          /\ v <= copy[pos'.row][pos'.line] + 1
          /\ copy' = [copy EXCEPT ![pos'.row][pos'.line] = v]
    <3>1. player \in PlayerID
      BY <1>2 DEF TypeOK
    <3>2. \E v \in Nat :
            /\ v <= copy[pos'.row][pos'.line] + 1
            /\ DropOnCopy(player, copy, pos') = [copy EXCEPT ![pos'.row][pos'.line] = v]
      BY <1>2, <3>1, DropOnCopyEffect
    <3> QED
      BY <2>1, <3>2
  <2>3. PICK n \in 0 .. TotalSeeds : HoldsSeeds(copy, n) /\ n + seeds <= TotalSeeds
    BY <1>1, PlayInvCounts
  <2>4. /\ pos'.row \in Rows /\ pos'.line \in PlayerID
        /\ copy[pos'.row][pos'.line] \in Nat
    BY <1>2 DEF Position, NatGrid
  <2> DEFINE m == n + v - copy[pos'.row][pos'.line]
  <2>5. m \in Nat /\ HoldsSeeds(copy', m)
    <3>1. n \in Nat
      BY TotalIsNat
    <3>2. m \in Nat /\ HoldsSeeds([copy EXCEPT ![pos'.row][pos'.line] = v], m)
      BY <1>2, <2>3, <2>4, <3>1, PitChange
    <3> QED
      BY <2>2, <3>2
  <2>6. copy' \in NatGrid
    BY <1>2, <2>2, <2>4 DEF NatGrid
  <2>7. seeds' \in Nat /\ m + seeds' <= TotalSeeds
    BY <1>1, <1>2, <2>1, <2>2, <2>3, <2>4, TotalIsNat
  <2>8. /\ copy' \in Grid /\ seeds' \in 0 .. TotalSeeds
        /\ \E s \in [0 .. Pits -> 0 .. TotalSeeds] :
              CountsSeeds(s, copy') /\ s[Pits] + seeds' <= TotalSeeds
    <3> HIDE DEF m
    <3> QED
      BY <2>5, <2>6, <2>7, CountedCopy
  <2>9. TypeOK'
    BY <1>1, <1>2, <2>8 DEF TypeOK
  <2>10. CopyIsCounted'
    BY <1>1, <2>8 DEF CopyIsCounted
  <2>11. copy'[target][player] = copy[target][player]
    <3>1. ~(pos'.row = target /\ pos'.line = player)
      BY <1>2, <1>5 DEF Begin, Position
    <3> QED
      BY <1>2, <2>2, <2>4, <3>1 DEF TypeOK, NatGrid
  <2>12. NeverSownBack'
    BY <1>1, <2>11 DEF PlayInv, NeverSownBack
  <2> QED
    BY <1>3, <2>9, <2>10, <2>12 DEF PlayInv
<1> QED
  BY <1>4, <1>5

LEMMA FamineKeepsPlayInv ==
  ASSUME PlayInv, Famine
  PROVE  PlayInv'
<1>1. /\ pc = "simulate" /\ pc' = "idle" /\ seeds = 0
      /\ UNCHANGED << awale, seeds, pos, copy, player, target, entry >>
      /\ validity' \in Validity /\ over' \in BOOLEAN
  BY DEF Famine, Return, call, Validity, GameOver
<1>2. TypeOK'
  BY <1>1 DEF PlayInv, TypeOK
<1>3. SeedsAreCounted'
  BY <1>1 DEF PlayInv, SeedsAreCounted, OutOfPits
<1>4. CopyIsCounted'
  BY <1>1 DEF PlayInv, CopyIsCounted
<1>5. NeverSownBack'
  BY <1>1 DEF NeverSownBack
<1> QED
  BY <1>2, <1>3, <1>4, <1>5 DEF PlayInv

(* Emptying the pit for good moves its seeds into the hand.                *)
LEMMA BeginSowingKeepsPlayInv ==
  ASSUME PlayInv, BeginSowing
  PROVE  PlayInv'
<1>1. /\ pc = "simulate" /\ pc' = "sow" /\ seeds = 0
      /\ seeds' = awale.grid[target][player] /\ pos' = Begin
      /\ awale' = [awale EXCEPT !.grid[target][player] = 0]
      /\ UNCHANGED << validity, over, copy, player, target, entry >>
  BY DEF BeginSowing, call
<1>2. /\ TypeOK /\ awale \in Awale /\ awale.grid \in NatGrid
      /\ target \in Rows /\ player \in PlayerID
      /\ awale.score[PLAYER1] \in Nat /\ awale.score[PLAYER2] \in Nat
      /\ awale.score \in [PlayerID -> Nat] /\ awale.current \in PlayerID
  BY PlayInvCounts, TotalIsNat DEF TypeOK, PlayerID, Awale
<1>3. awale.grid[target][player] \in Nat
  BY <1>2 DEF NatGrid
<1>4. PICK n \in 0 .. TotalSeeds :
        HoldsSeeds(awale.grid, n) /\ n + OutOfPits = TotalSeeds
  BY PlayInvCounts
<1> DEFINE grid == [awale.grid EXCEPT ![target][player] = 0]
           m == n + 0 - awale.grid[target][player]
<1>5. awale' = [current |-> awale.current, score |-> awale.score, grid |-> grid]
  BY <1>1, <1>2 DEF Awale
<1>6. m \in Nat /\ HoldsSeeds(grid, m)
  <2>1. n \in Nat /\ 0 \in Nat
    BY TotalIsNat
  <2> QED
    BY <1>2, <1>4, <2>1, PitChange
<1>7. grid \in NatGrid
  BY <1>2 DEF NatGrid
<1>8. m + (awale.score[PLAYER1] + awale.score[PLAYER2] + seeds') = TotalSeeds
  <2>1. OutOfPits = awale.score[PLAYER1] + awale.score[PLAYER2] + 0
    BY <1>1 DEF OutOfPits
  <2> QED
    BY <1>1, <1>2, <1>3, <1>4, <2>1, TotalIsNat
<1>9. /\ awale' \in Awale /\ seeds' \in 0 .. TotalSeeds
      /\ \E s \in [0 .. Pits -> 0 .. TotalSeeds] :
           /\ CountsSeeds(s, grid)
           /\ s[Pits] + (awale.score[PLAYER1] + awale.score[PLAYER2] + seeds') = TotalSeeds
  <2>1. /\ seeds' \in Nat /\ awale.current \in PlayerID
        /\ awale.score \in [PlayerID -> Nat]
    BY <1>1, <1>2, <1>3
  <2> DEFINE score == awale.score
  <2>2. /\ m + (score[PLAYER1] + score[PLAYER2] + seeds') = TotalSeeds
        /\ score \in [PlayerID -> Nat]
    BY <1>8, <2>1
  <2>3. awale' = [current |-> awale.current, score |-> score, grid |-> grid]
    BY <1>5
  <2> HIDE DEF m, grid, score
  <2>4. /\ [current |-> awale.current, score |-> score, grid |-> grid] \in Awale
        /\ seeds' \in 0 .. TotalSeeds
        /\ \E s \in [0 .. Pits -> 0 .. TotalSeeds] :
             /\ CountsSeeds(s, grid)
             /\ s[Pits] + (score[PLAYER1] + score[PLAYER2] + seeds') = TotalSeeds
    BY <1>6, <1>7, <2>1, <2>2, CountedGame, SMTT(30)
  <2> QED
    BY <2>3, <2>4 DEF score
<1>10. TypeOK'
  BY <1>1, <1>2, <1>9 DEF TypeOK, Position, Begin
<1>11. SeedsAreCounted'
  BY <1>1, <1>5, <1>9 DEF SeedsAreCounted, OutOfPits
<1>12. CopyIsCounted'
  <2>1. PICK s \in [0 .. Pits -> 0 .. TotalSeeds] :
          CountsSeeds(s, copy) /\ s[Pits] + seeds <= TotalSeeds
    BY <1>1 DEF PlayInv, CopyIsCounted
  <2>2. s[Pits] + 0 <= TotalSeeds
    BY <1>1, <2>1
  <2> QED
    BY <1>1, <2>1, <2>2 DEF CopyIsCounted
<1>13. NeverSownBack'
  BY <1>1, <1>2, <1>5 DEF NeverSownBack, NatGrid
<1> QED
  BY <1>10, <1>11, <1>12, <1>13 DEF PlayInv

LEMMA SowSeedKeepsPlayInv ==
  ASSUME PlayInv, SowSeed
  PROVE  PlayInv'
<1>1. /\ pc = "sow" /\ pc' = "sow" /\ seeds > 0
      /\ pos' = Ahead(pos)
      /\ UNCHANGED << validity, over, copy, player, target, entry >>
  BY DEF SowSeed, call
<1>2. /\ TypeOK /\ awale \in Awale /\ awale.grid \in NatGrid
      /\ awale.score \in [PlayerID -> Nat] /\ awale.current \in PlayerID
      /\ seeds \in Nat /\ pos' \in Position
      /\ target \in Rows /\ player \in PlayerID
  BY <1>1, PlayInvCounts, AheadIsPosition, TotalIsNat DEF TypeOK, Awale
<1>3. CopyIsCounted'
  BY <1>1 DEF PlayInv, CopyIsCounted
<1>4. CASE pos' = Begin
  <2>1. UNCHANGED << awale, seeds >>
    BY <1>4 DEF SowSeed
  <2>2. TypeOK'
    BY <1>1, <1>2, <2>1 DEF TypeOK
  <2>3. SeedsAreCounted'
    BY <1>1, <2>1 DEF PlayInv, SeedsAreCounted, OutOfPits
  <2>4. NeverSownBack'
    BY <1>1, <2>1 DEF PlayInv, NeverSownBack
  <2> QED
    BY <1>3, <2>2, <2>3, <2>4 DEF PlayInv
<1>5. CASE pos' # Begin
  <2>1. awale' = DropAndScore(player, awale, pos') /\ seeds' = seeds - 1
    BY <1>5 DEF SowSeed
  <2>2. PICK v \in Nat, c \in Nat :
          /\ v + c = awale.grid[pos'.row][pos'.line] + 1
          /\ awale' = [ current |-> awale.current,
                        score   |-> [awale.score EXCEPT ![player] = @ + c],
                        grid    |-> [awale.grid EXCEPT ![pos'.row][pos'.line] = v] ]
    <3>1. \E v, c \in Nat :
            /\ v + c = awale.grid[pos'.row][pos'.line] + 1
            /\ DropAndScore(player, awale, pos') =
                  [ current |-> awale.current,
                    score   |-> [awale.score EXCEPT ![player] = @ + c],
                    grid    |-> [awale.grid EXCEPT ![pos'.row][pos'.line] = v] ]
      BY <1>1, <1>2, AwaleGridIsNat, DropAndScoreEffect DEF PlayInv, TypeOK
    <3> QED
      BY <2>1, <3>1
  <2>3. PICK n \in 0 .. TotalSeeds :
          HoldsSeeds(awale.grid, n) /\ n + OutOfPits = TotalSeeds
    BY PlayInvCounts
  <2>4. /\ pos'.row \in Rows /\ pos'.line \in PlayerID
        /\ awale.grid[pos'.row][pos'.line] \in Nat
    BY <1>2 DEF Position, NatGrid
  <2> DEFINE grid == [awale.grid EXCEPT ![pos'.row][pos'.line] = v]
             score == [awale.score EXCEPT ![player] = @ + c]
             m == n + v - awale.grid[pos'.row][pos'.line]
  <2>5. m \in Nat /\ HoldsSeeds(grid, m)
    <3>1. n \in Nat
      BY TotalIsNat
    <3> QED
      BY <1>2, <2>3, <2>4, <3>1, PitChange
  <2>6. grid \in NatGrid /\ score \in [PlayerID -> Nat] /\ seeds' \in Nat
    BY <1>1, <1>2, <2>1, <2>4 DEF NatGrid
  <2>7. score[PLAYER1] + score[PLAYER2]
          = awale.score[PLAYER1] + awale.score[PLAYER2] + c
    <3>1. /\ PLAYER1 \in PlayerID /\ PLAYER2 \in PlayerID /\ PLAYER1 # PLAYER2
          /\ player = PLAYER1 \/ player = PLAYER2
      BY <1>2 DEF PlayerID, PLAYER1, PLAYER2
    <3>2. awale.score[PLAYER1] \in Nat /\ awale.score[PLAYER2] \in Nat
      BY <1>2, <3>1
    <3>3. CASE player = PLAYER1
      <4>1. score[PLAYER1] = awale.score[PLAYER1] + c /\ score[PLAYER2] = awale.score[PLAYER2]
        BY <1>2, <3>1, <3>3
      <4> HIDE DEF score
      <4> QED
        BY <3>2, <4>1
    <3>4. CASE player = PLAYER2
      <4>1. score[PLAYER2] = awale.score[PLAYER2] + c /\ score[PLAYER1] = awale.score[PLAYER1]
        BY <1>2, <3>1, <3>4
      <4> HIDE DEF score
      <4> QED
        BY <3>2, <4>1
    <3> QED
      BY <3>1, <3>3, <3>4
  <2>8. m + (score[PLAYER1] + score[PLAYER2] + seeds') = TotalSeeds
    <3>1. OutOfPits = awale.score[PLAYER1] + awale.score[PLAYER2] + seeds
      BY <1>1 DEF OutOfPits
    <3>2. awale.score[PLAYER1] \in Nat /\ awale.score[PLAYER2] \in Nat
      BY <1>2 DEF PlayerID
    <3> HIDE DEF score
    <3> QED
      BY <1>2, <2>1, <2>2, <2>3, <2>4, <2>7, <3>1, <3>2, TotalIsNat
  <2>9. /\ awale' \in Awale /\ seeds' \in 0 .. TotalSeeds
        /\ \E s \in [0 .. Pits -> 0 .. TotalSeeds] :
             /\ CountsSeeds(s, grid)
             /\ s[Pits] + (score[PLAYER1] + score[PLAYER2] + seeds') = TotalSeeds
    <3>1. awale' = [current |-> awale.current, score |-> score, grid |-> grid]
      BY <2>2
    <3>2. awale.current \in PlayerID
      BY <1>2
    <3> HIDE DEF m, grid, score
    <3>3. /\ [current |-> awale.current, score |-> score, grid |-> grid] \in Awale
          /\ seeds' \in 0 .. TotalSeeds
          /\ \E s \in [0 .. Pits -> 0 .. TotalSeeds] :
               /\ CountsSeeds(s, grid)
               /\ s[Pits] + (score[PLAYER1] + score[PLAYER2] + seeds') = TotalSeeds
      BY <2>5, <2>6, <2>8, <3>2, CountedGame
    <3> QED
      BY <3>1, <3>3
  <2>10. TypeOK'
    BY <1>1, <1>2, <2>9 DEF TypeOK
  <2>11. SeedsAreCounted'
    BY <1>1, <2>2, <2>9 DEF SeedsAreCounted, OutOfPits
  <2>12. awale'.grid[target][player] = awale.grid[target][player]
    <3>1. ~(pos'.row = target /\ pos'.line = player)
      BY <1>2, <1>5 DEF Begin, Position
    <3> QED
      BY <1>2, <2>2, <2>4, <3>1 DEF NatGrid
  <2>13. NeverSownBack'
    BY <1>1, <2>12 DEF PlayInv, NeverSownBack
  <2> QED
    BY <1>3, <2>10, <2>11, <2>13 DEF PlayInv
<1> QED
  BY <1>4, <1>5

LEMMA EndSowingKeepsPlayInv ==
  ASSUME PlayInv, EndSowing
  PROVE  PlayInv'
<1>1. /\ pc = "sow" /\ pc' = "idle" /\ seeds = 0
      /\ awale' = EndTurn(awale)
      /\ UNCHANGED << seeds, pos, copy, player, target, entry >>
      /\ validity' \in Validity /\ over' \in BOOLEAN
  BY DEF EndSowing, Return, call, Validity, GameOver
<1>2. TypeOK /\ awale \in Awale
  BY DEF PlayInv, TypeOK
<1>3. awale' \in Awale /\ awale'.grid = awale.grid /\ awale'.score = awale.score
  <2>1. Opponent(awale.current) \in PlayerID
    BY <1>2 DEF Awale, Opponent, PlayerID, PLAYER1, PLAYER2
  <2> DEFINE passed == [awale EXCEPT !.current = Opponent(@)]
  <2>2. passed \in Awale /\ passed.grid = awale.grid /\ passed.score = awale.score
    BY <1>2, <2>1 DEF Awale
  <2>3. awale' = passed \/ awale' = awale
    BY <1>1 DEF EndTurn
  <2> QED
    BY <1>2, <2>2, <2>3
<1>4. TypeOK'
  BY <1>1, <1>2, <1>3 DEF TypeOK
<1>5. SeedsAreCounted'
  BY <1>1, <1>3 DEF PlayInv, SeedsAreCounted, OutOfPits
<1>6. CopyIsCounted'
  BY <1>1 DEF PlayInv, CopyIsCounted
<1>7. NeverSownBack'
  BY <1>1 DEF NeverSownBack
<1> QED
  BY <1>4, <1>5, <1>6, <1>7 DEF PlayInv

-----------------------------------------------------------------------------
(* The invariant holds of every call of play() on every board.             *)
THEOREM PlayInvariant == Spec => []PlayInv
<1>1. Init => PlayInv
  BY InitPlayInv
<1>2. PlayInv /\ [Next]_vars => PlayInv'
  <2> SUFFICES ASSUME PlayInv, [Next]_vars PROVE PlayInv'
    OBVIOUS
  <2>1. ASSUME NEW p \in PlayerID, NEW t \in Targets, Refuse(p, t) PROVE PlayInv'
    BY <2>1, RefuseKeepsPlayInv
  <2>2. ASSUME NEW p \in PlayerID, NEW t \in Targets, BeginSimulation(p, t)
        PROVE  PlayInv'
    BY <2>2, BeginSimulationKeepsPlayInv
  <2>3. CASE SimulateSeed
    BY <2>3, SimulateSeedKeepsPlayInv
  <2>4. CASE Famine
    BY <2>4, FamineKeepsPlayInv
  <2>5. CASE BeginSowing
    BY <2>5, BeginSowingKeepsPlayInv
  <2>6. CASE SowSeed
    BY <2>6, SowSeedKeepsPlayInv
  <2>7. CASE EndSowing
    BY <2>7, EndSowingKeepsPlayInv
  <2>8. CASE UNCHANGED vars
    <3>1. UNCHANGED << awale, validity, over, pc, player, target, seeds, pos, copy, entry >>
      BY <2>8 DEF vars
    <3>2. TypeOK'
      BY <3>1 DEF PlayInv, TypeOK
    <3>3. SeedsAreCounted'
      BY <3>1 DEF PlayInv, SeedsAreCounted, OutOfPits
    <3>4. CopyIsCounted'
      BY <3>1 DEF PlayInv, CopyIsCounted
    <3>5. NeverSownBack'
      BY <3>1 DEF PlayInv, NeverSownBack
    <3> QED
      BY <3>2, <3>3, <3>4, <3>5 DEF PlayInv
  <2> QED
    BY <2>1, <2>2, <2>3, <2>4, <2>5, <2>6, <2>7, <2>8 DEF Next, Call, Run
<1> QED
  BY <1>1, <1>2, PTL DEF Spec

(* Every variable of play() keeps its type; in particular no pit, score,   *)
(* copy or hand ever exceeds the seeds in play.                            *)
THEOREM PlayTypeCorrect == Spec => []TypeOK
BY PlayInvariant, PTL DEF PlayInv

(* The two sowing loops and the captures conserve seeds at every           *)
(* iteration, for every number of pits and of seeds per pit.               *)
THEOREM PlayConservesSeeds == Spec => []SeedsAreConserved
<1>1. PlayInv => SeedsAreConserved
  <2>1. SUFFICES ASSUME PlayInv PROVE SeedsAreConserved
    OBVIOUS
  <2>2. PICK s \in [0 .. Pits -> 0 .. TotalSeeds] :
          CountsSeeds(s, awale.grid) /\ s[Pits] + OutOfPits = TotalSeeds
    BY <2>1 DEF PlayInv, SeedsAreCounted
  <2>n. s \in [0 .. Pits -> Nat] /\ awale.grid \in NatGrid
    BY <2>1, TotalIsNat, AwaleGridIsNat DEF PlayInv, TypeOK
  <2>3. SeedsIn(awale.grid) = s[Pits]
    BY <2>2, <2>n, TotalsAreUnique
  <2>4. /\ awale.score[PLAYER1] \in Nat /\ awale.score[PLAYER2] \in Nat
        /\ s[Pits] \in Nat /\ seeds \in Nat
    BY <2>1, <2>2, AwaleGridIsNat, PitNumbers, TotalIsNat DEF PlayInv, TypeOK, PlayerID
  <2> QED
    BY <2>2, <2>3, <2>4 DEF SeedsAreConserved, OutOfPits
<1> QED
  BY PlayInvariant, <1>1, PTL

(* The famine test never looks at seeds that do not exist: the copy and    *)
(* the hand of a simulation are within the seeds in play.                  *)
THEOREM PlaySimulatesWithinSeeds == Spec => []CopyWithinSeeds
<1>1. PlayInv => CopyWithinSeeds
  <2>1. SUFFICES ASSUME PlayInv PROVE CopyWithinSeeds
    OBVIOUS
  <2>2. PICK s \in [0 .. Pits -> 0 .. TotalSeeds] :
          /\ CountsSeeds(s, copy)
          /\ s[Pits] + (IF pc = "simulate" THEN seeds ELSE 0) <= TotalSeeds
    BY <2>1 DEF PlayInv, CopyIsCounted
  <2>3. copy \in NatGrid /\ s \in [0 .. Pits -> Nat]
    BY <2>1, TotalIsNat DEF PlayInv, TypeOK, Grid, NatGrid
  <2>4. SeedsIn(copy) = s[Pits]
    BY <2>2, <2>3, TotalsAreUnique
  <2> QED
    BY <2>2, <2>4 DEF CopyWithinSeeds
<1> QED
  BY PlayInvariant, <1>1, PTL

(* No hand is sown into the pit it came from, however many laps it makes.  *)
THEOREM PlayNeverSowsBack == Spec => []NeverSownBack
BY PlayInvariant, PTL DEF PlayInv

-----------------------------------------------------------------------------
(***************************************************************************)
(* The refinement.  While a call runs, its position, its hand and the game *)
(* (or the copy) are those of the sowing of the game on entry, after the   *)
(* seeds that have left the hand.  Passing over the pit it began from is   *)
(* an iteration of its own in the loop, and none of the sowing.            *)
(***************************************************************************)
Standing(at, last, begin) == at = last \/ (at = begin /\ Ahead(last) = begin)

InCall ==
  pc # "idle" =>
    /\ ~over
    /\ entry.current = player
    /\ entry.grid[target][player] # 0
    /\ \E h, n :
         /\ Sowing(h, player, entry, target)
         /\ n \in 0 .. entry.grid[target][player]
         /\ seeds = entry.grid[target][player] - n
         /\ Standing(pos, h[n].pos, Begin)
         /\ pc = "simulate" => awale = entry /\ copy = h[n].awale.grid
         /\ pc = "sow" => awale = h[n].awale /\ IsCoupValid(entry, target) = "VALID"

(* The loop moves as the sowing does, but for passing over the beginning.  *)
LEMMA WalkingOn ==
  ASSUME NEW begin, NEW last, NEW at, Standing(at, last, begin)
  PROVE  /\ Ahead(at) = begin => Standing(Ahead(at), last, begin)
         /\ Ahead(at) # begin => Ahead(at) = NextSown(last, begin)
BY DEF Standing, NextSown

LEMMA CallIsTyped ==
  ASSUME PlayInv
  PROVE  /\ player \in PlayerID /\ target \in Rows /\ Begin = Pit(target, player)
         /\ awale \in NatAwale /\ awale \in Awale
         /\ entry \in NatAwale /\ entry \in Awale
         /\ entry.grid[target][player] \in Nat
<1>1. player \in PlayerID /\ target \in Rows /\ awale \in Awale /\ entry \in Awale
  BY DEF PlayInv, TypeOK
<1>2. awale \in NatAwale /\ entry \in NatAwale
  BY <1>1, AwaleGridIsNat
<1> QED
  BY <1>1, <1>2, EmptiedIsTyped DEF Begin, Pit

(* What a sowing offers the iteration that is about to sow.                *)
LEMMA SowingGoesOn ==
  ASSUME NEW p \in PlayerID, NEW game \in NatAwale, NEW t \in Rows,
         NEW h, Sowing(h, p, game, t),
         NEW n \in 0 .. game.grid[t][p], n # game.grid[t][p]
  PROVE  /\ n + 1 \in 0 .. game.grid[t][p]
         /\ h[n + 1].pos = NextSown(h[n].pos, Pit(t, p))
         /\ h[n + 1].awale = DropAndScore(p, h[n].awale, h[n + 1].pos)
         /\ h[n + 1].awale.grid = DropOnCopy(p, h[n].awale.grid, h[n + 1].pos)
<1>1. game.grid[t][p] \in Nat
  BY EmptiedIsTyped
<1>2. n \in 0 .. game.grid[t][p] - 1 /\ n + 1 \in 0 .. game.grid[t][p]
  BY <1>1
<1>3. h[n].awale \in NatAwale /\ h[n + 1].pos \in Position
  BY <1>2 DEF Sowing, Sown
<1>4. /\ h[n + 1].pos = NextSown(h[n].pos, Pit(t, p))
      /\ h[n + 1].awale = DropAndScore(p, h[n].awale, h[n + 1].pos)
  BY <1>2 DEF Sowing
<1> QED
  BY <1>2, <1>3, <1>4, DropsAgree

LEMMA BeginSimulationKeepsInCall ==
  ASSUME PlayInv, NEW p \in PlayerID, NEW t, BeginSimulation(p, t)
  PROVE  InCall'
<1>1. /\ pc = "idle" /\ ~over /\ awale.current = p /\ t \in Rows /\ awale.grid[t][p] # 0
      /\ pc' = "simulate" /\ player' = p /\ target' = t /\ entry' = awale
      /\ seeds' = awale.grid[t][p]
      /\ pos' = [row |-> t, line |-> p]
      /\ copy' = [awale.grid EXCEPT ![t][p] = 0]
      /\ UNCHANGED << awale, validity, over >>
  BY DEF BeginSimulation
<1>2. awale \in NatAwale
  BY CallIsTyped
<1>3. PICK h : Sowing(h, p, awale, t)
  BY <1>1, <1>2, SowingExists
<1>4. /\ awale.grid[t][p] \in Nat
      /\ h[0].pos = Pit(t, p) /\ h[0].awale.grid = copy'
  <2>1. h[0] = [pos |-> Pit(t, p), awale |-> Emptied(awale, p, t)]
    BY <1>3 DEF Sowing
  <2>2. /\ awale.grid[t][p] \in Nat
        /\ Emptied(awale, p, t).grid = [awale.grid EXCEPT ![t][p] = 0]
    BY <1>1, <1>2, EmptiedIsTyped
  <2> QED
    BY <1>1, <2>1, <2>2
<1>5. /\ 0 \in 0 .. awale.grid[t][p]
      /\ awale.grid[t][p] = awale.grid[t][p] - 0
  BY <1>4
<1>6. Standing(pos', h[0].pos, Begin')
  BY <1>1, <1>4 DEF Standing, Pit
<1> QED
  BY <1>1, <1>3, <1>4, <1>5, <1>6 DEF InCall

LEMMA SimulateSeedKeepsInCall ==
  ASSUME PlayInv, InCall, SimulateSeed
  PROVE  InCall'
<1>1. /\ pc = "simulate" /\ pc' = "simulate" /\ seeds > 0
      /\ pos' = Ahead(pos)
      /\ UNCHANGED << awale, validity, over, player, target, entry >>
  BY DEF SimulateSeed, call
<1>2. PICK h, n :
        /\ Sowing(h, player, entry, target)
        /\ n \in 0 .. entry.grid[target][player]
        /\ seeds = entry.grid[target][player] - n
        /\ Standing(pos, h[n].pos, Begin)
        /\ awale = entry /\ copy = h[n].awale.grid
  BY <1>1 DEF InCall
<1>3. ~over /\ entry.current = player /\ entry.grid[target][player] # 0
  BY <1>1 DEF InCall
<1>4. Begin' = Begin
  BY <1>1 DEF Begin
<1>5. CASE pos' = Begin
  <2>1. UNCHANGED << copy, seeds >>
    BY <1>5 DEF SimulateSeed
  <2>2. Standing(pos', h[n].pos, Begin)
    BY <1>1, <1>2, <1>5 DEF Standing
  <2> QED
    BY <1>1, <1>2, <1>3, <1>4, <2>1, <2>2 DEF InCall
<1>6. CASE pos' # Begin
  <2>1. copy' = DropOnCopy(player, copy, pos') /\ seeds' = seeds - 1
    BY <1>6 DEF SimulateSeed
  <2>2. n # entry.grid[target][player] /\ seeds - 1 = entry.grid[target][player] - (n + 1)
    BY <1>1, <1>2, CallIsTyped
  <2>3. pos' = NextSown(h[n].pos, Begin)
    BY <1>1, <1>2, <1>6, WalkingOn
  <2>4. /\ n + 1 \in 0 .. entry.grid[target][player]
        /\ h[n + 1].pos = NextSown(h[n].pos, Begin)
        /\ h[n + 1].awale.grid = DropOnCopy(player, h[n].awale.grid, h[n + 1].pos)
    BY <1>2, <2>2, CallIsTyped, SowingGoesOn
  <2>5. /\ copy' = h[n + 1].awale.grid
        /\ Standing(pos', h[n + 1].pos, Begin)
    BY <1>2, <2>1, <2>3, <2>4 DEF Standing
  <2> QED
    BY <1>1, <1>2, <1>3, <1>4, <2>1, <2>2, <2>4, <2>5 DEF InCall
<1> QED
  BY <1>5, <1>6

LEMMA SowSeedKeepsInCall ==
  ASSUME PlayInv, InCall, SowSeed
  PROVE  InCall'
<1>1. /\ pc = "sow" /\ pc' = "sow" /\ seeds > 0
      /\ pos' = Ahead(pos)
      /\ UNCHANGED << validity, over, copy, player, target, entry >>
  BY DEF SowSeed, call
<1>2. PICK h, n :
        /\ Sowing(h, player, entry, target)
        /\ n \in 0 .. entry.grid[target][player]
        /\ seeds = entry.grid[target][player] - n
        /\ Standing(pos, h[n].pos, Begin)
        /\ awale = h[n].awale /\ IsCoupValid(entry, target) = "VALID"
  BY <1>1 DEF InCall
<1>3. ~over /\ entry.current = player /\ entry.grid[target][player] # 0
  BY <1>1 DEF InCall
<1>4. Begin' = Begin
  BY <1>1 DEF Begin
<1>5. CASE pos' = Begin
  <2>1. UNCHANGED << awale, seeds >>
    BY <1>5 DEF SowSeed
  <2>2. Standing(pos', h[n].pos, Begin)
    BY <1>1, <1>2, <1>5 DEF Standing
  <2> QED
    BY <1>1, <1>2, <1>3, <1>4, <2>1, <2>2 DEF InCall
<1>6. CASE pos' # Begin
  <2>1. awale' = DropAndScore(player, awale, pos') /\ seeds' = seeds - 1
    BY <1>6 DEF SowSeed
  <2>2. n # entry.grid[target][player] /\ seeds - 1 = entry.grid[target][player] - (n + 1)
    BY <1>1, <1>2, CallIsTyped
  <2>3. pos' = NextSown(h[n].pos, Begin)
    BY <1>1, <1>2, <1>6, WalkingOn
  <2>4. /\ n + 1 \in 0 .. entry.grid[target][player]
        /\ h[n + 1].pos = NextSown(h[n].pos, Begin)
        /\ h[n + 1].awale = DropAndScore(player, h[n].awale, h[n + 1].pos)
    BY <1>2, <2>2, CallIsTyped, SowingGoesOn
  <2>5. /\ awale' = h[n + 1].awale
        /\ Standing(pos', h[n + 1].pos, Begin)
    BY <1>2, <2>1, <2>3, <2>4 DEF Standing
  <2> QED
    BY <1>1, <1>2, <1>3, <1>4, <2>1, <2>2, <2>4, <2>5 DEF InCall
<1> QED
  BY <1>5, <1>6

(* When the hand of the simulation is empty, the copy is what sow_seeds    *)
(* computes, and the famine test is the one of is_coup_valid.              *)
LEMMA SimulationEnds ==
  ASSUME PlayInv, InCall, pc = "simulate", seeds = 0
  PROVE  /\ awale = entry
         /\ IsCoupValid(entry, target) =
              IF PlayerHasSeeds(NextPlayer(awale), copy)
              THEN "VALID" ELSE "INVALID_OPONENT_HAS_NO_SEEDS"
<1>1. PICK h, n :
        /\ Sowing(h, player, entry, target)
        /\ n \in 0 .. entry.grid[target][player]
        /\ seeds = entry.grid[target][player] - n
        /\ awale = entry /\ copy = h[n].awale.grid
  BY DEF InCall
<1>2. n = entry.grid[target][player]
  BY <1>1, CallIsTyped
<1>3. copy = SowSeeds(player, entry.grid, target)
  BY <1>1, <1>2, CallIsTyped, SowingIsTheCopyLoop
<1>4. entry.current = player /\ entry.grid[target][player] # 0 /\ target \in Rows
  BY CallIsTyped DEF InCall
<1> QED
  BY <1>1, <1>3, <1>4 DEF IsCoupValid

LEMMA SowingEnds ==
  ASSUME PlayInv, InCall, pc = "sow", seeds = 0
  PROVE  awale = SowSeedsUpdateGridScore(player, entry, target)
<1>1. PICK h, n :
        /\ Sowing(h, player, entry, target)
        /\ n \in 0 .. entry.grid[target][player]
        /\ seeds = entry.grid[target][player] - n
        /\ awale = h[n].awale
  BY DEF InCall
<1>2. n = entry.grid[target][player]
  BY <1>1, CallIsTyped
<1> QED
  BY <1>1, <1>2, CallIsTyped, SowingIsTheLoop

LEMMA BeginSowingKeepsInCall ==
  ASSUME PlayInv, InCall, BeginSowing
  PROVE  InCall'
<1>1. /\ pc = "simulate" /\ pc' = "sow" /\ seeds = 0
      /\ PlayerHasSeeds(NextPlayer(awale), copy)
      /\ seeds' = awale.grid[target][player] /\ pos' = Begin
      /\ awale' = [awale EXCEPT !.grid[target][player] = 0]
      /\ UNCHANGED << validity, over, copy, player, target, entry >>
  BY DEF BeginSowing, call
<1>2. awale = entry /\ IsCoupValid(entry, target) = "VALID"
  BY <1>1, SimulationEnds
<1>3. PICK h : Sowing(h, player, entry, target)
  BY <1>1 DEF InCall
<1>4. h[0].pos = Begin /\ h[0].awale = awale'
  BY <1>1, <1>2, <1>3, CallIsTyped DEF Sowing, Emptied
<1>5. /\ 0 \in 0 .. entry.grid[target][player]
      /\ entry.grid[target][player] = entry.grid[target][player] - 0
  BY CallIsTyped
<1>6. Standing(pos', h[0].pos, Begin) /\ Begin' = Begin
  BY <1>1, <1>4 DEF Standing, Begin
<1>7. ~over /\ entry.current = player /\ entry.grid[target][player] # 0
  BY <1>1 DEF InCall
<1> QED
  BY <1>1, <1>2, <1>3, <1>4, <1>5, <1>6, <1>7 DEF InCall

LEMMA StepKeepsInCall ==
  ASSUME PlayInv, InCall, [Next]_vars
  PROVE  InCall'
<1>1. ASSUME NEW p \in PlayerID, NEW t \in Targets, Refuse(p, t) PROVE InCall'
  BY <1>1 DEF Refuse, Return, InCall
<1>2. ASSUME NEW p \in PlayerID, NEW t \in Targets, BeginSimulation(p, t)
      PROVE  InCall'
  BY <1>2, BeginSimulationKeepsInCall
<1>3. CASE Famine \/ EndSowing
  BY <1>3 DEF Famine, EndSowing, Return, InCall
<1>4. CASE UNCHANGED vars
  BY <1>4 DEF vars, InCall, Begin
<1> QED
  BY <1>1, <1>2, <1>3, <1>4, SimulateSeedKeepsInCall, BeginSowingKeepsInCall,
     SowSeedKeepsInCall DEF Next, Call, Run

(* The rules of Atomic are those of this module.                           *)
LEMMA SameRules ==
  /\ Atomic!PlayerID = PlayerID /\ Atomic!ResetAwale = ResetAwale
  /\ \A game, p, t : Atomic!PlayValidity(game, p, t) = PlayValidity(game, p, t)
  /\ \A game, p, t : Atomic!AfterPlay(game, p, t) = AfterPlay(game, p, t)
  /\ \A game : Atomic!GameOver(game) = GameOver(game)
<1>1. Atomic!PlayerID = PlayerID /\ Atomic!ResetAwale = ResetAwale
  BY DEF Atomic!PlayerID, Atomic!ResetAwale, Atomic!Rows, Atomic!PLAYER1,
     Atomic!PLAYER2, PlayerID, ResetAwale, Rows, PLAYER1, PLAYER2
<1>2. ASSUME NEW game, NEW p, NEW t
      PROVE  Atomic!PlayValidity(game, p, t) = PlayValidity(game, p, t)
  BY DEF Atomic!PlayValidity, Atomic!IsCoupValid, Atomic!PlayerHasSeeds,
     Atomic!NextPlayer, Atomic!SowSeeds, Atomic!NextSown, Atomic!Ahead,
     Atomic!DropOnCopy, Atomic!Captures, Atomic!Opponent, Atomic!Rows,
     Atomic!PLAYER1, Atomic!PLAYER2, PlayValidity, IsCoupValid, PlayerHasSeeds,
     NextPlayer, SowSeeds, NextSown, Ahead, DropOnCopy, Captures, Opponent, Rows,
     PLAYER1, PLAYER2
<1>3. ASSUME NEW game PROVE Atomic!Status(game) = Status(game)
  BY DEF Atomic!Status, Atomic!PlayerHasSeeds, Atomic!CanPlay, Atomic!NextPlayer,
     Atomic!Opponent, Atomic!Rows, Atomic!PLAYER1, Atomic!PLAYER2,
     Status, PlayerHasSeeds, CanPlay, NextPlayer, Opponent, Rows, PLAYER1, PLAYER2
<1>4. ASSUME NEW game PROVE Atomic!GameOver(game) = GameOver(game)
  BY <1>3 DEF Atomic!GameOver, GameOver
<1>5. ASSUME NEW game, NEW p, NEW t
      PROVE  Atomic!SowSeedsUpdateGridScore(p, game, t)
               = SowSeedsUpdateGridScore(p, game, t)
  BY DEF Atomic!SowSeedsUpdateGridScore, Atomic!NextSown, Atomic!Ahead,
     Atomic!DropAndScore, Atomic!Captures, Atomic!Opponent, Atomic!PLAYER1,
     Atomic!PLAYER2, SowSeedsUpdateGridScore, NextSown, Ahead, DropAndScore,
     Captures, Opponent, PLAYER1, PLAYER2
<1>6. ASSUME NEW game PROVE Atomic!EndTurn(game) = EndTurn(game)
  BY <1>3 DEF Atomic!EndTurn, Atomic!Opponent, EndTurn, Opponent
<1>7. ASSUME NEW game, NEW p, NEW t
      PROVE  Atomic!AfterPlay(game, p, t) = AfterPlay(game, p, t)
  BY <1>2, <1>5, <1>6 DEF Atomic!AfterPlay, AfterPlay
<1> QED
  BY <1>1, <1>2, <1>4, <1>7

(* What the caller of play() sees of the game.                             *)
Seen == IF pc = "idle" THEN awale ELSE entry

LEMMA AtomicCall ==
  ASSUME NEW p \in PlayerID, NEW t \in Targets, ~over,
         validity' = PlayValidity(Seen, p, t),
         Seen' = AfterPlay(Seen, p, t),
         over' = GameOver(Seen')
  PROVE  Atomic!Next
<1>1. t \in Atomic!Targets
  BY DEF Targets, Atomic!Targets
<1>2. Atomic!Play(p, t)
  BY SameRules DEF Atomic!Play, Seen
<1> QED
  BY <1>1, <1>2, SameRules DEF Atomic!Next

LEMMA RefuseIsAtomic ==
  ASSUME PlayInv, NEW p \in PlayerID, NEW t \in Targets, Refuse(p, t)
  PROVE  Atomic!Next
<1>1. /\ pc = "idle" /\ ~over /\ pc' = "idle" /\ UNCHANGED awale
      /\ over' = GameOver(awale')
  BY DEF Refuse, Return
<1>2. validity' = PlayValidity(awale, p, t) /\ validity' # "VALID"
  BY DEF Refuse, Return, PlayValidity, IsCoupValid
<1>3. awale' = AfterPlay(awale, p, t)
  BY <1>1, <1>2, RefusedPlay, SMTT(30)
<1> QED
  BY <1>1, <1>2, <1>3, AtomicCall DEF Seen

LEMMA FamineIsAtomic ==
  ASSUME PlayInv, InCall, Famine
  PROVE  Atomic!Next
<1>1. /\ pc = "simulate" /\ seeds = 0 /\ pc' = "idle" /\ UNCHANGED awale
      /\ ~PlayerHasSeeds(NextPlayer(awale), copy)
      /\ validity' = "INVALID_OPONENT_HAS_NO_SEEDS"
      /\ over' = GameOver(awale')
  BY DEF Famine, Return
<1>2. ~over /\ entry.current = player
  BY <1>1 DEF InCall
<1>3. awale = entry /\ validity' = PlayValidity(entry, player, target)
  BY <1>1, <1>2, SimulationEnds DEF PlayValidity
<1>4. awale' = AfterPlay(entry, player, target)
  BY <1>1, <1>3, RefusedPlay
<1>5. player \in PlayerID /\ target \in Targets
  BY CallIsTyped, RulesAssumption DEF Rows, Targets
<1> QED
  BY <1>1, <1>2, <1>3, <1>4, <1>5, AtomicCall DEF Seen

LEMMA EndSowingIsAtomic ==
  ASSUME PlayInv, InCall, EndSowing
  PROVE  Atomic!Next
<1>1. /\ pc = "sow" /\ seeds = 0 /\ pc' = "idle" /\ awale' = EndTurn(awale)
      /\ validity' = "VALID" /\ over' = GameOver(awale')
  BY DEF EndSowing, Return
<1>2. ~over /\ entry.current = player /\ IsCoupValid(entry, target) = "VALID"
  BY <1>1 DEF InCall
<1>3. validity' = PlayValidity(entry, player, target)
  BY <1>1, <1>2 DEF PlayValidity
<1>4. awale' = AfterPlay(entry, player, target)
  BY <1>1, <1>3, SowingEnds DEF AfterPlay
<1>5. player \in PlayerID /\ target \in Targets
  BY CallIsTyped, RulesAssumption DEF Rows, Targets
<1> QED
  BY <1>1, <1>2, <1>3, <1>4, <1>5, AtomicCall DEF Seen

(* play() takes effect in one step for its caller: the returns are the     *)
(* calls of AwaleGame, with what its two recursive functions compute, and  *)
(* everything before them is seen by nobody.                               *)
THEOREM PlayImplementsAwaleGame == Spec => ImplementsAwaleGame
<1>1. Init => Atomic!Init /\ InCall
  BY SameRules DEF Init, Atomic!Init, InCall
<1>2. PlayInv /\ InCall /\ [Next]_vars => [Atomic!Next]_(Atomic!vars)
  <2> SUFFICES ASSUME PlayInv, InCall, [Next]_vars
               PROVE  [Atomic!Next]_(Atomic!vars)
    OBVIOUS
  <2>1. CASE UNCHANGED << Seen, validity, over >>
    BY <2>1 DEF Seen, Atomic!vars
  <2>2. ASSUME NEW p \in PlayerID, NEW t \in Targets, Refuse(p, t)
        PROVE  Atomic!Next
    BY <2>2, RefuseIsAtomic
  <2>3. ASSUME NEW p \in PlayerID, NEW t \in Targets, BeginSimulation(p, t)
        PROVE  UNCHANGED << Seen, validity, over >>
    BY <2>3 DEF BeginSimulation, Seen
  <2>4. CASE SimulateSeed \/ BeginSowing \/ SowSeed
    BY <2>1, <2>4 DEF SimulateSeed, BeginSowing, SowSeed, call, Seen
  <2>5. CASE UNCHANGED vars
    BY <2>1, <2>5 DEF vars, Seen
  <2> QED
    BY <2>1, <2>2, <2>3, <2>4, <2>5, FamineIsAtomic, EndSowingIsAtomic
    DEF Next, Call, Run
<1>3. PlayInv /\ InCall /\ [Next]_vars => InCall'
  BY StepKeepsInCall
<1> QED
  BY <1>1, <1>2, <1>3, PlayInvariant, PTL DEF Spec, ImplementsAwaleGame, Atomic!Spec
=============================================================================
