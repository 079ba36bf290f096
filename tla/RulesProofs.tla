----------------------------- MODULE RulesProofs -----------------------------
(***************************************************************************)
(* What the rules compute, for boards of every size.  The seeds of a grid  *)
(* are counted by running totals; a hand is sown seed by seed, and the two *)
(* loops that sow it leave the same grid; play() keeps every seed, takes   *)
(* from the opponent of the mover only, and leaves the turn with a player  *)
(* who has seeds.                                                          *)
(***************************************************************************)
EXTENDS AwaleRules, FiniteSetTheorems, TLAPS

NatGrid == [Rows -> [PlayerID -> Nat]]

NatAwale == [current : PlayerID, score : [PlayerID -> Nat], grid : NatGrid]

(* The running totals of the pits: s[k] is the number of seeds in the      *)
(* first k pits of the grid, and no later total is less.                   *)
CountsSeeds(s, grid) ==
  /\ s[0] = 0
  /\ \A k \in 0 .. Pits - 1 : s[k + 1] = s[k] + grid[PitRow(k)][PitLine(k)]
  /\ \A j, k \in 0 .. Pits : j <= k => s[j] <= s[k]

(* grid holds n seeds in all.                                              *)
HoldsSeeds(grid, n) ==
  \E s \in [0 .. Pits -> Nat] : CountsSeeds(s, grid) /\ s[Pits] = n

-----------------------------------------------------------------------------
(* A non-empty set of numbers has a least element: of the intervals from   *)
(* zero to its members, one contains no other.                             *)
LEMMA LeastExists ==
  ASSUME NEW S, S \subseteq Nat, S # {}
  PROVE  \E x \in S : \A y \in S : x <= y
<1> DEFINE T == { 0 .. n : n \in S }
<1>1. T \subseteq FiniteSubsetsOf(Nat)
  <2>1. \A n \in S : 0 .. n \in SUBSET Nat /\ IsFiniteSet(0 .. n)
    BY FS_Interval
  <2> QED
    BY <2>1 DEF FiniteSubsetsOf
<1>2. T # {}
  OBVIOUS
<1>3. PICK U \in T : \A V \in T : ~(<< V, U >> \in StrictSubsetOrdering(Nat))
  <2> HIDE DEF T
  <2> QED
    BY <1>1, <1>2, FS_StrictSubsetOrderingWellFounded, WFMin
<1>4. PICK x \in S : U = 0 .. x
  OBVIOUS
<1>5. ASSUME NEW y \in S, y < x PROVE FALSE
  <2>1. 0 .. y \in T /\ 0 .. y \in SUBSET Nat /\ 0 .. x \in SUBSET Nat
    OBVIOUS
  <2>2. 0 .. y \subseteq 0 .. x /\ x \in 0 .. x /\ x \notin 0 .. y
    BY <1>5
  <2>3. << 0 .. y, U >> \in StrictSubsetOrdering(Nat)
    BY <1>4, <2>1, <2>2 DEF StrictSubsetOrdering
  <2> QED
    BY <1>3, <2>1, <2>3
<1> QED
  BY <1>5

(* Numbering the pits: k <-> (PitRow(k), PitLine(k)) is one to one.        *)
LEMMA PitNumbers ==
  /\ GRID_ROWS \in Nat \ {0}
  /\ Pits \in Nat
  /\ \A k \in 0 .. Pits - 1 : PitRow(k) \in Rows /\ PitLine(k) \in PlayerID
  /\ \A r \in Rows, p \in PlayerID :
       /\ 2 * r + p \in 0 .. Pits - 1
       /\ PitRow(2 * r + p) = r /\ PitLine(2 * r + p) = p
       /\ \A k \in 0 .. Pits - 1 :
            PitRow(k) = r /\ PitLine(k) = p => k = 2 * r + p
BY RulesAssumption DEF Pits, PitRow, PitLine, Rows, PlayerID, PLAYER1, PLAYER2

LEMMA TotalIsNat == TotalSeeds \in Nat /\ TotalSeeds = Pits * SEEDS
BY RulesAssumption, Z3 DEF TotalSeeds, Pits

(* Changing one pit changes the number of seeds by as much.                *)
LEMMA PitChange ==
  ASSUME NEW grid \in NatGrid, NEW n \in Nat, HoldsSeeds(grid, n),
         NEW r \in Rows, NEW p \in PlayerID, NEW v \in Nat
  PROVE  /\ n + v - grid[r][p] \in Nat
         /\ HoldsSeeds([grid EXCEPT ![r][p] = v], n + v - grid[r][p])
<1> DEFINE i == 2 * r + p
           d == v - grid[r][p]
           new == [grid EXCEPT ![r][p] = v]
<1>1. PICK s \in [0 .. Pits -> Nat] : CountsSeeds(s, grid) /\ s[Pits] = n
  BY DEF HoldsSeeds
<1> DEFINE t == [k \in 0 .. Pits |-> IF k <= i THEN s[k] ELSE s[k] + d]
<1>2. /\ i \in 0 .. Pits - 1 /\ i \in 0 .. Pits /\ i + 1 \in 0 .. Pits /\ i \in Nat
      /\ Pits \in Nat /\ PitRow(i) = r /\ PitLine(i) = p
      /\ grid[r][p] \in Nat /\ d \in Int
  <2>1. i \in 0 .. Pits - 1 /\ Pits \in Nat /\ PitRow(i) = r /\ PitLine(i) = p
    BY PitNumbers
  <2>2. grid[r][p] \in Nat
    BY DEF NatGrid
  <2>3. d \in Int
    BY <2>2
  <2> HIDE DEF i
  <2> QED
    BY <2>1, <2>2, <2>3
<1>d. d = v - grid[r][p]
  OBVIOUS
<1>n. \A k \in 0 .. Pits - 1 : PitRow(k) = r /\ PitLine(k) = p => k = i
  BY PitNumbers
<1> HIDE DEF i, d
<1>3. s[i + 1] = s[i] + grid[r][p]
  BY <1>1, <1>2 DEF CountsSeeds
<1>4. \A k \in 0 .. Pits : k > i => s[k] + d >= s[i] /\ s[k] + d \in Nat
  <2>1. SUFFICES ASSUME NEW k \in 0 .. Pits, k > i
                 PROVE  s[k] + d >= s[i] /\ s[k] + d \in Nat
    OBVIOUS
  <2>2. s[i + 1] <= s[k] /\ s[i] \in Nat /\ s[k] \in Nat
    BY <1>1, <1>2, <2>1 DEF CountsSeeds
  <2>3. s[i] + grid[r][p] <= s[k]
    BY <1>3, <2>2
  <2>4. \A a, b, g \in Nat : a + g <= b => b + (v - g) >= a /\ b + (v - g) \in Nat
    OBVIOUS
  <2>5. s[k] + (v - grid[r][p]) >= s[i] /\ s[k] + (v - grid[r][p]) \in Nat
    BY <1>2, <2>2, <2>3, <2>4
  <2> QED
    BY <1>d, <2>5
<1>5. t \in [0 .. Pits -> Nat]
  BY <1>2, <1>4
<1>6. \A k \in 0 .. Pits - 1 :
        new[PitRow(k)][PitLine(k)] = IF k = i THEN v ELSE grid[PitRow(k)][PitLine(k)]
  BY <1>2, <1>n, PitNumbers DEF NatGrid
<1>7. \A k \in 0 .. Pits - 1 : t[k + 1] = t[k] + new[PitRow(k)][PitLine(k)]
  <2>1. SUFFICES ASSUME NEW k \in 0 .. Pits - 1
                 PROVE  t[k + 1] = t[k] + new[PitRow(k)][PitLine(k)]
    OBVIOUS
  <2>1a. k \in 0 .. Pits /\ k + 1 \in 0 .. Pits
    BY <1>2
  <2>1b. grid[PitRow(k)][PitLine(k)] \in Nat
    BY PitNumbers DEF NatGrid
  <2>2. /\ s[k + 1] = s[k] + grid[PitRow(k)][PitLine(k)]
        /\ grid[PitRow(k)][PitLine(k)] \in Nat
        /\ s[k] \in Nat /\ k \in 0 .. Pits /\ k + 1 \in 0 .. Pits
    BY <1>1, <2>1a, <2>1b DEF CountsSeeds
  <2>3. CASE k = i
    BY <1>2, <1>d, <1>3, <1>6, <2>2, <2>3
  <2>4. CASE k # i
    BY <1>2, <1>6, <2>2, <2>4, SMTT(30)
  <2> QED
    BY <2>3, <2>4
<1>8. \A j, k \in 0 .. Pits : j <= k => t[j] <= t[k]
  <2>1. SUFFICES ASSUME NEW j \in 0 .. Pits, NEW k \in 0 .. Pits, j <= k
                 PROVE  t[j] <= t[k]
    OBVIOUS
  <2>2. s[j] <= s[k] /\ s[j] \in Nat /\ s[k] \in Nat
    BY <1>1, <2>1 DEF CountsSeeds
  <2>3. CASE j <= i /\ k > i
    <3>1. s[j] <= s[i]
      BY <1>1, <1>2, <2>3 DEF CountsSeeds
    <3> QED
      BY <1>2, <1>4, <2>2, <2>3, <3>1
  <2>4. CASE ~(j <= i /\ k > i)
    BY <1>2, <2>1, <2>2, <2>4
  <2> QED
    BY <2>3, <2>4
<1>9. t[0] = 0 /\ t[Pits] = n + d /\ n + d \in Nat /\ n + d = n + v - grid[r][p]
  <2>1. t[0] = s[0] /\ t[Pits] = s[Pits] + d
    BY <1>2
  <2> QED
    BY <1>1, <1>2, <1>d, <1>4, <2>1 DEF CountsSeeds
<1>10. CountsSeeds(t, new)
  <2> HIDE DEF t, new
  <2> QED
    BY <1>7, <1>8, <1>9 DEF CountsSeeds
<1> QED
  <2> HIDE DEF t
  <2> QED
    BY <1>5, <1>9, <1>10 DEF HoldsSeeds, new

(* No pit holds more seeds than the grid, and no running total either.     *)
LEMMA PitBounds ==
  ASSUME NEW grid \in NatGrid, NEW n \in 0 .. TotalSeeds, HoldsSeeds(grid, n)
  PROVE  /\ grid \in Grid
         /\ \E s \in [0 .. Pits -> 0 .. TotalSeeds] :
               CountsSeeds(s, grid) /\ s[Pits] = n
<1>1. PICK s \in [0 .. Pits -> Nat] : CountsSeeds(s, grid) /\ s[Pits] = n
  BY DEF HoldsSeeds
<1>2. TotalSeeds \in Nat /\ Pits \in Nat
  BY TotalIsNat, PitNumbers
<1>3. \A k \in 0 .. Pits : s[k] \in 0 .. TotalSeeds
  BY <1>1, <1>2 DEF CountsSeeds
<1>4. \A r \in Rows, p \in PlayerID : grid[r][p] \in 0 .. TotalSeeds
  <2>1. SUFFICES ASSUME NEW r \in Rows, NEW p \in PlayerID
                 PROVE  grid[r][p] \in 0 .. TotalSeeds
    OBVIOUS
  <2> DEFINE i == 2 * r + p
  <2>2. i \in 0 .. Pits - 1 /\ PitRow(i) = r /\ PitLine(i) = p
    BY PitNumbers
  <2>3. s[i + 1] = s[i] + grid[r][p] /\ grid[r][p] \in Nat
    BY <1>1, <2>2 DEF CountsSeeds, NatGrid
  <2>4. s[i] \in 0 .. TotalSeeds /\ s[i + 1] \in 0 .. TotalSeeds
    BY <1>2, <1>3, <2>2
  <2> QED
    BY <1>2, <2>3, <2>4
<1>5. grid \in Grid
  BY <1>4 DEF Grid, NatGrid
<1> QED
  BY <1>1, <1>3, <1>5

(* The converse reading of PitBounds: a witness for a count.               *)
LEMMA CountsHold ==
  ASSUME NEW grid, NEW s \in [0 .. Pits -> 0 .. TotalSeeds], CountsSeeds(s, grid)
  PROVE  s[Pits] \in 0 .. TotalSeeds /\ HoldsSeeds(grid, s[Pits])
<1>1. s \in [0 .. Pits -> Nat]
  BY TotalIsNat
<1>2. s[Pits] \in 0 .. TotalSeeds
  BY PitNumbers
<1> QED
  BY <1>1, <1>2 DEF HoldsSeeds

-----------------------------------------------------------------------------
(* Running totals are what the recursion of SeedsIn computes: it has a     *)
(* solution, s itself, and no solution differs from s at a least pit.      *)
LEMMA TotalsAreUnique ==
  ASSUME NEW grid \in NatGrid, NEW s \in [0 .. Pits -> Nat], CountsSeeds(s, grid)
  PROVE  SeedsIn(grid) = s[Pits]
<1> DEFINE Step(f, k) ==
      IF k = 0 THEN 0 ELSE f[k - 1] + grid[PitRow(k - 1)][PitLine(k - 1)]
    first == CHOOSE f : f = [k \in 0 .. Pits |-> Step(f, k)]
<1>1. SeedsIn(grid) = first[Pits]
  BY DEF SeedsIn
<1>2. Pits \in Nat
  BY PitNumbers
<1>3. \A k \in 0 .. Pits : s[k] = Step(s, k)
  <2>1. SUFFICES ASSUME NEW k \in 0 .. Pits, k # 0 PROVE s[k] = Step(s, k)
    BY DEF CountsSeeds
  <2>2. k - 1 \in 0 .. Pits - 1 /\ (k - 1) + 1 = k
    BY <1>2, <2>1
  <2> QED
    BY <2>1, <2>2 DEF CountsSeeds
<1>4. s = [k \in 0 .. Pits |-> Step(s, k)]
  <2> HIDE DEF Step
  <2> QED
    BY <1>3
<1>5. first = [k \in 0 .. Pits |-> Step(first, k)]
  <2> HIDE DEF Step
  <2> QED
    BY <1>4
<1> HIDE DEF first
<1>6. \A k \in 0 .. Pits : first[k] = Step(first, k)
  <2> HIDE DEF Step
  <2> QED
    BY <1>5
<1> DEFINE Wrong == { k \in 0 .. Pits : first[k] # s[k] }
<1>7. Wrong = {}
  <2>1. SUFFICES ASSUME Wrong # {} PROVE FALSE
    OBVIOUS
  <2>0. Wrong \subseteq Nat
    BY <1>2
  <2>2. PICK k \in Wrong : \A l \in Wrong : k <= l
    BY <1>2, <2>1, <2>0, LeastExists
  <2>3. k \in 0 .. Pits /\ first[k] # s[k]
    OBVIOUS
  <2>4. k # 0
    BY <1>3, <1>6, <2>3
  <2>5. k - 1 \in 0 .. Pits /\ ~(k <= k - 1)
    BY <1>2, <2>3, <2>4
  <2>6. first[k - 1] = s[k - 1]
    BY <2>2, <2>5
  <2> QED
    BY <1>3, <1>6, <2>3, <2>4, <2>6
<1>8. Pits \in 0 .. Pits
  BY <1>2
<1> QED
  BY <1>1, <1>7, <1>8

-----------------------------------------------------------------------------
(* The boards reset() deals hold TotalSeeds seeds.                         *)
LEMMA ResetHolds ==
  ASSUME NEW game \in ResetAwale
  PROVE  /\ game \in Awale
         /\ game.score[PLAYER1] = 0 /\ game.score[PLAYER2] = 0
         /\ HoldsSeeds(game.grid, TotalSeeds)
<1>1. PICK p \in PlayerID :
        game = [ current |-> p,
                 score   |-> [q \in PlayerID |-> 0],
                 grid    |-> [i \in Rows |-> [q \in PlayerID |-> SEEDS]] ]
  BY DEF ResetAwale
<1>2. SEEDS \in 0 .. TotalSeeds /\ 0 \in 0 .. TotalSeeds /\ SEEDS \in Nat
  <2>1. SEEDS \in Nat /\ Pits \in Nat /\ Pits >= 1
    BY RulesAssumption DEF Pits
  <2>2. Pits * SEEDS >= SEEDS
    BY <2>1, Z3
  <2> QED
    BY <2>1, <2>2, TotalIsNat
<1>3. game \in Awale
  BY <1>1, <1>2 DEF Awale, Grid
<1>4. game.score[PLAYER1] = 0 /\ game.score[PLAYER2] = 0
  BY <1>1 DEF PlayerID
<1> DEFINE s == [k \in 0 .. Pits |-> k * SEEDS]
<1>5. Pits \in Nat
  BY PitNumbers
<1>6. s \in [0 .. Pits -> Nat] /\ s[0] = 0 /\ s[Pits] = TotalSeeds
  BY <1>2, <1>5, TotalIsNat, Z3
<1>7. \A k \in 0 .. Pits - 1 : s[k + 1] = s[k] + game.grid[PitRow(k)][PitLine(k)]
  <2>1. SUFFICES ASSUME NEW k \in 0 .. Pits - 1
                 PROVE  s[k + 1] = s[k] + game.grid[PitRow(k)][PitLine(k)]
    OBVIOUS
  <2>2. game.grid[PitRow(k)][PitLine(k)] = SEEDS
    BY <1>1, PitNumbers
  <2>3. (k + 1) * SEEDS = k * SEEDS + SEEDS
    BY <1>2, <1>5, Z3
  <2>4. k \in 0 .. Pits /\ k + 1 \in 0 .. Pits
    BY <1>5
  <2> QED
    BY <2>2, <2>3, <2>4
<1>8. \A j, k \in 0 .. Pits : j <= k => s[j] <= s[k]
  <2>1. \A j, k \in Nat : j <= k => j * SEEDS <= k * SEEDS
    BY <1>2, Z3
  <2> QED
    BY <1>5, <2>1
<1>9. CountsSeeds(s, game.grid)
  <2> HIDE DEF s
  <2> QED
    BY <1>6, <1>7, <1>8 DEF CountsSeeds
<1>10. HoldsSeeds(game.grid, TotalSeeds)
  <2> HIDE DEF s
  <2> QED
    BY <1>6, <1>9 DEF HoldsSeeds
<1> QED
  BY <1>3, <1>4, <1>10

(* A game that has just been reset is not over.                            *)
LEMMA ResetGoesOn ==
  ASSUME NEW game \in ResetAwale
  PROVE  ~GameOver(game)
<1>1. PICK p \in PlayerID :
        game = [ current |-> p,
                 score   |-> [q \in PlayerID |-> 0],
                 grid    |-> [i \in Rows |-> [q \in PlayerID |-> SEEDS]] ]
  BY DEF ResetAwale
<1>2. \A q \in PlayerID : PlayerHasSeeds(q, game.grid)
  BY <1>1, RulesAssumption DEF PlayerHasSeeds, Rows
<1>3. game.score[PLAYER1] < MAX_SCORE /\ game.score[PLAYER2] < MAX_SCORE
  <2>1. GRID_ROWS * SEEDS > 0
    BY RulesAssumption, Z3
  <2> QED
    BY <1>1, <2>1, RulesAssumption DEF PlayerID, PLAYER1, PLAYER2
<1>4. game.current \in PlayerID /\ NextPlayer(game) \in PlayerID
  BY <1>1 DEF NextPlayer, Opponent, PlayerID, PLAYER1, PLAYER2
<1>5. ~(game.score[PLAYER1] >= MAX_SCORE) /\ ~(game.score[PLAYER2] >= MAX_SCORE)
  <2>1. game.score[PLAYER1] = 0 /\ game.score[PLAYER2] = 0
    BY <1>1 DEF PlayerID
  <2> QED
    BY <1>3, <2>1, RulesAssumption
<1>6. Status(game) = "GAME_NOT_OVER"
  BY <1>2, <1>4, <1>5 DEF Status
<1> QED
  BY <1>6 DEF GameOver

LEMMA AheadIsPosition == \A at \in Position : Ahead(at) \in Position
BY RulesAssumption DEF Ahead, Position, Rows, PlayerID, PLAYER1, PLAYER2

(* One seed sown on the copy changes one pit, to at most one seed more.    *)
LEMMA DropOnCopyEffect ==
  ASSUME NEW p \in PlayerID, NEW grid \in NatGrid, NEW at \in Position
  PROVE  \E v \in Nat :
           /\ v <= grid[at.row][at.line] + 1
           /\ DropOnCopy(p, grid, at) = [grid EXCEPT ![at.row][at.line] = v]
<1>1. grid[at.row][at.line] \in Nat
  BY DEF NatGrid, Position
<1> QED
  BY <1>1 DEF DropOnCopy

(* One seed sown for good changes one pit and one score: the seeds that    *)
(* leave the pit are the ones the player is credited with.                 *)
LEMMA DropAndScoreEffect ==
  ASSUME NEW p \in PlayerID, NEW game \in NatAwale, NEW at \in Position
  PROVE  \E v, c \in Nat :
           /\ v + c = game.grid[at.row][at.line] + 1
           /\ DropAndScore(p, game, at) =
                [ current |-> game.current,
                  score   |-> [game.score EXCEPT ![p] = @ + c],
                  grid    |-> [game.grid EXCEPT ![at.row][at.line] = v] ]
<1> DEFINE n == game.grid[at.row][at.line] + 1
<1>1. n \in Nat
  BY DEF NatAwale, NatGrid, Position
<1>2. game.score \in [PlayerID -> Nat] /\ game.score[p] \in Nat
  BY DEF NatAwale
<1>3. CASE Captures(p, at, n)
  <2>1. DropAndScore(p, game, at) =
          [ current |-> game.current,
            score   |-> [game.score EXCEPT ![p] = @ + n],
            grid    |-> [game.grid EXCEPT ![at.row][at.line] = 0] ]
    BY <1>3 DEF DropAndScore, NatAwale
  <2>2. 0 + n = n
    BY <1>1
  <2> QED
    BY <1>1, <2>1, <2>2
<1>4. CASE ~Captures(p, at, n)
  <2>1. DropAndScore(p, game, at) =
          [ current |-> game.current,
            score   |-> game.score,
            grid    |-> [game.grid EXCEPT ![at.row][at.line] = n] ]
    BY <1>4 DEF DropAndScore, NatAwale
  <2>2. [game.score EXCEPT ![p] = @ + 0] = game.score
    BY <1>2
  <2>3. n + 0 = n
    BY <1>1
  <2> QED
    BY <1>1, <2>1, <2>2, <2>3
<1> QED
  BY <1>3, <1>4

-----------------------------------------------------------------------------
LEMMA AwaleGridIsNat ==
  ASSUME NEW game \in Awale
  PROVE  /\ game \in NatAwale /\ game.grid \in NatGrid /\ game.grid \in Grid
         /\ \A q \in PlayerID : game.score[q] \in Nat
BY TotalIsNat DEF Awale, NatAwale, Grid, NatGrid

(* Everything the invariant says of the game follows from its counts.      *)
LEMMA CountedGame ==
  ASSUME NEW cur \in PlayerID, NEW score \in [PlayerID -> Nat],
         NEW grid \in NatGrid, NEW n \in Nat, NEW hand \in Nat,
         HoldsSeeds(grid, n),
         n + (score[PLAYER1] + score[PLAYER2] + hand) = TotalSeeds
  PROVE  /\ [current |-> cur, score |-> score, grid |-> grid] \in Awale
         /\ hand \in 0 .. TotalSeeds
         /\ \E s \in [0 .. Pits -> 0 .. TotalSeeds] :
              /\ CountsSeeds(s, grid)
              /\ s[Pits] + (score[PLAYER1] + score[PLAYER2] + hand) = TotalSeeds
<1>1. /\ score[PLAYER1] \in Nat /\ score[PLAYER2] \in Nat /\ TotalSeeds \in Nat
      /\ PlayerID = {PLAYER1, PLAYER2}
  BY TotalIsNat DEF PlayerID
<1>2. /\ n \in 0 .. TotalSeeds /\ hand \in 0 .. TotalSeeds
      /\ score[PLAYER1] \in 0 .. TotalSeeds /\ score[PLAYER2] \in 0 .. TotalSeeds
  BY <1>1
<1>3. score \in [PlayerID -> 0 .. TotalSeeds]
  BY <1>1, <1>2
<1>4. /\ grid \in Grid
      /\ \E s \in [0 .. Pits -> 0 .. TotalSeeds] : CountsSeeds(s, grid) /\ s[Pits] = n
  BY <1>2, PitBounds
<1> QED
  BY <1>2, <1>3, <1>4 DEF Awale, Grid

LEMMA CountedCopy ==
  ASSUME NEW grid \in NatGrid, NEW n \in Nat, NEW hand \in Nat,
         HoldsSeeds(grid, n), n + hand <= TotalSeeds
  PROVE  /\ grid \in Grid
         /\ hand \in 0 .. TotalSeeds
         /\ \E s \in [0 .. Pits -> 0 .. TotalSeeds] :
              CountsSeeds(s, grid) /\ s[Pits] + hand <= TotalSeeds
<1>1. n \in 0 .. TotalSeeds /\ hand \in 0 .. TotalSeeds
  BY TotalIsNat
<1> QED
  BY <1>1, PitBounds

-----------------------------------------------------------------------------
(* Sowing is repeating a step.  What holds before the first seed and is    *)
(* kept by each seed holds after any number of them.                       *)
LEMMA CountUp ==
  ASSUME NEW N \in Nat, NEW S, 0 \in S,
         \A n \in 0 .. N - 1 : n \in S => n + 1 \in S
  PROVE  \A n \in 0 .. N : n \in S
<1> DEFINE Missed == (0 .. N) \ S
<1>1. SUFFICES ASSUME Missed # {} PROVE FALSE
  OBVIOUS
<1>2. PICK n \in Missed : \A k \in Missed : n <= k
  <2>1. Missed \subseteq Nat
    OBVIOUS
  <2> QED
    BY <1>1, <2>1, LeastExists
<1>3. n \in 0 .. N /\ n \notin S /\ n # 0
  OBVIOUS
<1>4. n - 1 \in 0 .. N - 1 /\ n - 1 \in 0 .. N /\ (n - 1) + 1 = n /\ ~(n <= n - 1)
  BY <1>3
<1>5. n - 1 \in S
  BY <1>2, <1>4
<1> QED
  BY <1>3, <1>4, <1>5

(* A step that stays in S can be repeated N times.                         *)
Iterates(h, S, F, a, N) ==
  /\ h \in [0 .. N -> S]
  /\ h[0] = a
  /\ \A n \in 0 .. N - 1 : h[n + 1] = F[h[n]]

LEMMA IterationExists ==
  ASSUME NEW S, NEW F \in [S -> S], NEW a \in S, NEW N \in Nat
  PROVE  \E h : Iterates(h, S, F, a, N)
<1> DEFINE Runs(m) == { h \in [0 .. m -> S] :
                          h[0] = a /\ \A n \in 0 .. m - 1 : h[n + 1] = F[h[n]] }
           Done == { m \in Nat : Runs(m) # {} }
<1>1. 0 \in Done
  <2>1. [n \in 0 .. 0 |-> a] \in Runs(0)
    OBVIOUS
  <2> QED
    BY <2>1
<1>2. ASSUME NEW m \in 0 .. N - 1, m \in Done PROVE m + 1 \in Done
  <2>1. PICK h \in Runs(m) : TRUE
    BY <1>2
  <2>2. /\ m \in Nat /\ m + 1 \in Nat
        /\ h \in [0 .. m -> S] /\ h[0] = a
        /\ \A n \in 0 .. m - 1 : h[n + 1] = F[h[n]]
    BY <2>1
  <2> DEFINE g == [n \in 0 .. m + 1 |-> IF n <= m THEN h[n] ELSE F[h[m]]]
  <2>3. g \in [0 .. m + 1 -> S] /\ g[0] = a
    BY <2>2
  <2>4. ASSUME NEW n \in 0 .. (m + 1) - 1 PROVE g[n + 1] = F[g[n]]
    <3>1. n \in 0 .. m /\ n \in 0 .. m + 1 /\ n + 1 \in 0 .. m + 1 /\ g[n] = h[n]
      BY <2>2, <2>4
    <3>2. CASE n = m
      BY <2>2, <3>1, <3>2
    <3>3. CASE n # m
      <4>1. n \in 0 .. m - 1 /\ n + 1 <= m
        BY <2>2, <3>1, <3>3
      <4> QED
        BY <2>2, <3>1, <4>1
    <3> QED
      BY <3>2, <3>3
  <2>5. g \in Runs(m + 1)
    <3> HIDE DEF g
    <3> QED
      BY <2>3, <2>4
  <2> QED
    BY <2>2, <2>5
<1>3. N \in Done
  <2> HIDE DEF Done
  <2>1. \A n \in 0 .. N : n \in Done
    BY <1>1, <1>2, CountUp
  <2> QED
    BY <2>1
<1>4. PICK h \in Runs(N) : TRUE
  BY <1>3
<1> QED
  BY <1>4 DEF Iterates

(* The walk moves on at every step, and passes over where it began.        *)
LEMMA NextSownIsElsewhere ==
  ASSUME NEW begin \in Position, NEW at \in Position
  PROVE  NextSown(at, begin) \in Position /\ NextSown(at, begin) # begin
<1>1. Ahead(begin) # begin
  BY RulesAssumption DEF Ahead, Position, Rows, PlayerID, PLAYER1, PLAYER2
<1> QED
  BY <1>1, AheadIsPosition DEF NextSown

-----------------------------------------------------------------------------
(* The sowing of pit t of player p, seed by seed: h[n] is the position and *)
(* the game after n seeds.                                                 *)
Pit(t, p) == [row |-> t, line |-> p]

Emptied(game, p, t) == [game EXCEPT !.grid[t][p] = 0]

Sown == [pos : Position, awale : NatAwale]

Sowing(h, p, game, t) ==
  /\ h \in [0 .. game.grid[t][p] -> Sown]
  /\ h[0] = [pos |-> Pit(t, p), awale |-> Emptied(game, p, t)]
  /\ \A n \in 0 .. game.grid[t][p] - 1 :
       /\ h[n + 1].pos = NextSown(h[n].pos, Pit(t, p))
       /\ h[n + 1].awale = DropAndScore(p, h[n].awale, h[n + 1].pos)

LEMMA DropAndScoreIsTyped ==
  ASSUME NEW p \in PlayerID, NEW game \in NatAwale, NEW at \in Position
  PROVE  DropAndScore(p, game, at) \in NatAwale
<1>1. PICK v, c \in Nat :
        DropAndScore(p, game, at) =
          [ current |-> game.current,
            score   |-> [game.score EXCEPT ![p] = @ + c],
            grid    |-> [game.grid EXCEPT ![at.row][at.line] = v] ]
  BY DropAndScoreEffect
<1>2. [game.score EXCEPT ![p] = @ + c] \in [PlayerID -> Nat]
  BY DEF NatAwale
<1>3. [game.grid EXCEPT ![at.row][at.line] = v] \in NatGrid
  BY DEF NatAwale, NatGrid, Position
<1> QED
  BY <1>1, <1>2, <1>3 DEF NatAwale

LEMMA EmptiedIsTyped ==
  ASSUME NEW p \in PlayerID, NEW game \in NatAwale, NEW t \in Rows
  PROVE  /\ Emptied(game, p, t) \in NatAwale
         /\ Emptied(game, p, t) =
              [ current |-> game.current, score |-> game.score,
                grid |-> [game.grid EXCEPT ![t][p] = 0] ]
         /\ Pit(t, p) \in Position
         /\ game.grid[t][p] \in Nat
<1>1. Emptied(game, p, t) =
              [ current |-> game.current, score |-> game.score,
                grid |-> [game.grid EXCEPT ![t][p] = 0] ]
  BY DEF Emptied, NatAwale
<1>2. [game.grid EXCEPT ![t][p] = 0] \in NatGrid /\ game.grid[t][p] \in Nat
  BY DEF NatAwale, NatGrid
<1> QED
  BY <1>1, <1>2 DEF NatAwale, Pit, Position

LEMMA EmptiedIsEmptied ==
  ASSUME NEW p \in PlayerID, NEW game \in NatAwale, NEW t \in Rows
  PROVE  \A i \in Rows, q \in PlayerID :
           Emptied(game, p, t).grid[i][q] = IF i = t /\ q = p THEN 0 ELSE game.grid[i][q]
<1>1. game.grid \in [Rows -> [PlayerID -> Nat]]
  BY DEF NatAwale, NatGrid
<1>2. Emptied(game, p, t).grid = [game.grid EXCEPT ![t][p] = 0]
  BY EmptiedIsTyped
<1> QED
  BY <1>1, <1>2

LEMMA SowingExists ==
  ASSUME NEW p \in PlayerID, NEW game \in NatAwale, NEW t \in Rows
  PROVE  \E h : Sowing(h, p, game, t)
<1> DEFINE next(x) == NextSown(x.pos, Pit(t, p))
           F == [x \in Sown |-> [pos |-> next(x), awale |-> DropAndScore(p, x.awale, next(x))]]
           a == [pos |-> Pit(t, p), awale |-> Emptied(game, p, t)]
<1>1. a \in Sown /\ game.grid[t][p] \in Nat
  BY EmptiedIsTyped DEF Sown
<1>2. F \in [Sown -> Sown]
  <2>1. ASSUME NEW x \in Sown
        PROVE  next(x) \in Position /\ DropAndScore(p, x.awale, next(x)) \in NatAwale
    <3>1. x.pos \in Position /\ x.awale \in NatAwale
      BY DEF Sown
    <3>2. next(x) \in Position
      BY <3>1, EmptiedIsTyped, NextSownIsElsewhere
    <3> QED
      BY <3>1, <3>2, DropAndScoreIsTyped
  <2> QED
    BY <2>1 DEF Sown
<1>3. \A x \in Sown : F[x].pos = next(x) /\ F[x].awale = DropAndScore(p, x.awale, next(x))
  OBVIOUS
<1> HIDE DEF F, a
<1>4. PICK h : Iterates(h, Sown, F, a, game.grid[t][p])
  BY <1>1, <1>2, IterationExists
<1>5. ASSUME NEW n \in 0 .. game.grid[t][p] - 1
      PROVE  /\ h[n + 1].pos = NextSown(h[n].pos, Pit(t, p))
             /\ h[n + 1].awale = DropAndScore(p, h[n].awale, h[n + 1].pos)
  <2>1. h[n] \in Sown
    BY <1>1, <1>4 DEF Iterates
  <2> QED
    BY <1>3, <1>4, <2>1 DEF Iterates
<1> QED
  BY <1>4, <1>5 DEF Sowing, Iterates, a

(* The loop of sow_seeds_update_grid_score runs through the sowing.        *)
LEMMA SowingIsTheLoop ==
  ASSUME NEW p \in PlayerID, NEW game \in NatAwale, NEW t \in Rows,
         NEW h, Sowing(h, p, game, t)
  PROVE  SowSeedsUpdateGridScore(p, game, t) = h[game.grid[t][p]].awale
<1> DEFINE N == game.grid[t][p]
           begin == [row |-> t, line |-> p]
           Step(f, n) ==
             IF n = 0
             THEN [pos |-> begin, awale |-> [game EXCEPT !.grid[t][p] = 0]]
             ELSE LET last == f[n - 1]
                      pos == NextSown(last.pos, begin)
                  IN  [pos |-> pos, awale |-> DropAndScore(p, last.awale, pos)]
           sown == CHOOSE f : f = [n \in 0 .. N |-> Step(f, n)]
<1>1. SowSeedsUpdateGridScore(p, game, t) = sown[N].awale
  BY DEF SowSeedsUpdateGridScore
<1>2. N \in Nat /\ begin = Pit(t, p)
  BY EmptiedIsTyped DEF Pit
<1>3. \A n \in 0 .. N : h[n] = Step(h, n)
  <2>1. ASSUME NEW n \in 0 .. N, n # 0 PROVE h[n] = Step(h, n)
    <3>1. n - 1 \in 0 .. N - 1 /\ (n - 1) + 1 = n
      BY <1>2, <2>1
    <3>2. /\ h[n].pos = NextSown(h[n - 1].pos, Pit(t, p))
          /\ h[n].awale = DropAndScore(p, h[n - 1].awale, h[n].pos)
          /\ h[n] \in Sown
      BY <3>1 DEF Sowing
    <3> QED
      BY <1>2, <2>1, <3>2 DEF Sown
  <2>2. h[0] = Step(h, 0)
    BY <1>2 DEF Sowing, Emptied
  <2> QED
    BY <2>1, <2>2
<1> HIDE DEF Step, N
<1>4. h = [n \in 0 .. N |-> Step(h, n)]
  BY <1>3 DEF Sowing, N
<1>5. sown = [n \in 0 .. N |-> Step(sown, n)]
  BY <1>4
<1> HIDE DEF sown
<1>6. \A n \in 0 .. N : sown[n] = Step(sown, n)
  BY <1>5
<1> DEFINE Same == { n \in 0 .. N : sown[n] = h[n] }
<1>7. 0 \in Same
  <2>1. Step(sown, 0) = Step(h, 0) /\ 0 \in 0 .. N
    BY <1>2 DEF Step
  <2> QED
    BY <1>3, <1>6, <2>1
<1>8. ASSUME NEW n \in 0 .. N - 1, n \in Same PROVE n + 1 \in Same
  <2>1. n + 1 \in 0 .. N /\ n + 1 # 0 /\ (n + 1) - 1 = n /\ sown[n] = h[n]
    BY <1>2, <1>8
  <2>2. Step(sown, n + 1) = Step(h, n + 1)
    BY <2>1 DEF Step
  <2> QED
    BY <1>3, <1>6, <2>1, <2>2
<1>9. N \in Same
  <2> HIDE DEF Same
  <2>1. \A n \in 0 .. N : n \in Same
    BY <1>2, <1>7, <1>8, CountUp
  <2> QED
    BY <1>2, <2>1
<1> QED
  BY <1>1, <1>9 DEF N

(* A seed on the copy does to the grid what a seed for good does to it.    *)
LEMMA DropsAgree ==
  ASSUME NEW p \in PlayerID, NEW game \in NatAwale, NEW at \in Position
  PROVE  DropAndScore(p, game, at).grid = DropOnCopy(p, game.grid, at)
<1>1. game = [current |-> game.current, score |-> game.score, grid |-> game.grid]
  BY DEF NatAwale
<1> DEFINE n == game.grid[at.row][at.line] + 1
<1>2. CASE Captures(p, at, n)
  BY <1>1, <1>2 DEF DropAndScore, DropOnCopy
<1>3. CASE ~Captures(p, at, n)
  BY <1>1, <1>3 DEF DropAndScore, DropOnCopy
<1> QED
  BY <1>2, <1>3

(* So the loop of sow_seeds runs through the grids of the same sowing.     *)
LEMMA SowingIsTheCopyLoop ==
  ASSUME NEW p \in PlayerID, NEW game \in NatAwale, NEW t \in Rows,
         NEW h, Sowing(h, p, game, t)
  PROVE  SowSeeds(p, game.grid, t) = h[game.grid[t][p]].awale.grid
<1> DEFINE N == game.grid[t][p]
           begin == [row |-> t, line |-> p]
           Step(f, n) ==
             IF n = 0
             THEN [pos |-> begin, grid |-> [game.grid EXCEPT ![t][p] = 0]]
             ELSE LET last == f[n - 1]
                      pos == NextSown(last.pos, begin)
                  IN  [pos |-> pos, grid |-> DropOnCopy(p, last.grid, pos)]
           sown == CHOOSE f : f = [n \in 0 .. N |-> Step(f, n)]
           g == [n \in 0 .. N |-> [pos |-> h[n].pos, grid |-> h[n].awale.grid]]
<1>1. SowSeeds(p, game.grid, t) = sown[N].grid
  BY DEF SowSeeds
<1>2. N \in Nat /\ begin = Pit(t, p)
  BY EmptiedIsTyped DEF Pit
<1>3. \A n \in 0 .. N : g[n] = Step(g, n)
  <2>1. ASSUME NEW n \in 0 .. N, n # 0 PROVE g[n] = Step(g, n)
    <3>1. n - 1 \in 0 .. N - 1 /\ n - 1 \in 0 .. N /\ (n - 1) + 1 = n
      BY <1>2, <2>1
    <3>2. /\ h[n].pos = NextSown(h[n - 1].pos, Pit(t, p))
          /\ h[n].awale = DropAndScore(p, h[n - 1].awale, h[n].pos)
          /\ h[n].pos \in Position /\ h[n - 1].awale \in NatAwale
      BY <3>1 DEF Sowing, Sown
    <3>3. h[n].awale.grid = DropOnCopy(p, h[n - 1].awale.grid, h[n].pos)
      BY <3>2, DropsAgree
    <3>4. /\ g[n] = [pos |-> h[n].pos, grid |-> h[n].awale.grid]
          /\ g[n - 1].pos = h[n - 1].pos /\ g[n - 1].grid = h[n - 1].awale.grid
      BY <3>1
    <3> HIDE DEF g
    <3> QED
      BY <1>2, <2>1, <3>2, <3>3, <3>4
  <2>2. g[0] = Step(g, 0)
    <3>1. Emptied(game, p, t).grid = [game.grid EXCEPT ![t][p] = 0]
      BY EmptiedIsTyped
    <3>2. g[0] = [pos |-> Pit(t, p), grid |-> Emptied(game, p, t).grid]
      BY <1>2 DEF Sowing
    <3> QED
      BY <1>2, <3>1, <3>2
  <2> QED
    BY <2>1, <2>2
<1>4. g = [n \in 0 .. N |-> Step(g, n)]
  <2> HIDE DEF Step
  <2> QED
    BY <1>3
<1>w. g[N].grid = h[N].awale.grid
  BY <1>2
<1> HIDE DEF Step, N, g
<1>5. sown = [n \in 0 .. N |-> Step(sown, n)]
  BY <1>4
<1> HIDE DEF sown
<1>6. \A n \in 0 .. N : sown[n] = Step(sown, n)
  BY <1>5
<1> DEFINE Same == { n \in 0 .. N : sown[n] = g[n] }
<1>7. 0 \in Same
  <2>1. Step(sown, 0) = Step(g, 0) /\ 0 \in 0 .. N
    BY <1>2 DEF Step
  <2> QED
    BY <1>3, <1>6, <2>1
<1>8. ASSUME NEW n \in 0 .. N - 1, n \in Same PROVE n + 1 \in Same
  <2>1. n + 1 \in 0 .. N /\ n + 1 # 0 /\ (n + 1) - 1 = n /\ sown[n] = g[n]
    BY <1>2, <1>8
  <2>2. Step(sown, n + 1) = Step(g, n + 1)
    BY <2>1 DEF Step
  <2> QED
    BY <1>3, <1>6, <2>1, <2>2
<1>9. N \in Same
  <2> HIDE DEF Same
  <2>1. \A n \in 0 .. N : n \in Same
    BY <1>2, <1>7, <1>8, CountUp
  <2> QED
    BY <1>2, <2>1
<1> QED
  BY <1>1, <1>w, <1>9 DEF N

(* The two hand-written loops leave the same grid.                         *)
LEMMA LoopsAgree ==
  ASSUME NEW p \in PlayerID, NEW game \in NatAwale, NEW t \in Rows
  PROVE  SowSeeds(p, game.grid, t) = SowSeedsUpdateGridScore(p, game, t).grid
<1>1. PICK h : Sowing(h, p, game, t)
  BY SowingExists
<1> QED
  BY <1>1, SowingIsTheLoop, SowingIsTheCopyLoop

-----------------------------------------------------------------------------
(* Every seed is in a pit, in a score or among the hand in hand.           *)
Conserves(game, hand) ==
  \E n \in Nat :
    /\ HoldsSeeds(game.grid, n)
    /\ n + (game.score[PLAYER1] + game.score[PLAYER2] + hand) = TotalSeeds

LEMMA ConservingIsAwale ==
  ASSUME NEW game \in NatAwale, NEW hand \in Nat, Conserves(game, hand)
  PROVE  game \in Awale
<1>1. PICK n \in Nat :
        /\ HoldsSeeds(game.grid, n)
        /\ n + (game.score[PLAYER1] + game.score[PLAYER2] + hand) = TotalSeeds
  BY DEF Conserves
<1>2. /\ game.current \in PlayerID /\ game.score \in [PlayerID -> Nat]
      /\ game.grid \in NatGrid
      /\ game = [current |-> game.current, score |-> game.score, grid |-> game.grid]
  BY DEF NatAwale
<1>3. [current |-> game.current, score |-> game.score, grid |-> game.grid] \in Awale
  BY <1>1, <1>2, CountedGame
<1> QED
  BY <1>2, <1>3

LEMMA ResetConserves ==
  ASSUME NEW game \in ResetAwale
  PROVE  game \in Awale /\ Conserves(game, 0)
<1>1. TotalSeeds + (0 + 0 + 0) = TotalSeeds /\ TotalSeeds \in Nat
  BY TotalIsNat
<1> QED
  BY <1>1, ResetHolds DEF Conserves

LEMMA ScoreAdds ==
  ASSUME NEW p \in PlayerID, NEW score \in [PlayerID -> Nat], NEW c \in Nat
  PROVE  LET more == [score EXCEPT ![p] = @ + c]
         IN  /\ more \in [PlayerID -> Nat]
             /\ more[PLAYER1] + more[PLAYER2] = score[PLAYER1] + score[PLAYER2] + c
<1> DEFINE more == [score EXCEPT ![p] = @ + c]
<1>1. /\ PLAYER1 \in PlayerID /\ PLAYER2 \in PlayerID /\ PLAYER1 # PLAYER2
      /\ p = PLAYER1 \/ p = PLAYER2
  BY DEF PlayerID, PLAYER1, PLAYER2
<1>2. score[PLAYER1] \in Nat /\ score[PLAYER2] \in Nat
  BY <1>1
<1>3. CASE p = PLAYER1
  <2>1. more[PLAYER1] = score[PLAYER1] + c /\ more[PLAYER2] = score[PLAYER2]
    BY <1>1, <1>3
  <2> HIDE DEF more
  <2>2. more[PLAYER1] + more[PLAYER2] = score[PLAYER1] + score[PLAYER2] + c
    BY <1>2, <2>1
  <2> QED
    BY <2>2 DEF more
<1>4. CASE p = PLAYER2
  <2>1. more[PLAYER2] = score[PLAYER2] + c /\ more[PLAYER1] = score[PLAYER1]
    BY <1>1, <1>4
  <2> HIDE DEF more
  <2>2. more[PLAYER1] + more[PLAYER2] = score[PLAYER1] + score[PLAYER2] + c
    BY <1>2, <2>1
  <2> QED
    BY <2>2 DEF more
<1> QED
  BY <1>1, <1>3, <1>4

(* Taking up a hand moves the seeds of a pit into it; sowing a seed moves  *)
(* it back, or into the score.                                             *)
LEMMA EmptiedConserves ==
  ASSUME NEW p \in PlayerID, NEW game \in NatAwale, NEW t \in Rows, Conserves(game, 0)
  PROVE  Conserves(Emptied(game, p, t), game.grid[t][p])
<1>1. PICK n \in Nat :
        /\ HoldsSeeds(game.grid, n)
        /\ n + (game.score[PLAYER1] + game.score[PLAYER2] + 0) = TotalSeeds
  BY DEF Conserves
<1> DEFINE grid == [game.grid EXCEPT ![t][p] = 0]
           m == n + 0 - game.grid[t][p]
<1>2. game.grid \in NatGrid /\ game.grid[t][p] \in Nat
  BY EmptiedIsTyped DEF NatAwale
<1>3. m \in Nat /\ HoldsSeeds(grid, m)
  BY <1>1, <1>2, PitChange
<1>4. game.score[PLAYER1] \in Nat /\ game.score[PLAYER2] \in Nat
  BY DEF NatAwale, PlayerID
<1>5. m + (game.score[PLAYER1] + game.score[PLAYER2] + game.grid[t][p]) = TotalSeeds
  BY <1>1, <1>2, <1>4
<1>6. Emptied(game, p, t).grid = grid /\ Emptied(game, p, t).score = game.score
  BY EmptiedIsTyped
<1> HIDE DEF m, grid
<1> QED
  BY <1>3, <1>5, <1>6 DEF Conserves

LEMMA DropConserves ==
  ASSUME NEW p \in PlayerID, NEW game \in NatAwale, NEW at \in Position,
         NEW hand \in Nat, Conserves(game, hand + 1)
  PROVE  Conserves(DropAndScore(p, game, at), hand)
<1>1. PICK n \in Nat :
        /\ HoldsSeeds(game.grid, n)
        /\ n + (game.score[PLAYER1] + game.score[PLAYER2] + (hand + 1)) = TotalSeeds
  BY DEF Conserves
<1>2. PICK v \in Nat, c \in Nat :
        /\ v + c = game.grid[at.row][at.line] + 1
        /\ DropAndScore(p, game, at) =
             [ current |-> game.current,
               score   |-> [game.score EXCEPT ![p] = @ + c],
               grid    |-> [game.grid EXCEPT ![at.row][at.line] = v] ]
  BY DropAndScoreEffect
<1> DEFINE grid == [game.grid EXCEPT ![at.row][at.line] = v]
           score == [game.score EXCEPT ![p] = @ + c]
           m == n + v - game.grid[at.row][at.line]
<1>3. /\ game.grid \in NatGrid /\ game.score \in [PlayerID -> Nat]
      /\ at.row \in Rows /\ at.line \in PlayerID
      /\ game.grid[at.row][at.line] \in Nat
      /\ game.score[PLAYER1] \in Nat /\ game.score[PLAYER2] \in Nat
  BY DEF NatAwale, NatGrid, Position, PlayerID
<1>4. m \in Nat /\ HoldsSeeds(grid, m)
  BY <1>1, <1>3, PitChange
<1>5. score[PLAYER1] + score[PLAYER2] = game.score[PLAYER1] + game.score[PLAYER2] + c
  BY <1>3, ScoreAdds, SMTT(30)
<1>6. DropAndScore(p, game, at).grid = grid /\ DropAndScore(p, game, at).score = score
  BY <1>2
<1>7. m + (score[PLAYER1] + score[PLAYER2] + hand) = TotalSeeds
  <2> HIDE DEF score, grid
  <2> QED
    BY <1>1, <1>2, <1>3, <1>5
<1> HIDE DEF m, grid, score
<1> QED
  BY <1>4, <1>6, <1>7 DEF Conserves

(* So a sowing keeps every seed: after n of them the rest is in the hand.  *)
LEMMA SowingConserves ==
  ASSUME NEW p \in PlayerID, NEW game \in NatAwale, NEW t \in Rows,
         Conserves(game, 0), NEW h, Sowing(h, p, game, t)
  PROVE  \A n \in 0 .. game.grid[t][p] : Conserves(h[n].awale, game.grid[t][p] - n)
<1> DEFINE N == game.grid[t][p]
           S == { n \in 0 .. N : Conserves(h[n].awale, N - n) }
<1>1. N \in Nat /\ h[0].awale = Emptied(game, p, t) /\ N - 0 = N
  BY EmptiedIsTyped DEF Sowing
<1>2. 0 \in S
  <2>1. Conserves(h[0].awale, N - 0)
    BY <1>1, EmptiedConserves
  <2> QED
    BY <1>1, <2>1
<1>3. ASSUME NEW n \in 0 .. N - 1, n \in S PROVE n + 1 \in S
  <2>1. /\ n \in 0 .. N /\ n + 1 \in 0 .. N
        /\ N - (n + 1) \in Nat /\ N - n = (N - (n + 1)) + 1
    BY <1>1
  <2>2. /\ h[n].awale \in NatAwale /\ h[n + 1].pos \in Position
        /\ h[n + 1].awale = DropAndScore(p, h[n].awale, h[n + 1].pos)
    BY <2>1 DEF Sowing, Sown
  <2>3. Conserves(h[n].awale, (N - (n + 1)) + 1)
    BY <1>3, <2>1
  <2> HIDE DEF N
  <2>4. Conserves(h[n + 1].awale, N - (n + 1))
    BY <2>1, <2>2, <2>3, DropConserves
  <2> QED
    BY <2>1, <2>4
<1> HIDE DEF N, S
<1>4. \A n \in 0 .. N : n \in S
  BY <1>1, <1>2, <1>3, CountUp
<1> QED
  BY <1>4 DEF S, N

-----------------------------------------------------------------------------
(* What a sowing may take, and from whom.                                  *)
LEMMA TheOther ==
  ASSUME NEW p \in PlayerID
  PROVE  /\ Opponent(p) \in PlayerID /\ Opponent(p) # p /\ Opponent(Opponent(p)) = p
         /\ \A q \in PlayerID : q # p => q = Opponent(p)
BY DEF Opponent, PlayerID, PLAYER1, PLAYER2

(* A seed is added to a pit, or captures a pit of the opponent.            *)
LEMMA DropTakes ==
  ASSUME NEW p \in PlayerID, NEW game \in NatAwale, NEW at \in Position
  PROVE  LET after == DropAndScore(p, game, at)
         IN  /\ after.current = game.current
             /\ after.score[Opponent(p)] = game.score[Opponent(p)]
             /\ after.score[p] >= game.score[p]
             /\ \A i \in Rows, q \in PlayerID :
                  [row |-> i, line |-> q] # at => after.grid[i][q] = game.grid[i][q]
             /\ \/ after.grid[at.row][at.line] = game.grid[at.row][at.line] + 1
                \/ at.line = Opponent(p) /\ after.score[p] >= game.score[p] + 2
<1> DEFINE n == game.grid[at.row][at.line] + 1
           after == DropAndScore(p, game, at)
<1>1. /\ game = [current |-> game.current, score |-> game.score, grid |-> game.grid]
      /\ game.score \in [PlayerID -> Nat] /\ game.grid \in NatGrid
      /\ at.row \in Rows /\ at.line \in PlayerID
      /\ at = [row |-> at.row, line |-> at.line]
  BY DEF NatAwale, Position
<1>2. n \in Nat /\ Opponent(p) \in PlayerID /\ Opponent(p) # p
  BY <1>1, TheOther DEF NatGrid
<1>3. CASE Captures(p, at, n)
  <2>1. after = [ current |-> game.current,
                  score   |-> [game.score EXCEPT ![p] = @ + n],
                  grid    |-> [game.grid EXCEPT ![at.row][at.line] = 0] ]
    BY <1>1, <1>3 DEF DropAndScore
  <2>2. n >= 2 /\ at.line = Opponent(p)
    BY <1>3 DEF Captures
  <2>3. after.score[Opponent(p)] = game.score[Opponent(p)]
    BY <1>1, <1>2, <2>1
  <2>4. after.score[p] = game.score[p] + n /\ game.score[p] \in Nat
    BY <1>1, <2>1
  <2>5. \A i \in Rows, q \in PlayerID :
          [row |-> i, line |-> q] # at => after.grid[i][q] = game.grid[i][q]
    BY <1>1, <2>1 DEF NatGrid
  <2> HIDE DEF n, after
  <2>6. after.score[p] >= game.score[p] + 2 /\ after.score[p] >= game.score[p]
    BY <1>2, <2>2, <2>4
  <2> QED
    BY <2>1, <2>2, <2>3, <2>5, <2>6 DEF after
<1>4. CASE ~Captures(p, at, n)
  <2>1. after = [ current |-> game.current,
                  score   |-> game.score,
                  grid    |-> [game.grid EXCEPT ![at.row][at.line] = n] ]
    BY <1>1, <1>4 DEF DropAndScore
  <2>2. /\ after.score = game.score /\ after.current = game.current
        /\ game.score[p] \in Nat
    BY <1>1, <2>1
  <2>3. \A i \in Rows, q \in PlayerID :
          [row |-> i, line |-> q] # at => after.grid[i][q] = game.grid[i][q]
    BY <1>1, <2>1 DEF NatGrid
  <2>4. after.grid[at.row][at.line] = game.grid[at.row][at.line] + 1
    BY <1>1, <2>1 DEF NatGrid
  <2> HIDE DEF n, after
  <2> QED
    BY <2>2, <2>3, <2>4 DEF after
<1> QED
  BY <1>3, <1>4

(* What is true after every seed: the pit of the hand stays empty, the     *)
(* mover's other pits only grow, and a pit of the opponent that holds less *)
(* than before was captured.                                               *)
TakesFromTheOther(p, before, t, after) ==
  /\ after.current = before.current
  /\ after.score[Opponent(p)] = before.score[Opponent(p)]
  /\ after.score[p] >= before.score[p]
  /\ after.grid[t][p] = 0
  /\ \A i \in Rows \ {t} : after.grid[i][p] >= before.grid[i][p]
  /\ \A i \in Rows :
       \/ after.grid[i][Opponent(p)] >= before.grid[i][Opponent(p)]
       \/ after.score[p] >= before.score[p] + 2

LEMMA EmptiedTakes ==
  ASSUME NEW p \in PlayerID, NEW game \in NatAwale, NEW t \in Rows
  PROVE  TakesFromTheOther(p, game, t, Emptied(game, p, t))
<1> DEFINE q == Opponent(p)
           after == Emptied(game, p, t)
<1>1. /\ game.score \in [PlayerID -> Nat] /\ game.grid \in [Rows -> [PlayerID -> Nat]]
      /\ q \in PlayerID /\ q # p
  BY TheOther DEF NatAwale, NatGrid
<1>2. /\ after.current = game.current /\ after.score = game.score
      /\ after.grid = [game.grid EXCEPT ![t][p] = 0]
  BY EmptiedIsTyped
<1>3. /\ after.grid[t][p] = 0
      /\ \A i \in Rows \ {t} : after.grid[i][p] = game.grid[i][p]
      /\ \A i \in Rows : after.grid[i][q] = game.grid[i][q]
  BY <1>1, <1>2
<1>4. /\ game.score[p] \in Nat
      /\ \A i \in Rows : game.grid[i][p] \in Nat /\ game.grid[i][q] \in Nat
  BY <1>1
<1> HIDE DEF q, after
<1> QED
  BY <1>2, <1>3, <1>4 DEF TakesFromTheOther, q, after

LEMMA DropKeepsTaking ==
  ASSUME NEW p \in PlayerID, NEW game \in NatAwale, NEW t \in Rows,
         NEW g \in NatAwale, TakesFromTheOther(p, game, t, g),
         NEW at \in Position, at # Pit(t, p)
  PROVE  TakesFromTheOther(p, game, t, DropAndScore(p, g, at))
<1> DEFINE after == DropAndScore(p, g, at)
           q == Opponent(p)
<1>1. after \in NatAwale
  BY DropAndScoreIsTyped
<1>2. q \in PlayerID /\ q # p
  BY TheOther
<1>3. /\ game.score[p] \in Nat /\ g.score[p] \in Nat /\ after.score[p] \in Nat
      /\ \A i \in Rows : /\ game.grid[i][p] \in Nat /\ g.grid[i][p] \in Nat
                         /\ after.grid[i][p] \in Nat
                         /\ game.grid[i][q] \in Nat /\ g.grid[i][q] \in Nat
                         /\ after.grid[i][q] \in Nat
  BY <1>1, <1>2 DEF NatAwale, NatGrid
<1>4. /\ after.current = g.current
      /\ after.score[q] = g.score[q]
      /\ after.score[p] >= g.score[p]
      /\ \A i \in Rows, r \in PlayerID :
           [row |-> i, line |-> r] # at => after.grid[i][r] = g.grid[i][r]
      /\ \/ after.grid[at.row][at.line] = g.grid[at.row][at.line] + 1
         \/ at.line = q /\ after.score[p] >= g.score[p] + 2
  BY DropTakes
<1>5. at.row \in Rows /\ at.line \in PlayerID /\ at = [row |-> at.row, line |-> at.line]
  BY DEF Position
<1> HIDE DEF after, q
<1>6. after.current = game.current /\ after.score[q] = game.score[q]
  BY <1>4 DEF TakesFromTheOther, q
<1>7. after.score[p] >= game.score[p]
  BY <1>3, <1>4 DEF TakesFromTheOther
<1>8. after.grid[t][p] = 0
  BY <1>4 DEF TakesFromTheOther, Pit
<1>9. ASSUME NEW i \in Rows \ {t} PROVE after.grid[i][p] >= game.grid[i][p]
  <2>1. g.grid[i][p] >= game.grid[i][p]
    BY DEF TakesFromTheOther
  <2>2. CASE at = [row |-> i, line |-> p]
    <3>1. after.grid[i][p] = g.grid[i][p] + 1
      BY <1>2, <1>4, <2>2
    <3> QED
      BY <1>3, <2>1, <3>1
  <2>3. CASE at # [row |-> i, line |-> p]
    BY <1>4, <2>1, <2>3
  <2> QED
    BY <2>2, <2>3
<1>10. ASSUME NEW i \in Rows
       PROVE  after.grid[i][q] >= game.grid[i][q] \/ after.score[p] >= game.score[p] + 2
  <2>1. g.grid[i][q] >= game.grid[i][q] \/ g.score[p] >= game.score[p] + 2
    BY DEF TakesFromTheOther, q
  <2>2. CASE g.score[p] >= game.score[p] + 2
    BY <1>3, <1>4, <2>2
  <2>3. CASE g.grid[i][q] >= game.grid[i][q] /\ at # [row |-> i, line |-> q]
    BY <1>2, <1>4, <2>3
  <2>4. CASE g.grid[i][q] >= game.grid[i][q] /\ at = [row |-> i, line |-> q]
    <3>1. at.row = i /\ at.line = q
      BY <2>4
    <3>2. \/ after.grid[i][q] = g.grid[i][q] + 1
          \/ after.score[p] >= g.score[p] + 2
      BY <1>4, <3>1
    <3>3. g.score[p] >= game.score[p]
      BY DEF TakesFromTheOther
    <3> QED
      BY <1>3, <2>4, <3>2, <3>3
  <2> QED
    BY <2>1, <2>2, <2>3, <2>4
<1> QED
  BY <1>6, <1>7, <1>8, <1>9, <1>10 DEF TakesFromTheOther, after, q

LEMMA SowingTakes ==
  ASSUME NEW p \in PlayerID, NEW game \in NatAwale, NEW t \in Rows,
         NEW h, Sowing(h, p, game, t)
  PROVE  \A n \in 0 .. game.grid[t][p] : TakesFromTheOther(p, game, t, h[n].awale)
<1> DEFINE N == game.grid[t][p]
           S == { n \in 0 .. N : TakesFromTheOther(p, game, t, h[n].awale) }
<1>1. N \in Nat /\ h[0].awale = Emptied(game, p, t) /\ Pit(t, p) \in Position
  BY EmptiedIsTyped DEF Sowing
<1>2. 0 \in S
  BY <1>1, EmptiedTakes
<1>3. ASSUME NEW n \in 0 .. N - 1, n \in S PROVE n + 1 \in S
  <2>1. n \in 0 .. N /\ n + 1 \in 0 .. N
    BY <1>1
  <2>2. /\ h[n].awale \in NatAwale /\ h[n].pos \in Position
        /\ h[n + 1].pos = NextSown(h[n].pos, Pit(t, p))
        /\ h[n + 1].awale = DropAndScore(p, h[n].awale, h[n + 1].pos)
    BY <2>1 DEF Sowing, Sown
  <2>3. h[n + 1].pos \in Position /\ h[n + 1].pos # Pit(t, p)
    BY <1>1, <2>2, NextSownIsElsewhere
  <2>4. TakesFromTheOther(p, game, t, h[n + 1].awale)
    BY <1>3, <2>2, <2>3, DropKeepsTaking
  <2> QED
    BY <2>1, <2>4
<1> HIDE DEF N, S
<1>4. \A n \in 0 .. N : n \in S
  BY <1>1, <1>2, <1>3, CountUp
<1> QED
  BY <1>4 DEF S, N

-----------------------------------------------------------------------------
(* A whole call of play().                                                 *)
Counted(game) == game \in Awale /\ Conserves(game, 0)

(* A position whose player to move has seeds passes the turn to nobody.    *)
LEMMA TurnIsTaken ==
  ASSUME NEW game, PlayerHasSeeds(game.current, game.grid)
  PROVE  Status(game) # "PASS_TURN_NO_SEEDS"
BY DEF Status

(* A valid move is a sowing after which the opponent has seeds, and the    *)
(* turn is theirs.                                                         *)
LEMMA ValidPlay ==
  ASSUME NEW p \in PlayerID, NEW t, NEW game \in Awale,
         PlayValidity(game, p, t) = "VALID"
  PROVE  /\ t \in Rows /\ game.current = p /\ game.grid[t][p] # 0
         /\ \E made \in NatAwale :
              /\ made = SowSeedsUpdateGridScore(p, game, t)
              /\ TakesFromTheOther(p, game, t, made)
              /\ Conserves(game, 0) => Conserves(made, 0)
              /\ PlayerHasSeeds(Opponent(p), made.grid)
              /\ AfterPlay(game, p, t) =
                   [current |-> Opponent(p), score |-> made.score, grid |-> made.grid]
<1>1. /\ t \in Rows /\ game.current = p /\ game.grid[t][p] # 0
      /\ PlayerHasSeeds(Opponent(p), SowSeeds(p, game.grid, t))
  BY DEF PlayValidity, IsCoupValid, NextPlayer
<1>2. game \in NatAwale
  BY AwaleGridIsNat
<1>3. PICK h : Sowing(h, p, game, t)
  BY <1>1, <1>2, SowingExists
<1> DEFINE N == game.grid[t][p]
           made == h[N].awale
           passed == [made EXCEPT !.current = Opponent(@)]
<1>4. N \in Nat /\ N \in 0 .. N /\ N - N = 0
  BY <1>1, <1>2, EmptiedIsTyped
<1>5. made \in NatAwale
  BY <1>3, <1>4 DEF Sowing, Sown
<1>6. /\ made = SowSeedsUpdateGridScore(p, game, t)
      /\ made.grid = SowSeeds(p, game.grid, t)
  BY <1>1, <1>2, <1>3, SowingIsTheLoop, SowingIsTheCopyLoop
<1>7. TakesFromTheOther(p, game, t, made)
  BY <1>1, <1>2, <1>3, <1>4, SowingTakes
<1>8. ASSUME Conserves(game, 0) PROVE Conserves(made, 0)
  <2>1. Conserves(h[N].awale, N - N)
    BY <1>1, <1>2, <1>3, <1>4, <1>8, SowingConserves, SMTT(30)
  <2> QED
    BY <1>4, <2>1
<1>9. made.current = p
  BY <1>1, <1>7 DEF TakesFromTheOther
<1>10. passed = [current |-> Opponent(p), score |-> made.score, grid |-> made.grid]
  BY <1>5, <1>9 DEF NatAwale
<1>11. PlayerHasSeeds(Opponent(p), made.grid)
  BY <1>1, <1>6
<1> HIDE DEF made
<1>12. AfterPlay(game, p, t) = EndTurn(made)
  BY <1>6 DEF AfterPlay
<1>13. Status(passed) # "PASS_TURN_NO_SEEDS"
  <2>1. PlayerHasSeeds(passed.current, passed.grid)
    BY <1>10, <1>11
  <2> HIDE DEF passed
  <2> QED
    BY <2>1, TurnIsTaken
<1>14. EndTurn(made) = passed
  BY <1>13 DEF EndTurn
<1> HIDE DEF passed
<1> QED
  BY <1>1, <1>5, <1>6, <1>7, <1>8, <1>10, <1>11, <1>12, <1>14

LEMMA RefusedPlay ==
  ASSUME NEW p, NEW t, NEW game, PlayValidity(game, p, t) # "VALID"
  PROVE  AfterPlay(game, p, t) = game
BY DEF AfterPlay

(* Whatever play() is asked for, the game stays one in which every seed is *)
(* counted and the player to move has one.                                 *)
LEMMA PlayKeepsCounted ==
  ASSUME NEW p \in PlayerID, NEW t, NEW game, Counted(game)
  PROVE  Counted(AfterPlay(game, p, t))
<1>1. CASE PlayValidity(game, p, t) = "VALID"
  <2>1. PICK made \in NatAwale :
          /\ Conserves(game, 0) => Conserves(made, 0)
          /\ AfterPlay(game, p, t) =
               [current |-> Opponent(p), score |-> made.score, grid |-> made.grid]
    BY <1>1, ValidPlay DEF Counted
  <2> DEFINE after == [current |-> Opponent(p), score |-> made.score, grid |-> made.grid]
  <2>2. after \in NatAwale
    BY TheOther DEF NatAwale
  <2>3. Conserves(after, 0)
    BY <2>1 DEF Counted, Conserves
  <2>4. after \in Awale
    <3> HIDE DEF after
    <3> QED
      BY <2>2, <2>3, ConservingIsAwale
  <2> HIDE DEF after
  <2> QED
    BY <2>1, <2>3, <2>4 DEF Counted, after
<1>2. CASE PlayValidity(game, p, t) # "VALID"
  BY <1>2, RefusedPlay
<1> QED
  BY <1>1, <1>2

LEMMA PlayKeepsTheTurnHolderInSeeds ==
  ASSUME NEW p \in PlayerID, NEW t, NEW game \in Awale,
         PlayerHasSeeds(game.current, game.grid)
  PROVE  PlayerHasSeeds(AfterPlay(game, p, t).current, AfterPlay(game, p, t).grid)
<1>1. CASE PlayValidity(game, p, t) = "VALID"
  BY <1>1, ValidPlay
<1>2. CASE PlayValidity(game, p, t) # "VALID"
  BY <1>2, RefusedPlay
<1> QED
  BY <1>1, <1>2

LEMMA ResetIsFair ==
  ASSUME NEW game \in ResetAwale
  PROVE  Counted(game) /\ PlayerHasSeeds(game.current, game.grid)
<1>1. PICK p \in PlayerID :
        game = [ current |-> p,
                 score   |-> [q \in PlayerID |-> 0],
                 grid    |-> [i \in Rows |-> [q \in PlayerID |-> SEEDS]] ]
  BY DEF ResetAwale
<1>2. PlayerHasSeeds(game.current, game.grid)
  BY <1>1, RulesAssumption DEF PlayerHasSeeds, Rows
<1> QED
  BY <1>2, ResetConserves DEF Counted

(* At most one player can win: the winning score is more than half.        *)
LEMMA ScoresAreHalved ==
  ASSUME NEW game, Counted(game)
  PROVE  /\ game.score[PLAYER1] \in Nat /\ game.score[PLAYER2] \in Nat
         /\ ~(game.score[PLAYER1] >= MAX_SCORE /\ game.score[PLAYER2] >= MAX_SCORE)
<1>1. game.score[PLAYER1] \in Nat /\ game.score[PLAYER2] \in Nat
  BY AwaleGridIsNat DEF Counted, PlayerID
<1>2. PICK n \in Nat : n + (game.score[PLAYER1] + game.score[PLAYER2] + 0) = TotalSeeds
  BY DEF Counted, Conserves
<1>3. TotalSeeds < MAX_SCORE + MAX_SCORE /\ MAX_SCORE \in Nat /\ TotalSeeds \in Nat
  BY RulesAssumption, TotalIsNat, Z3 DEF TotalSeeds
<1> QED
  BY <1>1, <1>2, <1>3

-----------------------------------------------------------------------------
(* can_play() asks of each pit of player 1 that its hand reach the end of  *)
(* the board, and of player 2 nothing that the first pit does not have.    *)
(* Hands that do not reach the end sow nothing for the opponent.           *)
LEMMA ShortHandsStayHome ==
  ASSUME NEW game \in NatAwale, NEW t \in Rows,
         game.grid[t][PLAYER1] <= t,
         \A i \in Rows : game.grid[i][PLAYER2] = 0
  PROVE  ~PlayerHasSeeds(PLAYER2, SowSeeds(PLAYER1, game.grid, t))
<1> DEFINE N == game.grid[t][PLAYER1]
<1>1. PLAYER1 \in PlayerID /\ PLAYER2 \in PlayerID /\ PLAYER1 # PLAYER2
  BY DEF PlayerID, PLAYER1, PLAYER2
<1>2. PICK h : Sowing(h, PLAYER1, game, t)
  BY <1>1, SowingExists
<1>3. /\ N \in Nat /\ t \in Nat /\ N <= t /\ t \in Rows
      /\ h[0].pos = Pit(t, PLAYER1) /\ h[0].awale = Emptied(game, PLAYER1, t)
  BY <1>1, <1>2, EmptiedIsTyped DEF Sowing, Rows
<1> DEFINE S == { n \in 0 .. N :
                    /\ h[n].pos = [row |-> t - n, line |-> PLAYER1]
                    /\ \A i \in Rows : h[n].awale.grid[i][PLAYER2] = 0 }
<1>4. 0 \in S
  <2>1. \A i \in Rows : Emptied(game, PLAYER1, t).grid[i][PLAYER2] = 0
    BY <1>1, EmptiedIsEmptied
  <2> QED
    BY <1>3, <2>1 DEF Pit
<1>5. ASSUME NEW n \in 0 .. N - 1, n \in S PROVE n + 1 \in S
  <2>1. /\ n \in 0 .. N /\ n + 1 \in 0 .. N /\ n \in Nat
        /\ t - n > 0 /\ t - (n + 1) = (t - n) - 1 /\ t - (n + 1) # t
        /\ t - n \in Rows /\ t - (n + 1) \in Rows
    BY <1>3, RulesAssumption DEF Rows
  <2>2. /\ h[n].awale \in NatAwale /\ h[n].pos \in Position /\ h[n + 1].pos \in Position
        /\ h[n + 1].pos = NextSown(h[n].pos, Pit(t, PLAYER1))
        /\ h[n + 1].awale = DropAndScore(PLAYER1, h[n].awale, h[n + 1].pos)
    BY <1>2, <2>1 DEF Sowing, Sown
  <2>3. h[n].pos = [row |-> t - n, line |-> PLAYER1]
    BY <1>5
  <2>4. Ahead(h[n].pos) = [row |-> t - (n + 1), line |-> PLAYER1]
    BY <1>1, <2>1, <2>3 DEF Ahead
  <2>5. h[n + 1].pos = [row |-> t - (n + 1), line |-> PLAYER1]
    BY <2>1, <2>2, <2>4 DEF NextSown, Pit
  <2>6. ASSUME NEW i \in Rows PROVE h[n + 1].awale.grid[i][PLAYER2] = 0
    <3>1. [row |-> i, line |-> PLAYER2] # h[n + 1].pos
      BY <1>1, <2>5
    <3>2. h[n + 1].awale.grid[i][PLAYER2] = h[n].awale.grid[i][PLAYER2]
      BY <1>1, <2>2, <3>1, DropTakes
    <3> QED
      BY <1>5, <3>2
  <2> QED
    BY <2>1, <2>5, <2>6
<1>6. N \in S
  <2> HIDE DEF S, N
  <2>1. \A n \in 0 .. N : n \in S
    BY <1>3, <1>4, <1>5, CountUp
  <2> QED
    BY <1>3, <2>1
<1>7. SowSeeds(PLAYER1, game.grid, t) = h[N].awale.grid
  BY <1>1, <1>2, SowingIsTheCopyLoop
<1> QED
  BY <1>6, <1>7 DEF PlayerHasSeeds

LEMMA StalematesAreFinal ==
  ASSUME NEW game \in NatAwale, Status(game) = "GAME_OVER_STALEMATE", NEW t \in Rows
  PROVE  IsCoupValid(game, t) # "VALID"
<1>1. /\ ~PlayerHasSeeds(NextPlayer(game), game.grid)
      /\ ~CanPlay(game, game.current)
  BY DEF Status
<1>2. game.grid \in [Rows -> [PlayerID -> Nat]] /\ game.current \in PlayerID
  BY DEF NatAwale, NatGrid
<1>3. game.current = PLAYER1
  <2>1. SUFFICES ASSUME game.current = PLAYER2 PROVE FALSE
    BY <1>2 DEF PlayerID
  <2>2. 0 \in Rows /\ PLAYER2 \in PlayerID /\ PLAYER2 # PLAYER1
    BY RulesAssumption DEF Rows, PlayerID, PLAYER1, PLAYER2
  <2>3. game.grid[0][PLAYER2] \in Nat
    BY <1>2, <2>2
  <2>4. game.grid[0][PLAYER2] >= 0 - 1
    BY <2>3
  <2> QED
    BY <1>1, <2>1, <2>2, <2>4 DEF CanPlay
<1>4. NextPlayer(game) = PLAYER2
  BY <1>3 DEF NextPlayer, Opponent, PLAYER1, PLAYER2
<1>5. game.grid[t][PLAYER1] <= t
  <2>1. ~(game.grid[t][PLAYER1] >= t + 1)
    BY <1>1, <1>3 DEF CanPlay
  <2>2. game.grid[t][PLAYER1] \in Nat
    BY <1>2 DEF PlayerID
  <2>3. t \in Nat
    BY RulesAssumption DEF Rows
  <2> QED
    BY <2>1, <2>2, <2>3
<1>6. ASSUME NEW i \in Rows PROVE game.grid[i][PLAYER2] = 0
  <2>1. ~(game.grid[i][PLAYER2] > 0)
    BY <1>1, <1>4 DEF PlayerHasSeeds
  <2>2. game.grid[i][PLAYER2] \in Nat
    BY <1>2 DEF PlayerID
  <2> QED
    BY <2>1, <2>2
<1>7. ~PlayerHasSeeds(PLAYER2, SowSeeds(PLAYER1, game.grid, t))
  BY <1>5, <1>6, ShortHandsStayHome
<1> QED
  BY <1>3, <1>4, <1>7 DEF IsCoupValid

(* Counted games conserve what SeedsIn adds up.                            *)
LEMMA CountedAddsUp ==
  ASSUME NEW game, Counted(game)
  PROVE  SeedsIn(game.grid) + game.score[PLAYER1] + game.score[PLAYER2] = TotalSeeds
<1>1. PICK n \in Nat :
        /\ HoldsSeeds(game.grid, n)
        /\ n + (game.score[PLAYER1] + game.score[PLAYER2] + 0) = TotalSeeds
  BY DEF Counted, Conserves
<1>2. PICK s \in [0 .. Pits -> Nat] : CountsSeeds(s, game.grid) /\ s[Pits] = n
  BY <1>1 DEF HoldsSeeds
<1>3. SeedsIn(game.grid) = n
  BY <1>2, TotalsAreUnique, AwaleGridIsNat DEF Counted
<1>4. game.score[PLAYER1] \in Nat /\ game.score[PLAYER2] \in Nat
  BY ScoresAreHalved
<1> QED
  BY <1>1, <1>3, <1>4
=============================================================================
