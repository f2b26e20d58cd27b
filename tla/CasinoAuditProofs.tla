--------------------------- MODULE CasinoAuditProofs -------------------------
(***************************************************************************)
(* The accounts of a round balance, for every number of players and boxes, *)
(* all stakes, rates and numbers, and every order of croupier and          *)
(* listeners.                                                              *)
(*                                                                         *)
(* The first part is about sums over a finite set, which are folds: what a *)
(* fold computes is found by induction on the size of the set, and the     *)
(* induction is that of the set of sizes for which it holds, from the      *)
(* least element of its complement.                                        *)
(***************************************************************************)
EXTENDS CasinoAudit, CasinoProofs

-----------------------------------------------------------------------------
(* Sums. *)

LEMMA Induction ==
  ASSUME NEW T, 0 \in T, \A n \in Nat : n \in T => n + 1 \in T
  PROVE  Nat \subseteq T
<1> DEFINE R == OpToRel(<, Nat)
           S == Nat \ T
<1>1. IsWellFoundedOn(R, Nat)
  BY NatLessThanWellFounded
<1>2. \A i, j \in Nat : i < j => <<i, j>> \in R
  BY DEF OpToRel
<1> HIDE DEF R
<1> SUFFICES ASSUME S # {} PROVE FALSE
  OBVIOUS
<1>3. PICK n \in S : \A k \in S : ~ (<<k, n>> \in R)
  BY <1>1, WFMin
<1>4. n \in Nat /\ n # 0 /\ n - 1 \in Nat /\ n - 1 < n
  OBVIOUS
<1>5. n - 1 \notin S
  BY <1>2, <1>3, <1>4
<1>6. n - 1 \in T
  BY <1>4, <1>5
<1>7. n - 1 + 1 = n
  BY <1>4
<1> QED
  BY <1>4, <1>6, <1>7

Pick(s) == CHOOSE x \in s : TRUE

\* The recursion of MapThenFoldSet.
Unfold(f, g, s) == IF s = {} THEN 0 ELSE f[Pick(s)] + g[s \ {Pick(s)}]

LEMMA SumDef ==
  ASSUME NEW f, NEW S
  PROVE  SumFunctionOnSet(f, S) = (CHOOSE g : g = [s \in SUBSET S |-> Unfold(f, g, s)])[S]
BY DEF SumFunctionOnSet, FoldFunctionOnSet, MapThenFoldSet, Unfold, Pick

LEMMA PickIn == ASSUME NEW s, s # {} PROVE Pick(s) \in s
BY DEF Pick

LEMMA Smaller ==
  ASSUME NEW S, IsFiniteSet(S), NEW s \in SUBSET S, NEW x \in s
  PROVE  /\ IsFiniteSet(s) /\ IsFiniteSet(s \ {x}) /\ s \ {x} \in SUBSET S
         /\ Cardinality(s) \in Nat /\ Cardinality(s \ {x}) \in Nat
         /\ Cardinality(s) = Cardinality(s \ {x}) + 1
<1>1. IsFiniteSet(s) /\ IsFiniteSet(s \ {x}) /\ s \ {x} \in SUBSET S
  BY FS_Subset
<1>2. Cardinality(s \ {x}) = Cardinality(s) - 1
  BY <1>1, FS_RemoveElement
<1>3. Cardinality(s) \in Nat /\ Cardinality(s \ {x}) \in Nat
  BY <1>1, FS_CardinalityType
<1> QED
  BY <1>1, <1>2, <1>3

\* The recursion has a solution, built up by size.
LEMMA Solution ==
  ASSUME NEW f, NEW S, IsFiniteSet(S)
  PROVE  \E g : g = [s \in SUBSET S |-> Unfold(f, g, s)]
<1> DEFINE Part(n) == {s \in SUBSET S : Cardinality(s) <= n}
           Solves(n) == \E g : g = [s \in Part(n) |-> Unfold(f, g, s)]
           T == {n \in Nat : Solves(n)}
<1>1. 0 \in T
  <2>1. Part(0) = {{}}
    <3>1. \A s \in SUBSET S : IsFiniteSet(s) /\ Cardinality(s) \in Nat
      BY FS_Subset, FS_CardinalityType
    <3> QED
      BY <3>1, FS_EmptySet
  <2> DEFINE g == [s \in Part(0) |-> 0]
  <2>2. g = [s \in Part(0) |-> Unfold(f, g, s)]
    BY <2>1 DEF Unfold
  <2>3. Solves(0)
    <3> HIDE DEF g
    <3> QED BY <2>2
  <2> QED BY <2>3
<1>2. ASSUME NEW n \in Nat, n \in T PROVE n + 1 \in T
  <2>1. PICK g : g = [s \in Part(n) |-> Unfold(f, g, s)]
    BY <1>2
  <2> DEFINE h == [s \in Part(n + 1) |-> Unfold(f, g, s)]
  <2>2. \A s \in SUBSET S : Cardinality(s) \in Nat
    BY FS_Subset, FS_CardinalityType
  <2>3. \A s \in Part(n) : s \in Part(n + 1) /\ h[s] = g[s]
    BY <2>1, <2>2
  <2>4. \A s \in Part(n + 1) : s # {} => s \ {Pick(s)} \in Part(n)
    BY <2>2, PickIn, Smaller
  <2>5. \A s \in Part(n + 1) : Unfold(f, g, s) = Unfold(f, h, s)
    BY <2>3, <2>4 DEF Unfold
  <2>6. h = [s \in Part(n + 1) |-> Unfold(f, h, s)]
    BY <2>5
  <2>7. Solves(n + 1)
    <3> HIDE DEF h
    <3> QED BY <2>6
  <2> QED BY <2>7
<1>3. Cardinality(S) \in Nat
  BY FS_CardinalityType
<1>4. Solves(Cardinality(S))
  <2> HIDE DEF Solves
  <2> QED
  BY <1>1, <1>2, <1>3, Induction
<1>5. Part(Cardinality(S)) = SUBSET S
  BY FS_Subset
<1> QED
  BY <1>4, <1>5

LEMMA Solved ==
  ASSUME NEW f, NEW S, IsFiniteSet(S)
  PROVE  \E g : g = [s \in SUBSET S |-> Unfold(f, g, s)] /\ SumFunctionOnSet(f, S) = g[S]
<1> DEFINE D(g) == g = [s \in SUBSET S |-> Unfold(f, g, s)]
<1>1. \E g : D(g)
  BY Solution
<1>2. D(CHOOSE g : D(g))
  <2> HIDE DEF D
  <2> QED
    BY <1>1
<1> QED
  BY <1>2, SumDef

\* Solutions over different sets agree.
LEMMA Agreement ==
  ASSUME NEW f, NEW S, IsFiniteSet(S), NEW U \in SUBSET S, NEW g, NEW h,
         \A s \in SUBSET S : g[s] = Unfold(f, g, s),
         \A s \in SUBSET U : h[s] = Unfold(f, h, s)
  PROVE  g[U] = h[U]
<1> DEFINE T == {n \in Nat : \A s \in SUBSET U : Cardinality(s) = n => g[s] = h[s]}
<1>1. \A s \in SUBSET U : s \in SUBSET S /\ IsFiniteSet(s) /\ Cardinality(s) \in Nat
  BY FS_Subset, FS_CardinalityType
<1>2. \A s \in SUBSET U : g[s] = Unfold(f, g, s) /\ h[s] = Unfold(f, h, s)
  BY <1>1
<1>3. 0 \in T
  <2>1. \A s \in SUBSET U : Cardinality(s) = 0 => s = {}
    BY <1>1, FS_EmptySet
  <2> QED
    BY <1>2, <2>1 DEF Unfold
<1>4. ASSUME NEW n \in Nat, n \in T PROVE n + 1 \in T
  <2> SUFFICES ASSUME NEW s \in SUBSET U, Cardinality(s) = n + 1 PROVE g[s] = h[s]
    OBVIOUS
  <2>1. s # {}
    BY FS_EmptySet
  <2>2. Pick(s) \in s
    BY <2>1, PickIn
  <2> DEFINE r == s \ {Pick(s)}
  <2>3. r \in SUBSET U /\ Cardinality(r) = n
    BY <1>1, <2>2, Smaller
  <2>4. g[r] = h[r]
    BY <1>4, <2>3
  <2> QED
    BY <1>2, <2>1, <2>4 DEF Unfold
<1>5. Nat \subseteq T
  <2> HIDE DEF T
  <2> QED
    BY <1>3, <1>4, Induction
<1> QED
  BY <1>1, <1>5

LEMMA SumEmpty == ASSUME NEW f PROVE SumFunctionOnSet(f, {}) = 0
<1>1. PICK g : g = [s \in SUBSET {} |-> Unfold(f, g, s)] /\ SumFunctionOnSet(f, {}) = g[{}]
  BY Solved, FS_EmptySet
<1> QED
  BY <1>1 DEF Unfold

LEMMA SumPick ==
  ASSUME NEW f, NEW S, IsFiniteSet(S), S # {}
  PROVE  SumFunctionOnSet(f, S) = f[Pick(S)] + SumFunctionOnSet(f, S \ {Pick(S)})
<1> DEFINE U == S \ {Pick(S)}
<1>1. U \in SUBSET S /\ IsFiniteSet(U)
  BY FS_Subset
<1>2. PICK g : g = [s \in SUBSET S |-> Unfold(f, g, s)] /\ SumFunctionOnSet(f, S) = g[S]
  BY Solved
<1>3. PICK h : h = [s \in SUBSET U |-> Unfold(f, h, s)] /\ SumFunctionOnSet(f, U) = h[U]
  BY <1>1, Solved
<1>4. /\ \A s \in SUBSET S : g[s] = Unfold(f, g, s)
      /\ \A s \in SUBSET U : h[s] = Unfold(f, h, s)
  BY <1>2, <1>3
<1>5. g[U] = h[U]
  <2> HIDE DEF U
  <2> QED
    BY <1>1, <1>4, Agreement
<1> QED
  BY <1>2, <1>3, <1>4, <1>5 DEF Unfold

IntOn(f, S) == \A x \in S : f[x] \in Int

LEMMA SumInt ==
  ASSUME NEW f, NEW S, IsFiniteSet(S), IntOn(f, S)
  PROVE  SumFunctionOnSet(f, S) \in Int
<1> DEFINE T == {n \in Nat : \A s \in SUBSET S : Cardinality(s) = n => SumFunctionOnSet(f, s) \in Int}
<1>1. \A s \in SUBSET S : IsFiniteSet(s) /\ Cardinality(s) \in Nat
  BY FS_Subset, FS_CardinalityType
<1>2. 0 \in T
  BY <1>1, FS_EmptySet, SumEmpty
<1>3. ASSUME NEW n \in Nat, n \in T PROVE n + 1 \in T
  <2> SUFFICES ASSUME NEW s \in SUBSET S, Cardinality(s) = n + 1
               PROVE  SumFunctionOnSet(f, s) \in Int
    OBVIOUS
  <2>1. s # {} /\ Pick(s) \in s
    BY FS_EmptySet, PickIn
  <2> DEFINE r == s \ {Pick(s)}
  <2>2. r \in SUBSET S /\ Cardinality(r) = n
    BY <1>1, <2>1, Smaller
  <2>3. SumFunctionOnSet(f, r) \in Int
    BY <1>3, <2>2
  <2>4. f[Pick(s)] \in Int
    BY <2>1 DEF IntOn
  <2> QED
    BY <1>1, <2>1, <2>3, <2>4, SumPick
<1>4. Nat \subseteq T
  <2> HIDE DEF T
  <2> QED
    BY <1>2, <1>3, Induction
<1> QED
  BY <1>1, <1>4

LEMMA SumRemove ==
  ASSUME NEW f, NEW S, IsFiniteSet(S), IntOn(f, S), NEW x \in S
  PROVE  SumFunctionOnSet(f, S) = f[x] + SumFunctionOnSet(f, S \ {x})
<1> DEFINE Sum(s) == SumFunctionOnSet(f, s)
           T == {n \in Nat : \A s \in SUBSET S : Cardinality(s) = n =>
                   \A y \in s : Sum(s) = f[y] + Sum(s \ {y})}
<1>1. \A s \in SUBSET S : IsFiniteSet(s) /\ Cardinality(s) \in Nat /\ IntOn(f, s)
  BY FS_Subset, FS_CardinalityType DEF IntOn
<1>2. \A s \in SUBSET S : Sum(s) \in Int
  BY <1>1, SumInt
<1>3. 0 \in T
  <2>1. \A s \in SUBSET S : Cardinality(s) = 0 => s = {}
    BY <1>1, FS_EmptySet
  <2> QED
    BY <2>1
<1>4. ASSUME NEW n \in Nat, n \in T PROVE n + 1 \in T
  <2> SUFFICES ASSUME NEW s \in SUBSET S, Cardinality(s) = n + 1, NEW y \in s
               PROVE  Sum(s) = f[y] + Sum(s \ {y})
    OBVIOUS
  <2> DEFINE z == Pick(s)
  <2>1. z \in s /\ Sum(s) = f[z] + Sum(s \ {z})
    BY <1>1, PickIn, SumPick
  <2> HIDE DEF z
  <2>2. CASE y = z
    BY <2>1, <2>2
  <2>3. CASE y # z
    <3> DEFINE r == s \ {y}
               t == s \ {z}
    <3>1. /\ r \in SUBSET S /\ Cardinality(r) = n /\ z \in r
          /\ t \in SUBSET S /\ Cardinality(t) = n /\ y \in t
      BY <1>1, <2>1, <2>3, Smaller
    <3>2. Sum(r) = f[z] + Sum(r \ {z}) /\ Sum(t) = f[y] + Sum(t \ {y})
      BY <1>4, <3>1
    <3>3. r \ {z} = t \ {y} /\ r \ {z} \in SUBSET S
      OBVIOUS
    <3>4. f[y] \in Int /\ f[z] \in Int
      BY <2>1 DEF IntOn
    <3> HIDE DEF Sum
    <3>5. Sum(r \ {z}) \in Int
      BY <1>2, <3>3
    <3>6. /\ Sum(s) = f[z] + (f[y] + Sum(r \ {z}))
          /\ Sum(r) = f[z] + Sum(r \ {z})
      BY <2>1, <3>2, <3>3
    <3> QED
      BY <3>4, <3>5, <3>6
  <2> QED
    BY <2>2, <2>3
<1>5. Nat \subseteq T
  <2> HIDE DEF T
  <2> QED
    BY <1>3, <1>4, Induction
<1> QED
  BY <1>1, <1>5

LEMMA SumSame ==
  ASSUME NEW f, NEW g, NEW S, IsFiniteSet(S), \A x \in S : f[x] = g[x]
  PROVE  SumFunctionOnSet(f, S) = SumFunctionOnSet(g, S)
<1> DEFINE T == {n \in Nat : \A s \in SUBSET S : Cardinality(s) = n =>
                   SumFunctionOnSet(f, s) = SumFunctionOnSet(g, s)}
<1>1. \A s \in SUBSET S : IsFiniteSet(s) /\ Cardinality(s) \in Nat
  BY FS_Subset, FS_CardinalityType
<1>2. 0 \in T
  BY <1>1, FS_EmptySet, SumEmpty
<1>3. ASSUME NEW n \in Nat, n \in T PROVE n + 1 \in T
  <2> SUFFICES ASSUME NEW s \in SUBSET S, Cardinality(s) = n + 1
               PROVE  SumFunctionOnSet(f, s) = SumFunctionOnSet(g, s)
    OBVIOUS
  <2>1. s # {} /\ Pick(s) \in s
    BY FS_EmptySet, PickIn
  <2> DEFINE r == s \ {Pick(s)}
  <2>2. r \in SUBSET S /\ Cardinality(r) = n
    BY <1>1, <2>1, Smaller
  <2>3. SumFunctionOnSet(f, r) = SumFunctionOnSet(g, r)
    BY <1>3, <2>2
  <2>4. f[Pick(s)] = g[Pick(s)]
    BY <2>1
  <2> QED
    BY <1>1, <2>1, <2>3, <2>4, SumPick
<1>4. Nat \subseteq T
  <2> HIDE DEF T
  <2> QED
    BY <1>2, <1>3, Induction
<1> QED
  BY <1>1, <1>4

LEMMA SumChange ==
  ASSUME NEW f, NEW g, NEW S, IsFiniteSet(S), IntOn(f, S), IntOn(g, S), NEW x \in S,
         \A y \in S \ {x} : f[y] = g[y]
  PROVE  SumFunctionOnSet(g, S) = SumFunctionOnSet(f, S) - f[x] + g[x]
<1> DEFINE r == S \ {x}
<1>1. IsFiniteSet(r) /\ IntOn(f, r) /\ f[x] \in Int /\ g[x] \in Int
  BY FS_Subset DEF IntOn
<1>2. SumFunctionOnSet(f, r) = SumFunctionOnSet(g, r) /\ SumFunctionOnSet(f, r) \in Int
  BY <1>1, SumSame, SumInt
<1>3. /\ SumFunctionOnSet(f, S) = f[x] + SumFunctionOnSet(f, r)
      /\ SumFunctionOnSet(g, S) = g[x] + SumFunctionOnSet(g, r)
  BY SumRemove
<1> QED
  BY <1>1, <1>2, <1>3

LEMMA SumZero ==
  ASSUME NEW f, NEW S, IsFiniteSet(S), \A x \in S : f[x] = 0
  PROVE  SumFunctionOnSet(f, S) = 0
<1> DEFINE T == {n \in Nat : \A s \in SUBSET S : Cardinality(s) = n => SumFunctionOnSet(f, s) = 0}
<1>1. \A s \in SUBSET S : IsFiniteSet(s) /\ Cardinality(s) \in Nat
  BY FS_Subset, FS_CardinalityType
<1>2. 0 \in T
  BY <1>1, FS_EmptySet, SumEmpty
<1>3. ASSUME NEW n \in Nat, n \in T PROVE n + 1 \in T
  <2> SUFFICES ASSUME NEW s \in SUBSET S, Cardinality(s) = n + 1
               PROVE  SumFunctionOnSet(f, s) = 0
    OBVIOUS
  <2>1. s # {} /\ Pick(s) \in s
    BY FS_EmptySet, PickIn
  <2> DEFINE r == s \ {Pick(s)}
  <2>2. r \in SUBSET S /\ Cardinality(r) = n
    BY <1>1, <2>1, Smaller
  <2> QED
    BY <1>1, <1>3, <2>1, <2>2, SumPick
<1>4. Nat \subseteq T
  <2> HIDE DEF T
  <2> QED
    BY <1>2, <1>3, Induction
<1> QED
  BY <1>1, <1>4
-----------------------------------------------------------------------------
(***************************************************************************)
(* Where the stakes of the sheet are.  At each moment of the settlement a  *)
(* stake is on the board still, or in the collection, or done with; the    *)
(* accounts are right up to what is outstanding.                           *)
(***************************************************************************)
Settling == {"losers", "collect", "winners", "pay", "payWrite", "tellPaid", "clean"}

Wins(b) == sheet.number \in Covers[b]

\* The boxes the croupier has not grabbed yet.
OnBoard(b) ==
  \/ cpc = "losers"  /\ (Wins(b) \/ cbox <= b)
  \/ cpc = "collect" /\ Wins(b)
  \/ cpc = "winners" /\ Wins(b) /\ cbox <= b

\* What the collection holds of player p's stake on box b.
Entry(b, p) ==
  [box |-> b, player |-> p,
   amount |-> Stake(sheet.board, b, p) * (IF Wins(b) THEN PayRate[b] ELSE 1)]

InHand(b, p) == Entry(b, p) \in recollected

Current(b, p) == First(recollected, Entry(b, p))

\* Stakes neither taken nor paid; of those, the ones whose prize has not been
\* charged to the bank, and the ones whose prize has not reached the player.
Outstanding(b, p) == OnBoard(b) \/ InHand(b, p)
Uncharged(b, p)   == Outstanding(b, p) /\ ~ (cpc \in {"payWrite", "tellPaid"} /\ Current(b, p))
Uncredited(b, p)  == Outstanding(b, p) /\ ~ (cpc = "tellPaid" /\ Current(b, p))

ToTake(p)   == [b \in Box |-> IF Outstanding(b, p) THEN Losses(p)[b] ELSE 0]
ToCharge(p) == [b \in Box |-> IF Uncharged(b, p) THEN Prizes(p)[b] ELSE 0]
ToCredit(p) == [b \in Box |-> IF Uncredited(b, p) THEN Prizes(p)[b] ELSE 0]

Takes   == [p \in Player |-> SumFunction(ToTake(p))]
Charges == [p \in Player |-> SumFunction(ToCharge(p))]

SheetType ==
  /\ sheet.board \in Boards
  /\ sheet.worth \in [Player -> Int \cup {Null}]
  /\ sheet.bank \in Int

WhereItIs ==
  /\ cpc \in Settling
  /\ cpc # "clean" => winner = sheet.number
  /\ cpc = "collect" => cbox = 0
  /\ \A b \in Box, p \in Player :
       bets[b][p] = IF OnBoard(b) THEN sheet.board[b][p] ELSE Null
  /\ \A s \in recollected : s = Entry(s.box, s.player)

\* Between the croupier's reading of the funds and its writing nobody else
\* changes them.
PurseRead ==
  cpc = "payWrite" =>
    \A s \in recollected : First(recollected, s) =>
      lpc[s.player] # "billWrite" /\ purse = players[s.player]

PlayersSettled ==
  \A p \in Player : sheet.worth[p] # Null =>
    /\ players[p] # Null
    /\ Worth(p) + SumFunction(ToCredit(p)) = sheet.worth[p] + Won(p)

\* A payment that fails on a missing player has charged the bank already.
BankSettled ==
  ~ (crashed /\ cpc = "pay") =>
    budget + SumFunction(Takes) - SumFunction(Charges)
      = sheet.bank + SumFunction([p \in Player |-> LostBy(p)])
                   - SumFunction([p \in Player |-> Won(p)])

AuditInv ==
  sheet # Null => SheetType /\ WhereItIs /\ PurseRead /\ PlayersSettled /\ BankSettled

\* Who has funds is being served or is leaving.
SeatInv == \A p \in Player : players[p] # Null => lpc[p] \in ServePC \cup {"depart", "delete"}

-----------------------------------------------------------------------------
(* Sums of functions. *)

LEMMA SumOfInt ==
  ASSUME NEW S, IsFiniteSet(S), NEW f \in [S -> Int]
  PROVE  SumFunction(f) \in Int
BY SumInt DEF SumFunction, IntOn

LEMMA SumOfChange ==
  ASSUME NEW S, IsFiniteSet(S), NEW f \in [S -> Int], NEW g \in [S -> Int], NEW x \in S,
         \A y \in S \ {x} : f[y] = g[y]
  PROVE  SumFunction(g) = SumFunction(f) - f[x] + g[x]
BY SumChange DEF SumFunction, IntOn

LEMMA SumOfZero ==
  ASSUME NEW S, IsFiniteSet(S), NEW f \in [S -> Int], \A x \in S : f[x] = 0
  PROVE  SumFunction(f) = 0
BY SumZero DEF SumFunction

LEMMA Finite == IsFiniteSet(Box) /\ IsFiniteSet(Player)
BY BoardAssumption, FS_Interval DEF Box

-----------------------------------------------------------------------------
(* Stakes, prizes and entries. *)

LEMMA Values ==
  ASSUME SheetType, NEW p \in Player
  PROVE  /\ Prizes(p) \in [Box -> Int] /\ Losses(p) \in [Box -> Int]
         /\ ToTake(p) \in [Box -> Int]
         /\ ToCharge(p) \in [Box -> Int]
         /\ ToCredit(p) \in [Box -> Int]
<1>1. \A b \in Box : Stake(sheet.board, b, p) \in Nat /\ PayRate[b] \in Nat
  BY StakeNat, CasinoAssumption DEF SheetType
<1>2. Prizes(p) \in [Box -> Int] /\ Losses(p) \in [Box -> Int]
  BY <1>1 DEF Prizes, Losses
<1> QED
  BY <1>2 DEF ToTake, ToCharge, ToCredit

LEMMA SumValues ==
  ASSUME SheetType
  PROVE  /\ Takes \in [Player -> Int] /\ Charges \in [Player -> Int]
         /\ \A p \in Player : /\ SumFunction(ToCredit(p)) \in Int
                              /\ SumFunction(ToTake(p)) \in Int
                              /\ SumFunction(ToCharge(p)) \in Int
                              /\ Won(p) \in Int /\ LostBy(p) \in Int
<1>1. \A p \in Player : /\ SumFunction(ToCredit(p)) \in Int
                        /\ SumFunction(ToTake(p)) \in Int
                        /\ SumFunction(ToCharge(p)) \in Int
                        /\ Won(p) \in Int /\ LostBy(p) \in Int
  BY Values, Finite, SumOfInt DEF Won, LostBy
<1> QED
  BY <1>1 DEF Takes, Charges

(***************************************************************************)
(* Without a bet there is nothing to win or to lose; a box wins or loses.  *)
(***************************************************************************)
LEMMA NoBet ==
  ASSUME NEW b \in Box, NEW p \in Player, ~ HasBet(sheet.board, b, p)
  PROVE  Prizes(p)[b] = 0 /\ Losses(p)[b] = 0
<1>1. Stake(sheet.board, b, p) = 0
  BY DEF Stake
<1>2. PayRate[b] \in Nat
  BY CasinoAssumption
<1> QED
  BY <1>1, <1>2 DEF Prizes, Losses

LEMMA ByOutcome ==
  ASSUME SheetType, NEW b \in Box, NEW p \in Player
  PROVE  /\ Wins(b)   => Losses(p)[b] = 0 /\ Prizes(p)[b] = Entry(b, p).amount
         /\ ~ Wins(b) => Prizes(p)[b] = 0 /\ Losses(p)[b] = Entry(b, p).amount
         /\ Entry(b, p).amount \in Int
<1>1. Stake(sheet.board, b, p) \in Nat /\ PayRate[b] \in Nat
  BY StakeNat, CasinoAssumption DEF SheetType
<1> QED
  BY <1>1 DEF Wins, Prizes, Losses, Entry

LEMMA EntryFields ==
  ASSUME NEW b, NEW p
  PROVE  Entry(b, p).box = b /\ Entry(b, p).player = p
BY DEF Entry

LEMMA OneFirst ==
  ASSUME recollected \subseteq Slip, WhereItIs,
         NEW s, First(recollected, s), NEW t, First(recollected, t)
  PROVE  s = t
<1>1. s = Entry(s.box, s.player) /\ t = Entry(t.box, t.player)
  BY DEF First, WhereItIs
<1>2. s \in Slip /\ t \in Slip /\ Precedes(s, t) /\ Precedes(t, s)
  BY DEF First
<1>3. s.player \in Player /\ t.player \in Player /\ s.box \in Box /\ t.box \in Box
  <2>1. \A r \in Slip : r.player \in Player /\ r.box \in Box
    BY DEF Slip
  <2> QED
    BY <1>2, <2>1
<1>4. s.player \in Nat /\ t.player \in Nat /\ s.box \in Nat /\ t.box \in Nat
  <2>1. Box \subseteq Nat
    BY BoardAssumption DEF Box
  <2>2. Player \subseteq Nat
    BY BoardAssumption
  <2> QED
    BY <1>3, <2>1, <2>2
<1>5. s.player = t.player /\ s.box = t.box
  BY <1>2, <1>4 DEF Precedes
<1> QED
  BY <1>1, <1>5

(***************************************************************************)
(* The sums depend on what is outstanding, where it counts.                *)
(***************************************************************************)
LEMMA TakesKept ==
  ASSUME UNCHANGED sheet,
         \A b \in Box, p \in Player :
           Losses(p)[b] = 0 \/ (Outstanding(b, p)' <=> Outstanding(b, p))
  PROVE  UNCHANGED Takes
<1>1. \A p \in Player : Losses(p)' = Losses(p)
  BY DEF Losses
<1>2. \A p \in Player : ToTake(p)' = ToTake(p)
  BY <1>1 DEF ToTake
<1> QED
  BY <1>2 DEF Takes

LEMMA ChargesKept ==
  ASSUME UNCHANGED sheet,
         \A b \in Box, p \in Player :
           Prizes(p)[b] = 0 \/ (Uncharged(b, p)' <=> Uncharged(b, p))
  PROVE  UNCHANGED Charges
<1>1. \A p \in Player : Prizes(p)' = Prizes(p)
  BY DEF Prizes
<1>2. \A p \in Player : ToCharge(p)' = ToCharge(p)
  BY <1>1 DEF ToCharge
<1> QED
  BY <1>2 DEF Charges

LEMMA CreditKept ==
  ASSUME UNCHANGED sheet, NEW p \in Player,
         \A b \in Box : Prizes(p)[b] = 0 \/ (Uncredited(b, p)' <=> Uncredited(b, p))
  PROVE  ToCredit(p)' = ToCredit(p)
<1>1. Prizes(p)' = Prizes(p)
  BY DEF Prizes
<1> QED
  BY <1>1 DEF ToCredit

-----------------------------------------------------------------------------
(* Seats. *)

LEMMA SeatStep == CoreInv /\ SeatInv /\ [Next]_vars => SeatInv'
<1> SUFFICES ASSUME CoreInv, SeatInv, [Next]_vars PROVE SeatInv'
  OBVIOUS
<1>0. TypeOK
  BY DEF CoreInv
<1>1. CASE CrupierStep
  <2>1. \A p \in Player : players[p] = Null => players'[p] = Null
    <3>1. CASE PayWrite
      <4>1. PICK s \in recollected :
              players' = [players EXCEPT ![s.player] =
                            IF @ = Null THEN Null ELSE purse + s.amount]
        BY <3>1 DEF PayWrite
      <4> QED
        BY <1>0, <4>1 DEF TypeOK
    <3>2. CASE ~ PayWrite
      <4>1. UNCHANGED players
        BY <1>1, <3>2 DEF CrupierStep, WaitConnections, StartBets, StopBets, Spin,
             GrabLosers, Collect, GrabWinners, Pay, TellPaid, CleanBets, NotifyBroke, Expel,
             shared
      <4> QED
        BY <4>1
    <3> QED
      BY <3>1, <3>2
  <2> QED
    BY <1>0, <1>1, <2>1, CrupierFrame DEF SeatInv
<1>2. ASSUME NEW p \in Player, ListenerStep(p) PROVE SeatInv'
  <2>1. players'[p] # Null => lpc'[p] \in ServePC \cup {"depart", "delete"}
    <3> USE DEF SeatInv, TypeOK, Goto, shared
    <3>1. CASE RecvMessage(p)
      <4>1. UNCHANGED players /\ wire[p] \in Message /\ lpc[p] \in {"enrolRecv", "serveRecv"}
        BY <1>0, <1>2, <3>1 DEF RecvMessage
      <4>2. lpc[p] = "serveRecv" => lpc'[p] \in {"check", "serve"}
        BY <1>0, <3>1, <4>1 DEF RecvMessage, Dispatch
      <4> QED
        BY <4>1, <4>2 DEF ServePC
    <3>2. CASE RecvEnd(p)
      <4>1. UNCHANGED players /\ lpc[p] \in {"enrolRecv", "serveRecv"}
        BY <1>0, <1>2, <3>2 DEF RecvEnd
      <4>2. lpc[p] = "serveRecv" => lpc'[p] \in {"check", "serve"}
        BY <1>0, <3>2 DEF RecvEnd, Dispatch
      <4> QED
        BY <4>1, <4>2 DEF ServePC
    <3>3. CASE EnrolLoop(p) \/ Admit(p) \/ Refuse(p) \/ Close(p)
      BY <1>0, <3>3 DEF EnrolLoop, Admit, Refuse, Close, ServePC
    <3>4. CASE Insert(p) \/ Delete(p)
      BY <1>0, <3>4 DEF Insert, Delete, ServePC
    <3>5. CASE ConfirmJoin(p) \/ SendPlayerId(p) \/ NotifyNewPlayer(p) \/ CopyList(p)
               \/ CallRoll(p) \/ ServeLoop(p) \/ Depart(p)
      BY <1>0, <3>5 DEF ConfirmJoin, SendPlayerId, NotifyNewPlayer, CopyList, CallRoll,
                        ServeLoop, Depart, ServePC
    <3>6. CASE Check(p) \/ Commit(p) \/ Deny(p) \/ Confirm(p) \/ Bill(p) \/ BillWrite(p)
               \/ NotifyNewBet(p) \/ NotifyFunds(p)
      BY <1>0, <3>6 DEF Check, Commit, Deny, Confirm, Bill, BillWrite, NotifyNewBet,
                        NotifyFunds, ServePC
    <3> QED
      BY <1>2, <3>1, <3>2, <3>3, <3>4, <3>5, <3>6 DEF ListenerStep
  <2> QED
    BY <1>0, <1>2, <2>1, ListenerFrame DEF SeatInv
<1>3. ASSUME NEW p \in Player, ClientStep(p) PROVE SeatInv'
  <2>1. UNCHANGED players /\ (Connect(p) \/ UNCHANGED lpc)
    BY <1>3 DEF ClientStep, Connect, Join, Ask, Decline, Bet, Esc, Hangup, HearStop, Reset,
                ClientSends, Dialog, ServerIdle, shared
  <2>2. CASE Connect(p)
    BY <1>0, <2>1, <2>2 DEF Connect, Goto, SeatInv, TypeOK, ServePC
  <2> QED
    BY <2>1, <2>2 DEF SeatInv
<1>4. CASE UNCHANGED vars
  BY <1>4 DEF vars, shared, SeatInv
<1> QED
  BY <1>1, <1>2, <1>3, <1>4 DEF Next

(***************************************************************************)
(* What a listener does to the funds of its player while the sheet stays   *)
(* valid: it registers him, or it bills a stake that was spent already.    *)
(***************************************************************************)
LEMMA ListenerWorth ==
  ASSUME CoreInv, SeatInv, ~ Voided, NEW p \in Player, ListenerStep(p),
         NEW q \in Player, players[q] # Null
  PROVE  /\ players'[q] # Null
         /\ Worth(q)' = Worth(q)
         /\ players'[q] = players[q] \/ lpc[q] = "billWrite"
<1>0. TypeOK
  BY DEF CoreInv
<1>1. CASE q # p
  <2>1. held'[q] = held[q]
    BY <1>0, <1>1 DEF TypeOK, ListenerStep, EnrolLoop, RecvMessage, RecvEnd, Admit, Insert,
         Refuse, ConfirmJoin, SendPlayerId, NotifyNewPlayer, CopyList, CallRoll, ServeLoop,
         Check, Commit, Deny, Confirm, Bill, BillWrite, NotifyNewBet, NotifyFunds, Depart,
         Delete, Close
  <2>2. lpc'[q] = lpc[q] /\ msg'[q] = msg[q] /\ players'[q] = players[q]
    BY <1>0, <1>1, ListenerFrame
  <2> QED
    BY <2>1, <2>2 DEF Worth
<1>2. CASE q = p
  <2>0. players[p] # Null /\ players[p] \in Int /\ lpc[p] \in ServePC \cup {"depart", "delete"}
    BY <1>0, <1>2 DEF TypeOK, SeatInv
  <2>1. ~ (lpc[p] = "commit" /\ lpc'[p] # "commit")
        /\ ~ (lpc[p] = "delete" /\ lpc'[p] # "delete")
    BY DEF Voided
  <2>2. lpc[p] \in (ServePC \ {"commit"}) \cup {"depart"}
    <3>1. lpc[p] = "commit" => Commit(p)
      BY DEF ListenerStep, EnrolLoop, RecvMessage, RecvEnd, Admit, Insert,
         Refuse, ConfirmJoin, SendPlayerId, NotifyNewPlayer, CopyList, CallRoll, ServeLoop,
         Check, Deny, Confirm, Bill, BillWrite, NotifyNewBet, NotifyFunds, Depart,
         Delete, Close
    <3>2. lpc[p] = "delete" => Delete(p)
      BY DEF ListenerStep, EnrolLoop, RecvMessage, RecvEnd, Admit, Insert,
         Refuse, ConfirmJoin, SendPlayerId, NotifyNewPlayer, CopyList, CallRoll, ServeLoop,
         Check, Commit, Deny, Confirm, Bill, BillWrite, NotifyNewBet, NotifyFunds, Depart,
         Close
    <3>3. Commit(p) => lpc'[p] = "confirm"
      BY <1>0 DEF Commit, Goto, TypeOK
    <3>4. Delete(p) => lpc'[p] = "close"
      BY <1>0 DEF Delete, Goto, TypeOK
    <3> QED
      BY <2>0, <2>1, <3>1, <3>2, <3>3, <3>4
  <2>3. CASE lpc[p] \notin {"confirm", "bill", "billWrite"}
    <3>1. UNCHANGED players /\ lpc'[p] \notin {"confirm", "bill", "billWrite"}
      <4>1. CASE lpc[p] = "serveRecv"
        <5>1. lpc'[p] \in {"admit", "enrol", "check", "serve"}
          BY <1>0, <2>2, <4>1, DispatchType DEF TypeOK, ListenerStep, EnrolLoop, RecvMessage,
             RecvEnd, Admit, Insert, Refuse, ConfirmJoin, SendPlayerId, NotifyNewPlayer,
             CopyList, CallRoll, ServeLoop, Check, Commit, Deny, Confirm, Bill, BillWrite,
             NotifyNewBet, NotifyFunds, Depart, Delete, Close
        <5>2. UNCHANGED players
          BY <4>1 DEF ListenerStep, EnrolLoop, RecvMessage,
             RecvEnd, Admit, Insert, Refuse, ConfirmJoin, SendPlayerId, NotifyNewPlayer,
             CopyList, CallRoll, ServeLoop, Check, Commit, Deny, Confirm, Bill, BillWrite,
             NotifyNewBet, NotifyFunds, Depart, Delete, Close, shared
        <5> QED
          BY <5>1, <5>2
      <4>2. CASE lpc[p] # "serveRecv"
        <5>1. ConfirmJoin(p) \/ SendPlayerId(p) \/ NotifyNewPlayer(p) \/ CopyList(p)
              \/ CallRoll(p) \/ ServeLoop(p) \/ Check(p) \/ Deny(p) \/ NotifyNewBet(p)
              \/ NotifyFunds(p) \/ Depart(p)
          BY <2>2, <2>3, <4>2 DEF ListenerStep, ServePC, EnrolLoop, RecvMessage,
             RecvEnd, Admit, Insert, Refuse, Commit, Confirm, Bill, BillWrite, Delete, Close
        <5> QED
          BY <1>0, <2>3, <5>1 DEF ConfirmJoin, SendPlayerId, NotifyNewPlayer, CopyList, CallRoll,
             ServeLoop, Check, Deny, NotifyNewBet, NotifyFunds, Depart, Goto, TypeOK, shared
      <4> QED
        BY <4>1, <4>2
    <3>2. Worth(p) = players[p] /\ Worth(p)' = players'[p]
      BY <2>0, <2>3, <3>1 DEF Worth
    <3> QED
      BY <1>2, <2>0, <3>1, <3>2
  <2>4. CASE lpc[p] = "confirm"
    <3>1. Confirm(p)
      BY <2>4 DEF ListenerStep, EnrolLoop, RecvMessage, RecvEnd, Admit, Insert,
         Refuse, ConfirmJoin, SendPlayerId, NotifyNewPlayer, CopyList, CallRoll, ServeLoop,
         Check, Commit, Deny, Bill, BillWrite, NotifyNewBet, NotifyFunds, Depart,
         Delete, Close
    <3>2. lpc'[p] = "bill" /\ UNCHANGED <<players, msg>>
      BY <1>0, <3>1 DEF Confirm, Goto, TypeOK, shared
    <3>3. Worth(p) = players[p] - msg[p].amount /\ Worth(p)' = players'[p] - msg'[p].amount
      BY <2>0, <2>4, <3>2 DEF Worth
    <3> QED
      BY <1>2, <2>0, <3>2, <3>3
  <2>5. CASE lpc[p] = "bill"
    <3>1. Bill(p)
      BY <2>5 DEF ListenerStep, EnrolLoop, RecvMessage, RecvEnd, Admit, Insert,
         Refuse, ConfirmJoin, SendPlayerId, NotifyNewPlayer, CopyList, CallRoll, ServeLoop,
         Check, Commit, Deny, Confirm, BillWrite, NotifyNewBet, NotifyFunds, Depart,
         Delete, Close
    <3>2. lpc'[p] = "billWrite" /\ UNCHANGED <<players, msg>> /\ held'[p] = players[p]
      BY <1>0, <3>1 DEF Bill, Goto, TypeOK, shared
    <3>3. Worth(p) = players[p] - msg[p].amount /\ Worth(p)' = held'[p] - msg'[p].amount
      BY <2>0, <2>5, <3>2 DEF Worth
    <3> QED
      BY <1>2, <2>0, <3>2, <3>3
  <2>6. CASE lpc[p] = "billWrite"
    <3>1. BillWrite(p)
      BY <2>6 DEF ListenerStep, EnrolLoop, RecvMessage, RecvEnd, Admit, Insert,
         Refuse, ConfirmJoin, SendPlayerId, NotifyNewPlayer, CopyList, CallRoll, ServeLoop,
         Check, Commit, Deny, Confirm, Bill, NotifyNewBet, NotifyFunds, Depart,
         Delete, Close
    <3>2. lpc'[p] = "tellBet" /\ players'[p] = held[p] - msg[p].amount
      BY <1>0, <3>1 DEF BillWrite, Goto, TypeOK
    <3>3. players'[p] # Null
      <4>1. held[p] \in Int /\ msg[p].amount \in Nat
        BY <1>0, <2>6, BetFields DEF TypeOK, CoreInv, BetInHand, BetPC
      <4> QED
        BY <3>2, <4>1, BoardAssumption
    <3>4. Worth(p) = held[p] - msg[p].amount /\ Worth(p)' = players'[p]
      BY <2>0, <2>6, <3>2, <3>3 DEF Worth
    <3> QED
      BY <1>2, <2>0, <2>6, <3>2, <3>3, <3>4
  <2> QED
    BY <2>3, <2>4, <2>5, <2>6
<1> QED
  BY <1>1, <1>2

-----------------------------------------------------------------------------
(* The draw, and steps that leave the collection alone. *)

LEMMA WorthType ==
  ASSUME CoreInv, NEW p \in Player
  PROVE  /\ Worth(p) \in Int \cup {Null}
         /\ Worth(p) # Null => players[p] # Null
         /\ players[p] # Null => Worth(p) \in Int
<1>1. players[p] \in Int \cup {Null} /\ held[p] \in Int
  BY DEF CoreInv, TypeOK
<1>2. lpc[p] \in {"confirm", "bill", "billWrite"} => msg[p].amount \in Nat
  BY BetFields DEF CoreInv, BetInHand, BetPC
<1>3. CASE players[p] = Null
  BY <1>3 DEF Worth
<1>4. CASE players[p] # Null /\ lpc[p] \in {"confirm", "bill"}
  BY <1>1, <1>2, <1>4 DEF Worth
<1>5. CASE players[p] # Null /\ lpc[p] = "billWrite"
  BY <1>1, <1>2, <1>5 DEF Worth
<1>6. CASE players[p] # Null /\ lpc[p] \notin {"confirm", "bill", "billWrite"}
  BY <1>1, <1>6 DEF Worth
<1> QED
  BY <1>3, <1>4, <1>5, <1>6

LEMMA WorthKept ==
  ASSUME NEW p \in Player, players'[p] = players[p], UNCHANGED <<lpc, msg, held>>
  PROVE  Worth(p)' = Worth(p)
BY DEF Worth

LEMMA DrawStep ==
  ASSUME CoreInv, SlipsInv, Next, Draws,
         sheet' = [board  |-> bets,
                   worth  |-> [p \in Player |-> Worth(p)],
                   bank   |-> budget,
                   number |-> winner']
  PROVE  AuditInv'
<1>0. TypeOK
  BY DEF CoreInv
<1>1. Spin
  <2>1. ASSUME NEW p \in Player, ListenerStep(p) \/ ClientStep(p) PROVE UNCHANGED cpc
    BY <1>0, <2>1, ListenerFrame, ClientFrame DEF crupier
  <2>2. CrupierStep
    BY <2>1 DEF Next, Draws
  <2> QED
    BY <2>2 DEF CrupierStep, Draws, WaitConnections, StartBets, StopBets, GrabLosers, Collect,
                GrabWinners, Pay, PayWrite, TellPaid, CleanBets, NotifyBroke, Expel
<1>2. /\ cpc' = "losers" /\ cbox' = 0
      /\ UNCHANGED <<bets, players, budget, crashed, recollected, lpc, msg, held>>
  BY <1>1 DEF Spin, shared, CrupierOnly
<1>3. recollected = {}
  BY <1>1 DEF Spin, SlipsInv
<1>4. /\ sheet'.board = bets /\ sheet'.bank = budget /\ sheet'.number = winner'
      /\ sheet'.worth \in [Player -> Int \cup {Null}]
      /\ \A p \in Player : sheet'.worth[p] = Worth(p)
  BY WorthType
<1>5. SheetType'
  BY <1>0, <1>4 DEF SheetType, TypeOK
<1>6. \A b \in Box, p \in Player :
        OnBoard(b)' /\ Outstanding(b, p)' /\ Uncharged(b, p)' /\ Uncredited(b, p)'
  <2>1. \A b \in Box : 0 <= b
    BY BoardAssumption DEF Box
  <2>2. \A b \in Box : OnBoard(b)'
    BY <1>2, <2>1 DEF OnBoard
  <2> QED
    BY <1>2, <2>2 DEF Outstanding, Uncharged, Uncredited
<1>7. WhereItIs'
  BY <1>2, <1>3, <1>4, <1>6 DEF WhereItIs, Settling
<1>8. PurseRead'
  BY <1>2 DEF PurseRead
<1>9. \A p \in Player : /\ ToTake(p)' = Losses(p)'
                        /\ ToCharge(p)' = Prizes(p)'
                        /\ ToCredit(p)' = Prizes(p)'
  BY <1>6 DEF ToTake, ToCharge, ToCredit, Losses, Prizes
<1>10. PlayersSettled'
  <2> SUFFICES ASSUME NEW p \in Player, sheet'.worth[p] # Null
               PROVE  /\ players'[p] # Null
                      /\ Worth(p)' + SumFunction(ToCredit(p)') = sheet'.worth[p] + Won(p)'
    BY DEF PlayersSettled
  <2>1. Worth(p)' = Worth(p)
    BY <1>2, WorthKept
  <2> QED
    BY <1>2, <1>4, <1>9, <2>1, WorthType DEF Won
<1>11. BankSettled'
  <2>1. /\ Takes' = [p \in Player |-> LostBy(p)']
        /\ Charges' = [p \in Player |-> Won(p)']
    BY <1>9 DEF Takes, Charges, LostBy, Won
  <2> QED
    BY <1>2, <1>4, <2>1 DEF BankSettled
<1> QED
  BY <1>5, <1>7, <1>8, <1>10, <1>11 DEF AuditInv

\* What the sheet says stays what it is.
LEMMA SheetKept ==
  ASSUME UNCHANGED sheet
  PROVE  /\ SheetType => SheetType'
         /\ \A p \in Player : Won(p)' = Won(p) /\ LostBy(p)' = LostBy(p)
         /\ \A b, p : Entry(b, p)' = Entry(b, p)
         /\ \A b : (Wins(b)' <=> Wins(b))
<1>1. \A p \in Player : Prizes(p)' = Prizes(p) /\ Losses(p)' = Losses(p)
  BY DEF Prizes, Losses
<1>2. \A b : (Wins(b)' <=> Wins(b))
  BY DEF Wins
<1>3. \A b, p : Entry(b, p)' = Entry(b, p)
  BY <1>2 DEF Entry
<1>4. SheetType => SheetType'
  BY DEF SheetType
<1> QED
  BY <1>1, <1>2, <1>3, <1>4 DEF Won, LostBy

(***************************************************************************)
(* Listeners and clients, as long as the sheet is valid.                   *)
(***************************************************************************)
LEMMA OutsideStep ==
  ASSUME TypeOK, AuditInv, sheet # Null, ~ crashed, ~ Overlap,
         UNCHANGED <<sheet, crupier, bets>>,
         \A p \in Player : players[p] # Null =>
           /\ players'[p] # Null
           /\ Worth(p)' = Worth(p)
           /\ players'[p] = players[p] \/ lpc[p] = "billWrite"
  PROVE  AuditInv'
<1>0. SheetType /\ WhereItIs /\ PurseRead /\ PlayersSettled /\ BankSettled
  BY DEF AuditInv
<1>1. UNCHANGED <<cpc, cbox, winner, recollected, budget, purse>>
  BY DEF crupier
<1>2. SheetType' /\ WhereItIs'
  <2>1. \A b : (OnBoard(b)' <=> OnBoard(b))
    BY <1>1, SheetKept DEF OnBoard
  <2> QED
    BY <1>0, <1>1, <2>1, SheetKept DEF WhereItIs
<1>3. \A b \in Box, p \in Player :
        /\ (Outstanding(b, p)' <=> Outstanding(b, p))
        /\ (Uncharged(b, p)' <=> Uncharged(b, p))
        /\ (Uncredited(b, p)' <=> Uncredited(b, p))
  <2>1. \A b \in Box, p \in Player :
          (OnBoard(b)' <=> OnBoard(b)) /\ (InHand(b, p)' <=> InHand(b, p))
                                   /\ (Current(b, p)' <=> Current(b, p))
    BY <1>1, SheetKept DEF OnBoard, InHand, Current
  <2> QED
    BY <1>1, <2>1 DEF Outstanding, Uncharged, Uncredited
<1>4. UNCHANGED <<Takes, Charges>> /\ \A p \in Player : ToCredit(p)' = ToCredit(p)
  BY <1>3, TakesKept, ChargesKept, CreditKept
<1>5. PurseRead'
  <2> SUFFICES ASSUME cpc' = "payWrite", NEW s \in recollected', First(recollected', s)
               PROVE  lpc'[s.player] # "billWrite" /\ purse' = players'[s.player]
    BY DEF PurseRead
  <2>1. lpc'[s.player] # "billWrite"
    BY DEF Overlap
  <2>2. lpc[s.player] # "billWrite" /\ purse = players[s.player]
    BY <1>0, <1>1 DEF PurseRead
  <2>3. s.player \in Player /\ players[s.player] # Null
    BY <1>1, <2>2, BoardAssumption DEF TypeOK, Slip
  <2> QED
    BY <1>1, <2>1, <2>2, <2>3
<1>6. PlayersSettled'
  BY <1>0, <1>4, SheetKept DEF PlayersSettled
<1>7. BankSettled'
  BY <1>0, <1>1, <1>4, SheetKept DEF BankSettled
<1> QED
  BY <1>2, <1>5, <1>6, <1>7 DEF AuditInv

(***************************************************************************)
(* Steps of the croupier that move no money.                               *)
(***************************************************************************)
LEMMA QuietStep ==
  ASSUME AuditInv, sheet # Null, UNCHANGED <<sheet, players, lpc, msg, held>>,
         cpc' # "payWrite", WhereItIs',
         \A p \in Player : ToCredit(p)' = ToCredit(p),
         BankSettled'
  PROVE  AuditInv'
<1>1. SheetType /\ PlayersSettled
  BY DEF AuditInv
<1>2. PurseRead'
  BY DEF PurseRead
<1>3. PlayersSettled'
  BY <1>1, SheetKept, WorthKept DEF PlayersSettled
<1> QED
  BY <1>1, <1>2, <1>3, SheetKept DEF AuditInv

LEMMA BankKept ==
  ASSUME AuditInv, sheet # Null, ~ crashed,
         UNCHANGED <<sheet, budget, Takes, Charges>>
  PROVE  BankSettled'
<1>1. BankSettled
  BY DEF AuditInv
<1> QED
  BY <1>1, SheetKept DEF BankSettled

-----------------------------------------------------------------------------
(* The croupier's steps. *)

(***************************************************************************)
(* The entries handed over by Box::grabBets are those of the sheet.        *)
(***************************************************************************)
LEMMA HandedOver ==
  ASSUME SheetType, WhereItIs, NEW c \in Box, OnBoard(c),
         NEW rate, rate = IF Wins(c) THEN PayRate[c] ELSE 1
  PROVE  Slips(bets, c, rate) = {Entry(c, p) : p \in {q \in Player : HasBet(sheet.board, c, q)}}
<1>1. \A p \in Player : bets[c][p] = sheet.board[c][p]
  BY DEF WhereItIs
<1>2. \A p \in Player : /\ (HasBet(bets, c, p) <=> HasBet(sheet.board, c, p))
                        /\ Stake(bets, c, p) = Stake(sheet.board, c, p)
  BY <1>1 DEF HasBet, Stake
<1>3. \A p \in Player :
        [box |-> c, player |-> p, amount |-> Stake(bets, c, p) * rate] = Entry(c, p)
  BY <1>2 DEF Entry
<1> QED
  BY <1>2, <1>3 DEF Slips, Bettors

Walking == {"losers", "collect", "winners", "pay"}

(***************************************************************************)
(* A box grabbed: its stakes go from the board into the collection.        *)
(***************************************************************************)
LEMMA GrabStep ==
  ASSUME TypeOK, AuditInv, sheet # Null, ~ crashed,
         UNCHANGED <<sheet, players, lpc, msg, held, budget, winner>>,
         cpc \in Walking, cpc' \in Walking, cpc' = "collect" => cbox' = 0,
         OnBoard(cbox),
         \A b \in Box : OnBoard(b)' <=> (OnBoard(b) /\ b # cbox),
         bets' = Grabbed(bets, cbox),
         NEW rate, rate = IF Wins(cbox) THEN PayRate[cbox] ELSE 1,
         recollected' = recollected \cup Slips(bets, cbox, rate)
  PROVE  AuditInv'
<1>0. SheetType /\ WhereItIs /\ cbox \in Box /\ bets \in Boards
  BY DEF AuditInv, TypeOK
<1>1. Slips(bets, cbox, rate)
        = {Entry(cbox, p) : p \in {q \in Player : HasBet(sheet.board, cbox, q)}}
  BY <1>0, HandedOver
<1>2. \A s \in recollected' :
        \/ s \in recollected
        \/ \E p \in Player : HasBet(sheet.board, cbox, p) /\ s = Entry(cbox, p)
  BY <1>1
<1>3. WhereItIs'
  <2>1. \A b \in Box, p \in Player :
          bets'[b][p] = IF OnBoard(b)' THEN sheet'.board[b][p] ELSE Null
    <3>1. \A b \in Box, p \in Player :
            bets'[b][p] = IF b = cbox THEN Null ELSE bets[b][p]
      BY <1>0 DEF Grabbed, Boards
    <3> QED
      BY <1>0, <3>1 DEF WhereItIs
  <2>2. \A s \in recollected' : s = Entry(s.box, s.player)'
    <3> SUFFICES ASSUME NEW s \in recollected' PROVE s = Entry(s.box, s.player)
      BY SheetKept
    <3>1. CASE s \in recollected
      BY <1>0, <3>1 DEF WhereItIs
    <3>2. CASE \E p \in Player : s = Entry(cbox, p)
      BY <3>2, EntryFields
    <3> QED
      BY <1>2, <3>1, <3>2
  <2>3. cpc' \in Settling /\ cpc' # "clean" /\ winner' = sheet'.number
    BY <1>0 DEF WhereItIs, Walking, Settling
  <2> QED
    BY <2>1, <2>2, <2>3 DEF WhereItIs
<1>4. \A b \in Box, p \in Player :
        InHand(b, p)' <=> (InHand(b, p) \/ (b = cbox /\ HasBet(sheet.board, b, p)))
  <2> SUFFICES ASSUME NEW b \in Box, NEW p \in Player
               PROVE  Entry(b, p) \in recollected' <=>
                        (Entry(b, p) \in recollected \/ (b = cbox /\ HasBet(sheet.board, b, p)))
    BY SheetKept DEF InHand
  <2>1. ASSUME Entry(b, p) \in recollected', Entry(b, p) \notin recollected
        PROVE  b = cbox /\ HasBet(sheet.board, b, p)
    BY <1>2, <2>1, EntryFields
  <2>2. b = cbox /\ HasBet(sheet.board, b, p) => Entry(b, p) \in recollected'
    BY <1>1
  <2> QED
    BY <2>1, <2>2
<1>5. \A b \in Box, p \in Player :
        HasBet(sheet.board, b, p) => (Outstanding(b, p)' <=> Outstanding(b, p))
  BY <1>4 DEF Outstanding
<1>6. \A b \in Box, p \in Player :
        /\ (Uncharged(b, p) <=> Outstanding(b, p)) /\ (Uncharged(b, p)' <=> Outstanding(b, p)')
        /\ (Uncredited(b, p) <=> Outstanding(b, p)) /\ (Uncredited(b, p)' <=> Outstanding(b, p)')
  BY DEF Uncharged, Uncredited, Walking
<1>7. UNCHANGED <<Takes, Charges>> /\ \A p \in Player : ToCredit(p)' = ToCredit(p)
  <2>1. \A b \in Box, p \in Player :
          \/ (Outstanding(b, p)' <=> Outstanding(b, p))
          \/ Losses(p)[b] = 0 /\ Prizes(p)[b] = 0
    BY <1>5, NoBet
  <2> QED
    BY <1>6, <2>1, TakesKept, ChargesKept, CreditKept
<1>8. cpc' # "payWrite" /\ BankSettled'
  BY <1>7, BankKept DEF Walking
<1> QED
  BY <1>3, <1>7, <1>8, QuietStep

(***************************************************************************)
(* A box passed over, or the end of a loop.                                *)
(***************************************************************************)
LEMMA PassStep ==
  ASSUME TypeOK, AuditInv, sheet # Null, ~ crashed,
         UNCHANGED <<sheet, players, lpc, msg, held, budget, bets, recollected>>,
         cpc' # "clean" => winner' = winner,
         cpc \in Walking, cpc' \in Walking \cup {"clean"}, cpc' = "collect" => cbox' = 0,
         \A b \in Box : (OnBoard(b)' <=> OnBoard(b))
  PROVE  AuditInv'
<1>0. SheetType /\ WhereItIs
  BY DEF AuditInv
<1>1. WhereItIs'
  <2>1. cpc' \in Settling /\ (cpc' # "clean" => winner' = sheet'.number)
    BY <1>0 DEF WhereItIs, Walking, Settling
  <2>2. \A s \in recollected' : s = Entry(s.box, s.player)'
    BY <1>0, SheetKept DEF WhereItIs
  <2> QED
    BY <1>0, <2>1, <2>2 DEF WhereItIs
<1>2. \A b \in Box, p \in Player :
        /\ (Outstanding(b, p)' <=> Outstanding(b, p))
        /\ (Uncharged(b, p)' <=> Uncharged(b, p))
        /\ (Uncredited(b, p)' <=> Uncredited(b, p))
  <2>1. \A b \in Box, p \in Player : (InHand(b, p)' <=> InHand(b, p))
    BY SheetKept DEF InHand
  <2> QED
    BY <2>1 DEF Outstanding, Uncharged, Uncredited, Walking
<1>3. UNCHANGED <<Takes, Charges>> /\ \A p \in Player : ToCredit(p)' = ToCredit(p)
  BY <1>2, TakesKept, ChargesKept, CreditKept
<1>4. cpc' # "payWrite" /\ BankSettled'
  BY <1>3, BankKept DEF Walking
<1> QED
  BY <1>1, <1>3, <1>4, QuietStep

LEMMA GrabLosersStep ==
  ASSUME TypeOK, AuditInv, sheet # Null, ~ crashed, UNCHANGED sheet, GrabLosers
  PROVE  AuditInv'
<1>0. /\ cpc = "losers" /\ cbox \in Box /\ winner = sheet.number
      /\ UNCHANGED <<players, lpc, msg, held, budget, winner>>
  BY DEF GrabLosers, TypeOK, AuditInv, WhereItIs, CrupierOnly
<1>1. \/ cbox + 1 < NumBoxes /\ cbox' = cbox + 1 /\ cpc' = "losers"
      \/ cbox + 1 = NumBoxes /\ cbox' = 0 /\ cpc' = "collect"
  BY <1>0, NextBoxValue DEF GrabLosers
<1>2. \A b \in Box : OnBoard(b)' <=> (Wins(b) \/ (cbox <= b /\ b # cbox))
  <2>1. \A b \in Box : b \in Int /\ cbox \in Int /\ b < NumBoxes /\ NumBoxes \in Int
    BY <1>0, BoardAssumption DEF Box
  <2> QED
    BY <1>1, <2>1, SheetKept DEF OnBoard
<1>3. \A b \in Box : OnBoard(b) <=> (Wins(b) \/ cbox <= b)
  BY <1>0 DEF OnBoard
<1>4. cpc \in Walking /\ cpc' \in Walking /\ (cpc' = "collect" => cbox' = 0)
  BY <1>0, <1>1 DEF Walking
<1>5. CASE winner \notin Covers[cbox]
  <2>1. ~ Wins(cbox) /\ OnBoard(cbox)
    <3>1. cbox <= cbox
      BY <1>0, BoardAssumption DEF Box
    <3> QED
      BY <1>0, <1>3, <1>5, <3>1 DEF Wins
  <2>2. \A b \in Box : OnBoard(b)' <=> (OnBoard(b) /\ b # cbox)
    BY <1>2, <1>3, <2>1
  <2>3. bets' = Grabbed(bets, cbox) /\ recollected' = recollected \cup Slips(bets, cbox, 1)
    BY <1>5 DEF GrabLosers
  <2> QED
    BY <1>0, <1>4, <2>1, <2>2, <2>3, GrabStep
<1>6. CASE winner \in Covers[cbox]
  <2>1. \A b \in Box : (OnBoard(b)' <=> OnBoard(b))
    BY <1>0, <1>2, <1>3, <1>6 DEF Wins
  <2>2. UNCHANGED <<bets, recollected>>
    BY <1>6 DEF GrabLosers
  <2> QED
    BY <1>0, <1>4, <2>1, <2>2, PassStep
<1> QED
  BY <1>5, <1>6

LEMMA GrabWinnersStep ==
  ASSUME TypeOK, AuditInv, sheet # Null, ~ crashed, UNCHANGED sheet, GrabWinners
  PROVE  AuditInv'
<1>0. /\ cpc = "winners" /\ cbox \in Box /\ winner = sheet.number
      /\ UNCHANGED <<players, lpc, msg, held, budget, winner>>
  BY DEF GrabWinners, TypeOK, AuditInv, WhereItIs, CrupierOnly
<1>1. \/ cbox + 1 < NumBoxes /\ cbox' = cbox + 1 /\ cpc' = "winners"
      \/ cbox + 1 = NumBoxes /\ cbox' = 0 /\ cpc' = "pay"
  BY <1>0, NextBoxValue DEF GrabWinners
<1>2. \A b \in Box : OnBoard(b)' <=> (Wins(b) /\ cbox <= b /\ b # cbox)
  <2>1. \A b \in Box : b \in Int /\ cbox \in Int /\ b < NumBoxes /\ NumBoxes \in Int
    BY <1>0, BoardAssumption DEF Box
  <2> QED
    BY <1>1, <2>1, SheetKept DEF OnBoard
<1>3. \A b \in Box : OnBoard(b) <=> (Wins(b) /\ cbox <= b)
  BY <1>0 DEF OnBoard
<1>4. cpc \in Walking /\ cpc' \in Walking /\ cpc' # "collect"
  BY <1>0, <1>1 DEF Walking
<1>5. CASE winner \in Covers[cbox]
  <2>1. Wins(cbox) /\ OnBoard(cbox)
    <3>1. cbox <= cbox
      BY <1>0, BoardAssumption DEF Box
    <3> QED
      BY <1>0, <1>3, <1>5, <3>1 DEF Wins
  <2>2. \A b \in Box : OnBoard(b)' <=> (OnBoard(b) /\ b # cbox)
    BY <1>2, <1>3
  <2>3. /\ bets' = Grabbed(bets, cbox)
        /\ recollected' = recollected \cup Slips(bets, cbox, PayRate[cbox])
    BY <1>5 DEF GrabWinners
  <2> QED
    BY <1>0, <1>4, <2>1, <2>2, <2>3, GrabStep
<1>6. CASE winner \notin Covers[cbox]
  <2>1. \A b \in Box : (OnBoard(b)' <=> OnBoard(b))
    BY <1>0, <1>2, <1>3, <1>6 DEF Wins
  <2>2. UNCHANGED <<bets, recollected>>
    BY <1>6 DEF GrabWinners
  <2> QED
    BY <1>0, <1>4, <2>1, <2>2, PassStep
<1> QED
  BY <1>5, <1>6

(***************************************************************************)
(* One stake done with: the sums go down by what it was worth.             *)
(***************************************************************************)
LEMMA OneTaken ==
  ASSUME SheetType, UNCHANGED sheet, NEW c \in Box, NEW r \in Player,
         Outstanding(c, r), ~ Outstanding(c, r)',
         \A b \in Box, p \in Player :
           b # c \/ p # r => (Outstanding(b, p)' <=> Outstanding(b, p))
  PROVE  SumFunction(Takes)' = SumFunction(Takes) - Losses(r)[c]
<1>1. \A p \in Player : Losses(p)' = Losses(p)
  BY DEF Losses
<1>2. SheetType'
  BY SheetKept
<1>3. \A p \in Player : ToTake(p) \in [Box -> Int] /\ ToTake(p)' \in [Box -> Int]
  <2>1. \A p \in Player : Losses(p) \in [Box -> Int]
    BY Values
  <2> QED
    BY <1>1, <2>1 DEF ToTake
<1>4. /\ ToTake(r)[c] = Losses(r)[c] /\ ToTake(r)'[c] = 0
      /\ \A b \in Box \ {c} : ToTake(r)[b] = ToTake(r)'[b]
  BY <1>1 DEF ToTake
<1>5. SumFunction(ToTake(r)') = SumFunction(ToTake(r)) - Losses(r)[c] + 0
  BY <1>3, <1>4, Finite, SumOfChange
<1>6. \A p \in Player \ {r} : ToTake(p)' = ToTake(p)
  BY <1>1 DEF ToTake
<1>7. Takes \in [Player -> Int] /\ Takes' \in [Player -> Int]
  BY <1>3, Finite, SumOfInt DEF Takes
<1>8. \A p \in Player : Takes[p] = SumFunction(ToTake(p)) /\ Takes'[p] = SumFunction(ToTake(p)')
  BY DEF Takes
<1>9. \A p \in Player \ {r} : Takes[p] = Takes'[p]
  BY <1>6, <1>8
<1>10. SumFunction(Takes') = SumFunction(Takes) - Takes[r] + Takes'[r]
  BY <1>7, <1>9, Finite, SumOfChange
<1>11. Losses(r)[c] \in Int /\ SumFunction(ToTake(r)) \in Int /\ SumFunction(Takes) \in Int
  BY <1>3, <1>7, Finite, SumOfInt, Values
<1> QED
  BY <1>5, <1>8, <1>10, <1>11

LEMMA OneCharged ==
  ASSUME SheetType, UNCHANGED sheet, NEW c \in Box, NEW r \in Player,
         Uncharged(c, r), ~ Uncharged(c, r)',
         \A b \in Box, p \in Player :
           b # c \/ p # r => (Uncharged(b, p)' <=> Uncharged(b, p))
  PROVE  SumFunction(Charges)' = SumFunction(Charges) - Prizes(r)[c]
<1>1. \A p \in Player : Prizes(p)' = Prizes(p)
  BY DEF Prizes
<1>2. \A p \in Player : ToCharge(p) \in [Box -> Int] /\ ToCharge(p)' \in [Box -> Int]
  <2>1. \A p \in Player : Prizes(p) \in [Box -> Int]
    BY Values
  <2> QED
    BY <1>1, <2>1 DEF ToCharge
<1>3. /\ ToCharge(r)[c] = Prizes(r)[c] /\ ToCharge(r)'[c] = 0
      /\ \A b \in Box \ {c} : ToCharge(r)[b] = ToCharge(r)'[b]
  BY <1>1 DEF ToCharge
<1>4. SumFunction(ToCharge(r)') = SumFunction(ToCharge(r)) - Prizes(r)[c] + 0
  BY <1>2, <1>3, Finite, SumOfChange
<1>5. \A p \in Player \ {r} : ToCharge(p)' = ToCharge(p)
  BY <1>1 DEF ToCharge
<1>6. Charges \in [Player -> Int] /\ Charges' \in [Player -> Int]
  BY <1>2, Finite, SumOfInt DEF Charges
<1>7. \A p \in Player :
        Charges[p] = SumFunction(ToCharge(p)) /\ Charges'[p] = SumFunction(ToCharge(p)')
  BY DEF Charges
<1>8. \A p \in Player \ {r} : Charges[p] = Charges'[p]
  BY <1>5, <1>7
<1>9. SumFunction(Charges') = SumFunction(Charges) - Charges[r] + Charges'[r]
  BY <1>6, <1>8, Finite, SumOfChange
<1>10. /\ Prizes(r)[c] \in Int /\ SumFunction(ToCharge(r)) \in Int
       /\ SumFunction(Charges) \in Int
  BY <1>2, <1>6, Finite, SumOfInt, Values
<1> QED
  BY <1>4, <1>7, <1>9, <1>10

LEMMA OneCredited ==
  ASSUME SheetType, UNCHANGED sheet, NEW c \in Box, NEW r \in Player,
         Uncredited(c, r), ~ Uncredited(c, r)',
         \A b \in Box : b # c => (Uncredited(b, r)' <=> Uncredited(b, r))
  PROVE  SumFunction(ToCredit(r))' = SumFunction(ToCredit(r)) - Prizes(r)[c]
<1>1. Prizes(r)' = Prizes(r) /\ Prizes(r) \in [Box -> Int]
  BY Values DEF Prizes
<1>2. ToCredit(r) \in [Box -> Int] /\ ToCredit(r)' \in [Box -> Int]
  BY <1>1 DEF ToCredit
<1>3. /\ ToCredit(r)[c] = Prizes(r)[c] /\ ToCredit(r)'[c] = 0
      /\ \A b \in Box \ {c} : ToCredit(r)[b] = ToCredit(r)'[b]
  BY <1>1 DEF ToCredit
<1>4. SumFunction(ToCredit(r)') = SumFunction(ToCredit(r)) - Prizes(r)[c] + 0
  BY <1>2, <1>3, Finite, SumOfChange
<1>5. Prizes(r)[c] \in Int /\ SumFunction(ToCredit(r)) \in Int
  BY <1>1, <1>2, Finite, SumOfInt
<1> QED
  BY <1>4, <1>5

(***************************************************************************)
(* The entry the croupier is at.                                           *)
(***************************************************************************)
LEMMA AtHand ==
  ASSUME TypeOK, WhereItIs, SlipsInv, cpc # "clean", NEW s, First(recollected, s)
  PROVE  /\ s.box \in Box /\ s.player \in Player /\ s.amount \in Nat
         /\ s = Entry(s.box, s.player)
         /\ InHand(s.box, s.player) /\ Current(s.box, s.player)
         /\ \A b, p : (b # s.box \/ p # s.player) => Entry(b, p) # s /\ ~ Current(b, p)
         /\ cpc = "collect" => ~ Wins(s.box)
         /\ cpc \in {"pay", "payWrite", "tellPaid"} => Wins(s.box)
<1>1. s \in recollected /\ s \in Slip
  BY DEF First, TypeOK
<1>2. s.box \in Box /\ s.player \in Player /\ s.amount \in Nat
  <2>1. \A t \in Slip : t.box \in Box /\ t.player \in Player /\ t.amount \in Nat
    BY DEF Slip
  <2> QED
    BY <1>1, <2>1
<1>3. s = Entry(s.box, s.player)
  BY <1>1 DEF WhereItIs
<1>4. InHand(s.box, s.player) /\ Current(s.box, s.player)
  BY <1>1, <1>3 DEF InHand, Current
<1>5. ASSUME NEW b, NEW p, b # s.box \/ p # s.player
      PROVE  Entry(b, p) # s /\ ~ Current(b, p)
  <2>1. Entry(b, p) # s
    BY <1>5, EntryFields
  <2>2. Current(b, p) => Entry(b, p) = s
    <3>1. recollected \subseteq Slip
      BY DEF TypeOK
    <3> QED
      BY <3>1, OneFirst DEF Current
  <2> QED
    BY <2>1, <2>2
<1>6. winner = sheet.number
  BY DEF WhereItIs
<1>7. /\ cpc = "collect" => ~ Wins(s.box)
      /\ cpc \in {"pay", "payWrite", "tellPaid"} => Wins(s.box)
  BY <1>1, <1>6 DEF SlipsInv, SlipsMatchNumber, Wins
<1> QED
  BY <1>2, <1>3, <1>4, <1>5, <1>7

LEMMA CollectStep ==
  ASSUME TypeOK, SlipsInv, AuditInv, sheet # Null, ~ crashed, UNCHANGED sheet, Collect
  PROVE  AuditInv'
<1>0. /\ SheetType /\ WhereItIs /\ BankSettled
      /\ cpc = "collect" /\ cbox = 0 /\ recollected \subseteq Slip
      /\ UNCHANGED <<players, bets, lpc, msg, held, winner, cbox>>
  BY DEF Collect, AuditInv, WhereItIs, TypeOK, CrupierOnly, shared
<1>1. CASE recollected = {} /\ cpc' = "winners" /\ UNCHANGED <<budget, recollected>>
  <2>1. \A b \in Box : OnBoard(b)' <=> OnBoard(b)
    <3>1. \A b \in Box : 0 <= b
      BY BoardAssumption DEF Box
    <3> QED
      BY <1>0, <1>1, <3>1, SheetKept DEF OnBoard
  <2>2. cpc \in Walking /\ cpc' \in Walking /\ cpc' # "collect"
    BY <1>0, <1>1 DEF Walking
  <2> QED
    BY <1>0, <1>1, <2>1, <2>2, PassStep
<1>2. ASSUME NEW s \in recollected, First(recollected, s), budget' = budget + s.amount,
             recollected' = recollected \ {s}, UNCHANGED cpc
      PROVE  AuditInv'
  <2>1. /\ s.box \in Box /\ s.player \in Player
        /\ s = Entry(s.box, s.player) /\ InHand(s.box, s.player) /\ ~ Wins(s.box)
        /\ \A b, p : (b # s.box \/ p # s.player) => Entry(b, p) # s
    BY <1>0, <1>2, AtHand
  <2>2. \A b \in Box : OnBoard(b)' <=> OnBoard(b)
    BY <1>0, <1>2, SheetKept DEF OnBoard
  <2>3. WhereItIs'
    <3>1. \A t \in recollected' : t = Entry(t.box, t.player)'
      BY <1>0, <1>2, SheetKept DEF WhereItIs
    <3> QED
      BY <1>0, <1>2, <2>2, <3>1 DEF WhereItIs
  <2>4. \A b \in Box, p \in Player :
          /\ InHand(b, p)' <=> (InHand(b, p) /\ ~ (b = s.box /\ p = s.player))
          /\ Outstanding(b, p)' <=> (Outstanding(b, p) /\ ~ (b = s.box /\ p = s.player))
    <3>1. \A b \in Box, p \in Player :
            InHand(b, p)' <=> (InHand(b, p) /\ ~ (b = s.box /\ p = s.player))
      BY <1>2, <2>1, SheetKept DEF InHand
    <3>2. ~ OnBoard(s.box)
      BY <1>0, <2>1 DEF OnBoard
    <3> QED
      BY <2>2, <3>1, <3>2 DEF Outstanding
  <2>5. \A b \in Box, p \in Player :
          /\ Uncharged(b, p) <=> Outstanding(b, p)
          /\ Uncredited(b, p) <=> Outstanding(b, p)
          /\ Uncharged(b, p)' <=> Outstanding(b, p)'
          /\ Uncredited(b, p)' <=> Outstanding(b, p)'
    BY <1>0, <1>2 DEF Uncharged, Uncredited
  <2>6. /\ Prizes(s.player)[s.box] = 0
        /\ Losses(s.player)[s.box] = s.amount /\ s.amount \in Int
    BY <1>0, <2>1, ByOutcome
  <2>7. SumFunction(Takes)' = SumFunction(Takes) - s.amount
    <3>1. Outstanding(s.box, s.player) /\ ~ Outstanding(s.box, s.player)'
      BY <2>1, <2>4 DEF Outstanding
    <3> QED
      BY <1>0, <2>1, <2>4, <2>6, <3>1, OneTaken
  <2>8. UNCHANGED Charges /\ \A p \in Player : ToCredit(p)' = ToCredit(p)
    BY <2>4, <2>5, <2>6, ChargesKept, CreditKept
  <2>9. BankSettled'
    <3>1. budget \in Int /\ SumFunction(Takes) \in Int
      BY <1>0, SumValues, Finite, SumOfInt DEF TypeOK
    <3>2. SumFunction(Charges)' = SumFunction(Charges) /\ SumFunction(Charges) \in Int
      BY <1>0, <2>8, SumValues, Finite, SumOfInt
    <3>3. budget' + SumFunction(Takes)' - SumFunction(Charges)'
            = budget + SumFunction(Takes) - SumFunction(Charges)
      BY <1>2, <2>6, <2>7, <3>1, <3>2
    <3> QED
      BY <1>0, <3>3, SheetKept DEF BankSettled
  <2> QED
    BY <1>0, <1>2, <2>3, <2>8, <2>9, QuietStep
<1> QED
  BY <1>1, <1>2 DEF Collect

LEMMA PayStep ==
  ASSUME TypeOK, SlipsInv, AuditInv, sheet # Null, ~ crashed, ~ Voided, UNCHANGED sheet, Pay
  PROVE  AuditInv'
<1>0. /\ SheetType /\ WhereItIs /\ PlayersSettled /\ BankSettled
      /\ cpc = "pay" /\ recollected \subseteq Slip
      /\ UNCHANGED <<players, bets, lpc, msg, held, cbox>>
      /\ ~ Overlap /\ ~ bancarrota'
  BY DEF Pay, AuditInv, TypeOK, CrupierOnly, Voided
<1>1. \A b \in Box : ~ OnBoard(b)
  BY <1>0 DEF OnBoard
<1>2. CASE recollected = {} /\ RoundOver /\ UNCHANGED <<budget, recollected>>
  <2>1. \A b \in Box : OnBoard(b)' <=> OnBoard(b)
    BY <1>1, <1>2 DEF OnBoard, RoundOver
  <2>2. cpc \in Walking /\ cpc' = "clean"
    BY <1>0, <1>2 DEF Walking, RoundOver
  <2> QED
    BY <1>0, <1>2, <2>1, <2>2, PassStep
<1>3. ASSUME NEW s \in recollected, First(recollected, s), budget' = budget - s.amount,
             players[s.player] # Null, purse' = players[s.player], cpc' = "payWrite",
             UNCHANGED <<recollected, winner, crashed>>
      PROVE  AuditInv'
  <2>1. /\ s.box \in Box /\ s.player \in Player
        /\ s = Entry(s.box, s.player) /\ InHand(s.box, s.player) /\ Wins(s.box)
        /\ Current(s.box, s.player)
        /\ \A b, p : (b # s.box \/ p # s.player) => ~ Current(b, p)
    BY <1>0, <1>3, AtHand
  <2>2. \A b \in Box : ~ OnBoard(b)'
    BY <1>3 DEF OnBoard
  <2>3. WhereItIs'
    <3>1. \A t \in recollected' : t = Entry(t.box, t.player)'
      BY <1>0, <1>3, SheetKept DEF WhereItIs
    <3> QED
      BY <1>0, <1>1, <1>3, <2>2, <3>1 DEF WhereItIs, Settling
  <2>4. \A b \in Box, p \in Player :
          /\ InHand(b, p)' <=> InHand(b, p)
          /\ Current(b, p)' <=> Current(b, p)
    BY <1>3, SheetKept DEF InHand, Current
  <2>5. \A b \in Box, p \in Player :
          /\ Outstanding(b, p)' <=> Outstanding(b, p)
          /\ Uncredited(b, p)' <=> Uncredited(b, p)
          /\ Uncharged(b, p)' <=> (Uncharged(b, p) /\ ~ (b = s.box /\ p = s.player))
    BY <1>0, <1>1, <1>3, <2>1, <2>2, <2>4 DEF Outstanding, Uncredited, Uncharged
  <2>6. Prizes(s.player)[s.box] = s.amount /\ s.amount \in Int
    BY <1>0, <2>1, ByOutcome
  <2>7. SumFunction(Charges)' = SumFunction(Charges) - s.amount
    <3>1. Uncharged(s.box, s.player) /\ ~ Uncharged(s.box, s.player)'
      BY <1>0, <2>1, <2>5 DEF Uncharged, Outstanding
    <3> QED
      BY <1>0, <2>1, <2>5, <2>6, <3>1, OneCharged
  <2>8. UNCHANGED Takes /\ \A p \in Player : ToCredit(p)' = ToCredit(p)
    BY <2>5, TakesKept, CreditKept
  <2>9. BankSettled'
    <3>1. budget \in Int /\ SumFunction(Charges) \in Int
      BY <1>0, SumValues, Finite, SumOfInt DEF TypeOK
    <3>2. SumFunction(Takes)' = SumFunction(Takes) /\ SumFunction(Takes) \in Int
      BY <1>0, <2>8, SumValues, Finite, SumOfInt
    <3>3. budget' + SumFunction(Takes)' - SumFunction(Charges)'
            = budget + SumFunction(Takes) - SumFunction(Charges)
      BY <1>3, <2>6, <2>7, <3>1, <3>2
    <3> QED
      BY <1>0, <3>3, SheetKept DEF BankSettled
  <2>10. PlayersSettled'
    BY <1>0, <2>8, SheetKept, WorthKept DEF PlayersSettled
  <2>11. PurseRead'
    <3> SUFFICES ASSUME NEW t \in recollected', First(recollected', t)
                 PROVE  lpc'[t.player] # "billWrite" /\ purse' = players'[t.player]
      BY DEF PurseRead
    <3>1. lpc'[t.player] # "billWrite"
      BY <1>0, <1>3 DEF Overlap
    <3>2. t = s
      BY <1>0, <1>3, OneFirst
    <3> QED
      BY <1>0, <1>3, <3>1, <3>2
  <2> QED
    BY <1>0, <2>3, <2>9, <2>10, <2>11, SheetKept DEF AuditInv
<1>4. CASE crashed' /\ UNCHANGED <<recollected, winner, cpc>>
  <2>1. \A b : OnBoard(b)' <=> OnBoard(b)
    BY <1>0, <1>4, SheetKept DEF OnBoard
  <2>2. WhereItIs'
    BY <1>0, <1>4, <2>1, SheetKept DEF WhereItIs
  <2>3. \A b \in Box, p \in Player : Uncredited(b, p)' <=> Uncredited(b, p)
    <3>1. \A b \in Box, p \in Player : InHand(b, p)' <=> InHand(b, p)
      BY <1>4, SheetKept DEF InHand
    <3> QED
      BY <1>0, <1>4, <2>1, <3>1 DEF Uncredited, Outstanding
  <2>4. \A p \in Player : ToCredit(p)' = ToCredit(p)
    BY <2>3, CreditKept
  <2>5. BankSettled' /\ cpc' # "payWrite"
    BY <1>0, <1>4 DEF BankSettled
  <2> QED
    BY <1>0, <2>2, <2>4, <2>5, QuietStep
<1> QED
  BY <1>0, <1>2, <1>3, <1>4 DEF Pay

LEMMA PayWriteStep ==
  ASSUME CoreInv, SlipsInv, AuditInv, sheet # Null, ~ crashed, UNCHANGED sheet, PayWrite
  PROVE  AuditInv'
<1>0. /\ TypeOK /\ SheetType /\ WhereItIs /\ PurseRead /\ PlayersSettled /\ BankSettled
      /\ cpc = "payWrite" /\ cpc' = "tellPaid"
      /\ UNCHANGED <<bets, crashed, lpc, msg, held, cbox, winner, recollected, budget>>
  BY DEF PayWrite, AuditInv, CoreInv, CrupierOnly
<1>1. PICK s \in recollected :
        /\ First(recollected, s)
        /\ players' = [players EXCEPT ![s.player] = IF @ = Null THEN Null ELSE purse + s.amount]
  BY DEF PayWrite
<1>2. /\ s.box \in Box /\ s.player \in Player
      /\ s = Entry(s.box, s.player) /\ InHand(s.box, s.player) /\ Wins(s.box)
      /\ Current(s.box, s.player)
      /\ \A b, p : (b # s.box \/ p # s.player) => ~ Current(b, p)
  BY <1>0, <1>1, AtHand
<1>3. \A b : ~ OnBoard(b) /\ ~ OnBoard(b)'
  BY <1>0 DEF OnBoard
<1>4. WhereItIs'
  <2>1. \A t \in recollected' : t = Entry(t.box, t.player)'
    BY <1>0, SheetKept DEF WhereItIs
  <2> QED
    BY <1>0, <1>3, <2>1 DEF WhereItIs, Settling
<1>5. \A b \in Box, p \in Player :
        /\ InHand(b, p)' <=> InHand(b, p)
        /\ Current(b, p)' <=> Current(b, p)
  BY <1>0, SheetKept DEF InHand, Current
<1>6. \A b \in Box, p \in Player :
        /\ Outstanding(b, p)' <=> Outstanding(b, p)
        /\ Uncharged(b, p)' <=> Uncharged(b, p)
        /\ Uncredited(b, p)' <=> (Uncredited(b, p) /\ ~ (b = s.box /\ p = s.player))
  BY <1>0, <1>2, <1>3, <1>5 DEF Outstanding, Uncredited, Uncharged
<1>7. UNCHANGED <<Takes, Charges>>
  BY <1>6, TakesKept, ChargesKept
<1>8. BankSettled'
  BY <1>7, BankKept, <1>0
<1>9. Prizes(s.player)[s.box] = s.amount /\ s.amount \in Int
  BY <1>0, <1>2, ByOutcome
<1>10. SumFunction(ToCredit(s.player))' = SumFunction(ToCredit(s.player)) - s.amount
  <2>1. Uncredited(s.box, s.player) /\ ~ Uncredited(s.box, s.player)'
    BY <1>0, <1>2, <1>6 DEF Uncredited, Outstanding
  <2> QED
    BY <1>0, <1>2, <1>6, <1>9, <2>1, OneCredited
<1>11. /\ lpc[s.player] # "billWrite" /\ purse = players[s.player]
       /\ players[s.player] # Null /\ players[s.player] \in Int
       /\ players'[s.player] = players[s.player] + s.amount
       /\ players'[s.player] # Null
  <2>1. lpc[s.player] # "billWrite" /\ purse = players[s.player]
    BY <1>0, <1>1 DEF PurseRead
  <2>2. players[s.player] # Null /\ players[s.player] \in Int
    BY <1>0, <1>2, <2>1, BoardAssumption DEF TypeOK
  <2>3. players'[s.player] = players[s.player] + s.amount
    BY <1>0, <1>1, <1>2, <2>1, <2>2 DEF TypeOK
  <2> QED
    BY <1>9, <2>1, <2>2, <2>3, BoardAssumption
<1>12. Worth(s.player)' = Worth(s.player) + s.amount
  <2>1. CASE lpc[s.player] \in {"confirm", "bill"}
    <3>1. msg[s.player].amount \in Nat
      BY <1>2, <2>1, BetFields DEF CoreInv, BetInHand, BetPC
    <3>2. /\ Worth(s.player) = players[s.player] - msg[s.player].amount
          /\ Worth(s.player)' = players'[s.player] - msg[s.player].amount
      BY <1>0, <1>11, <2>1 DEF Worth
    <3> QED
      BY <1>9, <1>11, <3>1, <3>2
  <2>2. CASE lpc[s.player] \notin {"confirm", "bill"}
    BY <1>0, <1>11, <2>2 DEF Worth
  <2> QED
    BY <2>1, <2>2
<1>13. PlayersSettled'
  <2> SUFFICES ASSUME NEW p \in Player, sheet.worth[p] # Null
               PROVE  /\ players'[p] # Null
                      /\ Worth(p)' + SumFunction(ToCredit(p))' = sheet.worth[p] + Won(p)
    BY SheetKept DEF PlayersSettled
  <2>1. CASE p # s.player
    <3>1. ToCredit(p)' = ToCredit(p)
      BY <1>6, <2>1, CreditKept
    <3>2. players'[p] = players[p]
      BY <1>0, <1>1, <2>1 DEF TypeOK
    <3> QED
      BY <1>0, <3>1, <3>2, WorthKept DEF PlayersSettled
  <2>2. CASE p = s.player
    <3>1. Worth(p) \in Int /\ SumFunction(ToCredit(p)) \in Int
      BY <1>0, <1>11, <2>2, WorthType, SumValues
    <3>2. Worth(p) + SumFunction(ToCredit(p)) = sheet.worth[p] + Won(p)
      BY <1>0 DEF PlayersSettled
    <3>3. Worth(p)' + SumFunction(ToCredit(p))' = Worth(p) + SumFunction(ToCredit(p))
      BY <1>9, <1>10, <1>12, <2>2, <3>1
    <3> QED
      BY <1>11, <2>2, <3>2, <3>3
  <2> QED
    BY <2>1, <2>2
<1>14. PurseRead'
  BY <1>0 DEF PurseRead
<1> QED
  BY <1>0, <1>4, <1>8, <1>13, <1>14, SheetKept DEF AuditInv

LEMMA TellPaidStep ==
  ASSUME TypeOK, SlipsInv, AuditInv, sheet # Null, ~ crashed, UNCHANGED sheet, TellPaid
  PROVE  AuditInv'
<1>0. /\ SheetType /\ WhereItIs /\ BankSettled
      /\ cpc = "tellPaid" /\ recollected \subseteq Slip
      /\ UNCHANGED <<players, bets, lpc, msg, held, winner, cbox, budget>>
  BY DEF TellPaid, AuditInv, TypeOK, CrupierOnly
<1>1. PICK s \in recollected :
        /\ First(recollected, s)
        /\ \/ recollected' = recollected \ {s} /\ cpc' = "pay"
           \/ UNCHANGED <<recollected, cpc>>
  BY DEF TellPaid
<1>2. /\ s.box \in Box /\ s.player \in Player
      /\ s = Entry(s.box, s.player) /\ Wins(s.box)
      /\ Current(s.box, s.player)
      /\ \A b, p : (b # s.box \/ p # s.player) => Entry(b, p) # s /\ ~ Current(b, p)
  BY <1>0, <1>1, AtHand
<1>3. \A b : ~ OnBoard(b) /\ ~ OnBoard(b)'
  BY <1>0, <1>1 DEF OnBoard
<1>4. WhereItIs'
  <2>1. \A t \in recollected' : t = Entry(t.box, t.player)'
    BY <1>0, <1>1, SheetKept DEF WhereItIs
  <2> QED
    BY <1>0, <1>1, <1>3, <2>1 DEF WhereItIs, Settling
<1>5. \A b \in Box, p \in Player :
        /\ Losses(p)[b] = 0 \/ (Outstanding(b, p)' <=> Outstanding(b, p))
        /\ Uncharged(b, p)' <=> Uncharged(b, p)
        /\ Uncredited(b, p)' <=> Uncredited(b, p)
  <2>1. CASE UNCHANGED <<recollected, cpc>>
    <3>1. \A b \in Box, p \in Player :
            /\ InHand(b, p)' <=> InHand(b, p)
            /\ Current(b, p)' <=> Current(b, p)
      BY <2>1, SheetKept DEF InHand, Current
    <3> QED
      BY <1>3, <2>1, <3>1 DEF Outstanding, Uncredited, Uncharged
  <2>2. CASE recollected' = recollected \ {s} /\ cpc' = "pay"
    <3>1. \A b \in Box, p \in Player :
            InHand(b, p)' <=> (InHand(b, p) /\ ~ (b = s.box /\ p = s.player))
      BY <1>2, <2>2, SheetKept DEF InHand
    <3>2. Losses(s.player)[s.box] = 0
      BY <1>0, <1>2, ByOutcome
    <3>3. \A b \in Box, p \in Player :
            Outstanding(b, p)' <=> (Outstanding(b, p) /\ ~ (b = s.box /\ p = s.player))
      BY <1>3, <3>1 DEF Outstanding
    <3> QED
      BY <1>0, <1>2, <2>2, <3>2, <3>3 DEF Uncredited, Uncharged
  <2> QED
    BY <1>1, <2>1, <2>2
<1>6. UNCHANGED <<Takes, Charges>> /\ \A p \in Player : ToCredit(p)' = ToCredit(p)
  BY <1>5, TakesKept, ChargesKept, CreditKept
<1>7. cpc' # "payWrite" /\ BankSettled'
  BY <1>0, <1>1, <1>6, BankKept
<1> QED
  BY <1>0, <1>4, <1>6, <1>7, QuietStep

-----------------------------------------------------------------------------
(* The accounts. *)

LEMMA CrupierSettles ==
  ASSUME CoreInv, SlipsInv, AuditInv, sheet # Null, ~ crashed, ~ Voided, cpc # "clean",
         UNCHANGED sheet, CrupierStep
  PROVE  AuditInv'
<1>1. TypeOK /\ cpc \in Settling
  BY DEF CoreInv, AuditInv, WhereItIs
<1>2. GrabLosers \/ Collect \/ GrabWinners \/ Pay \/ PayWrite \/ TellPaid
  BY <1>1 DEF CrupierStep, Settling, WaitConnections, StartBets, StopBets, Spin, CleanBets,
              NotifyBroke, Expel
<1> QED
  BY <1>1, <1>2, GrabLosersStep, CollectStep, GrabWinnersStep, PayStep, PayWriteStep,
     TellPaidStep

LEMMA OthersSettle ==
  ASSUME CoreInv, SeatInv, AuditInv, sheet # Null, ~ crashed, ~ Voided, UNCHANGED sheet,
         NEW p \in Player, ListenerStep(p) \/ ClientStep(p)
  PROVE  AuditInv'
<1>0. TypeOK /\ ~ Overlap
  BY DEF CoreInv, Voided
<1>1. CASE ListenerStep(p)
  <2>1. ~ Commit(p)
    BY <1>0 DEF Commit, Goto, Voided, TypeOK
  <2>2. UNCHANGED <<sheet, crupier, bets>>
    BY <1>0, <1>1, <2>1, ListenerBets, ListenerFrame
  <2> QED
    BY <1>0, <1>1, <2>2, ListenerWorth, OutsideStep
<1>2. CASE ClientStep(p)
  <2>1. UNCHANGED <<sheet, crupier, bets, players, held>>
    BY <1>0, <1>2, ClientFrame DEF shared
  <2>2. ASSUME NEW q \in Player, players[q] # Null
        PROVE  Worth(q)' = Worth(q)
    <3>1. Connect(p) => lpc[p] = "none"
      BY DEF Connect
    <3>2. ~ Connect(p) => UNCHANGED <<lpc, msg>>
      BY <1>2 DEF ClientStep, Join, Ask, Decline, Bet, Esc, Hangup, HearStop, Reset,
                  ClientSends, Dialog
    <3>3. CASE q = p
      BY <2>1, <2>2, <3>1, <3>2, <3>3 DEF SeatInv, ServePC, Worth
    <3>4. CASE q # p
      <4>1. lpc'[q] = lpc[q] /\ msg'[q] = msg[q]
        BY <1>0, <1>2, <3>4, ClientFrame
      <4> QED
        BY <2>1, <4>1 DEF Worth
    <3> QED
      BY <3>3, <3>4
  <2> QED
    BY <1>0, <2>1, <2>2, OutsideStep
<1> QED
  BY <1>1, <1>2

LEMMA AuditStep ==
  ASSUME CoreInv, SlipsInv, SeatInv, AuditInv, [AuditNext]_auditVars
  PROVE  AuditInv'
<1>1. CASE AuditNext /\ Draws
  BY <1>1, DrawStep DEF AuditNext
<1>2. CASE sheet' = Null
  BY <1>2 DEF AuditInv
<1>3. CASE AuditNext /\ cpc # "clean" /\ ~ Voided /\ UNCHANGED sheet /\ sheet # Null
  <2>1. Next /\ ~ crashed
    BY <1>3 DEF AuditNext, Next
  <2> QED
    BY <1>3, <2>1, CrupierSettles, OthersSettle DEF Next
<1>4. CASE UNCHANGED auditVars
  <2>1. /\ UNCHANGED <<sheet, players, bets, crashed, crupier, lpc, msg, held>>
        /\ UNCHANGED <<cpc, cbox, winner, recollected, budget, purse>>
    BY <1>4 DEF auditVars, vars, shared, crupier
  <2>2. \A p \in Player : Worth(p)' = Worth(p)
    BY <2>1, WorthKept
  <2>3. \A b, p : /\ OnBoard(b)' <=> OnBoard(b)
                  /\ InHand(b, p)' <=> InHand(b, p)
                  /\ Current(b, p)' <=> Current(b, p)
    BY <2>1, SheetKept DEF OnBoard, InHand, Current
  <2>4. \A b, p : /\ Outstanding(b, p)' <=> Outstanding(b, p)
                  /\ Uncharged(b, p)' <=> Uncharged(b, p)
                  /\ Uncredited(b, p)' <=> Uncredited(b, p)
    BY <2>1, <2>3 DEF Outstanding, Uncharged, Uncredited
  <2>5. UNCHANGED <<Takes, Charges>> /\ \A p \in Player : ToCredit(p)' = ToCredit(p)
    BY <2>1, <2>4, TakesKept, ChargesKept, CreditKept
  <2>6. WhereItIs => WhereItIs'
    <3> SUFFICES ASSUME WhereItIs PROVE WhereItIs'
      OBVIOUS
    <3>1. \A t \in recollected' : t = Entry(t.box, t.player)'
      BY <2>1, SheetKept DEF WhereItIs
    <3>2. \A b \in Box, q \in Player :
            bets'[b][q] = IF OnBoard(b)' THEN sheet'.board[b][q] ELSE Null
      BY <2>1, <2>3 DEF WhereItIs
    <3> QED
      BY <2>1, <3>1, <3>2 DEF WhereItIs
  <2>7. PurseRead => PurseRead'
    BY <2>1 DEF PurseRead
  <2>8. PlayersSettled => PlayersSettled'
    BY <2>1, <2>2, <2>5, SheetKept DEF PlayersSettled
  <2>9. BankSettled => BankSettled'
    BY <2>1, <2>5, SheetKept DEF BankSettled
  <2> QED
    BY <2>1, <2>6, <2>7, <2>8, <2>9, SheetKept DEF AuditInv
<1> QED
  BY <1>1, <1>2, <1>3, <1>4 DEF AuditNext, AuditInv

(***************************************************************************)
(* With nothing outstanding the accounts are those of the sheet.           *)
(***************************************************************************)
LEMMA AllDone ==
  ASSUME CoreInv, SlipsInv, AuditInv
  PROVE  RoundSettled
<1> SUFFICES ASSUME sheet # Null, cpc = "clean"
             PROVE  /\ \A p \in Player :
                         sheet.worth[p] # Null => Worth(p) = sheet.worth[p] + Won(p)
                    /\ budget = sheet.bank + SumFunction([p \in Player |-> LostBy(p)])
                                           - SumFunction([p \in Player |-> Won(p)])
                    /\ bets = EmptyBoard
  BY DEF RoundSettled
<1>0. TypeOK /\ SheetType /\ WhereItIs /\ PlayersSettled /\ BankSettled
  BY DEF AuditInv, CoreInv
<1>1. \A b \in Box, p \in Player : ~ OnBoard(b) /\ ~ Outstanding(b, p)
  BY DEF OnBoard, InHand, Outstanding, SlipsInv
<1>2. \A p \in Player : \A b \in Box :
        ToTake(p)[b] = 0 /\ ToCharge(p)[b] = 0 /\ ToCredit(p)[b] = 0
  BY <1>1 DEF ToTake, ToCharge, ToCredit, Uncharged, Uncredited
<1>3. \A p \in Player : /\ SumFunction(ToTake(p)) = 0
                        /\ SumFunction(ToCharge(p)) = 0
                        /\ SumFunction(ToCredit(p)) = 0
  BY <1>0, <1>2, Values, Finite, SumOfZero
<1>4. SumFunction(Takes) = 0 /\ SumFunction(Charges) = 0
  <2>1. \A p \in Player : Takes[p] = 0 /\ Charges[p] = 0
    BY <1>3 DEF Takes, Charges
  <2> QED
    BY <1>0, <2>1, SumValues, Finite, SumOfZero
<1>5. \A p \in Player : sheet.worth[p] # Null => Worth(p) = sheet.worth[p] + Won(p)
  <2>1. \A p \in Player : players[p] # Null => Worth(p) \in Int
    BY WorthType
  <2> QED
    BY <1>0, <1>3, <2>1 DEF PlayersSettled
<1>6. budget = sheet.bank + SumFunction([p \in Player |-> LostBy(p)])
                          - SumFunction([p \in Player |-> Won(p)])
  <2>1. budget \in Int
    BY <1>0 DEF TypeOK
  <2>2. budget + 0 - 0 = sheet.bank + SumFunction([p \in Player |-> LostBy(p)])
                                    - SumFunction([p \in Player |-> Won(p)])
    BY <1>0, <1>4 DEF BankSettled
  <2> QED
    BY <2>1, <2>2
<1>7. bets = EmptyBoard
  <2>1. bets \in [Box -> [Player -> Nat \cup {Null}]]
    BY <1>0 DEF TypeOK, Boards
  <2>2. \A b \in Box : bets[b] = [p \in Player |-> Null]
    BY <1>0, <1>1, <2>1 DEF WhereItIs
  <2> QED
    BY <2>1, <2>2 DEF EmptyBoard
<1> QED
  BY <1>5, <1>6, <1>7

(***************************************************************************)
(* A round that is paid out leaves everybody with what the board and the   *)
(* number say, and the bank with the rest: nobody is paid twice or passed  *)
(* over, whatever is billed meanwhile (Crupier::payBets).                  *)
(***************************************************************************)
THEOREM RoundsSettle == AuditSpec => []RoundSettled
<1> DEFINE Inv == CoreInv /\ SlipsInv /\ SeatInv /\ AuditInv
<1>1. AuditInit => Inv
  <2> SUFFICES ASSUME AuditInit PROVE SlipsInv /\ SeatInv /\ AuditInv
    BY CoreInit DEF AuditInit
  <2>1. SlipsInv
    BY DEF AuditInit, Init, SlipsInv, SlipsMatchNumber
  <2>2. SeatInv /\ AuditInv
    BY DEF AuditInit, Init, SeatInv, AuditInv
  <2> QED
    BY <2>1, <2>2
<1>2. Inv /\ [AuditNext]_auditVars => Inv'
  <2>1. [AuditNext]_auditVars => [Next]_vars
    BY DEF AuditNext, auditVars
  <2>2. CoreInv => TypeOK
    BY DEF CoreInv
  <2> QED
    BY <2>1, <2>2, CoreStep, SlipsStep, SeatStep, AuditStep
<1>3. Inv => RoundSettled
  BY AllDone
<1> QED
  BY <1>1, <1>2, <1>3, PTL DEF AuditSpec

=============================================================================
