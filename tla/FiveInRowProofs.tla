-------------------------- MODULE FiveInRowProofs --------------------------
(***************************************************************************)
(* check_win is right on every board and for every length of row: walking  *)
(* both ways from the stone just placed finds a row exactly when there is  *)
(* one through it, and no other row can have come to be: on a board that   *)
(* had none, or with all stones of the color on one line.                  *)
(***************************************************************************)
EXTENDS FiveInRow, FiniteSetTheorems, TLAPS

Own(stones, cell, dir, color, k) ==
    Shift(cell, dir, k) \in Cells /\ stones[Shift(cell, dir, k)] = color

(* The steps a walk makes. *)
Steps(stones, cell, dir, color) ==
    {k \in 1 .. Longest : \A j \in 1 .. k : Own(stones, cell, dir, color, j)}

(* A row that the stone on `cell' is part of. *)
RowThrough(stones, cell, color) ==
    \E start \in Cells, dir \in Directions :
        /\ cell \in Window(start, dir)
        /\ \A c \in Window(start, dir) : c \in Cells /\ stones[c] = color

USE BoardAssumption

-----------------------------------------------------------------------------
(* A set of numbers from 1 on without a gap is told by how many they are.  *)
LEMMA Gapless ==
    ASSUME NEW n \in Nat, NEW S \in SUBSET (1 .. n), \A k \in S : 1 .. k \subseteq S
    PROVE  /\ Cardinality(S) \in Nat
           /\ \A k \in 1 .. n : k \in S <=> k <= Cardinality(S)
<1>1. IsFiniteSet(1 .. n)
  BY FS_Interval
<1>2. IsFiniteSet(S) /\ Cardinality(S) \in Nat
  BY <1>1, FS_Subset, FS_CardinalityType
<1>3. ASSUME NEW k \in S
      PROVE  k <= Cardinality(S)
  <2>1. Cardinality(1 .. k) = k
    BY FS_Interval
  <2>2. Cardinality(1 .. k) <= Cardinality(S)
    BY <1>2, FS_Subset
  <2>3. QED BY <2>1, <2>2
<1>4. ASSUME NEW k \in 1 .. n, k <= Cardinality(S), k \notin S
      PROVE  FALSE
  <2>1. S \subseteq 1 .. k - 1
    <3>1. SUFFICES ASSUME NEW s \in S, s >= k PROVE FALSE
      OBVIOUS
    <3>2. k \in 1 .. s
      BY <3>1
    <3>3. QED BY <1>4, <3>2
  <2>2. IsFiniteSet(1 .. k - 1) /\ Cardinality(1 .. k - 1) = k - 1
    BY FS_Interval
  <2>3. Cardinality(S) <= k - 1
    <3>1. Cardinality(S) <= Cardinality(1 .. k - 1)
      BY <2>1, <2>2, FS_Subset
    <3>2. QED BY <2>2, <3>1
  <2>4. QED BY <1>2, <1>4, <2>3
<1>5. QED BY <1>2, <1>3, <1>4

LEMMA WalkCounts ==
    ASSUME NEW stones, NEW cell, NEW dir, NEW color
    PROVE  LET w == Walk(stones, cell, dir, color) IN
           /\ w \in Nat
           /\ \A k \in 1 .. w : Own(stones, cell, dir, color, k)
           /\ \A k \in 1 .. Longest :
                (\A j \in 1 .. k : Own(stones, cell, dir, color, j)) => k <= w
<1> DEFINE S == Steps(stones, cell, dir, color)
<1>1. Walk(stones, cell, dir, color) = Cardinality(S)
  BY DEF Walk, Steps, Own
<1>2. Longest \in Nat
  BY DEF Longest
<1>3. S \in SUBSET (1 .. Longest) /\ \A k \in S : 1 .. k \subseteq S
  BY <1>2 DEF Steps
<1>4. /\ Cardinality(S) \in Nat
      /\ \A k \in 1 .. Longest : k \in S <=> k <= Cardinality(S)
  BY <1>2, <1>3, Gapless
<1>5. Cardinality(S) <= Longest
  <2>1. IsFiniteSet(1 .. Longest) /\ Cardinality(1 .. Longest) = Longest
    BY <1>2, FS_Interval
  <2>2. QED BY <1>3, <2>1, FS_Subset
<1>6. \A k \in 1 .. Cardinality(S) : Own(stones, cell, dir, color, k)
  <2>1. SUFFICES ASSUME NEW k \in 1 .. Cardinality(S) PROVE Own(stones, cell, dir, color, k)
    OBVIOUS
  <2>2. k \in S /\ k \in 1 .. k
    BY <1>2, <1>4, <1>5
  <2>3. QED BY <2>2 DEF Steps
<1>7. \A k \in 1 .. Longest :
          (\A j \in 1 .. k : Own(stones, cell, dir, color, j)) => k <= Cardinality(S)
  BY <1>4 DEF Steps
<1> HIDE DEF S
<1>8. QED BY <1>1, <1>4, <1>6, <1>7

-----------------------------------------------------------------------------
(* Places on the board *)
LEMMA ShiftAdds ==
    ASSUME NEW cell \in Int \X Int, NEW dir \in Directions, NEW i \in Int, NEW k \in Int
    PROVE  /\ Shift(cell, dir, i) \in Int \X Int
           /\ Shift(Shift(cell, dir, i), dir, k) = Shift(cell, dir, i + k)
           /\ Shift(cell, Opposite(dir), k) = Shift(cell, dir, -k)
           /\ Shift(cell, dir, 0) = cell
<1>1. CASE dir = <<0, 1>>
  BY <1>1 DEF Shift, Opposite
<1>2. CASE dir = <<1, 0>>
  BY <1>2 DEF Shift, Opposite
<1>3. CASE dir = <<-1, 1>>
  BY <1>3 DEF Shift, Opposite
<1>4. CASE dir = <<-1, -1>>
  BY <1>4 DEF Shift, Opposite
<1>5. QED BY <1>1, <1>2, <1>3, <1>4 DEF Directions

LEMMA OnBoardIsNear ==
    ASSUME NEW cell \in Cells, NEW dir \in Directions, NEW k \in Int, Shift(cell, dir, k) \in Cells
    PROVE  k <= Longest /\ -k <= Longest
<1>1. CASE dir = <<0, 1>>
  BY <1>1 DEF Shift, Cells, Longest
<1>2. CASE dir = <<1, 0>>
  BY <1>2 DEF Shift, Cells, Longest
<1>3. CASE dir = <<-1, 1>>
  BY <1>3 DEF Shift, Cells, Longest
<1>4. CASE dir = <<-1, -1>>
  BY <1>4 DEF Shift, Cells, Longest
<1>5. QED BY <1>1, <1>2, <1>3, <1>4 DEF Directions

-----------------------------------------------------------------------------
(* What the two walks find is a row through the stone. *)
LEMMA FiveIsRow ==
    ASSUME NEW stones, NEW cell \in Cells, NEW color, stones[cell] = color,
           NEW dir \in Directions, five(stones, cell, dir, color)
    PROVE  RowThrough(stones, cell, color)
<1> DEFINE f == Walk(stones, cell, dir, color)
           g == Walk(stones, cell, Opposite(dir), color)
           back == IF g < FIVE THEN g ELSE FIVE - 1
           start == Shift(cell, dir, -back)
<1>1. /\ f \in Nat
      /\ \A k \in 1 .. f : Own(stones, cell, dir, color, k)
  BY WalkCounts
<1>2. /\ g \in Nat
      /\ \A k \in 1 .. g : Own(stones, cell, Opposite(dir), color, k)
  BY WalkCounts
<1>3. 1 + f + g >= FIVE
  BY DEF five
<1> HIDE DEF f, g
<1>4. back \in 0 .. FIVE - 1 /\ back <= g /\ FIVE - 1 - back <= f
  BY <1>1, <1>2, <1>3
<1>5. cell \in Int \X Int
  BY DEF Cells
<1> HIDE DEF back
<1>6. \A k \in 0 .. FIVE - 1 : Shift(start, dir, k) = Shift(cell, dir, k - back)
  BY <1>4, <1>5, ShiftAdds
<1>7. \A i \in -back .. FIVE - 1 - back :
          Shift(cell, dir, i) \in Cells /\ stones[Shift(cell, dir, i)] = color
  <2>1. SUFFICES ASSUME NEW i \in -back .. FIVE - 1 - back
                 PROVE  Shift(cell, dir, i) \in Cells /\ stones[Shift(cell, dir, i)] = color
    OBVIOUS
  <2>2. CASE i = 0
    BY <1>5, <2>2, ShiftAdds
  <2>3. CASE i > 0
    BY <1>1, <1>4, <2>3 DEF Own
  <2>4. CASE i < 0
    <3>1. Own(stones, cell, Opposite(dir), color, -i)
      BY <1>2, <1>4, <2>4
    <3>2. Shift(cell, Opposite(dir), -i) = Shift(cell, dir, i)
      BY <1>4, <1>5, ShiftAdds
    <3>3. QED BY <3>1, <3>2 DEF Own
  <2>5. QED BY <1>4, <2>2, <2>3, <2>4
<1>8. start \in Cells
  BY <1>4, <1>7
<1>9. cell \in Window(start, dir)
  <2>1. Shift(start, dir, back) = cell
    BY <1>4, <1>5, <1>6, ShiftAdds
  <2>2. QED BY <1>4, <2>1 DEF Window
<1> HIDE DEF start
<1>10. \A c \in Window(start, dir) : c \in Cells /\ stones[c] = color
  BY <1>4, <1>6, <1>7 DEF Window
<1>11. QED BY <1>8, <1>9, <1>10 DEF RowThrough

(* A row through the stone is long enough for the two walks. *)
LEMMA RowIsFive ==
    ASSUME NEW stones, NEW cell \in Cells, NEW color, RowThrough(stones, cell, color)
    PROVE  check_win(stones, cell, color)
<1>1. PICK start \in Cells, dir \in Directions :
          /\ cell \in Window(start, dir)
          /\ \A c \in Window(start, dir) : c \in Cells /\ stones[c] = color
  BY DEF RowThrough
<1>2. PICK n \in 0 .. FIVE - 1 : cell = Shift(start, dir, n)
  BY <1>1 DEF Window
<1>3. start \in Int \X Int
  BY DEF Cells
<1>4. \A k \in -n .. FIVE - 1 - n :
          Shift(cell, dir, k) \in Cells /\ stones[Shift(cell, dir, k)] = color
  <2>1. SUFFICES ASSUME NEW k \in -n .. FIVE - 1 - n
                 PROVE  Shift(cell, dir, k) \in Cells /\ stones[Shift(cell, dir, k)] = color
    OBVIOUS
  <2>2. Shift(cell, dir, k) = Shift(start, dir, n + k) /\ n + k \in 0 .. FIVE - 1
    BY <1>2, <1>3, ShiftAdds
  <2>3. QED BY <1>1, <2>2 DEF Window
<1> DEFINE f == Walk(stones, cell, dir, color)
           g == Walk(stones, cell, Opposite(dir), color)
<1>5. f \in Nat /\ f >= FIVE - 1 - n
  <2>1. f \in Nat
    BY WalkCounts
  <2>2. CASE FIVE - 1 - n > 0
    <3>1. FIVE - 1 - n \in 1 .. Longest
      BY <1>4, <2>2, OnBoardIsNear
    <3>2. \A j \in 1 .. FIVE - 1 - n : Own(stones, cell, dir, color, j)
      BY <1>4 DEF Own
    <3>3. QED BY <2>1, <3>1, <3>2, WalkCounts
  <2> HIDE DEF f
  <2>3. QED BY <2>1, <2>2
<1>6. g \in Nat /\ g >= n
  <2>1. g \in Nat
    BY WalkCounts
  <2>2. CASE n > 0
    <3>1. n \in 1 .. Longest
      BY <1>4, <2>2, OnBoardIsNear
    <3>2. \A j \in 1 .. n : Own(stones, cell, Opposite(dir), color, j)
      <4>1. SUFFICES ASSUME NEW j \in 1 .. n PROVE Own(stones, cell, Opposite(dir), color, j)
        OBVIOUS
      <4>2. cell \in Int \X Int
        BY DEF Cells
      <4>3. Shift(cell, Opposite(dir), j) = Shift(cell, dir, -j)
        BY <4>2, ShiftAdds
      <4>4. QED BY <1>4, <4>3 DEF Own
    <3>3. QED BY <2>1, <3>1, <3>2, WalkCounts
  <2> HIDE DEF g
  <2>3. QED BY <2>1, <2>2
<1> HIDE DEF f, g
<1>7. 1 + f + g >= FIVE
  BY <1>5, <1>6
<1>8. QED BY <1>7 DEF check_win, five, f, g

-----------------------------------------------------------------------------
(* check_win answers TRUE exactly for a stone that stands in a row of FIVE *)
(* or more of its color, on every board.                                   *)
THEOREM CheckWinIsRowThrough ==
    ASSUME NEW stones, NEW cell \in Cells, NEW color, stones[cell] = color
    PROVE  check_win(stones, cell, color) <=> RowThrough(stones, cell, color)
BY FiveIsRow, RowIsFive DEF check_win

(* handle_chess need not look elsewhere: on a board without a row, the     *)
(* stone just placed completes one exactly when check_win says so.         *)
THEOREM CheckWinDecides ==
    ASSUME NEW stones \in Boards, NEW cell \in Cells, NEW color \in Colors,
           \A other \in Colors : ~HasRow(stones, other)
    PROVE  LET placed == [stones EXCEPT ![cell] = color] IN
           /\ check_win(placed, cell, color) <=> HasRow(placed, color)
           /\ \A other \in Colors \ {color} : ~HasRow(placed, other)
<1> DEFINE placed == [stones EXCEPT ![cell] = color]
<1>1. placed[cell] = color /\ \A c \in Cells \ {cell} : placed[c] = stones[c]
  BY DEF Boards
<1> HIDE DEF placed
<1>2. check_win(placed, cell, color) <=> RowThrough(placed, cell, color)
  BY <1>1, CheckWinIsRowThrough
<1>3. RowThrough(placed, cell, color) => HasRow(placed, color)
  BY DEF RowThrough, HasRow
<1>4. ASSUME NEW other \in Colors, HasRow(placed, other)
      PROVE  other = color /\ RowThrough(placed, cell, color)
  <2>1. PICK start \in Cells, dir \in Directions :
            \A c \in Window(start, dir) : c \in Cells /\ placed[c] = other
    BY <1>4 DEF HasRow
  <2>2. cell \in Window(start, dir)
    <3>1. SUFFICES ASSUME cell \notin Window(start, dir) PROVE FALSE
      OBVIOUS
    <3>2. \A c \in Window(start, dir) : c \in Cells /\ stones[c] = other
      BY <1>1, <2>1, <3>1
    <3>3. HasRow(stones, other)
      BY <3>2 DEF HasRow
    <3>4. QED BY <3>3
  <2>3. other = color
    BY <1>1, <2>1, <2>2
  <2>4. QED BY <2>1, <2>2, <2>3 DEF RowThrough
<1>5. QED BY <1>2, <1>3, <1>4 DEF placed

-----------------------------------------------------------------------------
(* Two of the four directions are never along one line. *)
LEMMA OneDirection ==
    ASSUME NEW dir \in Directions, NEW other \in Directions, NEW k \in Int,
           other[1] = k * dir[1], other[2] = k * dir[2]
    PROVE  other = dir /\ k = 1
<1>1. CASE dir = <<0, 1>>
  BY <1>1 DEF Directions
<1>2. CASE dir = <<1, 0>>
  BY <1>2 DEF Directions
<1>3. CASE dir = <<-1, 1>>
  BY <1>3 DEF Directions
<1>4. CASE dir = <<-1, -1>>
  BY <1>4 DEF Directions
<1>5. QED BY <1>1, <1>2, <1>3, <1>4 DEF Directions

LEMMA DifferenceAlong ==
    ASSUME NEW cell \in Int \X Int, NEW dir \in Directions, NEW start \in Int \X Int,
           NEW other \in Directions, NEW i \in Int, NEW j \in Int,
           start = Shift(cell, dir, i), Shift(start, other, 1) = Shift(cell, dir, j)
    PROVE  other[1] = (j - i) * dir[1] /\ other[2] = (j - i) * dir[2]
<1> USE DEF Shift
<1>1. CASE dir = <<0, 1>>
  BY <1>1 DEF Directions
<1>2. CASE dir = <<1, 0>>
  BY <1>2 DEF Directions
<1>3. CASE dir = <<-1, 1>>
  <2>1. start = <<cell[1] - i, cell[2] + i>>
    BY <1>3
  <2>2. start[1] + other[1] = cell[1] - j /\ start[2] + other[2] = cell[2] + j
    BY <1>3 DEF Directions
  <2>3. other[1] = i - j /\ other[2] = j - i
    BY <2>1, <2>2 DEF Directions
  <2>4. QED BY <1>3, <2>3
<1>4. CASE dir = <<-1, -1>>
  <2>1. start = <<cell[1] - i, cell[2] - i>>
    BY <1>4
  <2>2. start[1] + other[1] = cell[1] - j /\ start[2] + other[2] = cell[2] - j
    BY <1>4 DEF Directions
  <2>3. other[1] = i - j /\ other[2] = i - j
    BY <2>1, <2>2 DEF Directions
  <2>4. QED BY <1>4, <2>3
<1>5. QED BY <1>1, <1>2, <1>3, <1>4 DEF Directions

LEMMA ShiftsDiffer ==
    ASSUME NEW cell \in Int \X Int, NEW dir \in Directions, NEW i \in Int, NEW j \in Int,
           Shift(cell, dir, i) = Shift(cell, dir, j)
    PROVE  i = j
<1> USE DEF Shift
<1>1. CASE dir = <<0, 1>>
  BY <1>1
<1>2. CASE dir = <<1, 0>>
  BY <1>2
<1>3. CASE dir = <<-1, 1>>
  BY <1>3
<1>4. CASE dir = <<-1, -1>>
  BY <1>4
<1>5. QED BY <1>1, <1>2, <1>3, <1>4 DEF Directions

(* Where all stones of a color stand on one line, less than FIVE cells from *)
(* the one just placed, a row of them is a row through that one.           *)
LEMMA RowOnLine ==
    ASSUME NEW cell \in Cells, NEW dir \in Directions, NEW color, NEW stones,
           stones[cell] = color,
           \A c \in Cells : stones[c] = color =>
               \E k \in -(FIVE - 1) .. FIVE - 1 : c = Shift(cell, dir, k),
           HasRow(stones, color)
    PROVE  RowThrough(stones, cell, color)
<1>1. PICK start \in Cells, other \in Directions :
          \A c \in Window(start, other) : c \in Cells /\ stones[c] = color
  BY DEF HasRow
<1>2. cell \in Int \X Int /\ start \in Int \X Int
  BY DEF Cells
<1>3. \A k \in 0 .. FIVE - 1 : Shift(start, other, k) \in Window(start, other)
  BY DEF Window
<1>4. start \in Window(start, other)
  <2>1. Shift(start, other, 0) = start
    BY <1>2 DEF Shift, Directions
  <2>2. 0 \in 0 .. FIVE - 1
    OBVIOUS
  <2>3. QED BY <1>3, <2>1, <2>2
<1>5. PICK i \in -(FIVE - 1) .. FIVE - 1 : start = Shift(cell, dir, i)
  BY <1>1, <1>4
<1>6. CASE FIVE = 1
  <2>1. i = 0
    BY <1>5, <1>6
  <2>2. start = cell
    BY <1>2, <1>5, <2>1, ShiftAdds
  <2>3. QED BY <1>1, <1>4, <2>2 DEF RowThrough
<1>7. CASE FIVE > 1
  <2>1. PICK j \in -(FIVE - 1) .. FIVE - 1 : Shift(start, other, 1) = Shift(cell, dir, j)
    BY <1>1, <1>3, <1>7
  <2>2. other[1] = (j - i) * dir[1] /\ other[2] = (j - i) * dir[2]
    BY <1>2, <1>5, <2>1, DifferenceAlong
  <2>3. j - i \in Int
    BY <1>5, <2>1
  <2>4. other = dir
    BY <2>2, <2>3, OneDirection
  <2>5. PICK n \in -(FIVE - 1) .. FIVE - 1 : Shift(start, dir, FIVE - 1) = Shift(cell, dir, n)
    BY <1>1, <1>3, <1>7, <2>4
  <2>6. Shift(start, dir, FIVE - 1) = Shift(cell, dir, i + (FIVE - 1))
    BY <1>2, <1>5, <1>7, ShiftAdds
  <2>7. i + (FIVE - 1) = n
    BY <1>2, <1>5, <1>7, <2>5, <2>6, ShiftsDiffer
  <2>8. -i \in 0 .. FIVE - 1
    BY <1>5, <1>7, <2>5, <2>7
  <2>9. Shift(start, dir, -i) = cell
    <3>1. Shift(start, dir, -i) = Shift(cell, dir, i + (-i)) /\ i + (-i) = 0
      BY <1>2, <1>5, <2>8, ShiftAdds
    <3>2. QED BY <1>2, <3>1, ShiftAdds
  <2>10. cell \in Window(start, dir)
    BY <1>3, <2>4, <2>8, <2>9
  <2>11. QED BY <1>1, <2>4, <2>10 DEF RowThrough
<1>8. QED BY <1>6, <1>7

-----------------------------------------------------------------------------
(* The states TLC tries, for any board and any length of row. *)
Placing(cell, dir, color, own, Samples) == INSTANCE MCFiveInRow

(* A stone just placed, any stones of its color around it on one line, the *)
(* other color in the gaps: check_win finds a row exactly when the board   *)
(* holds one.                                                              *)
THEOREM CheckWinFinds ==
    ASSUME NEW VARIABLE cell, NEW VARIABLE dir, NEW VARIABLE color, NEW VARIABLE own,
           NEW CONSTANT Samples
    PROVE  Placing(cell, dir, color, own, Samples)!Spec =>
               []Placing(cell, dir, color, own, Samples)!CheckWinFindsRows
<1> DEFINE Near == -(FIVE - 1) .. FIVE - 1
           Inv == cell \in Cells /\ dir \in Directions /\ color \in Colors /\ own \subseteq Near
           stones == Placing(cell, dir, color, own, Samples)!board
<1>1. Placing(cell, dir, color, own, Samples)!Init => Inv
  BY DEF Placing!Init, Placing!Cells, Placing!Directions, Placing!Colors, Cells, Directions, Colors,
         Placing!CHESS_WHITE, Placing!CHESS_BLACK, CHESS_WHITE, CHESS_BLACK
<1>2. Inv /\ [Placing(cell, dir, color, own, Samples)!Next]_(Placing(cell, dir, color, own, Samples)!vars)
        => Inv'
  BY DEF Placing!Next, Placing!vars, Placing!Reach
<1>3. Inv => Placing(cell, dir, color, own, Samples)!CheckWinFindsRows
  <2>1. SUFFICES ASSUME Inv PROVE Placing(cell, dir, color, own, Samples)!CheckWinFindsRows
    OBVIOUS
  <2> DEFINE mine == {cell} \cup ({Shift(cell, dir, k) : k \in own} \cap Cells)
             line == {Shift(cell, dir, k) : k \in Near \ {0}} \cap Cells
             otherColor == IF color = CHESS_WHITE THEN CHESS_BLACK ELSE CHESS_WHITE
  <2>2. stones = [c \in Cells |-> IF c \in mine THEN color ELSE IF c \in line THEN otherColor ELSE EMPTY]
    BY DEF Placing!board, Placing!Line, Placing!OtherColor, Placing!Shift, Placing!Cells, Placing!Reach,
           Placing!CHESS_WHITE, Placing!CHESS_BLACK, Placing!EMPTY,
           Shift, Cells, CHESS_WHITE, CHESS_BLACK, EMPTY
  <2>3. \A c \in Cells : stones[c] = color <=> c \in mine
    BY <2>1, <2>2 DEF Colors, CHESS_WHITE, CHESS_BLACK, EMPTY
  <2>4. Placing(cell, dir, color, own, Samples)!CheckWinFindsRows <=>
            (check_win(stones, cell, color) <=> HasRow(stones, color))
    <3> HIDE DEF stones
    <3>1. \A c, d : Placing(cell, dir, color, own, Samples)!Walk(stones, c, d, color) =
                      Walk(stones, c, d, color)
      <4>1. SUFFICES ASSUME NEW c, NEW d
                     PROVE  Placing(cell, dir, color, own, Samples)!Walk(stones, c, d, color) =
                              Walk(stones, c, d, color)
        OBVIOUS
      <4> DEFINE there == Placing(cell, dir, color, own, Samples)!Cells
                 at(k) == Placing(cell, dir, color, own, Samples)!Shift(c, d, k)
                 far == Placing(cell, dir, color, own, Samples)!Longest
      <4>2. there = Cells /\ far = Longest /\ \A k : at(k) = Shift(c, d, k)
        BY DEF Placing!Cells, Placing!Longest, Placing!Shift, Cells, Longest, Shift
      <4>3. Placing(cell, dir, color, own, Samples)!Walk(stones, c, d, color) =
              Cardinality({k \in 1 .. far : \A j \in 1 .. k : at(j) \in there /\ stones[at(j)] = color})
        <5>1. \A S : Placing(cell, dir, color, own, Samples)!Cardinality(S) = Cardinality(S)
          BY DEF Placing!Cardinality, Cardinality
        <5>2. QED BY <5>1 DEF Placing!Walk
      <4>4. Walk(stones, c, d, color) = Cardinality(Steps(stones, c, d, color))
        BY DEF Walk, Steps, Own
      <4> HIDE DEF there, at, far
      <4>5. {k \in 1 .. far : \A j \in 1 .. k : at(j) \in there /\ stones[at(j)] = color} =
              Steps(stones, c, d, color)
        BY <4>2 DEF Steps, Own
      <4>6. QED BY <4>3, <4>4, <4>5
    <3>2. Placing(cell, dir, color, own, Samples)!check_win(stones, cell, color) <=>
            check_win(stones, cell, color)
      BY <3>1 DEF Placing!check_win, Placing!five, Placing!Opposite, Placing!Directions,
                  check_win, five, Opposite, Directions
    <3>3. Placing(cell, dir, color, own, Samples)!HasRow(stones, color) <=> HasRow(stones, color)
      BY DEF Placing!HasRow, Placing!Window, Placing!Shift, Placing!Cells, Placing!Directions,
             HasRow, Window, Shift, Cells, Directions
    <3>4. Placing(cell, dir, color, own, Samples)!CheckWinFindsRows <=>
            (Placing(cell, dir, color, own, Samples)!check_win(stones, cell, color) <=>
             Placing(cell, dir, color, own, Samples)!HasRow(stones, color))
      BY DEF Placing!CheckWinFindsRows, stones
    <3>5. QED BY <3>2, <3>3, <3>4
  <2> HIDE DEF stones
  <2>5. stones[cell] = color
    BY <2>1, <2>3
  <2>6. \A c \in Cells : stones[c] = color =>
            \E k \in -(FIVE - 1) .. FIVE - 1 : c = Shift(cell, dir, k)
    <3>1. cell = Shift(cell, dir, 0) /\ 0 \in Near
      BY <2>1 DEF Shift, Cells, Directions
    <3>2. QED BY <2>1, <2>3, <3>1
  <2>7. check_win(stones, cell, color) <=> RowThrough(stones, cell, color)
    BY <2>1, <2>5, CheckWinIsRowThrough
  <2>8. RowThrough(stones, cell, color) <=> HasRow(stones, color)
    <3>1. RowThrough(stones, cell, color) => HasRow(stones, color)
      BY DEF RowThrough, HasRow
    <3>2. HasRow(stones, color) => RowThrough(stones, cell, color)
      BY <2>1, <2>5, <2>6, RowOnLine
    <3>3. QED BY <3>1, <3>2
  <2>9. QED BY <2>4, <2>7, <2>8
<1>4. QED BY <1>1, <1>2, <1>3, PTL DEF Placing!Spec

=============================================================================
