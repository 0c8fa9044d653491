----------------------------- MODULE MCFiveInRow ----------------------------
(***************************************************************************)
(* check_win on the board the program plays on, 15 by 15 with 5 in a row.  *)
(* Around a stone just placed, at the border, near it or in the middle,    *)
(* stones of its color come to stand on one of the four lines through it,  *)
(* in any pattern up to 4 cells away on both sides; every other cell of    *)
(* the line holds the other color.                                         *)
(***************************************************************************)
EXTENDS FiveInRow

CONSTANT Samples    \* rows and columns of the stone just placed

VARIABLES cell, dir, color, own
vars == <<cell, dir, color, own>>

Reach == {k \in -(FIVE - 1) .. FIVE - 1 : k # 0}
OtherColor == IF color = CHESS_WHITE THEN CHESS_BLACK ELSE CHESS_WHITE
Line == {Shift(cell, dir, k) : k \in Reach} \cap Cells

board ==
    LET mine == {cell} \cup ({Shift(cell, dir, k) : k \in own} \cap Cells)
    IN [c \in Cells |-> IF c \in mine THEN color ELSE IF c \in Line THEN OtherColor ELSE EMPTY]

Init ==
    /\ cell \in Cells /\ cell[1] \in Samples /\ cell[2] \in Samples
    /\ dir \in Directions
    /\ color \in Colors
    /\ own = {}

Next ==
    \E k \in Reach \ own :
        /\ own' = own \cup {k}
        /\ UNCHANGED <<cell, dir, color>>

Spec == Init /\ [][Next]_vars

(* check_win, which walks both ways from the stone just placed, finds a    *)
(* row exactly when the board holds one: not across the border, not over a *)
(* gap or a stone of the other color, and also when more than FIVE stones  *)
(* stand in a line.                                                        *)
CheckWinFindsRows == check_win(board, cell, color) <=> HasRow(board, color)
=============================================================================
