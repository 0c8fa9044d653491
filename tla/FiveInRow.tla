----------------------------- MODULE FiveInRow -----------------------------
(***************************************************************************)
(* The pure part of class room (include/room.hpp): the board, the walk     *)
(* along a line that counts stones, and the test that a stone just placed  *)
(* completes a row.  The code's board is 15 by 15 and its row is 5 long;   *)
(* both are constants here so that the state machines built on top of it   *)
(* can play whole games on a small board.                                  *)
(***************************************************************************)
EXTENDS Integers, FiniteSets

CONSTANTS
    BOARD_ROW,      \* rows of the board (15 in the code)
    BOARD_COL,      \* columns of the board (15 in the code)
    FIVE            \* stones in a winning row (the literal 5 of room::five)

ASSUME BoardAssumption ==
    /\ BOARD_ROW \in Nat \ {0}
    /\ BOARD_COL \in Nat \ {0}
    /\ FIVE \in Nat \ {0}

EMPTY == 0
CHESS_WHITE == 1
CHESS_BLACK == 2

Colors == {CHESS_WHITE, CHESS_BLACK}
Cells == (0 .. BOARD_ROW - 1) \X (0 .. BOARD_COL - 1)
Boards == [Cells -> Colors \cup {EMPTY}]
EmptyBoard == [cell \in Cells |-> EMPTY]

(* The four directions check_win looks along: row, column, two diagonals. *)
Directions == {<<0, 1>>, <<1, 0>>, <<-1, 1>>, <<-1, -1>>}

Shift(cell, dir, k) == <<cell[1] + k * dir[1], cell[2] + k * dir[2]>>
Opposite(dir) == <<-dir[1], -dir[2]>>

(* No line of the board is longer than this. *)
Longest == IF BOARD_ROW > BOARD_COL THEN BOARD_ROW ELSE BOARD_COL

(***************************************************************************)
(* One while loop of room::five: how far from `cell' in direction dir      *)
(* stones of that color follow before the walk leaves the board or meets   *)
(* another value.  `cell' itself is not looked at.                         *)
(***************************************************************************)
Walk(board, cell, dir, color) ==
    LET own(k) == Shift(cell, dir, k) \in Cells /\ board[Shift(cell, dir, k)] = color
    IN Cardinality({k \in 1 .. Longest : \A j \in 1 .. k : own(j)})

(* Slips in the code: one stone too many is asked for; only one of the two *)
(* walks is made.                                                          *)
five_longer(board, cell, dir, color) ==
    1 + Walk(board, cell, dir, color) + Walk(board, cell, Opposite(dir), color) > FIVE
five_one_way(board, cell, dir, color) == 1 + Walk(board, cell, dir, color) >= FIVE

five(board, cell, dir, color) ==
    1 + Walk(board, cell, dir, color) + Walk(board, cell, Opposite(dir), color) >= FIVE

(* check_win's test; the caller turns a TRUE into the uid of that color. *)
check_win(board, cell, color) == \E dir \in Directions : five(board, cell, dir, color)

-----------------------------------------------------------------------------
(* Reference: the board holds FIVE stones of that color on one line. *)
Window(cell, dir) == {Shift(cell, dir, k) : k \in 0 .. FIVE - 1}
HasRow(board, color) ==
    \E cell \in Cells, dir \in Directions :
        \A c \in Window(cell, dir) : c \in Cells /\ board[c] = color
=============================================================================
