--------------------------- MODULE RoundContract ---------------------------
(***************************************************************************)
(* What a room promises to the user table and to its two players, with     *)
(* the board, the clocks and the connections left out: rounds follow one   *)
(* another, the two players swap seats between rounds, and every round     *)
(* that ends is settled exactly once: one player wins and the other one    *)
(* loses.  A request can also make a round go to a uid that does not play; *)
(* white loses it then, and it is over all the same.  Room implements it.  *)
(***************************************************************************)
EXTENDS Integers

CONSTANTS
    UID1, UID2,     \* the players, in the order create_room got them
    Stranger        \* any uid that does not play here

VARIABLES
    playing,        \* a round is under way
    white, black,   \* who has which color
    won, lost       \* user_table::win and user_table::lose calls per player

vars == <<playing, white, black, won, lost>>

Players == {UID1, UID2}
Opponent(p) == IF p = white THEN black ELSE white

Init ==
    /\ playing = TRUE
    /\ white = UID1
    /\ black = UID2
    /\ won = [p \in Players \cup {Stranger} |-> 0]
    /\ lost = [p \in Players |-> 0]

Settle(winner) ==
    /\ playing
    /\ playing' = FALSE
    /\ won' = [won EXCEPT ![winner] = @ + 1]
    /\ lost' = [lost EXCEPT ![Opponent(winner)] = @ + 1]
    /\ UNCHANGED <<white, black>>

Rematch ==
    /\ ~playing
    /\ playing' = TRUE
    /\ white' = black
    /\ black' = white
    /\ UNCHANGED <<won, lost>>

Next == Rematch \/ \E p \in Players \cup {Stranger} : Settle(p)

Spec == Init /\ [][Next]_vars
=============================================================================
