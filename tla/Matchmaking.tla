---------------------------- MODULE Matchmaking ----------------------------
(***************************************************************************)
(* How two users become players, as far as others can tell: who has an     *)
(* entry with the matcher, who has more than one, and which pairs its      *)
(* threads are making a room for.  The pools, the order in them and the    *)
(* scores are left out.                                                    *)
(*                                                                         *)
(* Matcher implements it with its pools and threads.  Lobby takes these    *)
(* actions for its own, so that rooms come about there in every way in     *)
(* which the matcher can bring them about.                                 *)
(***************************************************************************)
EXTENDS Integers

CONSTANTS
    Users,          \* uids
    Threads         \* matcher threads

VARIABLES
    hall,           \* users in_game_hall answers true for
    waiting,        \* users with an entry in a pool, or in the hands of a thread
    twice,          \* users with more than one
    creating        \* per thread: the pair create_room is about, and how many
                    \* of the two it has found in the hall, or <<>>

entries == <<waiting, twice>>
vars == <<hall, entries, creating>>

NoPair == <<>>
Found(t, n) == creating[t] # NoPair /\ creating[t][3] = n
PairOf(t) == {creating[t][1], creating[t][2]}

Init ==
    /\ hall = {}
    /\ waiting = {}
    /\ twice = {}
    /\ creating = [t \in Threads |-> NoPair]

-----------------------------------------------------------------------------
(* matcher::add; one that fails adds nothing. *)
Joins(uid) ==
    /\ UNCHANGED <<hall, creating>>
    /\ waiting' = waiting \cup {uid}
    /\ twice' = twice \cup ({uid} \cap waiting)

(* Of these users, those with one entry lose it; of those with more, any   *)
(* may have one left, or none.                                             *)
LoseEntries(uids) ==
    /\ waiting' \in SUBSET (waiting \ (uids \ twice))
    /\ waiting \ uids \subseteq waiting'
    /\ twice' \in SUBSET (twice \cap waiting')
    /\ twice \ uids \subseteq twice'

(* matcher::del, a thread that does not find the user in the hall, or one  *)
(* that cannot put him back.                                               *)
Forgets(uid) ==
    /\ UNCHANGED <<hall, creating>>
    /\ LoseEntries({uid})

(* create_room looks for one player and then for the other, and the first  *)
(* may be gone when the second comes.                                      *)
FindsFirst(t, uid1, uid2) ==
    /\ creating[t] = NoPair
    /\ uid1 \in hall
    /\ {uid1, uid2} \subseteq waiting
    /\ uid1 # uid2 \/ uid1 \in twice
    /\ creating' = [creating EXCEPT ![t] = <<uid1, uid2, 1>>]
    /\ UNCHANGED <<hall, entries>>

MissesSecond(t) ==
    /\ Found(t, 1)
    /\ creating[t][2] \notin hall
    /\ creating' = [creating EXCEPT ![t] = NoPair]
    /\ UNCHANGED <<hall, entries>>

FindsSecond(t) ==
    /\ Found(t, 1)
    /\ creating[t][2] \in hall
    /\ creating' = [creating EXCEPT ![t] = <<@[1], @[2], 2>>]
    /\ LoseEntries(PairOf(t))
    /\ UNCHANGED hall

Creates(t) ==
    /\ Found(t, 2)
    /\ creating' = [creating EXCEPT ![t] = NoPair]
    /\ UNCHANGED <<hall, entries>>

HallChanges(uid) ==
    /\ hall' \in {hall \cup {uid}, hall \ {uid}}
    /\ UNCHANGED <<entries, creating>>

handle_match(t) ==
    \/ \E uid1, uid2 \in Users : FindsFirst(t, uid1, uid2)
    \/ MissesSecond(t)
    \/ FindsSecond(t)

Next ==
    \/ \E uid \in Users : HallChanges(uid) \/ Joins(uid) \/ Forgets(uid)
    \/ \E t \in Threads : handle_match(t) \/ Creates(t)

Spec == Init /\ [][Next]_vars
=============================================================================
