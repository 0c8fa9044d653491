------------------------------- MODULE Matcher -------------------------------
(***************************************************************************)
(* The matcher (include/match.hpp) over its pools (include/match_queue.hpp)*)
(* one per range of scores.  Each pool has a thread of its own that takes  *)
(* two entries, looks both users up in the hall and asks for a room; the   *)
(* io thread adds and removes entries meanwhile, users come to the hall    *)
(* and leave it, and a round that ends changes a score.                    *)
(*                                                                         *)
(* A step is what happens under one lock.  An entry is not a user: a user  *)
(* may have several, and keeps them when he leaves the hall.               *)
(***************************************************************************)
EXTENDS Integers, Sequences, FiniteSets

CONSTANTS
    Users,          \* uids
    Pools,          \* number of pools (3 in the code: normal, high, super)
    MaxEntries      \* bound: entries of one user in the pools and in the threads' hands

ASSUME MatcherAssumption ==
    /\ Pools \in Nat \ {0}
    /\ MaxEntries \in Nat \ {0}

VARIABLES
    queue,      \* match_queue::_list of each pool
    pc, hand,   \* per thread: where it is in handle_match, the uids it has popped
    hall,       \* users get_conn_from_game_hall and in_game_hall find
    tier,       \* the pool a user's score selects now
    asked       \* history: users in the hall who asked for a game since they came,
                \* have not stopped, were not matched and met no failing database

threads == <<pc, hand>>
vars == <<queue, threads, hall, tier, asked>>

-----------------------------------------------------------------------------
Tiers == 1 .. Pools
Places == {"wait", "pop1", "pop2", "conn1", "conn2", "check1", "check2", "create", "add"}

In(uid, s) == \E i \in 1 .. Len(s) : s[i] = uid
InAgain(uid, s) == \E i, j \in 1 .. Len(s) : i # j /\ s[i] = uid /\ s[j] = uid
Occurrences(uid, s) == Len(SelectSeq(s, LAMBDA other : other = uid))
EntriesOf(uid) ==
    LET count[t \in 0 .. Pools] ==
            IF t = 0 THEN 0
            ELSE count[t - 1] + Occurrences(uid, queue[t]) + Occurrences(uid, hand[t])
    IN count[Pools]

Init ==
    /\ queue = [t \in Tiers |-> <<>>]
    /\ pc = [t \in Tiers |-> "wait"]
    /\ hand = [t \in Tiers |-> <<>>]
    /\ hall = {}
    /\ tier \in [Users -> Tiers]
    /\ asked = {}

-----------------------------------------------------------------------------
(* matcher::add, for the io thread and for the matcher threads: the score  *)
(* is looked up now, and a lookup that fails adds nothing.                 *)
add(uid, askers) ==
    \/ /\ queue' = [queue EXCEPT ![tier[uid]] = Append(@, uid)]
       /\ asked' = askers
    \/ /\ UNCHANGED queue
       /\ asked' = asked \ {uid}

(* The io thread.  The page need not be the one that entered the hall. *)
match_start(uid) ==
    /\ EntriesOf(uid) < MaxEntries
    /\ add(uid, asked \cup ({uid} \cap hall))
    /\ UNCHANGED <<threads, hall, tier>>

(* match_queue::remove: the entries of others stay, in their order.  This  *)
(* is SelectSeq without recursion.                                         *)
OthersAt(uid, s) == {i \in 1 .. Len(s) : s[i] # uid}
remove(uid, t) ==
    LET stay == OthersAt(uid, queue[t]) IN
    \E from \in [1 .. Cardinality(stay) -> stay] :
        /\ \A i, j \in DOMAIN from : i < j => from[i] < from[j]
        /\ \A k \in stay : \E i \in DOMAIN from : from[i] = k
        /\ queue' = [queue EXCEPT ![t] = [i \in DOMAIN from |-> queue[t][from[i]]]]

(* matcher::del looks in the pool of the score the user has now. *)
match_stop(uid) ==
    /\ remove(uid, tier[uid]) \/ UNCHANGED queue
    /\ asked' = asked \ {uid}
    /\ UNCHANGED <<threads, hall, tier>>

EntersHall(uid) ==
    /\ uid \notin hall
    /\ hall' = hall \cup {uid}
    /\ UNCHANGED <<queue, threads, tier, asked>>

LeavesHall(uid) ==
    /\ uid \in hall
    /\ hall' = hall \ {uid}
    /\ asked' = asked \ {uid}
    /\ UNCHANGED <<queue, threads, tier>>

(* user_table::win and user_table::lose of a round of this user. *)
ScoreChanges(uid) ==
    /\ \E t \in {tier[uid] - 1, tier[uid] + 1} \cap Tiers : tier' = [tier EXCEPT ![uid] = t]
    /\ UNCHANGED <<queue, threads, hall, asked>>

-----------------------------------------------------------------------------
(* handle_match, the thread of pool t. *)
Goes(t, from, to) == pc[t] = from /\ pc' = [pc EXCEPT ![t] = to]

(* A slip in the code: two in the pool are not yet enough. *)
ThreeWait(t) == Len(queue[t]) > 2
TwoWait(t) == Len(queue[t]) >= 2

Wakes(t) ==
    /\ Goes(t, "wait", "pop1")
    /\ TwoWait(t)
    /\ UNCHANGED <<queue, hand, hall, tier, asked>>

Pops(t, from, to) ==
    /\ Goes(t, from, to)
    /\ queue[t] # <<>>
    /\ hand' = [hand EXCEPT ![t] = Append(@, Head(queue[t]))]
    /\ queue' = [queue EXCEPT ![t] = Tail(@)]
    /\ UNCHANGED <<hall, tier, asked>>

(* Entries were removed since the thread woke: it waits again, or puts     *)
(* back the one it has.                                                    *)
PopsNothing(t, from, to) ==
    /\ Goes(t, from, to)
    /\ queue[t] = <<>>
    /\ UNCHANGED <<queue, hand, hall, tier, asked>>

(* A slip in the code: create_room looks for the first player only. *)
FindsUnlessSecond(t, from, i, to) ==
    /\ Goes(t, from, to)
    /\ hand[t][i] \in hall \/ i = 2
    /\ UNCHANGED <<queue, hand, hall, tier, asked>>

Finds(t, from, i, to) ==
    /\ Goes(t, from, to)
    /\ hand[t][i] \in hall
    /\ UNCHANGED <<queue, hand, hall, tier, asked>>

(* A slip in the code: the absent one is kept instead. *)
DropsPresent(t, from, i) ==
    /\ Goes(t, from, "add")
    /\ hand[t][i] \notin hall
    /\ hand' = [hand EXCEPT ![t] = <<@[i]>>]
    /\ UNCHANGED <<queue, hall, tier, asked>>

(* A user who is not found loses the entry, the other one keeps his. *)
DropsAbsent(t, from, i) ==
    /\ Goes(t, from, "add")
    /\ hand[t][i] \notin hall
    /\ hand' = [hand EXCEPT ![t] = <<@[3 - i]>>]
    /\ UNCHANGED <<queue, hall, tier, asked>>

(* create_room looks again, and makes no room when either has left since. *)
MissesPlayer(t, from, i) ==
    /\ Goes(t, from, "add")
    /\ hand[t][i] \notin hall
    /\ UNCHANGED <<queue, hand, hall, tier, asked>>

(* The room is there and both users are told. *)
Matches(t) ==
    /\ Goes(t, "create", "wait")
    /\ asked' = asked \ {hand[t][1], hand[t][2]}
    /\ hand' = [hand EXCEPT ![t] = <<>>]
    /\ UNCHANGED <<queue, hall, tier>>

(* A slip in the code: only the first of two is put back. *)
PutsBackOne(t) ==
    /\ Goes(t, "add", "wait")
    /\ add(hand[t][1], asked)
    /\ hand' = [hand EXCEPT ![t] = Tail(@)]
    /\ UNCHANGED <<hall, tier>>

(* The calls of add in handle_match, one for each uid still in hand. *)
PutsBack(t) ==
    /\ Goes(t, "add", IF Len(hand[t]) > 1 THEN "add" ELSE "wait")
    /\ add(hand[t][1], asked)
    /\ hand' = [hand EXCEPT ![t] = Tail(@)]
    /\ UNCHANGED <<hall, tier>>

handle_match(t) ==
    \/ Wakes(t)
    \/ Pops(t, "pop1", "pop2") \/ PopsNothing(t, "pop1", "wait")
    \/ Pops(t, "pop2", "conn1") \/ PopsNothing(t, "pop2", "add")
    \/ Finds(t, "conn1", 1, "conn2") \/ DropsAbsent(t, "conn1", 1)
    \/ Finds(t, "conn2", 2, "check1") \/ DropsAbsent(t, "conn2", 2)
    \/ Finds(t, "check1", 1, "check2") \/ MissesPlayer(t, "check1", 1)
    \/ Finds(t, "check2", 2, "create") \/ MissesPlayer(t, "check2", 2)
    \/ Matches(t)
    \/ PutsBack(t)

Next ==
    \/ \E uid \in Users :
         \/ match_start(uid) \/ match_stop(uid)
         \/ EntersHall(uid) \/ LeavesHall(uid) \/ ScoreChanges(uid)
    \/ \E t \in Tiers : handle_match(t)

Spec == Init /\ [][Next]_vars

(* A matcher thread that can go on does: its condition variable is         *)
(* notified on every push and waits with a predicate.                      *)
FairSpec == Spec /\ \A t \in Tiers : WF_vars(handle_match(t))

-----------------------------------------------------------------------------
(* A thread holds what its place in handle_match has in uid1 and uid2. *)
HandSize(place) ==
    CASE place \in {"wait", "pop1"} -> {0}
      [] place = "pop2" -> {1}
      [] place = "add" -> {1, 2}
      [] OTHER -> {2}

TypeOK ==
    /\ queue \in [Tiers -> Seq(Users)]
    /\ pc \in [Tiers -> Places]
    /\ hand \in [Tiers -> Seq(Users)]
    /\ \A t \in Tiers : Len(hand[t]) \in HandSize(pc[t])
    /\ hall \subseteq Users
    /\ tier \in [Users -> Tiers]
    /\ asked \subseteq Users

(* Whoever waits in the hall for a game still has an entry somewhere: no   *)
(* interleaving of pops, removals, absences found at either of the two     *)
(* looks, and puttings back loses it, whoever the other user was.          *)
AskedIsWaiting ==
    \A uid \in asked : \E t \in Tiers : In(uid, queue[t]) \/ In(uid, hand[t])

(* Two users who wait in one pool do not wait there for ever.  Users who   *)
(* keep coming and going, or asking without being in the hall, can hold    *)
(* the others up, so this is claimed for when the threads are left alone.  *)
Together(uid1, uid2) ==
    /\ {uid1, uid2} \subseteq asked
    /\ \E t \in Tiers : \A uid \in {uid1, uid2} : In(uid, queue[t]) \/ In(uid, hand[t])
WaitersMeet ==
    <>[][\E t \in Tiers : handle_match(t)]_vars =>
        \A uid1, uid2 \in Users : uid1 # uid2 => []<> ~Together(uid1, uid2)

(* Seen from outside, users are entered, brought together and given a room *)
(* as Matchmaking allows: nobody is taken who has no entry, nor twice who  *)
(* has one; both players are found in the hall, each at a moment of his    *)
(* own; and their entries are used up.  Once both are found they are no    *)
(* more waiting, but on their way to a room.                               *)
EntriesAt(t) == IF pc[t] = "create" THEN queue[t] ELSE queue[t] \o hand[t]
waiting == {uid \in Users : \E t \in Tiers : In(uid, EntriesAt(t))}
twice ==
    {uid \in Users : \E t \in Tiers :
        /\ In(uid, EntriesAt(t))
        /\ \/ InAgain(uid, EntriesAt(t))
           \/ \E other \in Tiers \ {t} : In(uid, EntriesAt(other))}
creating ==
    [t \in Tiers |->
        IF pc[t] \in {"check2", "create"}
        THEN <<hand[t][1], hand[t][2], IF pc[t] = "check2" THEN 1 ELSE 2>>
        ELSE <<>>]
Matching == INSTANCE Matchmaking WITH Threads <- Tiers
ImplementsMatchmaking == Matching!Spec

(* handle_match says it takes two players out of the pool. *)
TwoPlayers == \A t \in Tiers : pc[t] = "create" => hand[t][1] # hand[t][2]
=============================================================================
