--------------------------- MODULE MatcherProofs ---------------------------
(***************************************************************************)
(* Theorems about Matcher, for any number of users, pools and entries.     *)
(*                                                                         *)
(* Matchmaking sees of the pools and the threads' hands only who has an    *)
(* entry and who has more than one.  The refinement therefore compares who *)
(* is in a sequence once, and again, before and after Append, Tail and     *)
(* remove, and adds up two sequences, a pool and a hand, since an entry    *)
(* that only moves between them must not be seen.                          *)
(***************************************************************************)
EXTENDS Matcher, FiniteSetTheorems, TLAPS

(* Nobody is waiting who is not in the hall, so that an entry dropped      *)
(* because its user is absent is nobody's.                                 *)
AskersInHall == asked \subseteq hall

Inv == TypeOK /\ AskersInHall /\ AskedIsWaiting

Waits(uid) == \E t \in Tiers : In(uid, queue[t]) \/ In(uid, hand[t])

-----------------------------------------------------------------------------
(* Sequences *)
LEMMA InAppend ==
    ASSUME NEW s \in Seq(Users), NEW u \in Users
    PROVE  /\ Append(s, u) \in Seq(Users)
           /\ In(u, Append(s, u))
           /\ \A uid : In(uid, s) => In(uid, Append(s, u))
<1>1. Append(s, u)[Len(s) + 1] = u /\ Len(Append(s, u)) = Len(s) + 1
  OBVIOUS
<1>2. \A i \in 1 .. Len(s) : Append(s, u)[i] = s[i]
  OBVIOUS
<1>3. QED BY <1>1, <1>2 DEF In

LEMMA InTail ==
    ASSUME NEW s \in Seq(Users), s # <<>>
    PROVE  /\ Tail(s) \in Seq(Users)
           /\ Len(Tail(s)) = Len(s) - 1
           /\ Head(s) \in Users
           /\ Head(s) = s[1]
           /\ \A uid : In(uid, s) => uid = Head(s) \/ In(uid, Tail(s))
<1>1. Len(s) \in Nat /\ Len(s) > 0 /\ Tail(s) \in Seq(Users) /\ Len(Tail(s)) = Len(s) - 1
  OBVIOUS
<1>2. Head(s) = s[1] /\ Head(s) \in Users
  BY <1>1
<1>3. \A i \in 1 .. Len(Tail(s)) : Tail(s)[i] = s[i + 1]
  BY <1>1
<1>4. ASSUME NEW uid, In(uid, s), uid # Head(s)
      PROVE  In(uid, Tail(s))
  <2>1. PICK i \in 1 .. Len(s) : s[i] = uid
    BY <1>4 DEF In
  <2>2. i # 1
    BY <2>1, <1>2, <1>4
  <2>3. i - 1 \in 1 .. Len(Tail(s)) /\ Tail(s)[i - 1] = uid
    BY <1>1, <1>3, <2>1, <2>2
  <2>4. QED BY <2>3 DEF In
<1>5. QED BY <1>1, <1>2, <1>4

(* What remove leaves is a queue, and holds every other user it held.      *)
LEMMA RemoveOthers ==
    ASSUME TypeOK, NEW u \in Users, NEW t \in Tiers, remove(u, t)
    PROVE  /\ queue' \in [Tiers -> Seq(Users)]
           /\ \A other \in Tiers \ {t} : queue'[other] = queue[other]
           /\ \A uid \in Users \ {u} : In(uid, queue[t]) => In(uid, queue'[t])
<1> DEFINE s == queue[t]
           stay == OthersAt(u, s)
<1>1. s \in Seq(Users) /\ Len(s) \in Nat /\ \A i \in 1 .. Len(s) : s[i] \in Users
  BY DEF TypeOK
<1>2. stay \subseteq 1 .. Len(s)
  BY DEF OthersAt
<1>3. Cardinality(stay) \in Nat
  <2>1. IsFiniteSet(1 .. Len(s))
    BY <1>1, FS_Interval
  <2>2. QED BY <1>2, <2>1, FS_Subset, FS_CardinalityType
<1>4. PICK from \in [1 .. Cardinality(stay) -> stay] :
          /\ \A k \in stay : \E i \in DOMAIN from : from[i] = k
          /\ queue' = [queue EXCEPT ![t] = [i \in DOMAIN from |-> s[from[i]]]]
  BY DEF remove
<1> DEFINE rest == [i \in 1 .. Cardinality(stay) |-> s[from[i]]]
<1>5. rest \in Seq(Users) /\ Len(rest) = Cardinality(stay)
  <2>1. \A i \in 1 .. Cardinality(stay) : s[from[i]] \in Users
    BY <1>1, <1>2, <1>4
  <2>2. rest \in [1 .. Cardinality(stay) -> Users]
    BY <2>1
  <2> HIDE DEF rest, stay
  <2>3. QED BY <1>3, <2>2
<1>6. queue' = [queue EXCEPT ![t] = rest]
  BY <1>4
<1>7. queue'[t] = rest
  BY <1>6 DEF TypeOK
<1>8. ASSUME NEW uid \in Users \ {u}, In(uid, s)
      PROVE  In(uid, rest)
  <2>1. PICK k \in 1 .. Len(s) : s[k] = uid
    BY <1>8 DEF In
  <2>2. k \in stay
    BY <2>1, <1>8 DEF OthersAt
  <2>3. PICK i \in 1 .. Cardinality(stay) : from[i] = k
    BY <1>4, <2>2
  <2>4. rest[i] = uid
    BY <2>1, <2>3
  <2>5. QED BY <1>5, <2>3, <2>4 DEF In
<1> HIDE DEF rest
<1>9. queue' \in [Tiers -> Seq(Users)] /\ \A other \in Tiers \ {t} : queue'[other] = queue[other]
  BY <1>5, <1>6 DEF TypeOK
<1>10. QED BY <1>7, <1>8, <1>9

-----------------------------------------------------------------------------
(* add puts the user where he is found again, or ends his waiting.         *)
LEMMA AddWaits ==
    ASSUME TypeOK, NEW u \in Users, NEW askers, add(u, askers)
    PROVE  /\ queue' \in [Tiers -> Seq(Users)]
           /\ \A uid : \A t \in Tiers : In(uid, queue[t]) => In(uid, queue'[t])
           /\ asked' \subseteq askers \cup asked
           /\ u \in asked' => \E t \in Tiers : In(u, queue'[t])
<1>1. CASE queue' = [queue EXCEPT ![tier[u]] = Append(@, u)] /\ asked' = askers
  <2>1. tier[u] \in Tiers /\ queue[tier[u]] \in Seq(Users)
    BY DEF TypeOK
  <2>2. /\ Append(queue[tier[u]], u) \in Seq(Users)
        /\ In(u, Append(queue[tier[u]], u))
        /\ \A uid : In(uid, queue[tier[u]]) => In(uid, Append(queue[tier[u]], u))
    BY <2>1, InAppend
  <2>3. /\ queue'[tier[u]] = Append(queue[tier[u]], u)
        /\ \A t \in Tiers \ {tier[u]} : queue'[t] = queue[t]
    BY <1>1, <2>1 DEF TypeOK
  <2>4. queue' \in [Tiers -> Seq(Users)]
    BY <1>1, <2>1, <2>2 DEF TypeOK
  <2>5. QED BY <1>1, <2>1, <2>2, <2>3, <2>4
<1>2. CASE UNCHANGED queue /\ asked' = asked \ {u}
  BY <1>2 DEF TypeOK
<1>3. QED BY <1>1, <1>2 DEF add

-----------------------------------------------------------------------------
(* The io thread and the users *)
LEMMA MatchStartStep ==
    ASSUME Inv, NEW u \in Users, match_start(u)
    PROVE  Inv'
<1>1. add(u, asked \cup ({u} \cap hall)) /\ UNCHANGED <<threads, hall, tier>>
  BY DEF match_start
<1>2. /\ queue' \in [Tiers -> Seq(Users)]
      /\ \A uid : \A t \in Tiers : In(uid, queue[t]) => In(uid, queue'[t])
      /\ asked' \subseteq asked \cup ({u} \cap hall)
      /\ u \in asked' => \E t \in Tiers : In(u, queue'[t])
  BY <1>1, AddWaits DEF Inv
<1>3. TypeOK' /\ AskersInHall'
  BY <1>1, <1>2 DEF Inv, TypeOK, AskersInHall, threads
<1>4. AskedIsWaiting'
  BY <1>1, <1>2 DEF Inv, AskedIsWaiting, threads
<1>5. QED BY <1>3, <1>4 DEF Inv

LEMMA MatchStopStep ==
    ASSUME Inv, NEW u \in Users, match_stop(u)
    PROVE  Inv'
<1>1. asked' = asked \ {u} /\ UNCHANGED <<threads, hall, tier>>
  BY DEF match_stop
<1>2. /\ queue' \in [Tiers -> Seq(Users)]
      /\ \A uid \in Users \ {u} : \A t \in Tiers : In(uid, queue[t]) => In(uid, queue'[t])
  <2>1. CASE remove(u, tier[u])
    <3>1. tier[u] \in Tiers
      BY DEF Inv, TypeOK
    <3>2. QED BY <2>1, <3>1, RemoveOthers DEF Inv
  <2>2. CASE UNCHANGED queue
    BY <2>2 DEF Inv, TypeOK
  <2>3. QED BY <2>1, <2>2 DEF match_stop
<1>3. TypeOK' /\ AskersInHall'
  BY <1>1, <1>2 DEF Inv, TypeOK, AskersInHall, threads
<1>4. AskedIsWaiting'
  BY <1>1, <1>2 DEF Inv, TypeOK, AskedIsWaiting, threads
<1>5. QED BY <1>3, <1>4 DEF Inv

LEMMA UsersStep ==
    ASSUME Inv, NEW u \in Users, EntersHall(u) \/ LeavesHall(u) \/ ScoreChanges(u)
    PROVE  Inv'
<1>1. UNCHANGED <<queue, pc, hand>> /\ asked' \subseteq asked
  BY DEF EntersHall, LeavesHall, ScoreChanges, threads
<1>2. hall' \subseteq Users /\ asked' \subseteq hall'
  BY DEF EntersHall, LeavesHall, ScoreChanges, Inv, TypeOK, AskersInHall
<1>3. tier' \in [Users -> Tiers]
  BY DEF EntersHall, LeavesHall, ScoreChanges, Inv, TypeOK
<1>4. TypeOK'
  BY <1>1, <1>2, <1>3 DEF Inv, TypeOK
<1>5. AskedIsWaiting'
  BY <1>1 DEF Inv, AskedIsWaiting
<1>6. QED BY <1>2, <1>4, <1>5 DEF Inv, AskersInHall

-----------------------------------------------------------------------------
(* A matcher thread.  Where it goes on without touching an entry, only its *)
(* place changes, to one for the same number of uids in hand.              *)
LEMMA PlaceStep ==
    ASSUME Inv, NEW t \in Tiers, NEW to \in Places,
           pc' = [pc EXCEPT ![t] = to], HandSize(pc[t]) \subseteq HandSize(to),
           UNCHANGED <<queue, hand, hall, tier, asked>>
    PROVE  Inv'
<1>1. pc' \in [Tiers -> Places] /\ \A r \in Tiers : Len(hand'[r]) \in HandSize(pc'[r])
  BY DEF Inv, TypeOK
<1>2. TypeOK'
  BY <1>1 DEF Inv, TypeOK
<1>3. QED BY <1>2 DEF Inv, AskersInHall, AskedIsWaiting

(* Where the thread takes or drops uids, the rest is for the reader of hand. *)
LEMMA HandStep ==
    ASSUME Inv, NEW t \in Tiers, NEW to \in Places, NEW rest \in Seq(Users),
           pc' = [pc EXCEPT ![t] = to], hand' = [hand EXCEPT ![t] = rest],
           Len(rest) \in HandSize(to), UNCHANGED <<hall, tier>>,
           queue' \in [Tiers -> Seq(Users)], asked' \subseteq asked,
           \A uid \in asked' : \/ \E r \in Tiers : In(uid, queue'[r])
                               \/ \E r \in Tiers \ {t} : In(uid, hand[r])
                               \/ In(uid, rest)
    PROVE  Inv'
<1>1. pc' \in [Tiers -> Places] /\ pc'[t] = to /\ \A r \in Tiers \ {t} : pc'[r] = pc[r]
  BY DEF Inv, TypeOK
<1>2. hand' \in [Tiers -> Seq(Users)] /\ hand'[t] = rest /\ \A r \in Tiers \ {t} : hand'[r] = hand[r]
  BY DEF Inv, TypeOK
<1>3. \A r \in Tiers : Len(hand'[r]) \in HandSize(pc'[r])
  BY <1>1, <1>2 DEF Inv, TypeOK
<1>4. TypeOK' /\ AskersInHall'
  BY <1>1, <1>2, <1>3 DEF Inv, TypeOK, AskersInHall
<1>5. AskedIsWaiting'
  BY <1>2 DEF AskedIsWaiting
<1>6. QED BY <1>4, <1>5 DEF Inv

LEMMA PopsStep ==
    ASSUME Inv, NEW t \in Tiers, NEW from, NEW to \in Places, Pops(t, from, to),
           \A n \in HandSize(from) : n + 1 \in HandSize(to)
    PROVE  Inv'
<1> DEFINE u == Head(queue[t])
           rest == Append(hand[t], u)
<1>1. /\ pc[t] = from
      /\ queue[t] # <<>>
      /\ pc' = [pc EXCEPT ![t] = to]
      /\ hand' = [hand EXCEPT ![t] = rest]
      /\ queue' = [queue EXCEPT ![t] = Tail(@)]
      /\ UNCHANGED <<hall, tier, asked>>
  BY DEF Pops, Goes
<1>2. queue[t] \in Seq(Users) /\ hand[t] \in Seq(Users) /\ Len(hand[t]) \in HandSize(from)
  BY <1>1 DEF Inv, TypeOK
<1>3. /\ Tail(queue[t]) \in Seq(Users)
      /\ u \in Users
      /\ \A uid : In(uid, queue[t]) => uid = u \/ In(uid, Tail(queue[t]))
  BY <1>1, <1>2, InTail
<1>4. rest \in Seq(Users) /\ In(u, rest) /\ \A uid : In(uid, hand[t]) => In(uid, rest)
  BY <1>2, <1>3, InAppend
<1>5. Len(rest) \in HandSize(to)
  <2>1. Len(rest) = Len(hand[t]) + 1
    BY <1>2, <1>3
  <2>2. QED BY <1>2, <2>1
<1>6. /\ queue' \in [Tiers -> Seq(Users)]
      /\ queue'[t] = Tail(queue[t])
      /\ \A r \in Tiers \ {t} : queue'[r] = queue[r]
  BY <1>1, <1>3 DEF Inv, TypeOK
<1>7. \A uid \in asked : \/ \E r \in Tiers : In(uid, queue'[r])
                         \/ \E r \in Tiers \ {t} : In(uid, hand[r])
                         \/ In(uid, rest)
  BY <1>3, <1>4, <1>6 DEF Inv, AskedIsWaiting
<1> HIDE DEF rest
<1>8. QED BY <1>1, <1>4, <1>5, <1>6, <1>7, HandStep

LEMMA DropsAbsentStep ==
    ASSUME Inv, NEW t \in Tiers, NEW from \in {"conn1", "conn2"}, NEW i \in {1, 2},
           DropsAbsent(t, from, i)
    PROVE  Inv'
<1> DEFINE rest == <<hand[t][3 - i]>>
<1>1. /\ pc[t] = from
      /\ hand[t][i] \notin hall
      /\ pc' = [pc EXCEPT ![t] = "add"]
      /\ hand' = [hand EXCEPT ![t] = rest]
      /\ UNCHANGED <<queue, hall, tier, asked>>
  BY DEF DropsAbsent, Goes
<1>2. hand[t] \in Seq(Users) /\ Len(hand[t]) = 2
  BY <1>1 DEF Inv, TypeOK, HandSize
<1>3. hand[t][3 - i] \in Users
  BY <1>2
<1>4. rest \in Seq(Users) /\ Len(rest) = 1 /\ rest[1] = hand[t][3 - i]
  BY <1>3
<1>5. Len(rest) \in HandSize("add") /\ "add" \in Places
  BY <1>4 DEF HandSize, Places
<1>6. \A uid \in asked : In(uid, hand[t]) => In(uid, rest)
  <2>1. SUFFICES ASSUME NEW uid \in asked, NEW k \in {1, 2}, hand[t][k] = uid
                 PROVE  In(uid, rest)
    BY <1>2 DEF In
  <2>2. uid \in hall
    BY DEF Inv, AskersInHall
  <2>3. k = 3 - i
    BY <1>1, <2>1, <2>2
  <2>4. QED BY <1>4, <2>1, <2>3 DEF In
<1>7. \A uid \in asked : \/ \E r \in Tiers : In(uid, queue'[r])
                         \/ \E r \in Tiers \ {t} : In(uid, hand[r])
                         \/ In(uid, rest)
  BY <1>1, <1>6 DEF Inv, AskedIsWaiting
<1> HIDE DEF rest
<1>8. QED BY <1>1, <1>4, <1>5, <1>7, HandStep DEF Inv, TypeOK

LEMMA MatchesStep ==
    ASSUME Inv, NEW t \in Tiers, Matches(t)
    PROVE  Inv'
<1>1. /\ pc[t] = "create"
      /\ pc' = [pc EXCEPT ![t] = "wait"]
      /\ hand' = [hand EXCEPT ![t] = <<>>]
      /\ asked' = asked \ {hand[t][1], hand[t][2]}
      /\ UNCHANGED <<queue, hall, tier>>
  BY DEF Matches, Goes
<1>2. hand[t] \in Seq(Users) /\ Len(hand[t]) = 2
  BY <1>1 DEF Inv, TypeOK, HandSize
<1>3. \A uid \in asked' : ~In(uid, hand[t])
  BY <1>1, <1>2 DEF In
<1>4. \A uid \in asked' : \/ \E r \in Tiers : In(uid, queue'[r])
                          \/ \E r \in Tiers \ {t} : In(uid, hand[r])
                          \/ In(uid, <<>>)
  BY <1>1, <1>3 DEF Inv, AskedIsWaiting
<1>5. <<>> \in Seq(Users) /\ Len(<<>>) \in HandSize("wait") /\ "wait" \in Places
  BY DEF HandSize, Places
<1>6. QED BY <1>1, <1>4, <1>5, HandStep DEF Inv, TypeOK

LEMMA PutsBackStep ==
    ASSUME Inv, NEW t \in Tiers, PutsBack(t)
    PROVE  Inv'
<1> DEFINE u == Head(hand[t])
           rest == Tail(hand[t])
           to == IF Len(hand[t]) > 1 THEN "add" ELSE "wait"
<1>1. /\ pc[t] = "add"
      /\ pc' = [pc EXCEPT ![t] = to]
      /\ add(hand[t][1], asked)
      /\ hand' = [hand EXCEPT ![t] = rest]
      /\ UNCHANGED <<hall, tier>>
  BY DEF PutsBack, Goes, Inv, TypeOK
<1>2. hand[t] \in Seq(Users) /\ Len(hand[t]) \in {1, 2} /\ hand[t] # <<>>
  BY <1>1 DEF Inv, TypeOK, HandSize
<1>3. /\ rest \in Seq(Users)
      /\ Len(rest) = Len(hand[t]) - 1
      /\ u \in Users
      /\ u = hand[t][1]
      /\ \A uid : In(uid, hand[t]) => uid = u \/ In(uid, rest)
  BY <1>2, InTail
<1>4. to \in Places /\ Len(rest) \in HandSize(to)
  <2>1. CASE Len(hand[t]) = 1
    <3>1. to = "wait" /\ Len(rest) = 0
      BY <1>3, <2>1
    <3>2. QED BY <3>1 DEF Places, HandSize
  <2>2. CASE Len(hand[t]) = 2
    <3>1. to = "add" /\ Len(rest) = 1
      BY <1>3, <2>2
    <3>2. QED BY <3>1 DEF Places, HandSize
  <2>3. QED BY <1>2, <2>1, <2>2
<1> HIDE DEF u, rest, to
<1>5. /\ queue' \in [Tiers -> Seq(Users)]
      /\ \A uid : \A r \in Tiers : In(uid, queue[r]) => In(uid, queue'[r])
      /\ asked' \subseteq asked
      /\ u \in asked' => \E r \in Tiers : In(u, queue'[r])
  BY <1>1, <1>3, AddWaits DEF Inv
<1>6. \A uid \in asked' : \/ \E r \in Tiers : In(uid, queue'[r])
                          \/ \E r \in Tiers \ {t} : In(uid, hand[r])
                          \/ In(uid, rest)
  BY <1>3, <1>5 DEF Inv, AskedIsWaiting
<1>7. QED BY <1>1, <1>3, <1>4, <1>5, <1>6, HandStep

LEMMA ThreadStep ==
    ASSUME Inv, NEW t \in Tiers, handle_match(t)
    PROVE  Inv'
<1>1. CASE Wakes(t)
  BY <1>1, PlaceStep DEF Wakes, Goes, HandSize, Places
<1>2. CASE Pops(t, "pop1", "pop2")
  BY <1>2, PopsStep DEF HandSize, Places
<1>3. CASE PopsNothing(t, "pop1", "wait")
  BY <1>3, PlaceStep DEF PopsNothing, Goes, HandSize, Places
<1>4. CASE Pops(t, "pop2", "conn1")
  BY <1>4, PopsStep DEF HandSize, Places
<1>5. CASE PopsNothing(t, "pop2", "add")
  BY <1>5, PlaceStep DEF PopsNothing, Goes, HandSize, Places
<1>6. CASE Finds(t, "conn1", 1, "conn2") \/ Finds(t, "conn2", 2, "check1")
  BY <1>6, PlaceStep DEF Finds, Goes, HandSize, Places
<1>7. CASE Finds(t, "check1", 1, "check2") \/ Finds(t, "check2", 2, "create")
  BY <1>7, PlaceStep DEF Finds, Goes, HandSize, Places
<1>8. CASE DropsAbsent(t, "conn1", 1) \/ DropsAbsent(t, "conn2", 2)
  BY <1>8, DropsAbsentStep
<1>9. CASE MissesPlayer(t, "check1", 1) \/ MissesPlayer(t, "check2", 2)
  BY <1>9, PlaceStep DEF MissesPlayer, Goes, HandSize, Places
<1>10. CASE Matches(t)
  BY <1>10, MatchesStep
<1>11. CASE PutsBack(t)
  BY <1>11, PutsBackStep
<1>12. QED
  BY <1>1, <1>2, <1>3, <1>4, <1>5, <1>6, <1>7, <1>8, <1>9, <1>10, <1>11 DEF handle_match

-----------------------------------------------------------------------------
LEMMA InvInit == Init => Inv
<1>1. SUFFICES ASSUME Init PROVE Inv
  OBVIOUS
<1>2. TypeOK
  BY <1>1 DEF Init, TypeOK, HandSize, Places
<1>3. QED BY <1>1, <1>2 DEF Init, Inv, AskersInHall, AskedIsWaiting

LEMMA InvNext == Inv /\ [Next]_vars => Inv'
<1>1. SUFFICES ASSUME Inv, [Next]_vars PROVE Inv'
  OBVIOUS
<1>2. CASE Next
  <2>1. CASE \E u \in Users :
               \/ match_start(u) \/ match_stop(u)
               \/ EntersHall(u) \/ LeavesHall(u) \/ ScoreChanges(u)
    BY <2>1, <1>1, MatchStartStep, MatchStopStep, UsersStep
  <2>2. CASE \E t \in Tiers : handle_match(t)
    BY <2>2, <1>1, ThreadStep
  <2>3. QED BY <1>2, <2>1, <2>2 DEF Next
<1>3. CASE UNCHANGED vars
  BY <1>1, <1>3 DEF vars, threads, Inv, TypeOK, AskersInHall, AskedIsWaiting
<1>4. QED BY <1>1, <1>2, <1>3

(* The inductive invariant holds in every state the matcher reaches. *)
THEOREM Invariance == Spec => []Inv
BY InvInit, InvNext, PTL DEF Spec

(* Every thread holds in its hands what its place in handle_match says:    *)
(* uid1 and uid2 are read only where they have been popped.                *)
THEOREM TypeCorrect == Spec => []TypeOK
<1>1. Inv => TypeOK
  BY DEF Inv
<1>2. QED BY <1>1, Invariance, PTL

(* handle_match, add and del together lose nobody: who asked for a game,   *)
(* is in the hall still and was neither matched nor failed by the database *)
(* has an entry in a pool or in a thread's hands, with any number of users,*)
(* pools and entries.                                                      *)
THEOREM NobodyIsLost == Spec => []AskedIsWaiting
<1>1. Inv => AskedIsWaiting
  BY DEF Inv
<1>2. QED BY <1>1, Invariance, PTL

-----------------------------------------------------------------------------
(* Seen from outside: a thread's pool and its hands are two piles of       *)
(* entries, from one to the other of which entries go.                     *)
Piles == {"queue", "hand"} \X Tiers
piles ==
    [p \in Piles |->
        IF p[1] = "queue" THEN queue[p[2]] ELSE IF pc[p[2]] = "create" THEN <<>> ELSE hand[p[2]]]

Holders(pile) == {uid \in Users : \E p \in Piles : In(uid, pile[p])}
RepeatHolders(pile) ==
    {uid \in Users : \E p \in Piles :
        /\ In(uid, pile[p])
        /\ InAgain(uid, pile[p]) \/ \E q \in Piles \ {p} : In(uid, pile[q])}

(* The entries of two piles, and those of all others. *)
Either(uid, s, r) == In(uid, s) \/ In(uid, r)
EitherAgain(uid, s, r) == InAgain(uid, s) \/ InAgain(uid, r) \/ (In(uid, s) /\ In(uid, r))
Elsewhere(uid, f, p, q) == \E x \in Piles \ {p, q} : In(uid, f[x])
ElsewhereAgain(uid, f, p, q) ==
    \/ \E x \in Piles \ {p, q} : InAgain(uid, f[x])
    \/ \E x, y \in Piles \ {p, q} : x # y /\ In(uid, f[x]) /\ In(uid, f[y])

(* What a step may do to the entries of two piles. *)
Move(f, g, p, q) ==
    \A uid \in Users :
        /\ Either(uid, g[p], g[q]) <=> Either(uid, f[p], f[q])
        /\ EitherAgain(uid, g[p], g[q]) <=> EitherAgain(uid, f[p], f[q])
Join(f, g, p, q, u) ==
    \A uid \in Users :
        /\ Either(uid, g[p], g[q]) <=> Either(uid, f[p], f[q]) \/ uid = u
        /\ EitherAgain(uid, g[p], g[q]) <=>
             EitherAgain(uid, f[p], f[q]) \/ (uid = u /\ Either(uid, f[p], f[q]))
Lose(f, g, p, q, uids) ==
    \A uid \in Users :
        /\ uid \notin uids =>
             /\ Either(uid, g[p], g[q]) <=> Either(uid, f[p], f[q])
             /\ EitherAgain(uid, g[p], g[q]) <=> EitherAgain(uid, f[p], f[q])
        /\ uid \in uids =>
             /\ Either(uid, f[p], f[q])
             /\ Either(uid, g[p], g[q]) => EitherAgain(uid, f[p], f[q])
SameElsewhere(f, g, p, q) == \A x \in Piles \ {p, q} : g[x] = f[x]

LEMMA AgainIsIn ==
    ASSUME NEW uid, NEW s, InAgain(uid, s)
    PROVE  In(uid, s)
BY DEF InAgain, In

LEMMA Splits ==
    ASSUME NEW f, NEW p \in Piles, NEW q \in Piles \ {p}, NEW uid \in Users
    PROVE  /\ uid \in Holders(f) <=> Either(uid, f[p], f[q]) \/ Elsewhere(uid, f, p, q)
           /\ uid \in RepeatHolders(f) <=>
                \/ EitherAgain(uid, f[p], f[q])
                \/ Either(uid, f[p], f[q]) /\ Elsewhere(uid, f, p, q)
                \/ ElsewhereAgain(uid, f, p, q)
           /\ EitherAgain(uid, f[p], f[q]) => Either(uid, f[p], f[q])
           /\ ElsewhereAgain(uid, f, p, q) => Elsewhere(uid, f, p, q)
<1>1. uid \in Holders(f) <=> Either(uid, f[p], f[q]) \/ Elsewhere(uid, f, p, q)
  BY DEF Holders, Either, Elsewhere
<1>2. ASSUME uid \in RepeatHolders(f)
      PROVE  \/ EitherAgain(uid, f[p], f[q])
             \/ Either(uid, f[p], f[q]) /\ Elsewhere(uid, f, p, q)
             \/ ElsewhereAgain(uid, f, p, q)
  <2>1. CASE \E x \in Piles : InAgain(uid, f[x])
    BY <2>1 DEF EitherAgain, ElsewhereAgain
  <2>2. CASE \E x, y \in Piles : x # y /\ In(uid, f[x]) /\ In(uid, f[y])
    BY <2>2 DEF Either, EitherAgain, Elsewhere, ElsewhereAgain
  <2>3. QED BY <1>2, <2>1, <2>2 DEF RepeatHolders
<1>3. ASSUME \/ EitherAgain(uid, f[p], f[q])
             \/ Either(uid, f[p], f[q]) /\ Elsewhere(uid, f, p, q)
             \/ ElsewhereAgain(uid, f, p, q)
      PROVE  uid \in RepeatHolders(f)
  <2>1. CASE EitherAgain(uid, f[p], f[q])
    BY <2>1, AgainIsIn DEF RepeatHolders, EitherAgain
  <2>2. CASE Either(uid, f[p], f[q]) /\ Elsewhere(uid, f, p, q)
    BY <2>2 DEF RepeatHolders, Either, Elsewhere
  <2>3. CASE ElsewhereAgain(uid, f, p, q)
    BY <2>3, AgainIsIn DEF RepeatHolders, ElsewhereAgain
  <2>4. QED BY <1>3, <2>1, <2>2, <2>3
<1>4. EitherAgain(uid, f[p], f[q]) => Either(uid, f[p], f[q])
  BY AgainIsIn DEF EitherAgain, Either
<1>5. ElsewhereAgain(uid, f, p, q) => Elsewhere(uid, f, p, q)
  BY AgainIsIn DEF ElsewhereAgain, Elsewhere
<1>6. QED BY <1>1, <1>2, <1>3, <1>4, <1>5

LEMMA ElsewhereStays ==
    ASSUME NEW f, NEW g, NEW p, NEW q, SameElsewhere(f, g, p, q), NEW uid
    PROVE  /\ Elsewhere(uid, g, p, q) <=> Elsewhere(uid, f, p, q)
           /\ ElsewhereAgain(uid, g, p, q) <=> ElsewhereAgain(uid, f, p, q)
BY DEF SameElsewhere, Elsewhere, ElsewhereAgain

(* Where entries only move from one pile to the other, nobody can tell. *)
LEMMA EntriesMove ==
    ASSUME NEW f, NEW g, NEW p \in Piles, NEW q \in Piles \ {p},
           SameElsewhere(f, g, p, q), Move(f, g, p, q)
    PROVE  Holders(g) = Holders(f) /\ RepeatHolders(g) = RepeatHolders(f)
<1>1. ASSUME NEW uid \in Users
      PROVE  /\ uid \in Holders(g) <=> uid \in Holders(f)
             /\ uid \in RepeatHolders(g) <=> uid \in RepeatHolders(f)
  BY <1>1, Splits, ElsewhereStays DEF Move
<1>2. QED BY <1>1 DEF Holders, RepeatHolders

LEMMA EntryJoins ==
    ASSUME NEW f, NEW g, NEW p \in Piles, NEW q \in Piles \ {p}, NEW u \in Users,
           SameElsewhere(f, g, p, q), Join(f, g, p, q, u)
    PROVE  /\ Holders(g) = Holders(f) \cup {u}
           /\ RepeatHolders(g) = RepeatHolders(f) \cup ({u} \cap Holders(f))
<1>1. ASSUME NEW uid \in Users
      PROVE  /\ uid \in Holders(g) <=> uid \in Holders(f) \/ uid = u
             /\ uid \in RepeatHolders(g) <=>
                  uid \in RepeatHolders(f) \/ (uid = u /\ uid \in Holders(f))
  BY <1>1, Splits, ElsewhereStays DEF Join
<1>2. QED BY <1>1 DEF Holders, RepeatHolders

(* Users who lose entries had them, and keep only what was there beside.   *)
LEMMA EntriesLost ==
    ASSUME NEW f, NEW g, NEW p \in Piles, NEW q \in Piles \ {p}, NEW uids,
           SameElsewhere(f, g, p, q), Lose(f, g, p, q, uids)
    PROVE  /\ Holders(g) \in SUBSET (Holders(f) \ (uids \ RepeatHolders(f)))
           /\ Holders(f) \ uids \subseteq Holders(g)
           /\ RepeatHolders(g) \in SUBSET (RepeatHolders(f) \cap Holders(g))
           /\ RepeatHolders(f) \ uids \subseteq RepeatHolders(g)
<1>1. ASSUME NEW uid \in Users, uid \notin uids
      PROVE  /\ uid \in Holders(g) <=> uid \in Holders(f)
             /\ uid \in RepeatHolders(g) <=> uid \in RepeatHolders(f)
             /\ uid \in RepeatHolders(g) => uid \in Holders(g)
  BY <1>1, Splits, ElsewhereStays DEF Lose
<1>2. ASSUME NEW uid \in Users, uid \in uids
      PROVE  /\ uid \in Holders(f)
             /\ uid \in Holders(g) => uid \in RepeatHolders(f)
             /\ uid \in RepeatHolders(g) => uid \in RepeatHolders(f) /\ uid \in Holders(g)
  BY <1>2, Splits, ElsewhereStays DEF Lose
<1>3. Holders(g) \subseteq Users /\ Holders(f) \subseteq Users
      /\ RepeatHolders(g) \subseteq Users /\ RepeatHolders(f) \subseteq Users
  BY DEF Holders, RepeatHolders
<1>4. QED BY <1>1, <1>2, <1>3

-----------------------------------------------------------------------------
(* What changes of a sequence does to who is in it once, and again. *)
LEMMA CountEmpty ==
    ASSUME NEW uid
    PROVE  ~In(uid, <<>>) /\ ~InAgain(uid, <<>>)
BY DEF In, InAgain

LEMMA CountSingle ==
    ASSUME NEW u, NEW uid
    PROVE  (In(uid, <<u>>) <=> uid = u) /\ ~InAgain(uid, <<u>>)
<1>1. Len(<<u>>) = 1 /\ <<u>>[1] = u
  OBVIOUS
<1>2. QED BY <1>1 DEF In, InAgain

LEMMA CountAppend ==
    ASSUME NEW s \in Seq(Users), NEW u \in Users, NEW uid
    PROVE  /\ In(uid, Append(s, u)) <=> In(uid, s) \/ uid = u
           /\ InAgain(uid, Append(s, u)) <=> InAgain(uid, s) \/ (uid = u /\ In(uid, s))
<1> DEFINE n == Len(s)
           w == Append(s, u)
<1>1. n \in Nat /\ Len(w) = n + 1 /\ w[n + 1] = u /\ \A i \in 1 .. n : w[i] = s[i]
  OBVIOUS
<1>2. In(uid, w) <=> In(uid, s) \/ uid = u
  BY <1>1 DEF In
<1>3. ASSUME InAgain(uid, w)
      PROVE  InAgain(uid, s) \/ (uid = u /\ In(uid, s))
  <2>1. PICK i, j \in 1 .. n + 1 : i # j /\ w[i] = uid /\ w[j] = uid
    BY <1>1, <1>3 DEF InAgain
  <2>2. CASE i = n + 1 \/ j = n + 1
    BY <1>1, <2>1, <2>2 DEF In
  <2>3. CASE i \in 1 .. n /\ j \in 1 .. n
    BY <1>1, <2>1, <2>3 DEF InAgain
  <2>4. QED BY <1>1, <2>1, <2>2, <2>3
<1>4. ASSUME InAgain(uid, s)
      PROVE  InAgain(uid, w)
  BY <1>1, <1>4 DEF InAgain
<1>5. ASSUME uid = u, In(uid, s)
      PROVE  InAgain(uid, w)
  <2>1. PICK i \in 1 .. n : s[i] = uid
    BY <1>5 DEF In
  <2>2. i \in 1 .. Len(w) /\ n + 1 \in 1 .. Len(w) /\ i # n + 1 /\ w[i] = uid /\ w[n + 1] = uid
    BY <1>1, <1>5, <2>1
  <2> HIDE DEF n, w
  <2>3. QED BY <2>2 DEF InAgain
<1>6. QED BY <1>2, <1>3, <1>4, <1>5

LEMMA CountJoined ==
    ASSUME NEW s \in Seq(Users), NEW r \in Seq(Users), NEW uid
    PROVE  /\ In(uid, s \o r) <=> In(uid, s) \/ In(uid, r)
           /\ InAgain(uid, s \o r) <=>
                InAgain(uid, s) \/ InAgain(uid, r) \/ (In(uid, s) /\ In(uid, r))
<1> DEFINE n == Len(s)
           m == Len(r)
           w == s \o r
<1>1. /\ n \in Nat /\ m \in Nat /\ Len(w) = n + m
      /\ \A i \in 1 .. n : w[i] = s[i]
      /\ \A i \in 1 .. m : w[n + i] = r[i]
  OBVIOUS
<1>2. \A i \in 1 .. n + m : i \in 1 .. n \/ (i - n \in 1 .. m /\ w[i] = r[i - n])
  <2>1. SUFFICES ASSUME NEW i \in 1 .. n + m, i \notin 1 .. n
                 PROVE  i - n \in 1 .. m /\ w[i] = r[i - n]
    OBVIOUS
  <2> HIDE DEF n, m, w
  <2>2. i - n \in 1 .. m /\ n + (i - n) = i
    BY <1>1, <2>1
  <2>3. QED BY <1>1, <2>2
<1> HIDE DEF n, m, w
<1>3. \A i \in 1 .. n : i \in 1 .. n + m
  BY <1>1
<1>4. \A i \in 1 .. m : n + i \in 1 .. n + m /\ n + i \notin 1 .. n
  BY <1>1
<1>5. \A i, j \in 1 .. m : i # j => n + i # n + j
  BY <1>1
<1>6. \A i, j \in 1 .. n + m : i # j => i - n # j - n
  BY <1>1
<1>7. In(uid, w) <=> In(uid, s) \/ In(uid, r)
  <2>1. ASSUME In(uid, w) PROVE In(uid, s) \/ In(uid, r)
    BY <1>1, <1>2, <2>1 DEF In, n, m
  <2>2. ASSUME In(uid, s) \/ In(uid, r) PROVE In(uid, w)
    BY <1>1, <1>3, <1>4, <2>2 DEF In, n, m
  <2>3. QED BY <2>1, <2>2
<1>8. ASSUME InAgain(uid, w)
      PROVE  InAgain(uid, s) \/ InAgain(uid, r) \/ (In(uid, s) /\ In(uid, r))
  <2>1. PICK i, j \in 1 .. n + m : i # j /\ w[i] = uid /\ w[j] = uid
    BY <1>1, <1>8 DEF InAgain
  <2>2. CASE i \in 1 .. n /\ j \in 1 .. n
    BY <1>1, <2>1, <2>2 DEF InAgain, n
  <2>3. CASE i \notin 1 .. n /\ j \notin 1 .. n
    <3>1. i - n \in 1 .. m /\ j - n \in 1 .. m /\ i - n # j - n
          /\ r[i - n] = uid /\ r[j - n] = uid
      BY <1>2, <1>6, <2>1, <2>3
    <3>2. QED BY <3>1 DEF InAgain, m
  <2>4. CASE i \in 1 .. n /\ j \notin 1 .. n
    BY <1>1, <1>2, <2>1, <2>4 DEF In, n, m
  <2>5. CASE i \notin 1 .. n /\ j \in 1 .. n
    BY <1>1, <1>2, <2>1, <2>5 DEF In, n, m
  <2>6. QED BY <2>2, <2>3, <2>4, <2>5
<1>9. ASSUME InAgain(uid, s) PROVE InAgain(uid, w)
  BY <1>1, <1>3, <1>9 DEF InAgain, n
<1>10. ASSUME InAgain(uid, r) PROVE InAgain(uid, w)
  <2>1. PICK i, j \in 1 .. m : i # j /\ r[i] = uid /\ r[j] = uid
    BY <1>10 DEF InAgain, m
  <2>2. n + i \in 1 .. n + m /\ n + j \in 1 .. n + m /\ n + i # n + j
        /\ w[n + i] = uid /\ w[n + j] = uid
    BY <1>1, <1>4, <1>5, <2>1
  <2>3. QED BY <1>1, <2>2 DEF InAgain
<1>11. ASSUME In(uid, s), In(uid, r) PROVE InAgain(uid, w)
  <2>1. PICK i \in 1 .. n : s[i] = uid
    BY <1>11 DEF In, n
  <2>2. PICK j \in 1 .. m : r[j] = uid
    BY <1>11 DEF In, m
  <2>3. /\ i \in 1 .. n + m /\ n + j \in 1 .. n + m /\ i # n + j
        /\ w[i] = uid /\ w[n + j] = uid
    BY <1>1, <1>3, <1>4, <2>1, <2>2
  <2>4. QED BY <1>1, <2>3 DEF InAgain
<1>12. QED BY <1>7, <1>8, <1>9, <1>10, <1>11 DEF w

LEMMA CountTail ==
    ASSUME NEW s \in Seq(Users), s # <<>>, NEW uid
    PROVE  /\ In(uid, s) <=> In(uid, Tail(s)) \/ uid = Head(s)
           /\ InAgain(uid, s) <=> InAgain(uid, Tail(s)) \/ (uid = Head(s) /\ In(uid, Tail(s)))
<1> DEFINE n == Len(s)
           w == Tail(s)
<1>1. /\ n \in Nat /\ n > 0 /\ Len(w) = n - 1 /\ Head(s) = s[1]
      /\ \A i \in 1 .. n - 1 : w[i] = s[i + 1]
  OBVIOUS
<1>2. \A i \in 2 .. n : i - 1 \in 1 .. n - 1 /\ w[i - 1] = s[i]
  BY <1>1
<1>3. In(uid, w) => In(uid, s)
  BY <1>1 DEF In
<1>4. uid = Head(s) => In(uid, s)
  BY <1>1 DEF In
<1>5. ASSUME InAgain(uid, w)
      PROVE  InAgain(uid, s)
  <2>1. PICK i, j \in 1 .. n - 1 : i # j /\ w[i] = uid /\ w[j] = uid
    BY <1>1, <1>5 DEF InAgain
  <2>2. /\ i + 1 \in 1 .. Len(s) /\ j + 1 \in 1 .. Len(s) /\ i + 1 # j + 1
        /\ s[i + 1] = uid /\ s[j + 1] = uid
    BY <1>1, <2>1
  <2>3. QED BY <2>2 DEF InAgain
<1>6. ASSUME uid = Head(s), In(uid, w)
      PROVE  InAgain(uid, s)
  <2>1. PICK i \in 1 .. n - 1 : w[i] = uid
    BY <1>1, <1>6 DEF In
  <2>2. i + 1 \in 1 .. Len(s) /\ 1 \in 1 .. Len(s) /\ i + 1 # 1 /\ s[i + 1] = uid /\ s[1] = uid
    BY <1>1, <1>6, <2>1
  <2>3. QED BY <2>2 DEF InAgain
<1>7. ASSUME InAgain(uid, s)
      PROVE  InAgain(uid, w) \/ (uid = Head(s) /\ In(uid, w))
  <2>1. PICK i, j \in 1 .. n : i # j /\ s[i] = uid /\ s[j] = uid
    BY <1>7 DEF InAgain
  <2>2. CASE i = 1
    <3>1. j - 1 \in 1 .. Len(w) /\ w[j - 1] = uid /\ uid = Head(s)
      BY <1>1, <1>2, <2>1, <2>2
    <3>2. QED BY <3>1 DEF In
  <2>3. CASE j = 1
    <3>1. i - 1 \in 1 .. Len(w) /\ w[i - 1] = uid /\ uid = Head(s)
      BY <1>1, <1>2, <2>1, <2>3
    <3>2. QED BY <3>1 DEF In
  <2>4. CASE i # 1 /\ j # 1
    <3>1. /\ i - 1 \in 1 .. Len(w) /\ j - 1 \in 1 .. Len(w) /\ i - 1 # j - 1
          /\ w[i - 1] = uid /\ w[j - 1] = uid
      BY <1>1, <1>2, <2>1, <2>4
    <3>2. QED BY <3>1 DEF InAgain
  <2>5. QED BY <2>2, <2>3, <2>4
<1>8. In(uid, s) => uid = Head(s) \/ In(uid, w)
  BY InTail
<1>9. QED BY <1>3, <1>4, <1>5, <1>6, <1>7, <1>8

(* remove takes every entry of one user out of a pool, and none of others. *)
LEMMA CountRemove ==
    ASSUME TypeOK, NEW u \in Users, NEW t \in Tiers, remove(u, t)
    PROVE  /\ \A other \in Tiers \ {t} : queue'[other] = queue[other]
           /\ ~In(u, queue'[t]) /\ ~InAgain(u, queue'[t])
           /\ \A uid \in Users \ {u} : /\ In(uid, queue'[t]) <=> In(uid, queue[t])
                                       /\ InAgain(uid, queue'[t]) <=> InAgain(uid, queue[t])
<1> DEFINE s == queue[t]
           stay == OthersAt(u, s)
           n == Cardinality(stay)
<1>1. s \in Seq(Users) /\ Len(s) \in Nat
  BY DEF TypeOK
<1>2. n \in Nat
  <2>1. IsFiniteSet(1 .. Len(s))
    BY <1>1, FS_Interval
  <2>2. stay \subseteq 1 .. Len(s)
    BY DEF OthersAt
  <2>3. QED BY <2>1, <2>2, FS_Subset, FS_CardinalityType
<1>3. PICK from \in [1 .. n -> stay] :
          /\ \A i, j \in DOMAIN from : i < j => from[i] < from[j]
          /\ \A k \in stay : \E i \in DOMAIN from : from[i] = k
          /\ queue' = [queue EXCEPT ![t] = [i \in DOMAIN from |-> s[from[i]]]]
  BY DEF remove
<1>4. \A k \in stay : k \in 1 .. Len(s) /\ s[k] # u
  BY DEF OthersAt
<1>5. \A k \in 1 .. Len(s) : s[k] # u => k \in stay
  BY DEF OthersAt
<1> HIDE DEF stay, n
<1> DEFINE rest == [i \in 1 .. n |-> s[from[i]]]
<1>6. queue' = [queue EXCEPT ![t] = rest]
  BY <1>3
<1>7. queue'[t] = rest /\ \A other \in Tiers \ {t} : queue'[other] = queue[other]
  BY <1>6 DEF TypeOK
<1>8. rest \in Seq(Users) /\ Len(rest) = n
  <2>1. queue'[t] \in Seq(Users)
    BY RemoveOthers
  <2>2. DOMAIN rest = 1 .. n
    OBVIOUS
  <2>3. rest \in Seq(Users)
    BY <1>7, <2>1
  <2> HIDE DEF rest
  <2>4. QED BY <1>2, <2>2, <2>3
<1>9. \A i \in 1 .. n : rest[i] = s[from[i]] /\ from[i] \in stay
  BY <1>3
<1>10. \A i, j \in 1 .. n : i # j => from[i] # from[j]
  <2>1. SUFFICES ASSUME NEW i \in 1 .. n, NEW j \in 1 .. n, i < j
                 PROVE  from[i] # from[j]
    BY <1>2
  <2>2. from[i] < from[j] /\ from[i] \in Int /\ from[j] \in Int
    BY <1>3, <1>4, <1>9, <2>1
  <2>3. QED BY <2>2
<1> HIDE DEF rest
<1>11. ~In(u, rest)
  BY <1>4, <1>8, <1>9 DEF In
<1>12. ASSUME NEW uid \in Users \ {u}
       PROVE  /\ In(uid, rest) <=> In(uid, s)
              /\ InAgain(uid, rest) <=> InAgain(uid, s)
  <2>1. In(uid, rest) => In(uid, s)
    BY <1>4, <1>8, <1>9 DEF In
  <2>2. In(uid, s) => In(uid, rest)
    <3>1. SUFFICES ASSUME NEW k \in 1 .. Len(s), s[k] = uid
                   PROVE  In(uid, rest)
      BY DEF In
    <3>2. PICK i \in 1 .. n : from[i] = k
      BY <1>3, <1>5, <1>12, <3>1
    <3>3. QED BY <1>8, <1>9, <3>1, <3>2 DEF In
  <2>3. InAgain(uid, rest) => InAgain(uid, s)
    <3>1. SUFFICES ASSUME NEW i \in 1 .. n, NEW j \in 1 .. n, i # j, rest[i] = uid, rest[j] = uid
                   PROVE  InAgain(uid, s)
      BY <1>8 DEF InAgain
    <3>2. /\ from[i] \in 1 .. Len(s) /\ from[j] \in 1 .. Len(s) /\ from[i] # from[j]
          /\ s[from[i]] = uid /\ s[from[j]] = uid
      BY <1>4, <1>9, <1>10, <3>1
    <3>3. QED BY <3>2 DEF InAgain
  <2>4. InAgain(uid, s) => InAgain(uid, rest)
    <3>1. SUFFICES ASSUME NEW k \in 1 .. Len(s), NEW m \in 1 .. Len(s), k # m, s[k] = uid, s[m] = uid
                   PROVE  InAgain(uid, rest)
      BY DEF InAgain
    <3>2. PICK i \in 1 .. n : from[i] = k
      BY <1>3, <1>5, <1>12, <3>1
    <3>3. PICK j \in 1 .. n : from[j] = m
      BY <1>3, <1>5, <1>12, <3>1
    <3>4. i # j /\ rest[i] = uid /\ rest[j] = uid
      BY <1>9, <3>1, <3>2, <3>3
    <3>5. QED BY <1>8, <3>4 DEF InAgain
  <2>5. QED BY <2>1, <2>2, <2>3, <2>4
<1>13. ~InAgain(u, rest)
  BY <1>11, AgainIsIn
<1>14. QED BY <1>7, <1>11, <1>12, <1>13

-----------------------------------------------------------------------------
(* The refinement of Matchmaking.  A step changes at most one pool and one *)
(* hand.                                                                   *)
InPool(t) == <<"queue", t>>
InHand(t) == <<"hand", t>>

LEMMA PilesNamed ==
    ASSUME NEW r \in Tiers, NEW t \in Tiers
    PROVE  /\ InPool(r) \in Piles /\ InHand(t) \in Piles \ {InPool(r)}
           /\ piles[InPool(r)] = queue[r]
           /\ piles'[InPool(r)] = queue'[r]
           /\ piles[InHand(t)] = IF pc[t] = "create" THEN <<>> ELSE hand[t]
           /\ piles'[InHand(t)] = IF pc'[t] = "create" THEN <<>> ELSE hand'[t]
BY DEF Piles, piles, InPool, InHand

LEMMA PilesElsewhere ==
    ASSUME NEW r \in Tiers, NEW t \in Tiers,
           \A x \in Tiers \ {r} : queue'[x] = queue[x],
           \A x \in Tiers \ {t} : pc'[x] = pc[x] /\ hand'[x] = hand[x]
    PROVE  SameElsewhere(piles, piles', InPool(r), InHand(t))
<1>1. SUFFICES ASSUME NEW kind \in {"queue", "hand"}, NEW x \in Tiers,
                      <<kind, x>> # InPool(r), <<kind, x>> # InHand(t)
               PROVE  piles'[<<kind, x>>] = piles[<<kind, x>>]
  BY DEF Piles, SameElsewhere
<1>2. CASE kind = "queue"
  BY <1>1, <1>2 DEF piles, Piles, InPool
<1>3. CASE kind = "hand"
  BY <1>1, <1>3 DEF piles, Piles, InHand
<1>4. QED BY <1>2, <1>3

(* Matcher counts pool and hands as one. *)
LEMMA TwoPiles ==
    ASSUME TypeOK, NEW t \in Tiers, NEW uid
    PROVE  /\ In(uid, EntriesAt(t)) <=> Either(uid, piles[InPool(t)], piles[InHand(t)])
           /\ InAgain(uid, EntriesAt(t)) <=>
                EitherAgain(uid, piles[InPool(t)], piles[InHand(t)])
<1>1. queue[t] \in Seq(Users) /\ hand[t] \in Seq(Users)
  BY DEF TypeOK
<1>2. /\ piles[InPool(t)] = queue[t]
      /\ piles[InHand(t)] = IF pc[t] = "create" THEN <<>> ELSE hand[t]
  BY PilesNamed
<1>3. CASE pc[t] = "create"
  BY <1>2, <1>3, CountEmpty DEF EntriesAt, Either, EitherAgain
<1>4. CASE pc[t] # "create"
  BY <1>1, <1>2, <1>4, CountJoined DEF EntriesAt, Either, EitherAgain
<1>5. QED BY <1>3, <1>4

LEMMA HoldersAre == TypeOK => waiting = Holders(piles) /\ twice = RepeatHolders(piles)
<1>1. SUFFICES ASSUME TypeOK PROVE waiting = Holders(piles) /\ twice = RepeatHolders(piles)
  OBVIOUS
<1> DEFINE Has(uid, p) == In(uid, piles[p])
           HasAgain(uid, p) == InAgain(uid, piles[p])
<1>2. \A uid : \A t \in Tiers :
         /\ In(uid, EntriesAt(t)) <=> Has(uid, InPool(t)) \/ Has(uid, InHand(t))
         /\ InAgain(uid, EntriesAt(t)) <=>
              \/ HasAgain(uid, InPool(t))
              \/ HasAgain(uid, InHand(t))
              \/ Has(uid, InPool(t)) /\ Has(uid, InHand(t))
  BY <1>1, TwoPiles DEF Either, EitherAgain
<1>3. \A uid, p : HasAgain(uid, p) => Has(uid, p)
  BY AgainIsIn
<1> HIDE DEF Has, HasAgain
<1>4. waiting = Holders(piles)
  <2>1. ASSUME NEW uid \in Users
        PROVE  uid \in waiting <=> \E p \in Piles : Has(uid, p)
    <3>1. uid \in waiting <=>
             \E t \in Tiers : Has(uid, InPool(t)) \/ Has(uid, InHand(t))
      BY <1>2 DEF waiting
    <3>2. \A t \in Tiers : InPool(t) \in Piles /\ InHand(t) \in Piles
      BY DEF Piles, InPool, InHand
    <3>3. \A p \in Piles : \E t \in Tiers : p = InPool(t) \/ p = InHand(t)
      BY DEF Piles, InPool, InHand
    <3>4. QED BY <3>1, <3>2, <3>3
  <2>2. QED BY <2>1 DEF waiting, Holders, Has
<1>5. twice = RepeatHolders(piles)
  <2>1. ASSUME NEW uid \in Users, uid \in twice
        PROVE  \E p \in Piles :
                  Has(uid, p) /\ (HasAgain(uid, p) \/ \E q \in Piles \ {p} : Has(uid, q))
    <3>1. PICK t \in Tiers :
             /\ In(uid, EntriesAt(t))
             /\ \/ InAgain(uid, EntriesAt(t))
                \/ \E other \in Tiers \ {t} : In(uid, EntriesAt(other))
      BY <2>1 DEF twice
    <3>2. \A x \in Tiers : InPool(x) \in Piles /\ InHand(x) \in Piles \ {InPool(x)}
      BY DEF Piles, InPool, InHand
    <3>3. CASE InAgain(uid, EntriesAt(t))
      BY <1>2, <1>3, <3>2, <3>3
    <3>4. ASSUME NEW other \in Tiers \ {t}, In(uid, EntriesAt(other))
          PROVE  \E p \in Piles : Has(uid, p) /\ \E q \in Piles \ {p} : Has(uid, q)
      <4>1. {InPool(t), InHand(t)} \cap {InPool(other), InHand(other)} = {}
        BY DEF InPool, InHand
      <4>2. QED BY <1>2, <3>1, <3>2, <3>4, <4>1
    <3>5. QED BY <3>1, <3>3, <3>4
  <2>2. ASSUME NEW uid \in Users, NEW p \in Piles, Has(uid, p),
               HasAgain(uid, p) \/ \E q \in Piles \ {p} : Has(uid, q)
        PROVE  uid \in twice
    <3>1. PICK t \in Tiers : p = InPool(t) \/ p = InHand(t)
      BY DEF Piles, InPool, InHand
    <3>2. In(uid, EntriesAt(t))
      BY <1>2, <2>2, <3>1
    <3>3. CASE HasAgain(uid, p)
      <4>1. InAgain(uid, EntriesAt(t))
        BY <1>2, <3>1, <3>3
      <4>2. QED BY <3>2, <4>1 DEF twice
    <3>4. ASSUME NEW q \in Piles \ {p}, Has(uid, q)
          PROVE  uid \in twice
      <4>1. PICK other \in Tiers : q = InPool(other) \/ q = InHand(other)
        BY DEF Piles, InPool, InHand
      <4>2. In(uid, EntriesAt(other))
        BY <1>2, <3>4, <4>1
      <4>3. CASE other = t
        <5>1. InAgain(uid, EntriesAt(t))
          BY <1>2, <2>2, <3>1, <3>4, <4>1, <4>3
        <5>2. QED BY <3>2, <5>1 DEF twice
      <4>4. CASE other # t
        BY <3>2, <4>2, <4>4 DEF twice
      <4>5. QED BY <4>3, <4>4
    <3>5. QED BY <2>2, <3>3, <3>4
  <2>3. QED BY <2>1, <2>2 DEF twice, RepeatHolders, Has, HasAgain
<1>6. QED BY <1>4, <1>5

LEMMA HoldersNext == TypeOK' => waiting' = Holders(piles') /\ twice' = RepeatHolders(piles')
<1>1. (TypeOK => waiting = Holders(piles) /\ twice = RepeatHolders(piles))'
  BY HoldersAre, PTL
<1>2. QED BY <1>1 DEF Holders, RepeatHolders

LEMMA HoldersNow ==
    ASSUME TypeOK, TypeOK'
    PROVE  /\ waiting = Holders(piles) /\ twice = RepeatHolders(piles)
           /\ waiting' = Holders(piles') /\ twice' = RepeatHolders(piles')
BY HoldersAre, HoldersNext

LEMMA NobodyCreates ==
    ASSUME NEW t \in Tiers,
           \A x \in Tiers \ {t} : pc'[x] = pc[x] /\ hand'[x] = hand[x],
           {pc[t], pc'[t]} \cap {"check2", "create"} = {}
    PROVE  UNCHANGED creating
<1>1. \A x \in Tiers \ {t} : creating'[x] = creating[x]
  BY DEF creating
<1>2. creating'[t] = creating[t]
  BY DEF creating
<1>3. QED BY <1>1, <1>2 DEF creating

-----------------------------------------------------------------------------
(* The io thread *)
LEMMA AddJoins ==
    ASSUME TypeOK, TypeOK', NEW u \in Users, NEW askers, add(u, askers), UNCHANGED <<threads, hall>>
    PROVE  Matching!Joins(u) \/ UNCHANGED Matching!vars
<1>1. CASE queue' = [queue EXCEPT ![tier[u]] = Append(@, u)]
  <2> DEFINE r == tier[u]
             p == InPool(r)
             q == InHand(r)
  <2>1. r \in Tiers /\ queue[r] \in Seq(Users)
    BY DEF TypeOK
  <2>2. /\ queue'[r] = Append(queue[r], u)
        /\ \A x \in Tiers \ {r} : queue'[x] = queue[x]
        /\ \A x \in Tiers : pc'[x] = pc[x] /\ hand'[x] = hand[x]
    BY <1>1, <2>1 DEF TypeOK, threads
  <2>3. /\ p \in Piles /\ q \in Piles \ {p}
        /\ piles[p] = queue[r] /\ piles'[p] = Append(queue[r], u)
        /\ piles'[q] = piles[q]
    BY <2>1, <2>2, PilesNamed
  <2>4. SameElsewhere(piles, piles', p, q)
    BY <2>1, <2>2, PilesElsewhere
  <2>5. \A uid \in Users :
           /\ In(uid, piles'[p]) <=> In(uid, piles[p]) \/ uid = u
           /\ InAgain(uid, piles'[p]) <=> InAgain(uid, piles[p]) \/ (uid = u /\ In(uid, piles[p]))
    BY <2>1, <2>3, CountAppend
  <2> HIDE DEF r, p, q
  <2>6. Join(piles, piles', p, q, u)
    BY <2>3, <2>5 DEF Join, Either, EitherAgain
  <2>7. /\ Holders(piles') = Holders(piles) \cup {u}
        /\ RepeatHolders(piles') = RepeatHolders(piles) \cup ({u} \cap Holders(piles))
    BY <2>3, <2>4, <2>6, EntryJoins
  <2>8. UNCHANGED creating
    BY DEF creating, threads
  <2>9. QED BY <2>7, <2>8, HoldersNow DEF Matching!Joins
<1>2. CASE UNCHANGED queue
  <2>1. UNCHANGED <<hall, waiting, twice, creating>>
    BY <1>2 DEF threads, waiting, twice, EntriesAt, creating
  <2>2. QED BY <2>1 DEF Matching!vars, Matching!entries
<1>3. QED BY <1>1, <1>2 DEF add

LEMMA MatchStopForgets ==
    ASSUME TypeOK, TypeOK', NEW u \in Users, match_stop(u)
    PROVE  Matching!Forgets(u) \/ UNCHANGED Matching!vars
<1>1. UNCHANGED creating /\ UNCHANGED hall
  BY DEF match_stop, creating, threads
<1>2. CASE remove(u, tier[u])
  <2> DEFINE r == tier[u]
             p == InPool(r)
             q == InHand(r)
  <2>1. r \in Tiers
    BY DEF TypeOK
  <2>2. /\ \A x \in Tiers \ {r} : queue'[x] = queue[x]
        /\ ~In(u, queue'[r]) /\ ~InAgain(u, queue'[r])
        /\ \A uid \in Users \ {u} : /\ In(uid, queue'[r]) <=> In(uid, queue[r])
                                    /\ InAgain(uid, queue'[r]) <=> InAgain(uid, queue[r])
    BY <1>2, <2>1, CountRemove
  <2>3. /\ p \in Piles /\ q \in Piles \ {p}
        /\ piles[p] = queue[r] /\ piles'[p] = queue'[r]
        /\ piles'[q] = piles[q]
        /\ SameElsewhere(piles, piles', p, q)
    BY <2>1, <2>2, PilesNamed, PilesElsewhere DEF match_stop, threads
  <2> HIDE DEF r, p, q
  <2>4. CASE In(u, queue[r])
    <3>1. Lose(piles, piles', p, q, {u})
      BY <2>2, <2>3, <2>4 DEF Lose, Either, EitherAgain
    <3>2. Matching!LoseEntries({u})
      BY <2>3, <3>1, EntriesLost, HoldersNow DEF Matching!LoseEntries
    <3>3. QED BY <1>1, <3>2 DEF Matching!Forgets
  <2>5. CASE ~In(u, queue[r])
    <3>1. ~InAgain(u, queue[r])
      BY <2>5, AgainIsIn
    <3>2. Move(piles, piles', p, q)
      BY <2>2, <2>3, <2>5, <3>1 DEF Move, Either, EitherAgain
    <3>3. UNCHANGED <<waiting, twice>>
      BY <2>3, <3>2, EntriesMove, HoldersNow
    <3>4. QED BY <1>1, <3>3 DEF Matching!vars, Matching!entries
  <2>6. QED BY <2>4, <2>5
<1>3. CASE UNCHANGED queue
  <2>1. UNCHANGED <<waiting, twice>>
    BY <1>3 DEF match_stop, threads, waiting, twice, EntriesAt
  <2>2. QED BY <1>1, <2>1 DEF Matching!vars, Matching!entries
<1>4. QED BY <1>2, <1>3 DEF match_stop

LEMMA UsersMove ==
    ASSUME NEW u \in Users, EntersHall(u) \/ LeavesHall(u) \/ ScoreChanges(u)
    PROVE  Matching!HallChanges(u) \/ UNCHANGED Matching!vars
<1>1. UNCHANGED <<waiting, twice, creating>>
  BY DEF EntersHall, LeavesHall, ScoreChanges, threads, waiting, twice, EntriesAt, creating
<1>2. hall' \in {hall \cup {u}, hall \ {u}} \/ UNCHANGED hall
  BY DEF EntersHall, LeavesHall, ScoreChanges
<1>3. QED BY <1>1, <1>2 DEF Matching!HallChanges, Matching!vars, Matching!entries

-----------------------------------------------------------------------------
(* A thread that takes or gives back entries *)
LEMMA PopsHidden ==
    ASSUME TypeOK, TypeOK', NEW t \in Tiers, NEW from, NEW to, Pops(t, from, to),
           {from, to} \cap {"check2", "create"} = {}
    PROVE  UNCHANGED Matching!vars
<1> DEFINE p == InPool(t)
           q == InHand(t)
           u == Head(queue[t])
<1>1. /\ pc[t] = from /\ pc'[t] = to
      /\ queue[t] # <<>> /\ queue[t] \in Seq(Users) /\ hand[t] \in Seq(Users)
      /\ queue'[t] = Tail(queue[t]) /\ hand'[t] = Append(hand[t], u)
      /\ \A x \in Tiers \ {t} : queue'[x] = queue[x] /\ pc'[x] = pc[x] /\ hand'[x] = hand[x]
      /\ UNCHANGED hall
  BY DEF Pops, Goes, TypeOK
<1>2. /\ p \in Piles /\ q \in Piles \ {p}
      /\ piles[p] = queue[t] /\ piles'[p] = Tail(queue[t])
      /\ piles[q] = hand[t] /\ piles'[q] = Append(hand[t], u)
      /\ SameElsewhere(piles, piles', p, q)
  BY <1>1, PilesNamed, PilesElsewhere
<1>3. \A uid : /\ In(uid, piles[p]) <=> In(uid, piles'[p]) \/ uid = u
               /\ InAgain(uid, piles[p]) <=> InAgain(uid, piles'[p]) \/ (uid = u /\ In(uid, piles'[p]))
  BY <1>1, <1>2, CountTail
<1>4. \A uid : /\ In(uid, piles'[q]) <=> In(uid, piles[q]) \/ uid = u
               /\ InAgain(uid, piles'[q]) <=> InAgain(uid, piles[q]) \/ (uid = u /\ In(uid, piles[q]))
  BY <1>1, <1>2, InTail, CountAppend
<1> HIDE DEF p, q, u
<1>5. Move(piles, piles', p, q)
  BY <1>3, <1>4 DEF Move, Either, EitherAgain
<1>6. UNCHANGED <<waiting, twice>>
  BY <1>2, <1>5, EntriesMove, HoldersNow
<1>7. UNCHANGED creating
  BY <1>1, NobodyCreates
<1>8. QED BY <1>1, <1>6, <1>7 DEF Matching!vars, Matching!entries

LEMMA DropForgets ==
    ASSUME TypeOK, TypeOK', NEW t \in Tiers, NEW from \in {"conn1", "conn2"}, NEW i \in {1, 2},
           DropsAbsent(t, from, i)
    PROVE  hand[t][i] \in Users /\ Matching!Forgets(hand[t][i])
<1> DEFINE p == InPool(t)
           q == InHand(t)
           u == hand[t][i]
           v == hand[t][3 - i]
<1>1. /\ pc[t] = from /\ pc'[t] = "add"
      /\ hand[t] \in Seq(Users) /\ Len(hand[t]) = 2
      /\ hand'[t] = <<v>>
      /\ \A x \in Tiers : queue'[x] = queue[x]
      /\ \A x \in Tiers \ {t} : pc'[x] = pc[x] /\ hand'[x] = hand[x]
      /\ UNCHANGED hall
  BY DEF DropsAbsent, Goes, TypeOK, HandSize
<1>2. /\ p \in Piles /\ q \in Piles \ {p}
      /\ piles'[p] = piles[p] /\ piles[q] = hand[t] /\ piles'[q] = <<v>>
      /\ SameElsewhere(piles, piles', p, q)
  BY <1>1, PilesNamed, PilesElsewhere
<1>3. u \in Users /\ v \in Users
  BY <1>1
<1>4. \A uid : In(uid, hand[t]) <=> uid \in {u, v}
  BY <1>1 DEF In
<1>5. \A uid : InAgain(uid, hand[t]) <=> uid = u /\ uid = v
  BY <1>1 DEF InAgain
<1>6. \A uid : (In(uid, <<v>>) <=> uid = v) /\ ~InAgain(uid, <<v>>)
  BY CountSingle
<1>7. InAgain(u, piles[p]) => In(u, piles[p])
  BY AgainIsIn
<1> HIDE DEF p, q, u, v
<1>8. Lose(piles, piles', p, q, {u})
  BY <1>2, <1>4, <1>5, <1>6, <1>7 DEF Lose, Either, EitherAgain
<1>9. Matching!LoseEntries({u})
  BY <1>2, <1>8, EntriesLost, HoldersNow DEF Matching!LoseEntries
<1>10. UNCHANGED creating
  BY <1>1, NobodyCreates
<1>11. QED BY <1>1, <1>3, <1>9, <1>10 DEF Matching!Forgets, u

LEMMA PutBackHidden ==
    ASSUME TypeOK, TypeOK', NEW t \in Tiers, PutsBack(t)
    PROVE  \/ hand[t][1] \in Users /\ Matching!Forgets(hand[t][1])
           \/ UNCHANGED Matching!vars
<1> DEFINE u == hand[t][1]
<1>1. /\ pc[t] = "add" /\ pc'[t] \in {"add", "wait"}
      /\ hand[t] \in Seq(Users) /\ hand[t] # <<>>
      /\ hand'[t] = Tail(hand[t])
      /\ \A x \in Tiers \ {t} : pc'[x] = pc[x] /\ hand'[x] = hand[x]
      /\ UNCHANGED hall
  <2>1. pc[t] = "add" /\ hand[t] \in Seq(Users) /\ Len(hand[t]) \in {1, 2}
    BY DEF PutsBack, Goes, TypeOK, HandSize
  <2>2. hand[t] # <<>>
    <3>1. SUFFICES ASSUME hand[t] = <<>> PROVE FALSE
      OBVIOUS
    <3>2. Len(hand[t]) = 0
      BY <3>1
    <3>3. QED BY <2>1, <3>2
  <2>3. /\ hand'[t] = Tail(hand[t])
        /\ \A x \in Tiers \ {t} : hand'[x] = hand[x]
        /\ UNCHANGED hall
    BY DEF PutsBack, TypeOK
  <2>4. pc'[t] \in {"add", "wait"} /\ \A x \in Tiers \ {t} : pc'[x] = pc[x]
    BY DEF PutsBack, Goes, TypeOK
  <2>5. QED BY <2>1, <2>2, <2>3, <2>4
<1>2. UNCHANGED creating
  BY <1>1, NobodyCreates
<1>3. u \in Users /\ u = Head(hand[t])
  BY <1>1, InTail
<1>4. \A uid : /\ In(uid, hand[t]) <=> In(uid, Tail(hand[t])) \/ uid = u
               /\ InAgain(uid, hand[t]) <=>
                    InAgain(uid, Tail(hand[t])) \/ (uid = u /\ In(uid, Tail(hand[t])))
  BY <1>1, <1>3, CountTail
<1>5. CASE queue' = [queue EXCEPT ![tier[u]] = Append(@, u)]
  <2> DEFINE r == tier[u]
             p == InPool(r)
             q == InHand(t)
  <2>1. r \in Tiers /\ queue[r] \in Seq(Users)
    BY <1>3 DEF TypeOK
  <2>2. /\ queue'[r] = Append(queue[r], u)
        /\ \A x \in Tiers \ {r} : queue'[x] = queue[x]
    BY <1>5, <2>1 DEF TypeOK
  <2>3. /\ p \in Piles /\ q \in Piles \ {p}
        /\ piles[p] = queue[r] /\ piles'[p] = Append(queue[r], u)
        /\ piles[q] = hand[t] /\ piles'[q] = Tail(hand[t])
        /\ SameElsewhere(piles, piles', p, q)
    BY <1>1, <2>1, <2>2, PilesNamed, PilesElsewhere
  <2>4. \A uid : /\ In(uid, piles'[p]) <=> In(uid, piles[p]) \/ uid = u
                 /\ InAgain(uid, piles'[p]) <=>
                      InAgain(uid, piles[p]) \/ (uid = u /\ In(uid, piles[p]))
    BY <1>3, <2>1, <2>3, CountAppend
  <2> HIDE DEF u, r, p, q
  <2>5. Move(piles, piles', p, q)
    BY <1>4, <2>3, <2>4 DEF Move, Either, EitherAgain
  <2>6. UNCHANGED <<waiting, twice>>
    BY <2>3, <2>5, EntriesMove, HoldersNow
  <2>7. QED BY <1>1, <1>2, <2>6 DEF Matching!vars, Matching!entries
<1>6. CASE UNCHANGED queue
  <2> DEFINE p == InPool(t)
             q == InHand(t)
  <2>1. /\ p \in Piles /\ q \in Piles \ {p}
        /\ piles'[p] = piles[p]
        /\ piles[q] = hand[t] /\ piles'[q] = Tail(hand[t])
        /\ SameElsewhere(piles, piles', p, q)
    BY <1>1, <1>6, PilesNamed, PilesElsewhere
  <2>2. InAgain(u, piles[p]) => In(u, piles[p])
    BY AgainIsIn
  <2> HIDE DEF u, p, q
  <2>3. Lose(piles, piles', p, q, {u})
    BY <1>4, <2>1, <2>2 DEF Lose, Either, EitherAgain
  <2>4. Matching!LoseEntries({u})
    BY <2>1, <2>3, EntriesLost, HoldersNow DEF Matching!LoseEntries
  <2>5. QED BY <1>1, <1>2, <1>3, <2>4 DEF Matching!Forgets, u
<1>7. QED BY <1>5, <1>6 DEF PutsBack, add

-----------------------------------------------------------------------------
(* A thread that only goes on *)
LEMMA PlaceHidden ==
    ASSUME TypeOK, TypeOK', NEW t \in Tiers, NEW to,
           pc' = [pc EXCEPT ![t] = to], UNCHANGED <<queue, hand>>, "create" \notin {pc[t], to}
    PROVE  UNCHANGED <<waiting, twice>>
<1>1. \A x \in Tiers : (pc'[x] = "create") <=> (pc[x] = "create")
  BY DEF TypeOK
<1>2. \A x \in Tiers : EntriesAt(x)' = EntriesAt(x)
  BY <1>1 DEF EntriesAt
<1>3. QED BY <1>2 DEF waiting, twice

LEMMA GoesHidden ==
    ASSUME TypeOK, TypeOK', NEW t \in Tiers, NEW from, NEW to, Goes(t, from, to),
           UNCHANGED <<queue, hand, hall>>, {from, to} \cap {"check2", "create"} = {}
    PROVE  UNCHANGED Matching!vars
<1>1. pc[t] = from /\ pc' = [pc EXCEPT ![t] = to] /\ pc'[t] = to
  BY DEF Goes, TypeOK
<1>2. UNCHANGED <<waiting, twice>>
  BY <1>1, PlaceHidden
<1>3. UNCHANGED creating
  BY <1>1, NobodyCreates DEF TypeOK
<1>4. QED BY <1>2, <1>3 DEF Matching!vars, Matching!entries

LEMMA CreatesAt ==
    ASSUME TypeOK, TypeOK', NEW t \in Tiers, NEW to,
           pc' = [pc EXCEPT ![t] = to], \A x \in Tiers \ {t} : hand'[x] = hand[x]
    PROVE  /\ creating' = [creating EXCEPT ![t] = creating'[t]]
           /\ creating[t] =
                IF pc[t] \in {"check2", "create"}
                THEN <<hand[t][1], hand[t][2], IF pc[t] = "check2" THEN 1 ELSE 2>>
                ELSE <<>>
           /\ creating'[t] =
                IF to \in {"check2", "create"}
                THEN <<hand'[t][1], hand'[t][2], IF to = "check2" THEN 1 ELSE 2>>
                ELSE <<>>
<1>1. \A x \in Tiers \ {t} : pc'[x] = pc[x]
  BY DEF TypeOK
<1>2. pc'[t] = to
  BY DEF TypeOK
<1>3. \A x \in Tiers \ {t} : creating'[x] = creating[x]
  BY <1>1 DEF creating
<1>4. QED BY <1>2, <1>3 DEF creating

LEMMA FirstFound ==
    ASSUME TypeOK, TypeOK', NEW t \in Tiers, Finds(t, "check1", 1, "check2")
    PROVE  \E uid1, uid2 \in Users : Matching!FindsFirst(t, uid1, uid2)
<1> DEFINE uid1 == hand[t][1]
           uid2 == hand[t][2]
<1>1. /\ pc[t] = "check1" /\ pc' = [pc EXCEPT ![t] = "check2"]
      /\ hand[t] \in Seq(Users) /\ Len(hand[t]) = 2
      /\ uid1 \in hall
      /\ UNCHANGED <<queue, hand, hall>>
  BY DEF Finds, Goes, TypeOK, HandSize
<1>2. /\ creating[t] = <<>> /\ creating' = [creating EXCEPT ![t] = <<uid1, uid2, 1>>]
  BY <1>1, CreatesAt
<1>3. UNCHANGED <<waiting, twice>>
  BY <1>1, PlaceHidden
<1>4. uid1 \in Users /\ uid2 \in Users
  BY <1>1
<1>5. In(uid1, hand[t]) /\ In(uid2, hand[t]) /\ (uid1 = uid2 => InAgain(uid1, hand[t]))
  BY <1>1 DEF In, InAgain
<1>6. InHand(t) \in Piles /\ piles[InHand(t)] = hand[t]
  BY <1>1, PilesNamed
<1>7. {uid1, uid2} \subseteq waiting /\ (uid1 # uid2 \/ uid1 \in twice)
  BY <1>4, <1>5, <1>6, HoldersNow DEF Holders, RepeatHolders
<1>8. Matching!FindsFirst(t, uid1, uid2)
  BY <1>1, <1>2, <1>3, <1>7 DEF Matching!FindsFirst, Matching!NoPair, Matching!entries
<1>9. QED BY <1>4, <1>8

LEMMA SecondMissed ==
    ASSUME TypeOK, TypeOK', NEW t \in Tiers, MissesPlayer(t, "check2", 2)
    PROVE  Matching!MissesSecond(t)
<1>1. /\ pc[t] = "check2" /\ pc' = [pc EXCEPT ![t] = "add"]
      /\ hand[t][2] \notin hall
      /\ UNCHANGED <<queue, hand, hall>>
  BY DEF MissesPlayer, Goes
<1>2. /\ creating[t] = <<hand[t][1], hand[t][2], 1>>
      /\ creating' = [creating EXCEPT ![t] = <<>>]
  <2>1. creating' = [creating EXCEPT ![t] = creating'[t]]
    BY <1>1, CreatesAt
  <2>2. creating'[t] = <<>>
    <3>1. pc'[t] = "add"
      BY <1>1 DEF TypeOK
    <3>2. QED BY <3>1 DEF creating
  <2>3. creating[t] = <<hand[t][1], hand[t][2], 1>>
    BY <1>1, CreatesAt
  <2>4. QED BY <2>1, <2>2, <2>3
<1>3. UNCHANGED <<waiting, twice>>
  BY <1>1, PlaceHidden
<1>4. QED
  BY <1>1, <1>2, <1>3 DEF Matching!MissesSecond, Matching!Found, Matching!NoPair, Matching!entries

LEMMA SecondFound ==
    ASSUME TypeOK, TypeOK', NEW t \in Tiers, Finds(t, "check2", 2, "create")
    PROVE  Matching!FindsSecond(t)
<1> DEFINE p == InPool(t)
           q == InHand(t)
           uids == {hand[t][1], hand[t][2]}
<1>1. /\ pc[t] = "check2" /\ pc' = [pc EXCEPT ![t] = "create"] /\ pc'[t] = "create"
      /\ hand[t] \in Seq(Users) /\ Len(hand[t]) = 2
      /\ hand[t][2] \in hall
      /\ \A x \in Tiers : queue'[x] = queue[x]
      /\ \A x \in Tiers \ {t} : pc'[x] = pc[x]
      /\ UNCHANGED <<hand, hall>>
  BY DEF Finds, Goes, TypeOK, HandSize
<1>2. /\ creating[t] = <<hand[t][1], hand[t][2], 1>>
      /\ creating' = [creating EXCEPT ![t] = <<hand[t][1], hand[t][2], 2>>]
  BY <1>1, CreatesAt
<1>3. /\ p \in Piles /\ q \in Piles \ {p}
      /\ piles'[p] = piles[p] /\ piles[q] = hand[t] /\ piles'[q] = <<>>
      /\ SameElsewhere(piles, piles', p, q)
  BY <1>1, PilesNamed, PilesElsewhere
<1>4. \A uid : In(uid, hand[t]) <=> uid \in uids
  BY <1>1 DEF In
<1>5. \A uid : InAgain(uid, hand[t]) => In(uid, hand[t])
  BY AgainIsIn
<1>6. \A uid : ~In(uid, <<>>) /\ ~InAgain(uid, <<>>)
  BY CountEmpty
<1>7. Matching!PairOf(t) = uids
  BY <1>2 DEF Matching!PairOf
<1> HIDE DEF p, q, uids
<1>8. Lose(piles, piles', p, q, uids)
  BY <1>3, <1>4, <1>5, <1>6 DEF Lose, Either, EitherAgain
<1>9. Matching!LoseEntries(uids)
  BY <1>3, <1>8, EntriesLost, HoldersNow DEF Matching!LoseEntries
<1>10. Matching!Found(t, 1) /\ creating[t][2] = hand[t][2]
       /\ creating' = [creating EXCEPT ![t] = <<@[1], @[2], 2>>]
  BY <1>2 DEF Matching!Found, Matching!NoPair, creating
<1>11. QED BY <1>1, <1>7, <1>9, <1>10 DEF Matching!FindsSecond

LEMMA MatchCreates ==
    ASSUME TypeOK, TypeOK', NEW t \in Tiers, Matches(t)
    PROVE  Matching!Creates(t)
<1>1. /\ pc[t] = "create" /\ pc' = [pc EXCEPT ![t] = "wait"] /\ pc'[t] = "wait"
      /\ hand'[t] = <<>>
      /\ \A x \in Tiers : queue'[x] = queue[x]
      /\ \A x \in Tiers \ {t} : pc'[x] = pc[x] /\ hand'[x] = hand[x]
      /\ UNCHANGED hall
  BY DEF Matches, Goes, TypeOK
<1>2. /\ creating[t] = <<hand[t][1], hand[t][2], 2>>
      /\ creating' = [creating EXCEPT ![t] = <<>>]
  BY <1>1, CreatesAt
<1>3. /\ InPool(t) \in Piles /\ InHand(t) \in Piles
      /\ piles'[InPool(t)] = piles[InPool(t)] /\ piles'[InHand(t)] = piles[InHand(t)]
      /\ SameElsewhere(piles, piles', InPool(t), InHand(t))
  BY <1>1, PilesNamed, PilesElsewhere
<1>4. piles' = piles
  BY <1>3 DEF SameElsewhere, piles
<1>5. UNCHANGED <<waiting, twice>>
  BY <1>4, HoldersNow
<1>6. QED
  BY <1>1, <1>2, <1>5 DEF Matching!Creates, Matching!Found, Matching!NoPair, Matching!entries

-----------------------------------------------------------------------------
LEMMA ThreadMatches ==
    ASSUME TypeOK, TypeOK', NEW t \in Tiers, handle_match(t)
    PROVE  [Matching!Next]_(Matching!vars)
<1>1. CASE \/ Wakes(t) \/ PopsNothing(t, "pop1", "wait") \/ PopsNothing(t, "pop2", "add")
           \/ Finds(t, "conn1", 1, "conn2") \/ Finds(t, "conn2", 2, "check1")
           \/ MissesPlayer(t, "check1", 1)
  BY <1>1, GoesHidden DEF Wakes, PopsNothing, Finds, MissesPlayer
<1>2. CASE Pops(t, "pop1", "pop2") \/ Pops(t, "pop2", "conn1")
  BY <1>2, PopsHidden
<1>3. CASE DropsAbsent(t, "conn1", 1) \/ DropsAbsent(t, "conn2", 2)
  BY <1>3, DropForgets DEF Matching!Next
<1>4. CASE PutsBack(t)
  BY <1>4, PutBackHidden DEF Matching!Next
<1>5. CASE Finds(t, "check1", 1, "check2")
  BY <1>5, FirstFound DEF Matching!Next, Matching!handle_match
<1>6. CASE MissesPlayer(t, "check2", 2)
  BY <1>6, SecondMissed DEF Matching!Next, Matching!handle_match
<1>7. CASE Finds(t, "check2", 2, "create")
  BY <1>7, SecondFound DEF Matching!Next, Matching!handle_match
<1>8. CASE Matches(t)
  BY <1>8, MatchCreates DEF Matching!Next
<1>9. QED BY <1>1, <1>2, <1>3, <1>4, <1>5, <1>6, <1>7, <1>8 DEF handle_match

LEMMA StepMatches == TypeOK /\ TypeOK' /\ [Next]_vars => [Matching!Next]_(Matching!vars)
<1>1. SUFFICES ASSUME TypeOK, TypeOK', [Next]_vars PROVE [Matching!Next]_(Matching!vars)
  OBVIOUS
<1>2. ASSUME NEW u \in Users, match_start(u)
      PROVE  [Matching!Next]_(Matching!vars)
  BY <1>1, <1>2, AddJoins DEF match_start, Matching!Next
<1>3. ASSUME NEW u \in Users, match_stop(u)
      PROVE  [Matching!Next]_(Matching!vars)
  BY <1>1, <1>3, MatchStopForgets DEF Matching!Next
<1>4. ASSUME NEW u \in Users, EntersHall(u) \/ LeavesHall(u) \/ ScoreChanges(u)
      PROVE  [Matching!Next]_(Matching!vars)
  BY <1>1, <1>4, UsersMove DEF Matching!Next
<1>5. ASSUME NEW t \in Tiers, handle_match(t)
      PROVE  [Matching!Next]_(Matching!vars)
  BY <1>1, <1>5, ThreadMatches
<1>6. CASE UNCHANGED vars
  BY <1>6 DEF vars, threads, Matching!vars, Matching!entries, waiting, twice,
              EntriesAt, creating
<1>7. QED BY <1>1, <1>2, <1>3, <1>4, <1>5, <1>6 DEF Next

LEMMA InitMatches == Init => Matching!Init
<1>1. SUFFICES ASSUME Init PROVE Matching!Init
  OBVIOUS
<1>2. \A t \in Tiers : EntriesAt(t) = <<>>
  <2>1. <<>> \o <<>> = <<>>
    OBVIOUS
  <2>2. QED BY <1>1, <2>1 DEF Init, EntriesAt
<1>3. waiting = {} /\ twice = {}
  BY <1>2, CountEmpty DEF waiting, twice
<1>4. creating = [t \in Tiers |-> <<>>]
  BY <1>1 DEF Init, creating
<1>5. QED BY <1>1, <1>3, <1>4 DEF Init, Matching!Init, Matching!NoPair

(* The pools, the threads and the locks between them bring users together  *)
(* as Matchmaking says, with any number of users, pools and entries.  Lobby*)
(* makes its rooms after the same module.                                  *)
THEOREM Refines == Spec => ImplementsMatchmaking
<1>1. TypeOK /\ TypeOK' /\ [Next]_vars => [Matching!Next]_(Matching!vars)
  BY StepMatches
<1>2. Spec => []TypeOK
  BY TypeCorrect
<1>3. QED BY <1>1, <1>2, InitMatches, PTL DEF Spec, ImplementsMatchmaking, Matching!Spec

=============================================================================
