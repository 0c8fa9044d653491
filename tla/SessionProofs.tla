--------------------------- MODULE SessionProofs ---------------------------
(***************************************************************************)
(* What module Session guarantees for any number of users, session ids,    *)
(* timers, connections and restarts.                                       *)
(*                                                                         *)
(* KeptStays rests on TimersOwned: a timer that was not cancelled too late *)
(* is the handle of the session it will remove.  SessionsWatched rests on  *)
(* the converse, HandlesLive: no two sessions have the same handle, so a   *)
(* cancel frees only the timer of the session it is about.  That a login is about a   *)
(* session that is new, so that no handle is lost, needs IdsBelow, and     *)
(* IdsBelow needs append_session to move the next id past a restored one.  *)
(***************************************************************************)
EXTENDS Session, TLAPS

USE SessionAssumption

(* The ids in memory are behind the next one. *)
IdsBelow == \A s \in DOMAIN sessions : s < next_ssid

(* A timer that runs or is due is the handle of the session it will        *)
(* remove, unless one of that session was cancelled too late.              *)
Active(t) == timers[t].state # "free"
TimersOwned ==
    \A t \in TimerIds :
        Active(t) /\ timers[t].ssid \notin late =>
            /\ timers[t].ssid \in DOMAIN sessions
            /\ sessions[timers[t].ssid].timer = t

(* And the other way round: the handle a session has is a timer that is    *)
(* to remove it.                                                           *)
HandlesLive ==
    \A s \in DOMAIN sessions :
        LET t == sessions[s].timer
        IN t # NoTimer => timers[t].state # "free" /\ timers[t].ssid = s

Inv ==
    /\ TypeOK
    /\ IdsBelow
    /\ TimersOwned
    /\ HandlesLive
    /\ KeptIsConnected

Records == [uid : Users, timer : TimerIds \cup {NoTimer}]
TimerRecords == {Free} \cup [state : {"running", "due"}, ssid : Ssids]

(* The part of the state that concerns memory and Redis. *)
StoreTyped ==
    /\ DOMAIN sessions \subseteq Ssids
    /\ sessions \in [DOMAIN sessions -> Records]
    /\ next_ssid \in 1 .. MaxSsid + 1
    /\ timers \in [TimerIds -> TimerRecords]
    /\ DOMAIN copies \subseteq Ssids
    /\ copies \in [DOMAIN copies -> Users]
    /\ late \subseteq Ssids

(* The part that concerns browsers and connections. *)
WebTyped ==
    /\ cookie \in [Users -> Ssids \cup {0}]
    /\ opened \in [Ssids -> 0 .. MaxConns]
    /\ closing \in [Ssids -> 0 .. MaxConns]
    /\ \A s \in Ssids : opened[s] + closing[s] <= MaxConns
    /\ restarts \in 0 .. MaxRestarts

LEMMA TypeParts == TypeOK <=> StoreTyped /\ WebTyped
BY DEF TypeOK, StoreTyped, WebTyped, Records, TimerRecords

LEMMA TypePartsNext == TypeOK' <=> StoreTyped' /\ WebTyped'
BY DEF TypeOK, StoreTyped, WebTyped, Records, TimerRecords

-----------------------------------------------------------------------------
(* Setting and erasing an entry of a map. *)
LEMMA PutTyped ==
    ASSUME NEW S, NEW map, DOMAIN map \subseteq Ssids, map \in [DOMAIN map -> S],
           NEW key \in Ssids, NEW value \in S
    PROVE  /\ DOMAIN Put(map, key, value) \subseteq Ssids
           /\ Put(map, key, value) \in [DOMAIN Put(map, key, value) -> S]
<1>1. DOMAIN Put(map, key, value) = DOMAIN map \cup {key}
  BY DEF Put
<1>2. Put(map, key, value) \in [DOMAIN map \cup {key} -> S]
  BY DEF Put
<1>3. QED BY <1>1, <1>2

LEMMA EraseTyped ==
    ASSUME NEW S, NEW map, DOMAIN map \subseteq Ssids, map \in [DOMAIN map -> S], NEW key
    PROVE  /\ DOMAIN Erase(map, key) \subseteq Ssids
           /\ Erase(map, key) \in [DOMAIN Erase(map, key) -> S]
<1>1. DOMAIN Erase(map, key) = DOMAIN map \ {key}
  BY DEF Erase
<1>2. Erase(map, key) \in [DOMAIN map \ {key} -> S]
  BY DEF Erase
<1>3. QED BY <1>1, <1>2

(* cancel frees a running timer and leaves every other one. *)
LEMMA CancelledTyped ==
    ASSUME timers \in [TimerIds -> TimerRecords], NEW h \in TimerIds \cup {NoTimer}
    PROVE  /\ Cancelled(h) \in [TimerIds -> TimerRecords]
           /\ \A t \in TimerIds : t # h => Cancelled(h)[t] = timers[t]
           /\ \A t \in TimerIds :
                 Cancelled(h)[t] = timers[t] \/ Cancelled(h)[t] = Free
           /\ h # NoTimer /\ ~TooLate(h) => Cancelled(h)[h].state = "free"
<1>1. Free \in TimerRecords
  BY DEF TimerRecords
<1>2. CASE h # NoTimer /\ timers[h].state = "running"
  <2>1. Cancelled(h) = [timers EXCEPT ![h] = Free]
    BY <1>2 DEF Cancelled
  <2>2. h \in TimerIds
    BY <1>2
  <2>3. Cancelled(h)[h] = Free
    BY <2>1, <2>2
  <2>4. QED BY <1>1, <2>1, <2>2, <2>3 DEF Free
<1>3. CASE ~(h # NoTimer /\ timers[h].state = "running")
  <2>1. Cancelled(h) = timers
    BY <1>3 DEF Cancelled
  <2>2. ASSUME h # NoTimer, ~TooLate(h)
        PROVE  timers[h].state = "free"
    <3>1. h \in TimerIds
      BY <2>2
    <3>2. timers[h] \in TimerRecords
      BY <3>1
    <3>3. timers[h].state \in {"free", "running", "due"}
      BY <3>2 DEF TimerRecords, Free
    <3>4. timers[h].state # "running" /\ timers[h].state # "due"
      BY <1>3, <2>2 DEF TooLate
    <3>5. QED BY <3>3, <3>4
  <2>3. QED BY <2>1, <2>2
<1>4. QED BY <1>2, <1>3

-----------------------------------------------------------------------------
(* The object a lookup of s gives: what is in memory, or one without a     *)
(* handle for a session that is not.                                       *)
Looked(s, ssp) ==
    /\ ssp \in Records
    /\ ssp.timer = IF s \in DOMAIN sessions THEN sessions[s].timer ELSE NoTimer
    /\ s \in DOMAIN sessions => ssp.uid = sessions[s].uid

LEMMA SeesLooked ==
    ASSUME StoreTyped, NEW s, NEW ssp, Sees(s, ssp)
    PROVE  Looked(s, ssp) /\ s \in Ssids
<1>1. CASE s \in DOMAIN sessions /\ ssp = sessions[s]
  BY <1>1 DEF StoreTyped, Looked
<1>2. CASE s \in DOMAIN copies \ DOMAIN sessions /\ ssp = SessionOf(copies[s], NoTimer)
  <2>1. copies[s] \in Users
    BY <1>2 DEF StoreTyped
  <2>2. ssp \in Records /\ ssp.timer = NoTimer
    BY <1>2, <2>1 DEF SessionOf, Records
  <2>3. QED BY <1>2, <2>2 DEF StoreTyped, Looked
<1>3. QED BY <1>1, <1>2 DEF Sees

(* The parts of the invariant that concern memory and its timers. *)
Store == StoreTyped /\ IdsBelow /\ TimersOwned /\ HandlesLive

(* What a change of how long s lasts leaves: s with the same user and some *)
(* handle, and every other session as it was.                              *)
Lasts(s, ssp, handle) ==
    /\ DOMAIN sessions' = DOMAIN sessions \cup {s}
    /\ sessions'[s] = SessionOf(ssp.uid, handle)
    /\ \A other \in DOMAIN sessions : other # s => sessions'[other] = sessions[other]

(* The timer cancelled for s was the only one that s owned. *)
OwnedByOther(s, t) ==
    /\ timers[t].ssid # s
    /\ timers[t].ssid \in DOMAIN sessions
    /\ sessions[timers[t].ssid].timer = t
LEMMA CancelOwned ==
    ASSUME Store, NEW s \in Ssids, NEW ssp, Looked(s, ssp),
           late' = IF TooLate(ssp.timer) THEN late \cup {s} ELSE late
    PROVE  /\ late' \subseteq Ssids /\ late \subseteq late'
           /\ \A t \in TimerIds :
                 Cancelled(ssp.timer)[t].state # "free" =>
                    /\ Cancelled(ssp.timer)[t] = timers[t]
                    /\ timers[t].ssid \notin late' => OwnedByOther(s, t)
<1>1. late' \subseteq Ssids /\ late \subseteq late'
  BY DEF Store, StoreTyped
<1>2. ssp.timer \in TimerIds \cup {NoTimer}
  BY DEF Looked, Records
<1>3. SUFFICES ASSUME NEW t \in TimerIds, Cancelled(ssp.timer)[t].state # "free"
               PROVE  /\ Cancelled(ssp.timer)[t] = timers[t]
                      /\ timers[t].ssid \notin late' => OwnedByOther(s, t)
  BY <1>1
<1>4. Cancelled(ssp.timer)[t] = timers[t]
  BY <1>2, <1>3, CancelledTyped DEF Store, StoreTyped, Free
<1>5. SUFFICES ASSUME timers[t].ssid \notin late'
               PROVE  OwnedByOther(s, t)
  BY <1>4
<1>6. timers[t].ssid \in DOMAIN sessions /\ sessions[timers[t].ssid].timer = t
  BY <1>1, <1>3, <1>4, <1>5 DEF Store, TimersOwned, Active
<1>7. ASSUME timers[t].ssid = s PROVE FALSE
  <2>1. ssp.timer = t
    BY <1>6, <1>7 DEF Looked
  <2>2. t # NoTimer
    BY DEF TimerIds, NoTimer
  <2>3. ~TooLate(ssp.timer)
    BY <1>5, <1>7
  <2>4. QED BY <1>2, <1>3, <2>1, <2>2, <2>3, CancelledTyped DEF Store, StoreTyped
<1>8. QED BY <1>6, <1>7 DEF OwnedByOther

(* A cancel for s leaves the timers of the other sessions running. *)
LEMMA CancelSpares ==
    ASSUME Store, NEW s, NEW ssp, Looked(s, ssp),
           NEW other \in DOMAIN sessions, other # s, sessions[other].timer # NoTimer
    PROVE  LET h == sessions[other].timer
           IN  /\ h \in TimerIds
               /\ Cancelled(ssp.timer)[h] = timers[h]
               /\ timers[h].state # "free" /\ timers[h].ssid = other
<1> DEFINE h == sessions[other].timer
<1>1. h \in TimerIds
  BY DEF Store, StoreTyped, Records
<1>2. timers[h].state # "free" /\ timers[h].ssid = other
  BY DEF Store, HandlesLive
<1>3. ssp.timer \in TimerIds \cup {NoTimer}
  BY DEF Looked, Records
<1>4. h # ssp.timer
  BY <1>2 DEF Looked, Store, HandlesLive
<1> HIDE DEF h
<1>5. Cancelled(ssp.timer)[h] = timers[h]
  BY <1>1, <1>3, <1>4, CancelledTyped DEF Store, StoreTyped
<1>6. QED BY <1>1, <1>2, <1>5 DEF h

LEMMA LaterStore ==
    ASSUME Store, NEW s \in Ssids, NEW ssp, Looked(s, ssp), ExpiresLater(s, ssp),
           DOMAIN copies' \subseteq Ssids, copies' \in [DOMAIN copies' -> Users],
           next_ssid' \in 1 .. MaxSsid + 1, next_ssid <= next_ssid', s < next_ssid'
    PROVE  /\ Store'
           /\ \E t \in TimerIds : Lasts(s, ssp, t)
<1>1. PICK t \in TimerIds :
        /\ Cancelled(ssp.timer)[t] = Free
        /\ timers' = [Cancelled(ssp.timer) EXCEPT ![t] = [state |-> "running", ssid |-> s]]
        /\ sessions' = Put(sessions, s, SessionOf(ssp.uid, t))
        /\ late' = IF TooLate(ssp.timer) THEN late \cup {s} ELSE late
  BY DEF ExpiresLater
<1>2. Lasts(s, ssp, t)
  BY <1>1 DEF Lasts, Put
<1>3. ssp.timer \in TimerIds \cup {NoTimer} /\ ssp.uid \in Users
  BY DEF Looked, Records
<1>11. /\ late' \subseteq Ssids
       /\ \A u \in TimerIds :
             Cancelled(ssp.timer)[u].state # "free" =>
                /\ Cancelled(ssp.timer)[u] = timers[u]
                /\ timers[u].ssid \notin late' => OwnedByOther(s, u)
  BY <1>1, CancelOwned
<1>4. Cancelled(ssp.timer) \in [TimerIds -> TimerRecords]
  BY <1>3, CancelledTyped DEF Store, StoreTyped
<1>5. timers' \in [TimerIds -> TimerRecords]
  <2>1. [state |-> "running", ssid |-> s] \in TimerRecords
    BY DEF TimerRecords
  <2>2. QED BY <1>1, <1>4, <2>1
<1>6. DOMAIN sessions' \subseteq Ssids /\ sessions' \in [DOMAIN sessions' -> Records]
  <2>1. SessionOf(ssp.uid, t) \in Records
    BY <1>3 DEF SessionOf, Records
  <2>2. QED BY <1>1, <2>1, PutTyped DEF Store, StoreTyped
<1>7. StoreTyped'
  BY <1>5, <1>6, <1>11 DEF StoreTyped, Records, TimerRecords
<1>8. IdsBelow'
  <2>1. next_ssid \in Int /\ next_ssid' \in Int /\ DOMAIN sessions \subseteq Int
    BY DEF Store, StoreTyped, Ssids
  <2>2. QED BY <1>2, <2>1 DEF Store, IdsBelow, Lasts
<1>9. TimersOwned'
  <2>1. SUFFICES ASSUME NEW u \in TimerIds, timers'[u].state # "free",
                        timers'[u].ssid \notin late'
                 PROVE  /\ timers'[u].ssid \in DOMAIN sessions'
                        /\ sessions'[timers'[u].ssid].timer = u
    BY DEF TimersOwned, Active
  <2>2. CASE u = t
    <3>1. timers'[u].ssid = s
      BY <1>1, <1>4, <2>2
    <3>2. QED BY <1>2, <2>2, <3>1 DEF Lasts, SessionOf
  <2>3. CASE u # t
    <3>1. timers'[u] = Cancelled(ssp.timer)[u]
      BY <1>1, <1>4, <2>3
    <3>2. timers'[u] = timers[u] /\ OwnedByOther(s, u)
      BY <1>11, <2>1, <3>1
    <3>3. QED BY <1>2, <3>2 DEF Lasts, OwnedByOther
  <2>4. QED BY <2>2, <2>3
<1>12. HandlesLive'
  <2>1. SUFFICES ASSUME NEW u \in DOMAIN sessions', sessions'[u].timer # NoTimer
                 PROVE  LET h == sessions'[u].timer
                        IN  timers'[h].state # "free" /\ timers'[h].ssid = u
    BY DEF HandlesLive
  <2>2. CASE u = s
    <3>1. sessions'[u].timer = t
      BY <1>2, <2>2 DEF Lasts, SessionOf
    <3>2. timers'[t] = [state |-> "running", ssid |-> s]
      BY <1>1, <1>4
    <3>3. QED BY <2>2, <3>1, <3>2
  <2>3. CASE u # s
    <3> DEFINE h == sessions[u].timer
    <3>1. u \in DOMAIN sessions /\ sessions'[u] = sessions[u]
      BY <1>2, <2>3 DEF Lasts
    <3>2. /\ h \in TimerIds /\ Cancelled(ssp.timer)[h] = timers[h]
          /\ timers[h].state # "free" /\ timers[h].ssid = u
      BY <2>1, <2>3, <3>1, CancelSpares
    <3> HIDE DEF h
    <3>3. h # t
      BY <1>1, <3>2 DEF Free
    <3>4. timers'[h] = timers[h]
      BY <1>1, <1>4, <3>2, <3>3
    <3>5. QED BY <3>1, <3>2, <3>4 DEF h
  <2>4. QED BY <2>2, <2>3
<1>10. QED BY <1>2, <1>7, <1>8, <1>9, <1>12 DEF Store

LEMMA NeverStore ==
    ASSUME Store, NEW s \in Ssids, NEW ssp, Looked(s, ssp), ExpiresNever(s, ssp),
           DOMAIN copies' \subseteq Ssids, copies' \in [DOMAIN copies' -> Users],
           next_ssid' \in 1 .. MaxSsid + 1, next_ssid <= next_ssid', s < next_ssid'
    PROVE  Store' /\ Lasts(s, ssp, NoTimer)
<1>1. /\ timers' = Cancelled(ssp.timer)
      /\ sessions' = Put(sessions, s, SessionOf(ssp.uid, NoTimer))
      /\ late' = IF TooLate(ssp.timer) THEN late \cup {s} ELSE late
  BY DEF ExpiresNever
<1>2. Lasts(s, ssp, NoTimer)
  BY <1>1 DEF Lasts, Put
<1>3. ssp.timer \in TimerIds \cup {NoTimer} /\ ssp.uid \in Users
  BY DEF Looked, Records
<1>11. /\ late' \subseteq Ssids
       /\ \A u \in TimerIds :
             Cancelled(ssp.timer)[u].state # "free" =>
                /\ Cancelled(ssp.timer)[u] = timers[u]
                /\ timers[u].ssid \notin late' => OwnedByOther(s, u)
  BY <1>1, CancelOwned
<1>4. timers' \in [TimerIds -> TimerRecords]
  BY <1>1, <1>3, CancelledTyped DEF Store, StoreTyped
<1>5. DOMAIN sessions' \subseteq Ssids /\ sessions' \in [DOMAIN sessions' -> Records]
  <2>1. SessionOf(ssp.uid, NoTimer) \in Records
    BY <1>3 DEF SessionOf, Records
  <2>2. QED BY <1>1, <2>1, PutTyped DEF Store, StoreTyped
<1>6. StoreTyped'
  BY <1>4, <1>5, <1>11 DEF StoreTyped, Records, TimerRecords
<1>7. IdsBelow'
  <2>1. next_ssid \in Int /\ next_ssid' \in Int /\ DOMAIN sessions \subseteq Int
    BY DEF Store, StoreTyped, Ssids
  <2>2. QED BY <1>2, <2>1 DEF Store, IdsBelow, Lasts
<1>8. TimersOwned'
  <2>1. SUFFICES ASSUME NEW u \in TimerIds, timers'[u].state # "free",
                        timers'[u].ssid \notin late'
                 PROVE  /\ timers'[u].ssid \in DOMAIN sessions'
                        /\ sessions'[timers'[u].ssid].timer = u
    BY DEF TimersOwned, Active
  <2>2. timers'[u] = timers[u] /\ OwnedByOther(s, u)
    BY <1>1, <1>11, <2>1
  <2>3. QED BY <1>2, <2>2 DEF Lasts, OwnedByOther
<1>9. HandlesLive'
  <2>1. SUFFICES ASSUME NEW u \in DOMAIN sessions', sessions'[u].timer # NoTimer
                 PROVE  LET h == sessions'[u].timer
                        IN  timers'[h].state # "free" /\ timers'[h].ssid = u
    BY DEF HandlesLive
  <2>2. u # s /\ u \in DOMAIN sessions /\ sessions'[u] = sessions[u]
    BY <1>2, <2>1 DEF Lasts, SessionOf
  <2>3. QED BY <1>1, <2>1, <2>2, CancelSpares
<1>10. QED BY <1>2, <1>6, <1>7, <1>8, <1>9 DEF Store

-----------------------------------------------------------------------------
(* What a step does to the sessions in memory. *)
KeepsUsers ==
    \A s \in DOMAIN sessions \cap DOMAIN sessions' : sessions'[s].uid = sessions[s].uid
LosesNone == DOMAIN sessions \subseteq DOMAIN sessions'
KeepsNone == \A s \in Ssids : Kept(s)' => Kept(s)
Adds(s) == KeepsUsers /\ LosesNone /\ \A other \in Ssids \ {s} : Kept(other)' => Kept(other)

LEMMA LastsAdds ==
    ASSUME NEW s \in Ssids, NEW ssp, Looked(s, ssp), NEW handle, Lasts(s, ssp, handle)
    PROVE  Adds(s) /\ (handle # NoTimer => ~Kept(s)')
<1>1. KeepsUsers /\ LosesNone
  BY DEF Lasts, Looked, SessionOf, KeepsUsers, LosesNone
<1>2. \A other \in Ssids \ {s} : Kept(other)' => Kept(other)
  BY DEF Lasts, Kept
<1>3. handle # NoTimer => ~Kept(s)'
  BY DEF Lasts, Kept, SessionOf
<1>4. QED BY <1>1, <1>2, <1>3 DEF Adds

LEMMA SameSessions ==
    ASSUME sessions' = sessions
    PROVE  KeepsUsers /\ LosesNone /\ KeepsNone
BY DEF KeepsUsers, LosesNone, KeepsNone, Kept

LEMMA StopsStore ==
    ASSUME Store, Stops
    PROVE  Store' /\ KeepsUsers /\ LosesNone /\ KeepsNone
<1>1. Store'
  BY DEF Store, Stops, StoreTyped, IdsBelow, TimersOwned, HandlesLive, Active
<1>2. QED BY <1>1, SameSessions DEF Stops

LEMMA NextIdMoves ==
    ASSUME Store, NEW s \in Ssids, next_ssid' = NextIdAfter(s)
    PROVE  next_ssid' \in 1 .. MaxSsid + 1 /\ next_ssid <= next_ssid' /\ s < next_ssid'
BY DEF Store, StoreTyped, NextIdAfter, Ssids

LEMMA RenewsStore ==
    ASSUME Store, NEW s, Renews(s)
    PROVE  Store' /\ s \in Ssids /\ Adds(s) /\ ~Kept(s)'
<1>1. PICK ssp \in Objects : Sees(s, ssp) /\ Renew(s, ssp) /\ next_ssid' = NextIdAfter(s)
  BY DEF Renews
<1>2. Looked(s, ssp) /\ s \in Ssids
  BY <1>1, SeesLooked DEF Store
<1>3. ExpiresLater(s, ssp) /\ copies' = copies
  BY <1>1 DEF Renew, expireSession
<1>4. /\ next_ssid' \in 1 .. MaxSsid + 1
      /\ next_ssid <= next_ssid'
      /\ s < next_ssid'
  BY <1>1, <1>2, NextIdMoves
<1>5. DOMAIN copies' \subseteq Ssids /\ copies' \in [DOMAIN copies' -> Users]
  BY <1>3 DEF Store, StoreTyped
<1>6. Store' /\ \E t \in TimerIds : Lasts(s, ssp, t)
  BY <1>2, <1>3, <1>4, <1>5, LaterStore
<1>7. PICK t \in TimerIds : Lasts(s, ssp, t)
  BY <1>6
<1>8. t # NoTimer
  BY DEF TimerIds, NoTimer
<1>9. QED BY <1>2, <1>6, <1>7, <1>8, LastsAdds

LEMMA KeepsStore ==
    ASSUME Store, NEW s, Keeps(s)
    PROVE  Store' /\ s \in Ssids /\ Adds(s)
<1>1. PICK ssp \in Objects : Sees(s, ssp) /\ Keep(s, ssp) /\ next_ssid' = NextIdAfter(s)
  BY DEF Keeps
<1>2. Looked(s, ssp) /\ s \in Ssids
  BY <1>1, SeesLooked DEF Store
<1>3. ExpiresNever(s, ssp) /\ copies' \in {copies, Erase(copies, s)}
  BY <1>1 DEF Keep, delSession
<1>4. /\ next_ssid' \in 1 .. MaxSsid + 1
      /\ next_ssid <= next_ssid'
      /\ s < next_ssid'
  BY <1>1, <1>2, NextIdMoves
<1>5. DOMAIN copies' \subseteq Ssids /\ copies' \in [DOMAIN copies' -> Users]
  <2>1. DOMAIN copies \subseteq Ssids /\ copies \in [DOMAIN copies -> Users]
    BY DEF Store, StoreTyped
  <2>2. /\ DOMAIN Erase(copies, s) \subseteq Ssids
        /\ Erase(copies, s) \in [DOMAIN Erase(copies, s) -> Users]
    BY <2>1, EraseTyped
  <2>3. CASE copies' = copies
    BY <2>1, <2>3
  <2>4. CASE copies' = Erase(copies, s)
    BY <2>2, <2>4
  <2>5. QED BY <1>3, <2>3, <2>4
<1>6. Store' /\ Lasts(s, ssp, NoTimer)
  BY <1>2, <1>3, <1>4, <1>5, NeverStore
<1>7. QED BY <1>2, <1>6, LastsAdds

(* What every step of a handler does to the store, s being the session it  *)
(* is about: nothing, a session put on a timer, or one kept.               *)
LEMMA StopsOrRenews ==
    ASSUME Store, NEW s \in Ssids, Stops \/ Restores(s) \/ Renews(s)
    PROVE  Store' /\ KeepsUsers /\ LosesNone /\ KeepsNone
<1>1. CASE Stops
  BY <1>1, StopsStore
<1>2. CASE Renews(s)
  <2>1. Store' /\ Adds(s) /\ ~Kept(s)'
    BY <1>2, RenewsStore
  <2>2. QED BY <2>1 DEF Adds, KeepsNone
<1>3. QED BY <1>1, <1>2 DEF Restores

-----------------------------------------------------------------------------
(* The steps.  The first four leave the connections alone.                 *)
Steady == Store' /\ WebTyped' /\ KeptIsConnected'

LEMMA SameConnections ==
    ASSUME WebTyped, KeptIsConnected, KeepsNone, UNCHANGED <<opened, closing>>
    PROVE  KeptIsConnected'
BY DEF KeptIsConnected, KeepsNone

LEMMA LoginStep ==
    ASSUME Store, WebTyped, KeptIsConnected, NEW uid \in Users, login(uid)
    PROVE  Steady /\ KeepsUsers /\ LosesNone
<1> PICK s \in Nat : s = next_ssid
  BY DEF Store, StoreTyped
<1> DEFINE ssp == SessionOf(uid, NoTimer)
<1>1. /\ s <= MaxSsid
      /\ ExpiresLater(s, ssp)
      /\ copies' \in {copies, Put(copies, s, uid)}
      /\ next_ssid' = s + 1
      /\ cookie' = [cookie EXCEPT ![uid] = s]
      /\ UNCHANGED <<opened, closing, restarts>>
  BY DEF login, setSession
<1>2. s \in Ssids
  BY <1>1 DEF Store, StoreTyped, Ssids
<1>3. s \notin DOMAIN sessions
  <2>1. ~(s < s)
    BY <1>2 DEF Ssids
  <2>2. QED BY <2>1 DEF Store, IdsBelow
<1>4. Looked(s, ssp)
  BY <1>3 DEF Looked, SessionOf, Records
<1>5. DOMAIN copies' \subseteq Ssids /\ copies' \in [DOMAIN copies' -> Users]
  <2>1. DOMAIN copies \subseteq Ssids /\ copies \in [DOMAIN copies -> Users]
    BY DEF Store, StoreTyped
  <2>2. /\ DOMAIN Put(copies, s, uid) \subseteq Ssids
        /\ Put(copies, s, uid) \in [DOMAIN Put(copies, s, uid) -> Users]
    BY <1>2, <2>1, PutTyped
  <2>3. CASE copies' = copies
    BY <2>1, <2>3
  <2>4. CASE copies' = Put(copies, s, uid)
    BY <2>2, <2>4
  <2>5. QED BY <1>1, <2>3, <2>4
<1>6. next_ssid' \in 1 .. MaxSsid + 1 /\ next_ssid <= next_ssid' /\ s < next_ssid'
  BY <1>1, <1>2 DEF Store, StoreTyped, Ssids
<1> HIDE DEF ssp
<1>7. Store' /\ \E t \in TimerIds : Lasts(s, ssp, t)
  BY <1>1, <1>2, <1>4, <1>5, <1>6, LaterStore
<1>8. PICK t \in TimerIds : Lasts(s, ssp, t)
  BY <1>7
<1>9. t # NoTimer
  BY DEF TimerIds, NoTimer
<1>10. Adds(s) /\ ~Kept(s)'
  BY <1>2, <1>4, <1>8, <1>9, LastsAdds
<1>11. KeptIsConnected'
  <2>1. KeepsNone
    BY <1>10 DEF Adds, KeepsNone
  <2>2. QED BY <1>1, <2>1, SameConnections
<1>12. WebTyped'
  BY <1>1, <1>2 DEF WebTyped
<1>13. QED BY <1>7, <1>10, <1>11, <1>12 DEF Steady, Adds

LEMMA InfoStep ==
    ASSUME Store, WebTyped, KeptIsConnected, NEW uid \in Users, info(uid)
    PROVE  Steady /\ KeepsUsers /\ LosesNone
<1> PICK s \in Ssids : s = cookie[uid]
  BY DEF info, WebTyped
<1>1. /\ Stops \/ Restores(s) \/ Renews(s)
      /\ UNCHANGED <<web, restarts>>
  BY DEF info
<1>2. Store' /\ KeepsUsers /\ LosesNone /\ KeepsNone
  BY <1>1, StopsOrRenews
<1>3. KeptIsConnected'
  BY <1>1, <1>2, SameConnections DEF web
<1>4. WebTyped'
  BY <1>1 DEF WebTyped, web
<1>5. QED BY <1>2, <1>3, <1>4 DEF Steady

LEMMA MessageStep ==
    ASSUME Store, WebTyped, KeptIsConnected, NEW s \in Ssids, wsmsg_callback(s)
    PROVE  Steady /\ KeepsUsers /\ LosesNone
<1>1. Restores(s) /\ UNCHANGED <<web, restarts>>
  BY DEF wsmsg_callback
<1>2. Store' /\ KeepsUsers /\ LosesNone /\ KeepsNone
  BY <1>1, StopsOrRenews
<1>3. KeptIsConnected'
  BY <1>1, <1>2, SameConnections DEF web
<1>4. WebTyped'
  BY <1>1 DEF WebTyped, web
<1>5. QED BY <1>2, <1>3, <1>4 DEF Steady

LEMMA OpenStep ==
    ASSUME Store, WebTyped, KeptIsConnected, NEW uid \in Users, wsopen_callback(uid)
    PROVE  Steady /\ KeepsUsers /\ LosesNone
<1> PICK s \in Ssids : s = cookie[uid]
  BY DEF wsopen_callback, WebTyped
<1>1. /\ s \in Ssids
      /\ opened[s] + closing[s] < MaxConns
      /\ opened' = [opened EXCEPT ![s] = @ + 1]
      /\ Stops \/ Restores(s) \/ Keeps(s)
      /\ UNCHANGED <<cookie, closing, restarts>>
  BY DEF wsopen_callback, WebTyped
<1>2. /\ Store' /\ KeepsUsers /\ LosesNone
      /\ \A other \in Ssids \ {s} : Kept(other)' => Kept(other)
  <2>1. CASE Stops \/ Restores(s)
    BY <1>1, <2>1, StopsOrRenews DEF KeepsNone
  <2>2. CASE Keeps(s)
    BY <2>2, KeepsStore DEF Adds
  <2>3. QED BY <1>1, <2>1, <2>2
<1>3. WebTyped'
  <2>1. opened[s] + 1 \in 0 .. MaxConns
    BY <1>1 DEF WebTyped
  <2>2. QED BY <1>1, <2>1 DEF WebTyped
<1>4. KeptIsConnected'
  <2>1. SUFFICES ASSUME NEW u \in Ssids, Kept(u)' PROVE opened'[u] + closing'[u] > 0
    BY DEF KeptIsConnected
  <2>2. CASE u = s
    BY <1>1, <2>2 DEF WebTyped
  <2>3. CASE u # s
    <3>1. Kept(u)
      BY <1>2, <2>1, <2>3
    <3>2. opened'[u] = opened[u] /\ closing'[u] = closing[u]
      BY <1>1, <2>3 DEF WebTyped
    <3>3. QED BY <3>1, <3>2 DEF KeptIsConnected
  <2>4. QED BY <2>2, <2>3
<1>5. QED BY <1>2, <1>3, <1>4 DEF Steady

LEMMA DropsStep ==
    ASSUME Store, WebTyped, KeptIsConnected, NEW s \in Ssids, Drops(s)
    PROVE  Steady /\ KeepsUsers /\ LosesNone
<1>1. /\ opened[s] > 0
      /\ opened' = [opened EXCEPT ![s] = @ - 1]
      /\ closing' = [closing EXCEPT ![s] = @ + 1]
      /\ UNCHANGED <<cookie, restarts>>
      /\ Stops
  BY DEF Drops, Stops
<1>2. Store' /\ KeepsUsers /\ LosesNone /\ KeepsNone
  BY <1>1, StopsStore
<1>3. \A u \in Ssids : opened'[u] + closing'[u] = opened[u] + closing[u]
  BY <1>1 DEF WebTyped
<1>4. KeptIsConnected'
  BY <1>2, <1>3 DEF KeptIsConnected, KeepsNone
<1>5. WebTyped'
  <2>1. opened[s] - 1 \in 0 .. MaxConns /\ closing[s] + 1 \in 0 .. MaxConns
    BY <1>1 DEF WebTyped
  <2>2. opened' \in [Ssids -> 0 .. MaxConns] /\ closing' \in [Ssids -> 0 .. MaxConns]
    BY <1>1, <2>1 DEF WebTyped
  <2>3. QED BY <1>1, <1>3, <2>2 DEF WebTyped
<1>6. QED BY <1>2, <1>4, <1>5 DEF Steady

LEMMA CloseStep ==
    ASSUME Store, WebTyped, KeptIsConnected, NEW s \in Ssids, wsclose_callback(s)
    PROVE  Steady /\ KeepsUsers /\ LosesNone
<1>1. /\ closing[s] > 0
      /\ closing' = [closing EXCEPT ![s] = @ - 1]
      /\ (Misses(s) /\ Stops) \/ Renews(s)
      /\ UNCHANGED <<cookie, opened, restarts>>
  BY DEF wsclose_callback
<1>2. Store' /\ KeepsUsers /\ LosesNone /\ KeepsNone /\ ~Kept(s)'
  <2>1. CASE Misses(s) /\ Stops
    <3>1. ~Kept(s)
      BY <2>1 DEF Misses, Kept
    <3>2. QED BY <2>1, <3>1, StopsStore DEF KeepsNone
  <2>2. CASE Renews(s)
    BY <2>2, RenewsStore DEF Adds, KeepsNone
  <2>3. QED BY <1>1, <2>1, <2>2
<1>3. \A u \in Ssids \ {s} : opened'[u] + closing'[u] = opened[u] + closing[u]
  BY <1>1 DEF WebTyped
<1>4. KeptIsConnected'
  BY <1>2, <1>3 DEF KeptIsConnected, KeepsNone
<1>5. WebTyped'
  <2>1. closing[s] - 1 \in 0 .. MaxConns
    BY <1>1 DEF WebTyped
  <2>2. closing' \in [Ssids -> 0 .. MaxConns]
    BY <1>1, <2>1 DEF WebTyped
  <2>3. opened'[s] + closing'[s] <= MaxConns
    BY <1>1 DEF WebTyped
  <2>4. QED BY <1>1, <1>3, <2>2, <2>3 DEF WebTyped
<1>6. QED BY <1>2, <1>4, <1>5 DEF Steady

LEMMA ForgetStep ==
    ASSUME Store, WebTyped, KeptIsConnected, NEW uid \in Users, Forgets(uid)
    PROVE  Steady /\ KeepsUsers /\ LosesNone
<1>1. /\ cookie' = [cookie EXCEPT ![uid] = 0]
      /\ UNCHANGED <<opened, closing, restarts>>
      /\ Stops
  BY DEF Forgets, Stops
<1>2. Store' /\ KeepsUsers /\ LosesNone /\ KeepsNone
  BY <1>1, StopsStore
<1>3. KeptIsConnected' /\ WebTyped'
  BY <1>1, <1>2, SameConnections DEF WebTyped
<1>4. QED BY <1>2, <1>3 DEF Steady

LEMMA TimeStep ==
    ASSUME Store, WebTyped, KeptIsConnected, NEW t \in TimerIds, TimeIsUp(t)
    PROVE  Steady /\ KeepsUsers /\ LosesNone
<1>1. /\ timers[t].state = "running"
      /\ timers' = [timers EXCEPT ![t].state = "due"]
      /\ UNCHANGED <<sessions, next_ssid, copies, web, late, restarts>>
  BY DEF TimeIsUp
<1>2. timers[t] \in [state : {"running", "due"}, ssid : Ssids]
  BY <1>1 DEF Store, StoreTyped, TimerRecords, Free
<1>3. /\ timers'[t] = [state |-> "due", ssid |-> timers[t].ssid]
      /\ \A u \in TimerIds : u # t => timers'[u] = timers[u]
  BY <1>1, <1>2 DEF Store, StoreTyped
<1>4. timers' \in [TimerIds -> TimerRecords]
  <2>1. timers'[t] \in TimerRecords
    BY <1>2, <1>3 DEF TimerRecords
  <2>2. QED BY <1>1, <1>3, <2>1 DEF Store, StoreTyped
<1>5. \A u \in TimerIds : (Active(u)' <=> Active(u)) /\ timers'[u].ssid = timers[u].ssid
  BY <1>1, <1>3 DEF Active
<1>10. HandlesLive'
  <2>1. \A s \in DOMAIN sessions : sessions[s].timer \in TimerIds \cup {NoTimer}
    BY DEF Store, StoreTyped, Records
  <2>2. QED BY <1>1, <1>5, <2>1 DEF Store, HandlesLive, Active
<1>6. Store'
  BY <1>1, <1>4, <1>5, <1>10 DEF Store, StoreTyped, IdsBelow, TimersOwned, Records, TimerRecords
<1>7. KeepsUsers /\ LosesNone /\ KeepsNone
  BY <1>1, SameSessions
<1>8. KeptIsConnected' /\ WebTyped'
  BY <1>1, <1>7, SameConnections DEF WebTyped, web
<1>9. QED BY <1>6, <1>7, <1>8 DEF Steady

(* The only step that takes a session out of memory, and the one that      *)
(* KeptStays is about.                                                     *)
LEMMA FireStep ==
    ASSUME Store, WebTyped, KeptIsConnected, NEW t \in TimerIds, TimerFires(t)
    PROVE  /\ Steady
           /\ KeepsUsers
           /\ \A s \in Ssids \ late : Kept(s) => s \in DOMAIN sessions'
<1>1. PICK s \in Ssids : s = timers[t].ssid
  BY DEF TimerFires, Store, StoreTyped, TimerRecords, Free
<1>2. /\ timers[t].state = "due"
      /\ timers' = [timers EXCEPT ![t] = Free]
      /\ sessions' = Erase(sessions, s)
      /\ UNCHANGED <<next_ssid, copies, web, late, restarts>>
  BY <1>1 DEF TimerFires
<1>3. /\ DOMAIN sessions' = DOMAIN sessions \ {s}
      /\ \A u \in DOMAIN sessions' : sessions'[u] = sessions[u]
  BY <1>2 DEF Erase
<1>4. sessions' \in [DOMAIN sessions' -> Records]
  BY <1>2, EraseTyped DEF Store, StoreTyped
<1>5. timers' \in [TimerIds -> TimerRecords]
  BY <1>2 DEF Store, StoreTyped, TimerRecords
<1>6. TimersOwned'
  <2>1. SUFFICES ASSUME NEW u \in TimerIds, timers'[u].state # "free",
                        timers'[u].ssid \notin late
                 PROVE  /\ timers'[u].ssid \in DOMAIN sessions'
                        /\ sessions'[timers'[u].ssid].timer = u
    BY <1>2 DEF TimersOwned, Active
  <2>2. u # t /\ timers'[u] = timers[u]
    BY <1>2, <2>1 DEF Store, StoreTyped, Free
  <2>3. timers[u].ssid \in DOMAIN sessions /\ sessions[timers[u].ssid].timer = u
    BY <2>1, <2>2 DEF Store, TimersOwned, Active
  <2>4. timers[u].ssid # s
    BY <1>1, <1>2, <2>1, <2>2, <2>3 DEF Store, TimersOwned, Active
  <2>5. QED BY <1>3, <2>2, <2>3, <2>4
<1>12. HandlesLive'
  <2>1. SUFFICES ASSUME NEW u \in DOMAIN sessions', sessions'[u].timer # NoTimer
                 PROVE  LET h == sessions'[u].timer
                        IN  timers'[h].state # "free" /\ timers'[h].ssid = u
    BY DEF HandlesLive
  <2> DEFINE h == sessions[u].timer
  <2>2. u \in DOMAIN sessions /\ u # s /\ sessions'[u] = sessions[u]
    BY <1>3
  <2>3. h \in TimerIds /\ timers[h].state # "free" /\ timers[h].ssid = u
    BY <2>1, <2>2 DEF Store, StoreTyped, HandlesLive, Records
  <2> HIDE DEF h
  <2>4. h # t
    BY <1>1, <2>2, <2>3
  <2>5. timers'[h] = timers[h]
    BY <1>2, <2>3, <2>4 DEF Store, StoreTyped
  <2>6. QED BY <2>2, <2>3, <2>5 DEF h
<1>7. Store'
  BY <1>2, <1>3, <1>4, <1>5, <1>6, <1>12
     DEF Store, StoreTyped, IdsBelow, Records, TimerRecords
<1>8. KeepsUsers /\ KeepsNone
  BY <1>3 DEF KeepsUsers, KeepsNone, Kept
<1>9. KeptIsConnected' /\ WebTyped'
  BY <1>2, <1>8, SameConnections DEF WebTyped, web
<1>10. ASSUME NEW u \in Ssids \ late, Kept(u) PROVE u \in DOMAIN sessions'
  <2>1. CASE u = s
    <3>1. sessions[s].timer = t
      BY <1>1, <1>2, <1>10, <2>1 DEF Store, TimersOwned, Active
    <3>2. t # NoTimer
      BY DEF TimerIds, NoTimer
    <3>3. QED BY <1>10, <2>1, <3>1, <3>2 DEF Kept
  <2>2. CASE u # s
    BY <1>3, <1>10, <2>2 DEF Kept
  <2>3. QED BY <2>1, <2>2
<1>11. QED BY <1>7, <1>8, <1>9, <1>10 DEF Steady

LEMMA CopyStep ==
    ASSUME Store, WebTyped, KeptIsConnected, NEW s \in Ssids, CopyExpires(s)
    PROVE  Steady /\ KeepsUsers /\ LosesNone
<1>1. /\ copies' = Erase(copies, s)
      /\ UNCHANGED <<sessions, next_ssid, timers, web, late, restarts>>
  BY DEF CopyExpires
<1>2. DOMAIN copies' \subseteq Ssids /\ copies' \in [DOMAIN copies' -> Users]
  BY <1>1, EraseTyped DEF Store, StoreTyped
<1>3. Store'
  BY <1>1, <1>2 DEF Store, StoreTyped, IdsBelow, TimersOwned, HandlesLive, Active
<1>4. KeepsUsers /\ LosesNone /\ KeepsNone
  BY <1>1, SameSessions
<1>5. KeptIsConnected' /\ WebTyped'
  BY <1>1, <1>4, SameConnections DEF WebTyped, web
<1>6. QED BY <1>3, <1>4, <1>5 DEF Steady

LEMMA RestartStep ==
    ASSUME Store, WebTyped, KeptIsConnected, Restart
    PROVE  Steady /\ KeepsUsers /\ restarts' # restarts
<1>1. DOMAIN sessions' = {}
  BY DEF Restart
<1>2. sessions' \in [DOMAIN sessions' -> Records]
  BY <1>1 DEF Restart
<1>3. /\ timers' \in [TimerIds -> TimerRecords]
      /\ \A t \in TimerIds : timers'[t].state = "free"
  BY DEF Restart, TimerRecords, Free
<1>4. Store'
  BY <1>1, <1>2, <1>3
     DEF Restart, Store, StoreTyped, IdsBelow, TimersOwned, HandlesLive, Active, Records, TimerRecords
<1>5. restarts' = restarts + 1 /\ restarts' \in 0 .. MaxRestarts
  BY DEF Restart, WebTyped
<1>6. WebTyped'
  BY <1>5 DEF Restart, WebTyped
<1>7. KeptIsConnected' /\ KeepsUsers
  BY <1>1 DEF KeptIsConnected, Kept, KeepsUsers
<1>8. restarts' # restarts
  BY <1>5 DEF WebTyped
<1>9. QED BY <1>4, <1>6, <1>7, <1>8 DEF Steady

-----------------------------------------------------------------------------
LEMMA InvParts == Inv <=> Store /\ WebTyped /\ KeptIsConnected
BY TypeParts DEF Inv, Store

LEMMA InvPartsNext == Inv' <=> Steady
BY TypePartsNext DEF Inv, Store, Steady

LEMMA InitInv == Init => Inv
<1>1. SUFFICES ASSUME Init PROVE Inv
  OBVIOUS
<1>2. /\ DOMAIN sessions = {} /\ DOMAIN copies = {}
      /\ sessions \in [DOMAIN sessions -> Records]
      /\ copies \in [DOMAIN copies -> Users]
  BY <1>1 DEF Init
<1>3. /\ timers \in [TimerIds -> TimerRecords]
      /\ \A t \in TimerIds : timers[t].state = "free"
  BY <1>1 DEF Init, TimerRecords, Free
<1>4. Store
  BY <1>1, <1>2, <1>3 DEF Init, Store, StoreTyped, IdsBelow, TimersOwned, HandlesLive, Active
<1>5. WebTyped /\ KeptIsConnected
  BY <1>1, <1>2 DEF Init, WebTyped, KeptIsConnected, Kept
<1>6. QED BY <1>4, <1>5, InvParts

(* What a step does to the sessions there are. *)
Safe ==
    /\ KeepsUsers
    /\ \A s \in Ssids \ late : Kept(s) /\ s \notin DOMAIN sessions' => restarts' # restarts

LEMMA LosesNoneSafe == KeepsUsers /\ LosesNone => Safe
BY DEF LosesNone, Safe, Kept

LEMMA StepSafe ==
    ASSUME Inv, [Next]_vars
    PROVE  Inv' /\ Safe
<1>1. Store /\ WebTyped /\ KeptIsConnected
  BY InvParts
<1>2. ASSUME NEW uid \in Users,
             login(uid) \/ info(uid) \/ wsopen_callback(uid) \/ Forgets(uid)
      PROVE  Inv' /\ Safe
  BY <1>1, <1>2, LoginStep, InfoStep, OpenStep, ForgetStep, LosesNoneSafe, InvPartsNext
<1>3. ASSUME NEW s \in Ssids,
             wsmsg_callback(s) \/ Drops(s) \/ wsclose_callback(s) \/ CopyExpires(s)
      PROVE  Inv' /\ Safe
  BY <1>1, <1>3, MessageStep, DropsStep, CloseStep, CopyStep, LosesNoneSafe, InvPartsNext
<1>4. ASSUME NEW t \in TimerIds, TimeIsUp(t)
      PROVE  Inv' /\ Safe
  BY <1>1, <1>4, TimeStep, LosesNoneSafe, InvPartsNext
<1>5. ASSUME NEW t \in TimerIds, TimerFires(t)
      PROVE  Inv' /\ Safe
  BY <1>1, <1>5, FireStep, InvPartsNext DEF Safe
<1>6. CASE Restart
  BY <1>1, <1>6, RestartStep, InvPartsNext DEF Safe
<1>7. CASE UNCHANGED vars
  <2>1. Stops /\ UNCHANGED <<web, restarts>>
    BY <1>7 DEF vars, Stops
  <2>2. Store' /\ KeepsUsers /\ LosesNone /\ KeepsNone
    BY <1>1, <2>1, StopsStore
  <2>3. KeptIsConnected' /\ WebTyped'
    BY <1>1, <2>1, <2>2, SameConnections DEF WebTyped, web
  <2>4. QED BY <2>2, <2>3, LosesNoneSafe, InvPartsNext DEF Steady
<1>8. QED BY <1>2, <1>3, <1>4, <1>5, <1>6, <1>7 DEF Next

(* Inv, the invariant above that is inductive, holds in every state of     *)
(* session_manager, its timers and the copies in Redis.                    *)
THEOREM Invariance == Spec => []Inv
<1>1. Inv /\ [Next]_vars => Inv'
  BY StepSafe
<1>2. QED BY InitInv, <1>1, PTL DEF Spec

(* Sessions, timers, copies and cookies keep their types. *)
THEOREM TypeCorrect == Spec => []TypeOK
<1>1. Inv => TypeOK
  BY DEF Inv
<1>2. QED BY Invariance, <1>1, PTL

(* A session without a timer has a connection whose close handler is still *)
(* to run, with any number of connections and timers.                      *)
THEOREM NoSessionLeftBehind == Spec => []KeptIsConnected
<1>1. Inv => KeptIsConnected
  BY DEF Inv
<1>2. QED BY Invariance, <1>1, PTL

(* A session in memory has a timer that will remove it and nothing else,   *)
(* or a connection: cancelling the timer of one session never stops that   *)
(* of another, and a timer that fires takes its own session with it.       *)
THEOREM NoSessionUnwatched == Spec => []SessionsWatched
<1>1. Inv => SessionsWatched
  BY DEF Inv, TypeOK, HandlesLive, KeptIsConnected, Kept, SessionsWatched, WillEnd
<1>2. QED BY Invariance, <1>1, PTL

(* No login, and no other step, gives a session to another user. *)
THEOREM LoginSafe == Spec => LoginReplacesNobody
<1> DEFINE A == \A s \in DOMAIN sessions \cap DOMAIN sessions' :
                  sessions'[s].uid = sessions[s].uid
<1>1. Inv /\ [Next]_vars => [A]_vars
  BY StepSafe DEF Safe, KeepsUsers
<1>2. QED BY Invariance, <1>1, PTL DEF Spec, LoginReplacesNobody

(* No timer takes a session away from a user who is inside, unless it was  *)
(* due already when the session was kept.                                  *)
THEOREM KeptSafe == Spec => KeptStays
<1> DEFINE A == \A s \in Ssids \ late :
                  Kept(s) /\ s \notin DOMAIN sessions' => restarts' # restarts
<1>1. Inv /\ [Next]_vars => [A]_vars
  BY StepSafe DEF Safe
<1>2. QED BY Invariance, <1>1, PTL DEF Spec, KeptStays
=============================================================================
