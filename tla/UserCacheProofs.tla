-------------------------- MODULE UserCacheProofs --------------------------
(***************************************************************************)
(* What module UserCache guarantees for any number of users, threads and   *)
(* games.                                                                  *)
(*                                                                         *)
(* RecordAddsUp needs that a game won is a game counted, so that a count   *)
(* stays in its range.  StaleExplained rests on RowFresh: a reader that is *)
(* about to fill the cache has the row of the table in hand, unless that   *)
(* row was updated since the query, which raced remembers.  EntriesExpire  *)
(* is kept because a promise to set a time to live is taken back only by   *)
(* keeping it or by a failure.                                             *)
(***************************************************************************)
EXTENDS UserCache, TLAPS

USE UserCacheAssumption

Good(r) == r \in Rows /\ r.win_count <= r.total_count /\ Adds(r)

Places == {"idle", "query", "set_id", "set_name", "expire_id", "expire_name",
           "get_id", "del_name", "del_id"}

(* Every row there is, and where the threads are. *)
RowsGood ==
    /\ table \in [Users -> Rows]
    /\ \A u \in Users : Good(table[u])
    /\ DOMAIN cache \subseteq Keys
    /\ cache \in [DOMAIN cache -> [row : Rows, timed : BOOLEAN]]
    /\ \A k \in DOMAIN cache : Good(cache[k].row)
    /\ row \in [Threads -> Rows]
    /\ \A t \in Threads : Good(row[t])

CallsGood ==
    /\ pc \in [Threads -> Places]
    /\ \A t \in Threads : Holds(t) => t = Io
    /\ uid \in [Threads -> Users]
    /\ failed \subseteq Users
    /\ raced \subseteq Users

RowFresh ==
    \A t \in Threads : pc[t] = "set_id" => row[t] = table[uid[t]] \/ uid[t] \in raced

Inv == RowsGood /\ CallsGood /\ RowFresh /\ StaleExplained

LEMMA InvTypes == Inv => TypeOK /\ RecordAddsUp /\ StaleExplained
BY DEF Inv, RowsGood, CallsGood, Good, TypeOK, RecordAddsUp, Places

-----------------------------------------------------------------------------
LEMMA NewUserGood == Good(NewUser)
BY DEF Good, NewUser, Rows, Adds, Points

LEMMA InitInv == Init => Inv
<1>1. SUFFICES ASSUME Init PROVE Inv
  OBVIOUS
<1>2. NewUser \in Rows
  BY NewUserGood DEF Good
<1>3. DOMAIN cache = {} /\ cache \in [DOMAIN cache -> [row : Rows, timed : BOOLEAN]]
  BY <1>1 DEF Init
<1>4. RowsGood
  BY <1>1, <1>2, <1>3, NewUserGood DEF Init, RowsGood
<1>5. PICK u \in Users : uid = [t \in Threads |-> u]
  BY <1>1 DEF Init
<1>6. CallsGood
  BY <1>1, <1>5 DEF Init, CallsGood, Holds, Places
<1>7. RowFresh /\ StaleExplained
  BY <1>1, <1>3 DEF Init, RowFresh, StaleExplained, Stale, Cached
<1>8. QED BY <1>4, <1>6, <1>7 DEF Inv

-----------------------------------------------------------------------------
(* The commands of Redis keep the rows good. *)
CacheGood(c) ==
    /\ DOMAIN c \subseteq Keys
    /\ c \in [DOMAIN c -> [row : Rows, timed : BOOLEAN]]
    /\ \A k \in DOMAIN c : Good(c[k].row)

LEMMA SetGood ==
    ASSUME RowsGood, NEW key \in Keys, NEW r, Good(r), Set(key, r)
    PROVE  /\ CacheGood(cache')
           /\ DOMAIN cache' = DOMAIN cache \cup {key}
           /\ cache'[key].row = r
           /\ \A k \in DOMAIN cache \ {key} : cache'[k] = cache[k]
<1>1. cache' = [k \in DOMAIN cache \cup {key} |-> IF k = key THEN Entry(r, FALSE) ELSE cache[k]]
  BY DEF Set
<1>2. Entry(r, FALSE) \in [row : Rows, timed : BOOLEAN] /\ Entry(r, FALSE).row = r
  BY DEF Entry, Good
<1> DEFINE new == Entry(r, FALSE)
<1> HIDE DEF new
<1>3. /\ DOMAIN cache' = DOMAIN cache \cup {key}
      /\ cache'[key] = new
      /\ \A k \in DOMAIN cache \ {key} : cache'[k] = cache[k]
  BY <1>1 DEF new
<1>4. new \in [row : Rows, timed : BOOLEAN] /\ new.row = r
  BY <1>2 DEF new
<1>5. cache' \in [DOMAIN cache' -> [row : Rows, timed : BOOLEAN]]
  BY <1>1, <1>3, <1>4 DEF RowsGood, new
<1>6. QED BY <1>3, <1>4, <1>5 DEF RowsGood, CacheGood

LEMMA DelGood ==
    ASSUME RowsGood, NEW key, Del(key)
    PROVE  /\ CacheGood(cache')
           /\ DOMAIN cache' = DOMAIN cache \ {key}
           /\ \A k \in DOMAIN cache' : cache'[k] = cache[k]
BY DEF Del, RowsGood, CacheGood

LEMMA ExpireGood ==
    ASSUME RowsGood, NEW key, Expire(key)
    PROVE  /\ CacheGood(cache')
           /\ DOMAIN cache' = DOMAIN cache
           /\ \A k \in DOMAIN cache : cache'[k].row = cache[k].row
<1>1. cache' = [k \in DOMAIN cache |-> IF k = key THEN Entry(cache[k].row, TRUE) ELSE cache[k]]
  BY DEF Expire
<1>2. \A k \in DOMAIN cache :
        cache'[k] \in [row : Rows, timed : BOOLEAN] /\ cache'[k].row = cache[k].row
  BY <1>1 DEF Entry, RowsGood
<1>3. DOMAIN cache' = DOMAIN cache
  BY <1>1
<1>4. cache' \in [DOMAIN cache' -> [row : Rows, timed : BOOLEAN]]
  BY <1>1, <1>2, <1>3
<1>5. QED BY <1>2, <1>3, <1>4 DEF RowsGood, CacheGood

-----------------------------------------------------------------------------
(* Whether the entry of u is stale, with the key spelt out. *)
StaleId(u) == <<"id", u>> \in DOMAIN cache /\ cache[<<"id", u>>].row # table[u]
Holding == {"get_id", "del_name", "del_id"}
Explained(u) == u \in failed \cup raced \/ \E t \in Threads : pc[t] \in Holding /\ uid[t] = u

LEMMA StaleForm == StaleExplained <=> \A u \in Users : StaleId(u) => Explained(u)
BY DEF StaleExplained, Stale, Cached, keyById, UserOf, StaleId, Explained, Holds, Holding

LEMMA StaleFormNext == StaleExplained' <=> \A u \in Users : StaleId(u)' => Explained(u)'
BY DEF StaleExplained, Stale, Cached, keyById, UserOf, StaleId, Explained, Holds, Holding

(* A step of thread t that sends a command, or fails to: whatever becomes  *)
(* stale by it is explained, and t gives up _mutex only when the entry of  *)
(* its user is no longer stale or the command has failed.                  *)
LEMMA CommandStep ==
    ASSUME Inv, NEW t \in Threads, NEW next \in Places,
           pc' = [pc EXCEPT ![t] = next],
           next # "set_id",
           UNCHANGED <<table, uid, row, raced>>,
           failed \subseteq failed', failed' \subseteq Users,
           CacheGood(cache'),
           \A u \in Users : StaleId(u)' => StaleId(u) \/ u \in failed' \cup raced,
           next \in Holding => pc[t] \in Holding,
           pc[t] \in Holding =>
              next \in Holding \/ uid[t] \in failed' \/ ~StaleId(uid[t])'
    PROVE  Inv'
<1>1. RowsGood'
  BY DEF Inv, RowsGood, CacheGood
<1>2. pc' \in [Threads -> Places] /\ pc'[t] = next /\ \A o \in Threads \ {t} : pc'[o] = pc[o]
  BY DEF Inv, CallsGood
<1>3. CallsGood'
  BY <1>2 DEF Inv, CallsGood, Holds, Holding
<1>4. RowFresh'
  BY <1>2 DEF Inv, RowFresh
<1>5. StaleExplained'
  <2>1. SUFFICES ASSUME NEW u \in Users, StaleId(u)', u \notin failed' \cup raced
                 PROVE  \E o \in Threads : pc'[o] \in Holding /\ uid[o] = u
    BY StaleFormNext DEF Explained
  <2>2. Explained(u)
    BY <2>1, StaleForm DEF Inv
  <2>3. PICK o \in Threads : pc[o] \in Holding /\ uid[o] = u
    BY <2>1, <2>2 DEF Explained
  <2>4. CASE o = t
    BY <1>2, <2>1, <2>3, <2>4
  <2>5. CASE o # t
    BY <1>2, <2>3, <2>5
  <2>6. QED BY <2>4, <2>5
<1>6. QED BY <1>1, <1>3, <1>4, <1>5 DEF Inv

(* A command that fails ends the call. *)
LEMMA FailedStep ==
    ASSUME Inv, NEW t \in Threads,
           pc' = [pc EXCEPT ![t] = "idle"],
           failed' = failed \cup {uid[t]},
           UNCHANGED <<cache, table, uid, row, raced>>
    PROVE  Inv'
<1>1. failed \subseteq failed' /\ failed' \subseteq Users /\ uid[t] \in failed'
  BY DEF Inv, CallsGood
<1>2. CacheGood(cache')
  BY DEF Inv, RowsGood, CacheGood
<1>3. \A u \in Users : StaleId(u)' => StaleId(u)
  BY DEF StaleId
<1>4. "idle" \in Places /\ "idle" \notin Holding
  BY DEF Places, Holding
<1>5. QED BY <1>1, <1>2, <1>3, <1>4, CommandStep

(* A command that leaves the rows of the entries by id as they were. *)
LEMMA OtherStep ==
    ASSUME Inv, NEW t \in Threads, NEW next \in Places,
           pc' = [pc EXCEPT ![t] = next],
           next # "set_id",
           next \in Holding <=> pc[t] \in Holding,
           UNCHANGED <<table, uid, row, failed, raced>>,
           CacheGood(cache'),
           \A u \in Users : <<"id", u>> \in DOMAIN cache' =>
              /\ <<"id", u>> \in DOMAIN cache
              /\ cache'[<<"id", u>>].row = cache[<<"id", u>>].row
    PROVE  Inv'
<1>1. \A u \in Users : StaleId(u)' => StaleId(u)
  BY DEF StaleId
<1>2. failed \subseteq failed' /\ failed' \subseteq Users
  BY DEF Inv, CallsGood
<1>3. QED BY <1>1, <1>2, CommandStep

LEMMA SetUserInv ==
    ASSUME Inv, NEW t \in Threads, setUser(t)
    PROVE  Inv'
<1>1. /\ RowsGood
      /\ Good(row[t])
      /\ uid[t] \in Users
      /\ keyById(uid[t]) \in Keys
      /\ keyByName(uid[t]) \in Keys
  BY DEF Inv, RowsGood, CallsGood, keyById, keyByName, Keys
<1>2. CASE /\ pc' = [pc EXCEPT ![t] = "idle"]
           /\ failed' = failed \cup {uid[t]}
           /\ UNCHANGED <<cache, table, uid, row, raced>>
  BY <1>2, FailedStep
<1>3. CASE /\ pc[t] = "set_id"
           /\ Set(keyById(uid[t]), row[t])
           /\ pc' = [pc EXCEPT ![t] = "set_name"]
           /\ UNCHANGED <<table, uid, row, failed, raced>>
  <2>1. /\ CacheGood(cache')
        /\ DOMAIN cache' = DOMAIN cache \cup {<<"id", uid[t]>>}
        /\ cache'[<<"id", uid[t]>>].row = row[t]
        /\ \A k \in DOMAIN cache \ {<<"id", uid[t]>>} : cache'[k] = cache[k]
    BY <1>1, <1>3, SetGood DEF keyById
  <2>2. row[t] = table[uid[t]] \/ uid[t] \in raced
    BY <1>3 DEF Inv, RowFresh
  <2>3. \A u \in Users : StaleId(u)' => StaleId(u) \/ u \in failed' \cup raced
    <3>1. SUFFICES ASSUME NEW u \in Users, StaleId(u)'
                   PROVE  StaleId(u) \/ u \in raced
      OBVIOUS
    <3>2. CASE u = uid[t]
      BY <1>3, <2>1, <2>2, <3>1, <3>2 DEF StaleId
    <3>3. CASE u # uid[t]
      <4>1. <<"id", u>> # <<"id", uid[t]>>
        BY <3>3
      <4>2. QED BY <1>3, <2>1, <3>1, <4>1 DEF StaleId
    <3>4. QED BY <3>2, <3>3
  <2>4. failed' \subseteq Users /\ "set_name" \in Places
    BY <1>3 DEF Inv, CallsGood, Places
  <2>5. "set_name" \notin Holding /\ pc[t] \notin Holding
    BY <1>3 DEF Holding
  <2>6. QED BY <1>3, <2>1, <2>3, <2>4, <2>5, CommandStep
<1>4. CASE /\ pc[t] = "set_name"
           /\ Set(keyByName(uid[t]), row[t])
           /\ pc' = [pc EXCEPT ![t] = "expire_id"]
           /\ UNCHANGED <<table, uid, row, failed, raced>>
  <2>1. /\ CacheGood(cache')
        /\ DOMAIN cache' = DOMAIN cache \cup {<<"name", uid[t]>>}
        /\ \A k \in DOMAIN cache \ {<<"name", uid[t]>>} : cache'[k] = cache[k]
    BY <1>1, <1>4, SetGood DEF keyByName
  <2>2. \A u \in Users : <<"id", u>> # <<"name", uid[t]>>
    OBVIOUS
  <2>3. \A u \in Users : <<"id", u>> \in DOMAIN cache' =>
           <<"id", u>> \in DOMAIN cache /\ cache'[<<"id", u>>].row = cache[<<"id", u>>].row
    BY <2>1, <2>2
  <2>4. "expire_id" \in Places /\ ("expire_id" \in Holding <=> pc[t] \in Holding)
    BY <1>4 DEF Places, Holding
  <2>5. QED BY <1>4, <2>1, <2>3, <2>4, OtherStep
<1>5. ASSUME NEW key, NEW next \in {"expire_name", "idle"},
             pc[t] \in {"expire_id", "expire_name"},
             Expire(key),
             pc' = [pc EXCEPT ![t] = next],
             UNCHANGED <<table, uid, row, failed, raced>>
      PROVE  Inv'
  <2>1. /\ CacheGood(cache')
        /\ DOMAIN cache' = DOMAIN cache
        /\ \A k \in DOMAIN cache : cache'[k].row = cache[k].row
    BY <1>1, <1>5, ExpireGood
  <2>2. /\ next \in Places /\ next # "set_id"
        /\ next \in Holding <=> pc[t] \in Holding
    BY <1>5 DEF Places, Holding
  <2>3. QED BY <1>5, <2>1, <2>2, OtherStep
<1>6. QED BY <1>2, <1>3, <1>4, <1>5 DEF setUser, Sends

LEMMA InvalidateInv ==
    ASSUME Inv, NEW t \in Threads, invalidateById(t)
    PROVE  Inv'
<1>1. RowsGood /\ uid[t] \in Users
  BY DEF Inv, CallsGood
<1>2. CASE /\ pc' = [pc EXCEPT ![t] = "idle"]
           /\ failed' = failed \cup {uid[t]}
           /\ UNCHANGED <<cache, table, uid, row, raced>>
  BY <1>2, FailedStep
<1>3. CASE /\ pc[t] = "get_id"
           /\ UNCHANGED cache
           /\ pc' = [pc EXCEPT ![t] = NameKnown(uid[t])]
           /\ UNCHANGED <<table, uid, row, failed, raced>>
  <2>1. /\ NameKnown(uid[t]) \in Places /\ NameKnown(uid[t]) # "set_id"
        /\ NameKnown(uid[t]) \in Holding <=> pc[t] \in Holding
    BY <1>3 DEF NameKnown, Places, Holding
  <2>2. CacheGood(cache')
    BY <1>1, <1>3 DEF RowsGood, CacheGood
  <2>3. PICK next \in Places : next = NameKnown(uid[t])
    BY <2>1
  <2>4. QED BY <1>3, <2>1, <2>2, <2>3, OtherStep
<1>4. CASE /\ pc[t] = "del_name"
           /\ Del(keyByName(uid[t]))
           /\ pc' = [pc EXCEPT ![t] = "del_id"]
           /\ UNCHANGED <<table, uid, row, failed, raced>>
  <2>1. /\ CacheGood(cache')
        /\ DOMAIN cache' \subseteq DOMAIN cache
        /\ \A k \in DOMAIN cache' : cache'[k] = cache[k]
    BY <1>1, <1>4, DelGood
  <2>2. "del_id" \in Places /\ ("del_id" \in Holding <=> pc[t] \in Holding)
    BY <1>4 DEF Places, Holding
  <2>3. QED BY <1>4, <2>1, <2>2, OtherStep
<1>5. CASE /\ pc[t] = "del_id"
           /\ Del(keyById(uid[t]))
           /\ pc' = [pc EXCEPT ![t] = "idle"]
           /\ UNCHANGED <<table, uid, row, failed, raced>>
  <2>1. /\ CacheGood(cache')
        /\ DOMAIN cache' = DOMAIN cache \ {<<"id", uid[t]>>}
        /\ \A k \in DOMAIN cache' : cache'[k] = cache[k]
    BY <1>1, <1>5, DelGood DEF keyById
  <2>2. \A u \in Users : StaleId(u)' => StaleId(u)
    BY <1>5, <2>1 DEF StaleId
  <2>3. ~StaleId(uid[t])'
    BY <1>5, <2>1 DEF StaleId
  <2>4. failed' \subseteq Users /\ "idle" \in Places /\ "idle" \notin Holding
    BY <1>5 DEF Inv, CallsGood, Places, Holding
  <2>5. QED BY <1>5, <2>1, <2>2, <2>3, <2>4, CommandStep
<1>6. QED BY <1>2, <1>3, <1>4, <1>5 DEF invalidateById, Sends

-----------------------------------------------------------------------------
(* The table is read. *)
LEMMA MissesInv ==
    ASSUME Inv, NEW t \in Threads, NEW u \in Users, Misses(t, u)
    PROVE  Inv'
<1>1. /\ pc[t] = "idle"
      /\ pc' = [pc EXCEPT ![t] = "query"]
      /\ uid' = [uid EXCEPT ![t] = u]
      /\ UNCHANGED <<table, cache, row, failed, raced>>
  BY DEF Misses
<1>2. /\ pc' \in [Threads -> Places] /\ pc'[t] = "query"
      /\ uid' \in [Threads -> Users]
      /\ \A o \in Threads \ {t} : pc'[o] = pc[o] /\ uid'[o] = uid[o]
  BY <1>1 DEF Inv, CallsGood, Places
<1>3. RowsGood'
  BY <1>1 DEF Inv, RowsGood
<1>4. CallsGood'
  BY <1>1, <1>2 DEF Inv, CallsGood, Holds
<1>5. RowFresh'
  BY <1>1, <1>2 DEF Inv, RowFresh
<1>6. StaleExplained'
  <2>1. SUFFICES ASSUME NEW v \in Users, StaleId(v)', v \notin failed \cup raced
                 PROVE  \E o \in Threads : pc'[o] \in Holding /\ uid'[o] = v
    BY <1>1, StaleFormNext DEF Explained
  <2>2. StaleId(v)
    BY <1>1, <2>1 DEF StaleId
  <2>3. PICK o \in Threads : pc[o] \in Holding /\ uid[o] = v
    BY <2>1, <2>2, StaleForm DEF Inv, Explained
  <2>4. o # t
    BY <1>1, <2>3 DEF Holding
  <2>5. QED BY <1>2, <2>3, <2>4
<1>7. QED BY <1>3, <1>4, <1>5, <1>6 DEF Inv

LEMMA QueryInv ==
    ASSUME Inv, NEW t \in Threads, Query(t)
    PROVE  Inv'
<1>1. /\ pc[t] = "query"
      /\ UNCHANGED <<table, cache, uid, failed, raced>>
      /\ \/ row' = [row EXCEPT ![t] = table[uid[t]]] /\ pc' = [pc EXCEPT ![t] = "set_id"]
         \/ row' = row /\ pc' = [pc EXCEPT ![t] = "idle"]
  BY DEF Query
<1>2. /\ table[uid[t]] \in Rows
      /\ Good(table[uid[t]])
  BY DEF Inv, RowsGood, CallsGood
<1>3. /\ pc' \in [Threads -> Places] /\ pc'[t] \in {"set_id", "idle"}
      /\ \A o \in Threads \ {t} : pc'[o] = pc[o]
  BY <1>1 DEF Inv, CallsGood, Places
<1>4. /\ row' \in [Threads -> Rows]
      /\ \A o \in Threads \ {t} : row'[o] = row[o]
      /\ row'[t] = table[uid[t]] \/ (row'[t] = row[t] /\ pc'[t] = "idle")
  BY <1>1, <1>2 DEF Inv, RowsGood, CallsGood
<1>5. RowsGood'
  BY <1>1, <1>2, <1>4 DEF Inv, RowsGood
<1>6. CallsGood'
  BY <1>1, <1>3 DEF Inv, CallsGood, Holds
<1>7. RowFresh'
  BY <1>1, <1>3, <1>4 DEF Inv, RowFresh
<1>8. StaleExplained'
  <2>1. SUFFICES ASSUME NEW v \in Users, StaleId(v)', v \notin failed \cup raced
                 PROVE  \E o \in Threads : pc'[o] \in Holding /\ uid[o] = v
    BY <1>1, StaleFormNext DEF Explained
  <2>2. StaleId(v)
    BY <1>1, <2>1 DEF StaleId
  <2>3. PICK o \in Threads : pc[o] \in Holding /\ uid[o] = v
    BY <2>1, <2>2, StaleForm DEF Inv, Explained
  <2>4. o # t
    BY <1>1, <2>3 DEF Holding
  <2>5. QED BY <1>3, <2>3, <2>4
<1>9. QED BY <1>5, <1>6, <1>7, <1>8 DEF Inv

-----------------------------------------------------------------------------
(* The table is written. *)
LEMMA WonGood ==
    ASSUME NEW r, Good(r), r.total_count < MaxGames
    PROVE  Good(USER_WIN(r))
BY DEF Good, USER_WIN, Rows, Adds, Points

LEMMA LostGood ==
    ASSUME NEW r, Good(r), r.total_count < MaxGames, NEW l \in Loses(r)
    PROVE  Good(l)
<1>1. r.score >= Points /\ l = USER_LOSE(r)
  BY DEF Loses
<1>2. l = [score |-> r.score - Points, total_count |-> r.total_count + 1, win_count |-> r.win_count]
  BY <1>1 DEF USER_LOSE, Good, Rows
<1>3. QED BY <1>1, <1>2 DEF Good, Rows, Adds, Points

(* _mutex is free, so no update is between its commands; this one explains *)
(* what becomes stale.                                                     *)
LEMMA UpdateInv ==
    ASSUME Inv, NEW u \in Users, NEW r, Good(r),
           pc[Io] = "idle",
           MutexFree,
           uid' = [uid EXCEPT ![Io] = u],
           table' = [table EXCEPT ![u] = r],
           pc' = [pc EXCEPT ![Io] = "get_id"],
           raced' = IF \E t \in Threads : HasRowInHand(t, u) THEN raced \cup {u} ELSE raced,
           UNCHANGED <<cache, row, failed>>
    PROVE  Inv'
<1>1. /\ pc' \in [Threads -> Places] /\ pc'[Io] = "get_id"
      /\ uid' \in [Threads -> Users] /\ uid'[Io] = u
      /\ \A o \in Threads \ {Io} : pc'[o] = pc[o] /\ uid'[o] = uid[o]
  BY DEF Inv, CallsGood, Places
<1>2. /\ table' \in [Users -> Rows] /\ table'[u] = r
      /\ \A v \in Users \ {u} : table'[v] = table[v]
  BY DEF Inv, RowsGood, Good
<1>3. RowsGood'
  BY <1>2 DEF Inv, RowsGood
<1>4. raced \subseteq raced' /\ raced' \subseteq Users
  BY DEF Inv, CallsGood
<1>5. CallsGood'
  BY <1>1, <1>4 DEF Inv, CallsGood, Holds
<1>6. RowFresh'
  <2>1. SUFFICES ASSUME NEW t \in Threads, pc'[t] = "set_id", uid'[t] \notin raced'
                 PROVE  row[t] = table'[uid'[t]]
    BY DEF RowFresh
  <2>2. t # Io /\ pc[t] = "set_id" /\ uid'[t] = uid[t]
    BY <1>1, <2>1
  <2>3. uid[t] # u
    BY <2>1, <2>2 DEF HasRowInHand
  <2>4. row[t] = table[uid[t]] /\ uid[t] \in Users
    BY <1>4, <2>1, <2>2 DEF Inv, RowFresh, CallsGood
  <2>5. QED BY <1>2, <2>2, <2>3, <2>4
<1>7. StaleExplained'
  <2>1. SUFFICES ASSUME NEW v \in Users, StaleId(v)', v # u PROVE Explained(v)'
    BY <1>1, StaleFormNext DEF Explained, Holding
  <2>2. StaleId(v)
    BY <1>2, <2>1 DEF StaleId
  <2>3. v \in failed \cup raced
    BY <2>2, StaleForm DEF Inv, Explained, MutexFree, Holds, Holding
  <2>4. QED BY <1>4, <2>3 DEF Explained
<1>8. QED BY <1>3, <1>5, <1>6, <1>7 DEF Inv

LEMMA WinInv ==
    ASSUME Inv, NEW u \in Users, win(u)
    PROVE  Inv'
<1>1. Good(table[u]) /\ table[u].total_count < MaxGames
  BY DEF Inv, RowsGood, win, Update
<1>2. PICK r \in {USER_WIN(table[u])} : table' = [table EXCEPT ![u] = r]
  BY DEF win, Update
<1>3. Good(r)
  BY <1>1, <1>2, WonGood
<1>4. QED BY <1>2, <1>3, UpdateInv DEF win, Update

LEMMA LoseInv ==
    ASSUME Inv, NEW u \in Users, lose(u)
    PROVE  Inv'
<1>1. Good(table[u]) /\ table[u].total_count < MaxGames
  BY DEF Inv, RowsGood, lose, Update
<1>2. PICK r \in Loses(table[u]) : table' = [table EXCEPT ![u] = r]
  BY DEF lose, Update
<1>3. Good(r)
  BY <1>1, <1>2, LostGood
<1>4. QED BY <1>2, <1>3, UpdateInv DEF lose, Update

LEMMA KeyExpiresInv ==
    ASSUME Inv, NEW k \in Keys, KeyExpires(k)
    PROVE  Inv'
<1>1. /\ CacheGood(cache')
      /\ DOMAIN cache' \subseteq DOMAIN cache
      /\ \A o \in DOMAIN cache' : cache'[o] = cache[o]
  BY DelGood DEF KeyExpires, Inv
<1>2. UNCHANGED <<table, pc, uid, row, failed, raced>>
  BY DEF KeyExpires
<1>3. RowsGood'
  BY <1>1, <1>2 DEF Inv, RowsGood, CacheGood
<1>4. CallsGood' /\ RowFresh'
  BY <1>2 DEF Inv, CallsGood, RowFresh, Holds
<1>5. \A u \in Users : (StaleId(u)' => StaleId(u)) /\ (Explained(u)' <=> Explained(u))
  BY <1>1, <1>2 DEF StaleId, Explained
<1>6. StaleExplained'
  BY <1>5, StaleForm, StaleFormNext DEF Inv
<1>7. QED BY <1>3, <1>4, <1>6 DEF Inv

LEMMA StepInv == Inv /\ [Next]_vars => Inv'
<1>1. SUFFICES ASSUME Inv, [Next]_vars PROVE Inv'
  OBVIOUS
<1>2. CASE UNCHANGED vars
  BY <1>1, <1>2 DEF vars, Inv, RowsGood, CallsGood, Holds, RowFresh, StaleExplained, Stale, Cached
<1>3. CASE \E t \in Threads : GoesOnWith(t)
  BY <1>1, <1>3, QueryInv, SetUserInv, InvalidateInv DEF GoesOnWith
<1>4. CASE \E t \in Threads, u \in Users : Misses(t, u)
  BY <1>1, <1>4, MissesInv
<1>5. CASE \E u \in Users : win(u) \/ lose(u)
  BY <1>1, <1>5, WinInv, LoseInv
<1>6. CASE \E k \in Keys : KeyExpires(k)
  BY <1>1, <1>6, KeyExpiresInv
<1>7. QED BY <1>1, <1>2, <1>3, <1>4, <1>5, <1>6 DEF Next

-----------------------------------------------------------------------------
(* EntriesExpire.  What is cached without a time to live is pending: its   *)
(* user's call is about to give it one, or a command about him failed.     *)
Pending(k) == UserOf(k) \in failed \/ \E t \in Threads : WillExpire(t, k)

LEMMA ExpiresByPart ==
    EntriesExpire <=> \A k \in DOMAIN cache : cache[k].timed \/ Pending(k)
BY DEF EntriesExpire, Pending

(* A call that goes on from where it was not about to set a time to live,  *)
(* or that fails, takes no promise back.                                   *)
LEMMA PendingKept ==
    ASSUME Inv, NEW t \in Threads, NEW k \in Keys, Pending(k),
           failed \subseteq failed',
           \A o \in Threads \ {t} : pc'[o] = pc[o] /\ uid'[o] = uid[o],
           WillExpire(t, k) => WillExpire(t, k)' \/ UserOf(k) \in failed'
    PROVE  Pending(k)'
<1>1. CASE UserOf(k) \in failed
  BY <1>1 DEF Pending
<1>2. CASE \E o \in Threads : WillExpire(o, k)
  <2>1. PICK o \in Threads : WillExpire(o, k)
    BY <1>2
  <2>2. CASE o = t
    BY <2>1, <2>2 DEF Pending
  <2>3. CASE o # t
    BY <2>1, <2>3 DEF Pending, WillExpire
  <2>4. QED BY <2>2, <2>3
<1>3. QED BY <1>1, <1>2 DEF Pending

(* A step of thread t that leaves the times to live of all keys alone but  *)
(* those about to be set, and takes no promise back.                       *)
LEMMA ExpiresStep ==
    ASSUME Inv, EntriesExpire, NEW t \in Threads,
           failed \subseteq failed',
           \A o \in Threads \ {t} : pc'[o] = pc[o] /\ uid'[o] = uid[o],
           DOMAIN cache' \subseteq Keys,
           \A k \in DOMAIN cache' :
              \/ k \in DOMAIN cache /\ cache'[k].timed = cache[k].timed
              \/ cache'[k].timed
              \/ Pending(k)',
           \A k \in Keys :
              WillExpire(t, k) =>
                 \/ WillExpire(t, k)' \/ UserOf(k) \in failed'
                 \/ k \in DOMAIN cache' => cache'[k].timed
    PROVE  EntriesExpire'
<1>1. SUFFICES ASSUME NEW k \in DOMAIN cache', ~cache'[k].timed
               PROVE  Pending(k)'
  BY DEF EntriesExpire, Pending
<1>2. CASE Pending(k)'
  BY <1>2
<1>3. CASE k \in DOMAIN cache /\ cache'[k].timed = cache[k].timed
  <2>1. Pending(k)
    BY <1>1, <1>3, ExpiresByPart
  <2>2. QED BY <1>1, <2>1, PendingKept
<1>4. QED BY <1>1, <1>2, <1>3

(* Every step of a call of user_table keeps EntriesExpire: a key is set    *)
(* without a time to live only by the call that goes on to set one.        *)
LEMMA CallExpires ==
    ASSUME Inv, EntriesExpire, NEW t \in Threads, GoesOnWith(t)
    PROVE  EntriesExpire'
<1> DEFINE Sent(here, next) == /\ pc[t] = here
                               /\ pc' = [pc EXCEPT ![t] = next]
                               /\ UNCHANGED <<table, uid, row, failed, raced>>
           Id == <<"id", uid[t]>>
           Name == <<"name", uid[t]>>
<1>1. /\ pc \in [Threads -> Places] /\ uid[t] \in Users /\ DOMAIN cache \subseteq Keys
      /\ Id \in Keys /\ Name \in Keys /\ UserOf(Id) = uid[t] /\ UserOf(Name) = uid[t]
  BY DEF Inv, RowsGood, CallsGood, Keys, UserOf
<1>2. \A k \in Keys : UserOf(k) = uid[t] => k = (IF k[1] = "id" THEN Id ELSE Name)
  BY DEF Keys, UserOf
<1>3. CASE /\ pc' = [pc EXCEPT ![t] = "idle"]
           /\ failed' = failed \cup {uid[t]}
           /\ UNCHANGED <<cache, uid>>
  <2>1. \A k \in Keys : WillExpire(t, k) => UserOf(k) \in failed'
    BY <1>3 DEF WillExpire
  <2>2. QED BY <1>1, <1>3, <2>1, ExpiresStep
<1>4. CASE Query(t)
  <2>1. \A k \in Keys : ~WillExpire(t, k)
    BY <1>4 DEF Query, WillExpire
  <2>2. \A o \in Threads \ {t} : pc'[o] = pc[o] /\ uid'[o] = uid[o]
    BY <1>1, <1>4 DEF Query
  <2>3. failed' = failed /\ cache' = cache
    BY <1>4 DEF Query
  <2>4. QED BY <1>1, <2>1, <2>2, <2>3, ExpiresStep
<1>5. CASE Sent("set_id", "set_name") /\ Set(keyById(uid[t]), row[t])
  <2>1. /\ DOMAIN cache' = DOMAIN cache \cup {Id}
        /\ \A k \in DOMAIN cache \ {Id} : cache'[k] = cache[k]
    BY <1>5 DEF Set, keyById
  <2>2. WillExpire(t, Id)'
    BY <1>1, <1>5 DEF WillExpire
  <2>3. \A k \in Keys : ~WillExpire(t, k)
    BY <1>5 DEF WillExpire
  <2>4. QED BY <1>1, <1>5, <2>1, <2>2, <2>3, ExpiresStep DEF Pending
<1>6. CASE Sent("set_name", "expire_id") /\ Set(keyByName(uid[t]), row[t])
  <2>1. /\ DOMAIN cache' = DOMAIN cache \cup {Name}
        /\ \A k \in DOMAIN cache \ {Name} : cache'[k] = cache[k]
    BY <1>6 DEF Set, keyByName
  <2>2. WillExpire(t, Name)'
    BY <1>1, <1>6 DEF WillExpire
  <2>3. \A k \in Keys : WillExpire(t, k) => WillExpire(t, k)'
    BY <1>1, <1>6 DEF WillExpire
  <2>4. QED BY <1>1, <1>6, <2>1, <2>2, <2>3, ExpiresStep DEF Pending
<1>7. CASE Sent("expire_id", "expire_name") /\ Expire(keyById(uid[t]))
  <2>1. /\ DOMAIN cache' = DOMAIN cache
        /\ \A k \in DOMAIN cache \ {Id} : cache'[k] = cache[k]
        /\ Id \in DOMAIN cache' => cache'[Id].timed
    BY <1>7 DEF Expire, keyById, Entry
  <2>2. \A k \in Keys : WillExpire(t, k) => k = Id \/ WillExpire(t, k)'
    BY <1>1, <1>2, <1>7 DEF WillExpire
  <2>3. QED BY <1>1, <1>7, <2>1, <2>2, ExpiresStep
<1>8. CASE Sent("expire_name", "idle") /\ Expire(keyByName(uid[t]))
  <2>1. /\ DOMAIN cache' = DOMAIN cache
        /\ \A k \in DOMAIN cache \ {Name} : cache'[k] = cache[k]
        /\ Name \in DOMAIN cache' => cache'[Name].timed
    BY <1>8 DEF Expire, keyByName, Entry
  <2>2. \A k \in Keys : WillExpire(t, k) => k = Name
    BY <1>1, <1>2, <1>8 DEF WillExpire
  <2>3. QED BY <1>1, <1>8, <2>1, <2>2, ExpiresStep
<1>9. ASSUME NEW key, NEW next,
             pc[t] \in Holding, pc' = [pc EXCEPT ![t] = next],
             UNCHANGED <<table, uid, row, failed, raced>>,
             UNCHANGED cache \/ Del(key)
      PROVE  EntriesExpire'
  <2>1. /\ DOMAIN cache' \subseteq DOMAIN cache
        /\ \A k \in DOMAIN cache' : cache'[k] = cache[k]
    BY <1>9 DEF Del
  <2>2. \A k \in Keys : ~WillExpire(t, k)
    BY <1>9 DEF WillExpire, Holding
  <2>3. QED BY <1>1, <1>9, <2>1, <2>2, ExpiresStep
<1>10. CASE setUser(t)
  BY <1>3, <1>5, <1>6, <1>7, <1>8, <1>10 DEF setUser, Sends
<1>11. CASE invalidateById(t)
  BY <1>3, <1>9, <1>11 DEF invalidateById, Sends, Holding
<1>12. QED BY <1>4, <1>10, <1>11 DEF GoesOnWith

LEMMA StepExpires == Inv /\ EntriesExpire /\ [Next]_vars => EntriesExpire'
<1>1. SUFFICES ASSUME Inv, EntriesExpire, [Next]_vars PROVE EntriesExpire'
  OBVIOUS
<1>2. CASE UNCHANGED vars
  BY <1>1, <1>2 DEF vars, EntriesExpire, WillExpire
<1>3. CASE \E t \in Threads : GoesOnWith(t)
  BY <1>1, <1>3, CallExpires
<1>4. ASSUME NEW t \in Threads, pc[t] = "idle",
             \A o \in Threads \ {t} : pc'[o] = pc[o] /\ uid'[o] = uid[o],
             UNCHANGED <<cache, failed>>
      PROVE  EntriesExpire'
  <2>1. \A k \in Keys : ~WillExpire(t, k)
    BY <1>4 DEF WillExpire
  <2>2. DOMAIN cache' \subseteq Keys
    BY <1>1, <1>4 DEF Inv, RowsGood
  <2>3. QED BY <1>1, <1>4, <2>1, <2>2, ExpiresStep
<1>5. pc \in [Threads -> Places] /\ uid \in [Threads -> Users]
  BY <1>1 DEF Inv, CallsGood
<1>6. CASE \E t \in Threads, u \in Users : Misses(t, u)
  BY <1>4, <1>5, <1>6 DEF Misses
<1>7. CASE \E u \in Users : win(u) \/ lose(u)
  BY <1>4, <1>5, <1>7 DEF win, lose, Update
<1>8. CASE \E k \in Keys : KeyExpires(k)
  BY <1>1, <1>8 DEF KeyExpires, Del, EntriesExpire, WillExpire
<1>9. QED BY <1>1, <1>2, <1>3, <1>6, <1>7, <1>8 DEF Next

-----------------------------------------------------------------------------
(* The strengthening holds in every state. *)
THEOREM Invariance == Spec => []Inv
BY InitInv, StepInv, PTL DEF Spec

(* The types of user_table and its cache, and that only the io thread,     *)
(* which runs win and lose, holds _mutex across commands to Redis.         *)
THEOREM TypeCorrect == Spec => []TypeOK
BY Invariance, InvTypes, PTL

(* USER_WIN and USER_LOSE keep score and counts in step, and what the      *)
(* cache holds is always such a row.                                       *)
THEOREM RecordsAddUp == Spec => []RecordAddsUp
BY Invariance, InvTypes, PTL

(* A stale user:id entry is always one that win or lose is about to drop,  *)
(* or the trace of a command that failed or of a reader that was overtaken.*)
THEOREM StaleIsExplained == Spec => []StaleExplained
BY Invariance, InvTypes, PTL

(* Nothing stays cached without a time to live unless a command about its  *)
(* user failed: SET ends the one a key had, and the call that sent it goes *)
(* on to set another, whatever other calls do to the same keys meanwhile.  *)
THEOREM CachedEntriesExpire == Spec => []EntriesExpire
<1>1. Init => EntriesExpire
  BY DEF Init, EntriesExpire
<1>2. QED BY <1>1, StepExpires, Invariance, PTL DEF Spec
=============================================================================
