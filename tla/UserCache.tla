----------------------------- MODULE UserCache -----------------------------
(***************************************************************************)
(* The table of users (include/db.hpp) behind the cache of                 *)
(* include/cache/redis_user_cache.hpp: reads go to the cache, then to the  *)
(* table, and fill the cache; win and lose update the table and drop what  *)
(* is cached.                                                              *)
(*                                                                         *)
(* The io thread and the matcher threads read; win and lose run on the io  *)
(* thread only.  user_table::_mutex is held for one query of a reader, and *)
(* by win and lose for the update together with the commands to Redis that *)
(* follow it; a reader talks to Redis without it.  Each command to Redis   *)
(* is a step, and may fail: what would follow it is then skipped.  The     *)
(* no-op cache is the one whose first command always fails.                *)
(***************************************************************************)
EXTENDS Integers

CONSTANTS
    Users,          \* uids
    Threads,        \* the io thread and the threads of the matcher
    Io,             \* the io thread
    InitialScore,   \* the score a user starts with (1000 in USER_INSERT)
    MaxGames        \* bound: games of one user

ASSUME UserCacheAssumption ==
    /\ Io \in Threads
    /\ InitialScore \in Nat
    /\ MaxGames \in Nat

VARIABLES
    table,      \* the rows of table user
    cache,      \* Redis: user:id:<uid> and user:name:<name>, those that exist
    pc,         \* where each thread is in a call of user_table, or "idle"
    uid,        \* the user the call is about
    row,        \* the row a reader has taken from the table
    failed,     \* history: users about whom a command to Redis failed
    raced       \* history: users updated while a reader had their row in hand

vars == <<table, cache, pc, uid, row, failed, raced>>

-----------------------------------------------------------------------------
Points == 30
NewUser == [score |-> InitialScore, total_count |-> 0, win_count |-> 0]

(* One name per user: the column is UNIQUE. *)
Keys == {"id", "name"} \X Users
keyById(u) == <<"id", u>>
keyByName(u) == <<"name", u>>
UserOf(key) == key[2]

Entry(r, timed) == [row |-> r, timed |-> timed]
Cached(key) == key \in DOMAIN cache

Init ==
    /\ table = [u \in Users |-> NewUser]
    /\ cache = [k \in {} |-> Entry(NewUser, TRUE)]
    /\ pc = [t \in Threads |-> "idle"]
    /\ uid \in {[t \in Threads |-> u] : u \in Users}
    /\ row = [t \in Threads |-> NewUser]
    /\ failed = {}
    /\ raced = {}

-----------------------------------------------------------------------------
(* The commands of Redis.  SET ends the time to live a key had. *)
Set(key, r) ==
    cache' = [k \in DOMAIN cache \cup {key} |-> IF k = key THEN Entry(r, FALSE) ELSE cache[k]]
Del(key) == cache' = [k \in DOMAIN cache \ {key} |-> cache[k]]
Expire(key) ==
    cache' = [k \in DOMAIN cache |-> IF k = key THEN Entry(cache[k].row, TRUE) ELSE cache[k]]

(* Thread t, at place here, sends a command and goes on at next; or the    *)
(* command fails, and the call returns.                                    *)
Sends(t, here, command, next) ==
    /\ pc[t] = here
    /\ \/ command /\ pc' = [pc EXCEPT ![t] = next] /\ UNCHANGED failed
       \/ /\ pc' = [pc EXCEPT ![t] = "idle"]
          /\ failed' = failed \cup {uid[t]}
          /\ UNCHANGED cache
    /\ UNCHANGED <<table, uid, row, raced>>

-----------------------------------------------------------------------------
(* A reader: select_by_id and select_by_name look for a key of their own.  *)
(* A hit changes nothing; this is the reader who misses, because the key   *)
(* is not there or the command failed.                                     *)
Misses(t, u) ==
    /\ pc[t] = "idle"
    /\ uid' = [uid EXCEPT ![t] = u]
    /\ pc' = [pc EXCEPT ![t] = "query"]
    /\ UNCHANGED <<table, cache, row, failed, raced>>

(* Who holds user_table::_mutex from one step to the next. *)
Holds(t) == pc[t] \in {"get_id", "del_name", "del_id"}
MutexFree == \A t \in Threads : ~Holds(t)

(* The query, or its failure. *)
Query(t) ==
    /\ pc[t] = "query"
    /\ MutexFree
    /\ \/ /\ row' = [row EXCEPT ![t] = table[uid[t]]]
          /\ pc' = [pc EXCEPT ![t] = "set_id"]
       \/ /\ pc' = [pc EXCEPT ![t] = "idle"]
          /\ UNCHANGED row
    /\ UNCHANGED <<table, cache, uid, failed, raced>>

(* A slip in the code: the times to live are set first, and SET ends them. *)
setUser_expiring_first(t) ==
    \/ Sends(t, "set_id", Expire(keyById(uid[t])), "set_name")
    \/ Sends(t, "set_name", Expire(keyByName(uid[t])), "expire_id")
    \/ Sends(t, "expire_id", Set(keyById(uid[t]), row[t]), "expire_name")
    \/ Sends(t, "expire_name", Set(keyByName(uid[t]), row[t]), "idle")

setUser(t) ==
    \/ Sends(t, "set_id", Set(keyById(uid[t]), row[t]), "set_name")
    \/ Sends(t, "set_name", Set(keyByName(uid[t]), row[t]), "expire_id")
    \/ Sends(t, "expire_id", Expire(keyById(uid[t])), "expire_name")
    \/ Sends(t, "expire_name", Expire(keyByName(uid[t])), "idle")

-----------------------------------------------------------------------------
(* win and lose *)
USER_WIN(r) ==
    [score |-> r.score + Points, total_count |-> r.total_count + 1, win_count |-> r.win_count + 1]
USER_LOSE(r) == [r EXCEPT !.score = @ - Points, !.total_count = @ + 1]

(* A slip in the code: the column is signed. *)
LosesSigned(r) == {USER_LOSE(r)}
(* score is BIGINT UNSIGNED: an update that would take it below zero fails *)
(* as a whole.                                                             *)
Loses(r) == IF r.score >= Points THEN {USER_LOSE(r)} ELSE {}

HasRowInHand(t, u) == uid[t] = u /\ pc[t] = "set_id"

Update(u, rows, next) ==
    /\ pc[Io] = "idle"
    /\ MutexFree
    /\ table[u].total_count < MaxGames
    /\ uid' = [uid EXCEPT ![Io] = u]
    /\ \E r \in rows : table' = [table EXCEPT ![u] = r]
    /\ pc' = [pc EXCEPT ![Io] = next]
    /\ raced' = IF \E t \in Threads : HasRowInHand(t, u) THEN raced \cup {u} ELSE raced
    /\ UNCHANGED <<cache, row, failed>>

(* A failed update returns at once and changes nothing. *)
win(u) == Update(u, {USER_WIN(table[u])}, "get_id")
lose(u) == Update(u, Loses(table[u]), "get_id")

NameKnown(u) == IF Cached(keyById(u)) THEN "del_name" ELSE "del_id"

(* A slip in the code: the name-key goes, and the id-key stays. *)
invalidateById_name_only(t) ==
    \/ Sends(t, "get_id", UNCHANGED cache, NameKnown(uid[t]))
    \/ Sends(t, "del_name", Del(keyByName(uid[t])), "idle")
    \/ Sends(t, "del_id", UNCHANGED cache, "idle")

(* Under _mutex still: the id-key tells the name, the name-key goes, then  *)
(* the id-key.  What the id-key holds always has a username.               *)
invalidateById(t) ==
    \/ Sends(t, "get_id", UNCHANGED cache, NameKnown(uid[t]))
    \/ Sends(t, "del_name", Del(keyByName(uid[t])), "del_id")
    \/ Sends(t, "del_id", Del(keyById(uid[t])), "idle")

-----------------------------------------------------------------------------
(* Redis removes a key whose time to live is over. *)
KeyExpires(key) ==
    /\ Cached(key)
    /\ cache[key].timed
    /\ Del(key)
    /\ UNCHANGED <<table, pc, uid, row, failed, raced>>

GoesOnWith(t) == Query(t) \/ setUser(t) \/ invalidateById(t)

Next ==
    \/ \E t \in Threads : GoesOnWith(t) \/ \E u \in Users : Misses(t, u)
    \/ \E u \in Users : win(u) \/ lose(u)
    \/ \E k \in Keys : KeyExpires(k)

Spec == Init /\ [][Next]_vars

(* A thread goes on with its call; Redis gets to every key whose time is   *)
(* over.                                                                   *)
FairSpec ==
    /\ Spec
    /\ \A t \in Threads : WF_vars(GoesOnWith(t))
    /\ \A k \in Keys : WF_vars(KeyExpires(k))

-----------------------------------------------------------------------------
Rows == [score : Nat, total_count : 0 .. MaxGames, win_count : 0 .. MaxGames]

TypeOK ==
    /\ table \in [Users -> Rows]
    /\ DOMAIN cache \subseteq Keys
    /\ cache \in [DOMAIN cache -> [row : Rows, timed : BOOLEAN]]
    /\ pc \in [Threads -> {"idle", "query", "set_id", "set_name", "expire_id", "expire_name",
                           "get_id", "del_name", "del_id"}]
    /\ \A t \in Threads : Holds(t) => t = Io
    /\ uid \in [Threads -> Users]
    /\ row \in [Threads -> Rows]
    /\ failed \subseteq Users
    /\ raced \subseteq Users

(* A score is what the games that were counted make it, in the table, in   *)
(* the cache and in the hands of a reader: a loss that cannot be paid is   *)
(* not counted either.                                                     *)
Adds(r) == r.score = InitialScore + Points * r.win_count - Points * (r.total_count - r.win_count)
RecordAddsUp ==
    /\ \A u \in Users : Adds(table[u])
    /\ \A k \in DOMAIN cache : Adds(cache[k].row)
    /\ \A t \in Threads : Adds(row[t])

(* A user's row is stale in the cache only while win or lose is about to   *)
(* drop it, or after a command about him failed, or after an update while  *)
(* a reader had the old row in hand: a read, and a fill, at any other      *)
(* moment leave nothing stale behind.                                      *)
Stale(key) == Cached(key) /\ cache[key].row # table[UserOf(key)]
StaleExplained ==
    \A u \in Users :
        Stale(keyById(u)) =>
            \/ u \in failed \cup raced
            \/ \E t \in Threads : Holds(t) /\ uid[t] = u

(* Nothing is cached for ever: a key that has no time to live is about to  *)
(* be given one by the call that set it, however calls about one user      *)
(* overlap, unless a command about him failed.                             *)
WillExpire(t, key) ==
    /\ uid[t] = UserOf(key)
    /\ pc[t] \in IF key[1] = "id" THEN {"set_name", "expire_id"} ELSE {"expire_id", "expire_name"}
EntriesExpire ==
    \A k \in DOMAIN cache :
        cache[k].timed \/ UserOf(k) \in failed \/ \E t \in Threads : WillExpire(t, k)

(* Once the scores stop changing, what is cached is right, for every user  *)
(* about whom no command failed, whatever races there were before.         *)
Quiet == \A t \in Threads : ~Holds(t)
Settled == \A k \in Keys : Stale(k) => UserOf(k) \in failed
CacheCatchesUp == <>[]Quiet => <>[]Settled
=============================================================================
