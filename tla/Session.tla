------------------------------- MODULE Session -------------------------------
(***************************************************************************)
(* Login sessions: session_manager (include/session.hpp), the copies of    *)
(* sessions that include/cache/redis_session_cache.hpp keeps, and the      *)
(* handlers of server.hpp as far as they look a session up by its cookie   *)
(* and set how long it lasts.                                              *)
(*                                                                         *)
(* Handlers and timer handlers run on the one io thread, so each is a      *)
(* step.  A timer whose time is up waits in the queue of that thread, and  *)
(* cancel does not stop it any more.  Redis survives a restart of the      *)
(* process, and each of its commands may fail.  The no-op cache is the one *)
(* whose commands always fail.                                             *)
(***************************************************************************)
EXTENDS Integers

CONSTANTS
    Users,          \* uids; one browser each
    MaxSsid,        \* bound: ids handed out by one process
    MaxTimers,      \* bound: timers running or due at once
    MaxConns,       \* bound: connections that carry one id
    MaxRestarts     \* bound: restarts of the process

ASSUME SessionAssumption ==
    /\ MaxSsid \in Nat \ {0}
    /\ MaxTimers \in Nat \ {0}
    /\ MaxConns \in Nat \ {0}
    /\ MaxRestarts \in Nat

VARIABLES
    sessions,           \* session_manager::_session: ssid -> user and timer handle
    next_ssid,          \* session_manager::_next_ssid
    timers,             \* the timers set_timer made: what each waits to remove
    copies,             \* Redis: ssid -> user
    cookie,             \* the SSID in each user's browser, or 0
    opened, closing,    \* WebSocket connections by the ssid they carry
    late,               \* history: sessions with a timer that was cancelled too late
    restarts            \* history: restarts so far

web == <<cookie, opened, closing>>
vars == <<sessions, next_ssid, timers, copies, web, late, restarts>>

-----------------------------------------------------------------------------
Ssids == 1 .. MaxSsid
TimerIds == 1 .. MaxTimers
NoTimer == 0
Free == [state |-> "free", ssid |-> 0]

Put(map, key, value) ==
    [k \in DOMAIN map \cup {key} |-> IF k = key THEN value ELSE map[k]]
Erase(map, key) == [k \in DOMAIN map \ {key} |-> map[k]]

SessionOf(uid, t) == [uid |-> uid, timer |-> t]

Init ==
    /\ sessions = [s \in {} |-> SessionOf(0, NoTimer)]
    /\ next_ssid = 1
    /\ timers = [t \in TimerIds |-> Free]
    /\ copies = [s \in {} |-> 0]
    /\ cookie = [uid \in Users |-> 0]
    /\ opened = [s \in Ssids |-> 0]
    /\ closing = [s \in Ssids |-> 0]
    /\ late = {}
    /\ restarts = 0

-----------------------------------------------------------------------------
(* Redis: a command does what it says or fails.  What EXPIRE sets is when  *)
(* a copy may go, and CopyExpires lets every copy go at any time, so that a *)
(* copy without a time to live is one CopyExpires never gets to.            *)
setSession(s, uid) == copies' \in {copies, Put(copies, s, uid)}
expireSession == UNCHANGED copies
delSession(s) == copies' \in {copies, Erase(copies, s)}

-----------------------------------------------------------------------------
(* A slip in the code: the handle is dropped and the timer runs on. *)
Dropped(t) == timers
(* cancel: a timer that is due already will fire all the same. *)
Cancelled(t) ==
    IF t # NoTimer /\ timers[t].state = "running" THEN [timers EXCEPT ![t] = Free] ELSE timers
TooLate(t) == t # NoTimer /\ timers[t].state = "due"

(* A slip in the code: the new handle is set first, and then cancelled. *)
ExpiresLaterSwapped(s, ssp) ==
    \E t \in TimerIds :
        /\ Cancelled(ssp.timer)[t] = Free
        /\ timers' = Cancelled(ssp.timer)
        /\ sessions' = Put(sessions, s, SessionOf(ssp.uid, t))
        /\ late' = late

(* set_session_expire_time(s, SESSION_TIMEOUT) for the session ssp: the    *)
(* timer it has is cancelled, a new one starts and becomes its handle.     *)
ExpiresLater(s, ssp) ==
    \E t \in TimerIds :
        /\ Cancelled(ssp.timer)[t] = Free
        /\ \A lower \in 1 .. t - 1 : Cancelled(ssp.timer)[lower] # Free
        /\ timers' = [Cancelled(ssp.timer) EXCEPT ![t] = [state |-> "running", ssid |-> s]]
        /\ sessions' = Put(sessions, s, SessionOf(ssp.uid, t))
        /\ late' = IF TooLate(ssp.timer) THEN late \cup {s} ELSE late

(* set_session_expire_time(s, SESSION_FOREVER). *)
ExpiresNever(s, ssp) ==
    /\ timers' = Cancelled(ssp.timer)
    /\ sessions' = Put(sessions, s, SessionOf(ssp.uid, NoTimer))
    /\ late' = IF TooLate(ssp.timer) THEN late \cup {s} ELSE late

(* session_expire_with_cache *)
Renew(s, ssp) == ExpiresLater(s, ssp) /\ expireSession
Keep(s, ssp) == ExpiresNever(s, ssp) /\ delSession(s)

-----------------------------------------------------------------------------
(* get_session_by_cookie: the session in memory or else one made of the    *)
(* copy in Redis.  The one made is appended and put on a timer, which a    *)
(* handler that goes on to set the time itself cancels in the same step.   *)
Misses(s) == s \notin DOMAIN sessions
Sees(s, ssp) ==
    \/ s \in DOMAIN sessions /\ ssp = sessions[s]
    \/ s \in DOMAIN copies \ DOMAIN sessions /\ ssp = SessionOf(copies[s], NoTimer)

(* A slip in the code: append_session leaves the next id alone. *)
NextIdUnmoved(s) == next_ssid
(* A slip in the code: append_session counts like create_session. *)
NextIdCounted(s) == next_ssid + 1
NextIdAfter(s) == IF s >= next_ssid THEN s + 1 ELSE next_ssid

Objects == {sessions[s] : s \in DOMAIN sessions}
             \cup {SessionOf(copies[s], NoTimer) : s \in DOMAIN copies}

Renews(s) ==
    \E ssp \in Objects :
        /\ Sees(s, ssp)
        /\ Renew(s, ssp)
        /\ next_ssid' = NextIdAfter(s)
Keeps(s) ==
    \E ssp \in Objects :
        /\ Sees(s, ssp)
        /\ Keep(s, ssp)
        /\ next_ssid' = NextIdAfter(s)

(* The handler goes no further: there is no session, or nothing to do to   *)
(* the one in memory.                                                      *)
Stops == UNCHANGED <<sessions, next_ssid, timers, copies, late>>
Restores(s) == Misses(s) /\ Renews(s)

-----------------------------------------------------------------------------
(* HTTP *)
login(uid) ==
    LET s == next_ssid IN
    /\ s <= MaxSsid
    /\ ExpiresLater(s, SessionOf(uid, NoTimer))
    /\ setSession(s, uid)
    /\ next_ssid' = s + 1
    /\ cookie' = [cookie EXCEPT ![uid] = s]
    /\ UNCHANGED <<opened, closing, restarts>>

(* info, and with Stops or Restores alone the case that select_by_id fails. *)
info(uid) ==
    /\ cookie[uid] # 0
    /\ Stops \/ Restores(cookie[uid]) \/ Renews(cookie[uid])
    /\ UNCHANGED <<web, restarts>>

(* WebSocket open handlers: a user who enters, or spectates, keeps the     *)
(* session; one who is refused, or has no room, stops after the lookup.    *)
wsopen_callback(uid) ==
    LET s == cookie[uid] IN
    /\ s # 0
    /\ opened[s] + closing[s] < MaxConns
    /\ opened' = [opened EXCEPT ![s] = @ + 1]
    /\ Stops \/ Restores(s) \/ Keeps(s)
    /\ UNCHANGED <<cookie, closing, restarts>>

(* A message only looks its session up. *)
wsmsg_callback(s) ==
    /\ opened[s] > 0
    /\ Restores(s)
    /\ UNCHANGED <<web, restarts>>

Drops(s) ==
    /\ opened[s] > 0
    /\ opened' = [opened EXCEPT ![s] = @ - 1]
    /\ closing' = [closing EXCEPT ![s] = @ + 1]
    /\ UNCHANGED <<sessions, next_ssid, timers, copies, cookie, late, restarts>>

(* A slip in the code: the session stays as it is. *)
wsclose_unrenewed(s) ==
    /\ closing[s] > 0
    /\ closing' = [closing EXCEPT ![s] = @ - 1]
    /\ Stops
    /\ UNCHANGED <<cookie, opened, restarts>>

(* Close handlers of /hall, /room and /spectate. *)
wsclose_callback(s) ==
    /\ closing[s] > 0
    /\ closing' = [closing EXCEPT ![s] = @ - 1]
    /\ \/ Misses(s) /\ Stops
       \/ Renews(s)
    /\ UNCHANGED <<cookie, opened, restarts>>

(* The browser is closed; SSID is a cookie of the browser session. *)
Forgets(uid) ==
    /\ cookie[uid] # 0
    /\ cookie' = [cookie EXCEPT ![uid] = 0]
    /\ UNCHANGED <<sessions, next_ssid, timers, copies, opened, closing, late, restarts>>

-----------------------------------------------------------------------------
(* A timer's time is up, and later the io thread runs its handler. *)
TimeIsUp(t) ==
    /\ timers[t].state = "running"
    /\ timers' = [timers EXCEPT ![t].state = "due"]
    /\ UNCHANGED <<sessions, next_ssid, copies, web, late, restarts>>

(* remove_session *)
TimerFires(t) ==
    /\ timers[t].state = "due"
    /\ timers' = [timers EXCEPT ![t] = Free]
    /\ sessions' = Erase(sessions, timers[t].ssid)
    /\ UNCHANGED <<next_ssid, copies, web, late, restarts>>

CopyExpires(s) ==
    /\ s \in DOMAIN copies
    /\ copies' = Erase(copies, s)
    /\ UNCHANGED <<sessions, next_ssid, timers, web, late, restarts>>

(* The process ends, in whatever state, and starts again.  Redis and the   *)
(* browsers keep what they have.                                           *)
Restart ==
    /\ restarts < MaxRestarts
    /\ restarts' = restarts + 1
    /\ sessions' = [s \in {} |-> SessionOf(0, NoTimer)]
    /\ next_ssid' = 1
    /\ timers' = [t \in TimerIds |-> Free]
    /\ opened' = [s \in Ssids |-> 0]
    /\ closing' = [s \in Ssids |-> 0]
    /\ late' = {}
    /\ UNCHANGED <<copies, cookie>>

Next ==
    \/ \E uid \in Users :
         login(uid) \/ info(uid) \/ wsopen_callback(uid) \/ Forgets(uid)
    \/ \E s \in Ssids :
         wsmsg_callback(s) \/ Drops(s) \/ wsclose_callback(s) \/ CopyExpires(s)
    \/ \E t \in TimerIds : TimeIsUp(t) \/ TimerFires(t)
    \/ Restart

Spec == Init /\ [][Next]_vars

(* Time passes, and the io thread gets to every timer and close handler. *)
FairSpec ==
    /\ Spec
    /\ \A t \in TimerIds : WF_vars(TimeIsUp(t)) /\ WF_vars(TimerFires(t))
    /\ \A s \in Ssids : WF_vars(wsclose_callback(s))

-----------------------------------------------------------------------------
TypeOK ==
    /\ DOMAIN sessions \subseteq Ssids
    /\ sessions \in [DOMAIN sessions -> [uid : Users, timer : TimerIds \cup {NoTimer}]]
    /\ next_ssid \in 1 .. MaxSsid + 1
    /\ timers \in [TimerIds -> {Free} \cup [state : {"running", "due"}, ssid : Ssids]]
    /\ DOMAIN copies \subseteq Ssids
    /\ copies \in [DOMAIN copies -> Users]
    /\ cookie \in [Users -> Ssids \cup {0}]
    /\ opened \in [Ssids -> 0 .. MaxConns]
    /\ closing \in [Ssids -> 0 .. MaxConns]
    /\ \A s \in Ssids : opened[s] + closing[s] <= MaxConns
    /\ late \subseteq Ssids
    /\ restarts \in 0 .. MaxRestarts

Kept(s) == s \in DOMAIN sessions /\ sessions[s].timer = NoTimer

(* No session is left behind: one that is on no timer has a connection     *)
(* whose close handler will put it on one, whatever order connections of   *)
(* one session were opened, refused and closed in.                         *)
KeptIsConnected == \A s \in Ssids : Kept(s) => opened[s] + closing[s] > 0

(* Every session in memory is on its way out, or in use: the timer whose    *)
(* handle it holds is running or due and is about this session and no      *)
(* other, or it has no handle and a connection.                            *)
WillEnd(s) ==
    LET t == sessions[s].timer
    IN t # NoTimer /\ timers[t].state # "free" /\ timers[t].ssid = s
SessionsWatched == \A s \in DOMAIN sessions : WillEnd(s) \/ opened[s] + closing[s] > 0

(* A login never takes the place of a session that is there, not even of   *)
(* one that a process before this one began and Redis gave back.           *)
LoginReplacesNobody ==
    [][\A s \in DOMAIN sessions \cap DOMAIN sessions' : sessions'[s].uid = sessions[s].uid]_vars

(* The session of a user who is inside stays while he is: the timers set   *)
(* before he came are gone, except one that was due when it was cancelled. *)
KeptStays ==
    [][\A s \in Ssids \ late :
          Kept(s) /\ s \notin DOMAIN sessions' => restarts' # restarts]_vars

(* A session nobody can name any more ends. *)
Nameless(s) == opened[s] + closing[s] = 0 /\ \A uid \in Users : cookie[uid] # s
SessionsEnd == \A s \in Ssids : Nameless(s) ~> (s \notin DOMAIN sessions \/ ~Nameless(s))
=============================================================================
