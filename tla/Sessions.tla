------------------------------ MODULE Sessions ------------------------------
(***************************************************************************)
(* Sign-in, requests, token refresh, logout and logout from all sessions:  *)
(* AuthService over SessionService, CsrfService and RedisService.          *)
(*                                                                         *)
(* A session is a Redis key of its own and an entry of the index set of    *)
(* its user, both with a time to live; while RedisService has noticed that *)
(* the connection is gone, SessionService keeps sessions in the memory of  *)
(* the process instead.  Every Redis command is a step of a handler, and   *)
(* what is done between two commands belongs to the step before.  Which    *)
(* store is used is decided anew at each command.                          *)
(*                                                                         *)
(* Credentials, roles and JWTs are checked without effect on this state:   *)
(* a handler starts where they have been accepted, or breaks off.          *)
(***************************************************************************)
EXTENDS Integers, FiniteSets

CONSTANTS
    Users,
    Sessions,       \* bound: the session ids that can be drawn
    Procs,          \* bound: the request handlers in flight at once
    MaxSessions,    \* maxSessionsPerUser
    TTL,            \* sessionTtl
    MaxTime,        \* bound: how long the clock runs
    MaxFaults       \* bound: how often the connection to Redis breaks or the server
                    \* is restarted

NoUser == "nobody"
Gone == 0           \* the expiry of a key that does not exist
Forever == MaxTime + TTL + 1

ASSUME SessionsAssumption ==
    /\ MaxSessions \in Nat \ {0} /\ TTL \in Nat \ {0}
    /\ MaxTime \in Nat \ {0} /\ MaxFaults \in Nat
    /\ IsFiniteSet(Sessions)
    /\ NoUser \notin Users

VARIABLES
    clock,
    conn,       \* the connection to Redis: "up", "failing" (not noticed yet), "down"
    keys,       \* Redis: when the key of each session expires
    index,      \* Redis: user_sessions, with the time it expires
    memory,     \* memoryStore: expiresAt of the sessions kept there
    csrf,       \* tokenStore: the sessions that have a CSRF token
    owner,      \* userId of the sessions created so far
    handler,    \* what each handler in flight does next
    issued,     \* history: sessions whose sign-in has been answered
    ended,      \* history: sessions a logout has been reported for
    strayed,    \* history: sessions handled in an outage, or stored again after
                \* they were deleted
    unlisted,   \* history: sessions alive when the index that lists them was lost
    outages,
    restarts

redis == <<keys, index>>
history == <<issued, ended, strayed, unlisted>>
faults == <<conn, outages, restarts>>
vars == <<clock, redis, memory, csrf, owner, handler, history, faults>>

Idle == [pc |-> "idle"]
NoIndex == [ids |-> {}, exp |-> Gone]
Expiries == 0..Forever

\* What sessions are listed or invalidated for.
Jobs == [of : {"signIn", "logout"}, sid : Sessions]
        \cup [of : {"revoke", "logoutAll", "list"}, user : Users]

UserOf(j) == IF j.of \in {"signIn", "logout"} THEN owner[j.sid] ELSE j.user

Handler ==
    [pc : {"adding", "expiring", "issuing", "renewing", "extending"}, sid : Sessions]
    \cup [pc : {"touching"}, sid : Sessions, exp : Expiries]
    \cup [pc : {"listing"}, job : Jobs]
    \cup [pc : {"fetching"}, job : Jobs, ids : SUBSET Sessions]
    \cup [pc : {"pruning"}, job : Jobs, ids : SUBSET Sessions, found : SUBSET Sessions]
    \cup [pc : {"dropping"}, job : Jobs, all : SUBSET Sessions, todo : SUBSET Sessions]
    \cup [pc : {"deleting", "unlisting"}, job : Jobs,
          all : SUBSET Sessions, todo : SUBSET Sessions, sid : Sessions]

TypeOK ==
    /\ clock \in 0..MaxTime
    /\ conn \in {"up", "failing", "down"}
    /\ keys \in [Sessions -> Expiries] /\ memory \in [Sessions -> Expiries]
    /\ index \in [Users -> [ids : SUBSET Sessions, exp : Expiries]]
    /\ owner \in [Sessions -> Users \cup {NoUser}]
    /\ handler \in [Procs -> Handler \cup {Idle}]
    /\ \A S \in {csrf, issued, ended, strayed, unlisted} : S \subseteq Sessions
    /\ outages \in 0..MaxFaults /\ restarts \in 0..MaxFaults

Init ==
    /\ clock = 1
    /\ conn = "up"
    /\ keys = [s \in Sessions |-> Gone]
    /\ index = [u \in Users |-> NoIndex]
    /\ memory = [s \in Sessions |-> Gone]
    /\ csrf = {}
    /\ owner = [s \in Sessions |-> NoUser]
    /\ handler = [p \in Procs |-> Idle]
    /\ issued = {} /\ ended = {} /\ strayed = {} /\ unlisted = {}
    /\ outages = 0 /\ restarts = 0

-----------------------------------------------------------------------------
(* RedisService and the two stores *)

\* isAvailable: the client has seen no error and no close event.
UseRedis == conn # "down"

\* Commands answer null, false or nothing when they fail.
Works == conn = "up"

Stored(s) == keys[s] > clock
Listed(u) == IF index[u].exp > clock THEN index[u].ids ELSE {}

\* getSession
Found(s) == IF UseRedis THEN Works /\ Stored(s) ELSE memory[s] # Gone

SetKey(s, exp) == keys' = IF Works THEN [keys EXCEPT ![s] = exp] ELSE keys

\* Faulty: only the index is told.
DelKeyNever(s) == UNCHANGED keys

DelKey(s) == SetKey(s, Gone)

\* SADD makes a new index, without an expiry, when there is none.
AddedTo(u, s) ==
    [ids |-> Listed(u) \cup {s},
     exp |-> IF Listed(u) = {} THEN Forever ELSE index[u].exp]

\* Faulty: DEL in place of SREM.
RemovedWithAll(u, S) == IF Listed(u) \cap S # {} THEN NoIndex ELSE index[u]

\* SREM: a set without members is no key any more.
RemovedFrom(u, S) ==
    IF Listed(u) \subseteq S THEN NoIndex ELSE [index[u] EXCEPT !.ids = @ \ S]

SetIndex(u, i) == index' = IF Works THEN [index EXCEPT ![u] = i] ELSE index

Goto(p, h) == handler' = [handler EXCEPT ![p] = h]

\* History: what a handler does to sessions S during an outage.
Handle(S) == strayed' = IF Works THEN strayed ELSE strayed \cup S

\* The sessions that a listing for j is about: if it fails, it finds none of them,
\* and may take them all off the index.
Concerned(j) == {s \in Sessions : owner[s] = UserOf(j)}

-----------------------------------------------------------------------------
(* SessionService.getUserSessions, for the job j *)

\* Faulty: one session too many stays.
ExcessBeyondNext(S) == IF Cardinality(S) > MaxSessions + 1 THEN Cardinality(S) - MaxSessions ELSE 0

\* How many of these sessions enforceMaxSessions removes.
Excess(S) == IF Cardinality(S) > MaxSessions THEN Cardinality(S) - MaxSessions ELSE 0

Dropping(j, all, todo) == [pc |-> "dropping", job |-> j, all |-> all, todo |-> todo]

\* What the caller does with the sessions it is given.  enforceMaxSessions drops the
\* oldest: how old they are is left out, so that it may be any of them.
\* logoutAllSessionsAsync first takes back CSRF tokens and asks a second time.
Continue(p, j, found) ==
    /\ CASE j.of = "signIn" ->
              \E D \in SUBSET found :
                 Cardinality(D) = Excess(found) /\ Goto(p, Dropping(j, {}, D))
         [] j.of = "revoke" ->
              Goto(p, [pc |-> "listing", job |-> [of |-> "logoutAll", user |-> j.user]])
         [] j.of = "logoutAll" -> Goto(p, Dropping(j, found, found))
         [] OTHER -> Goto(p, Idle)
    /\ csrf' = IF j.of = "revoke" THEN csrf \ found ELSE csrf

\* memoryStore.values(): expiry is not looked at.
InMemory(u) == {s \in Sessions : owner[s] = u /\ memory[s] # Gone}

\* SMEMBERS
List(p) ==
    LET j == handler[p].job
        ids == IF Works THEN Listed(UserOf(j)) ELSE {}
    IN  /\ handler[p].pc = "listing"
        /\ IF UseRedis /\ ids # {}
           THEN /\ Goto(p, [pc |-> "fetching", job |-> j, ids |-> ids])
                /\ UNCHANGED csrf
           ELSE Continue(p, j, IF UseRedis THEN {} ELSE InMemory(UserOf(j)))
        /\ Handle(Concerned(j))
        /\ UNCHANGED <<clock, redis, memory, owner, issued, ended, unlisted, faults>>

\* MGET
Fetch(p) ==
    LET h == handler[p]
        found == {s \in h.ids : Works /\ Stored(s)}
    IN  /\ h.pc = "fetching"
        /\ IF found = h.ids
           THEN Continue(p, h.job, found)
           ELSE /\ Goto(p, [pc |-> "pruning", job |-> h.job, ids |-> h.ids, found |-> found])
                /\ UNCHANGED csrf
        /\ Handle(Concerned(h.job))
        /\ UNCHANGED <<clock, redis, memory, owner, issued, ended, unlisted, faults>>

\* SREM of the ids without a session.  It is sent while the connection lasts, and if
\* MGET failed it can still succeed.
Prune(p) ==
    LET h == handler[p]
        u == UserOf(h.job)
    IN  /\ h.pc = "pruning"
        /\ SetIndex(u, RemovedFrom(u, h.ids \ h.found))
        /\ Continue(p, h.job, h.found)
        /\ UNCHANGED <<clock, keys, memory, owner, history, faults>>

-----------------------------------------------------------------------------
(* SessionService.invalidateSession, for each session of a job *)

\* getSession of the next one.  In memory the deletion follows at once.
Drop(p, s) ==
    LET h == handler[p]
        rest == Dropping(h.job, h.all, h.todo \ {s})
    IN  /\ h.pc = "dropping"
        /\ s \in h.todo
        /\ Goto(p, IF UseRedis /\ Found(s)
                   THEN [pc |-> "deleting", job |-> h.job, all |-> h.all,
                         todo |-> h.todo \ {s}, sid |-> s]
                   ELSE rest)
        /\ memory' = IF UseRedis THEN memory ELSE [memory EXCEPT ![s] = Gone]
        /\ Handle({s})
        /\ UNCHANGED <<clock, redis, csrf, owner, issued, ended, unlisted, faults>>

\* DEL.  useRedis() was asked before it; a connection that broke since is "failing".
Delete(p) ==
    LET h == handler[p]
    IN  /\ h.pc = "deleting"
        /\ DelKey(h.sid)
        /\ Goto(p, [h EXCEPT !.pc = "unlisting"])
        /\ Handle({h.sid})
        /\ UNCHANGED <<clock, index, memory, csrf, owner, issued, ended, unlisted, faults>>

\* SREM
Unlist(p) ==
    LET h == handler[p]
        u == owner[h.sid]
    IN  /\ h.pc = "unlisting"
        /\ SetIndex(u, RemovedFrom(u, {h.sid}))
        /\ Goto(p, Dropping(h.job, h.all, h.todo))
        /\ UNCHANGED <<clock, keys, memory, csrf, owner, history, faults>>

-----------------------------------------------------------------------------
(* signInSecureAsync *)

\* createSession: SET, or all of it in memory.
CreateSession(p, u, s) ==
    /\ handler[p].pc = "idle"
    /\ owner[s] = NoUser
    /\ owner' = [owner EXCEPT ![s] = u]
    /\ Handle({s})
    /\ IF UseRedis
       THEN /\ SetKey(s, clock + TTL)
            /\ Goto(p, [pc |-> "adding", sid |-> s])
            /\ UNCHANGED memory
       ELSE /\ \E D \in SUBSET (InMemory(u) \cup {s}) :
                  /\ Cardinality(D) = Excess(InMemory(u) \cup {s})
                  /\ memory' = [t \in Sessions |->
                                  CASE t \in D -> Gone
                                    [] t = s   -> clock + TTL
                                    [] OTHER   -> memory[t]]
            /\ Goto(p, [pc |-> "issuing", sid |-> s])
            /\ UNCHANGED keys
    /\ UNCHANGED <<clock, index, csrf, issued, ended, unlisted, faults>>

\* SADD
AddToIndex(p) ==
    LET s == handler[p].sid
    IN  /\ handler[p].pc = "adding"
        /\ SetIndex(owner[s], AddedTo(owner[s], s))
        /\ Goto(p, [pc |-> "expiring", sid |-> s])
        /\ Handle({s})
        /\ UNCHANGED <<clock, keys, memory, csrf, owner, issued, ended, unlisted, faults>>

\* EXPIRE; enforceMaxSessions comes next.
SetIndexExpiry(p) ==
    LET s == handler[p].sid
        u == owner[s]
    IN  /\ handler[p].pc = "expiring"
        /\ SetIndex(u, IF Listed(u) = {} THEN NoIndex
                       ELSE [index[u] EXCEPT !.exp = clock + TTL])
        /\ Goto(p, [pc |-> "listing", job |-> [of |-> "signIn", sid |-> s]])
        /\ Handle({s})
        /\ UNCHANGED <<clock, keys, memory, csrf, owner, issued, ended, unlisted, faults>>

\* The sessions above the limit are gone: the CSRF token and the reply.
Issue(p) ==
    LET h == handler[p]
        s == IF h.pc = "issuing" THEN h.sid ELSE h.job.sid
    IN  /\ \/ h.pc = "issuing"
           \/ h.pc = "dropping" /\ h.job.of = "signIn" /\ h.todo = {}
        /\ csrf' = csrf \cup {s}
        /\ issued' = issued \cup {s}
        /\ Goto(p, Idle)
        /\ UNCHANGED <<clock, redis, memory, owner, ended, strayed, unlisted, faults>>

-----------------------------------------------------------------------------
(* logoutAsync and logoutAllSessionsAsync *)

Logout(p, s) ==
    /\ handler[p].pc = "idle"
    /\ s \in issued
    /\ Goto(p, Dropping([of |-> "logout", sid |-> s], {}, {s}))
    /\ UNCHANGED <<clock, redis, memory, csrf, owner, history, faults>>

\* invalidateToken, and the reply.
EndLogout(p) ==
    LET h == handler[p]
    IN  /\ h.pc = "dropping" /\ h.job.of = "logout" /\ h.todo = {}
        /\ csrf' = csrf \ {h.job.sid}
        /\ ended' = ended \cup {h.job.sid}
        /\ Goto(p, Idle)
        /\ UNCHANGED <<clock, redis, memory, owner, issued, strayed, unlisted, faults>>

\* getUserSessionsAsync: it only looks.  logoutAllSessionsAsync comes after the
\* guards, see Validated.
ListSessions(p, u) ==
    /\ handler[p].pc = "idle"
    /\ \E s \in issued : owner[s] = u
    /\ Goto(p, [pc |-> "listing", job |-> [of |-> "list", user |-> u]])
    /\ UNCHANGED <<clock, redis, memory, csrf, owner, history, faults>>

\* DEL of the index, whatever a sign-in has added to it meanwhile, and the reply.
EndLogoutAll(p) ==
    LET h == handler[p]
        u == h.job.user
    IN  /\ h.pc = "dropping" /\ h.job.of = "logoutAll" /\ h.todo = {}
        /\ SetIndex(u, NoIndex)
        /\ ended' = ended \cup h.all
        /\ unlisted' = unlisted \cup (IF Works THEN Listed(u) \ h.all ELSE {})
        /\ Goto(p, Idle)
        /\ UNCHANGED <<clock, keys, memory, csrf, owner, issued, strayed, faults>>

-----------------------------------------------------------------------------
(* validateSession, in SessionGuard and in refreshTokenSecureAsync *)

\* CsrfGuard, on a route that changes something.  A token is never older than its
\* session may become, so that its own age is not kept.
TokenAccepted(s) == s \in csrf

\* What comes after validateSession: nothing more; the rest of a refresh, which is
\* refused to a user who is gone, inactive or without roles; or, behind CsrfGuard,
\* logoutAllSessionsAsync.
Validated(p, s) ==
    \/ Goto(p, Idle)
    \/ Goto(p, [pc |-> "renewing", sid |-> s])
    \/ /\ TokenAccepted(s)
       /\ Goto(p, [pc |-> "listing", job |-> [of |-> "revoke", user |-> owner[s]]])

\* GET.  A session kept in memory is refused and dropped when it has expired; to
\* write it back changes nothing.
Validate(p, s) ==
    /\ handler[p].pc = "idle"
    /\ s \in issued
    /\ Found(s)
    /\ IF UseRedis
       THEN /\ Goto(p, [pc |-> "touching", sid |-> s, exp |-> keys[s]])
            /\ UNCHANGED memory
       ELSE LET expired == clock > memory[s]
            IN  /\ memory' = IF expired THEN [memory EXCEPT ![s] = Gone] ELSE memory
                /\ IF expired THEN Goto(p, Idle) ELSE Validated(p, s)
    /\ UNCHANGED <<clock, redis, csrf, owner, history, faults>>

\* Faulty: the time to live is counted from the old expiry.
StoreLonger(s, exp) ==
    /\ SetKey(s, exp + TTL)
    /\ strayed' = IF Works /\ Stored(s) THEN strayed ELSE strayed \cup {s}

\* What was read is stored again: has the key been deleted since?
StoreAgain(s, exp) ==
    /\ SetKey(s, exp)
    /\ strayed' = IF Works /\ Stored(s) THEN strayed ELSE strayed \cup {s}

\* SET with the new lastAccessedAt and the expiry that was read.
Touch(p) ==
    LET h == handler[p]
    IN  /\ h.pc = "touching"
        /\ IF h.exp > clock
           THEN StoreAgain(h.sid, h.exp)
           ELSE UNCHANGED <<keys, strayed>>
        /\ Validated(p, h.sid)
        /\ UNCHANGED <<clock, index, memory, csrf, owner, issued, ended, unlisted, faults>>

\* Faulty: the old CSRF token is deleted and none generated.
RotatedAway(s) == csrf \ {s}

\* rotateToken
Rotated(s) == csrf \cup {s}

\* refreshSession: GET.  That it finds nothing goes unnoticed, and rotateToken gives
\* a new CSRF token all the same.
Renew(p) ==
    LET s == handler[p].sid
        again == UseRedis /\ Found(s)
    IN  /\ handler[p].pc = "renewing"
        /\ Goto(p, IF again THEN [pc |-> "extending", sid |-> s] ELSE Idle)
        /\ csrf' = IF again THEN csrf ELSE Rotated(s)
        /\ memory' = IF ~UseRedis /\ Found(s)
                     THEN [memory EXCEPT ![s] = clock + TTL] ELSE memory
        /\ UNCHANGED <<clock, redis, owner, history, faults>>

\* SET with a new expiry, and rotateToken.  The index keeps its own.
Extend(p) ==
    LET s == handler[p].sid
    IN  /\ handler[p].pc = "extending"
        /\ StoreAgain(s, clock + TTL)
        /\ csrf' = Rotated(s)
        /\ Goto(p, Idle)
        /\ UNCHANGED <<clock, index, memory, owner, issued, ended, unlisted, faults>>

-----------------------------------------------------------------------------
(* Time, the connection and the process *)

\* Redis removes what has expired.
Tick ==
    LET now == clock + 1
        lost == {u \in Users : index[u].exp = now}
    IN  /\ clock < MaxTime
        /\ clock' = now
        /\ keys' = [s \in Sessions |-> IF keys[s] > now THEN keys[s] ELSE Gone]
        /\ index' = [u \in Users |-> IF u \in lost THEN NoIndex ELSE index[u]]
        /\ unlisted' = unlisted \cup UNION {index[u].ids : u \in lost}
        /\ UNCHANGED <<memory, csrf, owner, handler, issued, ended, strayed, faults>>

\* A bound: a fault is worth its states only if time goes on after it.
FaultsLeft == outages + restarts < MaxFaults /\ clock < MaxTime

\* The connection breaks, the client notices, and connects again.
Connection(from, to) ==
    /\ conn = from
    /\ conn' = to
    /\ UNCHANGED <<clock, redis, memory, csrf, owner, handler, history, restarts>>

Break ==
    /\ FaultsLeft
    /\ outages' = outages + 1
    /\ Connection("up", "failing")
Notice == Connection("failing", "down") /\ UNCHANGED outages
Reconnect == Connection("down", "up") /\ UNCHANGED outages

\* The process loses its memory and the requests in flight; Redis keeps what it has.
Restart ==
    /\ FaultsLeft
    /\ restarts' = restarts + 1
    /\ memory' = [s \in Sessions |-> Gone]
    /\ csrf' = {}
    /\ handler' = [p \in Procs |-> Idle]
    /\ UNCHANGED <<clock, redis, conn, owner, history, outages>>

Next ==
    \/ \E p \in Procs :
        \/ \E s \in Sessions :
            \/ \E u \in Users : CreateSession(p, u, s)
            \/ Drop(p, s)
            \/ Logout(p, s)
            \/ Validate(p, s)
        \/ \E u \in Users : ListSessions(p, u)
        \/ AddToIndex(p) \/ SetIndexExpiry(p) \/ Issue(p)
        \/ List(p) \/ Fetch(p) \/ Prune(p)
        \/ Delete(p) \/ Unlist(p)
        \/ EndLogout(p) \/ EndLogoutAll(p)
        \/ Touch(p) \/ Renew(p) \/ Extend(p)
    \/ Tick
    \/ Break \/ Notice \/ Reconnect
    \/ Restart

Spec == Init /\ [][Next]_vars

-----------------------------------------------------------------------------
(* Properties *)

\* A session that was logged out, by itself or with all others, is never found
\* again, in Redis or in memory, after later outages and restarts too: unless it
\* was handled during an outage, or a request under way stored it once more.
EndedStaysEnded ==
    \A s \in ended \ strayed : ~Stored(s) /\ memory[s] = Gone

\* Every session in Redis that a sign-in has been answered for is in the index of
\* its user, where logout-all and the limit look for it: unless the index expired
\* before it or was deleted by a logout-all that did not see it.
IndexCovers ==
    \A s \in issued \ (strayed \cup unlisted) : Stored(s) => s \in Listed(owner[s])

\* enforceMaxSessions: however sign-ins overlap, those that have been answered
\* leave a user no more than maxSessionsPerUser sessions.
AtMostMaxSessions ==
    \A u \in Users :
        Cardinality({s \in issued \ (strayed \cup unlisted) : owner[s] = u /\ Stored(s)})
            <= MaxSessions

Revoking(u) ==
    \E p \in Procs : /\ handler[p] # Idle
                     /\ "job" \in DOMAIN handler[p]
                     /\ handler[p].job.of = "logoutAll"
                     /\ handler[p].job.user = u

\* As long as the process is not restarted, a session that can still be used has a
\* CSRF token, without which it could not make changes.
LiveSessionHasToken ==
    restarts = 0 =>
        \A s \in issued \ (strayed \cup unlisted) :
            Stored(s) /\ ~Revoking(owner[s]) => s \in csrf
=============================================================================
