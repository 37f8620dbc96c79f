--------------------------- MODULE SessionsProofs ---------------------------
(***************************************************************************)
(* Theorems about Sessions, for every number of users, sessions and        *)
(* handlers, every limit and time to live, and every number of faults.     *)
(*                                                                         *)
(* The inductive invariants are layered: each layer is preserved under     *)
(* those before it.                                                        *)
(*                                                                         *)
(*   Typed    the types, and that handlers work on sessions that exist     *)
(*   Ends     what each handler knows of the sessions it works on          *)
(*   Covered  a sign-in that has sent SADD is in the index                 *)
(*   Tokens   a session without a token is about to be dropped             *)
(*   Limited  of two sign-ins that have read the index for the limit, one  *)
(*            has seen what the other has                                  *)
(*                                                                         *)
(* Two facts hold of every step: a session that is dead stays so (Onward), *)
(* and an index loses only the dead and the unlisted (KeepsIndex).         *)
(***************************************************************************)
EXTENDS Sessions, TLAPS, FiniteSetTheorems

OwnSteps == {"adding", "expiring", "issuing", "touching", "renewing", "extending"}
SidSteps == OwnSteps \cup {"deleting", "unlisting"}
DropSteps == {"dropping", "deleting", "unlisting"}
JobSteps == {"listing", "fetching", "pruning"} \cup DropSteps

Owned(s) == owner[s] \in Users

(* Whoever works on a session works on one that was created.                   *)
SidsOwned(h) ==
    /\ h.pc \in OwnSteps => Owned(h.sid)
    /\ h.pc \in JobSteps /\ h.job.of \in {"signIn", "logout"} => Owned(h.job.sid)

Ownership ==
    /\ \A s \in issued : Owned(s)
    /\ \A p \in Procs : SidsOwned(handler[p])

Typed == TypeOK /\ Ownership

-----------------------------------------------------------------------------
(* Type correctness *)

LEMMA JobType ==
  ASSUME NEW j \in Jobs
  PROVE  /\ j.of \in {"signIn", "logout", "revoke", "logoutAll", "list"}
         /\ j.of \in {"signIn", "logout"} => j.sid \in Sessions
         /\ j.of \in {"revoke", "logoutAll", "list"} => j.user \in Users
  BY DEF Jobs

(* What a handler has read is of the right kind for the step it is at.          *)
LEMMA HandlerFields ==
  ASSUME TypeOK, NEW p \in Procs
  PROVE  LET h == handler[p]
         IN  /\ h.pc \in SidSteps => h.sid \in Sessions
             /\ h.pc \in JobSteps => h.job \in Jobs
             /\ h.pc \in {"fetching", "pruning"} => h.ids \in SUBSET Sessions
             /\ h.pc = "pruning" => h.found \in SUBSET Sessions
             /\ h.pc \in DropSteps => h.all \in SUBSET Sessions /\ h.todo \in SUBSET Sessions
             /\ h.pc = "touching" => h.exp \in Expiries
<1> PICK h : h = handler[p]
  OBVIOUS
<1>1. h \in Handler \cup {Idle}
  BY DEF TypeOK
<1>2. CASE h.pc \in {"adding", "expiring", "issuing", "renewing", "extending"}
  BY <1>1, <1>2 DEF Handler, Idle, SidSteps, OwnSteps, JobSteps, DropSteps
<1>3. CASE h.pc = "touching"
  BY <1>1, <1>3 DEF Handler, Idle, SidSteps, OwnSteps, JobSteps, DropSteps
<1>4. CASE h.pc \in {"listing", "fetching", "pruning"}
  BY <1>1, <1>4 DEF Handler, Idle, SidSteps, OwnSteps, JobSteps, DropSteps
<1>5. CASE h.pc \in DropSteps
  BY <1>1, <1>5 DEF Handler, Idle, SidSteps, OwnSteps, JobSteps, DropSteps
<1> QED BY <1>2, <1>3, <1>4, <1>5 DEF SidSteps, OwnSteps, JobSteps, DropSteps

(* Where a handler may go.                                                      *)
LEMMA Handlers ==
  ASSUME NEW j \in Jobs, NEW s \in Sessions, NEW S \in SUBSET Sessions,
         NEW T \in SUBSET Sessions, NEW e \in Expiries
  PROVE  /\ \A c \in {"adding", "expiring", "issuing", "renewing", "extending"} :
               [pc |-> c, sid |-> s] \in Handler
         /\ [pc |-> "touching", sid |-> s, exp |-> e] \in Handler
         /\ [pc |-> "listing", job |-> j] \in Handler
         /\ [pc |-> "fetching", job |-> j, ids |-> S] \in Handler
         /\ [pc |-> "pruning", job |-> j, ids |-> S, found |-> T] \in Handler
         /\ [pc |-> "dropping", job |-> j, all |-> S, todo |-> T] \in Handler
         /\ \A c \in {"deleting", "unlisting"} :
               [pc |-> c, job |-> j, all |-> S, todo |-> T, sid |-> s] \in Handler
  BY DEF Handler

LEMMA Times ==
  ASSUME TypeOK
  PROVE  /\ clock + TTL \in Expiries /\ Gone \in Expiries /\ Forever \in Expiries
         /\ clock + TTL > clock /\ Forever > clock /\ ~(Gone > clock)
         /\ clock \in Nat
  BY SessionsAssumption DEF TypeOK, Expiries, Forever, Gone

(* The parts of the state, each with what it takes to keep its type.            *)
LEMMA PartsType ==
  ASSUME TypeOK
  PROVE  /\ \A p \in Procs : \A h \in Handler \cup {Idle} :
               Goto(p, h) => handler' \in [Procs -> Handler \cup {Idle}]
         /\ \A s \in Sessions : \A e \in Expiries :
               SetKey(s, e) => keys' \in [Sessions -> Expiries]
         /\ \A u : \A i \in [ids : SUBSET Sessions, exp : Expiries] :
               SetIndex(u, i) => index' \in [Users -> [ids : SUBSET Sessions, exp : Expiries]]
         /\ \A S \in SUBSET Sessions : Handle(S) => strayed' \in SUBSET Sessions
  BY DEF TypeOK, Goto, SetKey, SetIndex, Handle

LEMMA IndexType ==
  ASSUME TypeOK, NEW u \in Users
  PROVE  /\ Listed(u) \in SUBSET Sessions
         /\ NoIndex \in [ids : SUBSET Sessions, exp : Expiries]
         /\ \A s \in Sessions : AddedTo(u, s) \in [ids : SUBSET Sessions, exp : Expiries]
         /\ \A S : RemovedFrom(u, S) \in [ids : SUBSET Sessions, exp : Expiries]
         /\ [index[u] EXCEPT !.exp = clock + TTL] \in [ids : SUBSET Sessions, exp : Expiries]
<1>1. index[u] \in [ids : SUBSET Sessions, exp : Expiries]
  BY DEF TypeOK
<1>2. Gone \in Expiries /\ Forever \in Expiries /\ clock + TTL \in Expiries
  BY Times
<1>3. Listed(u) \in SUBSET Sessions
  BY <1>1 DEF Listed
<1>4. NoIndex \in [ids : SUBSET Sessions, exp : Expiries]
  BY <1>2 DEF NoIndex
<1>5. \A s \in Sessions : AddedTo(u, s) \in [ids : SUBSET Sessions, exp : Expiries]
  BY <1>1, <1>2, <1>3 DEF AddedTo
<1>6. \A S : [index[u] EXCEPT !.ids = @ \ S] \in [ids : SUBSET Sessions, exp : Expiries]
  BY <1>1
<1>7. \A S : RemovedFrom(u, S) \in [ids : SUBSET Sessions, exp : Expiries]
  BY <1>4, <1>6 DEF RemovedFrom
<1> QED BY <1>1, <1>2, <1>3, <1>4, <1>5, <1>7

(* The continuations of a listing.                                              *)
LEMMA ContinueCases ==
  ASSUME TypeOK, NEW p \in Procs, NEW j \in Jobs, NEW found \in SUBSET Sessions,
         Continue(p, j, found)
  PROVE  \/ /\ j.of = "signIn" /\ UNCHANGED csrf
            /\ \E D \in SUBSET found :
                  Cardinality(D) = Excess(found) /\ Goto(p, Dropping(j, {}, D))
         \/ /\ j.of = "revoke" /\ csrf' = csrf \ found
            /\ Goto(p, [pc |-> "listing",
                        job |-> [of |-> "logoutAll", user |-> j.user]])
         \/ /\ j.of = "logoutAll" /\ UNCHANGED csrf
            /\ Goto(p, Dropping(j, found, found))
         \/ /\ j.of \in {"logout", "list"} /\ UNCHANGED csrf
            /\ Goto(p, Idle)
  BY JobType DEF Continue

LEMMA ContinueType ==
  ASSUME TypeOK, NEW p \in Procs, NEW j \in Jobs, NEW found \in SUBSET Sessions,
         Continue(p, j, found)
  PROVE  /\ handler' \in [Procs -> Handler \cup {Idle}]
         /\ csrf' \in SUBSET Sessions
<1>1. \E h \in Handler \cup {Idle} : Goto(p, h)
  <2>1. CASE j.of = "revoke"
    <3>1. [of |-> "logoutAll", user |-> j.user] \in Jobs
      BY <2>1, JobType DEF Jobs
    <3>2. [pc |-> "listing", job |-> [of |-> "logoutAll", user |-> j.user]] \in Handler
      BY <3>1 DEF Handler
    <3> QED BY <2>1, <3>2, ContinueCases
  <2>2. CASE j.of # "revoke"
    <3>1. \A S \in SUBSET Sessions, T \in SUBSET Sessions : Dropping(j, S, T) \in Handler
      BY DEF Dropping, Handler
    <3>2. \A D \in SUBSET found : D \in SUBSET Sessions /\ {} \in SUBSET Sessions
      OBVIOUS
    <3> QED BY <2>2, <3>1, <3>2, ContinueCases
  <2> QED BY <2>1, <2>2
<1>2. csrf' \in SUBSET Sessions
  BY ContinueCases DEF TypeOK
<1> QED BY <1>1, <1>2, PartsType

LEMMA OwnerKept ==
  ASSUME Typed, [Next]_vars
  PROVE  \A s \in Sessions : Owned(s) => owner'[s] = owner[s]
<1> SUFFICES ASSUME \/ UNCHANGED owner
                    \/ \E p \in Procs, u \in Users, s \in Sessions : CreateSession(p, u, s)
             PROVE  \A s \in Sessions : Owned(s) => owner'[s] = owner[s]
  <2>1. ASSUME NEW p \in Procs, NEW s \in Sessions,
               Drop(p, s) \/ Logout(p, s) \/ Validate(p, s)
        PROVE  UNCHANGED owner
    BY <2>1 DEF Drop, Logout, Validate
  <2>2. ASSUME NEW p \in Procs, NEW u \in Users, ListSessions(p, u)
        PROVE  UNCHANGED owner
    BY <2>2 DEF ListSessions
  <2>3. ASSUME NEW p \in Procs,
               AddToIndex(p) \/ SetIndexExpiry(p) \/ Issue(p) \/ List(p) \/ Fetch(p)
        PROVE  UNCHANGED owner
    BY <2>3 DEF AddToIndex, SetIndexExpiry, Issue, List, Fetch
  <2>4. ASSUME NEW p \in Procs,
               \/ Prune(p) \/ Delete(p) \/ Unlist(p) \/ EndLogout(p) \/ EndLogoutAll(p)
               \/ Touch(p) \/ Renew(p) \/ Extend(p)
        PROVE  UNCHANGED owner
    BY <2>4 DEF Prune, Delete, Unlist, EndLogout, EndLogoutAll, Touch, Renew, Extend
  <2>5. ASSUME Tick \/ Break \/ Notice \/ Reconnect \/ Restart
        PROVE  UNCHANGED owner
    BY <2>5 DEF Tick, Break, Notice, Reconnect, Connection, Restart
  <2>6. UNCHANGED vars => UNCHANGED owner
    BY DEF vars
  <2> QED BY <2>1, <2>2, <2>3, <2>4, <2>5, <2>6 DEF Next
<1>1. ASSUME NEW p \in Procs, NEW u \in Users, NEW s \in Sessions, CreateSession(p, u, s)
      PROVE  \A t \in Sessions : Owned(t) => owner'[t] = owner[t]
  BY <1>1, SessionsAssumption DEF CreateSession, Owned
<1> QED BY <1>1

LEMMA HandlerTyped ==
  ASSUME Typed, NEW p \in Procs, NEW h \in Handler \cup {Idle}, Goto(p, h),
         \A s \in Sessions : Owned(s) => owner'[s] = owner[s], SidsOwned(h)'
  PROVE  /\ handler' \in [Procs -> Handler \cup {Idle}]
         /\ \A q \in Procs : SidsOwned(handler[q])'
<1>1. handler' \in [Procs -> Handler \cup {Idle}]
  BY PartsType DEF Typed
<1>2. ASSUME NEW q \in Procs
      PROVE  SidsOwned(handler[q])'
  <2>1. CASE q = p
    <3>1. handler'[q] = h
      BY <2>1, <1>1 DEF Goto, Typed, TypeOK
    <3> QED BY <3>1 DEF SidsOwned, OwnSteps
  <2>2. CASE q # p
    <3>1. PICK g : g = handler[q]
      OBVIOUS
    <3>2. handler'[q] = g
      BY <3>1, <2>2 DEF Goto, Typed, TypeOK
    <3>3. SidsOwned(g)
      BY <3>1 DEF Typed, Ownership
    <3>4. /\ g.pc \in OwnSteps => g.sid \in Sessions
          /\ g.pc \in JobSteps => g.job \in Jobs
      BY <3>1, HandlerFields DEF Typed, SidSteps, OwnSteps
    <3>5. SidsOwned(g)'
      BY <3>3, <3>4, JobType DEF SidsOwned, OwnSteps, Owned
    <3> QED BY <3>2, <3>5 DEF SidsOwned, OwnSteps
  <2> QED BY <2>1, <2>2
<1> QED BY <1>1, <1>2

(* The next step of p is one a handler may be at.                               *)
GoesOn(p) == \E h \in Handler \cup {Idle} : Goto(p, h) /\ SidsOwned(h)'

LEMMA GoesIdle ==
  ASSUME Typed, NEW p \in Procs, Goto(p, Idle)
  PROVE  GoesOn(p)
  BY DEF GoesOn, SidsOwned, Idle, SidSteps, OwnSteps, JobSteps, DropSteps

LEMMA GoesToSid ==
  ASSUME Typed, NEW p \in Procs, NEW s \in Sessions, Owned(s)',
         NEW e \in Expiries,
         \/ Goto(p, [pc |-> "touching", sid |-> s, exp |-> e])
         \/ \E c \in {"adding", "expiring", "issuing", "renewing", "extending"} :
               Goto(p, [pc |-> c, sid |-> s])
  PROVE  GoesOn(p)
<1>1. CASE Goto(p, [pc |-> "touching", sid |-> s, exp |-> e])
  <2> PICK h : h = [pc |-> "touching", sid |-> s, exp |-> e]
    OBVIOUS
  <2>1. h \in Handler
    BY DEF Handler
  <2>2. SidsOwned(h)'
    BY DEF SidsOwned, OwnSteps, JobSteps, DropSteps
  <2> QED BY <1>1, <2>1, <2>2 DEF GoesOn
<1>2. ASSUME NEW c \in {"adding", "expiring", "issuing", "renewing", "extending"},
             Goto(p, [pc |-> c, sid |-> s])
      PROVE  GoesOn(p)
  <2> PICK h : h = [pc |-> c, sid |-> s]
    OBVIOUS
  <2>1. h \in Handler
    BY DEF Handler
  <2>2. SidsOwned(h)'
    BY DEF SidsOwned, OwnSteps, JobSteps, DropSteps
  <2> QED BY <1>2, <2>1, <2>2 DEF GoesOn
<1> QED BY <1>1, <1>2

LEMMA GoesToJob ==
  ASSUME Typed, NEW p \in Procs, NEW j \in Jobs,
         j.of \in {"signIn", "logout"} => Owned(j.sid)',
         NEW S \in SUBSET Sessions, NEW T \in SUBSET Sessions,
         \/ Goto(p, [pc |-> "listing", job |-> j])
         \/ Goto(p, [pc |-> "fetching", job |-> j, ids |-> S])
         \/ Goto(p, [pc |-> "pruning", job |-> j, ids |-> S, found |-> T])
         \/ Goto(p, Dropping(j, S, T))
  PROVE  GoesOn(p)
<1>1. CASE Goto(p, [pc |-> "listing", job |-> j])
  <2> PICK h : h = [pc |-> "listing", job |-> j]
    OBVIOUS
  <2>1. h \in Handler
    BY DEF Handler
  <2>2. SidsOwned(h)'
    BY DEF SidsOwned, SidSteps, OwnSteps
  <2> QED BY <1>1, <2>1, <2>2 DEF GoesOn
<1>2. CASE Goto(p, [pc |-> "fetching", job |-> j, ids |-> S])
  <2> PICK h : h = [pc |-> "fetching", job |-> j, ids |-> S]
    OBVIOUS
  <2>1. h \in Handler
    BY DEF Handler
  <2>2. SidsOwned(h)'
    BY DEF SidsOwned, SidSteps, OwnSteps
  <2> QED BY <1>2, <2>1, <2>2 DEF GoesOn
<1>3. CASE Goto(p, [pc |-> "pruning", job |-> j, ids |-> S, found |-> T])
  <2> PICK h : h = [pc |-> "pruning", job |-> j, ids |-> S, found |-> T]
    OBVIOUS
  <2>1. h \in Handler
    BY DEF Handler
  <2>2. SidsOwned(h)'
    BY DEF SidsOwned, SidSteps, OwnSteps
  <2> QED BY <1>3, <2>1, <2>2 DEF GoesOn
<1>4. CASE Goto(p, Dropping(j, S, T))
  <2> PICK h : h = Dropping(j, S, T)
    OBVIOUS
  <2>1. h \in Handler
    BY DEF Handler, Dropping
  <2>2. SidsOwned(h)'
    BY DEF SidsOwned, SidSteps, OwnSteps, Dropping
  <2> QED BY <1>4, <2>1, <2>2 DEF GoesOn
<1> QED BY <1>1, <1>2, <1>3, <1>4

LEMMA GoesToSession ==
  ASSUME Typed, NEW p \in Procs, NEW j \in Jobs, NEW s \in Sessions,
         j.of \in {"signIn", "logout"} => Owned(j.sid)',
         NEW S \in SUBSET Sessions, NEW T \in SUBSET Sessions,
         NEW c \in {"deleting", "unlisting"},
         Goto(p, [pc |-> c, job |-> j, all |-> S, todo |-> T, sid |-> s])
  PROVE  GoesOn(p)
<1> PICK h : h = [pc |-> c, job |-> j, all |-> S, todo |-> T, sid |-> s]
  OBVIOUS
<1>1. h \in Handler
  BY DEF Handler
<1>2. SidsOwned(h)'
  BY DEF SidsOwned, OwnSteps
<1> QED BY <1>1, <1>2 DEF GoesOn

LEMMA ContinueGoesOn ==
  ASSUME Typed, NEW p \in Procs, NEW j \in Jobs, NEW found \in SUBSET Sessions,
         j.of \in {"signIn", "logout"} => Owned(j.sid)', Continue(p, j, found)
  PROVE  GoesOn(p)
<1>1. TypeOK
  BY DEF Typed
<1>2. {} \in SUBSET Sessions /\ \A D \in SUBSET found : D \in SUBSET Sessions
  OBVIOUS
<1>3. CASE j.of = "signIn"
  <2>1. PICK D \in SUBSET found : Goto(p, Dropping(j, {}, D))
    BY <1>1, <1>3, ContinueCases
  <2> QED BY <2>1, <1>2, GoesToJob
<1>4. CASE j.of = "revoke"
  <2>1. PICK k : k = [of |-> "logoutAll", user |-> j.user]
    OBVIOUS
  <2>2. k \in Jobs /\ k.of = "logoutAll"
    BY <2>1, <1>4, JobType DEF Jobs
  <2>3. Goto(p, [pc |-> "listing", job |-> k])
    BY <1>1, <1>4, <2>1, ContinueCases
  <2> QED BY <2>2, <2>3, <1>2, GoesToJob
<1>5. CASE j.of = "logoutAll"
  BY <1>1, <1>5, ContinueCases, GoesToJob
<1>6. CASE j.of \in {"logout", "list"}
  BY <1>1, <1>6, ContinueCases, GoesIdle
<1> QED BY <1>3, <1>4, <1>5, <1>6, JobType

LEMMA UserOfJob ==
  ASSUME Typed, NEW p \in Procs, handler[p].pc \in JobSteps
  PROVE  UserOf(handler[p].job) \in Users
<1> PICK h : h = handler[p]
  OBVIOUS
<1>1. h.job \in Jobs
  BY HandlerFields DEF Typed
<1>2. SidsOwned(h)
  BY DEF Typed, Ownership
<1> QED BY <1>1, <1>2, JobType DEF UserOf, SidsOwned, Owned

(* What has to be shown of a handler's step.                                    *)
LEMMA StepTyped ==
  ASSUME Typed, NEW p \in Procs, GoesOn(p),
         \A s \in Sessions : Owned(s) => owner'[s] = owner[s],
         \/ UNCHANGED issued
         \/ \E s \in Sessions : issued' = issued \cup {s} /\ Owned(s)',
         UNCHANGED owner \/ owner' \in [Sessions -> Users \cup {NoUser}],
         UNCHANGED keys \/ keys' \in [Sessions -> Expiries],
         UNCHANGED memory \/ memory' \in [Sessions -> Expiries],
         UNCHANGED index \/ index' \in [Users -> [ids : SUBSET Sessions, exp : Expiries]],
         UNCHANGED csrf \/ csrf' \in SUBSET Sessions,
         UNCHANGED ended \/ ended' \in SUBSET Sessions,
         UNCHANGED strayed \/ strayed' \in SUBSET Sessions,
         UNCHANGED unlisted \/ unlisted' \in SUBSET Sessions,
         UNCHANGED <<clock, conn, outages, restarts>>
  PROVE  Typed'
<1>1. /\ handler' \in [Procs -> Handler \cup {Idle}]
      /\ \A q \in Procs : SidsOwned(handler[q])'
  BY HandlerTyped DEF GoesOn
<1>2. issued' \in SUBSET Sessions /\ \A s \in issued' : Owned(s)'
  BY DEF Typed, TypeOK, Ownership, Owned
<1>3. TypeOK'
  <2>1. /\ csrf' \in SUBSET Sessions /\ ended' \in SUBSET Sessions
        /\ strayed' \in SUBSET Sessions /\ unlisted' \in SUBSET Sessions
    BY DEF Typed, TypeOK
  <2>2. /\ owner' \in [Sessions -> Users \cup {NoUser}]
        /\ keys' \in [Sessions -> Expiries] /\ memory' \in [Sessions -> Expiries]
        /\ index' \in [Users -> [ids : SUBSET Sessions, exp : Expiries]]
    BY DEF Typed, TypeOK
  <2>3. /\ clock' \in 0..MaxTime /\ conn' \in {"up", "failing", "down"}
        /\ outages' \in 0..MaxFaults /\ restarts' \in 0..MaxFaults
    BY DEF Typed, TypeOK
  <2> QED BY <1>1, <1>2, <2>1, <2>2, <2>3 DEF TypeOK
<1> QED BY <1>1, <1>2, <1>3 DEF Typed, Ownership

LEMMA SignInTyped ==
  ASSUME Typed, [Next]_vars, NEW p \in Procs,
         \/ \E u \in Users, s \in Sessions : CreateSession(p, u, s)
         \/ AddToIndex(p) \/ SetIndexExpiry(p) \/ Issue(p)
  PROVE  Typed'
<1> USE DEF history, redis, faults
<1>0. TypeOK /\ \A s \in Sessions : Owned(s) => owner'[s] = owner[s]
  BY OwnerKept DEF Typed
<1>1. ASSUME NEW u \in Users, NEW s \in Sessions, CreateSession(p, u, s)
      PROVE  Typed'
  <2>1. GoesOn(p)
    <3>1. Owned(s)' /\ Gone \in Expiries
      BY <1>0, <1>1, Times DEF CreateSession, Owned, TypeOK
    <3> QED BY <3>1, <1>1, GoesToSid DEF CreateSession
  <2>2. /\ owner' \in [Sessions -> Users \cup {NoUser}]
        /\ strayed' \in SUBSET Sessions
    BY <1>0, <1>1 DEF CreateSession, TypeOK, Handle
  <2>3. keys' \in [Sessions -> Expiries] /\ memory' \in [Sessions -> Expiries]
    <3>1. clock + TTL \in Expiries /\ Gone \in Expiries
      BY <1>0, Times
    <3>2. CASE UseRedis
      BY <3>1, <3>2, <1>0, <1>1 DEF CreateSession, TypeOK, SetKey
    <3>3. CASE ~UseRedis
      <4>1. PICK D : memory' = [t \in Sessions |->
                                  CASE t \in D -> Gone
                                    [] t = s   -> clock + TTL
                                    [] OTHER   -> memory[t]]
        BY <3>3, <1>1 DEF CreateSession
      <4>2. memory' \in [Sessions -> Expiries]
        BY <4>1, <3>1, <1>0 DEF TypeOK
      <4> QED BY <4>2, <3>3, <1>0, <1>1 DEF CreateSession, TypeOK
    <3> QED BY <3>2, <3>3
  <2>4. UNCHANGED <<clock, index, csrf, issued, ended, unlisted,
                  conn, outages, restarts>>
    BY <1>1 DEF CreateSession
  <2> QED BY <2>1, <2>2, <2>3, <2>4, <1>0, StepTyped
<1>2. CASE AddToIndex(p)
  <2>1. PICK s : s = handler[p].sid
    OBVIOUS
  <2>2. s \in Sessions /\ Owned(s)
    BY <1>0, <2>1, <1>2, HandlerFields DEF AddToIndex, Typed, Ownership, SidsOwned, SidSteps, OwnSteps
  <2>3. GoesOn(p)
    BY <2>1, <2>2, <1>0, <1>2, GoesToSid, Times DEF AddToIndex, Owned
  <2>4. /\ index' \in [Users -> [ids : SUBSET Sessions, exp : Expiries]]
        /\ strayed' \in SUBSET Sessions
    <3>1. /\ AddedTo(owner[s], s) \in [ids : SUBSET Sessions, exp : Expiries]
          /\ {s} \in SUBSET Sessions
      BY <1>0, <2>2, IndexType DEF Owned
    <3> QED BY <3>1, <2>1, <1>0, <1>2, PartsType DEF AddToIndex
  <2>5. UNCHANGED <<clock, keys, memory, csrf, owner, issued, ended, unlisted,
                  conn, outages, restarts>>
    BY <1>2 DEF AddToIndex
  <2> QED BY <2>3, <2>4, <2>5, <1>0, StepTyped
<1>3. CASE SetIndexExpiry(p)
  <2>1. PICK s : s = handler[p].sid
    OBVIOUS
  <2>2. s \in Sessions /\ Owned(s)
    BY <1>0, <2>1, <1>3, HandlerFields DEF SetIndexExpiry, Typed, Ownership, SidsOwned, SidSteps, OwnSteps
  <2>3. GoesOn(p)
    <3>1. PICK j : j = [of |-> "signIn", sid |-> s]
      OBVIOUS
    <3>2. j \in Jobs /\ j.sid = s /\ Owned(s)'
      BY <3>1, <2>2, <1>0 DEF Jobs, Owned
    <3>3. Goto(p, [pc |-> "listing", job |-> j])
      BY <3>1, <2>1, <1>3 DEF SetIndexExpiry
    <3> QED BY <3>2, <3>3, GoesToJob
  <2>4. /\ index' \in [Users -> [ids : SUBSET Sessions, exp : Expiries]]
        /\ strayed' \in SUBSET Sessions
    <3>1. /\ NoIndex \in [ids : SUBSET Sessions, exp : Expiries]
          /\ [index[owner[s]] EXCEPT !.exp = clock + TTL]
                \in [ids : SUBSET Sessions, exp : Expiries]
          /\ {s} \in SUBSET Sessions
      BY <1>0, <2>2, IndexType DEF Owned
    <3> QED BY <3>1, <2>1, <1>0, <1>3, PartsType DEF SetIndexExpiry
  <2>5. UNCHANGED <<clock, keys, memory, csrf, owner, issued, ended, unlisted,
                  conn, outages, restarts>>
    BY <1>3 DEF SetIndexExpiry
  <2> QED BY <2>3, <2>4, <2>5, <1>0, StepTyped
<1>4. CASE Issue(p)
  <2>1. PICK s : s = IF handler[p].pc = "issuing" THEN handler[p].sid ELSE handler[p].job.sid
    OBVIOUS
  <2>2. s \in Sessions /\ Owned(s)
    <3> PICK h : h = handler[p]
      OBVIOUS
    <3>1. SidsOwned(h) /\ (h.pc = "dropping" => h.job \in Jobs)
          /\ (h.pc = "issuing" => h.sid \in Sessions)
      BY <1>0, HandlerFields DEF Typed, Ownership, SidSteps, OwnSteps, JobSteps, DropSteps
    <3> QED BY <3>1, <2>1, <1>4, JobType
            DEF Issue, SidsOwned, SidSteps, OwnSteps, JobSteps, DropSteps
  <2>3. GoesOn(p)
    BY <1>4, GoesIdle DEF Issue
  <2>4. csrf' = csrf \cup {s} /\ issued' = issued \cup {s}
    BY <2>1, <1>4 DEF Issue
  <2>5. Owned(s)'
    BY <2>2, <1>0 DEF Owned
  <2>6. UNCHANGED <<clock, keys, index, memory, owner, ended, strayed, unlisted,
                  conn, outages, restarts>>
    BY <1>4 DEF Issue
  <2>7. csrf' \in SUBSET Sessions
    BY <2>2, <2>4, <1>0 DEF TypeOK
  <2> QED BY <2>2, <2>3, <2>4, <2>5, <2>6, <2>7, <1>0, StepTyped
<1> QED BY <1>1, <1>2, <1>3, <1>4

LEMMA ListingTyped ==
  ASSUME Typed, [Next]_vars, NEW p \in Procs, List(p) \/ Fetch(p) \/ Prune(p)
  PROVE  Typed'
<1> USE DEF history, redis, faults
<1>0. TypeOK /\ \A s \in Sessions : Owned(s) => owner'[s] = owner[s]
  BY OwnerKept DEF Typed
<1> PICK j : j = handler[p].job
  OBVIOUS
<1>1. /\ j \in Jobs /\ UserOf(j) \in Users
      /\ j.of \in {"signIn", "logout"} => j.sid \in Sessions /\ Owned(j.sid)
  <2> PICK h : h = handler[p]
    OBVIOUS
  <2>1. h.pc \in JobSteps
    BY DEF List, Fetch, Prune, JobSteps
  <2>2. SidsOwned(h)
    BY DEF Typed, Ownership
  <2> QED BY <2>1, <2>2, <1>0, HandlerFields, UserOfJob, JobType DEF SidsOwned, OwnSteps
<1>2. j.of \in {"signIn", "logout"} => Owned(j.sid)'
  BY <1>1, <1>0 DEF Owned
<1>3. ASSUME NEW found \in SUBSET Sessions, Continue(p, j, found)
      PROVE  GoesOn(p) /\ csrf' \in SUBSET Sessions
  BY <1>3, <1>0, <1>1, <1>2, ContinueGoesOn, ContinueType
<1>4. Concerned(j) \in SUBSET Sessions
  BY DEF Concerned
<1>5. CASE List(p)
  <2>1. PICK ids : ids = IF Works THEN Listed(UserOf(j)) ELSE {}
    OBVIOUS
  <2>2. ids \in SUBSET Sessions
    BY <1>0, <1>1, <2>1, IndexType
  <2>3. \/ Goto(p, [pc |-> "fetching", job |-> j, ids |-> ids]) /\ UNCHANGED csrf
        \/ Continue(p, j, {}) \/ Continue(p, j, InMemory(UserOf(j)))
    BY <1>5, <2>1 DEF List
  <2>4. GoesOn(p) /\ csrf' \in SUBSET Sessions
    <3>1. CASE Goto(p, [pc |-> "fetching", job |-> j, ids |-> ids]) /\ UNCHANGED csrf
      BY <3>1, <2>2, <1>0, <1>1, <1>2, GoesToJob DEF TypeOK
    <3>2. CASE Continue(p, j, {})
      BY <3>2, <1>3
    <3>3. CASE Continue(p, j, InMemory(UserOf(j)))
      <4>1. InMemory(UserOf(j)) \in SUBSET Sessions
        BY DEF InMemory
      <4> QED BY <4>1, <3>3, <1>3
    <3> QED BY <2>3, <3>1, <3>2, <3>3
  <2>5. strayed' \in SUBSET Sessions
    BY <1>0, <1>4, <1>5, PartsType DEF List
  <2>6. UNCHANGED <<clock, keys, index, memory, owner, issued, ended, unlisted,
                  conn, outages, restarts>>
    BY <1>5 DEF List
  <2> QED BY <2>4, <2>5, <2>6, <1>0, StepTyped
<1>6. CASE Fetch(p)
  <2>1. PICK ids, found : ids = handler[p].ids /\ found = {s \in ids : Works /\ Stored(s)}
    OBVIOUS
  <2>2. ids \in SUBSET Sessions /\ found \in SUBSET Sessions
    BY <1>0, <1>6, <2>1, HandlerFields DEF Fetch
  <2>3. \/ Continue(p, j, found)
        \/ /\ Goto(p, [pc |-> "pruning", job |-> j, ids |-> ids, found |-> found])
           /\ UNCHANGED csrf
    BY <1>6, <2>1 DEF Fetch
  <2>4. GoesOn(p) /\ csrf' \in SUBSET Sessions
    BY <2>2, <2>3, <1>0, <1>1, <1>2, <1>3, GoesToJob DEF TypeOK
  <2>5. strayed' \in SUBSET Sessions
    BY <1>0, <1>4, <1>6, PartsType DEF Fetch
  <2>6. UNCHANGED <<clock, keys, index, memory, owner, issued, ended, unlisted,
                  conn, outages, restarts>>
    BY <1>6 DEF Fetch
  <2> QED BY <2>4, <2>5, <2>6, <1>0, StepTyped
<1>7. CASE Prune(p)
  <2>1. PICK ids, found : ids = handler[p].ids /\ found = handler[p].found
    OBVIOUS
  <2>2. ids \in SUBSET Sessions /\ found \in SUBSET Sessions
    BY <1>0, <1>7, <2>1, HandlerFields DEF Prune
  <2>3. Continue(p, j, found)
    BY <1>7, <2>1 DEF Prune
  <2>4. SetIndex(UserOf(j), RemovedFrom(UserOf(j), ids \ found))
    BY <1>7, <2>1 DEF Prune
  <2>6. RemovedFrom(UserOf(j), ids \ found) \in [ids : SUBSET Sessions, exp : Expiries]
    BY <1>0, <1>1, IndexType
  <2>7. index' \in [Users -> [ids : SUBSET Sessions, exp : Expiries]]
    BY <2>4, <2>6, <1>0, PartsType
  <2>8. GoesOn(p) /\ csrf' \in SUBSET Sessions
    BY <2>2, <2>3, <1>3
  <2>9. UNCHANGED <<clock, keys, memory, owner, issued, ended, strayed, unlisted,
                  conn, outages, restarts>>
    BY <1>7 DEF Prune
  <2> QED BY <2>7, <2>8, <2>9, <1>0, StepTyped
<1> QED BY <1>5, <1>6, <1>7

LEMMA DroppingTyped ==
  ASSUME Typed, [Next]_vars, NEW p \in Procs,
         \/ \E s \in Sessions : Drop(p, s) \/ Logout(p, s)
         \/ Delete(p) \/ Unlist(p) \/ EndLogout(p) \/ EndLogoutAll(p)
         \/ \E u \in Users : ListSessions(p, u)
  PROVE  Typed'
<1> USE DEF history, redis, faults
<1>0. TypeOK /\ \A s \in Sessions : Owned(s) => owner'[s] = owner[s]
  BY OwnerKept DEF Typed
<1> PICK h, j : h = handler[p] /\ j = h.job
  OBVIOUS
<1>1. /\ h.pc \in DropSteps =>
            /\ j \in Jobs /\ h.all \in SUBSET Sessions /\ h.todo \in SUBSET Sessions
            /\ j.of \in {"signIn", "logout"} => j.sid \in Sessions /\ Owned(j.sid)
            /\ j.of = "logoutAll" => j.user \in Users
      /\ h.pc \in {"deleting", "unlisting"} => h.sid \in Sessions
  <2>1. SidsOwned(h)
    BY DEF Typed, Ownership
  <2> QED BY <2>1, <1>0, HandlerFields, JobType DEF SidsOwned, SidSteps, OwnSteps, JobSteps, DropSteps
<1>2. h.pc \in DropSteps /\ j.of \in {"signIn", "logout"} => Owned(j.sid)'
  BY <1>0, <1>1 DEF Owned
<1>3. ASSUME NEW s \in Sessions, Drop(p, s)
      PROVE  Typed'
  <2>1. h.pc \in DropSteps /\ s \in h.todo
    BY <1>3 DEF Drop, DropSteps
  <2>2. h.todo \ {s} \in SUBSET Sessions
    BY <2>1, <1>1
  <2>3. \/ Goto(p, Dropping(j, h.all, h.todo \ {s}))
        \/ Goto(p, [pc |-> "deleting", job |-> j, all |-> h.all,
                    todo |-> h.todo \ {s}, sid |-> s])
    BY <1>3 DEF Drop
  <2>4. GoesOn(p)
    BY <2>1, <2>2, <2>3, <1>1, <1>2, GoesToJob, GoesToSession
  <2>5. memory' \in [Sessions -> Expiries] /\ strayed' \in SUBSET Sessions
    BY <1>0, <1>3, Times, PartsType DEF Drop, TypeOK
  <2>6. UNCHANGED <<clock, keys, index, csrf, owner, issued, ended, unlisted,
                  conn, outages, restarts>>
    BY <1>3 DEF Drop
  <2> QED BY <2>4, <2>5, <2>6, <1>0, StepTyped
<1>4. ASSUME NEW s \in Sessions, Logout(p, s)
      PROVE  Typed'
  <2>1. PICK k : k = [of |-> "logout", sid |-> s]
    OBVIOUS
  <2>2. k \in Jobs /\ Owned(k.sid)' /\ {s} \in SUBSET Sessions /\ {} \in SUBSET Sessions
    <3>1. Owned(s)
      BY <1>4 DEF Logout, Typed, Ownership
    <3> QED BY <2>1, <3>1, <1>0 DEF Jobs, Owned
  <2>3. Goto(p, Dropping(k, {}, {s}))
    BY <2>1, <1>4 DEF Logout
  <2>4. GoesOn(p)
    BY <2>2, <2>3, GoesToJob
  <2>5. UNCHANGED <<clock, keys, index, memory, csrf, owner, issued, ended, strayed, unlisted,
                  conn, outages, restarts>>
    BY <1>4 DEF Logout
  <2> QED BY <2>4, <2>5, <1>0, StepTyped
<1>5. CASE Delete(p)
  <2>1. h.pc = "deleting"
    BY <1>5 DEF Delete
  <2>2. PICK g : g = [h EXCEPT !.pc = "unlisting"]
    OBVIOUS
  <2>3. g = [pc |-> "unlisting", job |-> j, all |-> h.all, todo |-> h.todo, sid |-> h.sid]
    <3>1. h \in [pc : {"deleting", "unlisting"}, job : Jobs,
                 all : SUBSET Sessions, todo : SUBSET Sessions, sid : Sessions]
      BY <1>0, <2>1 DEF TypeOK, Handler, Idle
    <3> QED BY <3>1, <2>2
  <2>4. Goto(p, g)
    BY <2>2, <1>5 DEF Delete
  <2>5. GoesOn(p)
    BY <2>1, <2>3, <2>4, <1>1, <1>2, GoesToSession DEF DropSteps
  <2>6. keys' \in [Sessions -> Expiries] /\ strayed' \in SUBSET Sessions
    BY <1>0, <1>1, <2>1, <1>5, Times, PartsType DEF Delete, DelKey
  <2>7. UNCHANGED <<clock, index, memory, csrf, owner, issued, ended, unlisted,
                  conn, outages, restarts>>
    BY <1>5 DEF Delete
  <2> QED BY <2>5, <2>6, <2>7, <1>0, StepTyped
<1>6. CASE Unlist(p)
  <2>1. h.pc = "unlisting"
    BY <1>6 DEF Unlist
  <2>2. Goto(p, Dropping(j, h.all, h.todo))
    BY <1>6 DEF Unlist
  <2>3. GoesOn(p)
    BY <2>1, <2>2, <1>1, <1>2, GoesToJob DEF DropSteps
  <2>4. index' \in [Users -> [ids : SUBSET Sessions, exp : Expiries]]
    <3>1. PICK u : u = owner[h.sid]
      OBVIOUS
    <3>2. SetIndex(u, RemovedFrom(u, {h.sid}))
      BY <3>1, <1>6 DEF Unlist
    <3>3. CASE u \in Users
      BY <3>2, <3>3, <1>0, IndexType, PartsType
    <3>4. CASE u \notin Users
      BY <3>2, <3>4, <1>0 DEF SetIndex, TypeOK
    <3> QED BY <3>3, <3>4
  <2>5. UNCHANGED <<clock, keys, memory, csrf, owner, issued, ended, strayed, unlisted,
                  conn, outages, restarts>>
    BY <1>6 DEF Unlist
  <2> QED BY <2>3, <2>4, <2>5, <1>0, StepTyped
<1>7. CASE EndLogout(p)
  <2>1. h.pc = "dropping" /\ j.of = "logout"
    BY <1>7 DEF EndLogout
  <2>2. GoesOn(p)
    BY <1>7, GoesIdle DEF EndLogout
  <2>3. csrf' = csrf \ {j.sid} /\ ended' = ended \cup {j.sid}
    BY <1>7 DEF EndLogout
  <2>4. csrf' \in SUBSET Sessions /\ ended' \in SUBSET Sessions
    BY <2>1, <2>3, <1>0, <1>1 DEF TypeOK, DropSteps
  <2>5. UNCHANGED <<clock, keys, index, memory, owner, issued, strayed, unlisted,
                  conn, outages, restarts>>
    BY <1>7 DEF EndLogout
  <2> QED BY <2>2, <2>4, <2>5, <1>0, StepTyped
<1>8. CASE EndLogoutAll(p)
  <2>1. h.pc = "dropping" /\ j.of = "logoutAll" /\ j.user \in Users /\ h.all \in SUBSET Sessions
    BY <1>8, <1>1 DEF EndLogoutAll, DropSteps
  <2>2. GoesOn(p)
    BY <1>8, GoesIdle DEF EndLogoutAll
  <2>3. /\ ended' = ended \cup h.all
        /\ unlisted' = unlisted \cup (IF Works THEN Listed(j.user) \ h.all ELSE {})
        /\ SetIndex(j.user, NoIndex)
    BY <1>8 DEF EndLogoutAll
  <2>4. Listed(j.user) \in SUBSET Sessions
        /\ NoIndex \in [ids : SUBSET Sessions, exp : Expiries]
    BY <2>1, <1>0, IndexType
  <2>5. ended' \in SUBSET Sessions /\ unlisted' \in SUBSET Sessions
    BY <2>1, <2>3, <2>4, <1>0 DEF TypeOK
  <2>6. index' \in [Users -> [ids : SUBSET Sessions, exp : Expiries]]
    BY <2>1, <2>3, <2>4, <1>0, PartsType
  <2>7. UNCHANGED <<clock, keys, memory, csrf, owner, issued, strayed,
                  conn, outages, restarts>>
    BY <1>8 DEF EndLogoutAll
  <2> QED BY <2>2, <2>5, <2>6, <2>7, <1>0, StepTyped
<1>9. ASSUME NEW u \in Users, ListSessions(p, u)
      PROVE  Typed'
  <2>1. PICK k : k = [of |-> "list", user |-> u]
    OBVIOUS
  <2>2. k \in Jobs /\ k.of = "list" /\ {} \in SUBSET Sessions
    BY <2>1 DEF Jobs
  <2>3. Goto(p, [pc |-> "listing", job |-> k])
    BY <2>1, <1>9 DEF ListSessions
  <2>4. GoesOn(p)
    BY <2>2, <2>3, GoesToJob
  <2>5. UNCHANGED <<clock, keys, index, memory, csrf, owner, issued, ended, strayed, unlisted,
                  conn, outages, restarts>>
    BY <1>9 DEF ListSessions
  <2> QED BY <2>4, <2>5, <1>0, StepTyped
<1> QED BY <1>3, <1>4, <1>5, <1>6, <1>7, <1>8, <1>9

LEMMA ValidatedGoesOn ==
  ASSUME Typed, NEW p \in Procs, NEW s \in Sessions, Owned(s), Owned(s)', Validated(p, s)
  PROVE  GoesOn(p)
<1>1. CASE Goto(p, Idle)
  BY <1>1, GoesIdle
<1>2. CASE Goto(p, [pc |-> "renewing", sid |-> s])
  <2>1. Gone \in Expiries
    BY Times DEF Typed
  <2> QED BY <1>2, <2>1, GoesToSid
<1>3. CASE Goto(p, [pc |-> "listing", job |-> [of |-> "revoke", user |-> owner[s]]])
  <2>1. PICK k : k = [of |-> "revoke", user |-> owner[s]]
    OBVIOUS
  <2>2. k \in Jobs /\ k.of = "revoke" /\ {} \in SUBSET Sessions
    BY <2>1 DEF Jobs, Owned
  <2>3. Goto(p, [pc |-> "listing", job |-> k])
    BY <2>1, <1>3
  <2> QED BY <2>2, <2>3, GoesToJob
<1> QED BY <1>1, <1>2, <1>3 DEF Validated

LEMMA StoresAgain ==
  ASSUME Typed, NEW s \in Sessions, NEW e \in Expiries, StoreAgain(s, e)
  PROVE  keys' \in [Sessions -> Expiries] /\ strayed' \in SUBSET Sessions
<1>1. keys' \in [Sessions -> Expiries]
  BY PartsType DEF StoreAgain, Typed
<1>2. strayed' = strayed \/ strayed' = strayed \cup {s}
  BY DEF StoreAgain
<1> QED BY <1>1, <1>2 DEF Typed, TypeOK

LEMMA RequestTyped ==
  ASSUME Typed, [Next]_vars, NEW p \in Procs,
         \/ \E s \in Sessions : Validate(p, s)
         \/ Touch(p) \/ Renew(p) \/ Extend(p)
  PROVE  Typed'
<1> USE DEF history, redis, faults
<1>0. TypeOK /\ \A s \in Sessions : Owned(s) => owner'[s] = owner[s]
  BY OwnerKept DEF Typed
<1>1. clock + TTL \in Expiries /\ Gone \in Expiries
  BY <1>0, Times
<1>2. ASSUME NEW s \in Sessions, Validate(p, s)
      PROVE  Typed'
  <2>1. Owned(s) /\ Owned(s)'
    BY <1>0, <1>2 DEF Validate, Typed, Ownership, Owned
  <2>2. GoesOn(p)
    <3>1. CASE UseRedis
      <4>1. keys[s] \in Expiries
        BY <1>0 DEF TypeOK
      <4>2. Goto(p, [pc |-> "touching", sid |-> s, exp |-> keys[s]])
        BY <3>1, <1>2 DEF Validate
      <4> QED BY <4>1, <4>2, <2>1, GoesToSid
    <3>2. CASE ~UseRedis
      <4>1. Goto(p, Idle) \/ Validated(p, s)
        BY <3>2, <1>2 DEF Validate
      <4> QED BY <4>1, <2>1, GoesIdle, ValidatedGoesOn
    <3> QED BY <3>1, <3>2
  <2>3. memory' \in [Sessions -> Expiries]
    <3>1. memory' = memory \/ memory' = [memory EXCEPT ![s] = Gone]
      BY <1>2 DEF Validate
    <3> QED BY <3>1, <1>0, <1>1 DEF TypeOK
  <2>4. UNCHANGED <<clock, keys, index, csrf, owner, issued, ended, strayed, unlisted,
                  conn, outages, restarts>>
    BY <1>2 DEF Validate
  <2> QED BY <2>2, <2>3, <2>4, <1>0, StepTyped
<1>3. CASE Touch(p)
  <2>1. PICK s, e : s = handler[p].sid /\ e = handler[p].exp
    OBVIOUS
  <2>2. s \in Sessions /\ e \in Expiries /\ Owned(s)
    BY <1>0, <2>1, <1>3, HandlerFields
       DEF Touch, Typed, Ownership, SidsOwned, SidSteps, OwnSteps
  <2>3. Owned(s)' /\ Validated(p, s)
    BY <1>0, <2>1, <2>2, <1>3 DEF Touch, Owned
  <2>4. GoesOn(p)
    BY <2>2, <2>3, ValidatedGoesOn
  <2>5. keys' \in [Sessions -> Expiries] /\ strayed' \in SUBSET Sessions
    <3>1. StoreAgain(s, e) \/ UNCHANGED <<keys, strayed>>
      BY <2>1, <1>3 DEF Touch
    <3> QED BY <3>1, <2>2, <1>0, StoresAgain DEF TypeOK
  <2>6. UNCHANGED <<clock, index, memory, csrf, owner, issued, ended, unlisted,
                  conn, outages, restarts>>
    BY <1>3 DEF Touch
  <2> QED BY <2>4, <2>5, <2>6, <1>0, StepTyped
<1>4. CASE Renew(p)
  <2>1. PICK s : s = handler[p].sid
    OBVIOUS
  <2>2. s \in Sessions /\ Owned(s)
    BY <1>0, <2>1, <1>4, HandlerFields
       DEF Renew, Typed, Ownership, SidsOwned, SidSteps, OwnSteps
  <2>3. Owned(s)'
    BY <1>0, <2>2 DEF Owned
  <2>4. GoesOn(p)
    <3>1. Goto(p, Idle) \/ Goto(p, [pc |-> "extending", sid |-> s])
      BY <2>1, <1>4 DEF Renew
    <3> QED BY <3>1, <2>2, <2>3, <1>1, GoesIdle, GoesToSid
  <2>5. csrf' \in SUBSET Sessions /\ memory' \in [Sessions -> Expiries]
    <3>1. /\ csrf' = csrf \/ csrf' = csrf \cup {s}
          /\ memory' = memory \/ memory' = [memory EXCEPT ![s] = clock + TTL]
      BY <2>1, <1>4 DEF Renew, Rotated
    <3> QED BY <3>1, <2>2, <1>0, <1>1 DEF TypeOK
  <2>6. UNCHANGED <<clock, keys, index, owner, issued, ended, strayed, unlisted,
                  conn, outages, restarts>>
    BY <1>4 DEF Renew
  <2> QED BY <2>4, <2>5, <2>6, <1>0, StepTyped
<1>5. CASE Extend(p)
  <2>1. PICK s : s = handler[p].sid
    OBVIOUS
  <2>2. s \in Sessions
    BY <1>0, <2>1, <1>5, HandlerFields DEF Extend, SidSteps, OwnSteps
  <2>3. GoesOn(p)
    BY <1>5, GoesIdle DEF Extend
  <2>4. keys' \in [Sessions -> Expiries] /\ strayed' \in SUBSET Sessions
    <3>1. StoreAgain(s, clock + TTL)
      BY <2>1, <1>5 DEF Extend
    <3> QED BY <3>1, <2>2, <1>1, StoresAgain
  <2>5. csrf' \in SUBSET Sessions
    BY <2>1, <2>2, <1>0, <1>5 DEF Extend, Rotated, TypeOK
  <2>6. UNCHANGED <<clock, index, memory, owner, issued, ended, unlisted,
                  conn, outages, restarts>>
    BY <1>5 DEF Extend
  <2> QED BY <2>3, <2>4, <2>5, <2>6, <1>0, StepTyped
<1> QED BY <1>2, <1>3, <1>4, <1>5

LEMMA OwnershipKept ==
  ASSUME Typed, UNCHANGED <<owner, handler, issued>>
  PROVE  Ownership'
<1>1. \A s \in issued' : Owned(s)'
  BY DEF Typed, Ownership, Owned
<1>2. ASSUME NEW p \in Procs
      PROVE  SidsOwned(handler[p])'
  <2>1. SidsOwned(handler[p])
    BY DEF Typed, Ownership
  <2> QED BY <2>1 DEF SidsOwned, Owned
<1> QED BY <1>1, <1>2 DEF Ownership

LEMMA OutsideTyped ==
  ASSUME Typed, Tick \/ Break \/ Notice \/ Reconnect \/ Restart \/ UNCHANGED vars
  PROVE  Typed'
<1> USE SessionsAssumption DEF history, redis, faults
<1>0. TypeOK
  BY DEF Typed
<1>1. CASE Tick
  <2>1. clock' \in 0..MaxTime
    BY <1>0, <1>1 DEF Tick, TypeOK
  <2>2. keys' \in [Sessions -> Expiries]
    BY <1>0, <1>1, Times DEF Tick, TypeOK
  <2>3. index' \in [Users -> [ids : SUBSET Sessions, exp : Expiries]]
    <3>1. \A u \in Users : index[u] \in [ids : SUBSET Sessions, exp : Expiries]
                           /\ NoIndex \in [ids : SUBSET Sessions, exp : Expiries]
      BY <1>0, IndexType DEF TypeOK
    <3> QED BY <3>1, <1>1 DEF Tick
  <2>4. unlisted' \in SUBSET Sessions
    <3>1. \A u \in Users : index[u].ids \in SUBSET Sessions
      BY <1>0 DEF TypeOK
    <3>2. unlisted' = unlisted \cup UNION {index[u].ids : u \in {v \in Users : index[v].exp = clock + 1}}
      BY <1>1 DEF Tick
    <3> QED BY <3>1, <3>2, <1>0 DEF TypeOK
  <2>5. UNCHANGED <<memory, csrf, owner, handler, issued, ended, strayed,
                  conn, outages, restarts>>
    BY <1>1 DEF Tick
  <2>6. TypeOK'
    BY <2>1, <2>2, <2>3, <2>4, <2>5, <1>0 DEF TypeOK
  <2> QED BY <2>5, <2>6, OwnershipKept DEF Typed
<1>2. CASE Break \/ Notice \/ Reconnect
  <2>1. UNCHANGED <<clock, keys, index, memory, csrf, owner, handler, issued, ended, strayed,
                    unlisted, restarts>>
    BY <1>2 DEF Break, Notice, Reconnect, Connection
  <2>2. conn' \in {"up", "failing", "down"} /\ outages' \in 0..MaxFaults
    BY <1>2, <1>0 DEF Break, Notice, Reconnect, Connection, FaultsLeft, TypeOK
  <2>3. TypeOK'
    BY <2>1, <2>2, <1>0 DEF TypeOK
  <2> QED BY <2>1, <2>3, OwnershipKept DEF Typed
<1>3. CASE Restart
  <2>1. restarts' \in 0..MaxFaults
    BY <1>3, <1>0 DEF Restart, FaultsLeft, TypeOK
  <2>2. /\ memory' \in [Sessions -> Expiries] /\ csrf' \in SUBSET Sessions
        /\ handler' = [p \in Procs |-> Idle]
    BY <1>3, <1>0, Times DEF Restart
  <2>3. UNCHANGED <<clock, keys, index, conn, owner, issued, ended, strayed, unlisted, outages>>
    BY <1>3 DEF Restart
  <2>4. TypeOK'
    BY <2>1, <2>2, <2>3, <1>0 DEF TypeOK
  <2>5. Ownership'
    <3>1. \A s \in issued' : Owned(s)'
      BY <2>3 DEF Typed, Ownership, Owned
    <3>2. \A p \in Procs : SidsOwned(handler[p])'
      BY <2>2 DEF SidsOwned, Idle, OwnSteps, JobSteps, DropSteps
    <3> QED BY <3>1, <3>2 DEF Ownership
  <2> QED BY <2>4, <2>5 DEF Typed
<1>4. CASE UNCHANGED vars
  <2>1. UNCHANGED <<owner, handler, issued>>
    BY <1>4 DEF vars
  <2>2. TypeOK'
    BY <1>0, <1>4 DEF TypeOK, vars
  <2> QED BY <2>1, <2>2, OwnershipKept DEF Typed
<1> QED BY <1>1, <1>2, <1>3, <1>4

LEMMA TypedStep ==
  ASSUME Typed, [Next]_vars
  PROVE  Typed'
<1>1. ASSUME NEW p \in Procs,
             \/ \E s \in Sessions : \/ \E u \in Users : CreateSession(p, u, s)
                                    \/ Drop(p, s) \/ Logout(p, s) \/ Validate(p, s)
             \/ \E u \in Users : ListSessions(p, u)
             \/ AddToIndex(p) \/ SetIndexExpiry(p) \/ Issue(p)
             \/ List(p) \/ Fetch(p) \/ Prune(p) \/ Delete(p) \/ Unlist(p)
             \/ EndLogout(p) \/ EndLogoutAll(p) \/ Touch(p) \/ Renew(p) \/ Extend(p)
      PROVE  Typed'
  BY <1>1, SignInTyped, ListingTyped, DroppingTyped, RequestTyped
<1> QED BY <1>1, OutsideTyped DEF Next

LEMMA TypedInit ==
  ASSUME Init
  PROVE  Typed
<1>1. TypeOK
  <2>1. Gone \in Expiries /\ 1 \in 0..MaxTime
    BY SessionsAssumption DEF Gone, Expiries, Forever
  <2> QED BY <2>1, SessionsAssumption DEF Init, TypeOK, NoIndex
<1>2. Ownership
  BY DEF Init, Ownership, SidsOwned, Idle, OwnSteps, JobSteps, DropSteps
<1> QED BY <1>1, <1>2 DEF Typed

(* What the handlers, the stores and the history hold is of the right kind,     *)
(* whatever handlers, faults and time do; and whoever is issued, or works on, a *)
(* session belongs to one that createSession has made.                          *)
THEOREM TypeCorrect == Spec => []TypeOK
<1>1. Spec => []Typed
  BY TypedInit, TypedStep, PTL DEF Spec
<1>2. Typed => TypeOK
  BY DEF Typed
<1> QED BY <1>1, <1>2, PTL

-----------------------------------------------------------------------------
(* The inductive invariants *)

(* Deleted or expired: only a request that stores it again, and strays it by    *)
(* that, can change it.                                                         *)
Dead(s) == s \in strayed \/ ~Stored(s)

(* What the properties are about.                                               *)
Live(s) == ~Dead(s) /\ s \notin unlisted

(* What has still to be dropped, and what a logout must have dropped.           *)
Left(h) == h.todo \cup (IF h.pc = "deleting" THEN {h.sid} ELSE {})
Targets(h) ==
    CASE h.job.of = "logout"    -> {h.job.sid}
      [] h.job.of = "logoutAll" -> h.all
      [] OTHER                  -> {}

(* What a handler knows of the sessions it works on.                            *)
Knows(h) ==
    /\ h.pc = "issuing" => h.sid \in strayed
    /\ h.pc \in {"fetching", "pruning"} => \A s \in h.ids : owner[s] = UserOf(h.job)
    /\ h.pc = "pruning" => h.found \subseteq h.ids /\ \A s \in h.ids \ h.found : Dead(s)
    /\ h.pc \in DropSteps => /\ \A s \in h.all \cup h.todo : Owned(s)
                             /\ \A s \in Targets(h) \ Left(h) : Dead(s)
    /\ h.pc \in {"deleting", "unlisting"} => Owned(h.sid)
    /\ h.pc = "unlisting" => Dead(h.sid)

(* An index that has expired is gone, and one lists sessions of its user.       *)
IndexKept(u) ==
    /\ index[u] = NoIndex \/ index[u].exp > clock
    /\ \A s \in index[u].ids : owner[s] = u

Ends ==
    /\ \A p \in Procs : Knows(handler[p])
    /\ \A u \in Users : IndexKept(u)
    /\ \A s \in Sessions : memory[s] # Gone => s \in strayed
    /\ \A s \in ended : Owned(s) /\ Dead(s)

(* A session keeps its user and stays dead, whatever happens.                   *)
Onward ==
    /\ \A s \in Sessions : Owned(s) => owner'[s] = owner[s] /\ (Dead(s) => Dead(s)')
    /\ strayed \subseteq strayed' /\ unlisted \subseteq unlisted' /\ issued \subseteq issued'

(* The index loses none but the dead and the unlisted.                          *)
KeepsIndex(u) ==
    /\ IndexKept(u)'
    /\ \A s \in index[u].ids : Live(s)' => s \in index'[u].ids

LEMMA KeysKept ==
  ASSUME UNCHANGED <<keys, clock>>, strayed \subseteq strayed'
  PROVE  \A s : Dead(s) => Dead(s)'
  BY DEF Dead, Stored

LEMMA StoreAgainKeepsDead ==
  ASSUME Typed, NEW t \in Sessions, NEW e \in Expiries, StoreAgain(t, e), UNCHANGED clock
  PROVE  (\A s \in Sessions : Dead(s) => Dead(s)') /\ strayed \subseteq strayed'
  BY DEF StoreAgain, SetKey, Dead, Stored, Typed, TypeOK

LEMMA DelKeyKeepsDead ==
  ASSUME Typed, NEW t \in Sessions, DelKey(t), Handle({t}), UNCHANGED clock
  PROVE  (\A s \in Sessions : Dead(s) => Dead(s)') /\ strayed \subseteq strayed' /\ Dead(t)'
<1>1. ~(Gone > clock)
  BY Times DEF Typed
<1> QED BY <1>1 DEF DelKey, SetKey, Handle, Dead, Stored, Typed, TypeOK

LEMMA OnwardStep ==
  ASSUME Typed, [Next]_vars
  PROVE  Onward
<1> USE DEF history, redis, faults, Handle
<1>0. \A s \in Sessions : Owned(s) => owner'[s] = owner[s]
  BY OwnerKept
<1>1. ASSUME strayed \subseteq strayed', unlisted \subseteq unlisted', issued \subseteq issued',
             \/ UNCHANGED <<keys, clock>>
             \/ \A s \in Sessions : Owned(s) /\ Dead(s) => Dead(s)'
      PROVE  Onward
  BY <1>0, <1>1, KeysKept DEF Onward
<1>2. ASSUME NEW p \in Procs, NEW u \in Users, NEW s \in Sessions, CreateSession(p, u, s)
      PROVE  Onward
  <2>1. strayed \subseteq strayed' /\ UNCHANGED <<unlisted, issued, clock>>
    BY <1>2 DEF CreateSession
  <2>2. ~Owned(s)
    BY <1>2, SessionsAssumption DEF CreateSession, Owned
  <2>3. \A t \in Sessions : t # s => keys'[t] = keys[t]
    BY <1>2 DEF CreateSession, SetKey, Typed, TypeOK
  <2>4. \A t \in Sessions : Owned(t) /\ Dead(t) => Dead(t)'
    BY <2>1, <2>2, <2>3 DEF Dead, Stored
  <2> QED BY <2>1, <2>4, <1>1
<1>3. ASSUME NEW p \in Procs, NEW s \in Sessions, Drop(p, s) \/ Logout(p, s) \/ Validate(p, s)
      PROVE  Onward
  BY <1>1, <1>3 DEF Drop, Logout, Validate
<1>4. ASSUME NEW p \in Procs, NEW u \in Users, ListSessions(p, u)
      PROVE  Onward
  BY <1>1, <1>4 DEF ListSessions
<1>5. ASSUME NEW p \in Procs,
             AddToIndex(p) \/ SetIndexExpiry(p) \/ Issue(p) \/ List(p) \/ Fetch(p) \/ Prune(p)
      PROVE  Onward
  BY <1>1, <1>5 DEF AddToIndex, SetIndexExpiry, Issue, List, Fetch, Prune
<1>6. ASSUME NEW p \in Procs, Delete(p)
      PROVE  Onward
  <2>1. PICK s : s = handler[p].sid
    OBVIOUS
  <2>2. s \in Sessions
    BY <2>1, <1>6, HandlerFields DEF Delete, Typed, SidSteps
  <2>3. DelKey(s) /\ Handle({s}) /\ UNCHANGED <<clock, unlisted, issued>>
    BY <2>1, <1>6 DEF Delete
  <2> HIDE DEF Handle
  <2>4. (\A t \in Sessions : Dead(t) => Dead(t)') /\ strayed \subseteq strayed'
    BY <2>2, <2>3, DelKeyKeepsDead
  <2> QED BY <2>3, <2>4, <1>1
<1>7. ASSUME NEW p \in Procs, Touch(p)
      PROVE  Onward
  <2>1. PICK s, e : s = handler[p].sid /\ e = handler[p].exp
    OBVIOUS
  <2>2. s \in Sessions /\ e \in Expiries
    BY <2>1, <1>7, HandlerFields DEF Touch, Typed, SidSteps, OwnSteps
  <2>3. /\ StoreAgain(s, e) \/ UNCHANGED <<keys, strayed>>
        /\ UNCHANGED <<clock, unlisted, issued>>
    BY <2>1, <1>7 DEF Touch
  <2> QED BY <2>2, <2>3, <1>1, StoreAgainKeepsDead
<1>8. ASSUME NEW p \in Procs, Extend(p)
      PROVE  Onward
  <2>1. PICK s, e : s = handler[p].sid /\ e = clock + TTL
    OBVIOUS
  <2>2. s \in Sessions /\ e \in Expiries
    BY <2>1, <1>8, HandlerFields, Times DEF Extend, Typed, SidSteps, OwnSteps
  <2>3. StoreAgain(s, e) /\ UNCHANGED <<clock, unlisted, issued>>
    BY <2>1, <1>8 DEF Extend
  <2> QED BY <2>2, <2>3, <1>1, StoreAgainKeepsDead
<1>9. ASSUME NEW p \in Procs, Unlist(p) \/ EndLogout(p) \/ EndLogoutAll(p) \/ Renew(p)
      PROVE  Onward
  BY <1>1, <1>9 DEF Unlist, EndLogout, EndLogoutAll, Renew
<1>10. CASE Tick
  <2>1. \A s \in Sessions : Dead(s) => Dead(s)'
    <3>1. \A s \in Sessions : keys'[s] = IF keys[s] > clock + 1 THEN keys[s] ELSE Gone
      BY <1>10 DEF Tick
    <3>2. clock' = clock + 1 /\ UNCHANGED strayed
      BY <1>10 DEF Tick
    <3> QED BY <3>1, <3>2, SessionsAssumption
            DEF Dead, Stored, Typed, TypeOK, Gone, Expiries, Forever
  <2>2. UNCHANGED <<strayed, issued>> /\ unlisted \subseteq unlisted'
    BY <1>10 DEF Tick
  <2> QED BY <2>1, <2>2, <1>1
<1>11. CASE Break \/ Notice \/ Reconnect \/ Restart \/ UNCHANGED vars
  BY <1>1, <1>11 DEF Break, Notice, Reconnect, Connection, Restart, vars
<1> QED BY <1>2, <1>3, <1>4, <1>5, <1>6, <1>7, <1>8, <1>9, <1>10, <1>11 DEF Next

LEMMA ListedIs ==
  ASSUME Typed, NEW u \in Users, IndexKept(u)
  PROVE  /\ Listed(u) = index[u].ids
         /\ index[u].ids # {} => index[u].exp > clock
         /\ index[u].ids \in SUBSET Sessions
         /\ \A s \in index[u].ids : Owned(s)
<1> PICK b : b = index[u]
  OBVIOUS
<1>1. b \in [ids : SUBSET Sessions, exp : Expiries]
  BY DEF Typed, TypeOK
<1>2. b.ids # {} => b.exp > clock
  BY DEF IndexKept, NoIndex
<1>3. \A s \in b.ids : Owned(s)
  BY DEF IndexKept, Owned
<1> QED BY <1>1, <1>2, <1>3 DEF Listed

LEMMA IndexSame ==
  ASSUME Typed, Onward, UNCHANGED <<index, clock>>, NEW u \in Users, IndexKept(u)
  PROVE  KeepsIndex(u)
<1>1. \A s \in index[u].ids : s \in Sessions /\ Owned(s)
  BY ListedIs
<1> QED BY <1>1 DEF KeepsIndex, IndexKept, Onward

(* What a command may do to the index of v.                                     *)
LEMMA IndexSet ==
  ASSUME Typed, Onward, UNCHANGED clock, NEW v, NEW i, SetIndex(v, i),
         NEW u \in Users, IndexKept(u),
         Works /\ u = v =>
            /\ i = NoIndex \/ i.exp > clock
            /\ \A s \in i.ids : owner'[s] = u
            /\ \A s \in index[u].ids : Live(s)' => s \in i.ids
  PROVE  KeepsIndex(u)
<1>1. CASE ~Works \/ u # v
  <2>1. index'[u] = index[u]
    BY <1>1 DEF SetIndex, Typed, TypeOK
  <2>2. \A s \in index[u].ids : s \in Sessions /\ Owned(s)
    BY ListedIs
  <2> QED BY <2>1, <2>2 DEF KeepsIndex, IndexKept, Onward
<1>2. CASE Works /\ u = v
  <2>1. index'[u] = i
    BY <1>2 DEF SetIndex, Typed, TypeOK
  <2> QED BY <1>2, <2>1 DEF KeepsIndex, IndexKept
<1> QED BY <1>1, <1>2

(* SREM of dead sessions.                                                       *)
LEMMA IndexRemoved ==
  ASSUME Typed, Onward, UNCHANGED clock, NEW v, NEW S, SetIndex(v, RemovedFrom(v, S)),
         \A s \in S : Dead(s)',
         NEW u \in Users, IndexKept(u)
  PROVE  KeepsIndex(u)
<1> PICK i : i = RemovedFrom(v, S)
  OBVIOUS
<1>1. ASSUME Works /\ u = v
      PROVE  /\ i = NoIndex \/ i.exp > clock
             /\ \A s \in i.ids : owner'[s] = u
             /\ \A s \in index[u].ids : Live(s)' => s \in i.ids
  <2>1. Listed(u) = index[u].ids /\ \A s \in index[u].ids : s \in Sessions /\ Owned(s)
    BY ListedIs
  <2>2. \A s \in index[u].ids : owner'[s] = u
    BY <2>1 DEF IndexKept, Onward
  <2>3. \A s \in S : ~Live(s)'
    BY DEF Live
  <2>4. CASE Listed(u) \subseteq S
    <3>1. i = NoIndex
      BY <1>1, <2>4 DEF RemovedFrom
    <3> QED BY <3>1, <2>1, <2>3, <2>4 DEF NoIndex
  <2>5. CASE ~(Listed(u) \subseteq S)
    <3>1. PICK b : b = index[u] /\ b \in [ids : SUBSET Sessions, exp : Expiries]
      BY DEF Typed, TypeOK
    <3>2. i = [b EXCEPT !.ids = @ \ S]
      BY <1>1, <2>5, <3>1 DEF RemovedFrom
    <3>3. i.ids = b.ids \ S /\ i.exp = b.exp
      BY <3>1, <3>2
    <3>4. b.exp > clock
      BY <2>1, <2>5, <3>1, ListedIs
    <3> QED BY <3>1, <3>3, <3>4, <2>2, <2>3
  <2> QED BY <2>4, <2>5
<1> QED BY <1>1, IndexSet

LEMMA IndexStep ==
  ASSUME Typed, Ends, [Next]_vars, NEW u \in Users
  PROVE  KeepsIndex(u)
<1> USE DEF history, redis, faults
<1>0. TypeOK /\ IndexKept(u) /\ Onward
  BY OnwardStep DEF Ends, Typed
<1>1. UNCHANGED <<index, clock>> => KeepsIndex(u)
  BY <1>0, IndexSame
<1>2. /\ Listed(u) = index[u].ids
      /\ \A s \in index[u].ids : owner'[s] = u /\ owner[s] = u
      /\ index[u] = NoIndex \/ index[u].exp > clock
      /\ index[u] \in [ids : SUBSET Sessions, exp : Expiries]
  BY <1>0, ListedIs DEF IndexKept, Onward, TypeOK
<1>3. ASSUME NEW p \in Procs, AddToIndex(p)
      PROVE  KeepsIndex(u)
  <2>1. PICK s, i : s = handler[p].sid /\ i = AddedTo(owner[s], s)
    OBVIOUS
  <2>2. s \in Sessions /\ Owned(s)
    BY <1>0, <2>1, <1>3, HandlerFields
       DEF AddToIndex, Typed, Ownership, SidsOwned, SidSteps, OwnSteps
  <2>3. SetIndex(owner[s], i) /\ UNCHANGED clock
    BY <2>1, <1>3 DEF AddToIndex
  <2>4. ASSUME u = owner[s]
        PROVE  /\ i.exp > clock
               /\ \A t \in i.ids : owner'[t] = u
               /\ \A t \in index[u].ids : t \in i.ids
    <3>1. i = [ids |-> index[u].ids \cup {s},
               exp |-> IF index[u].ids = {} THEN Forever ELSE index[u].exp]
      BY <2>1, <2>4, <1>2 DEF AddedTo
    <3>2. i.exp > clock
      BY <3>1, <1>0, <1>2, Times DEF NoIndex
    <3>3. owner'[s] = u
      BY <2>2, <2>4, <1>0 DEF Onward
    <3> QED BY <3>1, <3>2, <3>3, <1>2
  <2> QED BY <2>3, <2>4, <1>0, IndexSet
<1>4. ASSUME NEW p \in Procs, SetIndexExpiry(p)
      PROVE  KeepsIndex(u)
  <2>1. PICK v, i : /\ v = owner[handler[p].sid]
                    /\ i = IF Listed(v) = {} THEN NoIndex
                           ELSE [index[v] EXCEPT !.exp = clock + TTL]
    OBVIOUS
  <2>2. SetIndex(v, i) /\ UNCHANGED clock
    BY <2>1, <1>4 DEF SetIndexExpiry
  <2>3. ASSUME u = v
        PROVE  /\ i = NoIndex \/ i.exp > clock
               /\ \A t \in i.ids : owner'[t] = u
               /\ \A t \in index[u].ids : t \in i.ids
    <3>1. CASE index[u].ids = {}
      BY <3>1, <2>1, <2>3, <1>2 DEF NoIndex
    <3>2. CASE index[u].ids # {}
      <4>1. PICK b : b = index[u]
        OBVIOUS
      <4>2. i = [b EXCEPT !.exp = clock + TTL]
        BY <4>1, <3>2, <2>1, <2>3, <1>2
      <4>3. i.ids = b.ids /\ i.exp = clock + TTL
        BY <4>1, <4>2, <1>2
      <4> QED BY <4>1, <4>3, <1>0, <1>2, Times
    <3> QED BY <3>1, <3>2
  <2> QED BY <2>2, <2>3, <1>0, IndexSet
<1>5. ASSUME NEW p \in Procs, Prune(p)
      PROVE  KeepsIndex(u)
  <2>1. PICK v, ids, found : v = UserOf(handler[p].job) /\ ids = handler[p].ids
                             /\ found = handler[p].found
    OBVIOUS
  <2>2. SetIndex(v, RemovedFrom(v, ids \ found)) /\ UNCHANGED clock
    BY <2>1, <1>5 DEF Prune
  <2>3. \A s \in ids \ found : Dead(s) /\ s \in Sessions /\ Owned(s)
    <3>1. Knows(handler[p]) /\ handler[p].pc = "pruning"
      BY <1>5 DEF Ends, Prune
    <3>2. ids \in SUBSET Sessions
      BY <3>1, <2>1, <1>0, HandlerFields
    <3>3. v \in Users
      BY <2>1, <3>1, UserOfJob DEF JobSteps
    <3> QED BY <3>1, <3>2, <3>3, <2>1 DEF Knows, Owned
  <2>4. \A s \in ids \ found : Dead(s)'
    BY <2>3, <1>0 DEF Onward
  <2> QED BY <2>2, <2>4, <1>0, IndexRemoved
<1>6. ASSUME NEW p \in Procs, Unlist(p)
      PROVE  KeepsIndex(u)
  <2>1. PICK s, v : s = handler[p].sid /\ v = owner[s]
    OBVIOUS
  <2>2. SetIndex(v, RemovedFrom(v, {s})) /\ UNCHANGED clock
    BY <2>1, <1>6 DEF Unlist
  <2>3. Dead(s) /\ s \in Sessions /\ Owned(s)
    BY <2>1, <1>0, <1>6, HandlerFields DEF Ends, Unlist, Knows, SidSteps
  <2>4. \A t \in {s} : Dead(t)'
    BY <2>3, <1>0 DEF Onward
  <2> QED BY <2>2, <2>4, <1>0, IndexRemoved
<1>7. ASSUME NEW p \in Procs, EndLogoutAll(p)
      PROVE  KeepsIndex(u)
  <2>1. PICK v, all : v = handler[p].job.user /\ all = handler[p].all
    OBVIOUS
  <2>2. SetIndex(v, NoIndex) /\ UNCHANGED clock
        /\ unlisted' = unlisted \cup (IF Works THEN Listed(v) \ all ELSE {})
    BY <2>1, <1>7 DEF EndLogoutAll
  <2>3. \A s \in all : Dead(s) /\ s \in Sessions /\ Owned(s)
    <3> PICK h : h = handler[p]
      OBVIOUS
    <3>1. h.pc = "dropping" /\ h.job.of = "logoutAll" /\ h.todo = {} /\ Knows(h)
      BY <1>7 DEF EndLogoutAll, Ends
    <3>2. Targets(h) = all /\ Left(h) = {}
      BY <3>1, <2>1 DEF Targets, Left
    <3>3. all \in SUBSET Sessions
      BY <3>1, <2>1, <1>0, HandlerFields DEF DropSteps
    <3> QED BY <3>1, <3>2, <3>3, <2>1 DEF Knows, DropSteps
  <2>4. ASSUME Works /\ u = v
        PROVE  \A s \in index[u].ids : ~Live(s)'
    BY <2>2, <2>3, <2>4, <1>0, <1>2 DEF Live, Onward
  <2> QED BY <2>2, <2>4, <1>0, IndexSet DEF NoIndex
<1>8. CASE Tick
  <2>1. clock' = clock + 1
        /\ index'[u] = (IF index[u].exp = clock + 1 THEN NoIndex ELSE index[u])
        /\ unlisted' = unlisted \cup
              UNION {index[w].ids : w \in {v \in Users : index[v].exp = clock + 1}}
    BY <1>8 DEF Tick
  <2>2. CASE index[u].exp = clock + 1
    <3>1. index[u].ids \subseteq unlisted'
      BY <2>1, <2>2
    <3> QED BY <3>1, <2>1, <2>2 DEF KeepsIndex, IndexKept, NoIndex, Live
  <2>3. CASE index[u].exp # clock + 1
    <3>1. index'[u] = NoIndex \/ index'[u].exp > clock'
      BY <2>1, <2>3, <1>2, SessionsAssumption, <1>0 DEF TypeOK, Expiries, Forever
    <3> QED BY <3>1, <2>1, <2>3, <1>2 DEF KeepsIndex, IndexKept
  <2> QED BY <2>2, <2>3
<1>9. ASSUME NEW p \in Procs, NEW s \in Sessions,
             Drop(p, s) \/ Logout(p, s) \/ Validate(p, s)
             \/ \E v \in Users : CreateSession(p, v, s)
      PROVE  KeepsIndex(u)
  BY <1>1, <1>9 DEF Drop, Logout, Validate, CreateSession
<1>10. ASSUME NEW p \in Procs, NEW v \in Users, ListSessions(p, v)
      PROVE  KeepsIndex(u)
  BY <1>1, <1>10 DEF ListSessions
<1>11. ASSUME NEW p \in Procs,
              \/ Issue(p) \/ List(p) \/ Fetch(p) \/ Delete(p)
              \/ EndLogout(p) \/ Touch(p) \/ Renew(p) \/ Extend(p)
       PROVE  KeepsIndex(u)
  BY <1>1, <1>11 DEF Issue, List, Fetch, Delete, EndLogout, Touch, Renew, Extend
<1>12. CASE Break \/ Notice \/ Reconnect \/ Restart \/ UNCHANGED vars
  BY <1>1, <1>12 DEF Break, Notice, Reconnect, Connection, Restart, vars
<1> QED BY <1>3, <1>4, <1>5, <1>6, <1>7, <1>8, <1>9, <1>10, <1>11, <1>12 DEF Next

LEMMA KnowsKept ==
  ASSUME Typed, Onward, NEW p \in Procs, NEW g, g = handler[p], Knows(g)
  PROVE  Knows(g)'
<1>1. /\ g.pc \in SidSteps => g.sid \in Sessions
      /\ g.pc \in JobSteps => g.job \in Jobs /\ UserOf(g.job) \in Users
      /\ g.pc \in {"fetching", "pruning"} => g.ids \in SUBSET Sessions
      /\ g.pc \in DropSteps => g.all \in SUBSET Sessions /\ g.todo \in SUBSET Sessions
  BY HandlerFields, UserOfJob DEF Typed
<1>2. SidsOwned(g)
  BY DEF Typed, Ownership
<1>3. g.pc = "issuing" => g.sid \in strayed'
  BY DEF Knows, Onward
<1>4. ASSUME g.pc \in {"fetching", "pruning"}
      PROVE  /\ \A s \in g.ids : s \in Sessions /\ Owned(s)
             /\ \A s \in g.ids : owner'[s] = UserOf(g.job)'
  <2>1. \A s \in g.ids : s \in Sessions /\ Owned(s) /\ owner[s] = UserOf(g.job)
    BY <1>1, <1>4 DEF Knows, Owned, JobSteps
  <2>2. UserOf(g.job)' = UserOf(g.job)
    BY <1>1, <1>2, <1>4, JobType DEF UserOf, SidsOwned, JobSteps, Onward
  <2> QED BY <2>1, <2>2 DEF Onward
<1>5. ASSUME g.pc = "pruning"
      PROVE  g.found \subseteq g.ids /\ \A s \in g.ids \ g.found : Dead(s)'
  BY <1>4, <1>5 DEF Knows, Onward
<1>6. ASSUME g.pc \in DropSteps
      PROVE  /\ \A s \in g.all \cup g.todo : Owned(s)'
             /\ \A s \in Targets(g) \ Left(g) : Dead(s)'
  <2>1. \A s \in g.all \cup g.todo : s \in Sessions /\ Owned(s)
    BY <1>1, <1>6 DEF Knows
  <2>2. \A s \in Targets(g) : s \in Sessions /\ Owned(s)
    BY <2>1, <1>1, <1>2, <1>6, JobType DEF Targets, SidsOwned, JobSteps
  <2> QED BY <2>1, <2>2, <1>6 DEF Knows, Onward, Owned
<1>7. g.pc \in {"deleting", "unlisting"} => Owned(g.sid)'
  BY <1>1 DEF Knows, Onward, Owned, SidSteps
<1>8. g.pc = "unlisting" => Dead(g.sid)'
  BY <1>1 DEF Knows, Onward, SidSteps
<1>9. Targets(g)' = Targets(g) /\ Left(g)' = Left(g)
  BY DEF Targets, Left
<1> QED BY <1>3, <1>4, <1>5, <1>6, <1>7, <1>8, <1>9 DEF Knows

(* The next step of p knows what its step before has found out.                 *)
GoesKnowing(p) == \E h : Goto(p, h) /\ Knows(h)'

LEMMA KnowingKept ==
  ASSUME Typed, Ends, Onward, NEW p \in Procs, GoesKnowing(p)
  PROVE  \A q \in Procs : Knows(handler[q])'
<1> PICK h : Goto(p, h) /\ Knows(h)'
  BY DEF GoesKnowing
<1> TAKE q \in Procs
<1>1. CASE q = p
  <2>1. handler'[q] = h
    BY <1>1 DEF Goto, Typed, TypeOK
  <2> QED BY <2>1 DEF Knows, Targets, Left, UserOf
<1>2. CASE q # p
  <2> PICK g : g = handler[q]
    OBVIOUS
  <2>1. handler'[q] = g
    BY <1>2 DEF Goto, Typed, TypeOK
  <2>2. Knows(g)'
    BY KnowsKept DEF Ends
  <2> QED BY <2>1, <2>2 DEF Knows, Targets, Left, UserOf
<1> QED BY <1>1, <1>2

LEMMA KnowsNothing ==
  ASSUME NEW p, NEW h, Goto(p, h),
         h.pc \in {"idle", "adding", "expiring", "touching", "renewing", "extending", "listing"}
  PROVE  GoesKnowing(p)
<1>1. Knows(h)'
  BY DEF Knows, DropSteps
<1> QED BY <1>1 DEF GoesKnowing

LEMMA DroppingKnows ==
  ASSUME NEW p, NEW j, NEW all, NEW todo, Goto(p, Dropping(j, all, todo)),
         \A s \in all \cup todo : Owned(s)',
         j.of = "logout" => j.sid \in todo \/ Dead(j.sid)',
         j.of = "logoutAll" => \A s \in all \ todo : Dead(s)'
  PROVE  GoesKnowing(p)
<1> PICK h : h = Dropping(j, all, todo)
  OBVIOUS
<1>1. h.pc = "dropping" /\ h.job = j /\ h.all = all /\ h.todo = todo
  BY DEF Dropping
<1>2. Left(h) = todo
  BY <1>1 DEF Left
<1>3. \A s \in Targets(h) \ Left(h) : Dead(s)'
  BY <1>1, <1>2 DEF Targets
<1>4. Knows(h)'
  <2>1. Targets(h)' = Targets(h) /\ Left(h)' = Left(h)
    BY DEF Targets, Left
  <2> QED BY <1>1, <1>3, <2>1 DEF Knows
<1> QED BY <1>4 DEF GoesKnowing

LEMMA ContinueKnows ==
  ASSUME Typed, NEW p \in Procs, NEW j \in Jobs, NEW found \in SUBSET Sessions,
         Continue(p, j, found), \A s \in found : Owned(s)'
  PROVE  GoesKnowing(p)
<1>1. CASE j.of = "signIn"
  <2>1. PICK D \in SUBSET found : Goto(p, Dropping(j, {}, D))
    BY <1>1, ContinueCases DEF Typed
  <2> QED BY <2>1, <1>1, DroppingKnows
<1>2. CASE j.of = "logoutAll"
  BY <1>2, ContinueCases, DroppingKnows DEF Typed
<1>3. CASE j.of = "revoke"
  <2>1. PICK h : h = [pc |-> "listing", job |-> [of |-> "logoutAll", user |-> j.user]]
    OBVIOUS
  <2>2. Goto(p, h) /\ h.pc = "listing"
    BY <2>1, <1>3, ContinueCases DEF Typed
  <2> QED BY <2>2, KnowsNothing
<1>4. CASE j.of \in {"logout", "list"}
  <2>1. PICK h : h = Idle
    OBVIOUS
  <2>2. Goto(p, h) /\ h.pc = "idle"
    BY <2>1, <1>4, ContinueCases DEF Typed, Idle
  <2> QED BY <2>2, KnowsNothing
<1> QED BY <1>1, <1>2, <1>3, <1>4, JobType

(* What p has read is found again, or dead by the end of the step.              *)
LEMMA ReadingKnows ==
  ASSUME Typed, Ends, Onward, NEW p \in Procs, List(p) \/ Fetch(p) \/ Prune(p)
  PROVE  GoesKnowing(p)
<1> PICK h, j : h = handler[p] /\ j = h.job
  OBVIOUS
<1>1. /\ j \in Jobs /\ UserOf(j) \in Users /\ UserOf(j)' = UserOf(j)
      /\ Knows(h)
  <2>1. h.pc \in JobSteps
    BY DEF List, Fetch, Prune, JobSteps
  <2>2. SidsOwned(h)
    BY DEF Typed, Ownership
  <2>3. j \in Jobs /\ UserOf(j) \in Users
    BY <2>1, HandlerFields, UserOfJob DEF Typed
  <2> QED BY <2>1, <2>2, <2>3, JobType DEF UserOf, SidsOwned, Onward, Ends
<1>2. ASSUME NEW S \in SUBSET Sessions, \A s \in S : owner[s] = UserOf(j)
      PROVE  \A s \in S : /\ Owned(s)' /\ owner'[s] = UserOf(j)'
                          /\ Handle(Concerned(j)) /\ ~Works => Dead(s)'
  BY <1>1, <1>2 DEF Owned, Onward, Handle, Concerned, Dead
<1>3. CASE List(p)
  <2>1. PICK ids : ids = Listed(UserOf(j))
    OBVIOUS
  <2>2. ids \in SUBSET Sessions /\ \A s \in ids : owner[s] = UserOf(j)
    <3>1. IndexKept(UserOf(j))
      BY <1>1 DEF Ends
    <3> QED BY <2>1, <3>1, <1>1, ListedIs DEF IndexKept
  <2>3. \/ Works /\ Goto(p, [pc |-> "fetching", job |-> j, ids |-> ids])
        \/ Continue(p, j, {}) \/ Continue(p, j, InMemory(UserOf(j)))
    BY <1>3, <2>1 DEF List
  <2>4. CASE Goto(p, [pc |-> "fetching", job |-> j, ids |-> ids])
    <3> PICK g : g = [pc |-> "fetching", job |-> j, ids |-> ids]
      OBVIOUS
    <3>1. \A s \in ids : owner'[s] = UserOf(j)'
      BY <1>2, <2>2
    <3>2. Knows(g)'
      BY <3>1 DEF Knows, DropSteps
    <3> QED BY <3>2, <2>4 DEF GoesKnowing
  <2>5. CASE Continue(p, j, {})
    BY <2>5, <1>1, ContinueKnows
  <2>6. CASE Continue(p, j, InMemory(UserOf(j)))
    <3>1. /\ InMemory(UserOf(j)) \in SUBSET Sessions
          /\ \A s \in InMemory(UserOf(j)) : owner[s] = UserOf(j)
      BY DEF InMemory
    <3>2. \A s \in InMemory(UserOf(j)) : Owned(s)'
      BY <3>1, <1>2
    <3> QED BY <2>6, <3>1, <3>2, <1>1, ContinueKnows
  <2> QED BY <2>3, <2>4, <2>5, <2>6
<1>4. CASE Fetch(p)
  <2>1. PICK ids, found : ids = h.ids /\ found = {s \in ids : Works /\ Stored(s)}
    OBVIOUS
  <2>2. /\ ids \in SUBSET Sessions /\ found \in SUBSET Sessions /\ found \subseteq ids
        /\ \A s \in ids : owner[s] = UserOf(j)
    BY <1>1, <1>4, <2>1, HandlerFields DEF Fetch, Typed, Knows
  <2>3. \A s \in ids : Owned(s)' /\ owner'[s] = UserOf(j)'
    BY <2>2, <1>2
  <2>4. \A s \in ids \ found : Dead(s)'
    <3>1. CASE ~Works
      BY <3>1, <2>2, <1>2, <1>4 DEF Fetch
    <3>2. CASE Works
      <4>1. \A s \in ids \ found : s \in Sessions /\ Owned(s) /\ Dead(s)
        BY <3>2, <2>1, <2>2, <1>1 DEF Dead, Owned
      <4> QED BY <4>1 DEF Onward
    <3> QED BY <3>1, <3>2
  <2>5. \/ Continue(p, j, found)
        \/ Goto(p, [pc |-> "pruning", job |-> j, ids |-> ids, found |-> found])
    BY <1>4, <2>1 DEF Fetch
  <2>6. CASE Continue(p, j, found)
    BY <2>6, <2>2, <2>3, <1>1, ContinueKnows
  <2>7. CASE Goto(p, [pc |-> "pruning", job |-> j, ids |-> ids, found |-> found])
    <3> PICK g : g = [pc |-> "pruning", job |-> j, ids |-> ids, found |-> found]
      OBVIOUS
    <3>1. Knows(g)'
      BY <2>2, <2>3, <2>4 DEF Knows, DropSteps
    <3> QED BY <3>1, <2>7 DEF GoesKnowing
  <2> QED BY <2>5, <2>6, <2>7
<1>5. CASE Prune(p)
  <2>1. PICK ids, found : ids = h.ids /\ found = h.found
    OBVIOUS
  <2>2. /\ ids \in SUBSET Sessions /\ found \in SUBSET Sessions /\ found \subseteq ids
        /\ \A s \in ids : owner[s] = UserOf(j)
    BY <1>1, <1>5, <2>1, HandlerFields DEF Prune, Typed, Knows
  <2>3. \A s \in found : Owned(s)'
    BY <2>2, <1>2
  <2>4. Continue(p, j, found)
    BY <1>5, <2>1 DEF Prune
  <2> QED BY <2>2, <2>3, <2>4, <1>1, ContinueKnows
<1> QED BY <1>3, <1>4, <1>5

LEMMA DropKnows ==
  ASSUME Typed, Ends, Onward, NEW p \in Procs,
         \/ \E s \in Sessions : Drop(p, s) \/ Logout(p, s)
         \/ Delete(p) \/ Unlist(p)
  PROVE  GoesKnowing(p)
<1> PICK h, j : h = handler[p] /\ j = h.job
  OBVIOUS
<1>1. Knows(h) /\ Knows(h)'
  BY KnowsKept DEF Ends
<1>2. /\ h.pc \in DropSteps => /\ h.all \in SUBSET Sessions /\ h.todo \in SUBSET Sessions
                               /\ \A s \in h.all \cup h.todo : Owned(s)'
      /\ h.pc \in {"deleting", "unlisting"} => h.sid \in Sessions /\ Owned(h.sid)'
  BY <1>1, HandlerFields DEF Knows, Typed, SidSteps
<1>3. h.pc \in DropSteps => \A s \in Targets(h) \ Left(h) : Dead(s)'
  <2>1. Targets(h)' = Targets(h) /\ Left(h)' = Left(h)
    BY DEF Targets, Left
  <2> QED BY <1>1, <2>1 DEF Knows
<1>4. ASSUME NEW s \in Sessions, Drop(p, s)
      PROVE  GoesKnowing(p)
  <2>1. h.pc = "dropping" /\ s \in h.todo /\ Left(h) = h.todo
    BY <1>4 DEF Drop, Left
  <2>2. Handle({s}) /\ Owned(s)'
    BY <2>1, <1>2, <1>4 DEF Drop, DropSteps
  <2>3. CASE UseRedis /\ Found(s)
    <3> PICK g : g = [pc |-> "deleting", job |-> j, all |-> h.all,
                      todo |-> h.todo \ {s}, sid |-> s]
      OBVIOUS
    <3>1. Goto(p, g)
      BY <2>3, <1>4 DEF Drop
    <3>2. Targets(g) = Targets(h) /\ Left(g) = Left(h)
      BY <2>1 DEF Targets, Left
    <3>3. Knows(g)'
      <4>1. Targets(g)' = Targets(g) /\ Left(g)' = Left(g)
        BY DEF Targets, Left
      <4> QED BY <4>1, <3>2, <2>1, <2>2, <1>2, <1>3 DEF Knows, DropSteps
    <3> QED BY <3>1, <3>3 DEF GoesKnowing
  <2>4. CASE ~(UseRedis /\ Found(s))
    <3>1. Goto(p, Dropping(j, h.all, h.todo \ {s}))
      BY <2>4, <1>4 DEF Drop
    <3>2. Dead(s)'
      <4>1. CASE ~Works
        BY <4>1, <2>2 DEF Handle, Dead
      <4>2. CASE Works
        <5>1. ~Stored(s)
          BY <4>2, <2>4 DEF Found, UseRedis, Works
        <5> QED BY <5>1, <1>4 DEF Dead, Stored, Drop, redis
      <4> QED BY <4>1, <4>2
    <3>3. /\ j.of = "logout" => j.sid \in h.todo \/ Dead(j.sid)'
          /\ j.of = "logoutAll" => \A t \in h.all \ h.todo : Dead(t)'
      BY <2>1, <1>3 DEF Targets, DropSteps
    <3>4. \A t \in h.all \cup (h.todo \ {s}) : Owned(t)'
      BY <2>1, <1>2 DEF DropSteps
    <3> QED BY <3>1, <3>2, <3>3, <3>4, DroppingKnows
  <2> QED BY <2>3, <2>4
<1>5. ASSUME NEW s \in Sessions, Logout(p, s)
      PROVE  GoesKnowing(p)
  <2>1. PICK k : k = [of |-> "logout", sid |-> s]
    OBVIOUS
  <2>2. Goto(p, Dropping(k, {}, {s})) /\ k.of = "logout" /\ k.sid = s
    BY <2>1, <1>5 DEF Logout
  <2>3. Owned(s)'
    BY <1>5 DEF Logout, Typed, Ownership, Onward, Owned
  <2> QED BY <2>2, <2>3, DroppingKnows
<1>6. CASE Delete(p)
  <2>1. h.pc = "deleting" /\ DelKey(h.sid) /\ Handle({h.sid}) /\ UNCHANGED clock
    BY <1>6 DEF Delete
  <2>2. Dead(h.sid)'
    BY <2>1, <1>2, DelKeyKeepsDead
  <2>3. PICK g : g = [pc |-> "unlisting", job |-> j, all |-> h.all, todo |-> h.todo,
                      sid |-> h.sid]
    OBVIOUS
  <2>4. Goto(p, g)
    <3>1. h \in [pc : {"deleting", "unlisting"}, job : Jobs,
                 all : SUBSET Sessions, todo : SUBSET Sessions, sid : Sessions]
      BY <2>1 DEF Typed, TypeOK, Handler, Idle
    <3>2. g = [h EXCEPT !.pc = "unlisting"]
      BY <3>1, <2>3
    <3> QED BY <3>2, <1>6 DEF Delete
  <2>5. Targets(g) = Targets(h) /\ Left(g) = h.todo /\ Left(h) = h.todo \cup {h.sid}
    BY <2>1, <2>3 DEF Targets, Left
  <2>6. Knows(g)'
    <3>1. Targets(g)' = Targets(g) /\ Left(g)' = Left(g)
      BY DEF Targets, Left
    <3> QED BY <3>1, <2>1, <2>2, <2>3, <2>5, <1>2, <1>3 DEF Knows, DropSteps
  <2> QED BY <2>4, <2>6 DEF GoesKnowing
<1>7. CASE Unlist(p)
  <2>1. h.pc = "unlisting" /\ Goto(p, Dropping(j, h.all, h.todo)) /\ Left(h) = h.todo
    BY <1>7 DEF Unlist, Left
  <2>2. /\ j.of = "logout" => j.sid \in h.todo \/ Dead(j.sid)'
        /\ j.of = "logoutAll" => \A t \in h.all \ h.todo : Dead(t)'
    BY <2>1, <1>3 DEF Targets, DropSteps
  <2> QED BY <2>1, <2>2, <1>2, DroppingKnows DEF DropSteps
<1> QED BY <1>4, <1>5, <1>6, <1>7

LEMMA OtherKnows ==
  ASSUME Typed, NEW p \in Procs,
         \/ \E s \in Sessions : Validate(p, s) \/ \E u \in Users : CreateSession(p, u, s)
         \/ \E u \in Users : ListSessions(p, u)
         \/ AddToIndex(p) \/ SetIndexExpiry(p) \/ Issue(p)
         \/ EndLogout(p) \/ EndLogoutAll(p) \/ Touch(p) \/ Renew(p) \/ Extend(p)
  PROVE  GoesKnowing(p)
<1>1. Goto(p, Idle) => GoesKnowing(p)
  BY KnowsNothing DEF Idle
<1>2. ASSUME NEW s \in Sessions, Validated(p, s)
      PROVE  GoesKnowing(p)
  <2>1. \A h : h.pc \in {"renewing", "listing"} /\ Goto(p, h) => GoesKnowing(p)
    BY KnowsNothing
  <2> QED BY <1>1, <1>2, <2>1 DEF Validated
<1>3. ASSUME NEW s \in Sessions, NEW u \in Users, CreateSession(p, u, s)
      PROVE  GoesKnowing(p)
  <2>1. CASE UseRedis
    <3>1. PICK h : h = [pc |-> "adding", sid |-> s]
      OBVIOUS
    <3>2. Goto(p, h) /\ h.pc = "adding"
      BY <3>1, <2>1, <1>3 DEF CreateSession
    <3> QED BY <3>2, KnowsNothing
  <2>2. CASE ~UseRedis
    <3>1. PICK h : h = [pc |-> "issuing", sid |-> s]
      OBVIOUS
    <3>2. Goto(p, h) /\ Handle({s})
      BY <3>1, <2>2, <1>3 DEF CreateSession
    <3>3. s \in strayed'
      BY <3>2, <2>2 DEF Handle, UseRedis, Works
    <3>4. Knows(h)'
      BY <3>1, <3>3 DEF Knows, DropSteps
    <3> QED BY <3>2, <3>4 DEF GoesKnowing
  <2> QED BY <2>1, <2>2
<1>4. ASSUME NEW s \in Sessions, Validate(p, s)
      PROVE  GoesKnowing(p)
  <2>1. PICK h : h = [pc |-> "touching", sid |-> s, exp |-> keys[s]]
    OBVIOUS
  <2>2. (Goto(p, h) /\ h.pc = "touching") \/ Goto(p, Idle) \/ Validated(p, s)
    BY <2>1, <1>4 DEF Validate
  <2> QED BY <2>2, <1>1, <1>2, KnowsNothing
<1>5. CASE Touch(p)
  <2>1. PICK s : s = handler[p].sid
    OBVIOUS
  <2>2. s \in Sessions /\ Validated(p, s)
    BY <2>1, <1>5, HandlerFields DEF Touch, Typed, SidSteps, OwnSteps
  <2> QED BY <2>2, <1>2
<1>6. CASE Renew(p)
  <2>1. PICK h : h = [pc |-> "extending", sid |-> handler[p].sid]
    OBVIOUS
  <2>2. (Goto(p, h) /\ h.pc = "extending") \/ Goto(p, Idle)
    BY <2>1, <1>6 DEF Renew
  <2> QED BY <2>2, <1>1, KnowsNothing
<1>7. CASE AddToIndex(p)
  <2>1. PICK h : h = [pc |-> "expiring", sid |-> handler[p].sid]
    OBVIOUS
  <2>2. Goto(p, h) /\ h.pc = "expiring"
    BY <2>1, <1>7 DEF AddToIndex
  <2> QED BY <2>2, KnowsNothing
<1>8. CASE SetIndexExpiry(p)
  <2>1. PICK h : h = [pc |-> "listing", job |-> [of |-> "signIn", sid |-> handler[p].sid]]
    OBVIOUS
  <2>2. Goto(p, h) /\ h.pc = "listing"
    BY <2>1, <1>8 DEF SetIndexExpiry
  <2> QED BY <2>2, KnowsNothing
<1>9. ASSUME NEW u \in Users, ListSessions(p, u)
      PROVE  GoesKnowing(p)
  <2>1. PICK h : h = [pc |-> "listing", job |-> [of |-> "list", user |-> u]]
    OBVIOUS
  <2>2. Goto(p, h) /\ h.pc = "listing"
    BY <2>1, <1>9 DEF ListSessions
  <2> QED BY <2>2, KnowsNothing
<1>10. CASE Issue(p) \/ EndLogout(p) \/ EndLogoutAll(p) \/ Extend(p)
  BY <1>1, <1>10 DEF Issue, EndLogout, EndLogoutAll, Extend
<1> QED BY <1>3, <1>4, <1>5, <1>6, <1>7, <1>8, <1>9, <1>10

LEMMA KnowsStep ==
  ASSUME Typed, Ends, [Next]_vars
  PROVE  \A p \in Procs : Knows(handler[p])'
<1>0. Onward
  BY OnwardStep
<1>1. ASSUME NEW p \in Procs,
             \/ \E s \in Sessions : \/ \E u \in Users : CreateSession(p, u, s)
                                    \/ Drop(p, s) \/ Logout(p, s) \/ Validate(p, s)
             \/ \E u \in Users : ListSessions(p, u)
             \/ AddToIndex(p) \/ SetIndexExpiry(p) \/ Issue(p)
             \/ List(p) \/ Fetch(p) \/ Prune(p) \/ Delete(p) \/ Unlist(p)
             \/ EndLogout(p) \/ EndLogoutAll(p) \/ Touch(p) \/ Renew(p) \/ Extend(p)
      PROVE  \A q \in Procs : Knows(handler[q])'
  <2>1. GoesKnowing(p)
    BY <1>0, <1>1, OtherKnows, ReadingKnows, DropKnows
  <2> QED BY <2>1, <1>0, KnowingKept
<1>2. CASE UNCHANGED handler
  <2> TAKE p \in Procs
  <2> PICK g : g = handler[p]
    OBVIOUS
  <2>1. Knows(g)' /\ handler'[p] = g
    BY <1>0, <1>2, KnowsKept DEF Ends
  <2> QED BY <2>1 DEF Knows, Targets, Left, UserOf
<1>3. CASE Restart
  <2> TAKE p \in Procs
  <2>1. handler'[p] = Idle
    BY <1>3 DEF Restart
  <2> QED BY <2>1 DEF Knows, Idle, DropSteps
<1>4. Tick \/ Break \/ Notice \/ Reconnect \/ UNCHANGED vars => UNCHANGED handler
  BY DEF Tick, Break, Notice, Reconnect, Connection, vars
<1> QED BY <1>1, <1>2, <1>3, <1>4 DEF Next

(* The memory of the process is used in outages only.                           *)
LEMMA MemoryStep ==
  ASSUME Typed, Ends, [Next]_vars
  PROVE  \A s \in Sessions : memory'[s] # Gone => s \in strayed'
<1>0. /\ \A s \in Sessions : memory[s] # Gone => s \in strayed'
      /\ memory \in [Sessions -> Expiries]
  BY OnwardStep DEF Onward, Ends, Typed, TypeOK
<1>1. ASSUME UNCHANGED memory
      PROVE  \A s \in Sessions : memory'[s] # Gone => s \in strayed'
  BY <1>0, <1>1
<1>2. ASSUME NEW s \in Sessions, memory' = [memory EXCEPT ![s] = Gone]
      PROVE  \A t \in Sessions : memory'[t] # Gone => t \in strayed'
  BY <1>0, <1>2
<1>3. ASSUME NEW p \in Procs, NEW u \in Users, NEW s \in Sessions, CreateSession(p, u, s)
      PROVE  \A t \in Sessions : memory'[t] # Gone => t \in strayed'
  <2>1. CASE UseRedis
    BY <2>1, <1>1, <1>3 DEF CreateSession
  <2>2. CASE ~UseRedis
    <3>1. s \in strayed'
      BY <2>2, <1>3 DEF CreateSession, Handle, UseRedis, Works
    <3>2. PICK D : memory' = [t \in Sessions |->
                                CASE t \in D -> Gone
                                  [] t = s   -> clock + TTL
                                  [] OTHER   -> memory[t]]
      BY <2>2, <1>3 DEF CreateSession
    <3>3. \A t \in Sessions : t # s => memory'[t] = Gone \/ memory'[t] = memory[t]
      BY <3>2
    <3> QED BY <3>1, <3>3, <1>0
  <2> QED BY <2>1, <2>2
<1>4. ASSUME NEW p \in Procs, Renew(p)
      PROVE  \A t \in Sessions : memory'[t] # Gone => t \in strayed'
  <2>1. PICK s : s = handler[p].sid
    OBVIOUS
  <2>2. s \in Sessions
    BY <2>1, <1>4, HandlerFields DEF Renew, Typed, SidSteps, OwnSteps
  <2>3. CASE ~UseRedis /\ Found(s)
    <3>1. memory' = [memory EXCEPT ![s] = clock + TTL] /\ memory[s] # Gone
      BY <2>1, <2>3, <1>4 DEF Renew, Found
    <3> QED BY <3>1, <2>2, <1>0
  <2>4. CASE ~(~UseRedis /\ Found(s))
    BY <2>1, <2>4, <1>1, <1>4 DEF Renew
  <2> QED BY <2>3, <2>4
<1>5. ASSUME NEW p \in Procs, NEW s \in Sessions, Drop(p, s) \/ Validate(p, s) \/ Logout(p, s)
      PROVE  \A t \in Sessions : memory'[t] # Gone => t \in strayed'
  <2>1. memory' = memory \/ memory' = [memory EXCEPT ![s] = Gone]
    BY <1>5 DEF Drop, Validate, Logout
  <2> QED BY <2>1, <1>1, <1>2
<1>6. CASE Restart
  BY <1>6 DEF Restart
<1>7. ASSUME NEW p \in Procs, NEW u \in Users, ListSessions(p, u)
      PROVE  UNCHANGED memory
  BY <1>7 DEF ListSessions
<1>8. ASSUME NEW p \in Procs,
             \/ AddToIndex(p) \/ SetIndexExpiry(p) \/ Issue(p) \/ List(p) \/ Fetch(p) \/ Prune(p)
             \/ Delete(p) \/ Unlist(p) \/ EndLogout(p) \/ EndLogoutAll(p)
             \/ Touch(p) \/ Extend(p)
      PROVE  UNCHANGED memory
  BY <1>8 DEF AddToIndex, SetIndexExpiry, Issue, List, Fetch, Prune, Delete, Unlist,
              EndLogout, EndLogoutAll, Touch, Extend
<1>9. Tick \/ Break \/ Notice \/ Reconnect \/ UNCHANGED vars => UNCHANGED memory
  BY DEF Tick, Break, Notice, Reconnect, Connection, vars
<1> QED BY <1>1, <1>3, <1>4, <1>5, <1>6, <1>7, <1>8, <1>9 DEF Next

(* A logout is answered when everything it was to delete is dead.               *)
LEMMA EndedStep ==
  ASSUME Typed, Ends, [Next]_vars
  PROVE  \A s \in ended' : Owned(s)' /\ Dead(s)'
<1> USE DEF history, redis, faults
<1>0. Onward /\ \A s \in ended : s \in Sessions
  BY OnwardStep DEF Typed, TypeOK
<1>1. ASSUME NEW S, ended' = ended \cup S,
             \A s \in S : s \in Sessions /\ Owned(s) /\ Dead(s)
      PROVE  \A s \in ended' : Owned(s)' /\ Dead(s)'
  BY <1>0, <1>1 DEF Onward, Ends, Owned
<1>2. ASSUME UNCHANGED ended
      PROVE  \A s \in ended' : Owned(s)' /\ Dead(s)'
  BY <1>0, <1>2 DEF Onward, Ends, Owned
<1>3. ASSUME NEW p \in Procs, EndLogout(p)
      PROVE  \A s \in ended' : Owned(s)' /\ Dead(s)'
  <2> PICK h : h = handler[p]
    OBVIOUS
  <2>1. /\ h.pc = "dropping" /\ h.job.of = "logout" /\ h.todo = {}
        /\ ended' = ended \cup {h.job.sid}
        /\ Knows(h) /\ SidsOwned(h)
    BY <1>3 DEF EndLogout, Ends, Typed, Ownership
  <2>2. Targets(h) = {h.job.sid} /\ Left(h) = {}
    BY <2>1 DEF Targets, Left
  <2>3. h.job.sid \in Sessions
    BY <2>1, HandlerFields, JobType DEF Typed, JobSteps, DropSteps
  <2> QED BY <2>1, <2>2, <2>3, <1>1 DEF Knows, SidsOwned, JobSteps, DropSteps
<1>4. ASSUME NEW p \in Procs, EndLogoutAll(p)
      PROVE  \A s \in ended' : Owned(s)' /\ Dead(s)'
  <2> PICK h : h = handler[p]
    OBVIOUS
  <2>1. /\ h.pc = "dropping" /\ h.job.of = "logoutAll" /\ h.todo = {}
        /\ ended' = ended \cup h.all
        /\ Knows(h)
    BY <1>4 DEF EndLogoutAll, Ends
  <2>2. Targets(h) = h.all /\ Left(h) = {}
    BY <2>1 DEF Targets, Left
  <2>3. h.all \in SUBSET Sessions
    BY <2>1, HandlerFields DEF Typed, DropSteps
  <2> QED BY <2>1, <2>2, <2>3, <1>1 DEF Knows, DropSteps
<1>5. ASSUME NEW p \in Procs, NEW s \in Sessions,
             \/ \E u \in Users : CreateSession(p, u, s)
             \/ Drop(p, s) \/ Logout(p, s) \/ Validate(p, s)
      PROVE  UNCHANGED ended
  BY <1>5 DEF CreateSession, Drop, Logout, Validate
<1>6. ASSUME NEW p \in Procs, NEW u \in Users, ListSessions(p, u)
      PROVE  UNCHANGED ended
  BY <1>6 DEF ListSessions
<1>7. ASSUME NEW p \in Procs,
             \/ AddToIndex(p) \/ SetIndexExpiry(p) \/ Issue(p) \/ List(p) \/ Fetch(p) \/ Prune(p)
             \/ Delete(p) \/ Unlist(p) \/ Touch(p) \/ Renew(p) \/ Extend(p)
      PROVE  UNCHANGED ended
  BY <1>7 DEF AddToIndex, SetIndexExpiry, Issue, List, Fetch, Prune, Delete, Unlist,
              Touch, Renew, Extend
<1>8. Tick \/ Break \/ Notice \/ Reconnect \/ Restart \/ UNCHANGED vars => UNCHANGED ended
  BY DEF Tick, Break, Notice, Reconnect, Connection, Restart, vars
<1> QED BY <1>2, <1>3, <1>4, <1>5, <1>6, <1>7, <1>8 DEF Next

LEMMA EndsInit ==
  ASSUME Init
  PROVE  Ends
  BY DEF Init, Ends, Knows, Idle, DropSteps, IndexKept, NoIndex

LEMMA EndsStep ==
  ASSUME Typed, Ends, [Next]_vars
  PROVE  Ends'
<1>1. \A u \in Users : IndexKept(u)'
  BY IndexStep DEF KeepsIndex
<1> QED BY <1>1, KnowsStep, MemoryStep, EndedStep DEF Ends

LEMMA AlwaysEnds == Spec => [](Typed /\ Ends)
<1>1. Init => Typed /\ Ends
  BY TypedInit, EndsInit
<1>2. Typed /\ Ends /\ [Next]_vars => Typed' /\ Ends'
  BY TypedStep, EndsStep
<1> QED BY <1>1, <1>2, PTL DEF Spec

(* A session that a logout has been reported for is not found again: a logout   *)
(* that is answered has deleted everything it was to delete, and only a request *)
(* that was under way, or an outage, can store a session that is gone.          *)
THEOREM LogoutIsFinal == Spec => []EndedStaysEnded
<1>1. Typed /\ Ends => EndedStaysEnded
  BY DEF Typed, TypeOK, Ends, EndedStaysEnded, Dead
<1> QED BY <1>1, AlwaysEnds, PTL

-----------------------------------------------------------------------------
(* What the index covers *)

(* A sign-in that has sent SADD.                                                *)
Adds(h, s) ==
    \/ h.pc = "expiring" /\ h.sid = s
    \/ h.pc \in JobSteps /\ h.job.of = "signIn" /\ h.job.sid = s

Added(s) == s \in issued \/ \E p \in Procs : Adds(handler[p], s)

Covered == \A s \in Sessions : Added(s) /\ Live(s) => s \in index[owner[s]].ids

(* A job that is the sign-in's stays the sign-in's.                             *)
SignInKept(p) ==
    \E h : /\ Goto(p, h)
           /\ h.pc # "expiring"
           /\ h.pc \in JobSteps /\ h.job.of = "signIn"
                => handler[p].pc \in JobSteps /\ h.job = handler[p].job

LEMMA ContinueKeepsSignIn ==
  ASSUME Typed, NEW p \in Procs, NEW j \in Jobs, NEW found \in SUBSET Sessions,
         Continue(p, j, found), handler[p].pc \in JobSteps, handler[p].job = j
  PROVE  SignInKept(p)
<1>1. ASSUME NEW D, NEW E, Goto(p, Dropping(j, D, E))
      PROVE  SignInKept(p)
  <2> PICK h : h = Dropping(j, D, E)
    OBVIOUS
  <2>1. h.pc = "dropping" /\ h.job = j
    BY DEF Dropping
  <2> QED BY <1>1, <2>1 DEF SignInKept
<1>2. CASE j.of = "revoke"
  <2>1. PICK h : h = [pc |-> "listing", job |-> [of |-> "logoutAll", user |-> j.user]]
    OBVIOUS
  <2>2. Goto(p, h) /\ h.pc = "listing" /\ h.job.of = "logoutAll"
    BY <2>1, <1>2, ContinueCases DEF Typed
  <2> QED BY <2>2 DEF SignInKept
<1>3. CASE Goto(p, Idle)
  BY <1>3 DEF SignInKept, Idle, JobSteps, DropSteps
<1> QED BY <1>1, <1>2, <1>3, ContinueCases, JobType DEF Typed

LEMMA SignInKeeps ==
  ASSUME Typed, NEW p \in Procs,
         \/ \E s \in Sessions : \/ \E u \in Users : CreateSession(p, u, s)
                                \/ Drop(p, s) \/ Logout(p, s) \/ Validate(p, s)
         \/ \E u \in Users : ListSessions(p, u)
         \/ Issue(p)
         \/ List(p) \/ Fetch(p) \/ Prune(p) \/ Delete(p) \/ Unlist(p)
         \/ EndLogout(p) \/ EndLogoutAll(p) \/ Touch(p) \/ Renew(p) \/ Extend(p)
  PROVE  SignInKept(p)
<1>1. ASSUME NEW h, Goto(p, h),
             \/ h.pc \in {"idle", "adding", "issuing", "touching", "renewing", "extending"}
             \/ h.job.of # "signIn" /\ h.pc # "expiring"
             \/ handler[p].pc \in JobSteps /\ h.job = handler[p].job /\ h.pc # "expiring"
      PROVE  SignInKept(p)
  BY <1>1 DEF SignInKept, JobSteps, DropSteps
<1>2. Idle.pc = "idle" /\ (Goto(p, Idle) => SignInKept(p))
  BY <1>1 DEF Idle
<1>3. ASSUME NEW s, Validated(p, s)
      PROVE  SignInKept(p)
  BY <1>1, <1>2, <1>3 DEF Validated
<1>4. ASSUME NEW s \in Sessions, NEW u \in Users, CreateSession(p, u, s)
      PROVE  SignInKept(p)
  <2>1. \/ Goto(p, [pc |-> "adding", sid |-> s]) \/ Goto(p, [pc |-> "issuing", sid |-> s])
    BY <1>4 DEF CreateSession
  <2> QED BY <2>1, <1>1
<1>5. ASSUME NEW s \in Sessions, Drop(p, s)
      PROVE  SignInKept(p)
  <2> PICK h : h = handler[p]
    OBVIOUS
  <2>1. h.pc \in JobSteps
    BY <1>5 DEF Drop, JobSteps, DropSteps
  <2>2. \/ Goto(p, Dropping(h.job, h.all, h.todo \ {s}))
        \/ Goto(p, [pc |-> "deleting", job |-> h.job, all |-> h.all,
                    todo |-> h.todo \ {s}, sid |-> s])
    BY <1>5 DEF Drop
  <2> QED BY <2>1, <2>2, <1>1 DEF Dropping
<1>6. ASSUME NEW s \in Sessions, Logout(p, s) \/ Validate(p, s)
      PROVE  SignInKept(p)
  <2>1. \/ Goto(p, Dropping([of |-> "logout", sid |-> s], {}, {s}))
        \/ Goto(p, [pc |-> "touching", sid |-> s, exp |-> keys[s]])
        \/ Goto(p, Idle) \/ Validated(p, s)
    BY <1>6 DEF Logout, Validate
  <2> QED BY <2>1, <1>1, <1>2, <1>3 DEF Dropping
<1>7. ASSUME NEW u \in Users, ListSessions(p, u)
      PROVE  SignInKept(p)
  <2>1. Goto(p, [pc |-> "listing", job |-> [of |-> "list", user |-> u]])
    BY <1>7 DEF ListSessions
  <2> QED BY <2>1, <1>1
<1>8. CASE List(p) \/ Fetch(p) \/ Prune(p)
  <2> PICK h, j : h = handler[p] /\ j = h.job
    OBVIOUS
  <2>1. h.pc \in JobSteps /\ j \in Jobs
    BY <1>8, HandlerFields DEF Typed, List, Fetch, Prune, JobSteps
  <2>2. /\ h.pc \in {"fetching", "pruning"} => h.ids \in SUBSET Sessions
        /\ h.pc = "pruning" => h.found \in SUBSET Sessions
    BY HandlerFields DEF Typed
  <2>3. \/ \E found \in SUBSET Sessions : Continue(p, j, found)
        \/ \E ids : Goto(p, [pc |-> "fetching", job |-> j, ids |-> ids])
        \/ \E ids, found : Goto(p, [pc |-> "pruning", job |-> j, ids |-> ids, found |-> found])
    <3>1. CASE List(p)
      <4>1. {} \in SUBSET Sessions /\ InMemory(UserOf(j)) \in SUBSET Sessions
        BY DEF InMemory
      <4> QED BY <4>1, <3>1 DEF List
    <3>2. CASE Fetch(p)
      <4>1. PICK found : found = {s \in h.ids : Works /\ Stored(s)}
        OBVIOUS
      <4>2. found \in SUBSET Sessions
        BY <4>1, <3>2, <2>2 DEF Fetch
      <4>3. \/ Continue(p, j, found)
            \/ Goto(p, [pc |-> "pruning", job |-> j, ids |-> h.ids, found |-> found])
        BY <4>1, <3>2 DEF Fetch
      <4> QED BY <4>2, <4>3
    <3>3. CASE Prune(p)
      BY <3>3, <2>2 DEF Prune
    <3> QED BY <1>8, <3>1, <3>2, <3>3
  <2> QED BY <2>1, <2>3, <1>1, ContinueKeepsSignIn
<1>9. CASE Delete(p)
  <2> PICK h : h = handler[p]
    OBVIOUS
  <2>1. /\ h \in [pc : {"deleting", "unlisting"}, job : Jobs,
                  all : SUBSET Sessions, todo : SUBSET Sessions, sid : Sessions]
        /\ Goto(p, [h EXCEPT !.pc = "unlisting"])
    BY <1>9 DEF Delete, Typed, TypeOK, Handler, Idle
  <2>2. PICK g : g = [h EXCEPT !.pc = "unlisting"]
    OBVIOUS
  <2>3. g.job = h.job /\ g.pc = "unlisting" /\ h.pc \in JobSteps
    BY <2>1, <2>2 DEF JobSteps, DropSteps
  <2> QED BY <2>1, <2>2, <2>3, <1>1
<1>10. CASE Unlist(p)
  <2> PICK h : h = handler[p]
    OBVIOUS
  <2>1. Goto(p, Dropping(h.job, h.all, h.todo)) /\ h.pc \in JobSteps
    BY <1>10 DEF Unlist, JobSteps, DropSteps
  <2> QED BY <2>1, <1>1 DEF Dropping
<1>11. CASE Touch(p)
  BY <1>3, <1>11 DEF Touch
<1>12. CASE Renew(p)
  <2>1. Goto(p, [pc |-> "extending", sid |-> handler[p].sid]) \/ Goto(p, Idle)
    BY <1>12 DEF Renew
  <2> QED BY <2>1, <1>1, <1>2
<1>13. CASE Issue(p) \/ EndLogout(p) \/ EndLogoutAll(p) \/ Extend(p)
  BY <1>2, <1>13 DEF Issue, EndLogout, EndLogoutAll, Extend
<1> QED BY <1>4, <1>5, <1>6, <1>7, <1>8, <1>9, <1>10, <1>11, <1>12, <1>13

(* Only SADD adds a session.                                                    *)
LEMMA AddedStep ==
  ASSUME Typed, Ends, [Next]_vars, NEW s \in Sessions, Added(s)', Live(s)'
  PROVE  Added(s) \/ \E p \in Procs : AddToIndex(p) /\ handler[p].sid = s
<1> USE DEF history, redis, faults
<1>1. ASSUME NEW p \in Procs, SignInKept(p), s \in issued' => Added(s)
      PROVE  Added(s)
  <2>1. PICK h : /\ Goto(p, h) /\ h.pc # "expiring"
                 /\ h.pc \in JobSteps /\ h.job.of = "signIn"
                      => handler[p].pc \in JobSteps /\ h.job = handler[p].job
    BY <1>1 DEF SignInKept
  <2>2. handler'[p] = h /\ \A q \in Procs : q # p => handler'[q] = handler[q]
    BY <2>1 DEF Goto, Typed, TypeOK
  <2>3. Adds(h, s) => Adds(handler[p], s)
    BY <2>1 DEF Adds
  <2>4. s \in issued' \/ \E q \in Procs : Adds(handler'[q], s)
    BY DEF Added, Adds
  <2> QED BY <2>2, <2>3, <2>4, <1>1 DEF Added
<1>2. ASSUME UNCHANGED <<handler, issued>>
      PROVE  Added(s)
  BY <1>2 DEF Added, Adds
<1>3. UNCHANGED issued => (s \in issued' => Added(s))
  BY DEF Added
<1>4. ASSUME NEW p \in Procs, NEW t \in Sessions,
             \/ \E u \in Users : CreateSession(p, u, t)
             \/ Drop(p, t) \/ Logout(p, t) \/ Validate(p, t)
      PROVE  Added(s)
  <2>1. UNCHANGED issued
    BY <1>4 DEF CreateSession, Drop, Logout, Validate
  <2> QED BY <2>1, <1>1, <1>3, <1>4, SignInKeeps
<1>5. ASSUME NEW p \in Procs, NEW u \in Users, ListSessions(p, u)
      PROVE  Added(s)
  <2>1. UNCHANGED issued
    BY <1>5 DEF ListSessions
  <2> QED BY <2>1, <1>1, <1>3, <1>5, SignInKeeps
<1>6. ASSUME NEW p \in Procs,
             \/ List(p) \/ Fetch(p) \/ Prune(p) \/ Delete(p) \/ Unlist(p)
             \/ EndLogout(p) \/ EndLogoutAll(p) \/ Touch(p) \/ Renew(p) \/ Extend(p)
      PROVE  Added(s)
  <2>1. UNCHANGED issued
    BY <1>6 DEF List, Fetch, Prune, Delete, Unlist, EndLogout, EndLogoutAll, Touch, Renew, Extend
  <2> QED BY <2>1, <1>1, <1>3, <1>6, SignInKeeps
<1>7. ASSUME NEW p \in Procs, Issue(p)
      PROVE  Added(s)
  <2> PICK h : h = handler[p]
    OBVIOUS
  <2>1. CASE h.pc = "issuing"
    <3>1. issued' = issued \cup {h.sid} /\ h.sid \in strayed /\ UNCHANGED strayed
      BY <2>1, <1>7 DEF Issue, Ends, Knows
    <3>2. s # h.sid
      BY <3>1 DEF Live, Dead
    <3> QED BY <3>1, <3>2, <1>1, <1>7, SignInKeeps DEF Added
  <2>2. CASE h.pc # "issuing"
    <3>1. issued' = issued \cup {h.job.sid} /\ h.pc = "dropping" /\ h.job.of = "signIn"
      BY <2>2, <1>7 DEF Issue
    <3>2. Adds(h, h.job.sid)
      BY <3>1 DEF Adds, JobSteps, DropSteps
    <3> QED BY <3>1, <3>2, <1>1, <1>7, SignInKeeps DEF Added
  <2> QED BY <2>1, <2>2
<1>8. ASSUME NEW p \in Procs, SetIndexExpiry(p)
      PROVE  Added(s)
  <2> PICK h, g : /\ h = handler[p]
                  /\ g = [pc |-> "listing", job |-> [of |-> "signIn", sid |-> h.sid]]
    OBVIOUS
  <2>1. h.pc = "expiring" /\ Goto(p, g) /\ UNCHANGED issued
    BY <1>8 DEF SetIndexExpiry
  <2>2. handler'[p] = g /\ \A q \in Procs : q # p => handler'[q] = handler[q]
    BY <2>1 DEF Goto, Typed, TypeOK
  <2>3. Adds(g, s) => Adds(h, s)
    BY <2>1 DEF Adds
  <2>4. s \in issued' \/ \E q \in Procs : Adds(handler'[q], s)
    BY DEF Added, Adds
  <2> QED BY <2>1, <2>2, <2>3, <2>4 DEF Added
<1>9. ASSUME NEW p \in Procs, AddToIndex(p), handler[p].sid # s
      PROVE  Added(s)
  <2> PICK g : g = [pc |-> "expiring", sid |-> handler[p].sid]
    OBVIOUS
  <2>1. Goto(p, g) /\ UNCHANGED issued
    BY <1>9 DEF AddToIndex
  <2>2. handler'[p] = g /\ \A q \in Procs : q # p => handler'[q] = handler[q]
    BY <2>1 DEF Goto, Typed, TypeOK
  <2>3. ~Adds(g, s)
    BY <1>9 DEF Adds, JobSteps, DropSteps
  <2>4. s \in issued' \/ \E q \in Procs : Adds(handler'[q], s)
    BY DEF Added, Adds
  <2> QED BY <2>1, <2>2, <2>3, <2>4 DEF Added
<1>10. CASE Restart
  <2>1. \A q \in Procs : handler'[q] = Idle
    BY <1>10 DEF Restart
  <2>2. \A q \in Procs : ~Adds(handler'[q], s)
    BY <2>1 DEF Adds, Idle, JobSteps, DropSteps
  <2>3. s \in issued' \/ \E q \in Procs : Adds(handler'[q], s)
    BY DEF Added, Adds
  <2> QED BY <2>2, <2>3, <1>10 DEF Added, Restart
<1>11. Tick \/ Break \/ Notice \/ Reconnect \/ UNCHANGED vars => UNCHANGED <<handler, issued>>
  BY DEF Tick, Break, Notice, Reconnect, Connection, vars
<1> QED BY <1>2, <1>4, <1>5, <1>6, <1>7, <1>8, <1>9, <1>10, <1>11 DEF Next

LEMMA AddedOwned ==
  ASSUME Typed, NEW s \in Sessions, Added(s)
  PROVE  Owned(s)
<1>1. ASSUME NEW p \in Procs, Adds(handler[p], s)
      PROVE  Owned(s)
  <2> PICK h : h = handler[p]
    OBVIOUS
  <2>1. SidsOwned(h) /\ Adds(h, s)
    BY <1>1 DEF Typed, Ownership
  <2> QED BY <2>1 DEF SidsOwned, Adds, OwnSteps
<1> QED BY <1>1 DEF Added, Typed, Ownership

LEMMA CoveredStep ==
  ASSUME Typed, Ends, Covered, [Next]_vars
  PROVE  Covered'
<1>0. Onward
  BY OnwardStep
<1>1. ASSUME NEW s \in Sessions, Added(s)', Live(s)'
      PROVE  s \in index'[owner'[s]].ids
  <2>1. CASE Added(s)
    <3>1. PICK u : u = owner[s]
      OBVIOUS
    <3>2. u \in Users /\ owner'[s] = u
      BY <2>1, <3>1, <1>0, AddedOwned DEF Onward, Owned
    <3>3. Live(s)
      BY <2>1, <1>0, <1>1, AddedOwned DEF Onward, Live
    <3>4. s \in index[u].ids
      BY <2>1, <3>1, <3>3 DEF Covered
    <3> QED BY <3>2, <3>4, <1>1, IndexStep DEF KeepsIndex
  <2>2. ASSUME NEW p \in Procs, AddToIndex(p), handler[p].sid = s
        PROVE  s \in index'[owner'[s]].ids
    <3>1. PICK u, i : u = owner[s] /\ i = AddedTo(u, s)
      OBVIOUS
    <3>2. u \in Users /\ owner'[s] = u
      BY <2>2, <3>1, <1>0
         DEF AddToIndex, Typed, Ownership, SidsOwned, OwnSteps, Onward, Owned
    <3>3. Handle({s}) /\ SetIndex(u, i)
      BY <2>2, <3>1 DEF AddToIndex
    <3>4. Works
      BY <3>3, <1>1 DEF Handle, Live, Dead
    <3>5. index'[u] = i
      BY <3>2, <3>3, <3>4 DEF SetIndex, Typed, TypeOK
    <3> QED BY <3>1, <3>2, <3>5 DEF AddedTo
  <2> QED BY <2>1, <2>2, <1>1, AddedStep
<1>2. \A s \in Sessions : Added(s)' /\ Live(s)' => s \in index'[owner'[s]].ids
  BY <1>1
<1> QED BY <1>2 DEF Covered

LEMMA CoveredInit ==
  ASSUME Init
  PROVE  Covered
  BY DEF Init, Covered, Live, Dead, Stored, Gone

LEMMA AlwaysCovered == Spec => [](Typed /\ Ends /\ Covered)
<1>1. Init => Covered
  BY CoveredInit
<1>2. Typed /\ Ends /\ Covered /\ [Next]_vars => Covered'
  BY CoveredStep
<1> QED BY <1>1, <1>2, AlwaysEnds, PTL DEF Spec

(* A session whose sign-in has been answered is listed for as long as Redis     *)
(* holds it: an index loses none but sessions that are gone already, those that *)
(* expire with it, and those of sign-ins a logout from all sessions overtakes.  *)
THEOREM IndexIsComplete == Spec => []IndexCovers
<1>1. ASSUME Typed, Ends, Covered, NEW s \in issued \ (strayed \cup unlisted), Stored(s)
      PROVE  s \in Listed(owner[s])
  <2>1. s \in Sessions /\ Owned(s) /\ Added(s) /\ Live(s)
    BY <1>1 DEF Typed, TypeOK, Ownership, Added, Live, Dead
  <2>2. s \in index[owner[s]].ids
    BY <1>1, <2>1 DEF Covered
  <2>3. Listed(owner[s]) = index[owner[s]].ids
    BY <1>1, <2>1, ListedIs DEF Owned, Ends
  <2> QED BY <2>2, <2>3
<1>2. Typed /\ Ends /\ Covered => IndexCovers
  BY <1>1 DEF IndexCovers
<1> QED BY <1>2, AlwaysCovered, PTL

-----------------------------------------------------------------------------
(* Sessions and their tokens *)

(* A logout from all sessions that is going to delete s.                        *)
WillDrop(h, s) ==
    /\ h.pc \in JobSteps
    /\ h.job.of = "logoutAll"
    /\ h.job.user = owner[s]
    /\ h.pc = "fetching" => s \in h.ids
    /\ h.pc = "pruning" => s \in h.found
    /\ h.pc \in DropSteps => s \in Left(h)

Tokens ==
    restarts = 0 =>
        \A s \in issued :
            Live(s) => s \in csrf \/ \E p \in Procs : WillDrop(handler[p], s)

GoesDropping(p, s) == \E g : Goto(p, g) /\ WillDrop(g, s)'

LEMMA DroppingDrops ==
  ASSUME NEW p, NEW s, NEW j, NEW all, NEW todo, Goto(p, Dropping(j, all, todo)),
         j.of = "logoutAll", j.user = owner'[s], s \in todo
  PROVE  GoesDropping(p, s)
<1> PICK h : h = Dropping(j, all, todo)
  OBVIOUS
<1>1. h.pc = "dropping" /\ h.job = j /\ h.todo = todo
  BY DEF Dropping
<1>2. WillDrop(h, s)'
  BY <1>1 DEF WillDrop, JobSteps, DropSteps, Left
<1> QED BY <1>2 DEF GoesDropping

LEMMA ContinueDrops ==
  ASSUME Typed, NEW p \in Procs, NEW j \in Jobs, NEW found \in SUBSET Sessions,
         Continue(p, j, found), NEW s \in found,
         j.of \in {"revoke", "logoutAll"}, j.user = owner'[s]
  PROVE  GoesDropping(p, s)
<1>1. CASE j.of = "logoutAll"
  BY <1>1, ContinueCases, DroppingDrops DEF Typed
<1>2. CASE j.of = "revoke"
  <2>1. PICK h : h = [pc |-> "listing", job |-> [of |-> "logoutAll", user |-> j.user]]
    OBVIOUS
  <2>2. Goto(p, h)
    BY <2>1, <1>2, ContinueCases DEF Typed
  <2>3. WillDrop(h, s)'
    BY <2>1 DEF WillDrop, JobSteps, DropSteps
  <2> QED BY <2>2, <2>3 DEF GoesDropping
<1> QED BY <1>1, <1>2

(* What was listed while Redis answered includes every session there is.        *)
LEMMA WillDropStep ==
  ASSUME Typed, Ends, Covered, Onward, NEW p \in Procs, NEW s \in issued,
         WillDrop(handler[p], s), Live(s)',
         \/ \E t \in Sessions : Drop(p, t)
         \/ List(p) \/ Fetch(p) \/ Prune(p) \/ Delete(p) \/ Unlist(p)
  PROVE  GoesDropping(p, s)
<1> PICK h, j : h = handler[p] /\ j = h.job
  OBVIOUS
<1>1. s \in Sessions /\ Owned(s) /\ Added(s) /\ Live(s)
  BY DEF Typed, TypeOK, Ownership, Added, Onward, Live
<1>2. /\ h.pc \in JobSteps /\ j \in Jobs /\ j.of = "logoutAll" /\ j.user = owner[s]
      /\ owner'[s] = owner[s] /\ UserOf(j) = j.user
      /\ WillDrop(h, s) /\ h.pc \in JobSteps
  BY <1>1, HandlerFields DEF WillDrop, Typed, Onward, UserOf
<1>3. Handle(Concerned(j)) => Works
  BY <1>1, <1>2 DEF Handle, Concerned, Live, Dead
<1>4. CASE List(p)
  <2>1. Works /\ UseRedis
    BY <1>3, <1>4 DEF List, UseRedis, Works
  <2>2. s \in Listed(UserOf(j))
    BY <1>1, <1>2, ListedIs DEF Covered, Ends, Owned
  <2>3. PICK h2 : h2 = [pc |-> "fetching", job |-> j, ids |-> Listed(UserOf(j))]
    OBVIOUS
  <2>4. Goto(p, h2)
    BY <2>1, <2>2, <2>3, <1>4 DEF List
  <2>5. WillDrop(h2, s)'
    BY <2>2, <2>3, <1>2 DEF WillDrop, JobSteps, DropSteps
  <2> QED BY <2>4, <2>5 DEF GoesDropping
<1>5. CASE Fetch(p)
  <2>1. PICK ids, found : ids = h.ids /\ found = {t \in ids : Works /\ Stored(t)}
    OBVIOUS
  <2>2. Works /\ s \in found /\ h.pc = "fetching" /\ found \in SUBSET Sessions
    <3>1. h.pc = "fetching" /\ Works
      BY <1>3, <1>5 DEF Fetch
    <3>2. ids \in SUBSET Sessions
      BY <3>1, <2>1, HandlerFields DEF Typed
    <3> QED BY <3>1, <3>2, <2>1, <1>1, <1>2 DEF WillDrop, Live, Dead
  <2>3. \/ Continue(p, j, found)
        \/ Goto(p, [pc |-> "pruning", job |-> j, ids |-> ids, found |-> found])
    BY <2>1, <1>5 DEF Fetch
  <2>4. CASE Continue(p, j, found)
    BY <2>2, <2>4, <1>2, ContinueDrops
  <2>5. CASE Goto(p, [pc |-> "pruning", job |-> j, ids |-> ids, found |-> found])
    <3> PICK g : g = [pc |-> "pruning", job |-> j, ids |-> ids, found |-> found]
      OBVIOUS
    <3>1. WillDrop(g, s)'
      BY <2>2, <1>2 DEF WillDrop, JobSteps, DropSteps
    <3> QED BY <2>5, <3>1 DEF GoesDropping
  <2> QED BY <2>3, <2>4, <2>5
<1>6. CASE Prune(p)
  <2>1. h.pc = "pruning" /\ Continue(p, j, h.found) /\ h.found \in SUBSET Sessions
    BY <1>6, HandlerFields DEF Prune, Typed
  <2>2. s \in h.found
    BY <2>1, <1>2 DEF WillDrop
  <2> QED BY <2>1, <2>2, <1>2, ContinueDrops
<1>7. ASSUME NEW t \in Sessions, Drop(p, t)
      PROVE  GoesDropping(p, s)
  <2>1. h.pc = "dropping" /\ s \in h.todo /\ Handle({t})
    BY <1>2, <1>7 DEF Drop, WillDrop, DropSteps, Left
  <2>2. CASE UseRedis /\ Found(t)
    <3> PICK g : g = [pc |-> "deleting", job |-> j, all |-> h.all,
                      todo |-> h.todo \ {t}, sid |-> t]
      OBVIOUS
    <3>1. Goto(p, g)
      BY <2>2, <1>7 DEF Drop
    <3>2. WillDrop(g, s)'
      BY <2>1, <1>2 DEF WillDrop, JobSteps, DropSteps, Left
    <3> QED BY <3>1, <3>2 DEF GoesDropping
  <2>3. CASE ~(UseRedis /\ Found(t))
    <3>1. Goto(p, Dropping(j, h.all, h.todo \ {t}))
      BY <2>3, <1>7 DEF Drop
    <3>2. s # t
      BY <2>1, <2>3, <1>1 DEF Handle, UseRedis, Found, Works, Live, Dead
    <3> QED BY <2>1, <3>1, <3>2, <1>2, DroppingDrops
  <2> QED BY <2>2, <2>3
<1>8. CASE Delete(p)
  <2>1. /\ h \in [pc : {"deleting", "unlisting"}, job : Jobs,
                  all : SUBSET Sessions, todo : SUBSET Sessions, sid : Sessions]
        /\ Goto(p, [h EXCEPT !.pc = "unlisting"]) /\ h.pc = "deleting"
    BY <1>8 DEF Delete, Typed, TypeOK, Handler, Idle
  <2>2. PICK g : g = [h EXCEPT !.pc = "unlisting"]
    OBVIOUS
  <2>3. g.job = j /\ g.pc = "unlisting" /\ g.todo = h.todo
    BY <2>1, <2>2
  <2>4. s # h.sid
    <3>1. Dead(h.sid)'
      BY <2>1, <1>8, DelKeyKeepsDead DEF Delete
    <3> QED BY <3>1 DEF Live
  <2>5. WillDrop(g, s)'
    BY <2>1, <2>3, <2>4, <1>2 DEF WillDrop, JobSteps, DropSteps, Left
  <2> QED BY <2>1, <2>2, <2>5 DEF GoesDropping
<1>9. CASE Unlist(p)
  <2>1. h.pc = "unlisting" /\ Goto(p, Dropping(j, h.all, h.todo))
    BY <1>9 DEF Unlist
  <2>2. s \in h.todo
    BY <2>1, <1>2 DEF WillDrop, DropSteps, Left
  <2> QED BY <2>1, <2>2, <1>2, DroppingDrops
<1> QED BY <1>4, <1>5, <1>6, <1>7, <1>8, <1>9

LEMMA DropperGoesOn ==
  ASSUME Typed, NEW p \in Procs, NEW s, GoesDropping(p, s)
  PROVE  \E q \in Procs : WillDrop(handler[q], s)'
<1>1. PICK g : Goto(p, g) /\ WillDrop(g, s)'
  BY DEF GoesDropping
<1>2. handler'[p] = g
  BY <1>1 DEF Goto, Typed, TypeOK
<1> QED BY <1>1, <1>2 DEF WillDrop, Left

(* A logout from all sessions that will drop s goes on to do so.                *)
LEMMA DropperStays ==
  ASSUME Typed, Ends, Covered, [Next]_vars, ~Restart, NEW q \in Procs, NEW s \in issued,
         WillDrop(handler[q], s), Live(s)'
  PROVE  \E r \in Procs : WillDrop(handler[r], s)'
<1>0. Onward
  BY OnwardStep
<1>1. ASSUME handler'[q] = handler[q]
      PROVE  WillDrop(handler[q], s)'
  <2>1. owner'[s] = owner[s]
    BY <1>0 DEF Typed, TypeOK, Ownership, Onward
  <2> PICK g : g = handler[q]
    OBVIOUS
  <2>2. WillDrop(g, s)'
    BY <2>1 DEF WillDrop, Left
  <2> QED BY <1>1, <2>2 DEF WillDrop, Left
<1>2. ASSUME NEW p \in Procs, NEW h, Goto(p, h), p # q
      PROVE  WillDrop(handler[q], s)'
  <2>1. handler'[q] = handler[q]
    BY <1>2 DEF Goto, Typed, TypeOK
  <2> QED BY <2>1, <1>1
<1>3. ASSUME NEW p \in Procs, NEW t \in Sessions, Drop(p, t)
      PROVE  \E r \in Procs : WillDrop(handler[r], s)'
  <2>1. CASE p = q
    BY <2>1, <1>0, <1>3, WillDropStep, DropperGoesOn
  <2>2. CASE p # q
    BY <2>2, <1>2, <1>3 DEF Drop
  <2> QED BY <2>1, <2>2
<1>4. ASSUME NEW p \in Procs, List(p) \/ Fetch(p) \/ Prune(p) \/ Delete(p) \/ Unlist(p)
      PROVE  \E r \in Procs : WillDrop(handler[r], s)'
  <2>1. CASE p = q
    BY <2>1, <1>0, <1>4, WillDropStep, DropperGoesOn
  <2>2. CASE p # q
    <3>1. \E h : Goto(p, h)
      BY <1>4, SignInKeeps DEF SignInKept
    <3> QED BY <3>1, <2>2, <1>2
  <2> QED BY <2>1, <2>2
<1>5. ASSUME NEW p \in Procs, \E h : Goto(p, h),
             \/ handler[p].pc \notin JobSteps
             \/ handler[p].job.of # "logoutAll"
             \/ handler[p].pc = "dropping" /\ handler[p].todo = {}
      PROVE  \E r \in Procs : WillDrop(handler[r], s)'
  <2>1. p # q
    BY <1>5 DEF WillDrop, Left, DropSteps
  <2> QED BY <2>1, <1>2, <1>5
<1>6. ASSUME NEW p \in Procs, NEW t \in Sessions,
             (\E u \in Users : CreateSession(p, u, t)) \/ Logout(p, t) \/ Validate(p, t)
      PROVE  \E r \in Procs : WillDrop(handler[r], s)'
  <2>1. handler[p].pc \notin JobSteps
    BY <1>6 DEF CreateSession, Logout, Validate, JobSteps, DropSteps
  <2>2. \E h : Goto(p, h)
    BY <1>6, SignInKeeps DEF SignInKept
  <2> QED BY <2>1, <2>2, <1>5
<1>7. ASSUME NEW p \in Procs, NEW u \in Users, ListSessions(p, u)
      PROVE  \E r \in Procs : WillDrop(handler[r], s)'
  BY <1>5, <1>7 DEF ListSessions, JobSteps, DropSteps
<1>8. ASSUME NEW p \in Procs, AddToIndex(p) \/ SetIndexExpiry(p) \/ Extend(p)
      PROVE  \E r \in Procs : WillDrop(handler[r], s)'
  <2>1. handler[p].pc \notin JobSteps
    BY <1>8 DEF AddToIndex, SetIndexExpiry, Extend, JobSteps, DropSteps
  <2>2. \E h : Goto(p, h)
    BY <1>8 DEF AddToIndex, SetIndexExpiry, Extend
  <2> QED BY <2>1, <2>2, <1>5
<1>9. ASSUME NEW p \in Procs, Touch(p) \/ Renew(p)
      PROVE  \E r \in Procs : WillDrop(handler[r], s)'
  <2>1. handler[p].pc \notin JobSteps
    BY <1>9 DEF Touch, Renew, JobSteps, DropSteps
  <2>2. \E h : Goto(p, h)
    BY <1>9, SignInKeeps DEF SignInKept
  <2> QED BY <2>1, <2>2, <1>5
<1>10. ASSUME NEW p \in Procs, Issue(p) \/ EndLogout(p) \/ EndLogoutAll(p)
       PROVE  \E r \in Procs : WillDrop(handler[r], s)'
  <2>1. \/ handler[p].pc \notin JobSteps
        \/ handler[p].job.of # "logoutAll"
        \/ handler[p].pc = "dropping" /\ handler[p].todo = {}
    BY <1>10 DEF Issue, EndLogout, EndLogoutAll, JobSteps, DropSteps
  <2>2. \E h : Goto(p, h)
    BY <1>10 DEF Issue, EndLogout, EndLogoutAll
  <2> QED BY <2>1, <2>2, <1>5
<1>11. CASE Tick \/ Break \/ Notice \/ Reconnect \/ UNCHANGED vars
  BY <1>1, <1>11 DEF Tick, Break, Notice, Reconnect, Connection, vars
<1> QED BY <1>3, <1>4, <1>6, <1>7, <1>8, <1>9, <1>10, <1>11 DEF Next

(* A token is taken back from a session that is dead, or about to be dropped.   *)
LEMMA TokenStays ==
  ASSUME Typed, Ends, [Next]_vars, ~Restart, NEW s \in issued, s \in csrf, Live(s)'
  PROVE  s \in csrf' \/ \E r \in Procs : WillDrop(handler[r], s)'
<1> USE DEF history, redis, faults
<1>0. Onward
  BY OnwardStep
<1>1. s \in Sessions /\ Owned(s) /\ owner'[s] = owner[s]
  BY <1>0 DEF Typed, TypeOK, Ownership, Onward
<1>2. ASSUME NEW p \in Procs, NEW j \in Jobs, NEW found \in SUBSET Sessions,
             Continue(p, j, found), \A t \in found : owner[t] = UserOf(j)
      PROVE  s \in csrf' \/ \E r \in Procs : WillDrop(handler[r], s)'
  <2>1. CASE j.of = "revoke"
    <3>1. csrf' = csrf \ found
      BY <2>1, <1>2, ContinueCases DEF Typed
    <3>2. CASE s \in found
      <4>1. j.user = owner'[s]
        BY <3>2, <2>1, <1>1, <1>2 DEF UserOf
      <4> QED BY <4>1, <3>2, <2>1, <1>2, ContinueDrops, DropperGoesOn
    <3> QED BY <3>1, <3>2
  <2>2. CASE j.of # "revoke"
    BY <2>2, <1>2, ContinueCases DEF Typed
  <2> QED BY <2>1, <2>2
<1>3. ASSUME NEW p \in Procs, List(p) \/ Fetch(p) \/ Prune(p)
      PROVE  s \in csrf' \/ \E r \in Procs : WillDrop(handler[r], s)'
  <2> PICK h, j : h = handler[p] /\ j = h.job
    OBVIOUS
  <2>1. h.pc \in JobSteps /\ j \in Jobs /\ Knows(h)
    BY <1>3, HandlerFields DEF Typed, Ends, List, Fetch, Prune, JobSteps
  <2>2. \/ UNCHANGED csrf
        \/ \E found \in SUBSET Sessions :
              Continue(p, j, found) /\ \A t \in found : owner[t] = UserOf(j)
    <3>1. CASE List(p)
      <4>1. \/ UNCHANGED csrf \/ Continue(p, j, {}) \/ Continue(p, j, InMemory(UserOf(j)))
        BY <3>1 DEF List
      <4> QED BY <4>1 DEF InMemory
    <3>2. CASE Fetch(p)
      <4>1. PICK found : found = {t \in h.ids : Works /\ Stored(t)}
        OBVIOUS
      <4>2. UNCHANGED csrf \/ Continue(p, j, found)
        BY <4>1, <3>2 DEF Fetch
      <4>3. h.ids \in SUBSET Sessions /\ \A t \in h.ids : owner[t] = UserOf(j)
        BY <2>1, <3>2, HandlerFields DEF Typed, Fetch, Knows
      <4> QED BY <4>1, <4>2, <4>3
    <3>3. CASE Prune(p)
      <4>1. h.pc = "pruning" /\ Continue(p, j, h.found)
        BY <3>3 DEF Prune
      <4>2. h.found \in SUBSET Sessions /\ \A t \in h.found : owner[t] = UserOf(j)
        BY <2>1, <4>1, HandlerFields DEF Typed, Knows
      <4> QED BY <4>1, <4>2
    <3> QED BY <1>3, <3>1, <3>2, <3>3
  <2> QED BY <2>1, <2>2, <1>2
<1>4. ASSUME NEW p \in Procs, EndLogout(p)
      PROVE  s \in csrf'
  <2> PICK h : h = handler[p]
    OBVIOUS
  <2>1. /\ h.pc = "dropping" /\ h.job.of = "logout" /\ h.todo = {}
        /\ csrf' = csrf \ {h.job.sid} /\ Knows(h)
    BY <1>4 DEF EndLogout, Ends
  <2>2. Dead(h.job.sid)
    BY <2>1 DEF Knows, Targets, Left, DropSteps
  <2>3. ~Dead(s)
    BY <1>0, <1>1 DEF Onward, Live
  <2> QED BY <2>1, <2>2, <2>3
<1>5. ASSUME NEW p \in Procs, NEW t \in Sessions,
             \/ \E u \in Users : CreateSession(p, u, t)
             \/ Drop(p, t) \/ Logout(p, t) \/ Validate(p, t)
      PROVE  s \in csrf'
  BY <1>5 DEF CreateSession, Drop, Logout, Validate
<1>6. ASSUME NEW p \in Procs, NEW u \in Users, ListSessions(p, u)
      PROVE  s \in csrf'
  BY <1>6 DEF ListSessions
<1>7. ASSUME NEW p \in Procs,
             \/ AddToIndex(p) \/ SetIndexExpiry(p) \/ Issue(p) \/ Delete(p) \/ Unlist(p)
             \/ EndLogoutAll(p) \/ Touch(p) \/ Renew(p) \/ Extend(p)
      PROVE  s \in csrf'
  BY <1>7 DEF AddToIndex, SetIndexExpiry, Issue, Delete, Unlist, EndLogoutAll, Touch, Renew,
              Extend, Rotated
<1>8. CASE Tick \/ Break \/ Notice \/ Reconnect \/ UNCHANGED vars
  BY <1>8 DEF Tick, Break, Notice, Reconnect, Connection, vars
<1> QED BY <1>3, <1>4, <1>5, <1>6, <1>7, <1>8 DEF Next

(* A session is issued together with its token.                                 *)
LEMMA IssuedStep ==
  ASSUME [Next]_vars, NEW s \in issued', s \notin issued
  PROVE  s \in csrf'
<1> USE DEF history, redis, faults
<1>1. ASSUME NEW p \in Procs, NEW t \in Sessions,
             \/ \E u \in Users : CreateSession(p, u, t)
             \/ Drop(p, t) \/ Logout(p, t) \/ Validate(p, t)
      PROVE  FALSE
  BY <1>1 DEF CreateSession, Drop, Logout, Validate
<1>2. ASSUME NEW p \in Procs, NEW u \in Users, ListSessions(p, u)
      PROVE  FALSE
  BY <1>2 DEF ListSessions
<1>3. ASSUME NEW p \in Procs,
             \/ AddToIndex(p) \/ SetIndexExpiry(p) \/ List(p) \/ Fetch(p) \/ Prune(p)
             \/ Delete(p) \/ Unlist(p) \/ EndLogout(p) \/ EndLogoutAll(p)
             \/ Touch(p) \/ Renew(p) \/ Extend(p)
      PROVE  FALSE
  BY <1>3 DEF AddToIndex, SetIndexExpiry, List, Fetch, Prune, Delete, Unlist, EndLogout,
              EndLogoutAll, Touch, Renew, Extend
<1>4. ASSUME NEW p \in Procs, Issue(p)
      PROVE  s \in csrf'
  BY <1>4 DEF Issue
<1>5. CASE Tick \/ Break \/ Notice \/ Reconnect \/ Restart \/ UNCHANGED vars
  BY <1>5 DEF Tick, Break, Notice, Reconnect, Connection, Restart, vars
<1> QED BY <1>1, <1>2, <1>3, <1>4, <1>5 DEF Next

LEMMA RestartsStep ==
  ASSUME Typed, [Next]_vars, restarts' = 0
  PROVE  restarts = 0 /\ ~Restart
<1> USE DEF history, redis, faults
<1>0. restarts \in Nat
  BY SessionsAssumption DEF Typed, TypeOK
<1>1. ~Restart
  BY <1>0 DEF Restart
<1>2. ASSUME NEW p \in Procs, NEW t \in Sessions,
             \/ \E u \in Users : CreateSession(p, u, t)
             \/ Drop(p, t) \/ Logout(p, t) \/ Validate(p, t)
      PROVE  UNCHANGED restarts
  BY <1>2 DEF CreateSession, Drop, Logout, Validate
<1>3. ASSUME NEW p \in Procs, NEW u \in Users, ListSessions(p, u)
      PROVE  UNCHANGED restarts
  BY <1>3 DEF ListSessions
<1>4. ASSUME NEW p \in Procs,
             \/ AddToIndex(p) \/ SetIndexExpiry(p) \/ Issue(p)
             \/ List(p) \/ Fetch(p) \/ Prune(p)
             \/ Delete(p) \/ Unlist(p) \/ EndLogout(p) \/ EndLogoutAll(p)
             \/ Touch(p) \/ Renew(p) \/ Extend(p)
      PROVE  UNCHANGED restarts
  BY <1>4 DEF AddToIndex, SetIndexExpiry, Issue, List, Fetch, Prune, Delete, Unlist, EndLogout,
              EndLogoutAll, Touch, Renew, Extend
<1>5. Tick \/ Break \/ Notice \/ Reconnect \/ UNCHANGED vars => UNCHANGED restarts
  BY DEF Tick, Break, Notice, Reconnect, Connection, vars
<1> QED BY <1>1, <1>2, <1>3, <1>4, <1>5 DEF Next

LEMMA TokensStep ==
  ASSUME Typed, Ends, Covered, Tokens, [Next]_vars
  PROVE  Tokens'
<1>1. ASSUME restarts' = 0, NEW s \in issued', Live(s)'
      PROVE  s \in csrf' \/ \E r \in Procs : WillDrop(handler[r], s)'
  <2>1. CASE s \notin issued
    BY <2>1, <1>1, IssuedStep
  <2>2. CASE s \in issued
    <3>1. restarts = 0 /\ ~Restart
      BY <1>1, RestartsStep
    <3>2. Live(s)
      BY <2>2, <1>1, OnwardStep DEF Onward, Live, Typed, TypeOK, Ownership
    <3>3. s \in csrf \/ \E q \in Procs : WillDrop(handler[q], s)
      BY <2>2, <3>1, <3>2 DEF Tokens
    <3> QED BY <2>2, <3>1, <3>3, <1>1, TokenStays, DropperStays
  <2> QED BY <2>1, <2>2
<1> QED BY <1>1 DEF Tokens

LEMMA TokensInit ==
  ASSUME Init
  PROVE  Tokens
  BY DEF Init, Tokens

(* Refreshes rotate tokens, logouts take them back, and none of it leaves a     *)
(* session without one that goes on being usable: only a logout from all of the *)
(* user's sessions does so for a while, and it is about to drop that session.   *)
THEOREM TokensLast == Spec => []LiveSessionHasToken
<1>1. Init => Tokens
  BY TokensInit
<1>2. Typed /\ Ends /\ Covered /\ Tokens /\ [Next]_vars => Tokens'
  BY TokensStep
<1>3. ASSUME Typed, NEW p \in Procs, NEW s, WillDrop(handler[p], s)
      PROVE  Revoking(owner[s])
  <2> PICK h : h = handler[p]
    OBVIOUS
  <2>1. h.pc \in JobSteps /\ h.job.of = "logoutAll" /\ h.job.user = owner[s]
    BY <1>3 DEF WillDrop
  <2>2. h \in Handler \cup {Idle}
    BY <1>3 DEF Typed, TypeOK
  <2>3. h # Idle
    BY <2>1 DEF Idle, JobSteps, DropSteps
  <2>4. "job" \in DOMAIN h
    <3>1. CASE h.pc = "listing"
      BY <2>2, <3>1 DEF Handler, Idle
    <3>2. CASE h.pc = "fetching"
      BY <2>2, <3>2 DEF Handler, Idle
    <3>3. CASE h.pc = "pruning"
      BY <2>2, <3>3 DEF Handler, Idle
    <3>4. CASE h.pc = "dropping"
      BY <2>2, <3>4 DEF Handler, Idle
    <3>5. CASE h.pc \in {"deleting", "unlisting"}
      BY <2>2, <3>5 DEF Handler, Idle
    <3> QED BY <2>1, <3>1, <3>2, <3>3, <3>4, <3>5 DEF JobSteps, DropSteps
  <2> QED BY <2>1, <2>3, <2>4 DEF Revoking
<1>4. Typed /\ Tokens => LiveSessionHasToken
  BY <1>3 DEF Tokens, LiveSessionHasToken, Live, Dead
<1> QED BY <1>1, <1>2, <1>4, AlwaysCovered, PTL DEF Spec

-----------------------------------------------------------------------------
(* The limit *)

(* A sign-in that has read the index for the limit.                             *)
HasRead(h) ==
    h.pc \in {"fetching", "pruning"} \cup DropSteps /\ h.job.of = "signIn"

Alive(S) == {s \in S : Live(s)}

(* last[u]: what the last sign-in of u that counts had read.                    *)
UserWithin(last, u) ==
    /\ \A s \in issued : owner[s] = u /\ Live(s) => s \in last[u]
    /\ Cardinality(Alive(last[u])) <= MaxSessions
    /\ Alive(last[u]) \subseteq index[u].ids
    /\ \A s \in last[u] : owner[s] = u

(* What the sign-in of s has read: at least what the last that counts had read, *)
(* unless that had seen s.                                                      *)
ReadBy(s, R, last) ==
    /\ Live(s) => s \in R
    /\ Live(s) => s \in last[owner[s]] \/ Alive(last[owner[s]]) \subseteq R
    /\ Alive(R) \subseteq index[owner[s]].ids
    /\ \A t \in R : owner[t] = owner[s]

(* It drops enough of them.                                                     *)
Fits(h, R) ==
    /\ h.pc \in {"fetching", "pruning"} => Alive(R) \subseteq h.ids
    /\ h.pc \in DropSteps => Cardinality(Alive(R) \ Left(h)) <= MaxSessions

(* Of two sign-ins, one that has read R and that of s, which has read S, one    *)
(* has seen all that the other has.                                             *)
Sees(s, R, S) == Live(s) => s \in R \/ Alive(R) \subseteq S

Limit(read, last) ==
    /\ \A u \in Users : UserWithin(last, u)
    /\ \A p \in Procs : HasRead(handler[p]) =>
         /\ ReadBy(handler[p].job.sid, read[p], last)
         /\ Fits(handler[p], read[p])
         /\ \A q \in Procs :
              HasRead(handler[q]) /\ owner[handler[q].job.sid] = owner[handler[p].job.sid]
                => Sees(handler[q].job.sid, read[p], read[q])

Limited ==
    \E read \in [Procs -> SUBSET Sessions], last \in [Users -> SUBSET Sessions] :
        Limit(read, last)

LEMMA Counting ==
  ASSUME NEW S \in SUBSET Sessions, NEW T \in SUBSET S, Cardinality(S) <= MaxSessions
  PROVE  Cardinality(T) <= MaxSessions
<1>1. IsFiniteSet(S) /\ IsFiniteSet(T)
  BY SessionsAssumption, FS_Subset
<1>2. Cardinality(T) <= Cardinality(S) /\ Cardinality(S) \in Nat /\ Cardinality(T) \in Nat
  BY <1>1, FS_Subset, FS_CardinalityType
<1> QED BY <1>2, SessionsAssumption

(* What enforceMaxSessions leaves.                                              *)
LEMMA ExcessIsEnough ==
  ASSUME NEW S \in SUBSET Sessions, NEW D \in SUBSET S, Cardinality(D) = Excess(S)
  PROVE  Cardinality(S \ D) <= MaxSessions
<1>1. IsFiniteSet(S) /\ IsFiniteSet(D)
  BY SessionsAssumption, FS_Subset
<1>2. Cardinality(S \ D) = Cardinality(S) - Cardinality(S \cap D)
  BY <1>1, FS_Difference
<1>3. Cardinality(S \cap D) = Cardinality(D)
  <2>1. S \cap D = D
    OBVIOUS
  <2> QED BY <2>1
<1>4. Cardinality(S) \in Nat
  BY <1>1, FS_CardinalityType
<1> PICK n, d : n = Cardinality(S) /\ d = Cardinality(D)
  OBVIOUS
<1>5. n \in Nat /\ d = (IF n > MaxSessions THEN n - MaxSessions ELSE 0)
  BY <1>4 DEF Excess
<1>6. n - d <= MaxSessions
  BY <1>5, SessionsAssumption
<1> QED BY <1>2, <1>3, <1>6

LEMMA AliveShrinks ==
  ASSUME Typed, Onward, NEW R \in SUBSET Sessions, \A t \in R : Owned(t)
  PROVE  \A t \in R : Live(t)' => Live(t)
  BY DEF Onward, Live

LEMMA UserWithinKept ==
  ASSUME Typed, Onward, NEW u \in Users, KeepsIndex(u),
         NEW last \in [Users -> SUBSET Sessions], UserWithin(last, u),
         \A s \in issued' : s \in issued \/ ~Live(s)' \/ s \in last[owner'[s]]
  PROVE  UserWithin(last, u)'
<1>1. last[u] \in SUBSET Sessions /\ \A s \in last[u] : Owned(s)
  BY DEF UserWithin, Owned
<1>2. \A s \in last[u] : Live(s)' => Live(s)
  BY <1>1, AliveShrinks
<1>3. \A s \in issued' : owner'[s] = u /\ Live(s)' => s \in last[u]
  <2> SUFFICES ASSUME NEW s \in issued, owner'[s] = u, Live(s)'
               PROVE  s \in last[u]
    OBVIOUS
  <2>1. s \in Sessions /\ Owned(s)
    BY DEF Typed, TypeOK, Ownership
  <2> QED BY <2>1 DEF Onward, UserWithin, Live
<1>4. Cardinality({s \in last[u] : Live(s)'}) <= MaxSessions
  <2>1. {s \in last[u] : Live(s)'} \subseteq Alive(last[u])
    BY <1>2 DEF Alive
  <2>2. Alive(last[u]) \in SUBSET Sessions
    BY <1>1 DEF Alive
  <2> QED BY <2>1, <2>2, Counting DEF UserWithin
<1>5. {s \in last[u] : Live(s)'} \subseteq index'[u].ids
  BY <1>2 DEF UserWithin, Alive, KeepsIndex
<1>6. \A s \in last[u] : owner'[s] = u
  BY <1>1 DEF UserWithin, Onward
<1> QED BY <1>3, <1>4, <1>5, <1>6 DEF UserWithin, Alive

LEMMA ReadByKept ==
  ASSUME Typed, Onward, \A u \in Users : KeepsIndex(u),
         NEW last \in [Users -> SUBSET Sessions], \A u \in Users : UserWithin(last, u),
         NEW s \in Sessions, Owned(s), NEW R \in SUBSET Sessions, ReadBy(s, R, last)
  PROVE  ReadBy(s, R, last)'
<1> PICK u : u = owner[s]
  OBVIOUS
<1>1. u \in Users /\ owner'[s] = u /\ (Live(s)' => Live(s))
  BY DEF Owned, Onward, Live
<1>2. \A t \in R : Owned(t) /\ owner[t] = u /\ owner'[t] = u /\ (Live(t)' => Live(t))
  BY <1>1 DEF ReadBy, Owned, Onward, Live
<1>3. \A t \in last[u] : Live(t)' => Live(t)
  <2>1. last[u] \in SUBSET Sessions /\ \A t \in last[u] : Owned(t)
    BY <1>1 DEF UserWithin, Owned
  <2> QED BY <2>1, AliveShrinks
<1>4. {t \in R : Live(t)'} \subseteq index'[u].ids
  BY <1>1, <1>2 DEF ReadBy, Alive, KeepsIndex
<1>5. Live(s)' => s \in last[u] \/ {t \in last[u] : Live(t)'} \subseteq R
  BY <1>1, <1>3 DEF ReadBy, Alive
<1>6. Live(s)' => s \in R
  BY <1>1 DEF ReadBy
<1> QED BY <1>1, <1>2, <1>4, <1>5, <1>6 DEF ReadBy, Alive

LEMMA FitsKept ==
  ASSUME Typed, Onward, NEW g, NEW R \in SUBSET Sessions, \A t \in R : Owned(t), Fits(g, R)
  PROVE  Fits(g, R)'
<1>1. \A t \in R : Live(t)' => Live(t)
  BY AliveShrinks
<1>2. {t \in R : Live(t)'} \subseteq Alive(R) /\ Alive(R) \in SUBSET Sessions
  BY <1>1 DEF Alive
<1>3. Left(g)' = Left(g)
  BY DEF Left
<1>4. g.pc \in DropSteps => Cardinality({t \in R : Live(t)'} \ Left(g)) <= MaxSessions
  <2>1. /\ Alive(R) \ Left(g) \in SUBSET Sessions
        /\ ({t \in R : Live(t)'} \ Left(g)) \subseteq (Alive(R) \ Left(g))
    BY <1>2
  <2> QED BY <2>1, Counting DEF Fits
<1>5. g.pc \in {"fetching", "pruning"} => {t \in R : Live(t)'} \subseteq g.ids
  BY <1>2 DEF Fits
<1> QED BY <1>3, <1>4, <1>5 DEF Fits, Alive

LEMMA SeesKept ==
  ASSUME Typed, Onward, NEW s \in Sessions, Owned(s), NEW S,
         NEW R \in SUBSET Sessions, \A t \in R : Owned(t), Sees(s, R, S)
  PROVE  Sees(s, R, S)'
<1>1. \A t \in R : Live(t)' => Live(t)
  BY AliveShrinks
<1>2. Live(s)' => Live(s)
  BY DEF Onward, Live
<1> QED BY <1>1, <1>2 DEF Sees, Alive

LEMMA HasReadFields ==
  ASSUME Typed, NEW p \in Procs, HasRead(handler[p])
  PROVE  /\ handler[p].job \in Jobs /\ handler[p].job.sid \in Sessions
         /\ Owned(handler[p].job.sid) /\ UserOf(handler[p].job) = owner[handler[p].job.sid]
         /\ Added(handler[p].job.sid)
<1> PICK h : h = handler[p]
  OBVIOUS
<1>1. h.pc \in JobSteps /\ h.job.of = "signIn" /\ SidsOwned(h)
  BY DEF HasRead, JobSteps, Typed, Ownership
<1>2. h.job \in Jobs
  BY <1>1, HandlerFields DEF Typed
<1>3. Adds(h, h.job.sid)
  BY <1>1 DEF Adds
<1> QED BY <1>1, <1>2, <1>3, JobType DEF SidsOwned, UserOf, Added

(* The next step of p, if it still signs in, goes with what it has read.        *)
GoesFitting(p, R) ==
    \E g : Goto(p, g) /\ (HasRead(g) => HasRead(handler[p]) /\ g.job = handler[p].job
                                        /\ Fits(g, R)')

LEMMA DroppingFits ==
  ASSUME NEW p, NEW j, NEW all, NEW todo, NEW R, Goto(p, Dropping(j, all, todo)),
         j.of = "signIn" => HasRead(handler[p]) /\ j = handler[p].job,
         Cardinality({t \in R : Live(t)'} \ todo) <= MaxSessions
  PROVE  GoesFitting(p, R)
<1> PICK g : g = Dropping(j, all, todo)
  OBVIOUS
<1>1. g.pc = "dropping" /\ g.job = j /\ g.todo = todo
  BY DEF Dropping
<1>2. Left(g)' = todo
  BY <1>1 DEF Left
<1>3. Fits(g, R)'
  BY <1>1, <1>2 DEF Fits, Alive
<1>4. HasRead(g) => HasRead(handler[p]) /\ g.job = handler[p].job
  BY <1>1 DEF HasRead
<1> QED BY <1>3, <1>4 DEF GoesFitting

(* enforceMaxSessions drops those above the limit of what is found.             *)
LEMMA ContinueFits ==
  ASSUME Typed, NEW p \in Procs, NEW j \in Jobs, NEW found \in SUBSET Sessions,
         Continue(p, j, found), NEW R,
         j.of = "signIn" => HasRead(handler[p]) /\ j = handler[p].job,
         j.of = "signIn" => {t \in R : Live(t)'} \subseteq found
  PROVE  GoesFitting(p, R)
<1>1. CASE j.of = "signIn"
  <2>1. PICK D \in SUBSET found :
                Cardinality(D) = Excess(found) /\ Goto(p, Dropping(j, {}, D))
    BY <1>1, ContinueCases DEF Typed
  <2>2. Cardinality(found \ D) <= MaxSessions
    BY <2>1, ExcessIsEnough
  <2>3. /\ found \ D \in SUBSET Sessions
        /\ ({t \in R : Live(t)'} \ D) \in SUBSET (found \ D)
    BY <1>1
  <2>4. Cardinality({t \in R : Live(t)'} \ D) <= MaxSessions
    BY <2>2, <2>3, Counting
  <2> QED BY <2>1, <2>4, <1>1, DroppingFits
<1>2. CASE j.of # "signIn"
  <2>1. \E g : Goto(p, g) /\ ~HasRead(g)
    <3>1. CASE j.of = "revoke"
      <4>1. PICK h : h = [pc |-> "listing", job |-> [of |-> "logoutAll", user |-> j.user]]
        OBVIOUS
      <4>2. Goto(p, h) /\ ~HasRead(h)
        BY <4>1, <3>1, ContinueCases DEF Typed, HasRead, DropSteps
      <4> QED BY <4>2
    <3>2. CASE j.of = "logoutAll"
      <4>1. PICK h : h = Dropping(j, found, found)
        OBVIOUS
      <4>2. Goto(p, h) /\ ~HasRead(h)
        BY <4>1, <3>2, ContinueCases DEF Typed, HasRead, Dropping
      <4> QED BY <4>2
    <3>3. CASE j.of \in {"logout", "list"}
      <4>1. Goto(p, Idle) /\ ~HasRead(Idle)
        BY <3>3, ContinueCases DEF Typed, HasRead, Idle, DropSteps
      <4> QED BY <4>1
    <3> QED BY <1>2, <3>1, <3>2, <3>3, JobType
  <2> QED BY <2>1 DEF GoesFitting
<1> QED BY <1>1, <1>2

LEMMA FitsStep ==
  ASSUME Typed, Ends, Onward, NEW p \in Procs, NEW R \in SUBSET Sessions,
         HasRead(handler[p]), Fits(handler[p], R),
         \A t \in R : owner[t] = owner[handler[p].job.sid],
         \/ \E t \in Sessions : Drop(p, t)
         \/ Fetch(p) \/ Prune(p) \/ Delete(p) \/ Unlist(p)
  PROVE  GoesFitting(p, R)
<1> PICK h, j, s : h = handler[p] /\ j = h.job /\ s = j.sid
  OBVIOUS
<1>1. /\ j \in Jobs /\ j.of = "signIn" /\ s \in Sessions /\ Owned(s) /\ UserOf(j) = owner[s]
      /\ HasRead(h) /\ Fits(h, R)
  BY HasReadFields DEF HasRead
<1>2. \A t \in R : Owned(t) /\ owner[t] = owner[s] /\ (Live(t)' => Live(t))
  BY <1>1, AliveShrinks DEF Owned
<1>3. Fits(h, R)'
  BY <1>1, <1>2, FitsKept
<1>4. /\ h.pc \in {"fetching", "pruning"} => {t \in R : Live(t)'} \subseteq h.ids
      /\ h.pc \in DropSteps => Cardinality({t \in R : Live(t)'} \ Left(h)) <= MaxSessions
  <2>1. Left(h)' = Left(h)
    BY DEF Left
  <2> QED BY <1>3, <2>1 DEF Fits, Alive
<1>5. CASE Fetch(p)
  <2>1. PICK ids, found : ids = h.ids /\ found = {t \in ids : Works /\ Stored(t)}
    OBVIOUS
  <2>2. h.pc = "fetching" /\ ids \in SUBSET Sessions /\ found \in SUBSET Sessions
    BY <2>1, <1>5, HandlerFields DEF Fetch, Typed
  <2>3. {t \in R : Live(t)'} \subseteq found
    <3> SUFFICES ASSUME NEW t \in R, Live(t)'
                 PROVE  t \in found
      OBVIOUS
    <3>1. t \in ids /\ Live(t)
      BY <2>1, <2>2, <1>2, <1>4
    <3>2. Works
      <4>1. t \in Concerned(j)
        BY <1>1, <1>2 DEF Concerned
      <4>2. Handle(Concerned(j))
        BY <1>5 DEF Fetch
      <4> QED BY <4>1, <4>2 DEF Handle, Live, Dead
    <3> QED BY <3>1, <3>2, <2>1 DEF Live, Dead
  <2>4. \/ Continue(p, j, found)
        \/ Goto(p, [pc |-> "pruning", job |-> j, ids |-> ids, found |-> found])
    BY <2>1, <1>5 DEF Fetch
  <2>5. CASE Continue(p, j, found)
    BY <2>2, <2>3, <2>5, <1>1, ContinueFits
  <2>6. CASE Goto(p, [pc |-> "pruning", job |-> j, ids |-> ids, found |-> found])
    <3> PICK g : g = [pc |-> "pruning", job |-> j, ids |-> ids, found |-> found]
      OBVIOUS
    <3>1. {t \in R : Live(t)'} \subseteq ids
      BY <2>1, <2>3
    <3>2. Fits(g, R)'
      BY <3>1 DEF Fits, Alive, DropSteps
    <3> QED BY <2>6, <3>2, <1>1 DEF GoesFitting
  <2> QED BY <2>4, <2>5, <2>6
<1>6. CASE Prune(p)
  <2>1. h.pc = "pruning" /\ Continue(p, j, h.found) /\ h.found \in SUBSET Sessions /\ Knows(h)
    BY <1>6, HandlerFields DEF Prune, Typed, Ends
  <2>2. {t \in R : Live(t)'} \subseteq h.found
    BY <2>1, <1>2, <1>4 DEF Knows, Live
  <2> QED BY <2>1, <2>2, <1>1, ContinueFits
<1>7. ASSUME NEW t \in Sessions, Drop(p, t)
      PROVE  GoesFitting(p, R)
  <2>1. h.pc = "dropping" /\ t \in h.todo /\ Handle({t}) /\ Left(h) = h.todo
    BY <1>7 DEF Drop, Left
  <2>2. CASE UseRedis /\ Found(t)
    <3> PICK g : g = [pc |-> "deleting", job |-> j, all |-> h.all,
                      todo |-> h.todo \ {t}, sid |-> t]
      OBVIOUS
    <3>1. Goto(p, g)
      BY <2>2, <1>7 DEF Drop
    <3>2. Left(g)' = Left(h)
      BY <2>1 DEF Left
    <3>3. Fits(g, R)'
      BY <3>2, <2>1, <1>4 DEF Fits, Alive, DropSteps
    <3> QED BY <3>1, <3>3, <1>1 DEF GoesFitting
  <2>3. CASE ~(UseRedis /\ Found(t))
    <3>1. Goto(p, Dropping(j, h.all, h.todo \ {t}))
      BY <2>3, <1>7 DEF Drop
    <3>2. ~Live(t)'
      <4>1. CASE ~Works
        BY <4>1, <2>1 DEF Handle, Live, Dead
      <4>2. CASE Works
        <5>1. ~Stored(t)
          BY <4>2, <2>3 DEF Found, UseRedis, Works
        <5> QED BY <5>1, <1>7 DEF Live, Dead, Stored, Drop, redis
      <4> QED BY <4>1, <4>2
    <3>3. {u \in R : Live(u)'} \ (h.todo \ {t}) = {u \in R : Live(u)'} \ h.todo
      BY <3>2
    <3> QED BY <3>1, <3>3, <2>1, <1>1, <1>4, DroppingFits DEF DropSteps
  <2> QED BY <2>2, <2>3
<1>8. CASE Delete(p)
  <2>1. /\ h \in [pc : {"deleting", "unlisting"}, job : Jobs,
                  all : SUBSET Sessions, todo : SUBSET Sessions, sid : Sessions]
        /\ Goto(p, [h EXCEPT !.pc = "unlisting"]) /\ h.pc = "deleting"
    BY <1>8 DEF Delete, Typed, TypeOK, Handler, Idle
  <2>2. PICK g : g = [h EXCEPT !.pc = "unlisting"]
    OBVIOUS
  <2>3. g.job = j /\ g.pc = "unlisting" /\ g.todo = h.todo
    BY <2>1, <2>2
  <2>4. ~Live(h.sid)'
    <3>1. Dead(h.sid)'
      BY <2>1, <1>8, DelKeyKeepsDead DEF Delete
    <3> QED BY <3>1 DEF Live
  <2>5. Left(g)' = h.todo /\ Left(h) = h.todo \cup {h.sid}
    BY <2>1, <2>3 DEF Left
  <2>6. {u \in R : Live(u)'} \ h.todo = {u \in R : Live(u)'} \ (h.todo \cup {h.sid})
    BY <2>4
  <2>7. Fits(g, R)'
    BY <2>1, <2>3, <2>5, <2>6, <1>4 DEF Fits, Alive, DropSteps
  <2> QED BY <2>1, <2>2, <2>3, <2>7, <1>1 DEF GoesFitting
<1>9. CASE Unlist(p)
  <2>1. h.pc = "unlisting" /\ Goto(p, Dropping(j, h.all, h.todo)) /\ Left(h) = h.todo
    BY <1>9 DEF Unlist, Left
  <2> QED BY <2>1, <1>1, <1>4, DroppingFits DEF DropSteps
<1> QED BY <1>5, <1>6, <1>7, <1>8, <1>9

(* A sign-in that goes on with what it has read, and others that stay.          *)
LEMMA LimitSame ==
  ASSUME Typed, Onward, \A u \in Users : KeepsIndex(u),
         NEW read \in [Procs -> SUBSET Sessions], NEW last \in [Users -> SUBSET Sessions],
         Limit(read, last),
         \A s \in issued' : s \in issued \/ ~Live(s)' \/ s \in last[owner'[s]],
         \A p \in Procs : HasRead(handler'[p]) =>
            /\ HasRead(handler[p]) /\ handler'[p].job = handler[p].job
            /\ \E g : g = handler'[p] /\ Fits(g, read[p])'
  PROVE  Limited'
<1>1. \A u \in Users : UserWithin(last, u)'
  BY UserWithinKept DEF Limit
<1>2. ASSUME NEW p \in Procs, HasRead(handler'[p])
      PROVE  \E s, g : /\ s = handler'[p].job.sid /\ g = handler'[p]
                       /\ s = handler[p].job.sid /\ HasRead(handler[p])
                       /\ s \in Sessions /\ Owned(s) /\ owner'[s] = owner[s]
                       /\ ReadBy(s, read[p], last)' /\ Fits(g, read[p])'
                       /\ \A t \in read[p] : owner[t] = owner[s]
  <2>1. PICK s, g : s = handler[p].job.sid /\ g = handler'[p]
    OBVIOUS
  <2>2. /\ HasRead(handler[p]) /\ s = handler'[p].job.sid /\ Fits(g, read[p])'
        /\ read[p] \in SUBSET Sessions
    BY <2>1, <1>2
  <2>3. s \in Sessions /\ Owned(s) /\ owner'[s] = owner[s]
    BY <2>1, <2>2, HasReadFields DEF Onward
  <2>4. ReadBy(s, read[p], last)
    BY <2>1, <2>2 DEF Limit
  <2>5. ReadBy(s, read[p], last)'
    BY <2>2, <2>3, <2>4, ReadByKept DEF Limit
  <2>6. \A t \in read[p] : owner[t] = owner[s]
    BY <2>4 DEF ReadBy
  <2> QED BY <2>1, <2>2, <2>3, <2>5, <2>6
<1>3. ASSUME NEW p \in Procs, HasRead(handler'[p])
      PROVE  /\ ReadBy(handler[p].job.sid, read[p], last)'
             /\ Fits(handler[p], read[p])'
             /\ \A q \in Procs :
                  HasRead(handler'[q])
                  /\ owner'[handler'[q].job.sid] = owner'[handler'[p].job.sid]
                    => Sees(handler[q].job.sid, read[p], read[q])'
  <2>1. PICK s, g : /\ s = handler'[p].job.sid /\ g = handler'[p]
                    /\ s = handler[p].job.sid /\ HasRead(handler[p])
                    /\ s \in Sessions /\ Owned(s) /\ owner'[s] = owner[s]
                    /\ ReadBy(s, read[p], last)' /\ Fits(g, read[p])'
                    /\ \A t \in read[p] : owner[t] = owner[s]
    BY <1>2, <1>3
  <2>2. ASSUME NEW q \in Procs, HasRead(handler'[q]),
               owner'[handler'[q].job.sid] = owner'[s]
        PROVE  Sees(handler[q].job.sid, read[p], read[q])'
    <3>1. PICK t : /\ t = handler'[q].job.sid /\ t = handler[q].job.sid /\ HasRead(handler[q])
                   /\ t \in Sessions /\ Owned(t) /\ owner'[t] = owner[t]
      BY <1>2, <2>2
    <3>2. Sees(t, read[p], read[q])
      BY <3>1, <2>1, <2>2 DEF Limit
    <3>3. read[p] \in SUBSET Sessions /\ \A x \in read[p] : Owned(x)
      BY <2>1 DEF Owned
    <3>4. Sees(t, read[p], read[q])'
      BY <3>1, <3>2, <3>3, SeesKept
    <3> QED BY <3>1, <3>4 DEF Sees
  <2>3. ReadBy(handler[p].job.sid, read[p], last)'
    BY <2>1 DEF ReadBy
  <2>4. Fits(handler[p], read[p])'
    BY <2>1 DEF Fits, Left
  <2> QED BY <2>1, <2>2, <2>3, <2>4
<1>4. Limit(read, last)'
  BY <1>1, <1>3 DEF Limit, HasRead
<1> QED BY <1>4 DEF Limited

(* A handler that does not list for a sign-in.                                  *)
LEMMA LimitOther ==
  ASSUME Typed, Onward, \A u \in Users : KeepsIndex(u),
         NEW read \in [Procs -> SUBSET Sessions], NEW last \in [Users -> SUBSET Sessions],
         Limit(read, last),
         \A s \in issued' : s \in issued \/ ~Live(s)' \/ s \in last[owner'[s]],
         NEW p \in Procs, NEW g, Goto(p, g),
         HasRead(g) => HasRead(handler[p]) /\ g.job = handler[p].job /\ Fits(g, read[p])'
  PROVE  Limited'
<1>1. handler'[p] = g /\ \A q \in Procs : q # p => handler'[q] = handler[q]
  BY DEF Goto, Typed, TypeOK
<1>2. ASSUME NEW q \in Procs, HasRead(handler'[q])
      PROVE  /\ HasRead(handler[q]) /\ handler'[q].job = handler[q].job
             /\ \E k : k = handler'[q] /\ Fits(k, read[q])'
  <2>1. CASE q = p
    BY <2>1, <1>1, <1>2
  <2>2. CASE q # p
    <3> PICK k : k = handler[q]
      OBVIOUS
    <3>1. HasRead(handler[q]) /\ k = handler'[q]
      BY <2>2, <1>1, <1>2
    <3>2. Fits(k, read[q]) /\ read[q] \in SUBSET Sessions
      BY <3>1 DEF Limit
    <3>3. \A t \in read[q] : Owned(t)
      BY <3>1, HasReadFields DEF Limit, ReadBy, Owned
    <3>4. Fits(k, read[q])'
      BY <3>2, <3>3, FitsKept
    <3> QED BY <3>1, <3>4
  <2> QED BY <2>1, <2>2
<1> QED BY <1>2, LimitSame

LEMMA LimitRest ==
  ASSUME Typed, Onward, \A u \in Users : KeepsIndex(u), Limited,
         UNCHANGED <<handler, issued>>
  PROVE  Limited'
<1> PICK read \in [Procs -> SUBSET Sessions], last \in [Users -> SUBSET Sessions] :
      Limit(read, last)
  BY DEF Limited
<1>1. ASSUME NEW q \in Procs, HasRead(handler'[q])
      PROVE  /\ HasRead(handler[q]) /\ handler'[q].job = handler[q].job
             /\ \E k : k = handler'[q] /\ Fits(k, read[q])'
  <2> PICK k : k = handler[q]
    OBVIOUS
  <2>1. HasRead(handler[q]) /\ k = handler'[q]
    BY <1>1
  <2>2. Fits(k, read[q]) /\ read[q] \in SUBSET Sessions
    BY <2>1 DEF Limit
  <2>3. \A t \in read[q] : Owned(t)
    BY <2>1, HasReadFields DEF Limit, ReadBy, Owned
  <2>4. Fits(k, read[q])'
    BY <2>2, <2>3, FitsKept
  <2> QED BY <2>1, <2>4
<1> QED BY <1>1, LimitSame

(* A listing that Redis answers has every session of the user; one that it does *)
(* not answer is in an outage.                                                  *)
LEMMA SignInLists ==
  ASSUME Typed, Ends, Onward, NEW p \in Procs, List(p), NEW j, j = handler[p].job,
         j.of = "signIn", NEW ids, ids = IF Works THEN Listed(UserOf(j)) ELSE {}
  PROVE  \E g : Goto(p, g) /\ (HasRead(g) => g.job = j /\ Fits(g, ids)')
<1>1. j \in Jobs /\ ids \in SUBSET Sessions /\ UserOf(j) \in Users
  <2>1. handler[p].pc = "listing"
    BY DEF List
  <2>2. j \in Jobs /\ UserOf(j) \in Users
    BY <2>1, HandlerFields, UserOfJob DEF Typed, JobSteps
  <2> QED BY <2>2, ListedIs DEF Ends
<1>2. CASE UseRedis /\ ids # {}
  <2> PICK g : g = [pc |-> "fetching", job |-> j, ids |-> ids]
    OBVIOUS
  <2>1. Goto(p, g)
    BY <1>2 DEF List
  <2>2. Fits(g, ids)'
    BY DEF Fits, Alive, DropSteps
  <2> QED BY <2>1, <2>2
<1>3. CASE ~(UseRedis /\ ids # {})
  <2>1. ids = {}
    BY <1>3 DEF UseRedis, Works
  <2>2. Continue(p, j, {}) \/ Continue(p, j, InMemory(UserOf(j)))
    BY <1>3 DEF List
  <2>3. InMemory(UserOf(j)) \in SUBSET Sessions /\ {} \in SUBSET Sessions
    BY DEF InMemory
  <2>4. PICK D : Goto(p, Dropping(j, {}, D))
    BY <1>1, <2>2, <2>3, ContinueCases DEF Typed
  <2> PICK g : g = Dropping(j, {}, D)
    OBVIOUS
  <2>5. g.pc = "dropping" /\ g.job = j
    BY DEF Dropping
  <2>6. Fits(g, ids)'
    <3>1. {t \in ids : Live(t)'} \ Left(g)' = {}
      BY <2>1
    <3>2. Cardinality({t \in ids : Live(t)'} \ Left(g)') <= MaxSessions
      BY <3>1, FS_EmptySet, SessionsAssumption
    <3> QED BY <3>2, <2>5 DEF Fits, Alive
  <2> QED BY <2>4, <2>5, <2>6
<1> QED BY <1>2, <1>3

LEMMA ListLimited ==
  ASSUME Typed, Ends, Covered, Onward, \A u \in Users : KeepsIndex(u), Limited,
         NEW p \in Procs, List(p)
  PROVE  Limited'
<1> PICK read \in [Procs -> SUBSET Sessions], last \in [Users -> SUBSET Sessions] :
      Limit(read, last)
  BY DEF Limited
<1> PICK h, j : h = handler[p] /\ j = h.job
  OBVIOUS
<1>1. h.pc = "listing" /\ j \in Jobs /\ Handle(Concerned(j)) /\ UNCHANGED <<issued, index, clock>>
  BY HandlerFields DEF List, Typed, JobSteps, redis
<1>2. CASE j.of # "signIn"
  <2>1. PICK g : /\ Goto(p, g)
                 /\ g.pc \in JobSteps /\ g.job.of = "signIn" => g.job = j
    BY SignInKeeps DEF SignInKept
  <2>2. ~HasRead(g)
    BY <2>1, <1>2 DEF HasRead, JobSteps
  <2> QED BY <2>1, <2>2, <1>1, LimitOther
<1>3. CASE j.of = "signIn"
  <2> PICK s, u, ids : /\ s = j.sid /\ u = owner[s]
                       /\ ids = IF Works THEN Listed(UserOf(j)) ELSE {}
    OBVIOUS
  <2>1. /\ s \in Sessions /\ Owned(s) /\ u \in Users /\ UserOf(j) = u /\ Added(s)
        /\ owner'[s] = u
    <3>1. SidsOwned(h) /\ Adds(h, s)
      BY <1>1, <1>3 DEF Typed, Ownership, Adds, JobSteps
    <3> QED BY <3>1, <1>1, <1>3, JobType
            DEF SidsOwned, JobSteps, UserOf, Added, Owned, Onward
  <2>2. PICK g : Goto(p, g) /\ (HasRead(g) => g.job = j /\ Fits(g, ids)')
    BY <1>3, SignInLists
  <2>3. handler'[p] = g /\ \A q \in Procs : q # p => handler'[q] = handler[q]
    BY <2>2 DEF Goto, Typed, TypeOK
  <2>4. /\ index[u].ids = Listed(u) /\ IndexKept(u)
        /\ ids \in SUBSET Sessions /\ index[u].ids \in SUBSET Sessions
    BY <2>1, ListedIs DEF Ends
  <2>5. \A t \in ids : t \in index[u].ids /\ owner[t] = u /\ owner'[t] = u
    BY <2>1, <2>4 DEF IndexKept, Onward, Owned
  (* Of the sessions of u, those that live on are those that were listed.       *)
  <2>6. ASSUME NEW t \in index[u].ids, Live(t)'
        PROVE  t \in ids
    <3>1. Works
      <4>1. t \in Concerned(j)
        BY <2>1, <2>4 DEF Concerned, IndexKept
      <4> QED BY <4>1, <1>1, <2>6 DEF Handle, Live, Dead
    <3> QED BY <3>1, <2>1, <2>4
  <2>7. ASSUME NEW t \in Sessions, Added(t), owner[t] = u, Live(t)'
        PROVE  t \in ids
    <3>1. Live(t) /\ Owned(t)
      BY <2>7, AddedOwned DEF Onward, Live
    <3>2. t \in index[u].ids
      BY <3>1, <2>7 DEF Covered
    <3> QED BY <3>2, <2>6, <2>7
  <2>8. PICK read2 : read2 = [read EXCEPT ![p] = ids]
    OBVIOUS
  <2>9. /\ read2 \in [Procs -> SUBSET Sessions] /\ read2[p] = ids
        /\ \A q \in Procs : q # p => read2[q] = read[q]
    BY <2>4, <2>8
  <2>10. \A v \in Users : UserWithin(last, v) /\ UserWithin(last, v)'
    BY <1>1, UserWithinKept DEF Limit
  <2>11. ASSUME NEW q \in Procs, q # p, HasRead(handler'[q])
         PROVE  \E t, k : /\ t = handler'[q].job.sid /\ k = handler'[q]
                          /\ t = handler[q].job.sid /\ HasRead(handler[q])
                          /\ t \in Sessions /\ Owned(t) /\ Added(t) /\ owner'[t] = owner[t]
                          /\ ReadBy(t, read[q], last)' /\ Fits(k, read[q])'
                          /\ Alive(read[q]) \subseteq index[owner[t]].ids
                          /\ \A x \in read[q] : Owned(x) /\ owner[x] = owner[t]
    <3>1. PICK t, k : t = handler[q].job.sid /\ k = handler[q]
      OBVIOUS
    <3>2. /\ k = handler'[q] /\ HasRead(handler[q]) /\ t = handler'[q].job.sid
          /\ read[q] \in SUBSET Sessions
      BY <2>3, <2>11, <3>1
    <3>3. t \in Sessions /\ Owned(t) /\ Added(t) /\ owner'[t] = owner[t]
      BY <3>1, <3>2, HasReadFields DEF Onward
    <3>4. ReadBy(t, read[q], last) /\ Fits(k, read[q])
      BY <3>1, <3>2 DEF Limit
    <3>5. \A x \in read[q] : Owned(x) /\ owner[x] = owner[t]
      BY <3>3, <3>4 DEF ReadBy, Owned
    <3>6. ReadBy(t, read[q], last)' /\ Fits(k, read[q])'
      BY <2>10, <3>2, <3>3, <3>4, <3>5, ReadByKept, FitsKept
    <3> QED BY <3>1, <3>2, <3>3, <3>4, <3>5, <3>6 DEF ReadBy
  <2>12. HasRead(g) => ReadBy(s, ids, last)' /\ Fits(g, ids)' /\ s = g.job.sid
    <3>1. Live(s)' => s \in ids
      BY <2>1, <2>7
    <3>2. {t \in last[u] : Live(t)'} \subseteq ids
      <4>1. last[u] \in SUBSET Sessions /\ \A t \in last[u] : Owned(t)
        BY <2>1, <2>10 DEF UserWithin, Owned
      <4>2. \A t \in last[u] : Live(t)' => t \in index[u].ids
        BY <2>1, <2>10, <4>1, AliveShrinks DEF UserWithin, Alive
      <4> QED BY <4>2, <2>6
    <3>3. {t \in ids : Live(t)'} \subseteq index'[u].ids
      BY <2>5, <1>1
    <3>4. ReadBy(s, ids, last)'
      BY <3>1, <3>2, <3>3, <2>1, <2>5 DEF ReadBy, Alive
    <3> QED BY <3>4, <2>2
  <2>13. ASSUME NEW q \in Procs, q # p, HasRead(handler'[q]),
                owner'[handler'[q].job.sid] = u
         PROVE  \E t : /\ t = handler'[q].job.sid
                       /\ Sees(t, ids, read[q])' /\ Sees(s, read[q], ids)'
    <3>1. PICK t : /\ t = handler'[q].job.sid /\ t \in Sessions /\ Owned(t) /\ Added(t)
                   /\ owner[t] = u /\ read[q] \in SUBSET Sessions
                   /\ Alive(read[q]) \subseteq index[u].ids
                   /\ \A x \in read[q] : Owned(x)
      BY <2>11, <2>13
    <3>2. Sees(t, ids, read[q])'
      BY <3>1, <2>7 DEF Sees
    <3>3. {x \in read[q] : Live(x)'} \subseteq ids
      BY <3>1, <2>6, AliveShrinks DEF Alive
    <3>4. Sees(s, read[q], ids)'
      BY <3>3 DEF Sees, Alive
    <3> QED BY <3>1, <3>2, <3>4
  <2>14. Sees(s, ids, ids)'
    BY DEF Sees, Alive
  <2>15. ASSUME NEW q \in Procs, NEW r \in Procs, HasRead(handler'[q]), HasRead(handler'[r]),
                owner'[handler'[r].job.sid] = owner'[handler'[q].job.sid]
         PROVE  \E t : t = handler'[r].job.sid /\ Sees(t, read2[q], read2[r])'
    <3>1. CASE q = p /\ r = p
      BY <3>1, <2>3, <2>9, <2>12, <2>14, <2>15
    <3>2. CASE q = p /\ r # p
      BY <3>2, <2>1, <2>3, <2>9, <2>12, <2>13, <2>15
    <3>3. CASE q # p /\ r = p
      BY <3>3, <2>1, <2>3, <2>9, <2>12, <2>13, <2>15
    <3>4. CASE q # p /\ r # p
      <4>1. PICK t : /\ t = handler'[r].job.sid /\ t = handler[r].job.sid /\ HasRead(handler[r])
                     /\ t \in Sessions /\ Owned(t) /\ owner'[t] = owner[t]
        BY <3>4, <2>11, <2>15
      <4>2. PICK x : /\ x = handler'[q].job.sid /\ x = handler[q].job.sid /\ HasRead(handler[q])
                     /\ owner'[x] = owner[x] /\ \A y \in read[q] : Owned(y)
        BY <3>4, <2>11, <2>15
      <4>3. Sees(t, read[q], read[r]) /\ read[q] \in SUBSET Sessions
        BY <4>1, <4>2, <2>15 DEF Limit
      <4>4. Sees(t, read[q], read[r])'
        BY <4>1, <4>2, <4>3, SeesKept
      <4> QED BY <3>4, <4>1, <4>4, <2>9
    <3> QED BY <3>1, <3>2, <3>3, <3>4
  <2>16. ASSUME NEW q \in Procs, HasRead(handler'[q])
         PROVE  \E t, k : /\ t = handler'[q].job.sid /\ k = handler'[q]
                          /\ ReadBy(t, read2[q], last)' /\ Fits(k, read2[q])'
    <3>1. CASE q = p
      BY <3>1, <2>3, <2>9, <2>12, <2>16
    <3>2. CASE q # p
      BY <3>2, <2>9, <2>11, <2>16
    <3> QED BY <3>1, <3>2
  <2>17. Limit(read2, last)'
    <3>1. ASSUME NEW q \in Procs, HasRead(handler'[q])
          PROVE  ReadBy(handler[q].job.sid, read2[q], last)' /\ Fits(handler[q], read2[q])'
      <4>1. PICK t, k : /\ t = handler'[q].job.sid /\ k = handler'[q]
                        /\ ReadBy(t, read2[q], last)' /\ Fits(k, read2[q])'
        BY <3>1, <2>16
      <4>2. ReadBy(handler[q].job.sid, read2[q], last)'
        BY <4>1 DEF ReadBy
      <4>3. Fits(handler[q], read2[q])'
        BY <4>1 DEF Fits, Left
      <4> QED BY <4>2, <4>3
    <3>2. ASSUME NEW q \in Procs, NEW r \in Procs, HasRead(handler'[q]), HasRead(handler'[r]),
                 owner'[handler'[r].job.sid] = owner'[handler'[q].job.sid]
          PROVE  Sees(handler[r].job.sid, read2[q], read2[r])'
      BY <3>2, <2>15 DEF Sees
    <3> QED BY <2>10, <3>1, <3>2 DEF Limit, HasRead
  <2> QED BY <2>9, <2>17 DEF Limited
<1> QED BY <1>2, <1>3

(* A session that is issued has been seen by all the sign-ins of its user that  *)
(* have read the index after it; one that read it before is seen by this one.   *)
LEMMA IssueLimited ==
  ASSUME Typed, Ends, Onward, \A u \in Users : KeepsIndex(u), Limited,
         NEW p \in Procs, Issue(p)
  PROVE  Limited'
<1> PICK read \in [Procs -> SUBSET Sessions], last \in [Users -> SUBSET Sessions] :
      Limit(read, last)
  BY DEF Limited
<1> PICK h, s : h = handler[p] /\ s = IF h.pc = "issuing" THEN h.sid ELSE h.job.sid
  OBVIOUS
<1>1. /\ issued' = issued \cup {s} /\ Goto(p, Idle)
      /\ \/ h.pc = "issuing"
         \/ h.pc = "dropping" /\ h.job.of = "signIn" /\ h.todo = {}
      /\ UNCHANGED <<clock, keys, index, owner, strayed, unlisted>>
  BY DEF Issue, redis
<1>2. ~HasRead(Idle)
  BY DEF HasRead, Idle, DropSteps
<1>3. CASE ~Live(s)' \/ s \in last[owner'[s]]
  <2>1. \A t \in issued' : t \in issued \/ ~Live(t)' \/ t \in last[owner'[t]]
    BY <1>1, <1>3
  <2> QED BY <1>1, <1>2, <2>1, LimitOther
<1>4. CASE Live(s)' /\ s \notin last[owner'[s]]
  <2>1. Live(s)
    BY <1>1, <1>4 DEF Live, Dead, Stored
  <2>2. h.pc = "dropping" /\ HasRead(h) /\ h.todo = {} /\ s = h.job.sid /\ Left(h) = {}
    <3>1. h.pc # "issuing"
      BY <2>1 DEF Live, Dead, Ends, Knows
    <3> QED BY <3>1, <1>1 DEF HasRead, DropSteps, Left
  <2> PICK u, R : u = owner[s] /\ R = read[p]
    OBVIOUS
  <2>3. s \in Sessions /\ Owned(s) /\ u \in Users /\ R \in SUBSET Sessions
    BY <2>2, HasReadFields DEF Owned
  <2>4. ReadBy(s, R, last) /\ Fits(h, R)
    BY <2>2 DEF Limit
  <2>5. s \in R /\ Alive(last[u]) \subseteq R /\ Alive(R) \subseteq index[u].ids
        /\ \A t \in R : Owned(t) /\ owner[t] = u
    BY <1>1, <1>4, <2>1, <2>3, <2>4 DEF ReadBy, Owned
  <2>6. Cardinality(Alive(R)) <= MaxSessions
    <3>1. Alive(R) \ Left(h) = Alive(R)
      BY <2>2
    <3>2. Cardinality(Alive(R) \ Left(h)) <= MaxSessions
      BY <2>2, <2>4 DEF Fits, DropSteps
    <3> QED BY <3>1, <3>2
  <2>7. \A t : Live(t)' <=> Live(t)
    BY <1>1 DEF Live, Dead, Stored
  <2>8. PICK last2 : last2 = [last EXCEPT ![u] = R]
    OBVIOUS
  <2>9. /\ last2 \in [Users -> SUBSET Sessions] /\ last2[u] = R
        /\ \A v \in Users : v # u => last2[v] = last[v]
    BY <2>3, <2>8
  <2>10. ASSUME NEW v \in Users
         PROVE  UserWithin(last2, v)
    <3>1. CASE v = u
      <4>1. \A t \in issued : owner[t] = u /\ Live(t) => t \in R
        BY <2>3, <2>5 DEF Limit, UserWithin, Alive
      <4> QED BY <3>1, <4>1, <2>5, <2>6, <2>9 DEF UserWithin
    <3>2. CASE v # u
      BY <3>2, <2>9 DEF Limit, UserWithin
    <3> QED BY <3>1, <3>2
  <2>11. \A t \in issued' : t \in issued \/ ~Live(t)' \/ t \in last2[owner'[t]]
    BY <1>1, <2>5, <2>9
  (* As if the session had been answered for a step before.                     *)
  <2>12. ASSUME NEW q \in Procs, q # p, HasRead(handler[q])
         PROVE  ReadBy(handler[q].job.sid, read[q], last2)
    <3>1. PICK t : t = handler[q].job.sid
      OBVIOUS
    <3>2. t \in Sessions /\ Owned(t) /\ ReadBy(t, read[q], last)
      BY <3>1, <2>12, HasReadFields DEF Limit
    <3>3. CASE owner[t] = u
      <4>1. Sees(t, R, read[q])
        BY <3>1, <3>3, <2>2, <2>12 DEF Limit
      <4> QED BY <3>1, <3>2, <3>3, <4>1, <2>9 DEF ReadBy, Sees
    <3>4. CASE owner[t] # u
      BY <3>1, <3>2, <3>4, <2>9 DEF ReadBy, Owned
    <3> QED BY <3>3, <3>4
  <2>13. handler'[p] = Idle /\ \A q \in Procs : q # p => handler'[q] = handler[q]
    BY <1>1 DEF Goto, Typed, TypeOK
  <2>14. ASSUME NEW q \in Procs, HasRead(handler'[q])
         PROVE  \E t, k : /\ q # p /\ HasRead(handler[q])
                          /\ t = handler'[q].job.sid /\ t = handler[q].job.sid
                          /\ k = handler'[q] /\ k = handler[q]
                          /\ t \in Sessions /\ Owned(t) /\ owner'[t] = owner[t]
                          /\ \A x \in read[q] : Owned(x)
                          /\ ReadBy(t, read[q], last2)' /\ Fits(k, read[q])'
    <3>1. PICK t, k : t = handler[q].job.sid /\ k = handler[q]
      OBVIOUS
    <3>2. /\ q # p /\ HasRead(handler[q]) /\ t = handler'[q].job.sid /\ k = handler'[q]
          /\ read[q] \in SUBSET Sessions
      BY <3>1, <2>13, <2>14, <1>2
    <3>3. /\ t \in Sessions /\ Owned(t) /\ owner'[t] = owner[t]
          /\ ReadBy(t, read[q], last2) /\ Fits(k, read[q])
      BY <3>1, <3>2, <2>12, HasReadFields DEF Onward, Limit
    <3>4. \A x \in read[q] : Owned(x)
      BY <3>3 DEF ReadBy, Owned
    <3>5. ReadBy(t, read[q], last2)' /\ Fits(k, read[q])'
      BY <3>2, <3>3, <3>4, <2>9, <2>10, ReadByKept, FitsKept
    <3> QED BY <3>1, <3>2, <3>3, <3>4, <3>5
  <2>15. Limit(read, last2)'
    <3>1. \A v \in Users : UserWithin(last2, v)'
      BY <2>9, <2>10, <2>11, UserWithinKept
    <3>2. ASSUME NEW q \in Procs, HasRead(handler'[q])
          PROVE  ReadBy(handler[q].job.sid, read[q], last2)' /\ Fits(handler[q], read[q])'
      <4>1. PICK t, k : /\ t = handler'[q].job.sid /\ k = handler'[q]
                        /\ ReadBy(t, read[q], last2)' /\ Fits(k, read[q])'
        BY <3>2, <2>14
      <4>2. ReadBy(handler[q].job.sid, read[q], last2)'
        BY <4>1 DEF ReadBy
      <4>3. Fits(handler[q], read[q])'
        BY <4>1 DEF Fits, Left
      <4> QED BY <4>2, <4>3
    <3>3. ASSUME NEW q \in Procs, NEW r \in Procs, HasRead(handler'[q]), HasRead(handler'[r]),
                 owner'[handler'[r].job.sid] = owner'[handler'[q].job.sid]
          PROVE  Sees(handler[r].job.sid, read[q], read[r])'
      <4>1. PICK t : /\ t = handler'[r].job.sid /\ t = handler[r].job.sid /\ HasRead(handler[r])
                     /\ t \in Sessions /\ Owned(t) /\ owner'[t] = owner[t]
        BY <3>3, <2>14
      <4>2. PICK x : /\ x = handler'[q].job.sid /\ x = handler[q].job.sid /\ HasRead(handler[q])
                     /\ owner'[x] = owner[x] /\ \A y \in read[q] : Owned(y)
        BY <3>3, <2>14
      <4>3. Sees(t, read[q], read[r]) /\ read[q] \in SUBSET Sessions
        BY <4>1, <4>2, <3>3 DEF Limit
      <4>4. Sees(t, read[q], read[r])'
        BY <4>1, <4>2, <4>3, SeesKept
      <4> QED BY <4>1, <4>4 DEF Sees
    <3> QED BY <3>1, <3>2, <3>3 DEF Limit, HasRead
  <2> QED BY <2>9, <2>15 DEF Limited
<1> QED BY <1>3, <1>4

LEMMA LimitedStep ==
  ASSUME Typed, Ends, Covered, Limited, [Next]_vars
  PROVE  Limited'
<1> USE DEF history, redis, faults
<1>0. Onward /\ \A u \in Users : KeepsIndex(u)
  BY OnwardStep, IndexStep
<1> PICK read \in [Procs -> SUBSET Sessions], last \in [Users -> SUBSET Sessions] :
      Limit(read, last)
  BY DEF Limited
<1>1. ASSUME NEW p \in Procs, UNCHANGED issued, SignInKept(p),
             handler[p].pc # "listing", ~HasRead(handler[p])
      PROVE  Limited'
  <2>1. PICK g : /\ Goto(p, g)
                 /\ g.pc \in JobSteps /\ g.job.of = "signIn"
                      => handler[p].pc \in JobSteps /\ g.job = handler[p].job
    BY <1>1 DEF SignInKept
  <2>2. ~HasRead(g)
    BY <2>1, <1>1 DEF HasRead, JobSteps
  <2> QED BY <2>1, <2>2, <1>0, <1>1, LimitOther
<1>2. ASSUME NEW p \in Procs, UNCHANGED issued, HasRead(handler[p]),
             \/ \E t \in Sessions : Drop(p, t)
             \/ Fetch(p) \/ Prune(p) \/ Delete(p) \/ Unlist(p)
      PROVE  Limited'
  <2>1. /\ Fits(handler[p], read[p]) /\ read[p] \in SUBSET Sessions
        /\ \A t \in read[p] : owner[t] = owner[handler[p].job.sid]
    BY <1>2 DEF Limit, ReadBy
  <2>2. GoesFitting(p, read[p])
    BY <2>1, <1>0, <1>2, FitsStep
  <2>3. PICK g : Goto(p, g) /\ (HasRead(g) => HasRead(handler[p]) /\ g.job = handler[p].job
                                              /\ Fits(g, read[p])')
    BY <2>2 DEF GoesFitting
  <2> QED BY <2>3, <1>0, <1>2, LimitOther
<1>3. ASSUME NEW p \in Procs, NEW t \in Sessions,
             \/ \E u \in Users : CreateSession(p, u, t)
             \/ Logout(p, t) \/ Validate(p, t)
      PROVE  Limited'
  <2>1. UNCHANGED issued /\ handler[p].pc = "idle"
    BY <1>3 DEF CreateSession, Logout, Validate
  <2>2. ~HasRead(handler[p])
    BY <2>1 DEF HasRead, DropSteps
  <2> QED BY <2>1, <2>2, <1>1, <1>3, SignInKeeps
<1>4. ASSUME NEW p \in Procs, NEW u \in Users, ListSessions(p, u)
      PROVE  Limited'
  <2>1. UNCHANGED issued /\ handler[p].pc = "idle"
    BY <1>4 DEF ListSessions
  <2>2. ~HasRead(handler[p])
    BY <2>1 DEF HasRead, DropSteps
  <2> QED BY <2>1, <2>2, <1>1, <1>4, SignInKeeps
<1>5. ASSUME NEW p \in Procs,
             \/ \E t \in Sessions : Drop(p, t)
             \/ Fetch(p) \/ Prune(p) \/ Delete(p) \/ Unlist(p)
      PROVE  Limited'
  <2>1. UNCHANGED issued /\ handler[p].pc # "listing"
    BY <1>5 DEF Drop, Fetch, Prune, Delete, Unlist
  <2> QED BY <2>1, <1>1, <1>2, <1>5, SignInKeeps
<1>6. ASSUME NEW p \in Procs, EndLogout(p) \/ EndLogoutAll(p) \/ Touch(p) \/ Renew(p) \/ Extend(p)
      PROVE  Limited'
  <2>1. UNCHANGED issued /\ handler[p].pc # "listing"
        /\ ~HasRead(handler[p])
    BY <1>6 DEF EndLogout, EndLogoutAll, Touch, Renew, Extend, HasRead, DropSteps
  <2> QED BY <2>1, <1>1, <1>6, SignInKeeps
<1>7. ASSUME NEW p \in Procs, NEW g, Goto(p, g), g.pc \in {"expiring", "listing"}, UNCHANGED issued
      PROVE  Limited'
  <2>1. ~HasRead(g)
    BY <1>7 DEF HasRead, DropSteps
  <2> QED BY <2>1, <1>0, <1>7, LimitOther
<1>8. ASSUME NEW p \in Procs, AddToIndex(p) \/ SetIndexExpiry(p)
      PROVE  Limited'
  <2>1. /\ UNCHANGED issued
        /\ \/ Goto(p, [pc |-> "expiring", sid |-> handler[p].sid])
           \/ Goto(p, [pc |-> "listing", job |-> [of |-> "signIn", sid |-> handler[p].sid]])
    BY <1>8 DEF AddToIndex, SetIndexExpiry
  <2> QED BY <2>1, <1>7
<1>9. ASSUME NEW p \in Procs, List(p) \/ Issue(p)
      PROVE  Limited'
  BY <1>0, <1>9, ListLimited, IssueLimited
<1>10. CASE Restart
  <2>1. \A p \in Procs : handler'[p] = Idle
    BY <1>10 DEF Restart
  <2>2. \A p \in Procs : ~HasRead(handler'[p])
    BY <2>1 DEF HasRead, Idle, DropSteps
  <2> QED BY <2>2, <1>0, <1>10, LimitSame DEF Restart
<1>11. CASE Tick \/ Break \/ Notice \/ Reconnect \/ UNCHANGED vars
  <2>1. UNCHANGED <<handler, issued>>
    BY <1>11 DEF Tick, Break, Notice, Reconnect, Connection, vars
  <2> QED BY <2>1, <1>0, LimitRest
<1> QED BY <1>3, <1>4, <1>5, <1>6, <1>8, <1>9, <1>10, <1>11 DEF Next

LEMMA LimitedInit ==
  ASSUME Init
  PROVE  Limited
<1> PICK read, last : read = [p \in Procs |-> {}] /\ last = [u \in Users |-> {}]
  OBVIOUS
<1>1. read \in [Procs -> SUBSET Sessions] /\ last \in [Users -> SUBSET Sessions]
  OBVIOUS
<1>2. \A p \in Procs : ~HasRead(handler[p])
  BY DEF Init, HasRead, Idle, DropSteps
<1>3. \A u \in Users : UserWithin(last, u)
  <2>1. Cardinality({}) = 0
    BY FS_EmptySet
  <2>2. Alive({}) = {}
    BY DEF Alive
  <2> QED BY <2>1, <2>2, SessionsAssumption DEF Init, UserWithin
<1> QED BY <1>1, <1>2, <1>3 DEF Limited, Limit

(* However sign-ins overlap, a user is not left with more sessions than the     *)
(* limit by those that have been answered: of two that are both past the        *)
(* listing, one has seen what the other has, and has dropped down to the limit  *)
(* all that it has seen.                                                        *)
THEOREM LimitHolds == Spec => []AtMostMaxSessions
<1>1. Init => Limited
  BY LimitedInit
<1>2. Typed /\ Ends /\ Covered /\ Limited /\ [Next]_vars => Limited'
  BY LimitedStep
<1>3. ASSUME Typed, Limited, NEW u \in Users
      PROVE  Cardinality({s \in issued \ (strayed \cup unlisted) : owner[s] = u /\ Stored(s)})
                <= MaxSessions
  <2>1. PICK last \in [Users -> SUBSET Sessions] : UserWithin(last, u)
    BY <1>3 DEF Limited, Limit
  <2>2. {s \in issued \ (strayed \cup unlisted) : owner[s] = u /\ Stored(s)}
           \subseteq Alive(last[u])
    BY <2>1 DEF UserWithin, Alive, Live, Dead
  <2>3. Alive(last[u]) \in SUBSET Sessions
    BY DEF Alive
  <2> QED BY <2>1, <2>2, <2>3, Counting DEF UserWithin
<1>4. Typed /\ Limited => AtMostMaxSessions
  BY <1>3 DEF AtMostMaxSessions
<1> QED BY <1>1, <1>2, <1>4, AlwaysCovered, PTL DEF Spec
=============================================================================
