--------------------------- MODULE Notifications ---------------------------
(***************************************************************************)
(* PushNotificationService, the BullMQ queue between it and                *)
(* NotificationProcessor, and the device tokens of users at Firebase.      *)
(*                                                                         *)
(* A notification is a row first and a job second.  The worker reads the   *)
(* token of the user, hands the push to Firebase, and clears the token if  *)
(* Firebase does not know it any more; these are three calls, between      *)
(* which the user can register another one and the process can stop.       *)
(*                                                                         *)
(* BullMQ runs a job once, with the options this code leaves at their      *)
(* defaults: no retry after an error, and one more run of a job whose      *)
(* worker disappeared.                                                     *)
(***************************************************************************)
EXTENDS Integers

CONSTANTS
    Users, Tokens, Notes,
    None,           \* null
    MaxStalled,     \* maxStalledCount of BullMQ
    MaxCrashes      \* bound: how often the process stops

ASSUME NotificationsAssumption ==
    /\ MaxStalled \in Nat /\ MaxCrashes \in Nat
    /\ None \notin Users \cup Tokens

VARIABLES
    row,            \* notification.isRead: "none", "unread" or "read"
    userId,         \* of each notification
    adding,         \* notifications whose sendNotification is at queue.add
    job,            \* what the queue knows of the job of each notification
    stalled,        \* how often its worker disappeared
    worker,         \* what the worker is doing
    fcmToken,       \* of each user
    deletedUsers,
    registered,     \* Firebase: the tokens it delivers to
    pushes,         \* Firebase: how often it accepted each notification
    latest,         \* history: the token each user registered last
    raced,          \* history: users who registered it while a push to an older
                    \* one was under way
    crashes

db == <<row, userId, fcmToken, deletedUsers>>
bullmq == <<job, stalled>>
firebase == <<registered, pushes>>
history == <<latest, raced>>
vars == <<db, adding, bullmq, worker, firebase, history, crashes>>

Idle == [pc |-> "idle"]

TypeOK ==
    /\ row \in [Notes -> {"none", "unread", "read"}]
    /\ userId \in [Notes -> Users \cup {None}]
    /\ adding \subseteq Notes
    /\ job \in [Notes -> {"none", "waiting", "active", "completed", "failed"}]
    /\ stalled \in [Notes -> 0..MaxStalled]
    /\ worker \in {Idle} \cup [pc : {"finding"}, note : Notes]
                  \cup [pc : {"sending", "sent", "clearing"}, note : Notes, token : Tokens]
    /\ fcmToken \in [Users -> Tokens \cup {None}]
    /\ deletedUsers \subseteq Users
    /\ registered \subseteq Tokens
    /\ pushes \in [Notes -> Nat]
    /\ latest \in [Users -> Tokens \cup {None}]
    /\ raced \subseteq Users
    /\ crashes \in 0..MaxCrashes

Init ==
    /\ row = [n \in Notes |-> "none"]
    /\ userId = [n \in Notes |-> None]
    /\ adding = {}
    /\ job = [n \in Notes |-> "none"]
    /\ stalled = [n \in Notes |-> 0]
    /\ worker = Idle
    /\ fcmToken = [u \in Users |-> None]
    /\ deletedUsers = {}
    /\ registered = Tokens
    /\ pushes = [n \in Notes |-> 0]
    /\ latest = [u \in Users |-> None]
    /\ raced = {}
    /\ crashes = 0

-----------------------------------------------------------------------------
(* PushNotificationService *)

\* sendNotification: the row.
CreateNotification(n, u) ==
    /\ row[n] = "none"
    /\ row' = [row EXCEPT ![n] = "unread"]
    /\ userId' = [userId EXCEPT ![n] = u]
    /\ adding' = adding \cup {n}
    /\ UNCHANGED <<bullmq, worker, fcmToken, deletedUsers, firebase, history, crashes>>

\* queue.add.  If it fails, the caller is told so and the row stays.
AddJob(n) ==
    /\ n \in adding
    /\ adding' = adding \ {n}
    /\ \/ job' = [job EXCEPT ![n] = "waiting"]
       \/ UNCHANGED job
    /\ UNCHANGED <<db, stalled, worker, firebase, history, crashes>>

\* Is a push to a token of u under way that u has another one for?
Overtaken(u, t) ==
    worker.pc \in {"sending", "clearing"} /\ userId[worker.note] = u /\ worker.token # t

\* registerFcmToken: of a deleted user, too.
RegisterFcmToken(u, t) ==
    /\ t \in registered
    /\ fcmToken' = [fcmToken EXCEPT ![u] = t]
    /\ latest' = [latest EXCEPT ![u] = t]
    /\ raced' = IF Overtaken(u, t) THEN raced \cup {u} ELSE raced \ {u}
    /\ UNCHANGED <<row, userId, deletedUsers, adding, bullmq, worker, firebase, crashes>>

MarkAsRead(n, u) ==
    /\ row[n] # "none" /\ userId[n] = u
    /\ row' = [row EXCEPT ![n] = "read"]
    /\ UNCHANGED <<userId, fcmToken, deletedUsers, adding, bullmq, worker, firebase,
                   history, crashes>>

-----------------------------------------------------------------------------
(* NotificationProcessor *)

\* The worker is done with its job.
Finish(state) ==
    /\ job' = [job EXCEPT ![worker.note] = state]
    /\ worker' = Idle

\* Faulty: the job goes back to the queue, as with unlimited attempts.
AfterErrorAgain == "waiting"

\* handleSendPush throws, and the job has no further attempts.
AfterError == "failed"

TakeJob(n) ==
    /\ worker = Idle
    /\ job[n] = "waiting"
    /\ job' = [job EXCEPT ![n] = "active"]
    /\ worker' = [pc |-> "finding", note |-> n]
    /\ UNCHANGED <<db, adding, stalled, firebase, history, crashes>>

\* Faulty: that the token can be null is forgotten.
IsUser(u) == u \notin deletedUsers

\* findUnique does not see deleted users.
HasToken(u) == u \notin deletedUsers /\ fcmToken[u] # None

FindToken ==
    LET u == userId[worker.note]
    IN  /\ worker.pc = "finding"
        /\ IF HasToken(u)
           THEN /\ worker' = [pc |-> "sending", note |-> worker.note, token |-> fcmToken[u]]
                /\ UNCHANGED job
           ELSE Finish("completed")
        /\ UNCHANGED <<db, adding, stalled, firebase, history, crashes>>

\* Firebase accepts the push.
Send ==
    /\ worker.pc = "sending"
    /\ worker.token \in registered
    /\ pushes' = [pushes EXCEPT ![worker.note] = @ + 1]
    /\ worker' = [worker EXCEPT !.pc = "sent"]
    /\ UNCHANGED <<db, adding, bullmq, registered, history, crashes>>

Complete ==
    /\ worker.pc = "sent"
    /\ Finish("completed")
    /\ UNCHANGED <<db, adding, stalled, firebase, history, crashes>>

\* Faulty: every error clears the token.
ClearsAlways(code) == TRUE

\* The error after which the token is cleared.
Clears(code) == code = "registration-token-not-registered"

\* What Firebase can answer instead: it may also be out of reach.
Codes(t) == {"other"} \cup
    (IF t \in registered THEN {} ELSE {"registration-token-not-registered"})

SendFails ==
    /\ worker.pc = "sending"
    /\ \E code \in Codes(worker.token) :
          IF Clears(code)
          THEN worker' = [worker EXCEPT !.pc = "clearing"] /\ UNCHANGED job
          ELSE Finish(AfterError)
    /\ UNCHANGED <<db, adding, stalled, firebase, history, crashes>>

\* The token of the user is cleared, whichever it is by now.
ClearToken ==
    /\ worker.pc = "clearing"
    /\ fcmToken' = [fcmToken EXCEPT ![userId[worker.note]] = None]
    /\ Finish(AfterError)
    /\ UNCHANGED <<row, userId, deletedUsers, adding, stalled, firebase, history, crashes>>

\* A call to the database fails.
QueryFails ==
    /\ worker.pc \in {"finding", "clearing"}
    /\ Finish(AfterError)
    /\ UNCHANGED <<db, adding, stalled, firebase, history, crashes>>

-----------------------------------------------------------------------------
(* What happens around them *)

\* BullMQ finds an active job without a worker.
RecoverStalled(n) ==
    /\ job[n] = "active"
    /\ worker.pc # "idle" => worker.note # n
    /\ IF stalled[n] < MaxStalled
       THEN /\ job' = [job EXCEPT ![n] = "waiting"]
            /\ stalled' = [stalled EXCEPT ![n] = @ + 1]
       ELSE job' = [job EXCEPT ![n] = "failed"] /\ UNCHANGED stalled
    /\ UNCHANGED <<db, adding, worker, firebase, history, crashes>>

\* The process stops, in a request or in a job, and is started again.
Crash ==
    /\ crashes < MaxCrashes
    /\ crashes' = crashes + 1
    /\ adding' = {}
    /\ worker' = Idle
    /\ UNCHANGED <<db, bullmq, firebase, history>>

\* The app is removed from a device.
Unregister(t) ==
    /\ t \in registered
    /\ registered' = registered \ {t}
    /\ UNCHANGED <<db, adding, bullmq, worker, pushes, history, crashes>>

\* UsersService.deleteAsync
DeleteUser(u) ==
    /\ u \notin deletedUsers
    /\ deletedUsers' = deletedUsers \cup {u}
    /\ UNCHANGED <<row, userId, fcmToken, adding, bullmq, worker, firebase, history, crashes>>

Work ==
    \/ \E n \in Notes : TakeJob(n)
    \/ FindToken \/ Send \/ Complete \/ SendFails \/ ClearToken \/ QueryFails

Next ==
    \/ \E n \in Notes, u \in Users : CreateNotification(n, u) \/ MarkAsRead(n, u)
    \/ \E n \in Notes : AddJob(n) \/ RecoverStalled(n)
    \/ \E u \in Users : DeleteUser(u) \/ \E t \in Tokens : RegisterFcmToken(u, t)
    \/ \E t \in Tokens : Unregister(t)
    \/ Work
    \/ Crash

\* The worker goes on as long as there is a job, and BullMQ looks for stalled ones.
\* Nothing is assumed of the requests.
Fairness ==
    /\ WF_vars(Work)
    /\ \A n \in Notes : WF_vars(RecoverStalled(n))

Spec == Init /\ [][Next]_vars /\ Fairness

-----------------------------------------------------------------------------
(* Properties *)

\* A token that Firebase still delivers to is not lost: the user keeps the token
\* registered last, unless it was registered while a push to an older one was under
\* way, which is cleared by the answer to that push.
LatestTokenKept ==
    \A u \in Users : latest[u] \in registered /\ u \notin raced => fcmToken[u] = latest[u]

\* How far a notification has come, for PushDelivery.
Phase ==
    [n \in Notes |->
        CASE row[n] = "none"                     -> "new"
          [] row[n] # "none" /\ job[n] = "none"  -> "stored"
          [] job[n] \in {"waiting", "active"}    -> "queued"
          [] job[n] \in {"completed", "failed"}  -> "settled"]

Delivery == INSTANCE PushDelivery WITH phase <- Phase, MaxPushes <- MaxStalled + 1

\* The service and its worker do what PushDelivery promises: a push follows the row
\* and precedes the end of the job, a job is pushed once, and once more for each time
\* its worker disappeared, and every job ends.
DeliveryIsKept == Delivery!Spec
=============================================================================
