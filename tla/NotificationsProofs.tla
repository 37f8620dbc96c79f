------------------------- MODULE NotificationsProofs -------------------------
(***************************************************************************)
(* Theorems of Notifications, for any sets of users, tokens and            *)
(* notifications, any number of crashes and any maxStalledCount.           *)
(***************************************************************************)
EXTENDS Notifications, TLAPS

Workers == {Idle} \cup [pc : {"finding"}, note : Notes]
           \cup [pc : {"sending", "sent", "clearing"}, note : Notes, token : Tokens]

LEMMA WorkerFields ==
  ASSUME TypeOK
  PROVE  /\ worker \in Workers
         /\ worker.pc \in {"idle", "finding", "sending", "sent", "clearing"}
         /\ worker.pc = "idle" <=> worker = Idle
         /\ worker.pc # "idle" => worker.note \in Notes
         /\ worker.pc \in {"sending", "sent", "clearing"} => worker.token \in Tokens
  BY DEF TypeOK, Workers, Idle

\* What a worker and a job presuppose.
Consistent ==
    /\ \A n \in Notes : row[n] # "none" => userId[n] \in Users
    /\ \A n \in Notes : job[n] # "none" => row[n] # "none"
    /\ \A n \in adding : row[n] # "none" /\ job[n] = "none"
    /\ worker.pc # "idle" => job[worker.note] = "active"

\* The run of a job that can still push.
Pushing(n) ==
    \/ job[n] \in {"none", "waiting"}
    \/ worker.pc \in {"finding", "sending", "clearing"} /\ worker.note = n

\* A run of a job that is over may have pushed, and so may each one before it.
PushesCounted ==
    \A n \in Notes : /\ pushes[n] <= stalled[n] + 1
                     /\ Pushing(n) => pushes[n] <= stalled[n]

\* The worker has the latest token of its user, or the user is among the raced.
TokenInHand ==
    /\ worker.pc \in {"sending", "clearing"} =>
          LET u == userId[worker.note]
          IN  latest[u] \in registered /\ u \notin raced => worker.token = latest[u]
    /\ worker.pc = "clearing" => worker.token \notin registered

IInv == TypeOK /\ Consistent /\ PushesCounted /\ LatestTokenKept /\ TokenInHand

LEMMA InitIInv == Init => IInv
<1> SUFFICES ASSUME Init PROVE IInv
  OBVIOUS
<1> USE NotificationsAssumption DEF Init
<1>1. TypeOK
  BY DEF TypeOK, Idle
<1>2. Consistent
  BY DEF Consistent, Idle
<1>3. PushesCounted
  BY DEF PushesCounted, Pushing, Idle
<1>4. LatestTokenKept /\ TokenInHand
  BY DEF LatestTokenKept, TokenInHand, Idle
<1> QED BY <1>1, <1>2, <1>3, <1>4 DEF IInv

-----------------------------------------------------------------------------
(* Type correctness. *)

LEMMA FinishType ==
  ASSUME TypeOK, worker.pc # "idle", NEW s \in {"completed", "failed"}, Finish(s)
  PROVE  /\ job' \in [Notes -> {"none", "waiting", "active", "completed", "failed"}]
         /\ worker' = Idle
  BY WorkerFields DEF TypeOK, Finish

LEMMA TypeStep ==
  ASSUME IInv, [Next]_vars
  PROVE  TypeOK'
<1> USE NotificationsAssumption DEF IInv
<1>w. worker \in Workers
  BY WorkerFields
<1>u. TypeOK' <=>
        /\ row' \in [Notes -> {"none", "unread", "read"}]
        /\ userId' \in [Notes -> Users \cup {None}]
        /\ adding' \subseteq Notes
        /\ job' \in [Notes -> {"none", "waiting", "active", "completed", "failed"}]
        /\ stalled' \in [Notes -> 0..MaxStalled]
        /\ worker' \in Workers
        /\ fcmToken' \in [Users -> Tokens \cup {None}]
        /\ deletedUsers' \subseteq Users
        /\ registered' \subseteq Tokens
        /\ pushes' \in [Notes -> Nat]
        /\ latest' \in [Users -> Tokens \cup {None}]
        /\ raced' \subseteq Users
        /\ crashes' \in 0..MaxCrashes
  BY DEF TypeOK, Workers
<1>1. ASSUME NEW n \in Notes, NEW u \in Users, CreateNotification(n, u) PROVE TypeOK'
  BY <1>1, <1>w, <1>u DEF TypeOK, CreateNotification, bullmq, firebase, history
<1>2. ASSUME NEW n \in Notes, NEW u \in Users, MarkAsRead(n, u) PROVE TypeOK'
  BY <1>2, <1>w, <1>u DEF TypeOK, MarkAsRead, bullmq, firebase, history
<1>3. ASSUME NEW n \in Notes, AddJob(n) PROVE TypeOK'
  BY <1>3, <1>w, <1>u DEF TypeOK, AddJob, db, firebase, history
<1>4. ASSUME NEW n \in Notes, RecoverStalled(n) PROVE TypeOK'
  BY <1>4, <1>w, <1>u DEF TypeOK, RecoverStalled, db, firebase, history
<1>5. ASSUME NEW u \in Users, DeleteUser(u) PROVE TypeOK'
  BY <1>5, <1>w, <1>u DEF TypeOK, DeleteUser, bullmq, firebase, history
<1>6. ASSUME NEW u \in Users, NEW t \in Tokens, RegisterFcmToken(u, t) PROVE TypeOK'
  BY <1>6, <1>w, <1>u DEF TypeOK, RegisterFcmToken, bullmq, firebase
<1>7. ASSUME NEW t \in Tokens, Unregister(t) PROVE TypeOK'
  BY <1>7, <1>w, <1>u DEF TypeOK, Unregister, db, bullmq, history
<1>8. ASSUME NEW n \in Notes, TakeJob(n) PROVE TypeOK'
  BY <1>8, <1>w, <1>u DEF TypeOK, TakeJob, db, firebase, history, Workers
<1>9. CASE FindToken
  <2>1. userId[worker.note] \in Users
    BY <1>9, WorkerFields DEF FindToken, Consistent
  <2>2. worker' \in Workers /\ job' \in [Notes -> {"none", "waiting", "active", "completed", "failed"}]
    <3>1. CASE HasToken(userId[worker.note])
      <4>1. fcmToken[userId[worker.note]] \in Tokens /\ worker.note \in Notes
        BY <1>9, <2>1, <3>1, WorkerFields DEF TypeOK, HasToken, FindToken
      <4> QED BY <1>9, <3>1, <4>1 DEF FindToken, Workers, TypeOK
    <3>2. CASE ~HasToken(userId[worker.note])
      BY <1>9, <3>2, FinishType DEF FindToken, Workers
    <3> QED BY <3>1, <3>2
  <2> QED BY <1>9, <2>2, <1>u DEF TypeOK, FindToken, db, firebase, history
<1>10. CASE Send
  <2>1. worker' \in Workers
    BY <1>10, <1>w DEF Send, Workers, Idle
  <2>2. pushes' \in [Notes -> Nat]
    BY <1>10, WorkerFields DEF Send, TypeOK
  <2> QED BY <1>10, <2>1, <2>2, <1>u DEF TypeOK, Send, db, bullmq, history
<1>11. CASE Complete
  BY <1>11, <1>u, FinishType DEF TypeOK, Complete, db, firebase, history, Workers
<1>12. CASE SendFails
  <2>1. worker' \in Workers /\ job' \in [Notes -> {"none", "waiting", "active", "completed", "failed"}]
    <3>1. PICK code \in Codes(worker.token) :
            IF Clears(code)
            THEN worker' = [worker EXCEPT !.pc = "clearing"] /\ UNCHANGED job
            ELSE Finish(AfterError)
      BY <1>12 DEF SendFails
    <3>2. CASE Clears(code)
      <4>1. worker \in [pc : {"sending", "sent", "clearing"}, note : Notes, token : Tokens]
        BY <1>12, <1>w DEF SendFails, Workers, Idle
      <4> QED BY <3>1, <3>2, <4>1 DEF Workers, TypeOK
    <3>3. CASE ~Clears(code)
      BY <1>12, <3>1, <3>3, FinishType DEF SendFails, AfterError, Workers
    <3> QED BY <3>2, <3>3
  <2> QED BY <1>12, <2>1, <1>u DEF TypeOK, SendFails, db, firebase, history
<1>13. CASE ClearToken
  <2>1. userId[worker.note] \in Users
    BY <1>13, WorkerFields DEF ClearToken, Consistent
  <2> QED BY <1>13, <2>1, <1>u, FinishType
         DEF TypeOK, ClearToken, AfterError, firebase, history, Workers
<1>14. CASE QueryFails
  BY <1>14, <1>u, FinishType DEF TypeOK, QueryFails, AfterError, db, firebase, history, Workers
<1>15. CASE Crash
  BY <1>15, <1>u DEF TypeOK, Crash, db, bullmq, firebase, history, Workers
<1>16. CASE UNCHANGED vars
  BY <1>16, <1>w, <1>u DEF TypeOK, vars, db, bullmq, firebase, history
<1> QED BY <1>1, <1>2, <1>3, <1>4, <1>5, <1>6, <1>7, <1>8, <1>9, <1>10, <1>11, <1>12,
           <1>13, <1>14, <1>15, <1>16 DEF Next, Work

-----------------------------------------------------------------------------
(* What the worker and the queue presuppose of each other. *)

LEMMA ConsistentStep ==
  ASSUME IInv, [Next]_vars
  PROVE  Consistent'
<1> USE DEF IInv, Consistent
<1>w. /\ worker.pc = "idle" <=> worker = Idle
      /\ worker.pc # "idle" => worker.note \in Notes
  BY WorkerFields
<1>t. job \in [Notes -> {"none", "waiting", "active", "completed", "failed"}]
      /\ adding \subseteq Notes /\ Idle.pc = "idle"
  BY DEF TypeOK, Idle
<1>1. ASSUME NEW n \in Notes, NEW u \in Users, CreateNotification(n, u) PROVE Consistent'
  BY <1>1, <1>w, <1>t DEF TypeOK, CreateNotification, bullmq
<1>2. ASSUME NEW n \in Notes, NEW u \in Users, MarkAsRead(n, u) PROVE Consistent'
  BY <1>2, <1>w, <1>t DEF TypeOK, MarkAsRead, bullmq
<1>3. ASSUME NEW n \in Notes, AddJob(n) PROVE Consistent'
  BY <1>3, <1>w, <1>t DEF AddJob, db
<1>4. ASSUME NEW n \in Notes, RecoverStalled(n) PROVE Consistent'
  BY <1>4, <1>w, <1>t DEF RecoverStalled, db
<1>5. ASSUME NEW u \in Users, DeleteUser(u) PROVE Consistent'
  BY <1>5 DEF DeleteUser, bullmq
<1>6. ASSUME NEW u \in Users, NEW t \in Tokens, RegisterFcmToken(u, t) PROVE Consistent'
  BY <1>6 DEF RegisterFcmToken, bullmq
<1>7. ASSUME NEW t \in Tokens, Unregister(t) PROVE Consistent'
  BY <1>7 DEF Unregister, db, bullmq
<1>8. ASSUME NEW n \in Notes, TakeJob(n) PROVE Consistent'
  BY <1>8, <1>w, <1>t DEF TakeJob, db
<1>f. ASSUME NEW s, Finish(s), worker.pc # "idle", s # "none",
             UNCHANGED <<row, userId, adding>>
      PROVE  Consistent'
  BY <1>f, <1>w, <1>t DEF Finish
<1>9. CASE FindToken
  <2>1. CASE HasToken(userId[worker.note])
    BY <1>9, <2>1, <1>w DEF FindToken, db
  <2>2. CASE ~HasToken(userId[worker.note])
    BY <1>9, <2>2, <1>f DEF FindToken, db
  <2> QED BY <2>1, <2>2
<1>10. CASE Send
  BY <1>10, WorkerFields DEF Send, db, bullmq, Workers, Idle
<1>11. CASE Complete
  BY <1>11, <1>f DEF Complete, db
<1>12. CASE SendFails
  <2>1. CASE UNCHANGED job /\ worker' = [worker EXCEPT !.pc = "clearing"]
    BY <1>12, <2>1, WorkerFields DEF SendFails, db, Workers, Idle
  <2>2. CASE Finish(AfterError)
    BY <1>12, <2>2, <1>f DEF SendFails, AfterError, db
  <2> QED BY <1>12, <2>1, <2>2 DEF SendFails
<1>13. CASE ClearToken
  BY <1>13, <1>f DEF ClearToken, AfterError
<1>14. CASE QueryFails
  BY <1>14, <1>f DEF QueryFails, AfterError, db
<1>15. CASE Crash
  BY <1>15, <1>t DEF Crash, db, bullmq
<1>16. CASE UNCHANGED vars
  BY <1>16 DEF vars, db, bullmq
<1> QED BY <1>1, <1>2, <1>3, <1>4, <1>5, <1>6, <1>7, <1>8, <1>9, <1>10, <1>11, <1>12,
           <1>13, <1>14, <1>15, <1>16 DEF Next, Work

-----------------------------------------------------------------------------
(* A job pushes once, and once more for each time its worker disappeared. *)

LEMMA CountedStep ==
  ASSUME IInv, [Next]_vars
  PROVE  PushesCounted'
<1> USE DEF IInv, PushesCounted, Pushing
<1>w. /\ worker.pc \in {"idle", "finding", "sending", "sent", "clearing"}
      /\ worker.pc = "idle" <=> worker = Idle
      /\ worker.pc # "idle" => worker.note \in Notes /\ job[worker.note] = "active"
  BY WorkerFields DEF Consistent
<1>t. /\ job \in [Notes -> {"none", "waiting", "active", "completed", "failed"}]
      /\ stalled \in [Notes -> Nat] /\ pushes \in [Notes -> Nat] /\ Idle.pc = "idle"
      /\ \A n \in adding : n \in Notes /\ job[n] = "none"
  BY NotificationsAssumption DEF TypeOK, Idle, Consistent
<1>1. ASSUME NEW n \in Notes, NEW u \in Users, CreateNotification(n, u) PROVE PushesCounted'
  BY <1>1 DEF CreateNotification, bullmq, firebase
<1>2. ASSUME NEW n \in Notes, NEW u \in Users, MarkAsRead(n, u) PROVE PushesCounted'
  BY <1>2 DEF MarkAsRead, bullmq, firebase
<1>3. ASSUME NEW n \in Notes, AddJob(n) PROVE PushesCounted'
  BY <1>3, <1>t, <1>w DEF AddJob, firebase
<1>4. ASSUME NEW n \in Notes, RecoverStalled(n) PROVE PushesCounted'
  <2>1. stalled'[n] \in Nat /\ stalled[n] \in Nat /\ pushes[n] \in Nat
        /\ pushes' = pushes /\ worker' = worker
    BY <1>4, <1>t DEF RecoverStalled, firebase
  <2>2. pushes'[n] <= stalled'[n] + 1 /\ (Pushing(n)' => pushes'[n] <= stalled'[n])
    <3>1. CASE stalled[n] < MaxStalled
      BY <1>4, <1>t, <2>1, <3>1 DEF RecoverStalled
    <3>2. CASE ~(stalled[n] < MaxStalled)
      BY <1>4, <1>t, <1>w, <2>1, <3>2 DEF RecoverStalled
    <3> QED BY <3>1, <3>2
  <2>3. ASSUME NEW m \in Notes, m # n
        PROVE  job'[m] = job[m] /\ stalled'[m] = stalled[m]
    BY <1>4, <1>t, <2>3 DEF RecoverStalled
  <2> QED BY <2>1, <2>2, <2>3
<1>5. ASSUME NEW u \in Users, DeleteUser(u) PROVE PushesCounted'
  BY <1>5 DEF DeleteUser, bullmq, firebase
<1>6. ASSUME NEW u \in Users, NEW t \in Tokens, RegisterFcmToken(u, t) PROVE PushesCounted'
  BY <1>6 DEF RegisterFcmToken, bullmq, firebase
<1>7. ASSUME NEW t \in Tokens, Unregister(t) PROVE PushesCounted'
  BY <1>7 DEF Unregister, bullmq
<1>8. ASSUME NEW n \in Notes, TakeJob(n) PROVE PushesCounted'
  BY <1>8, <1>t, <1>w DEF TakeJob, firebase
<1>f. ASSUME NEW s \in {"completed", "failed"}, Finish(s), worker.pc # "idle",
             UNCHANGED <<stalled, pushes>>
      PROVE  PushesCounted'
  BY <1>f, <1>w, <1>t DEF Finish
<1>9. CASE FindToken
  <2>1. CASE HasToken(userId[worker.note])
    BY <1>9, <2>1, <1>w DEF FindToken, firebase
  <2>2. CASE ~HasToken(userId[worker.note])
    BY <1>9, <2>2, <1>f DEF FindToken, firebase
  <2> QED BY <2>1, <2>2
<1>10. CASE Send
  <2> DEFINE n == worker.note
  <2>1. /\ n \in Notes /\ job[n] = "active" /\ pushes[n] <= stalled[n]
        /\ pushes[n] \in Nat /\ stalled[n] \in Nat
    BY <1>10, <1>w, <1>t DEF Send
  <2>2. worker'.pc = "sent" /\ worker'.note = n
    BY <1>10, WorkerFields DEF Send, Workers, Idle
  <2>3. /\ pushes'[n] = pushes[n] + 1
        /\ \A m \in Notes \ {n} : pushes'[m] = pushes[m]
        /\ UNCHANGED <<job, stalled>>
    BY <1>10, <1>t, <2>1 DEF Send, bullmq
  <2>4. ASSUME NEW m \in Notes
        PROVE  pushes'[m] <= stalled'[m] + 1 /\ (Pushing(m)' => pushes'[m] <= stalled'[m])
    <3>1. CASE m = n
      BY <2>1, <2>2, <2>3, <3>1
    <3>2. CASE m # n
      BY <2>2, <2>3, <2>4, <3>2
    <3> QED BY <3>1, <3>2
  <2> QED BY <2>4
<1>11. CASE Complete
  BY <1>11, <1>f DEF Complete, firebase
<1>12. CASE SendFails
  <2>1. CASE UNCHANGED job /\ worker' = [worker EXCEPT !.pc = "clearing"]
    BY <1>12, <2>1, WorkerFields DEF SendFails, firebase, Workers, Idle
  <2>2. CASE Finish(AfterError)
    BY <1>12, <2>2, <1>f DEF SendFails, AfterError, firebase
  <2> QED BY <1>12, <2>1, <2>2 DEF SendFails
<1>13. CASE ClearToken
  BY <1>13, <1>f DEF ClearToken, AfterError, firebase
<1>14. CASE QueryFails
  BY <1>14, <1>f DEF QueryFails, AfterError, firebase
<1>15. CASE Crash
  BY <1>15, <1>t DEF Crash, bullmq, firebase
<1>16. CASE UNCHANGED vars
  BY <1>16 DEF vars, bullmq, firebase
<1> QED BY <1>1, <1>2, <1>3, <1>4, <1>5, <1>6, <1>7, <1>8, <1>9, <1>10, <1>11, <1>12,
           <1>13, <1>14, <1>15, <1>16 DEF Next, Work

-----------------------------------------------------------------------------
(* The token of a user is only cleared for another one that was refused. *)

LEMMA TokenStep ==
  ASSUME IInv, [Next]_vars
  PROVE  LatestTokenKept' /\ TokenInHand'
<1> USE DEF IInv, LatestTokenKept, TokenInHand
<1>w. /\ worker \in Workers
      /\ worker.pc \in {"idle", "finding", "sending", "sent", "clearing"}
      /\ worker.pc = "idle" <=> worker = Idle
      /\ worker.pc # "idle" => /\ worker.note \in Notes
                               /\ row[worker.note] # "none"
                               /\ userId[worker.note] \in Users
      /\ worker.pc \in {"sending", "sent", "clearing"} => worker.token \in Tokens
  BY WorkerFields DEF Consistent
<1>t. /\ fcmToken \in [Users -> Tokens \cup {None}] /\ latest \in [Users -> Tokens \cup {None}]
      /\ userId \in [Notes -> Users \cup {None}] /\ registered \subseteq Tokens
      /\ None \notin Tokens /\ Idle.pc = "idle"
  BY NotificationsAssumption DEF TypeOK, Idle
<1>1. ASSUME NEW n \in Notes, NEW u \in Users, CreateNotification(n, u)
      PROVE  LatestTokenKept' /\ TokenInHand'
  <2>1. worker.pc # "idle" => userId'[worker.note] = userId[worker.note]
    BY <1>1, <1>w, <1>t DEF CreateNotification
  <2> QED BY <1>1, <1>w, <2>1 DEF CreateNotification, firebase, history
<1>2. ASSUME NEW n \in Notes, NEW u \in Users, MarkAsRead(n, u)
      PROVE  LatestTokenKept' /\ TokenInHand'
  BY <1>2 DEF MarkAsRead, firebase, history
<1>3. ASSUME NEW n \in Notes, AddJob(n) PROVE LatestTokenKept' /\ TokenInHand'
  BY <1>3 DEF AddJob, db, firebase, history
<1>4. ASSUME NEW n \in Notes, RecoverStalled(n) PROVE LatestTokenKept' /\ TokenInHand'
  BY <1>4 DEF RecoverStalled, db, firebase, history
<1>5. ASSUME NEW u \in Users, DeleteUser(u) PROVE LatestTokenKept' /\ TokenInHand'
  BY <1>5 DEF DeleteUser, firebase, history
<1>6. ASSUME NEW u \in Users, NEW t \in Tokens, RegisterFcmToken(u, t)
      PROVE  LatestTokenKept' /\ TokenInHand'
  <2>1. /\ fcmToken'[u] = t /\ latest'[u] = t
        /\ \A v \in Users \ {u} : fcmToken'[v] = fcmToken[v] /\ latest'[v] = latest[v]
        /\ \A v \in Users \ {u} : v \in raced' <=> v \in raced
        /\ u \in raced' <=> Overtaken(u, t)
        /\ UNCHANGED <<registered, worker, userId>>
    BY <1>6, <1>t DEF RegisterFcmToken, firebase
  <2> QED BY <1>w, <2>1 DEF Overtaken
<1>7. ASSUME NEW t \in Tokens, Unregister(t) PROVE LatestTokenKept' /\ TokenInHand'
  BY <1>7 DEF Unregister, db, history
<1>8. ASSUME NEW n \in Notes, TakeJob(n) PROVE LatestTokenKept' /\ TokenInHand'
  BY <1>8 DEF TakeJob, db, firebase, history
<1>f. ASSUME NEW s, Finish(s), UNCHANGED <<fcmToken, latest, registered, raced>>
      PROVE  LatestTokenKept' /\ TokenInHand'
  BY <1>f, <1>t DEF Finish
<1>9. CASE FindToken
  <2>1. CASE HasToken(userId[worker.note])
    BY <1>9, <2>1, <1>w DEF FindToken, db, firebase, history
  <2>2. CASE ~HasToken(userId[worker.note])
    BY <1>9, <2>2, <1>f DEF FindToken, db, firebase, history
  <2> QED BY <2>1, <2>2
<1>10. CASE Send
  <2>1. worker'.pc = "sent"
    BY <1>10, <1>w DEF Send, Workers, Idle
  <2> QED BY <1>10, <2>1 DEF Send, db, history
<1>11. CASE Complete
  BY <1>11, <1>f DEF Complete, db, firebase, history
<1>12. CASE SendFails
  <2>1. PICK code \in Codes(worker.token) :
          IF Clears(code)
          THEN worker' = [worker EXCEPT !.pc = "clearing"] /\ UNCHANGED job
          ELSE Finish(AfterError)
    BY <1>12 DEF SendFails
  <2>2. CASE Clears(code)
    <3>1. worker.token \notin registered
      BY <2>2 DEF Clears, Codes
    <3>2. worker'.pc = "clearing" /\ worker'.note = worker.note /\ worker'.token = worker.token
      BY <1>12, <2>1, <2>2, <1>w DEF SendFails, Workers, Idle
    <3> QED BY <1>12, <3>1, <3>2 DEF SendFails, db, firebase, history
  <2>3. CASE ~Clears(code)
    BY <1>12, <2>1, <2>3, <1>f DEF SendFails, db, firebase, history
  <2> QED BY <2>2, <2>3
<1>13. CASE ClearToken
  <2> DEFINE u == userId[worker.note]
  <2>1. u \in Users /\ ~(latest[u] \in registered /\ u \notin raced)
    BY <1>13, <1>w DEF ClearToken
  <2>2. \A v \in Users \ {u} : fcmToken'[v] = fcmToken[v]
    BY <1>13, <1>t DEF ClearToken
  <2>3. UNCHANGED <<latest, registered, raced>> /\ worker' = Idle
    BY <1>13 DEF ClearToken, Finish, firebase, history
  <2> QED BY <2>1, <2>2, <2>3, <1>t
<1>14. CASE QueryFails
  BY <1>14, <1>f DEF QueryFails, db, firebase, history
<1>15. CASE Crash
  BY <1>15, <1>t DEF Crash, db, firebase, history
<1>16. CASE UNCHANGED vars
  BY <1>16 DEF vars, db, firebase, history
<1> QED BY <1>1, <1>2, <1>3, <1>4, <1>5, <1>6, <1>7, <1>8, <1>9, <1>10, <1>11, <1>12,
           <1>13, <1>14, <1>15, <1>16 DEF Next, Work

LEMMA Inductive == Spec => []IInv
<1>1. IInv /\ [Next]_vars => IInv'
  BY TypeStep, ConsistentStep, CountedStep, TokenStep DEF IInv
<1> QED BY InitIInv, <1>1, PTL DEF Spec

\* Types are kept: the worker, above all, never sends a push to the token null.
THEOREM TypeCorrect == Spec => []TypeOK
<1>1. IInv => TypeOK
  BY DEF IInv
<1> QED BY <1>1, Inductive, PTL

\* A user keeps the device token registered last as long as Firebase delivers to it,
\* unless it was registered while a push to an older one was under way: the worker
\* clears a token only in answer to that token.
THEOREM LatestTokenIsKept == Spec => []LatestTokenKept
<1>1. IInv => LatestTokenKept
  BY DEF IInv
<1> QED BY <1>1, Inductive, PTL

-----------------------------------------------------------------------------
(* Notifications implements the safety part of PushDelivery. *)

PhaseOf(r, j) ==
    CASE r = "none"                   -> "new"
      [] r # "none" /\ j = "none"     -> "stored"
      [] j \in {"waiting", "active"}   -> "queued"
      [] j \in {"completed", "failed"} -> "settled"

\* A step that moves the phase of at most one notification, and pushes nothing.
LEMMA PhaseMoves ==
  ASSUME IInv, IInv', NEW n \in Notes, UNCHANGED pushes,
         \A m \in Notes \ {n} : row'[m] = row[m] /\ job'[m] = job[m],
         \/ Phase'[n] = Phase[n]
         \/ Phase[n] = "new" /\ Phase'[n] = "stored"
         \/ Phase[n] = "stored" /\ Phase'[n] = "queued"
         \/ Phase[n] = "queued" /\ Phase'[n] = "settled"
  PROVE  [Delivery!Next]_(Delivery!vars)
<1> DEFINE F(r, j) == [m \in Notes |-> PhaseOf(r[m], j[m])]
<1>1. Phase = F(row, job) /\ Phase' = F(row', job')
  BY DEF Phase, PhaseOf
<1>2. \A m \in Notes : /\ Phase[m] = PhaseOf(row[m], job[m])
                      /\ Phase'[m] = PhaseOf(row'[m], job'[m])
  BY <1>1
<1>3. \A m \in Notes \ {n} : Phase'[m] = Phase[m]
  BY <1>2
<1>d. /\ Phase = [m \in Notes |-> Phase[m]]
      /\ Phase' = [m \in Notes |-> Phase'[m]]
  BY <1>1
<1> HIDE DEF F
<1>4. Phase' = [Phase EXCEPT ![n] = Phase'[n]]
  BY <1>3, <1>d
<1>5. Phase'[n] = Phase[n] => Phase' = Phase
  BY <1>3, <1>d
<1> QED BY <1>4, <1>5
      DEF Delivery!Next, Delivery!vars, Delivery!Store, Delivery!Enqueue,
          Delivery!Settle, Delivery!Move

LEMMA DeliveryStep ==
  ASSUME IInv, IInv', [Next]_vars
  PROVE  [Delivery!Next]_(Delivery!vars)
<1> DEFINE Goal == [Delivery!Next]_(Delivery!vars)
<1>t. /\ job \in [Notes -> {"none", "waiting", "active", "completed", "failed"}]
      /\ row \in [Notes -> {"none", "unread", "read"}]
      /\ \A n \in Notes : job[n] # "none" => row[n] # "none"
      /\ adding \subseteq Notes
  BY DEF IInv, TypeOK, Consistent
<1>w. worker.pc # "idle" => worker.note \in Notes /\ job[worker.note] = "active"
  BY WorkerFields DEF IInv, Consistent
<1>p. ASSUME NEW n \in Notes
      PROVE  Phase[n] = PhaseOf(row[n], job[n]) /\ Phase'[n] = PhaseOf(row'[n], job'[n])
  BY DEF Phase, PhaseOf
<1>s. ASSUME UNCHANGED <<row, job, pushes>> PROVE Goal
  BY <1>s DEF Phase, Delivery!vars
<1>f. ASSUME NEW s \in {"completed", "failed"}, Finish(s), worker.pc # "idle",
             UNCHANGED <<row, pushes>>
      PROVE  Goal
  <2> DEFINE n == worker.note
  <2>1. n \in Notes /\ job[n] = "active" /\ job'[n] = s /\ row'[n] = row[n] /\ row[n] # "none"
    BY <1>f, <1>w, <1>t DEF Finish
  <2>2. \A m \in Notes \ {n} : row'[m] = row[m] /\ job'[m] = job[m]
    BY <1>f, <1>t, <2>1 DEF Finish
  <2>3. Phase[n] = "queued" /\ Phase'[n] = "settled"
    BY <2>1, <1>p DEF PhaseOf
  <2> HIDE DEF n
  <2> QED BY <1>f, <2>1, <2>2, <2>3, PhaseMoves
<1>1. ASSUME NEW n \in Notes, NEW u \in Users, CreateNotification(n, u) PROVE Goal
  <2>1. /\ row[n] = "none" /\ row'[n] = "unread" /\ job[n] = "none"
        /\ UNCHANGED <<job, pushes>>
        /\ \A m \in Notes \ {n} : row'[m] = row[m]
    BY <1>1, <1>t DEF CreateNotification, bullmq, firebase
  <2>2. Phase[n] = "new" /\ Phase'[n] = "stored"
    BY <2>1, <1>p DEF PhaseOf
  <2> QED BY <2>1, <2>2, PhaseMoves
<1>2. ASSUME NEW n \in Notes, NEW u \in Users, MarkAsRead(n, u) PROVE Goal
  <2>1. /\ row[n] # "none" /\ row'[n] # "none" /\ UNCHANGED <<job, pushes>>
        /\ \A m \in Notes \ {n} : row'[m] = row[m]
    BY <1>2, <1>t DEF MarkAsRead, bullmq, firebase
  <2>2. Phase'[n] = Phase[n]
    BY <2>1, <1>p, <1>t DEF PhaseOf
  <2> QED BY <2>1, <2>2, PhaseMoves
<1>3. ASSUME NEW n \in Notes, AddJob(n) PROVE Goal
  <2>1. CASE UNCHANGED job
    BY <1>3, <2>1, <1>s DEF AddJob, db, firebase
  <2>2. CASE job' = [job EXCEPT ![n] = "waiting"]
    <3>1. /\ row[n] # "none" /\ job[n] = "none" /\ job'[n] = "waiting"
          /\ UNCHANGED <<row, pushes>>
          /\ \A m \in Notes \ {n} : job'[m] = job[m]
      BY <1>3, <2>2, <1>t DEF AddJob, db, firebase, IInv, Consistent
    <3>2. Phase[n] = "stored" /\ Phase'[n] = "queued"
      BY <3>1, <1>p DEF PhaseOf
    <3> QED BY <3>1, <3>2, PhaseMoves
  <2> QED BY <1>3, <2>1, <2>2 DEF AddJob
<1>4. ASSUME NEW n \in Notes, RecoverStalled(n) PROVE Goal
  <2>1. /\ job[n] = "active" /\ row[n] # "none" /\ job'[n] \in {"waiting", "failed"}
        /\ UNCHANGED <<row, pushes>>
        /\ \A m \in Notes \ {n} : job'[m] = job[m]
    BY <1>4, <1>t DEF RecoverStalled, db, firebase
  <2>2. Phase[n] = "queued" /\ Phase'[n] \in {"queued", "settled"}
    BY <2>1, <1>p DEF PhaseOf
  <2> QED BY <2>1, <2>2, PhaseMoves
<1>5. ASSUME NEW u \in Users, DeleteUser(u) PROVE Goal
  BY <1>5, <1>s DEF DeleteUser, bullmq, firebase
<1>6. ASSUME NEW u \in Users, NEW t \in Tokens, RegisterFcmToken(u, t) PROVE Goal
  BY <1>6, <1>s DEF RegisterFcmToken, bullmq, firebase
<1>7. ASSUME NEW t \in Tokens, Unregister(t) PROVE Goal
  BY <1>7, <1>s DEF Unregister, db, bullmq
<1>8. ASSUME NEW n \in Notes, TakeJob(n) PROVE Goal
  <2>1. /\ job[n] = "waiting" /\ row[n] # "none" /\ job'[n] = "active"
        /\ UNCHANGED <<row, pushes>>
        /\ \A m \in Notes \ {n} : job'[m] = job[m]
    BY <1>8, <1>t DEF TakeJob, db, firebase
  <2>2. Phase'[n] = Phase[n]
    BY <2>1, <1>p DEF PhaseOf
  <2> QED BY <2>1, <2>2, PhaseMoves
<1>9. CASE FindToken
  <2>1. CASE HasToken(userId[worker.note])
    BY <1>9, <2>1, <1>s DEF FindToken, db, firebase
  <2>2. CASE ~HasToken(userId[worker.note])
    BY <1>9, <2>2, <1>f DEF FindToken, db, firebase
  <2> QED BY <2>1, <2>2
<1>10. CASE Send
  <2> DEFINE n == worker.note
  <2>1. n \in Notes /\ job[n] = "active" /\ row[n] # "none" /\ pushes[n] <= stalled[n]
    BY <1>10, <1>w, <1>t DEF Send, IInv, PushesCounted, Pushing
  <2>2. Phase[n] = "queued"
    BY <2>1, <1>p DEF PhaseOf
  <2>3. pushes[n] < MaxStalled + 1
    BY <2>1, NotificationsAssumption DEF IInv, TypeOK
  <2>4. Phase' = Phase /\ pushes' = [pushes EXCEPT ![n] = @ + 1]
    BY <1>10 DEF Send, Phase, db, bullmq
  <2> QED BY <2>1, <2>2, <2>3, <2>4 DEF Delivery!Next, Delivery!Push
<1>11. CASE Complete
  BY <1>11, <1>f DEF Complete, db, firebase
<1>12. CASE SendFails
  <2>1. CASE UNCHANGED job
    BY <1>12, <2>1, <1>s DEF SendFails, db, firebase
  <2>2. CASE Finish(AfterError)
    BY <1>12, <2>2, <1>f DEF SendFails, AfterError, db, firebase
  <2> QED BY <1>12, <2>1, <2>2 DEF SendFails
<1>13. CASE ClearToken
  BY <1>13, <1>f DEF ClearToken, AfterError, firebase
<1>14. CASE QueryFails
  BY <1>14, <1>f DEF QueryFails, AfterError, db, firebase
<1>15. CASE Crash
  BY <1>15, <1>s DEF Crash, db, bullmq, firebase
<1>16. CASE UNCHANGED vars
  BY <1>16, <1>s DEF vars, db, bullmq, firebase
<1> QED BY <1>1, <1>2, <1>3, <1>4, <1>5, <1>6, <1>7, <1>8, <1>9, <1>10, <1>11, <1>12,
           <1>13, <1>14, <1>15, <1>16 DEF Next, Work

\* The service, the queue and the worker implement the safety part of PushDelivery:
\* rows come first, pushes lie between the row and the end of the job, and there is
\* at most one more of them than maxStalledCount allows runs to disappear.
THEOREM DeliveryIsSafe == Spec => Delivery!Safe
<1>1. Init => Delivery!Init
  BY DEF Init, Delivery!Init, Phase
<1>2. IInv /\ IInv' /\ [Next]_vars => [Delivery!Next]_(Delivery!vars)
  BY DeliveryStep
<1> QED BY <1>1, <1>2, Inductive, PTL DEF Spec, Delivery!Safe
=============================================================================
