------------------------- MODULE OrganisationProofs -------------------------
(***************************************************************************)
(* Theorems of Organisation, for any names, salaries, ranges and handlers, *)
(* and any number of requests.                                             *)
(***************************************************************************)
EXTENDS OrganisationReports, SumTheorems

(* Tables: rows are appended and replaced *)

LEMMA Appended ==
  ASSUME NEW S, NEW s \in Seq(S), NEW x \in S
  PROVE  /\ Append(s, x) \in Seq(S)
         /\ Len(s) \in Nat
         /\ DOMAIN s = 1..Len(s)
         /\ DOMAIN Append(s, x) = 1..(Len(s) + 1)
         /\ DOMAIN s \subseteq DOMAIN Append(s, x)
         /\ Len(s) + 1 \in DOMAIN Append(s, x) /\ Len(s) + 1 \notin DOMAIN s
         /\ \A i \in DOMAIN s : Append(s, x)[i] = s[i]
         /\ Append(s, x)[Len(s) + 1] = x
  OBVIOUS

LEMMA Replaced ==
  ASSUME NEW S, NEW s \in Seq(S), NEW i \in DOMAIN s, NEW x \in S
  PROVE  /\ [s EXCEPT ![i] = x] \in Seq(S)
         /\ DOMAIN [s EXCEPT ![i] = x] = DOMAIN s
         /\ \A j \in DOMAIN s : [s EXCEPT ![i] = x][j] = IF j = i THEN x ELSE s[j]
  OBVIOUS

LEMMA Row ==
  ASSUME NEW S, NEW s \in Seq(S), NEW i \in DOMAIN s
  PROVE  s[i] \in S
  OBVIOUS

(* A table of rows is one of the rows that a larger set holds. *)
LEMMA Wider ==
  ASSUME NEW S, NEW T, S \subseteq T, NEW s \in Seq(S)
  PROVE  s \in Seq(T)
  OBVIOUS

(***************************************************************************)
(* Handlers                                                                *)
(***************************************************************************)

(* Rows are never removed, so that what a handler refers to stays. *)
Longer ==
    /\ DOMAIN users \subseteq DOMAIN users' /\ DOMAIN roles \subseteq DOMAIN roles'
    /\ DOMAIN positions \subseteq DOMAIN positions'
    /\ DOMAIN departments \subseteq DOMAIN departments'
    /\ DOMAIN employees \subseteq DOMAIN employees'

LEMMA HandlersLast ==
  ASSUME Longer, NEW h \in Handler
  PROVE  h \in Handler'
<1> USE DEF Longer, OrNone
<1>1. CASE h \in [pc : {"addRole", "checkUser"}, login : Logins, name : RoleNames,
                  role : OrNone(DOMAIN roles)]
  BY <1>1 DEF Handler
<1>2. CASE h \in [pc : {"addUser"}, login : Logins, role : DOMAIN roles]
  BY <1>2 DEF Handler
<1>3. CASE h \in [pc : {"saveUser"}, user : DOMAIN users, login : OrNone(Logins),
                  names : OrNone(RoleLists)]
  BY <1>3 DEF Handler
<1>4. CASE h \in [pc : {"addNamedRole"}, name : RoleNames]
  BY <1>4 DEF Handler
<1>5. CASE h \in [pc : {"renameRole"}, role : DOMAIN roles, name : RoleNames]
  BY <1>5 DEF Handler
<1>6. CASE h \in [pc : {"addPosition"}, title : Titles, range : Ranges]
  BY <1>6 DEF Handler
<1>7. CASE h \in [pc : {"savePosition"}, position : DOMAIN positions, title : OrNone(Titles),
                  range : OrNone(Ranges)]
  BY <1>7 DEF Handler
<1>8. CASE h \in [pc : {"addDepartment"}, name : DepartmentNames]
  BY <1>8 DEF Handler
<1>9. CASE h \in [pc : {"addEmployee"}, login : Logins, role : DOMAIN roles,
                  position : DOMAIN positions, department : DOMAIN departments,
                  salary : OrNone(Salaries)]
  BY <1>9 DEF Handler
<1>10. CASE h \in [pc : {"saveEmployee"}, employee : DOMAIN employees,
                   position : OrNone(DOMAIN positions),
                   department : OrNone(DOMAIN departments), salary : OrNone(Salaries)]
  BY <1>10 DEF Handler
<1>11. CASE h \in [pc : {"saveFile", "deleteFile", "clearImage"}, user : DOMAIN users,
                   old : OrNone(Nat)]
  BY <1>11 DEF Handler
<1>12. CASE h \in [pc : {"setImage"}, user : DOMAIN users, old : OrNone(Nat), new : Nat]
  BY <1>12 DEF Handler
<1>13. CASE h \in [pc : {"setProfile"}, user : DOMAIN users, new : OrNone(Nat)]
  BY <1>13 DEF Handler
<1>14. CASE h \in [pc : {"addCurrency", "addSettings"}, code : Codes,
                   for : {"currency", "settings"}]
  BY <1>14 DEF Handler
<1> QED
  BY <1>1, <1>2, <1>3, <1>4, <1>5, <1>6, <1>7, <1>8, <1>9, <1>10, <1>11, <1>12, <1>13, <1>14
     DEF Handler

(* What a handler knows, by what it does next *)
LEMMA HandlerFields ==
  ASSUME NEW h \in Handler
  PROVE  /\ h.pc \in {"addRole", "checkUser"} =>
               h \in [pc : {"addRole", "checkUser"}, login : Logins, name : RoleNames,
                      role : OrNone(DOMAIN roles)]
         /\ h.pc = "addUser" =>
               h \in [pc : {"addUser"}, login : Logins, role : DOMAIN roles]
         /\ h.pc = "saveUser" =>
               h \in [pc : {"saveUser"}, user : DOMAIN users, login : OrNone(Logins),
                      names : OrNone(RoleLists)]
         /\ h.pc = "addNamedRole" => h \in [pc : {"addNamedRole"}, name : RoleNames]
         /\ h.pc = "renameRole" =>
               h \in [pc : {"renameRole"}, role : DOMAIN roles, name : RoleNames]
         /\ h.pc = "addPosition" =>
               h \in [pc : {"addPosition"}, title : Titles, range : Ranges]
         /\ h.pc = "savePosition" =>
               h \in [pc : {"savePosition"}, position : DOMAIN positions,
                      title : OrNone(Titles), range : OrNone(Ranges)]
         /\ h.pc = "addDepartment" => h \in [pc : {"addDepartment"}, name : DepartmentNames]
         /\ h.pc = "addEmployee" =>
               h \in [pc : {"addEmployee"}, login : Logins, role : DOMAIN roles,
                      position : DOMAIN positions, department : DOMAIN departments,
                      salary : OrNone(Salaries)]
         /\ h.pc = "saveEmployee" =>
               h \in [pc : {"saveEmployee"}, employee : DOMAIN employees,
                      position : OrNone(DOMAIN positions),
                      department : OrNone(DOMAIN departments), salary : OrNone(Salaries)]
         /\ h.pc \in {"saveFile", "deleteFile", "clearImage"} =>
               h \in [pc : {"saveFile", "deleteFile", "clearImage"}, user : DOMAIN users,
                      old : OrNone(Nat)]
         /\ h.pc = "setImage" =>
               h \in [pc : {"setImage"}, user : DOMAIN users, old : OrNone(Nat), new : Nat]
         /\ h.pc = "setProfile" =>
               h \in [pc : {"setProfile"}, user : DOMAIN users, new : OrNone(Nat)]
         /\ h.pc \in {"addCurrency", "addSettings"} =>
               h \in [pc : {"addCurrency", "addSettings"}, code : Codes,
                      for : {"currency", "settings"}]
         /\ h.pc # "idle"
  BY DEF Handler

(* Names are what is held. *)
LEMMA HeldAreNames ==
  ASSUME NEW h \in Handler \cup {Idle}
  PROVE  HeldBy(h) \subseteq Names
<1>1. CASE h.pc \in {"addUser", "addEmployee"}
  <2>1. h \in Handler
    BY <1>1 DEF Idle
  <2>2. h.login \in Logins
    BY <2>1, <1>1, HandlerFields
  <2>3. HeldBy(h) = {<<"user", h.login>>}
    BY <1>1 DEF HeldBy
  <2> QED BY <2>2, <2>3 DEF Names
<1>2. CASE h.pc = "saveUser" \/ h.pc \in {"addPosition", "savePosition"}
  BY <1>2 DEF HeldBy
<1>3. CASE h.pc \in {"addRole", "addNamedRole", "renameRole"}
  <2>1. h \in Handler
    BY <1>3 DEF Idle
  <2>2. h.name \in RoleNames
    BY <2>1, <1>3, HandlerFields
  <2>3. HeldBy(h) = {<<"role", h.name>>}
    BY <1>3 DEF HeldBy
  <2> QED BY <2>2, <2>3 DEF Names
<1>4. CASE h.pc = "addDepartment"
  <2>1. h \in Handler
    BY <1>4 DEF Idle
  <2>2. h.name \in DepartmentNames
    BY <2>1, <1>4, HandlerFields
  <2>3. HeldBy(h) = {<<"department", h.name>>}
    BY <1>4 DEF HeldBy
  <2> QED BY <2>2, <2>3 DEF Names
<1>5. CASE h.pc \in {"addCurrency", "addSettings"}
  BY <1>5 DEF HeldBy, Names
<1>6. CASE ~(h.pc \in {"addUser", "addEmployee", "saveUser", "addPosition", "savePosition",
                       "addRole", "addNamedRole", "renameRole", "addDepartment",
                       "addCurrency", "addSettings"})
  BY <1>6 DEF HeldBy
<1> QED BY <1>1, <1>2, <1>3, <1>4, <1>5, <1>6

-----------------------------------------------------------------------------
(* Types *)

(* A role that was looked up, or created, is one; a picture of a profile was saved; and *)
(* settings follow the currency only if it was created for them.                       *)
Sound(h) ==
    /\ h.pc = "checkUser" => h.role \in DOMAIN roles
    /\ h.pc = "setProfile" => h.new \in OrNone(1..saved)
    /\ h.pc = "addSettings" => h.for = "settings"

Typed == TypeOK /\ \A p \in Procs : Sound(handler[p])

LEMMA IdleFits == Idle \in Handler \cup {Idle} /\ Sound(Idle) /\ HeldBy(Idle) = {}
  BY DEF Idle, Sound, HeldBy

LEMMA RoleLasts ==
  ASSUME Longer, saved \in Nat, saved' \in Nat, saved <= saved', NEW h, Sound(h)
  PROVE  Sound(h)'
  BY DEF Longer, Sound, OrNone

(* A handler goes on, whatever is appended to tables. *)
LEMMA HandlerTypes ==
  ASSUME Typed, Longer, saved' \in Nat, saved <= saved',
         NEW p \in Procs, NEW h, h \in (Handler \cup {Idle})', Sound(h)', Goto(p, h)
  PROVE  /\ handler' \in [Procs -> (Handler \cup {Idle})']
         /\ \A q \in Procs : Sound(handler[q])'
<1>1. saved \in Nat
  BY DEF Typed, TypeOK
<1>2. handler \in [Procs -> Handler \cup {Idle}]
  BY DEF Typed, TypeOK
<1>3. \A q \in Procs : handler'[q] = IF q = p THEN h ELSE handler[q]
  BY <1>2 DEF Goto
<1>4. ASSUME NEW q \in Procs
      PROVE  handler'[q] \in (Handler \cup {Idle})' /\ Sound(handler[q])'
  <2>1. CASE q = p
    BY <2>1, <1>3 DEF Sound
  <2>2. CASE q # p
    <3>1. PICK g : g = handler[q]
      OBVIOUS
    <3>2. handler'[q] = g
      BY <3>1, <2>2, <1>3
    <3>3. g \in Handler \cup {Idle} /\ Sound(g)
      BY <3>1, <1>2 DEF Typed
    <3>4. Sound(g)'
      BY <3>3, <1>1, RoleLasts
    <3>5. g \in (Handler \cup {Idle})'
      BY <3>3, HandlersLast DEF Idle
    <3> QED BY <3>2, <3>4, <3>5 DEF Sound
  <2> QED BY <2>1, <2>2
<1>5. DOMAIN handler' = Procs /\ handler' = [q \in Procs |-> handler'[q]]
  BY <1>2 DEF Goto
<1> QED BY <1>4, <1>5

LEMMA HandlerStays ==
  ASSUME Typed, Longer, saved' \in Nat, saved <= saved', UNCHANGED handler
  PROVE  /\ handler' \in [Procs -> (Handler \cup {Idle})']
         /\ \A q \in Procs : Sound(handler[q])'
<1>1. saved \in Nat
  BY DEF Typed, TypeOK
<1>2. handler \in [Procs -> Handler \cup {Idle}]
  BY DEF Typed, TypeOK
<1>4. ASSUME NEW q \in Procs
      PROVE  handler'[q] \in (Handler \cup {Idle})' /\ Sound(handler[q])'
  <2>1. PICK g : g = handler[q]
    OBVIOUS
  <2>2. handler'[q] = g
    BY <2>1
  <2>3. g \in Handler \cup {Idle} /\ Sound(g)
    BY <2>1, <1>2 DEF Typed
  <2>4. Sound(g)'
    BY <2>3, <1>1, RoleLasts
  <2>5. g \in (Handler \cup {Idle})'
    BY <2>3, HandlersLast DEF Idle
  <2> QED BY <2>2, <2>4, <2>5 DEF Sound
<1>5. DOMAIN handler' = Procs /\ handler' = [q \in Procs |-> handler'[q]]
  BY <1>2
<1> QED BY <1>4, <1>5

LEMMA EmployeesLast ==
  ASSUME Longer, NEW s \in Seq(Employee)
  PROVE  s \in Seq(Employee')
<1>1. Employee \subseteq Employee'
  BY DEF Longer, Employee
<1>2. PICK S, T : S = Employee /\ T = Employee'
  OBVIOUS
<1> QED BY <1>1, <1>2, Wider

HandlersGoOn ==
    \/ UNCHANGED handler
    \/ \E p \in Procs : \E h : h \in (Handler \cup {Idle})' /\ Sound(h)' /\ Goto(p, h)

(* A step keeps the types when what it changes has its type. *)
LEMMA StepTypes ==
  ASSUME Typed, Longer, HandlersGoOn,
         UNCHANGED users \/ users' \in Seq(User),
         UNCHANGED roles \/ roles' \in Seq(Role),
         UNCHANGED positions \/ positions' \in Seq(Position),
         UNCHANGED departments \/ departments' \in Seq(Department),
         UNCHANGED employees \/ employees' \in Seq(Employee'),
         UNCHANGED currencies \/ currencies' \in Seq(Currency),
         UNCHANGED settings \/ settings' \in Seq(Codes),
         UNCHANGED userRoles \/ userRoles' \subseteq (DOMAIN users') \X (DOMAIN roles'),
         UNCHANGED <<saved, files>> \/ /\ saved' \in Nat /\ saved <= saved'
                                       /\ files' \subseteq 1..saved',
         UNCHANGED contended \/ contended' \subseteq Names,
         UNCHANGED raced \/ raced' \subseteq DOMAIN employees',
         UNCHANGED reranged \/ reranged' \subseteq DOMAIN positions',
         UNCHANGED pointed \/ pointed' \subseteq 1..saved',
         UNCHANGED calls \/ calls' \in 0..MaxCalls
  PROVE  Typed'
<1> USE DEF Typed
<1>1. saved' \in Nat /\ saved <= saved' /\ files' \subseteq 1..saved'
  BY DEF TypeOK
<1>2. /\ handler' \in [Procs -> (Handler \cup {Idle})']
      /\ \A q \in Procs : Sound(handler[q])'
  <2>1. CASE UNCHANGED handler
    BY <2>1, <1>1, HandlerStays
  <2>2. ASSUME NEW p \in Procs, NEW h, h \in (Handler \cup {Idle})', Sound(h)', Goto(p, h)
        PROVE  /\ handler' \in [Procs -> (Handler \cup {Idle})']
               /\ \A q \in Procs : Sound(handler[q])'
    BY <2>2, <1>1, HandlerTypes
  <2> QED BY <2>1, <2>2 DEF HandlersGoOn
<1>3. employees' \in Seq(Employee')
  <2>1. CASE UNCHANGED employees
    <3>1. PICK s : s = employees
      OBVIOUS
    <3>2. s \in Seq(Employee) /\ employees' = s
      BY <3>1, <2>1 DEF TypeOK
    <3> QED BY <3>2, EmployeesLast
  <2> QED BY <2>1
<1>4. userRoles' \subseteq (DOMAIN users') \X (DOMAIN roles')
  <2>1. CASE UNCHANGED userRoles
    BY <2>1 DEF TypeOK, Longer
  <2> QED BY <2>1
<1>5. pointed' \subseteq 1..saved'
  <2>1. CASE UNCHANGED pointed
    BY <2>1, <1>1 DEF TypeOK
  <2> QED BY <2>1
<1>6. raced' \subseteq DOMAIN employees' /\ reranged' \subseteq DOMAIN positions'
  BY DEF TypeOK, Longer
<1>7. /\ users' \in Seq(User) /\ roles' \in Seq(Role) /\ positions' \in Seq(Position)
      /\ departments' \in Seq(Department) /\ currencies' \in Seq(Currency)
      /\ settings' \in Seq(Codes) /\ contended' \subseteq Names /\ calls' \in 0..MaxCalls
  BY DEF TypeOK, User, Role, Position, Department, Currency, Names
<1>8. TypeOK'
  BY <1>1, <1>2, <1>3, <1>4, <1>5, <1>6, <1>7 DEF TypeOK
<1> QED BY <1>2, <1>8

LEMMA SameTables ==
  ASSUME UNCHANGED <<staff, accounts>>
  PROVE  /\ Longer /\ Handler' = Handler /\ (Handler \cup {Idle})' = Handler \cup {Idle}
         /\ DOMAIN employees' = DOMAIN employees
  BY DEF staff, accounts, Longer, Handler, Idle

(* A request comes in, with what was read for it. *)
LEMMA StartTypes ==
  ASSUME Typed, NEW p \in Procs, NEW h \in Handler, Sound(h), Start(p, h),
         UNCHANGED <<staff, accounts, company, disk, reranged, pointed>>,
         raced' \subseteq DOMAIN employees
  PROVE  Typed'
<1>1. Longer /\ h \in (Handler \cup {Idle})' /\ DOMAIN employees' = DOMAIN employees
  BY SameTables
<1>2. Sound(h)'
  BY DEF Sound, accounts, disk
<1>3. HandlersGoOn
  BY <1>1, <1>2 DEF HandlersGoOn, Start, Proceed
<1>4. contended' \subseteq Names
  <2>1. HeldBy(h) \subseteq Names
    BY HeldAreNames
  <2>2. contended \subseteq Names
    BY DEF Typed, TypeOK
  <2> QED BY <2>1, <2>2 DEF Start, Proceed
<1>5. calls' \in 0..MaxCalls
  BY OrganisationAssumption DEF Typed, TypeOK, Start
<1>6. UNCHANGED <<users, roles, positions, departments, employees, currencies, settings,
                  userRoles, saved, files, reranged, pointed>>
  BY DEF staff, accounts, company, disk
<1> QED BY <1>1, <1>3, <1>4, <1>5, <1>6, StepTypes

LEMMA TypedHandler ==
  ASSUME Typed, NEW p \in Procs
  PROVE  handler[p] \in Handler \cup {Idle} /\ Sound(handler[p])
  BY DEF Typed, TypeOK

LEMMA UserFields ==
  ASSUME Typed, NEW u \in DOMAIN users
  PROVE  /\ users[u] \in User /\ users[u].login \in Logins /\ users[u].image \in OrNone(Nat)
         /\ users[u].deleted \in BOOLEAN
<1>1. users \in Seq(User)
  BY DEF Typed, TypeOK
<1>2. users[u] \in User
  BY <1>1, Row
<1> QED BY <1>2 DEF User

(* Requests: what a handler has read when it is let in *)

Read(h) ==
    /\ h.pc \notin {"idle", "addUser", "setImage", "deleteFile"}
    /\ h.pc \in {"saveFile", "clearImage"} => h.old = users[h.user].image
    /\ h.pc = "addEmployee" => ~LoginTaken(h.login, None) /\ SalaryFits(h.salary, h.position)
    /\ h.pc = "saveUser" => h.login = None \/ ~LoginTaken(h.login, h.user)
    /\ h.pc \in {"addRole", "addNamedRole"} => ~\E r \in LiveIds(roles) : roles[r].name = h.name
    /\ h.pc = "renameRole" => ~RoleTaken(h.name)
    /\ h.pc = "addPosition" => ~TitleTaken(h.title, None)
    /\ h.pc = "savePosition" => h.title = None \/ ~TitleTaken(h.title, h.position)
    /\ h.pc = "addDepartment" => ~NameTaken(h.name)
    /\ h.pc = "saveEmployee" => SalaryInOrder(h.employee, h.position, h.salary)
    /\ h.pc \in {"addCurrency", "addSettings"} => (h.for = "settings" => settings = <<>>)

(* An employee is updated while another update is under way. *)
Races(h) == h.pc = "saveEmployee" /\ \E q \in Procs : Holds(q, h.employee)

LetIn(p, h) ==
    /\ Start(p, h)
    /\ h \in Handler /\ Sound(h) /\ Read(h)
    /\ raced' = IF Races(h) THEN raced \cup {h.employee} ELSE raced
    /\ UNCHANGED <<staff, accounts, company, disk, reranged, pointed>>

LEMMA CreateUserReads ==
  ASSUME Typed, NEW p \in Procs, NEW n \in Logins, NEW rn \in RoleNames, CreateUser(p, n, rn)
  PROVE  \E h : LetIn(p, h)
<1>1. PICK found : found = {r \in LiveIds(roles) : roles[r].name = Upper[rn]}
  OBVIOUS
<1>2. PICK r \in IF found = {} THEN {None} ELSE found :
         Start(p, [pc |-> IF r = None THEN "addRole" ELSE "checkUser",
                   login |-> n, name |-> Upper[rn], role |-> r])
  BY <1>1 DEF CreateUser
<1>3. PICK h : h = [pc |-> IF r = None THEN "addRole" ELSE "checkUser",
                    login |-> n, name |-> Upper[rn], role |-> r]
  OBVIOUS
<1>4. found \subseteq DOMAIN roles /\ None \notin DOMAIN roles
  <2>1. DOMAIN roles \subseteq Nat
    BY DEF Typed, TypeOK
  <2> QED BY <1>1, <2>1, OrganisationAssumption DEF LiveIds
<1>5. /\ r = None \/ r \in DOMAIN roles
      /\ r = None => found = {}
  BY <1>2, <1>4
<1>6. Upper[rn] \in RoleNames
  BY OrganisationAssumption
<1>7. h \in Handler
  BY <1>3, <1>5, <1>6 DEF Handler, OrNone
<1>8. Sound(h)
  BY <1>3, <1>5 DEF Sound
<1>9. Start(p, h) /\ UNCHANGED <<staff, accounts, company, disk, raced, reranged, pointed>>
  BY <1>2, <1>3 DEF CreateUser
<1>10. h.pc = "addRole" => ~\E x \in LiveIds(roles) : roles[x].name = h.name
  BY <1>1, <1>3, <1>5
<1>11. h.pc \in {"addRole", "checkUser"}
  BY <1>3
<1>12. Read(h) /\ ~Races(h)
  BY <1>10, <1>11 DEF Read, Races
<1> QED BY <1>7, <1>8, <1>9, <1>12 DEF LetIn

(* Any other request, too, is one that Handler knows. *)
LEMMA OthersRead ==
  ASSUME NEW p \in Procs, NEW h \in Handler, Sound(h), Read(h), ~Races(h), Start(p, h),
         UNCHANGED <<staff, accounts, company, disk, raced, reranged, pointed>>
  PROVE  \E g : LetIn(p, g)
  BY DEF LetIn

LEMMA RequestsRead ==
  ASSUME Typed, NEW p \in Procs, Requests(p)
  PROVE  \E h : LetIn(p, h)
<1>1. ASSUME NEW n \in Logins, NEW rn \in RoleNames, CreateUser(p, n, rn)
      PROVE  \E h : LetIn(p, h)
  BY <1>1, CreateUserReads
<1>2. ASSUME NEW n \in Logins, NEW rn \in RoleNames, NEW i \in DOMAIN positions,
             NEW d \in DOMAIN departments, NEW s \in OrNone(Salaries),
             CreateEmployee(p, n, rn, i, d, s)
      PROVE  \E h : LetIn(p, h)
  <2>1. PICK r \in LiveIds(roles) :
           Start(p, [pc |-> "addEmployee", login |-> n, role |-> r, position |-> i,
                     department |-> d, salary |-> s])
    BY <1>2 DEF CreateEmployee
  <2>2. PICK h : h = [pc |-> "addEmployee", login |-> n, role |-> r, position |-> i,
                      department |-> d, salary |-> s]
    OBVIOUS
  <2>3. r \in DOMAIN roles
    BY DEF LiveIds
  <2>4. h \in Handler
    BY <2>2, <2>3 DEF Handler
  <2>5. Sound(h) /\ Read(h) /\ ~Races(h)
    BY <2>2, <1>2 DEF CreateEmployee, Sound, Read, Races
  <2> QED BY <2>1, <2>2, <2>4, <2>5, <1>2, OthersRead DEF CreateEmployee
<1>3. ASSUME NEW u \in DOMAIN users, NEW n \in OrNone(Logins), NEW names \in OrNone(RoleLists),
             UpdateUser(p, u, n, names)
      PROVE  \E h : LetIn(p, h)
  <2>1. PICK h : h = [pc |-> "saveUser", user |-> u, login |-> n, names |-> names]
    OBVIOUS
  <2>2. h \in Handler
    BY <2>1 DEF Handler
  <2>3. Sound(h) /\ Read(h) /\ ~Races(h)
    BY <2>1, <1>3 DEF UpdateUser, Sound, Read, Races, LoginFree
  <2> QED BY <2>1, <2>2, <2>3, <1>3, OthersRead DEF UpdateUser
<1>4. ASSUME NEW u \in DOMAIN users, UploadImage(p, u)
      PROVE  \E h : LetIn(p, h)
  <2>1. PICK h : h = [pc |-> "saveFile", user |-> u, old |-> users[u].image]
    OBVIOUS
  <2>0. users[u].image \in OrNone(Nat)
    BY UserFields
  <2>2. h \in Handler
    BY <2>1, <2>0 DEF Handler
  <2>3. Sound(h) /\ Read(h) /\ ~Races(h)
    BY <2>1, <1>4 DEF UploadImage, Sound, Read, Races
  <2> QED BY <2>1, <2>2, <2>3, <1>4, OthersRead DEF UploadImage
<1>5. ASSUME NEW u \in DOMAIN users, RemoveImage(p, u)
      PROVE  \E h : LetIn(p, h)
  <2>1. PICK h : h = [pc |-> "clearImage", user |-> u, old |-> users[u].image]
    OBVIOUS
  <2>0. users[u].image \in OrNone(Nat)
    BY UserFields
  <2>2. h \in Handler
    BY <2>1, <2>0 DEF Handler
  <2>3. Sound(h) /\ Read(h) /\ ~Races(h)
    BY <2>1, <1>5 DEF RemoveImage, Sound, Read, Races
  <2> QED BY <2>1, <2>2, <2>3, <1>5, OthersRead DEF RemoveImage
<1>6. ASSUME NEW u \in DOMAIN users, NEW image \in OrNone(1..saved),
             UpdateMeProfile(p, u, image)
      PROVE  \E h : LetIn(p, h)
  <2>1. PICK h : h = [pc |-> "setProfile", user |-> u, new |-> image]
    OBVIOUS
  <2>2. image \in OrNone(Nat)
    BY DEF OrNone
  <2>3. h \in Handler /\ Sound(h)
    BY <2>1, <2>2 DEF Handler, Sound
  <2>4. Sound(h) /\ Read(h) /\ ~Races(h)
    BY <2>1 DEF Sound, Read, Races
  <2> QED BY <2>1, <2>3, <2>4, <1>6 DEF UpdateMeProfile, LetIn
<1>7. ASSUME NEW n \in RoleNames, CreateRole(p, n)
      PROVE  \E h : LetIn(p, h)
  <2>1. PICK h : h = [pc |-> "addNamedRole", name |-> Upper[n]]
    OBVIOUS
  <2>0. Upper[n] \in RoleNames
    BY OrganisationAssumption
  <2>2. h \in Handler
    BY <2>1, <2>0 DEF Handler
  <2>3. Sound(h) /\ Read(h) /\ ~Races(h)
    BY <2>1, <1>7 DEF CreateRole, Sound, Read, Races, RoleTaken
  <2> QED BY <2>1, <2>2, <2>3, <1>7, OthersRead DEF CreateRole
<1>8. ASSUME NEW n \in RoleNames, NEW r \in DOMAIN roles, UpdateRole(p, r, n)
      PROVE  \E h : LetIn(p, h)
  <2>1. PICK h : h = [pc |-> "renameRole", role |-> r, name |-> n]
    OBVIOUS
  <2>2. h \in Handler
    BY <2>1 DEF Handler
  <2>3. Sound(h) /\ Read(h) /\ ~Races(h)
    BY <2>1, <1>8 DEF UpdateRole, Sound, Read, Races
  <2> QED BY <2>1, <2>2, <2>3, <1>8, OthersRead DEF UpdateRole
<1>9. ASSUME NEW t \in Titles, NEW range \in Ranges, CreatePosition(p, t, range)
      PROVE  \E h : LetIn(p, h)
  <2>1. PICK h : h = [pc |-> "addPosition", title |-> t, range |-> range]
    OBVIOUS
  <2>2. h \in Handler
    BY <2>1 DEF Handler
  <2>3. Sound(h) /\ Read(h) /\ ~Races(h)
    BY <2>1, <1>9 DEF CreatePosition, Sound, Read, Races
  <2> QED BY <2>1, <2>2, <2>3, <1>9, OthersRead DEF CreatePosition
<1>10. ASSUME NEW i \in DOMAIN positions, NEW t \in OrNone(Titles),
             NEW range \in OrNone(Ranges), UpdatePosition(p, i, t, range)
      PROVE  \E h : LetIn(p, h)
  <2>1. PICK h : h = [pc |-> "savePosition", position |-> i, title |-> t, range |-> range]
    OBVIOUS
  <2>2. h \in Handler
    BY <2>1 DEF Handler
  <2>3. Sound(h) /\ Read(h) /\ ~Races(h)
    BY <2>1, <1>10 DEF UpdatePosition, Sound, Read, Races
  <2> QED BY <2>1, <2>2, <2>3, <1>10, OthersRead DEF UpdatePosition
<1>11. ASSUME NEW n \in DepartmentNames, CreateDepartment(p, n)
      PROVE  \E h : LetIn(p, h)
  <2>1. PICK h : h = [pc |-> "addDepartment", name |-> n]
    OBVIOUS
  <2>2. h \in Handler
    BY <2>1 DEF Handler
  <2>3. Sound(h) /\ Read(h) /\ ~Races(h)
    BY <2>1, <1>11 DEF CreateDepartment, Sound, Read, Races
  <2> QED BY <2>1, <2>2, <2>3, <1>11, OthersRead DEF CreateDepartment
<1>12. ASSUME NEW e \in DOMAIN employees, NEW i \in OrNone(DOMAIN positions),
              NEW d \in OrNone(DOMAIN departments), NEW s \in OrNone(Salaries),
              UpdateEmployee(p, e, i, d, s)
       PROVE  \E h : LetIn(p, h)
  <2>1. PICK h : h = [pc |-> "saveEmployee", employee |-> e, position |-> i, department |-> d,
                   salary |-> s]
    OBVIOUS
  <2>2. h \in Handler
    BY <2>1 DEF Handler
  <2>3. Read(h) /\ Sound(h)
    BY <2>1, <1>12 DEF UpdateEmployee, Read, Sound
  <2>4. Races(h) <=> \E q \in Procs : Holds(q, e)
    BY <2>1 DEF Races
  <2>5. raced' = IF Races(h) THEN raced \cup {h.employee} ELSE raced
    BY <2>1, <2>4, <1>12 DEF UpdateEmployee
  <2> QED BY <2>1, <2>2, <2>3, <2>5, <1>12 DEF UpdateEmployee, LetIn
<1>13. ASSUME NEW c \in Codes, CreateCurrency(p, c)
      PROVE  \E h : LetIn(p, h)
  <2>1. PICK h : h = [pc |-> "addCurrency", code |-> c, for |-> "currency"]
    OBVIOUS
  <2>2. h \in Handler
    BY <2>1 DEF Handler
  <2>3. Sound(h) /\ Read(h) /\ ~Races(h)
    BY <2>1, <1>13 DEF CreateCurrency, Sound, Read, Races
  <2> QED BY <2>1, <2>2, <2>3, <1>13, OthersRead DEF CreateCurrency
<1>14. ASSUME NEW c \in Codes, CreateCompanySettings(p, c)
      PROVE  \E h : LetIn(p, h)
  <2>1. PICK h : h = [pc |-> "addSettings", code |-> c, for |-> "settings"]
    OBVIOUS
  <2>2. h \in Handler
    BY <2>1 DEF Handler
  <2>3. Sound(h) /\ Read(h) /\ ~Races(h)
    BY <2>1, <1>14 DEF CreateCompanySettings, Sound, Read, Races
  <2> QED BY <2>1, <2>2, <2>3, <1>14, OthersRead DEF CreateCompanySettings
<1>15. ASSUME GetCompanySettings(p)
       PROVE  \E h : LetIn(p, h)
  <2>1. PICK h : h = [pc |-> IF CodeKnown(Default) THEN "addSettings" ELSE "addCurrency",
                      code |-> Default, for |-> "settings"]
    OBVIOUS
  <2>2. h.pc \in {"addSettings", "addCurrency"} /\ h \in Handler
    BY <2>1, OrganisationAssumption DEF Handler
  <2>3. /\ Start(p, h) /\ settings = <<>>
        /\ UNCHANGED <<staff, accounts, company, disk, raced, reranged, pointed>>
    BY <2>1, <1>15 DEF GetCompanySettings
  <2>4. Sound(h) /\ Read(h) /\ ~Races(h)
    BY <2>1, <2>2, <2>3 DEF Sound, Read, Races
  <2> QED BY <2>2, <2>3, <2>4, OthersRead
<1> QED
  BY <1>1, <1>2, <1>3, <1>4, <1>5, <1>6, <1>7, <1>8, <1>9, <1>10, <1>11, <1>12, <1>13, <1>14, <1>15 DEF Requests

LEMMA RequestsTypes ==
  ASSUME Typed, NEW p \in Procs, Requests(p)
  PROVE  Typed'
<1>1. PICK h : LetIn(p, h)
  BY RequestsRead
<1>2. raced' \subseteq DOMAIN employees
  <2>1. h.pc = "saveEmployee" => h.employee \in DOMAIN employees
    BY <1>1, HandlerFields DEF LetIn
  <2> QED BY <1>1, <2>1 DEF LetIn, Races, Typed, TypeOK
<1> QED BY <1>1, <1>2, StartTypes DEF LetIn

(* Writes *)

LEMMA AddRoleTypes ==
  ASSUME Typed, NEW p \in Procs, AddRole(p)
  PROVE  Typed'
<1>1. PICK h, g : /\ h = handler[p]
                  /\ g = [h EXCEPT !.pc = "checkUser", !.role = Len(roles) + 1]
  OBVIOUS
<1>2. /\ h.pc = "addRole" /\ Goto(p, g)
      /\ roles' = Append(roles, [name |-> h.name, deleted |-> FALSE])
      /\ UNCHANGED <<staff, users, userRoles, company, disk, history, calls>>
  BY <1>1 DEF AddRole
<1>3. h \in Handler
  BY <1>1, <1>2, TypedHandler DEF Idle
<1>4. h \in [pc : {"addRole", "checkUser"}, login : Logins, name : RoleNames,
             role : OrNone(DOMAIN roles)]
  BY <1>2, <1>3, HandlerFields
<1>5. [name |-> h.name, deleted |-> FALSE] \in Role
  BY <1>4 DEF Role
<1>6. /\ roles' \in Seq(Role) /\ DOMAIN roles \subseteq DOMAIN roles'
      /\ Len(roles) + 1 \in DOMAIN roles'
  BY <1>2, <1>5, Appended DEF Typed, TypeOK
<1>7. Longer
  BY <1>2, <1>6 DEF Longer, staff
<1>8. g \in [pc : {"addRole", "checkUser"}, login : Logins, name : RoleNames,
             role : OrNone(DOMAIN roles')]
  BY <1>1, <1>4, <1>6 DEF OrNone
<1>9. g.pc = "checkUser" /\ g.role = Len(roles) + 1
  BY <1>1, <1>4
<1>10. Sound(g)'
  BY <1>9, <1>6 DEF Sound
<1>11. g \in Handler'
  BY <1>8 DEF Handler
<1>12. HandlersGoOn
  BY <1>2, <1>10, <1>11 DEF HandlersGoOn
<1>13. UNCHANGED <<positions, departments, employees, users, userRoles, currencies, settings,
                   saved, files, contended, raced, reranged, pointed, calls>>
  BY <1>2 DEF staff, company, disk, history
<1> QED BY <1>6, <1>7, <1>12, <1>13, StepTypes

LEMMA CheckUserTypes ==
  ASSUME Typed, NEW p \in Procs, CheckUser(p)
  PROVE  Typed'
<1>1. PICK h, g : /\ h = handler[p]
                  /\ g = IF LoginTaken(h.login, None) THEN Idle
                         ELSE [pc |-> "addUser", login |-> h.login, role |-> h.role]
  OBVIOUS
<1>2. /\ h.pc = "checkUser" /\ Proceed(p, g)
      /\ UNCHANGED <<staff, accounts, company, disk, raced, reranged, pointed, calls>>
  BY <1>1 DEF CheckUser
<1>3. h \in Handler /\ h.role \in DOMAIN roles
  BY <1>1, <1>2, TypedHandler DEF Idle, Sound
<1>4. h \in [pc : {"addRole", "checkUser"}, login : Logins, name : RoleNames,
             role : OrNone(DOMAIN roles)]
  BY <1>2, <1>3, HandlerFields
<1>5. g \in Handler \cup {Idle}
  BY <1>1, <1>3, <1>4 DEF Handler
<1>6. Longer /\ g \in (Handler \cup {Idle})'
  BY <1>5, <1>2, SameTables
<1>7. Sound(g)'
  BY <1>1, IdleFits DEF Sound, Idle
<1>8. HandlersGoOn
  BY <1>2, <1>6, <1>7 DEF HandlersGoOn, Proceed
<1>9. contended' \subseteq Names
  BY <1>2, <1>5, HeldAreNames DEF Proceed, Typed, TypeOK
<1>10. UNCHANGED <<positions, departments, employees, users, roles, userRoles, currencies,
                   settings, saved, files, raced, reranged, pointed, calls>>
  BY <1>2 DEF staff, accounts, company, disk
<1> QED BY <1>6, <1>8, <1>9, <1>10, StepTypes

(* A handler that ends *)
LEMMA IdleGoesOn == \A p \in Procs : Goto(p, Idle) => HandlersGoOn
  BY DEF HandlersGoOn, Sound, Idle

LEMMA NewUserType == \A n \in Logins : NewUser(n) \in User
  BY DEF NewUser, User, OrNone

LEMMA AddUserTypes ==
  ASSUME Typed, NEW p \in Procs, AddUser(p)
  PROVE  Typed'
<1>1. PICK h : h = handler[p]
  OBVIOUS
<1>2. /\ h.pc = "addUser" /\ Goto(p, Idle)
      /\ users' = Append(users, NewUser(h.login))
      /\ userRoles' = userRoles \cup {<<Len(users) + 1, h.role>>}
      /\ UNCHANGED <<staff, roles, company, disk, history, calls>>
  BY <1>1 DEF AddUser
<1>3. h \in Handler
  BY <1>1, <1>2, TypedHandler DEF Idle
<1>4. h \in [pc : {"addUser"}, login : Logins, role : DOMAIN roles]
  BY <1>2, <1>3, HandlerFields
<1>5. NewUser(h.login) \in User
  BY <1>4, NewUserType
<1>6. /\ users' \in Seq(User) /\ DOMAIN users \subseteq DOMAIN users'
      /\ Len(users) + 1 \in DOMAIN users'
  BY <1>2, <1>5, Appended DEF Typed, TypeOK
<1>7. Longer
  BY <1>2, <1>6 DEF Longer, staff
<1>8. userRoles' \subseteq (DOMAIN users') \X (DOMAIN roles')
  BY <1>2, <1>4, <1>6 DEF Typed, TypeOK
<1>9. UNCHANGED <<positions, departments, employees, roles, currencies, settings,
                  saved, files, contended, raced, reranged, pointed, calls>>
  BY <1>2 DEF staff, company, disk, history
<1> QED BY <1>2, <1>6, <1>7, <1>8, <1>9, IdleGoesOn, StepTypes

(* Rows are replaced. *)
LEMMA UserSaved ==
  ASSUME Typed, NEW u \in DOMAIN users, NEW x \in User, users' = [users EXCEPT ![u] = x]
  PROVE  users' \in Seq(User) /\ DOMAIN users' = DOMAIN users
  BY Replaced DEF Typed, TypeOK

LEMMA UpdatedUser ==
  ASSUME Typed, NEW u \in DOMAIN users
  PROVE  /\ \A n \in OrNone(Logins) : [users[u] EXCEPT !.login = Given(n, @)] \in User
         /\ \A x \in OrNone(Nat) : [users[u] EXCEPT !.image = x] \in User
         /\ [users[u] EXCEPT !.deleted = TRUE] \in User
  BY UserFields DEF User, Given, OrNone

LEMMA SaveUserTypes ==
  ASSUME Typed, NEW p \in Procs, SaveUser(p)
  PROVE  Typed'
<1>1. PICK h, found :
         /\ h = handler[p]
         /\ found = {r \in LiveIds(roles) : roles[r].name \in {Upper[n] : n \in h.names}}
  OBVIOUS
<1>2. /\ h.pc = "saveUser" /\ Goto(p, Idle)
      /\ \/ /\ users' = [users EXCEPT ![h.user].login = Given(h.login, @)]
            /\ userRoles' = IF h.names = None THEN userRoles
                            ELSE {x \in userRoles : x[1] # h.user} \cup ({h.user} \X found)
         \/ UNCHANGED <<users, userRoles>>
      /\ UNCHANGED <<staff, roles, company, disk, history, calls>>
  BY <1>1 DEF SaveUser
<1>3. h \in Handler
  BY <1>1, <1>2, TypedHandler DEF Idle
<1>4. h \in [pc : {"saveUser"}, user : DOMAIN users, login : OrNone(Logins),
             names : OrNone(RoleLists)]
  BY <1>2, <1>3, HandlerFields
<1>5. found \subseteq DOMAIN roles
  BY <1>1 DEF LiveIds
<1>6. [users[h.user] EXCEPT !.login = Given(h.login, @)] \in User
  BY <1>4, UpdatedUser
<1>7. /\ UNCHANGED users \/ users' \in Seq(User)
      /\ DOMAIN users' = DOMAIN users
  BY <1>2, <1>4, <1>6, UserSaved
<1>8. Longer
  BY <1>2, <1>7 DEF Longer, staff
<1>9. userRoles' \subseteq (DOMAIN users') \X (DOMAIN roles')
  <2>1. userRoles \subseteq (DOMAIN users) \X (DOMAIN roles)
    BY DEF Typed, TypeOK
  <2>2. {h.user} \X found \subseteq (DOMAIN users) \X (DOMAIN roles)
    BY <1>4, <1>5
  <2>3. userRoles' \subseteq userRoles \cup ({h.user} \X found)
    BY <1>2
  <2>4. DOMAIN users' = DOMAIN users /\ DOMAIN roles' = DOMAIN roles
    BY <1>2, <1>7
  <2> QED BY <2>1, <2>2, <2>3, <2>4
<1>10. UNCHANGED <<positions, departments, employees, roles, currencies, settings,
                   saved, files, contended, raced, reranged, pointed, calls>>
  BY <1>2 DEF staff, company, disk, history
<1> QED BY <1>2, <1>7, <1>8, <1>9, <1>10, IdleGoesOn, StepTypes

LEMMA DeleteUserTypes ==
  ASSUME Typed, NEW u \in DOMAIN users, DeleteUser(u)
  PROVE  Typed'
<1>1. users' = [users EXCEPT ![u].deleted = TRUE]
  BY DEF DeleteUser, Deleted
<1>2. users' \in Seq(User) /\ DOMAIN users' = DOMAIN users
  BY <1>1, UpdatedUser, UserSaved
<1>3. Longer
  BY <1>2 DEF DeleteUser, Longer, staff
<1>4. calls' \in 0..MaxCalls
  BY OrganisationAssumption DEF Typed, TypeOK, DeleteUser, Call
<1>5. UNCHANGED <<positions, departments, employees, roles, userRoles, currencies, settings,
                  handler, saved, files, contended, raced, reranged, pointed>>
  BY DEF DeleteUser, staff, company, disk, history
<1> QED BY <1>2, <1>3, <1>4, <1>5, StepTypes DEF HandlersGoOn

(* Pictures *)

LEMMA PictureFields ==
  ASSUME Typed, NEW p \in Procs
  PROVE  /\ handler[p].pc \in {"saveFile", "deleteFile", "clearImage"} =>
               handler[p] \in [pc : {"saveFile", "deleteFile", "clearImage"},
                               user : DOMAIN users, old : OrNone(Nat)]
         /\ handler[p].pc = "setImage" =>
               handler[p] \in [pc : {"setImage"}, user : DOMAIN users, old : OrNone(Nat),
                               new : Nat]
         /\ handler[p].pc = "setProfile" =>
               /\ handler[p] \in [pc : {"setProfile"}, user : DOMAIN users,
                                  new : OrNone(Nat)]
               /\ handler[p].new \in OrNone(1..saved)
<1>1. handler[p] \in Handler \/ handler[p] = Idle
  BY TypedHandler
<1>2. CASE handler[p] = Idle
  BY <1>2 DEF Idle
<1>3. CASE handler[p] \in Handler
  BY <1>3, HandlerFields, TypedHandler DEF Sound
<1> QED BY <1>1, <1>2, <1>3

LEMMA SaveFileTypes ==
  ASSUME Typed, NEW p \in Procs, SaveFile(p)
  PROVE  Typed'
<1>1. PICK h, g : /\ h = handler[p]
                  /\ g = [pc |-> "setImage", user |-> h.user, old |-> h.old, new |-> saved + 1]
  OBVIOUS
<1>2. /\ h.pc = "saveFile" /\ Goto(p, g)
      /\ saved' = saved + 1 /\ files' = files \cup {saved + 1}
      /\ UNCHANGED <<staff, accounts, company, history, calls>>
  BY <1>1 DEF SaveFile
<1>3. saved \in Nat /\ files \subseteq 1..saved
  BY DEF Typed, TypeOK
<1>4. saved' \in Nat /\ saved <= saved' /\ files' \subseteq 1..saved'
  BY <1>2, <1>3
<1>5. g \in Handler
  BY <1>1, <1>2, <1>3, PictureFields DEF Handler
<1>6. Longer /\ g \in (Handler \cup {Idle})'
  BY <1>2, <1>5, SameTables
<1>7. Sound(g)'
  BY <1>1 DEF Sound
<1>8. HandlersGoOn
  BY <1>2, <1>6, <1>7 DEF HandlersGoOn
<1>9. UNCHANGED <<positions, departments, employees, users, roles, userRoles, currencies,
                  settings, contended, raced, reranged, pointed, calls>>
  BY <1>2 DEF staff, accounts, company, history
<1> QED BY <1>4, <1>6, <1>8, <1>9, StepTypes

(* A picture is written to a user's row. *)
LEMMA ImageTypes ==
  ASSUME Typed, NEW p \in Procs, NEW u \in DOMAIN users, NEW x \in OrNone(Nat),
         users' = [users EXCEPT ![u].image = x],
         NEW h \in Handler \cup {Idle}, h.pc \in {"idle", "deleteFile"}, Goto(p, h),
         UNCHANGED <<staff, roles, userRoles, company, disk, contended, raced, reranged, calls>>,
         UNCHANGED pointed \/ pointed' \subseteq 1..saved'
  PROVE  Typed'
<1>1. users' \in Seq(User) /\ DOMAIN users' = DOMAIN users
  BY UpdatedUser, UserSaved
<1>2. Longer
  BY <1>1 DEF Longer, staff
<1>3. h \in (Handler \cup {Idle})'
  BY <1>2, HandlersLast DEF Idle
<1>4. Sound(h)'
  BY DEF Sound
<1>5. HandlersGoOn
  BY <1>3, <1>4 DEF HandlersGoOn
<1>6. UNCHANGED <<positions, departments, employees, roles, userRoles, currencies, settings,
                  saved, files, contended, raced, reranged, calls>>
  BY DEF staff, company, disk
<1> QED BY <1>1, <1>2, <1>5, <1>6, StepTypes

LEMMA SetImageTypes ==
  ASSUME Typed, NEW p \in Procs, SetImage(p)
  PROVE  Typed'
<1>1. PICK h, g : /\ h = handler[p]
                  /\ g = IF h.old = None THEN Idle
                         ELSE [pc |-> "deleteFile", user |-> h.user, old |-> h.old]
  OBVIOUS
<1>2. /\ h.pc = "setImage" /\ Goto(p, g)
      /\ users' = [users EXCEPT ![h.user].image = h.new]
      /\ UNCHANGED <<staff, roles, userRoles, company, disk, history, calls>>
  BY <1>1 DEF SetImage
<1>3. h.user \in DOMAIN users /\ h.old \in OrNone(Nat) /\ h.new \in OrNone(Nat)
  BY <1>1, <1>2, PictureFields DEF OrNone
<1>4. g \in Handler \cup {Idle} /\ g.pc \in {"idle", "deleteFile"}
  BY <1>1, <1>3 DEF Handler, Idle
<1> QED BY <1>2, <1>3, <1>4, ImageTypes DEF history

LEMMA ClearImageTypes ==
  ASSUME Typed, NEW p \in Procs, ClearImage(p)
  PROVE  Typed'
<1>1. PICK h, g : h = handler[p] /\ g = [h EXCEPT !.pc = "deleteFile"]
  OBVIOUS
<1>2. /\ h.pc = "clearImage" /\ Goto(p, g)
      /\ users' = [users EXCEPT ![h.user].image = None]
      /\ UNCHANGED <<staff, roles, userRoles, company, disk, history, calls>>
  BY <1>1 DEF ClearImage
<1>3. h \in [pc : {"saveFile", "deleteFile", "clearImage"}, user : DOMAIN users,
             old : OrNone(Nat)]
  BY <1>1, <1>2, PictureFields
<1>4. /\ g \in [pc : {"saveFile", "deleteFile", "clearImage"}, user : DOMAIN users,
                old : OrNone(Nat)]
      /\ g.pc = "deleteFile"
  BY <1>1, <1>3
<1>5. g \in Handler /\ g.pc \in {"idle", "deleteFile"}
  BY <1>4 DEF Handler
<1>6. None \in OrNone(Nat) /\ h.user \in DOMAIN users
  BY <1>3 DEF OrNone
<1> QED BY <1>2, <1>5, <1>6, ImageTypes DEF history

LEMMA SetProfileImageTypes ==
  ASSUME Typed, NEW p \in Procs, SetProfileImage(p)
  PROVE  Typed'
<1>1. PICK h : h = handler[p]
  OBVIOUS
<1>2. /\ h.pc = "setProfile" /\ Goto(p, Idle)
      /\ users' = [users EXCEPT ![h.user].image = h.new]
      /\ pointed' = pointed \cup ({h.new} \ {None})
      /\ UNCHANGED <<staff, roles, userRoles, company, disk, contended, raced, reranged, calls>>
  BY <1>1 DEF SetProfileImage
<1>3. h.user \in DOMAIN users /\ h.new \in OrNone(Nat) /\ h.new \in OrNone(1..saved)
  BY <1>1, <1>2, PictureFields
<1>4. pointed' \subseteq 1..saved'
  BY <1>2, <1>3 DEF Typed, TypeOK, OrNone, disk
<1>5. Idle \in Handler \cup {Idle} /\ Idle.pc \in {"idle", "deleteFile"}
  BY DEF Idle
<1> QED BY <1>2, <1>3, <1>4, <1>5, ImageTypes

LEMMA DeleteFileTypes ==
  ASSUME Typed, NEW p \in Procs, DeleteFile(p)
  PROVE  Typed'
<1>1. /\ Goto(p, Idle) /\ files' \subseteq files /\ saved' = saved
      /\ UNCHANGED <<staff, accounts, company, history, calls>>
  BY DEF DeleteFile
<1>2. saved' \in Nat /\ saved <= saved' /\ files' \subseteq 1..saved'
  BY <1>1 DEF Typed, TypeOK
<1>3. Longer
  BY <1>1, SameTables
<1>4. UNCHANGED <<positions, departments, employees, users, roles, userRoles, currencies,
                  settings, contended, raced, reranged, pointed, calls>>
  BY <1>1 DEF staff, accounts, company, history
<1> QED BY <1>1, <1>2, <1>3, <1>4, IdleGoesOn, StepTypes

(* Roles *)

LEMMA RoleTable ==
  ASSUME Typed
  PROVE  /\ \A n \in RoleNames : [name |-> n, deleted |-> FALSE] \in Role
         /\ \A r \in DOMAIN roles :
               /\ roles[r] \in Role
               /\ \A n \in RoleNames : [roles[r] EXCEPT !.name = n] \in Role
               /\ [roles[r] EXCEPT !.deleted = TRUE] \in Role
<1>1. roles \in Seq(Role)
  BY DEF Typed, TypeOK
<1>2. \A r \in DOMAIN roles : roles[r] \in Role
  BY <1>1, Row
<1> QED BY <1>2 DEF Role

LEMMA RolesTypes ==
  ASSUME Typed, HandlersGoOn, roles' \in Seq(Role), DOMAIN roles \subseteq DOMAIN roles',
         UNCHANGED <<staff, users, userRoles, company, disk, history>>,
         UNCHANGED calls \/ calls' \in 0..MaxCalls
  PROVE  Typed'
<1>1. Longer
  BY DEF Longer, staff
<1>2. UNCHANGED <<positions, departments, employees, users, userRoles, currencies, settings,
                  saved, files, contended, raced, reranged, pointed>>
  BY DEF staff, company, disk, history
<1> QED BY <1>1, <1>2, StepTypes

LEMMA AddNamedRoleTypes ==
  ASSUME Typed, NEW p \in Procs, AddNamedRole(p)
  PROVE  Typed'
<1>1. PICK h : h = handler[p]
  OBVIOUS
<1>2. /\ h.pc = "addNamedRole" /\ Goto(p, Idle)
      /\ roles' = Append(roles, [name |-> h.name, deleted |-> FALSE])
      /\ UNCHANGED <<staff, users, userRoles, company, disk, history, calls>>
  BY <1>1 DEF AddNamedRole
<1>3. h \in Handler
  BY <1>1, <1>2, TypedHandler DEF Idle
<1>4. h.name \in RoleNames
  BY <1>2, <1>3, HandlerFields
<1>5. [name |-> h.name, deleted |-> FALSE] \in Role
  BY <1>4, RoleTable
<1>6. roles' \in Seq(Role) /\ DOMAIN roles \subseteq DOMAIN roles'
  BY <1>2, <1>5, Appended DEF Typed, TypeOK
<1> QED BY <1>2, <1>6, IdleGoesOn, RolesTypes

LEMMA RenameRoleTypes ==
  ASSUME Typed, NEW p \in Procs, RenameRole(p)
  PROVE  Typed'
<1>1. PICK h : h = handler[p]
  OBVIOUS
<1>2. /\ h.pc = "renameRole" /\ Goto(p, Idle)
      /\ roles' = [roles EXCEPT ![h.role].name = h.name]
      /\ UNCHANGED <<staff, users, userRoles, company, disk, history, calls>>
  BY <1>1 DEF RenameRole
<1>3. h \in Handler
  BY <1>1, <1>2, TypedHandler DEF Idle
<1>4. h.name \in RoleNames /\ h.role \in DOMAIN roles
  BY <1>2, <1>3, HandlerFields
<1>5. [roles[h.role] EXCEPT !.name = h.name] \in Role
  BY <1>4, RoleTable
<1>6. roles' \in Seq(Role) /\ DOMAIN roles' = DOMAIN roles
  BY <1>2, <1>4, <1>5, Replaced DEF Typed, TypeOK
<1> QED BY <1>2, <1>6, IdleGoesOn, RolesTypes

LEMMA DeleteRoleTypes ==
  ASSUME Typed, NEW r \in DOMAIN roles, DeleteRole(r)
  PROVE  Typed'
<1>1. roles' = [roles EXCEPT ![r].deleted = TRUE]
  BY DEF DeleteRole, Deleted
<1>2. [roles[r] EXCEPT !.deleted = TRUE] \in Role
  BY RoleTable
<1>3. roles' \in Seq(Role) /\ DOMAIN roles' = DOMAIN roles
  BY <1>1, <1>2, Replaced DEF Typed, TypeOK
<1>4. calls' \in 0..MaxCalls
  BY OrganisationAssumption DEF Typed, TypeOK, DeleteRole, Call
<1> QED BY <1>3, <1>4, RolesTypes DEF DeleteRole, HandlersGoOn

(* Positions and departments *)

LEMMA PositionTable ==
  ASSUME Typed
  PROVE  /\ \A t \in Titles, x \in Ranges :
               [title |-> t, range |-> x, deleted |-> FALSE] \in Position
         /\ \A i \in DOMAIN positions :
               /\ positions[i] \in Position
               /\ \A t \in OrNone(Titles), x \in OrNone(Ranges) :
                     [positions[i] EXCEPT !.title = Given(t, @), !.range = Given(x, @)]
                        \in Position
               /\ [positions[i] EXCEPT !.deleted = TRUE] \in Position
<1>1. positions \in Seq(Position)
  BY DEF Typed, TypeOK
<1>2. \A i \in DOMAIN positions : positions[i] \in Position
  BY <1>1, Row
<1> QED BY <1>2 DEF Position, Given, OrNone

LEMMA PositionsTypes ==
  ASSUME Typed, HandlersGoOn, positions' \in Seq(Position),
         DOMAIN positions \subseteq DOMAIN positions',
         UNCHANGED <<departments, employees, accounts, company, disk, contended, raced,
                     pointed>>,
         UNCHANGED reranged \/ reranged' \subseteq DOMAIN positions',
         UNCHANGED calls \/ calls' \in 0..MaxCalls
  PROVE  Typed'
<1>1. Longer
  BY DEF Longer, accounts
<1>2. UNCHANGED <<users, roles, userRoles, currencies, settings, saved, files>>
  BY DEF accounts, company, disk
<1> QED BY <1>1, <1>2, StepTypes

LEMMA AddPositionTypes ==
  ASSUME Typed, NEW p \in Procs, AddPosition(p)
  PROVE  Typed'
<1>1. PICK h, x : /\ h = handler[p]
                  /\ x = [title |-> h.title, range |-> h.range, deleted |-> FALSE]
  OBVIOUS
<1>2. /\ h.pc = "addPosition" /\ Goto(p, Idle) /\ positions' = Append(positions, x)
      /\ UNCHANGED <<departments, employees, accounts, company, disk, history, calls>>
  BY <1>1 DEF AddPosition
<1>3. h \in Handler
  BY <1>1, <1>2, TypedHandler DEF Idle
<1>4. h.title \in Titles /\ h.range \in Ranges
  BY <1>2, <1>3, HandlerFields
<1>5. x \in Position
  BY <1>1, <1>4, PositionTable
<1>6. positions' \in Seq(Position) /\ DOMAIN positions \subseteq DOMAIN positions'
  BY <1>2, <1>5, Appended DEF Typed, TypeOK
<1> QED BY <1>2, <1>6, IdleGoesOn, PositionsTypes DEF history

LEMMA SavedPosition ==
  ASSUME Typed, NEW i \in DOMAIN positions, NEW t \in OrNone(Titles),
         NEW x \in OrNone(Ranges)
  PROVE  /\ [positions EXCEPT ![i].title = Given(t, @), ![i].range = Given(x, @)]
              = [positions EXCEPT
                    ![i] = [positions[i] EXCEPT !.title = Given(t, @), !.range = Given(x, @)]]
<1>1. positions \in [DOMAIN positions -> Position]
  BY DEF Typed, TypeOK
<1> QED BY <1>1 DEF Position, Given

LEMMA SavePositionTypes ==
  ASSUME Typed, NEW p \in Procs, SavePosition(p)
  PROVE  Typed'
<1>1. PICK h : h = handler[p]
  OBVIOUS
<1>2. /\ h.pc = "savePosition" /\ Goto(p, Idle)
      /\ positions' = [positions EXCEPT ![h.position].title = Given(h.title, @),
                                        ![h.position].range = Given(h.range, @)]
      /\ reranged' \subseteq reranged \cup {h.position}
      /\ UNCHANGED <<departments, employees, accounts, company, disk, contended, raced,
                     pointed, calls>>
  BY <1>1 DEF SavePosition
<1>3. h \in Handler
  BY <1>1, <1>2, TypedHandler DEF Idle
<1>4. /\ h.position \in DOMAIN positions /\ h.title \in OrNone(Titles)
      /\ h.range \in OrNone(Ranges)
  BY <1>2, <1>3, HandlerFields
<1>5. PICK x : x = [positions[h.position] EXCEPT !.title = Given(h.title, @),
                                                 !.range = Given(h.range, @)]
  OBVIOUS
<1>6. x \in Position
  BY <1>4, <1>5, PositionTable
<1>7. positions' = [positions EXCEPT ![h.position] = x]
  BY <1>2, <1>4, <1>5, SavedPosition
<1>8. positions' \in Seq(Position) /\ DOMAIN positions' = DOMAIN positions
  BY <1>4, <1>6, <1>7, Replaced DEF Typed, TypeOK
<1>9. reranged' \subseteq DOMAIN positions'
  BY <1>2, <1>4, <1>8 DEF Typed, TypeOK
<1> QED BY <1>2, <1>8, <1>9, IdleGoesOn, PositionsTypes

LEMMA DeletePositionTypes ==
  ASSUME Typed, NEW i \in DOMAIN positions, DeletePosition(i)
  PROVE  Typed'
<1>1. positions' = [positions EXCEPT ![i].deleted = TRUE]
  BY DEF DeletePosition, Deleted
<1>2. [positions[i] EXCEPT !.deleted = TRUE] \in Position
  BY PositionTable
<1>3. positions' \in Seq(Position) /\ DOMAIN positions' = DOMAIN positions
  BY <1>1, <1>2, Replaced DEF Typed, TypeOK
<1>4. calls' \in 0..MaxCalls
  BY OrganisationAssumption DEF Typed, TypeOK, DeletePosition, Call
<1> QED BY <1>3, <1>4, PositionsTypes DEF DeletePosition, HandlersGoOn, history

LEMMA DepartmentTable ==
  ASSUME Typed
  PROVE  /\ \A n \in DepartmentNames : [name |-> n, deleted |-> FALSE] \in Department
         /\ \A d \in DOMAIN departments :
               /\ departments[d] \in Department
               /\ \A n \in DepartmentNames : [departments[d] EXCEPT !.name = n] \in Department
               /\ [departments[d] EXCEPT !.deleted = TRUE] \in Department
<1>1. departments \in Seq(Department)
  BY DEF Typed, TypeOK
<1>2. \A d \in DOMAIN departments : departments[d] \in Department
  BY <1>1, Row
<1> QED BY <1>2 DEF Department

LEMMA DepartmentsTypes ==
  ASSUME Typed, HandlersGoOn, departments' \in Seq(Department),
         DOMAIN departments \subseteq DOMAIN departments',
         UNCHANGED <<positions, employees, accounts, company, disk, raced, reranged, pointed>>,
         UNCHANGED contended \/ contended' \subseteq Names,
         UNCHANGED calls \/ calls' \in 0..MaxCalls
  PROVE  Typed'
<1>1. Longer
  BY DEF Longer, accounts
<1>2. UNCHANGED <<users, roles, userRoles, currencies, settings, saved, files>>
  BY DEF accounts, company, disk
<1> QED BY <1>1, <1>2, StepTypes

LEMMA AddDepartmentTypes ==
  ASSUME Typed, NEW p \in Procs, AddDepartment(p)
  PROVE  Typed'
<1>1. PICK h, x : h = handler[p] /\ x = [name |-> h.name, deleted |-> FALSE]
  OBVIOUS
<1>2. /\ h.pc = "addDepartment" /\ Goto(p, Idle) /\ departments' = Append(departments, x)
      /\ UNCHANGED <<positions, employees, accounts, company, disk, history, calls>>
  BY <1>1 DEF AddDepartment
<1>3. h \in Handler
  BY <1>1, <1>2, TypedHandler DEF Idle
<1>4. h.name \in DepartmentNames
  BY <1>2, <1>3, HandlerFields
<1>5. x \in Department
  BY <1>1, <1>4, DepartmentTable
<1>6. departments' \in Seq(Department) /\ DOMAIN departments \subseteq DOMAIN departments'
  BY <1>2, <1>5, Appended DEF Typed, TypeOK
<1> QED BY <1>2, <1>6, IdleGoesOn, DepartmentsTypes DEF history

LEMMA UpdateDepartmentTypes ==
  ASSUME Typed, NEW d \in DOMAIN departments, NEW n \in DepartmentNames,
         UpdateDepartment(d, n)
  PROVE  Typed'
<1>1. departments' = [departments EXCEPT ![d].name = n]
  BY DEF UpdateDepartment
<1>2. [departments[d] EXCEPT !.name = n] \in Department
  BY DepartmentTable
<1>3. departments' \in Seq(Department) /\ DOMAIN departments' = DOMAIN departments
  BY <1>1, <1>2, Replaced DEF Typed, TypeOK
<1>4. calls' \in 0..MaxCalls
  BY OrganisationAssumption DEF Typed, TypeOK, UpdateDepartment, Call
<1>5. contended' \subseteq Names
  <2>1. <<"department", n>> \in Names
    BY DEF Names
  <2> QED BY <2>1 DEF UpdateDepartment, Typed, TypeOK
<1> QED BY <1>3, <1>4, <1>5, DepartmentsTypes DEF UpdateDepartment, HandlersGoOn

LEMMA DeleteDepartmentTypes ==
  ASSUME Typed, NEW d \in DOMAIN departments, DeleteDepartment(d)
  PROVE  Typed'
<1>1. departments' = [departments EXCEPT ![d].deleted = TRUE]
  BY DEF DeleteDepartment, Deleted
<1>2. [departments[d] EXCEPT !.deleted = TRUE] \in Department
  BY DepartmentTable
<1>3. departments' \in Seq(Department) /\ DOMAIN departments' = DOMAIN departments
  BY <1>1, <1>2, Replaced DEF Typed, TypeOK
<1>4. calls' \in 0..MaxCalls
  BY OrganisationAssumption DEF Typed, TypeOK, DeleteDepartment, Call
<1> QED BY <1>3, <1>4, DepartmentsTypes DEF DeleteDepartment, HandlersGoOn, history

(* Employees *)

LEMMA EmployeeTable ==
  ASSUME Typed, NEW e \in DOMAIN employees
  PROVE  /\ employees[e] \in Employee
         /\ \A i \in OrNone(DOMAIN positions), d \in OrNone(DOMAIN departments),
               s \in OrNone(Salaries) :
               [employees[e] EXCEPT !.position = Given(i, @), !.department = Given(d, @),
                                    !.salary = Given(s, @)] \in Employee
         /\ [employees[e] EXCEPT !.deleted = TRUE] \in Employee
<1>1. employees \in Seq(Employee)
  BY DEF Typed, TypeOK
<1>2. employees[e] \in Employee
  BY <1>1, Row
<1> QED BY <1>2 DEF Employee, Given, OrNone

LEMMA AddEmployeeTypes ==
  ASSUME Typed, NEW p \in Procs, AddEmployee(p)
  PROVE  Typed'
<1>1. PICK h, u, x :
         /\ h = handler[p] /\ u = Len(users) + 1
         /\ x = [user |-> u, position |-> h.position, department |-> h.department,
                 salary |-> h.salary, deleted |-> FALSE]
  OBVIOUS
<1>2. /\ h.pc = "addEmployee" /\ Goto(p, Idle)
      /\ \/ /\ users' = Append(users, NewUser(h.login))
            /\ userRoles' = userRoles \cup {<<u, h.role>>}
            /\ employees' = Append(employees, x)
         \/ UNCHANGED <<users, userRoles, employees>>
      /\ UNCHANGED <<positions, departments, roles, company, disk, history, calls>>
  BY <1>1 DEF AddEmployee
<1>3. h \in Handler
  BY <1>1, <1>2, TypedHandler DEF Idle
<1>4. h \in [pc : {"addEmployee"}, login : Logins, role : DOMAIN roles,
             position : DOMAIN positions, department : DOMAIN departments,
             salary : OrNone(Salaries)]
  BY <1>2, <1>3, HandlerFields
<1>5. UNCHANGED <<positions, departments, roles, currencies, settings, saved, files,
                  contended, raced, reranged, pointed, calls>>
  BY <1>2 DEF company, disk, history
<1>6. CASE UNCHANGED <<users, userRoles, employees>>
  <2>1. Longer
    BY <1>5, <1>6 DEF Longer
  <2> QED BY <2>1, <1>2, <1>5, <1>6, IdleGoesOn, StepTypes
<1>7. CASE /\ users' = Append(users, NewUser(h.login))
           /\ userRoles' = userRoles \cup {<<u, h.role>>}
           /\ employees' = Append(employees, x)
  <2>1. NewUser(h.login) \in User
    BY <1>4, NewUserType
  <2>2. users' \in Seq(User) /\ DOMAIN users \subseteq DOMAIN users' /\ u \in DOMAIN users'
    BY <1>1, <1>7, <2>1, Appended DEF Typed, TypeOK
  <2>3. DOMAIN employees \subseteq DOMAIN employees'
    <3>1. employees \in Seq(Employee)
      BY DEF Typed, TypeOK
    <3> QED BY <3>1, <1>7
  <2>4. Longer
    BY <2>2, <2>3, <1>5 DEF Longer
  <2>5. x \in Employee'
    BY <1>1, <1>4, <1>5, <2>2 DEF Employee
  <2>6. employees' \in Seq(Employee')
    <3>1. PICK s, T : s = employees /\ T = Employee'
      OBVIOUS
    <3>2. s \in Seq(Employee)
      BY <3>1 DEF Typed, TypeOK
    <3>3. s \in Seq(T)
      BY <3>1, <3>2, <2>4, EmployeesLast
    <3>4. Append(s, x) \in Seq(T)
      BY <3>1, <3>3, <2>5
    <3> QED BY <3>1, <3>4, <1>7
  <2>7. userRoles' \subseteq (DOMAIN users') \X (DOMAIN roles')
    BY <1>4, <1>5, <1>7, <2>2 DEF Typed, TypeOK
  <2> QED BY <2>2, <2>4, <2>6, <2>7, <1>2, <1>5, IdleGoesOn, StepTypes
<1> QED BY <1>2, <1>6, <1>7

LEMMA EmployeesTypes ==
  ASSUME Typed, HandlersGoOn, employees' \in Seq(Employee),
         DOMAIN employees = DOMAIN employees',
         UNCHANGED <<positions, departments, accounts, company, disk, history>>,
         UNCHANGED calls \/ calls' \in 0..MaxCalls
  PROVE  Typed'
<1>1. Longer
  BY DEF Longer, accounts
<1>2. UNCHANGED <<users, roles, userRoles, currencies, settings, saved, files, contended,
                  raced, reranged, pointed>>
  BY DEF accounts, company, disk, history
<1>3. employees' \in Seq(Employee')
  <2>1. Employee' = Employee
    BY <1>2 DEF Employee
  <2> QED BY <2>1
<1> QED BY <1>1, <1>2, <1>3, StepTypes

LEMMA SavedEmployee ==
  ASSUME Typed, NEW e \in DOMAIN employees, NEW i, NEW d, NEW s
  PROVE  [employees EXCEPT ![e].position = Given(i, @), ![e].department = Given(d, @),
                           ![e].salary = Given(s, @)]
           = [employees EXCEPT
                 ![e] = [employees[e] EXCEPT !.position = Given(i, @),
                                             !.department = Given(d, @),
                                             !.salary = Given(s, @)]]
<1>1. employees \in [DOMAIN employees -> Employee]
  BY DEF Typed, TypeOK
<1> QED BY <1>1 DEF Employee, Given

LEMMA SaveEmployeeTypes ==
  ASSUME Typed, NEW p \in Procs, SaveEmployee(p)
  PROVE  Typed'
<1>1. PICK h : h = handler[p]
  OBVIOUS
<1>2. /\ h.pc = "saveEmployee" /\ Goto(p, Idle)
      /\ employees' = [employees EXCEPT ![h.employee].position = Given(h.position, @),
                                        ![h.employee].department = Given(h.department, @),
                                        ![h.employee].salary = Given(h.salary, @)]
      /\ UNCHANGED <<positions, departments, accounts, company, disk, history, calls>>
  BY <1>1 DEF SaveEmployee
<1>3. h \in Handler
  BY <1>1, <1>2, TypedHandler DEF Idle
<1>4. /\ h.employee \in DOMAIN employees /\ h.position \in OrNone(DOMAIN positions)
      /\ h.department \in OrNone(DOMAIN departments)
      /\ h.salary \in OrNone(Salaries)
  BY <1>2, <1>3, HandlerFields
<1>5. PICK x : x = [employees[h.employee] EXCEPT !.position = Given(h.position, @),
                                                 !.department = Given(h.department, @),
                                                 !.salary = Given(h.salary, @)]
  OBVIOUS
<1>6. x \in Employee
  BY <1>4, <1>5, EmployeeTable
<1>7. employees' = [employees EXCEPT ![h.employee] = x]
  BY <1>2, <1>4, <1>5, SavedEmployee
<1>8. employees' \in Seq(Employee) /\ DOMAIN employees' = DOMAIN employees
  BY <1>4, <1>6, <1>7, Replaced DEF Typed, TypeOK
<1> QED BY <1>2, <1>8, IdleGoesOn, EmployeesTypes

LEMMA DeleteEmployeeTypes ==
  ASSUME Typed, NEW e \in DOMAIN employees, DeleteEmployee(e)
  PROVE  Typed'
<1>1. employees' = [employees EXCEPT ![e].deleted = TRUE]
  BY DEF DeleteEmployee, Deleted
<1>2. [employees[e] EXCEPT !.deleted = TRUE] \in Employee
  BY EmployeeTable
<1>3. employees' \in Seq(Employee) /\ DOMAIN employees' = DOMAIN employees
  BY <1>1, <1>2, Replaced DEF Typed, TypeOK
<1>4. calls' \in 0..MaxCalls
  BY OrganisationAssumption DEF Typed, TypeOK, DeleteEmployee, Call
<1> QED BY <1>3, <1>4, EmployeesTypes DEF DeleteEmployee, HandlersGoOn

(* Currencies and settings *)

LEMMA CompanyTypes ==
  ASSUME Typed, HandlersGoOn,
         UNCHANGED currencies \/ currencies' \in Seq(Currency),
         UNCHANGED settings \/ settings' \in Seq(Codes),
         UNCHANGED <<staff, accounts, disk, history>>,
         UNCHANGED calls \/ calls' \in 0..MaxCalls
  PROVE  Typed'
<1>1. Longer
  BY SameTables
<1>2. UNCHANGED <<positions, departments, employees, users, roles, userRoles, saved, files,
                  contended, raced, reranged, pointed>>
  BY DEF staff, accounts, disk, history
<1> QED BY <1>1, <1>2, StepTypes

LEMMA AddCurrencyTypes ==
  ASSUME Typed, NEW p \in Procs, AddCurrency(p)
  PROVE  Typed'
<1>1. PICK h, free, g :
         /\ h = handler[p]
         /\ free = \A i \in DOMAIN currencies : currencies[i].code # h.code
         /\ g = IF free /\ h.for = "settings" THEN [h EXCEPT !.pc = "addSettings"] ELSE Idle
  OBVIOUS
<1>2. /\ h.pc = "addCurrency" /\ Goto(p, g)
      /\ \/ currencies' = Append(currencies, [code |-> h.code, deleted |-> FALSE])
         \/ UNCHANGED currencies
      /\ UNCHANGED <<staff, accounts, settings, disk, history, calls>>
  BY <1>1 DEF AddCurrency
<1>3. h \in Handler
  BY <1>1, <1>2, TypedHandler DEF Idle
<1>4. h \in [pc : {"addCurrency", "addSettings"}, code : Codes, for : {"currency", "settings"}]
  BY <1>2, <1>3, HandlerFields
<1>5. [h EXCEPT !.pc = "addSettings"]
         \in [pc : {"addCurrency", "addSettings"}, code : Codes, for : {"currency", "settings"}]
  BY <1>4
<1>6. g \in Handler \cup {Idle} /\ Sound(g)'
  BY <1>1, <1>4, <1>5 DEF Handler, Idle, Sound
<1>7. g \in (Handler \cup {Idle})'
  BY <1>2, <1>6, SameTables
<1>8. HandlersGoOn
  BY <1>2, <1>6, <1>7 DEF HandlersGoOn
<1>9. [code |-> h.code, deleted |-> FALSE] \in Currency
  BY <1>4 DEF Currency
<1>10. UNCHANGED currencies \/ currencies' \in Seq(Currency)
  <2>1. currencies \in Seq(Currency)
    BY DEF Typed, TypeOK
  <2>2. Append(currencies, [code |-> h.code, deleted |-> FALSE]) \in Seq(Currency)
    BY <2>1, <1>9
  <2> QED BY <2>2, <1>2
<1> QED BY <1>2, <1>8, <1>10, CompanyTypes

LEMMA DeleteCurrencyTypes ==
  ASSUME Typed, NEW i \in DOMAIN currencies, DeleteCurrency(i)
  PROVE  Typed'
<1>1. currencies' = [currencies EXCEPT ![i].deleted = TRUE]
  BY DEF DeleteCurrency, Deleted
<1>2. currencies \in Seq(Currency)
  BY DEF Typed, TypeOK
<1>3. currencies[i] \in Currency
  BY <1>2, Row
<1>4. [currencies[i] EXCEPT !.deleted = TRUE] \in Currency
  BY <1>3 DEF Currency
<1>5. currencies' \in Seq(Currency)
  BY <1>1, <1>2, <1>4, Replaced
<1>6. calls' \in 0..MaxCalls
  BY OrganisationAssumption DEF Typed, TypeOK, DeleteCurrency, Call
<1> QED BY <1>5, <1>6, CompanyTypes DEF DeleteCurrency, HandlersGoOn

LEMMA AddSettingsTypes ==
  ASSUME Typed, NEW p \in Procs, AddSettings(p)
  PROVE  Typed'
<1>1. PICK h : h = handler[p]
  OBVIOUS
<1>2. /\ h.pc = "addSettings" /\ Goto(p, Idle) /\ settings' = Append(settings, h.code)
      /\ UNCHANGED <<staff, accounts, currencies, disk, history, calls>>
  BY <1>1 DEF AddSettings
<1>3. h \in Handler
  BY <1>1, <1>2, TypedHandler DEF Idle
<1>4. h.code \in Codes
  BY <1>2, <1>3, HandlerFields
<1>5. settings' \in Seq(Codes)
  BY <1>2, <1>4 DEF Typed, TypeOK
<1> QED BY <1>2, <1>5, IdleGoesOn, CompanyTypes

LEMMA UpdateCompanySettingsTypes ==
  ASSUME Typed, NEW c \in Codes, UpdateCompanySettings(c)
  PROVE  Typed'
<1>1. PICK i \in DOMAIN settings : settings' = [settings EXCEPT ![i] = c]
  BY DEF UpdateCompanySettings
<1>2. settings' \in Seq(Codes)
  BY <1>1, Replaced DEF Typed, TypeOK
<1>3. calls' \in 0..MaxCalls
  BY OrganisationAssumption DEF Typed, TypeOK, UpdateCompanySettings, Call
<1> QED BY <1>2, <1>3, CompanyTypes DEF UpdateCompanySettings, HandlersGoOn

LEMMA WritesTypes ==
  ASSUME Typed, NEW p \in Procs, Writes(p)
  PROVE  Typed'
  BY AddRoleTypes, CheckUserTypes, AddUserTypes, SaveUserTypes, SaveFileTypes, SetImageTypes,
     ClearImageTypes, DeleteFileTypes, SetProfileImageTypes, AddNamedRoleTypes,
     RenameRoleTypes, AddPositionTypes, SavePositionTypes, AddDepartmentTypes,
     AddEmployeeTypes, SaveEmployeeTypes, AddCurrencyTypes, AddSettingsTypes DEF Writes

(* What one call does at once *)
Direct ==
    \/ \E u \in DOMAIN users : DeleteUser(u)
    \/ \E r \in DOMAIN roles : DeleteRole(r)
    \/ \E i \in DOMAIN positions : DeletePosition(i)
    \/ \E d \in DOMAIN departments :
          DeleteDepartment(d) \/ \E n \in DepartmentNames : UpdateDepartment(d, n)
    \/ \E e \in DOMAIN employees : DeleteEmployee(e)
    \/ \E i \in DOMAIN currencies : DeleteCurrency(i)
    \/ \E c \in Codes : UpdateCompanySettings(c)

LEMMA NextIs == Next <=> Direct \/ \E p \in Procs : Requests(p) \/ Writes(p)
  BY Zenon DEF Next, Direct

LEMMA DirectTypes == Typed /\ Direct => Typed'
  BY DeleteUserTypes, DeleteRoleTypes, DeletePositionTypes, DeleteDepartmentTypes,
     UpdateDepartmentTypes, DeleteEmployeeTypes, DeleteCurrencyTypes,
     UpdateCompanySettingsTypes DEF Direct

LEMMA InitTypes == Init => Typed
<1> SUFFICES ASSUME Init PROVE Typed
  OBVIOUS
<1> USE OrganisationAssumption
<1>1. users \in Seq(User) /\ DOMAIN users = {1}
  <2>1. PICK x : x = [login |-> CHOOSE n \in Logins : TRUE, image |-> 1, deleted |-> FALSE]
    OBVIOUS
  <2>2. x \in User
    BY <2>1 DEF User, OrNone
  <2>3. users = <<x>>
    BY <2>1 DEF Init
  <2> QED BY <2>2, <2>3
<1>2. roles \in Seq(Role) /\ DOMAIN roles = {1}
  <2>1. PICK x : x = [name |-> CHOOSE n \in RoleNames : Upper[n] = n, deleted |-> FALSE]
    OBVIOUS
  <2>2. \E n \in RoleNames : Upper[n] = n
    <3>1. PICK m \in RoleNames : TRUE
      OBVIOUS
    <3>2. Upper[m] \in RoleNames /\ Upper[Upper[m]] = Upper[m]
      OBVIOUS
    <3> QED BY <3>2
  <2>3. x \in Role
    BY <2>1, <2>2 DEF Role
  <2>4. roles = <<x>>
    BY <2>1 DEF Init
  <2> QED BY <2>3, <2>4
<1>3. PICK r \in Ranges, s \in Salaries :
         /\ positions = <<[title |-> CHOOSE t \in Titles : TRUE, range |-> r,
                           deleted |-> FALSE]>>
         /\ employees = <<[user |-> 1, position |-> 1, department |-> 1, salary |-> s,
                           deleted |-> FALSE]>>
  BY DEF Init
<1>4. positions \in Seq(Position) /\ DOMAIN positions = {1}
  <2>1. PICK x : x = [title |-> CHOOSE t \in Titles : TRUE, range |-> r, deleted |-> FALSE]
    OBVIOUS
  <2>2. x \in Position
    BY <2>1 DEF Position
  <2>3. positions = <<x>>
    BY <1>3, <2>1
  <2> QED BY <2>2, <2>3
<1>5. departments \in Seq(Department) /\ DOMAIN departments = {1}
  <2>1. PICK n \in DepartmentNames : departments = <<[name |-> n, deleted |-> FALSE]>>
    BY DEF Init
  <2>2. [name |-> n, deleted |-> FALSE] \in Department
    BY DEF Department
  <2> QED BY <2>1, <2>2
<1>6. employees \in Seq(Employee)
  <2>1. PICK x : x = [user |-> 1, position |-> 1, department |-> 1, salary |-> s,
                      deleted |-> FALSE]
    OBVIOUS
  <2>2. x \in Employee
    BY <2>1, <1>1, <1>4, <1>5 DEF Employee, OrNone
  <2>3. employees = <<x>>
    BY <1>3, <2>1
  <2> QED BY <2>2, <2>3
<1>7. currencies \in Seq(Currency)
  <2>1. [code |-> Default, deleted |-> FALSE] \in Currency
    BY DEF Currency
  <2>2. CASE currencies = <<>>
    BY <2>2
  <2>3. CASE currencies = <<[code |-> Default, deleted |-> FALSE]>>
    <3>1. PICK x : x = [code |-> Default, deleted |-> FALSE]
      OBVIOUS
    <3>2. x \in Currency /\ currencies = <<x>>
      BY <2>1, <2>3, <3>1
    <3> QED BY <3>2
  <2> QED BY <2>2, <2>3 DEF Init
<1>8. settings \in Seq(Codes)
  BY DEF Init
<1>9. userRoles \subseteq (DOMAIN users) \X (DOMAIN roles)
  BY <1>1, <1>2 DEF Init
<1>10. saved \in Nat /\ files \subseteq 1..saved
  BY DEF Init
<1>11. handler \in [Procs -> Handler \cup {Idle}] /\ \A p \in Procs : Sound(handler[p])
  BY IdleFits DEF Init
<1>12. /\ contended \subseteq Names /\ raced \subseteq DOMAIN employees
       /\ reranged \subseteq DOMAIN positions /\ pointed \subseteq 1..saved
       /\ calls \in 0..MaxCalls
  BY DEF Init
<1> QED
  BY <1>1, <1>2, <1>4, <1>5, <1>6, <1>7, <1>8, <1>9, <1>10, <1>11, <1>12 DEF Typed, TypeOK

LEMMA StutterTypes == Typed /\ UNCHANGED vars => Typed'
<1> SUFFICES ASSUME Typed, UNCHANGED vars PROVE Typed'
  OBVIOUS
<1>1. UNCHANGED <<positions, departments, employees, users, roles, userRoles, currencies,
                  settings, saved, files, handler, contended, raced, reranged, pointed, calls>>
  BY DEF vars, staff, accounts, company, disk, history
<1>2. Longer
  BY <1>1 DEF Longer
<1> QED BY <1>1, <1>2, StepTypes DEF HandlersGoOn

LEMMA NextTypes == Typed /\ [Next]_vars => Typed'
  BY NextIs, RequestsTypes, WritesTypes, DirectTypes, StutterTypes

LEMMA AlwaysTyped == Spec => []Typed
  BY InitTypes, NextTypes, PTL DEF Spec

(* What every table and every handler holds is of its kind, and what refers to a row, *)
(* or to a picture, refers to one there is, whatever was read when.                   *)
THEOREM TypeCorrect == Spec => []TypeOK
<1>1. Typed => TypeOK
  BY DEF Typed
<1> QED BY <1>1, AlwaysTyped, PTL

(* Where the handlers go that keep what they know *)

LEMMA AddRoleGoes ==
  ASSUME Typed, NEW p \in Procs, AddRole(p)
  PROVE  \E g : Goto(p, g) /\ g.pc = "checkUser"
<1>1. PICK h : h = handler[p]
  OBVIOUS
<1>2. /\ h.pc = "addRole"
      /\ Goto(p, [h EXCEPT !.pc = "checkUser", !.role = Len(roles) + 1])
  BY <1>1 DEF AddRole
<1>3. h \in Handler
  BY <1>1, <1>2, TypedHandler DEF Idle
<1>4. h \in [pc : {"addRole", "checkUser"}, login : Logins, name : RoleNames,
             role : OrNone(DOMAIN roles)]
  BY <1>2, <1>3, HandlerFields
<1>5. [h EXCEPT !.pc = "checkUser", !.role = Len(roles) + 1].pc = "checkUser"
  BY <1>4
<1> QED BY <1>2, <1>5

LEMMA ClearImageGoes ==
  ASSUME Typed, NEW p \in Procs, ClearImage(p)
  PROVE  \E g : Goto(p, g) /\ g.pc = "deleteFile"
<1>1. PICK h : h = handler[p]
  OBVIOUS
<1>2. h.pc = "clearImage" /\ Goto(p, [h EXCEPT !.pc = "deleteFile"])
  BY <1>1 DEF ClearImage
<1>3. h \in Handler
  BY <1>1, <1>2, TypedHandler DEF Idle
<1>4. h \in [pc : {"saveFile", "deleteFile", "clearImage"}, user : DOMAIN users,
             old : OrNone(Nat)]
  BY <1>2, <1>3, HandlerFields
<1>5. [h EXCEPT !.pc = "deleteFile"].pc = "deleteFile"
  BY <1>4
<1> QED BY <1>2, <1>5

LEMMA AddCurrencyGoes ==
  ASSUME Typed, NEW p \in Procs, AddCurrency(p)
  PROVE  \/ Goto(p, Idle)
         \/ /\ handler[p].for = "settings"
            /\ \E g : Goto(p, g) /\ g.pc = "addSettings" /\ g.for = "settings"
<1>1. PICK h : h = handler[p]
  OBVIOUS
<1>2. /\ h.pc = "addCurrency"
      /\ \/ Goto(p, Idle)
         \/ h.for = "settings" /\ Goto(p, [h EXCEPT !.pc = "addSettings"])
  BY <1>1 DEF AddCurrency
<1>3. h \in Handler
  BY <1>1, <1>2, TypedHandler DEF Idle
<1>4. h \in [pc : {"addCurrency", "addSettings"}, code : Codes, for : {"currency", "settings"}]
  BY <1>2, <1>3, HandlerFields
<1>5. /\ [h EXCEPT !.pc = "addSettings"].pc = "addSettings"
      /\ [h EXCEPT !.pc = "addSettings"].for = h.for
  BY <1>4
<1> QED BY <1>1, <1>2, <1>5

-----------------------------------------------------------------------------
(* Pictures *)

(* The picture a handler will delete, and the one it has saved *)
Olds(h) == IF h.pc \in {"saveFile", "setImage", "clearImage", "deleteFile"} THEN {h.old} ELSE {}
News(h) == IF h.pc = "setImage" THEN {h.new} ELSE {}

(* Pictures that nobody put in the own profile *)
Kept == (1..saved) \ pointed

(* At most one user refers to it. *)
OneOwner(x) == \A u, v \in DOMAIN users : users[u].image = x /\ users[v].image = x => u = v

(* Who is to delete it does so after that user's row was changed. *)
StillOwned(x) ==
    \A p \in Procs, u \in DOMAIN users :
        x \in Olds(handler[p]) /\ users[u].image = x =>
            handler[p].pc # "deleteFile" /\ u = handler[p].user

(* Before a picture is some user's it is on the disk, and one handler's alone. *)
OnlyNew(x) ==
    \A p \in Procs : x \in News(handler[p]) =>
        /\ x \in files
        /\ \A u \in DOMAIN users : users[u].image # x
        /\ \A q \in Procs : x \notin Olds(handler[q]) /\ (x \in News(handler[q]) => q = p)

Images ==
    /\ \A u \in DOMAIN users : users[u].image \in OrNone(1..saved)
    /\ \A p \in Procs : Olds(handler[p]) \cup News(handler[p]) \subseteq OrNone(1..saved)

Pictures ==
    /\ Images
    /\ \A x \in Kept : OneOwner(x) /\ StillOwned(x) /\ OnlyNew(x)
    /\ ImageOnDisk

(* Whoever has no picture in hand leaves them as they are. *)
LEMMA PicturesFrame ==
  ASSUME Typed, Pictures, UNCHANGED <<disk, pointed>>,
         \A u \in DOMAIN users' :
            \/ users'[u].image = None
            \/ u \in DOMAIN users /\ users'[u].image = users[u].image,
         \A p \in Procs :
            \/ handler'[p] = handler[p]
            \/ Olds(handler'[p]) = {} /\ News(handler'[p]) = {}
  PROVE  Pictures'
<1>1. Kept' = Kept /\ files' = files /\ saved' = saved /\ pointed' = pointed
  BY DEF Kept, disk
<1>2. Images'
  <2>1. \A u \in DOMAIN users' : users'[u].image \in OrNone(1..saved)
    BY DEF Pictures, Images, OrNone
  <2>2. \A p \in Procs : Olds(handler'[p]) \cup News(handler'[p]) \subseteq OrNone(1..saved)
    BY DEF Pictures, Images
  <2> QED BY <1>1, <2>1, <2>2 DEF Images, Olds, News
<1>3. \A x \in Kept : x # None
  BY OrganisationAssumption DEF Kept
<1>4. ASSUME NEW x \in Kept
      PROVE  OneOwner(x)' /\ StillOwned(x)' /\ OnlyNew(x)'
  <2>1. OneOwner(x) /\ StillOwned(x) /\ OnlyNew(x)
    BY DEF Pictures
  <2>2. \A u \in DOMAIN users' :
           users'[u].image = x => u \in DOMAIN users /\ users[u].image = x
    BY <1>3
  <2>3. OneOwner(x)'
    BY <2>1, <2>2 DEF OneOwner
  <2>4. StillOwned(x)'
    <3> SUFFICES ASSUME NEW p \in Procs, NEW u \in DOMAIN users',
                        x \in Olds(handler'[p]), users'[u].image = x
                 PROVE  handler'[p].pc # "deleteFile" /\ u = handler'[p].user
      BY DEF StillOwned, Olds
    <3>1. handler'[p] = handler[p]
      OBVIOUS
    <3> QED BY <3>1, <2>1, <2>2 DEF StillOwned
  <2>5. OnlyNew(x)'
    <3> SUFFICES ASSUME NEW p \in Procs, x \in News(handler'[p])
                 PROVE  /\ x \in files'
                        /\ \A u \in DOMAIN users' : users'[u].image # x
                        /\ \A q \in Procs : /\ x \notin Olds(handler'[q])
                                            /\ x \in News(handler'[q]) => q = p
      BY DEF OnlyNew, Olds, News
    <3>1. x \in News(handler[p])
      OBVIOUS
    <3>2. /\ x \in files
          /\ \A u \in DOMAIN users : users[u].image # x
          /\ \A q \in Procs : x \notin Olds(handler[q]) /\ (x \in News(handler[q]) => q = p)
      BY <3>1, <2>1 DEF OnlyNew
    <3> QED BY <3>2, <2>2, <1>1
  <2> QED BY <2>3, <2>4, <2>5
<1>5. ImageOnDisk'
  BY <1>1 DEF Pictures, ImageOnDisk
<1> QED BY <1>1, <1>2, <1>4, <1>5 DEF Pictures

(* A handler goes on. *)
LEMMA Went ==
  ASSUME Typed, NEW p \in Procs, NEW h, Goto(p, h)
  PROVE  \A q \in Procs : handler'[q] = IF q = p THEN h ELSE handler[q]
  BY DEF Goto, Typed, TypeOK

LEMMA PicturesAside ==
  ASSUME Typed, Pictures, NEW p \in Procs, NEW h, Goto(p, h),
         Olds(h) = {}, News(h) = {}, UNCHANGED <<disk, pointed>>,
         \A u \in DOMAIN users' :
            \/ users'[u].image = None
            \/ u \in DOMAIN users /\ users'[u].image = users[u].image
  PROVE  Pictures'
<1>1. \A q \in Procs : \/ handler'[q] = handler[q]
                       \/ Olds(handler'[q]) = {} /\ News(handler'[q]) = {}
  BY Went
<1> QED BY <1>1, PicturesFrame

(* Who is let in to change a picture has looked up the one that is there. *)
LEMMA RequestPictures ==
  ASSUME Typed, Pictures, NEW p \in Procs, NEW h, LetIn(p, h)
  PROVE  Pictures'
<1>1. Goto(p, h) /\ UNCHANGED <<users, saved, files, pointed>> /\ Read(h) /\ h \in Handler
  BY DEF LetIn, Start, Proceed, accounts, disk
<1>2. \A q \in Procs : handler'[q] = IF q = p THEN h ELSE handler[q]
  BY <1>1, Went
<1>3. CASE h.pc \notin {"saveFile", "clearImage"}
  <2>1. Olds(h) = {} /\ News(h) = {}
    BY <1>1, <1>3 DEF Olds, News, Read
  <2> QED BY <1>1, <2>1, PicturesAside DEF disk
<1>4. CASE h.pc \in {"saveFile", "clearImage"}
  <2>1. PICK x, u : x = h.old /\ u = h.user
    OBVIOUS
  <2>2. u \in DOMAIN users /\ users[u].image = x
    BY <1>1, <1>4, <2>1, HandlerFields DEF Read
  <2>3. Olds(h) = {x} /\ News(h) = {} /\ h.pc # "deleteFile"
    BY <1>4, <2>1 DEF Olds, News
  <2>4. x \in OrNone(1..saved)
    BY <2>2 DEF Pictures, Images
  <2>5. Images'
    BY <1>1, <1>2, <2>3, <2>4 DEF Pictures, Images, Olds, News
  <2>6. ASSUME NEW y \in Kept
        PROVE  OneOwner(y)' /\ StillOwned(y)' /\ OnlyNew(y)'
    <3>1. OneOwner(y) /\ StillOwned(y) /\ OnlyNew(y)
      BY DEF Pictures
    <3>2. OneOwner(y)'
      BY <3>1, <1>1 DEF OneOwner
    <3>3. StillOwned(y)'
      <4> SUFFICES ASSUME NEW q \in Procs, NEW v \in DOMAIN users,
                          y \in Olds(handler'[q]), users[v].image = y
                   PROVE  handler'[q].pc # "deleteFile" /\ v = handler'[q].user
        BY <1>1 DEF StillOwned, Olds
      <4>1. CASE q = p
        BY <4>1, <1>2, <2>1, <2>2, <2>3, <3>1 DEF OneOwner
      <4>2. CASE q # p
        BY <4>2, <1>2, <3>1 DEF StillOwned
      <4> QED BY <4>1, <4>2
    <3>4. OnlyNew(y)'
      <4> SUFFICES ASSUME NEW q \in Procs, y \in News(handler'[q])
                   PROVE  /\ y \in files'
                          /\ \A v \in DOMAIN users : users[v].image # y
                          /\ \A r \in Procs : /\ y \notin Olds(handler'[r])
                                              /\ y \in News(handler'[r]) => r = q
        BY <1>1 DEF OnlyNew, Olds, News
      <4>1. q # p /\ y \in News(handler[q])
        BY <1>2, <2>3
      <4>2. /\ y \in files
            /\ \A v \in DOMAIN users : users[v].image # y
            /\ \A r \in Procs : y \notin Olds(handler[r]) /\ (y \in News(handler[r]) => r = q)
        BY <4>1, <3>1 DEF OnlyNew
      <4>3. y # x
        BY <4>2, <2>2
      <4> QED BY <1>1, <1>2, <4>2, <4>3, <2>3
    <3> QED BY <3>2, <3>3, <3>4
  <2>7. Kept' = Kept /\ ImageOnDisk'
    BY <1>1 DEF Kept, Pictures, ImageOnDisk
  <2> QED BY <2>5, <2>6, <2>7 DEF Pictures
<1> QED BY <1>3, <1>4

LEMMA ImageWritten ==
  ASSUME Typed, NEW u \in DOMAIN users, NEW x, users' = [users EXCEPT ![u].image = x]
  PROVE  /\ DOMAIN users' = DOMAIN users
         /\ \A v \in DOMAIN users : users'[v].image = IF v = u THEN x ELSE users[v].image
  BY UserFields DEF User, Typed, TypeOK

(* The new picture is a new one. *)
LEMMA SaveFilePictures ==
  ASSUME Typed, Pictures, NEW p \in Procs, SaveFile(p)
  PROVE  Pictures'
<1>1. PICK h, new, g :
         /\ h = handler[p] /\ new = saved + 1
         /\ g = [pc |-> "setImage", user |-> h.user, old |-> h.old, new |-> new]
  OBVIOUS
<1>2. /\ h.pc = "saveFile" /\ Goto(p, g)
      /\ saved' = new /\ files' = files \cup {new}
      /\ UNCHANGED <<users, pointed>>
  BY <1>1 DEF SaveFile, accounts, history
<1>3. \A q \in Procs : handler'[q] = IF q = p THEN g ELSE handler[q]
  BY <1>2, Went
<1>4. saved \in Nat /\ pointed \subseteq 1..saved /\ None \notin Nat
  BY OrganisationAssumption DEF Typed, TypeOK
<1>5. /\ Olds(g) = {h.old} /\ Olds(h) = {h.old} /\ News(g) = {new} /\ News(h) = {}
      /\ g.pc # "deleteFile" /\ g.user = h.user
  BY <1>1, <1>2 DEF Olds, News
<1>6. Kept' = Kept \cup {new} /\ new \notin 1..saved /\ new # None
  BY <1>1, <1>2, <1>4 DEF Kept
<1>7. /\ \A u \in DOMAIN users : users[u].image # new
      /\ \A q \in Procs : new \notin Olds(handler[q]) \cup News(handler[q])
  BY <1>6 DEF Pictures, Images, OrNone
<1>8. Images'
  <2>1. OrNone(1..saved) \subseteq OrNone(1..saved') /\ new \in OrNone(1..saved')
    BY <1>1, <1>2, <1>4 DEF OrNone
  <2>2. \A u \in DOMAIN users : users[u].image \in OrNone(1..saved')
    BY <2>1 DEF Pictures, Images
  <2>3. \A q \in Procs : Olds(handler[q]) \cup News(handler[q]) \subseteq OrNone(1..saved')
    BY <2>1 DEF Pictures, Images
  <2>4. Olds(g) \cup News(g) \subseteq OrNone(1..saved')
    BY <2>1, <2>3, <1>1, <1>5
  <2>5. \A q \in Procs : Olds(handler'[q]) \cup News(handler'[q]) \subseteq OrNone(1..saved')
    BY <2>3, <2>4, <1>3
  <2> QED BY <2>2, <2>5, <1>2 DEF Images, Olds, News
<1>9. ASSUME NEW x \in Kept
      PROVE  OneOwner(x)' /\ StillOwned(x)' /\ OnlyNew(x)'
  <2>1. OneOwner(x) /\ StillOwned(x) /\ OnlyNew(x) /\ x # new
    BY <1>6 DEF Pictures, Kept
  <2>2. OneOwner(x)'
    BY <2>1, <1>2 DEF OneOwner
  <2>3. StillOwned(x)'
    <3> SUFFICES ASSUME NEW q \in Procs, NEW v \in DOMAIN users,
                        x \in Olds(handler'[q]), users[v].image = x
                 PROVE  handler'[q].pc # "deleteFile" /\ v = handler'[q].user
      BY <1>2 DEF StillOwned, Olds
    <3>1. CASE q = p
      BY <3>1, <2>1, <1>1, <1>3, <1>5 DEF StillOwned
    <3>2. CASE q # p
      BY <3>2, <2>1, <1>3 DEF StillOwned
    <3> QED BY <3>1, <3>2
  <2>4. OnlyNew(x)'
    <3> SUFFICES ASSUME NEW q \in Procs, x \in News(handler'[q])
                 PROVE  /\ x \in files'
                        /\ \A v \in DOMAIN users : users[v].image # x
                        /\ \A r \in Procs : /\ x \notin Olds(handler'[r])
                                            /\ x \in News(handler'[r]) => r = q
      BY <1>2 DEF OnlyNew, Olds, News
    <3>1. q # p /\ x \in News(handler[q])
      BY <1>3, <1>5, <2>1
    <3>2. /\ x \in files
          /\ \A v \in DOMAIN users : users[v].image # x
          /\ \A r \in Procs : x \notin Olds(handler[r]) /\ (x \in News(handler[r]) => r = q)
      BY <3>1, <2>1 DEF OnlyNew
    <3> QED BY <3>2, <2>1, <1>1, <1>2, <1>3, <1>5
  <2> QED BY <2>2, <2>3, <2>4
<1>10. OneOwner(new)' /\ StillOwned(new)' /\ OnlyNew(new)'
  <2>1. \A q \in Procs : new \notin Olds(handler'[q]) /\ (new \in News(handler'[q]) => q = p)
    BY <1>1, <1>3, <1>5, <1>7
  <2>2. OneOwner(new)'
    BY <1>2, <1>7 DEF OneOwner
  <2>3. StillOwned(new)'
    BY <2>1 DEF StillOwned, Olds
  <2>4. OnlyNew(new)'
    BY <2>1, <1>2, <1>7 DEF OnlyNew, Olds, News
  <2> QED BY <2>2, <2>3, <2>4
<1>11. ImageOnDisk'
  BY <1>2 DEF Pictures, ImageOnDisk
<1> QED BY <1>6, <1>8, <1>9, <1>10, <1>11 DEF Pictures

(* The row refers to the new picture, and the old one is nobody's. *)
LEMMA SetImagePictures ==
  ASSUME Typed, Pictures, NEW p \in Procs, SetImage(p)
  PROVE  Pictures'
<1>1. PICK h, u, old, new, g :
         /\ h = handler[p] /\ u = h.user /\ old = h.old /\ new = h.new
         /\ g = IF old = None THEN Idle ELSE [pc |-> "deleteFile", user |-> u, old |-> old]
  OBVIOUS
<1>2. /\ h.pc = "setImage" /\ Goto(p, g)
      /\ users' = [users EXCEPT ![u].image = new]
      /\ UNCHANGED <<saved, files, pointed>>
  BY <1>1 DEF SetImage, disk, history
<1>3. \A q \in Procs : handler'[q] = IF q = p THEN g ELSE handler[q]
  BY <1>2, Went
<1>4. u \in DOMAIN users /\ new \in Nat /\ new # None
  BY <1>1, <1>2, PictureFields, OrganisationAssumption
<1>5. /\ DOMAIN users' = DOMAIN users
      /\ \A v \in DOMAIN users : users'[v].image = IF v = u THEN new ELSE users[v].image
  BY <1>2, <1>4, ImageWritten
<1>6. /\ Olds(h) = {old} /\ News(h) = {new} /\ Olds(g) \subseteq {old} /\ News(g) = {}
      /\ h.pc # "deleteFile"
  BY <1>1, <1>2 DEF Olds, News, Idle
<1>7. Kept' = Kept
  BY <1>2 DEF Kept
<1>8. new \in 1..saved
  BY <1>1, <1>4, <1>6 DEF Pictures, Images, OrNone
<1>9. new \in Kept => /\ new \in files /\ new # old
                      /\ \A v \in DOMAIN users : users[v].image # new
                      /\ \A q \in Procs : /\ new \notin Olds(handler[q])
                                          /\ new \in News(handler[q]) => q = p
  BY <1>1, <1>6 DEF Pictures, OnlyNew
<1>10. Images'
  <2>1. \A v \in DOMAIN users' : users'[v].image \in OrNone(1..saved')
    BY <1>2, <1>5, <1>8 DEF Pictures, Images, OrNone
  <2>2. Olds(g) \cup News(g) \subseteq OrNone(1..saved')
    BY <1>1, <1>2, <1>6 DEF Pictures, Images
  <2>3. \A q \in Procs : Olds(handler'[q]) \cup News(handler'[q]) \subseteq OrNone(1..saved')
    BY <2>2, <1>2, <1>3 DEF Pictures, Images
  <2> QED BY <2>1, <2>3 DEF Images, Olds, News
<1>11. ASSUME NEW x \in Kept
       PROVE  OneOwner(x)' /\ StillOwned(x)' /\ OnlyNew(x)'
  <2>1. OneOwner(x) /\ StillOwned(x) /\ OnlyNew(x)
    BY DEF Pictures
  <2>2. OneOwner(x)'
    <3> SUFFICES ASSUME NEW v \in DOMAIN users, NEW w \in DOMAIN users,
                        users'[v].image = x, users'[w].image = x
                 PROVE  v = w
      BY <1>5 DEF OneOwner
    <3>1. CASE x = new
      BY <3>1, <1>5, <1>9
    <3>2. CASE x # new
      BY <3>2, <1>5, <2>1 DEF OneOwner
    <3> QED BY <3>1, <3>2
  <2>3. StillOwned(x)'
    <3> SUFFICES ASSUME NEW q \in Procs, NEW v \in DOMAIN users,
                        x \in Olds(handler'[q]), users'[v].image = x
                 PROVE  handler'[q].pc # "deleteFile" /\ v = handler'[q].user
      BY <1>5 DEF StillOwned, Olds
    <3>1. CASE q = p
      <4>1. x = old /\ x # new
        BY <3>1, <1>3, <1>6, <1>9
      <4>2. v # u /\ users[v].image = x
        BY <4>1, <1>5
      <4>3. v = u
        BY <4>1, <4>2, <2>1, <1>1, <1>6 DEF StillOwned
      <4> QED BY <4>2, <4>3
    <3>2. CASE q # p
      <4>1. x \in Olds(handler[q]) /\ x # new
        BY <3>2, <1>3, <1>9
      <4>2. users[v].image = x
        BY <4>1, <1>5
      <4> QED BY <4>1, <4>2, <3>2, <1>3, <2>1 DEF StillOwned
    <3> QED BY <3>1, <3>2
  <2>4. OnlyNew(x)'
    <3> SUFFICES ASSUME NEW q \in Procs, x \in News(handler'[q])
                 PROVE  /\ x \in files'
                        /\ \A v \in DOMAIN users : users'[v].image # x
                        /\ \A r \in Procs : /\ x \notin Olds(handler'[r])
                                            /\ x \in News(handler'[r]) => r = q
      BY <1>5 DEF OnlyNew, Olds, News
    <3>1. q # p /\ x \in News(handler[q])
      BY <1>3, <1>6
    <3>2. /\ x \in files
          /\ \A v \in DOMAIN users : users[v].image # x
          /\ \A r \in Procs : x \notin Olds(handler[r]) /\ (x \in News(handler[r]) => r = q)
      BY <3>1, <2>1 DEF OnlyNew
    <3>3. x # new
      BY <3>1, <1>9
    <3>4. x # old
      BY <3>2, <1>1, <1>6
    <3> QED BY <3>2, <3>3, <3>4, <1>2, <1>3, <1>5, <1>6
  <2> QED BY <2>2, <2>3, <2>4
<1>12. ImageOnDisk'
  <2>1. new \in files \cup pointed
    BY <1>8, <1>9 DEF Kept
  <2> QED BY <2>1, <1>2, <1>5 DEF Pictures, ImageOnDisk
<1> QED BY <1>7, <1>10, <1>11, <1>12 DEF Pictures

LEMMA ClearImagePictures ==
  ASSUME Typed, Pictures, NEW p \in Procs, ClearImage(p)
  PROVE  Pictures'
<1>1. PICK h, u, old, g :
         /\ h = handler[p] /\ u = h.user /\ old = h.old /\ g = [h EXCEPT !.pc = "deleteFile"]
  OBVIOUS
<1>2. /\ h.pc = "clearImage" /\ Goto(p, g)
      /\ users' = [users EXCEPT ![u].image = None]
      /\ UNCHANGED <<saved, files, pointed>>
  BY <1>1 DEF ClearImage, disk, history
<1>3. \A q \in Procs : handler'[q] = IF q = p THEN g ELSE handler[q]
  BY <1>2, Went
<1>4. h \in [pc : {"saveFile", "deleteFile", "clearImage"}, user : DOMAIN users,
             old : OrNone(Nat)]
  BY <1>1, <1>2, PictureFields
<1>5. /\ DOMAIN users' = DOMAIN users
      /\ \A v \in DOMAIN users : users'[v].image = IF v = u THEN None ELSE users[v].image
  BY <1>1, <1>2, <1>4, ImageWritten
<1>6. /\ Olds(h) = {old} /\ News(h) = {} /\ Olds(g) = {old} /\ News(g) = {}
      /\ h.pc # "deleteFile"
  BY <1>1, <1>2, <1>4 DEF Olds, News
<1>7. Kept' = Kept /\ None \notin Kept
  BY <1>2, OrganisationAssumption DEF Kept
<1>8. Images'
  <2>1. \A v \in DOMAIN users' : users'[v].image \in OrNone(1..saved')
    BY <1>2, <1>5 DEF Pictures, Images, OrNone
  <2>2. Olds(g) \cup News(g) \subseteq OrNone(1..saved')
    BY <1>1, <1>2, <1>6 DEF Pictures, Images
  <2>3. \A q \in Procs : Olds(handler'[q]) \cup News(handler'[q]) \subseteq OrNone(1..saved')
    BY <2>2, <1>2, <1>3 DEF Pictures, Images
  <2> QED BY <2>1, <2>3 DEF Images, Olds, News
<1>9. ASSUME NEW x \in Kept
      PROVE  OneOwner(x)' /\ StillOwned(x)' /\ OnlyNew(x)'
  <2>1. OneOwner(x) /\ StillOwned(x) /\ OnlyNew(x) /\ x # None
    BY <1>7 DEF Pictures
  <2>2. \A v \in DOMAIN users : users'[v].image = x => v # u /\ users[v].image = x
    BY <2>1, <1>5
  <2>3. OneOwner(x)'
    BY <2>1, <2>2, <1>5 DEF OneOwner
  <2>4. StillOwned(x)'
    <3> SUFFICES ASSUME NEW q \in Procs, NEW v \in DOMAIN users,
                        x \in Olds(handler'[q]), users'[v].image = x
                 PROVE  handler'[q].pc # "deleteFile" /\ v = handler'[q].user
      BY <1>5 DEF StillOwned, Olds
    <3>1. CASE q = p
      <4>1. x \in Olds(h) /\ v # u /\ users[v].image = x
        BY <3>1, <2>2, <1>3, <1>6
      <4>2. v = u
        BY <4>1, <2>1, <1>1 DEF StillOwned
      <4> QED BY <4>1, <4>2
    <3>2. CASE q # p
      BY <3>2, <2>1, <2>2, <1>3 DEF StillOwned
    <3> QED BY <3>1, <3>2
  <2>5. OnlyNew(x)'
    <3> SUFFICES ASSUME NEW q \in Procs, x \in News(handler'[q])
                 PROVE  /\ x \in files'
                        /\ \A v \in DOMAIN users : users'[v].image # x
                        /\ \A r \in Procs : /\ x \notin Olds(handler'[r])
                                            /\ x \in News(handler'[r]) => r = q
      BY <1>5 DEF OnlyNew, Olds, News
    <3>1. q # p /\ x \in News(handler[q])
      BY <1>3, <1>6
    <3>2. /\ x \in files
          /\ \A v \in DOMAIN users : users[v].image # x
          /\ \A r \in Procs : x \notin Olds(handler[r]) /\ (x \in News(handler[r]) => r = q)
      BY <3>1, <2>1 DEF OnlyNew
    <3> QED BY <3>2, <2>2, <1>1, <1>2, <1>3, <1>6
  <2> QED BY <2>3, <2>4, <2>5
<1>10. ImageOnDisk'
  BY <1>2, <1>5 DEF Pictures, ImageOnDisk
<1> QED BY <1>7, <1>8, <1>9, <1>10 DEF Pictures

(* What is deleted is nobody's, and nobody's next. *)
LEMMA DeleteFilePictures ==
  ASSUME Typed, Pictures, NEW p \in Procs, DeleteFile(p)
  PROVE  Pictures'
<1>1. PICK h, old : h = handler[p] /\ old = h.old
  OBVIOUS
<1>2. /\ h.pc = "deleteFile" /\ Goto(p, Idle) /\ files' = files \ {old}
      /\ UNCHANGED <<users, saved, pointed>>
  BY <1>1 DEF DeleteFile, Superseded, accounts, history
<1>3. \A q \in Procs : handler'[q] = IF q = p THEN Idle ELSE handler[q]
  BY <1>2, Went
<1>4. Olds(h) = {old} /\ Olds(Idle) = {} /\ News(Idle) = {}
  BY <1>1, <1>2 DEF Olds, News, Idle
<1>5. Kept' = Kept
  BY <1>2 DEF Kept
<1>6. Images'
  <2>1. \A q \in Procs : Olds(handler'[q]) \cup News(handler'[q]) \subseteq OrNone(1..saved')
    BY <1>2, <1>3, <1>4 DEF Pictures, Images
  <2> QED BY <2>1, <1>2 DEF Pictures, Images, Olds, News
<1>7. old \in Kept => \A v \in DOMAIN users : users[v].image # old
  BY <1>1, <1>2, <1>4 DEF Pictures, StillOwned
<1>8. ASSUME NEW x \in Kept
      PROVE  OneOwner(x)' /\ StillOwned(x)' /\ OnlyNew(x)'
  <2>1. OneOwner(x) /\ StillOwned(x) /\ OnlyNew(x)
    BY DEF Pictures
  <2>2. OneOwner(x)'
    BY <2>1, <1>2 DEF OneOwner
  <2>3. StillOwned(x)'
    <3> SUFFICES ASSUME NEW q \in Procs, NEW v \in DOMAIN users,
                        x \in Olds(handler'[q]), users[v].image = x
                 PROVE  handler'[q].pc # "deleteFile" /\ v = handler'[q].user
      BY <1>2 DEF StillOwned, Olds
    <3>1. q # p
      BY <1>3, <1>4
    <3> QED BY <3>1, <2>1, <1>3 DEF StillOwned
  <2>4. OnlyNew(x)'
    <3> SUFFICES ASSUME NEW q \in Procs, x \in News(handler'[q])
                 PROVE  /\ x \in files'
                        /\ \A v \in DOMAIN users : users[v].image # x
                        /\ \A r \in Procs : /\ x \notin Olds(handler'[r])
                                            /\ x \in News(handler'[r]) => r = q
      BY <1>2 DEF OnlyNew, Olds, News
    <3>1. q # p /\ x \in News(handler[q])
      BY <1>3, <1>4
    <3>2. /\ x \in files
          /\ \A v \in DOMAIN users : users[v].image # x
          /\ \A r \in Procs : x \notin Olds(handler[r]) /\ (x \in News(handler[r]) => r = q)
      BY <3>1, <2>1 DEF OnlyNew
    <3>3. x # old
      BY <3>2, <1>1, <1>4
    <3> QED BY <3>2, <3>3, <1>2, <1>3, <1>4
  <2> QED BY <2>2, <2>3, <2>4
<1>9. ImageOnDisk'
  <2> SUFFICES ASSUME NEW v \in DOMAIN users
               PROVE  users[v].image \in files' \cup pointed \cup {None}
    BY <1>2 DEF ImageOnDisk
  <2>1. users[v].image \in files \cup pointed \cup {None}
    BY DEF Pictures, ImageOnDisk
  <2>2. CASE users[v].image = old /\ old \notin pointed
    <3>1. old \in OrNone(1..saved)
      BY <2>2 DEF Pictures, Images
    <3>2. old \in Kept \/ old = None
      BY <3>1, <2>2 DEF Kept, OrNone
    <3> QED BY <3>2, <2>2, <1>7
  <2> QED BY <2>1, <2>2, <1>2
<1> QED BY <1>5, <1>6, <1>8, <1>9 DEF Pictures

(* From now on nothing is claimed of the picture that is put in a profile. *)
LEMMA SetProfileImagePictures ==
  ASSUME Typed, Pictures, NEW p \in Procs, SetProfileImage(p)
  PROVE  Pictures'
<1>1. PICK h, u, new : h = handler[p] /\ u = h.user /\ new = h.new
  OBVIOUS
<1>2. /\ h.pc = "setProfile" /\ Goto(p, Idle)
      /\ users' = [users EXCEPT ![u].image = new]
      /\ pointed' = pointed \cup ({new} \ {None})
      /\ UNCHANGED <<saved, files>>
  BY <1>1 DEF SetProfileImage, disk
<1>3. \A q \in Procs : handler'[q] = IF q = p THEN Idle ELSE handler[q]
  BY <1>2, Went
<1>4. u \in DOMAIN users /\ new \in OrNone(1..saved)
  BY <1>1, <1>2, PictureFields
<1>5. /\ DOMAIN users' = DOMAIN users
      /\ \A v \in DOMAIN users : users'[v].image = IF v = u THEN new ELSE users[v].image
  BY <1>2, <1>4, ImageWritten
<1>6. Olds(Idle) = {} /\ News(Idle) = {}
  BY DEF Olds, News, Idle
<1>7. Kept' \subseteq Kept /\ new \notin Kept'
  BY <1>2, OrganisationAssumption DEF Kept
<1>8. Images'
  <2>1. \A v \in DOMAIN users' : users'[v].image \in OrNone(1..saved')
    BY <1>2, <1>4, <1>5 DEF Pictures, Images
  <2>2. \A q \in Procs : Olds(handler'[q]) \cup News(handler'[q]) \subseteq OrNone(1..saved')
    BY <1>2, <1>3, <1>6 DEF Pictures, Images
  <2> QED BY <2>1, <2>2 DEF Images, Olds, News
<1>9. ASSUME NEW x \in Kept'
      PROVE  OneOwner(x)' /\ StillOwned(x)' /\ OnlyNew(x)'
  <2>1. OneOwner(x) /\ StillOwned(x) /\ OnlyNew(x) /\ x # new
    BY <1>7 DEF Pictures
  <2>2. \A v \in DOMAIN users : users'[v].image = x => users[v].image = x
    BY <2>1, <1>5
  <2>3. OneOwner(x)'
    BY <2>1, <2>2, <1>5 DEF OneOwner
  <2>4. StillOwned(x)'
    <3> SUFFICES ASSUME NEW q \in Procs, NEW v \in DOMAIN users,
                        x \in Olds(handler'[q]), users'[v].image = x
                 PROVE  handler'[q].pc # "deleteFile" /\ v = handler'[q].user
      BY <1>5 DEF StillOwned, Olds
    <3>1. q # p
      BY <1>3, <1>6
    <3> QED BY <3>1, <2>1, <2>2, <1>3 DEF StillOwned
  <2>5. OnlyNew(x)'
    <3> SUFFICES ASSUME NEW q \in Procs, x \in News(handler'[q])
                 PROVE  /\ x \in files'
                        /\ \A v \in DOMAIN users : users'[v].image # x
                        /\ \A r \in Procs : /\ x \notin Olds(handler'[r])
                                            /\ x \in News(handler'[r]) => r = q
      BY <1>5 DEF OnlyNew, Olds, News
    <3>1. q # p /\ x \in News(handler[q])
      BY <1>3, <1>6
    <3>2. /\ x \in files
          /\ \A v \in DOMAIN users : users[v].image # x
          /\ \A r \in Procs : x \notin Olds(handler[r]) /\ (x \in News(handler[r]) => r = q)
      BY <3>1, <2>1 DEF OnlyNew
    <3> QED BY <3>2, <2>2, <1>2, <1>3, <1>6
  <2> QED BY <2>3, <2>4, <2>5
<1>10. ImageOnDisk'
  BY <1>2, <1>5 DEF Pictures, ImageOnDisk
<1> QED BY <1>8, <1>9, <1>10 DEF Pictures

LEMMA NoPicture ==
  \A h : h.pc \notin {"saveFile", "setImage", "clearImage", "deleteFile"} =>
            Olds(h) = {} /\ News(h) = {}
  BY DEF Olds, News

(* A new user has no picture. *)
LEMMA NewUserPictures ==
  ASSUME Typed, NEW n \in Logins, users' = Append(users, NewUser(n))
  PROVE  \A u \in DOMAIN users' :
            \/ users'[u].image = None
            \/ u \in DOMAIN users /\ users'[u].image = users[u].image
<1>1. users \in Seq(User) /\ NewUser(n) \in User
  BY NewUserType DEF Typed, TypeOK
<1>2. /\ DOMAIN users = 1..Len(users) /\ DOMAIN users' = 1..(Len(users) + 1)
      /\ Len(users) \in Nat
      /\ \A i \in DOMAIN users : users'[i] = users[i]
      /\ users'[Len(users) + 1] = NewUser(n)
  BY <1>1, Appended
<1>3. \A u \in DOMAIN users' : u \in DOMAIN users \/ u = Len(users) + 1
  BY <1>2
<1> QED BY <1>2, <1>3 DEF NewUser

(* Neither the login nor the mark of a deleted row concerns it. *)
LEMMA UserPictures ==
  ASSUME Typed, NEW u \in DOMAIN users, NEW x \in User, x.image = users[u].image,
         users' = [users EXCEPT ![u] = x]
  PROVE  \A v \in DOMAIN users' :
            \/ users'[v].image = None
            \/ v \in DOMAIN users /\ users'[v].image = users[v].image
  BY Replaced DEF Typed, TypeOK

LEMMA WritesPictures ==
  ASSUME Typed, Pictures, NEW p \in Procs, Writes(p)
  PROVE  Pictures'
<1> DEFINE aside == \A u \in DOMAIN users' :
                       \/ users'[u].image = None
                       \/ u \in DOMAIN users /\ users'[u].image = users[u].image
<1>1. Olds(Idle) = {} /\ News(Idle) = {}
  BY NoPicture DEF Idle
<1>2. UNCHANGED users => aside
  OBVIOUS
<1>3. ASSUME NEW h, h.pc \notin {"saveFile", "setImage", "clearImage", "deleteFile"},
             Goto(p, h), UNCHANGED <<disk, pointed>>, aside
      PROVE  Pictures'
  BY <1>3, NoPicture, PicturesAside
<1>4. ASSUME Goto(p, Idle), UNCHANGED <<disk, pointed>>, aside
      PROVE  Pictures'
  BY <1>1, <1>4, PicturesAside
<1> HIDE DEF aside
<1>5. CASE AddRole(p)
  <2>1. UNCHANGED <<disk, pointed, users>>
    BY <1>5 DEF AddRole, history
  <2> QED BY <2>1, <1>2, <1>3, <1>5, AddRoleGoes
<1>6. CASE CheckUser(p)
  <2>1. PICK g : /\ Goto(p, g) /\ UNCHANGED <<disk, pointed, users>>
                 /\ g.pc \in {"idle", "addUser"}
    BY <1>6 DEF CheckUser, Proceed, accounts, Idle
  <2> QED BY <2>1, <1>2, <1>3
<1>7. CASE AddUser(p)
  <2>1. PICK h : h = handler[p]
    OBVIOUS
  <2>2. /\ h.pc = "addUser" /\ users' = Append(users, NewUser(h.login))
        /\ Goto(p, Idle) /\ UNCHANGED <<disk, pointed>>
    BY <2>1, <1>7 DEF AddUser, history
  <2>3. h \in Handler
    BY <2>1, <2>2, TypedHandler DEF Idle
  <2>4. h.login \in Logins
    BY <2>2, <2>3, HandlerFields
  <2>5. aside
    BY <2>2, <2>4, NewUserPictures DEF aside
  <2> QED BY <2>2, <2>5, <1>4
<1>8. CASE SaveUser(p)
  <2>1. PICK h : h = handler[p]
    OBVIOUS
  <2>2. /\ h.pc = "saveUser" /\ Goto(p, Idle) /\ UNCHANGED <<disk, pointed>>
        /\ UNCHANGED users \/ users' = [users EXCEPT ![h.user].login = Given(h.login, @)]
    BY <2>1, <1>8 DEF SaveUser, history
  <2>3. h \in Handler
    BY <2>1, <2>2, TypedHandler DEF Idle
  <2>4. h.user \in DOMAIN users /\ h.login \in OrNone(Logins)
    BY <2>2, <2>3, HandlerFields
  <2>5. PICK x : x = [users[h.user] EXCEPT !.login = Given(h.login, @)]
    OBVIOUS
  <2>6. x \in User /\ x.image = users[h.user].image
    BY <2>4, <2>5, UpdatedUser, UserFields DEF User
  <2>7. aside
    <3>1. CASE users' = [users EXCEPT ![h.user] = x]
      BY <3>1, <2>4, <2>6, UserPictures DEF aside
    <3> QED BY <3>1, <2>2, <2>5, <1>2
  <2> QED BY <2>2, <2>7, <1>4
<1>9. CASE SaveFile(p)
  BY <1>9, SaveFilePictures
<1>10. CASE SetImage(p)
  BY <1>10, SetImagePictures
<1>11. CASE ClearImage(p)
  BY <1>11, ClearImagePictures
<1>12. CASE DeleteFile(p)
  BY <1>12, DeleteFilePictures
<1>13. CASE SetProfileImage(p)
  BY <1>13, SetProfileImagePictures
<1>14. CASE AddNamedRole(p) \/ RenameRole(p)
  BY <1>14, <1>2, <1>4 DEF AddNamedRole, RenameRole, history
<1>15. CASE AddPosition(p) \/ SavePosition(p)
  BY <1>15, <1>2, <1>4 DEF AddPosition, SavePosition, history, accounts
<1>16. CASE AddDepartment(p) \/ SaveEmployee(p) \/ AddSettings(p)
  BY <1>16, <1>2, <1>4 DEF AddDepartment, SaveEmployee, AddSettings, history, accounts
<1>17. CASE AddEmployee(p)
  <2>1. PICK h : h = handler[p]
    OBVIOUS
  <2>2. /\ h.pc = "addEmployee" /\ Goto(p, Idle) /\ UNCHANGED <<disk, pointed>>
        /\ users' = Append(users, NewUser(h.login)) \/ UNCHANGED users
    BY <2>1, <1>17 DEF AddEmployee, history
  <2>3. h \in Handler
    BY <2>1, <2>2, TypedHandler DEF Idle
  <2>4. h.login \in Logins
    BY <2>2, <2>3, HandlerFields
  <2>5. aside
    BY <2>2, <2>4, <1>2, NewUserPictures DEF aside
  <2> QED BY <2>2, <2>5, <1>4
<1>18. CASE AddCurrency(p)
  <2>1. UNCHANGED <<disk, pointed, users>>
    BY <1>18 DEF AddCurrency, history, accounts
  <2> QED BY <2>1, <1>2, <1>3, <1>4, <1>18, AddCurrencyGoes
<1> QED
  BY <1>5, <1>6, <1>7, <1>8, <1>9, <1>10, <1>11, <1>12, <1>13, <1>14, <1>15, <1>16, <1>17,
     <1>18 DEF Writes

LEMMA DirectPictures ==
  ASSUME Typed, Pictures, Direct
  PROVE  Pictures'
<1>1. UNCHANGED <<disk, pointed, handler>>
  BY DEF Direct, DeleteUser, DeleteRole, DeletePosition, DeleteDepartment, UpdateDepartment,
         DeleteEmployee, DeleteCurrency, UpdateCompanySettings, history
<1>2. \A u \in DOMAIN users' :
         \/ users'[u].image = None
         \/ u \in DOMAIN users /\ users'[u].image = users[u].image
  <2>1. ASSUME NEW u \in DOMAIN users, DeleteUser(u)
        PROVE  \A v \in DOMAIN users' :
                  \/ users'[v].image = None
                  \/ v \in DOMAIN users /\ users'[v].image = users[v].image
    <3>1. PICK x : x = [users[u] EXCEPT !.deleted = TRUE]
      OBVIOUS
    <3>2. users' = [users EXCEPT ![u] = x]
      BY <2>1, <3>1 DEF DeleteUser, Deleted
    <3>3. x \in User /\ x.image = users[u].image
      BY <3>1, UpdatedUser, UserFields DEF User
    <3> QED BY <3>2, <3>3, UserPictures
  <2>2. \/ \E u \in DOMAIN users : DeleteUser(u)
        \/ UNCHANGED users
    BY DEF Direct, DeleteRole, DeletePosition, DeleteDepartment, UpdateDepartment,
           DeleteEmployee, DeleteCurrency, UpdateCompanySettings, accounts
  <2> QED BY <2>1, <2>2
<1> QED BY <1>1, <1>2, PicturesFrame

LEMMA NextPictures == Typed /\ Pictures /\ [Next]_vars => Pictures'
<1> SUFFICES ASSUME Typed, Pictures, [Next]_vars PROVE Pictures'
  OBVIOUS
<1>1. CASE UNCHANGED vars
  <2>1. UNCHANGED <<disk, pointed, handler, users>>
    BY <1>1 DEF vars, accounts, history
  <2> QED BY <2>1, PicturesFrame
<1>2. ASSUME NEW p \in Procs, Requests(p)
      PROVE  Pictures'
  BY <1>2, RequestsRead, RequestPictures
<1> QED BY <1>1, <1>2, WritesPictures, DirectPictures, NextIs

LEMMA InitPictures == Init => Pictures
<1> SUFFICES ASSUME Init PROVE Pictures
  OBVIOUS
<1>1. /\ DOMAIN users = {1} /\ users[1].image = 1
      /\ saved = 1 /\ files = {1} /\ \A p \in Procs : handler[p] = Idle
  BY DEF Init
<1>2. Olds(Idle) = {} /\ News(Idle) = {}
  BY NoPicture DEF Idle
<1>3. Images
  BY <1>1, <1>2 DEF Images, OrNone
<1>4. \A x \in Kept : OneOwner(x) /\ StillOwned(x) /\ OnlyNew(x)
  BY <1>1, <1>2 DEF OneOwner, StillOwned, OnlyNew
<1>5. ImageOnDisk
  BY <1>1 DEF ImageOnDisk
<1> QED BY <1>3, <1>4, <1>5 DEF Pictures

(* However uploads, removals and updates of profiles overlap, the picture that a user *)
(* refers to is on the disk, if nobody put it in the own profile: SaveFile has put it *)
(* there before the row refers to it, and DeleteFile deletes only the one that was    *)
(* read first, which the row no longer refers to.                                     *)
THEOREM PicturesAreThere == Spec => []ImageOnDisk
<1>1. Typed /\ Pictures /\ [Next]_vars => (Typed /\ Pictures)'
  BY NextTypes, NextPictures
<1>2. Pictures => ImageOnDisk
  BY DEF Pictures
<1> QED BY <1>1, <1>2, InitTypes, InitPictures, PTL DEF Spec

-----------------------------------------------------------------------------
(* Salaries *)

(* A salary is in the range of a position, if that was never changed. *)
Fits(s, i) ==
    s # None /\ i \notin reranged =>
        positions[i].range.min <= s /\ s <= positions[i].range.max

(* The salary and position that an update leaves e with *)
NextSalary(h, e) == Given(h.salary, employees[e].salary)
NextPosition(h, e) == Given(h.position, employees[e].position)

PaidAsStored(e) == Fits(employees[e].salary, employees[e].position)

(* Of two updates of an employee one would not know of the other's. *)
PaidNext(e) ==
    \A p \in Procs : Holds(p, e) =>
        /\ \A q \in Procs : Holds(q, e) => q = p
        /\ Fits(NextSalary(handler[p], e), NextPosition(handler[p], e))

Hired ==
    \A p \in Procs :
        handler[p].pc = "addEmployee" => Fits(handler[p].salary, handler[p].position)

Paid ==
    /\ \A e \in DOMAIN employees \ raced : PaidAsStored(e) /\ PaidNext(e)
    /\ Hired

(* Ranges are as they were, but for those that were changed. *)
RangesKept ==
    \A i \in DOMAIN positions :
        i \notin reranged' => i \notin reranged /\ positions'[i].range = positions[i].range

LEMMA StillFits ==
  ASSUME RangesKept, NEW s, NEW i \in DOMAIN positions, Fits(s, i)
  PROVE  Fits(s, i)'
  BY DEF RangesKept, Fits

LEMMA EmployeeFields ==
  ASSUME Typed, NEW e \in DOMAIN employees
  PROVE  /\ employees[e] \in Employee /\ employees[e].position \in DOMAIN positions
         /\ employees[e].salary \in OrNone(Salaries)
  BY EmployeeTable DEF Employee

LEMMA UpdateFields ==
  ASSUME Typed, NEW p \in Procs
  PROVE  /\ handler[p].pc = "saveEmployee" =>
               /\ handler[p].employee \in DOMAIN employees
               /\ handler[p].position \in OrNone(DOMAIN positions)
               /\ handler[p].department \in OrNone(DOMAIN departments)
               /\ handler[p].salary \in OrNone(Salaries)
         /\ handler[p].pc = "addEmployee" =>
               /\ handler[p].position \in DOMAIN positions
               /\ handler[p].salary \in OrNone(Salaries)
<1>1. handler[p] \in Handler \/ handler[p] = Idle
  BY TypedHandler
<1>2. CASE handler[p] = Idle
  BY <1>2 DEF Idle
<1>3. CASE handler[p] \in Handler
  BY <1>3, HandlerFields
<1> QED BY <1>1, <1>2, <1>3

LEMMA NextFields ==
  ASSUME Typed, NEW p \in Procs, NEW e \in DOMAIN employees, handler[p].pc = "saveEmployee"
  PROVE  NextPosition(handler[p], e) \in DOMAIN positions
  BY UpdateFields, EmployeeFields DEF NextPosition, Given, OrNone

(* A handler that is about something else leaves salaries as they are. *)
LEMMA SalaryFrame ==
  ASSUME Typed, Paid, RangesKept, UNCHANGED raced,
         DOMAIN employees' = DOMAIN employees,
         \A e \in DOMAIN employees : /\ employees'[e].salary = employees[e].salary
                                     /\ employees'[e].position = employees[e].position,
         \A p \in Procs : \/ handler'[p] = handler[p]
                          \/ handler'[p].pc \notin {"addEmployee", "saveEmployee"}
  PROVE  Paid'
<1>1. ASSUME NEW e \in DOMAIN employees \ raced
      PROVE  PaidAsStored(e)' /\ PaidNext(e)'
  <2>1. PaidAsStored(e) /\ PaidNext(e)
    BY DEF Paid
  <2>2. PICK s, i : s = employees[e].salary /\ i = employees[e].position
    OBVIOUS
  <2>3. Fits(s, i) /\ i \in DOMAIN positions
    BY <2>1, <2>2, EmployeeFields DEF PaidAsStored
  <2>4. Fits(s, i)'
    BY <2>3, StillFits
  <2>5. PaidAsStored(e)'
    BY <2>2, <2>4 DEF PaidAsStored, Fits
  <2>6. ASSUME NEW p \in Procs, Holds(p, e)'
        PROVE  /\ \A q \in Procs : Holds(q, e)' => q = p
               /\ Fits(NextSalary(handler[p], e), NextPosition(handler[p], e))'
    <3>1. handler'[p] = handler[p] /\ Holds(p, e) /\ handler[p].pc = "saveEmployee"
      BY <2>6 DEF Holds
    <3>2. \A q \in Procs : Holds(q, e)' => Holds(q, e)
      BY DEF Holds
    <3>3. PICK t, j : t = NextSalary(handler[p], e) /\ j = NextPosition(handler[p], e)
      OBVIOUS
    <3>4. Fits(t, j) /\ j \in DOMAIN positions
      BY <2>1, <3>1, <3>3, NextFields DEF PaidNext
    <3>5. Fits(t, j)'
      BY <3>4, StillFits
    <3>6. NextSalary(handler[p], e)' = t /\ NextPosition(handler[p], e)' = j
      BY <3>1, <3>3 DEF NextSalary, NextPosition, Given
    <3>7. Fits(NextSalary(handler[p], e), NextPosition(handler[p], e))'
      BY <3>5, <3>6 DEF Fits
    <3> QED BY <3>1, <3>2, <3>7, <2>1 DEF PaidNext
  <2>7. PaidNext(e)'
    BY <2>6 DEF PaidNext
  <2> QED BY <2>5, <2>7
<1>2. ASSUME NEW p \in Procs, handler'[p].pc = "addEmployee"
      PROVE  Fits(handler[p].salary, handler[p].position)'
  <2>1. PICK s, i : s = handler[p].salary /\ i = handler[p].position
    OBVIOUS
  <2>2. handler'[p] = handler[p]
    BY <1>2
  <2>3. Fits(s, i) /\ i \in DOMAIN positions
    BY <2>1, <2>2, <1>2, UpdateFields DEF Paid, Hired
  <2>4. Fits(s, i)'
    BY <2>3, StillFits
  <2> QED BY <2>1, <2>2, <2>4 DEF Fits
<1> QED BY <1>1, <1>2 DEF Paid, Hired

LEMMA SalariesAside ==
  ASSUME Typed, Paid, RangesKept, UNCHANGED raced,
         NEW p \in Procs, NEW h, Goto(p, h), h.pc \notin {"addEmployee", "saveEmployee"},
         UNCHANGED employees
  PROVE  Paid'
<1>1. \A q \in Procs : \/ handler'[q] = handler[q]
                       \/ handler'[q].pc \notin {"addEmployee", "saveEmployee"}
  BY Went
<1> QED BY <1>1, SalaryFrame

LEMMA RangesStay == UNCHANGED <<positions, reranged>> => RangesKept
  BY DEF RangesKept

(* Who is let in to hire or to update has held the salary against the position. *)
LEMMA ReadFits ==
  ASSUME Typed, Paid, NEW h \in Handler, Read(h)
  PROVE  /\ h.pc = "addEmployee" => Fits(h.salary, h.position)
         /\ h.pc = "saveEmployee" /\ h.employee \notin raced =>
               Fits(NextSalary(h, h.employee), NextPosition(h, h.employee))
<1>1. \A s, i : SalaryFits(s, i) => Fits(s, i)
  BY DEF SalaryFits, Fits
<1>2. h.pc = "addEmployee" => Fits(h.salary, h.position)
  BY <1>1 DEF Read
<1>3. ASSUME h.pc = "saveEmployee", h.employee \notin raced
      PROVE  Fits(NextSalary(h, h.employee), NextPosition(h, h.employee))
  <2>1. PICK e : e = h.employee
    OBVIOUS
  <2>2. /\ e \in DOMAIN employees \ raced
        /\ PaidAsStored(e) /\ SalaryInOrder(e, h.position, h.salary)
    BY <2>1, <1>3, HandlerFields DEF Paid, Read
  <2>3. CASE h.position = None /\ h.salary = None
    BY <2>1, <2>2, <2>3 DEF PaidAsStored, NextSalary, NextPosition, Given
  <2>4. CASE h.position # None \/ h.salary # None
    <3>1. Fits(Given(h.salary, Number(employees[e].salary)), NextPosition(h, e))
      BY <2>2, <2>4, <1>1 DEF SalaryInOrder, NextPosition
    <3>2. CASE NextSalary(h, e) = None
      BY <2>1, <3>2 DEF Fits
    <3>3. CASE NextSalary(h, e) # None
      BY <2>1, <3>1, <3>3 DEF NextSalary, Given, Number
    <3> QED BY <3>2, <3>3
  <2> QED BY <2>3, <2>4
<1> QED BY <1>2, <1>3

LEMMA RequestSalaries ==
  ASSUME Typed, Paid, NEW p \in Procs, NEW h, LetIn(p, h)
  PROVE  Paid'
<1>1. /\ Goto(p, h) /\ UNCHANGED <<positions, employees, reranged>> /\ Read(h) /\ h \in Handler
      /\ raced' = IF Races(h) THEN raced \cup {h.employee} ELSE raced
      /\ handler[p] = Idle
  BY DEF LetIn, Start, Proceed, staff
<1>2. \A q \in Procs : handler'[q] = IF q = p THEN h ELSE handler[q]
  BY <1>1, Went
<1>3. \A s, i : Fits(s, i)' <=> Fits(s, i)
  BY <1>1 DEF Fits
<1>4. raced \subseteq raced'
  BY <1>1
<1>5. \A q \in Procs : \A e : q # p => (Holds(q, e)' <=> Holds(q, e))
  BY <1>2 DEF Holds
<1>6. ASSUME NEW e \in DOMAIN employees \ raced'
      PROVE  PaidAsStored(e)' /\ PaidNext(e)'
  <2>1. PaidAsStored(e) /\ PaidNext(e)
    BY <1>4 DEF Paid
  <2>2. PaidAsStored(e)'
    BY <2>1, <1>1 DEF PaidAsStored, Fits
  <2>3. ASSUME NEW q \in Procs, Holds(q, e)'
        PROVE  /\ \A r \in Procs : Holds(r, e)' => r = q
               /\ Fits(NextSalary(handler[q], e), NextPosition(handler[q], e))'
    <3>1. CASE Holds(p, e)'
      <4>1. h.pc = "saveEmployee" /\ h.employee = e
        BY <3>1, <1>2 DEF Holds
      <4>2. \A r \in Procs : ~Holds(r, e)
        BY <4>1, <1>1 DEF Races
      <4>3. \A r \in Procs : Holds(r, e)' => r = p
        BY <4>2, <1>5
      <4>4. Fits(NextSalary(h, e), NextPosition(h, e))
        BY <4>1, <1>1, <1>4, ReadFits
      <4>5. Fits(NextSalary(handler[q], e), NextPosition(handler[q], e))'
        BY <4>3, <4>4, <2>3, <1>1, <1>2 DEF Fits, NextSalary, NextPosition, Given
      <4> QED BY <4>3, <4>5, <2>3
    <3>2. CASE ~Holds(p, e)'
      <4>1. q # p /\ Holds(q, e) /\ handler'[q] = handler[q]
        BY <3>2, <2>3, <1>2, <1>5
      <4>2. \A r \in Procs : Holds(r, e)' => Holds(r, e)
        BY <3>2, <1>5
      <4>3. Fits(NextSalary(handler[q], e), NextPosition(handler[q], e))
        BY <4>1, <2>1 DEF PaidNext
      <4>4. Fits(NextSalary(handler[q], e), NextPosition(handler[q], e))'
        BY <4>1, <4>3, <1>1 DEF Fits, NextSalary, NextPosition, Given
      <4> QED BY <4>1, <4>2, <4>4, <2>1 DEF PaidNext
    <3> QED BY <3>1, <3>2
  <2> QED BY <2>2, <2>3 DEF PaidNext
<1>7. ASSUME NEW q \in Procs, handler'[q].pc = "addEmployee"
      PROVE  Fits(handler[q].salary, handler[q].position)'
  <2>1. Fits(handler'[q].salary, handler'[q].position)
    <3>1. CASE q = p
      BY <3>1, <1>1, <1>2, <1>7, ReadFits
    <3>2. CASE q # p
      BY <3>2, <1>2, <1>7 DEF Paid, Hired
    <3> QED BY <3>1, <3>2
  <2> QED BY <2>1, <1>1 DEF Fits
<1> QED BY <1>1, <1>6, <1>7 DEF Paid, Hired

(* The new employee is hired as the salary was held against the position. *)
LEMMA AddEmployeeSalaries ==
  ASSUME Typed, Paid, NEW p \in Procs, AddEmployee(p)
  PROVE  Paid'
<1>1. PICK h, x :
         /\ h = handler[p]
         /\ x = [user |-> Len(users) + 1, position |-> h.position,
                 department |-> h.department, salary |-> h.salary, deleted |-> FALSE]
  OBVIOUS
<1>2. /\ h.pc = "addEmployee" /\ Goto(p, Idle) /\ UNCHANGED <<positions, raced, reranged>>
      /\ employees' = Append(employees, x) \/ UNCHANGED employees
  BY <1>1 DEF AddEmployee, history
<1>3. Idle.pc \notin {"addEmployee", "saveEmployee"}
  BY DEF Idle
<1>4. CASE UNCHANGED employees
  BY <1>2, <1>3, <1>4, RangesStay, SalariesAside
<1>5. CASE employees' = Append(employees, x)
  <2>1. \A q \in Procs : handler'[q] = IF q = p THEN Idle ELSE handler[q]
    BY <1>2, Went
  <2>2. \A s, i : Fits(s, i)' <=> Fits(s, i)
    BY <1>2 DEF Fits
  <2>3. employees \in Seq(Employee)
    BY DEF Typed, TypeOK
  <2>4. PICK n : n = Len(employees) + 1
    OBVIOUS
  <2>5. /\ \A e \in DOMAIN employees : employees'[e] = employees[e]
        /\ employees'[n] = x /\ n \notin DOMAIN employees
        /\ \A e \in DOMAIN employees' : e \in DOMAIN employees \/ e = n
    BY <2>3, <2>4, <1>5
  <2>6. \A q \in Procs : \A e : Holds(q, e)' =>
           Holds(q, e) /\ e \in DOMAIN employees /\ handler'[q] = handler[q]
    BY <2>1, <1>3, UpdateFields DEF Holds
  <2>7. ASSUME NEW e \in DOMAIN employees \ raced
        PROVE  PaidAsStored(e)' /\ PaidNext(e)'
    <3>1. PaidAsStored(e) /\ PaidNext(e) /\ employees'[e] = employees[e]
      BY <2>5 DEF Paid
    <3>2. PaidAsStored(e)'
      BY <3>1, <1>2 DEF PaidAsStored, Fits
    <3>3. PaidNext(e)'
      <4> SUFFICES ASSUME NEW q \in Procs, Holds(q, e)'
                   PROVE  /\ \A r \in Procs : Holds(r, e)' => r = q
                          /\ Fits(NextSalary(handler[q], e), NextPosition(handler[q], e))'
        BY DEF PaidNext
      <4>1. Holds(q, e) /\ handler'[q] = handler[q]
        BY <2>6
      <4>2. Fits(NextSalary(handler[q], e), NextPosition(handler[q], e))
        BY <4>1, <3>1 DEF PaidNext
      <4>3. Fits(NextSalary(handler[q], e), NextPosition(handler[q], e))'
        BY <4>1, <4>2, <3>1, <1>2 DEF Fits, NextSalary, NextPosition, Given
      <4> QED BY <4>1, <4>3, <3>1, <2>6 DEF PaidNext
    <3> QED BY <3>2, <3>3
  <2>8. PaidAsStored(n)' /\ PaidNext(n)'
    <3>1. Fits(x.salary, x.position)
      BY <1>1, <1>2 DEF Paid, Hired
    <3>2. PaidAsStored(n)'
      BY <3>1, <2>5, <1>2 DEF PaidAsStored, Fits
    <3>3. PaidNext(n)'
      BY <2>5, <2>6 DEF PaidNext
    <3> QED BY <3>2, <3>3
  <2>9. \A e \in DOMAIN employees' \ raced' : PaidAsStored(e)' /\ PaidNext(e)'
    BY <2>5, <2>7, <2>8, <1>2
  <2>10. Hired'
    BY <2>1, <1>2, <1>3 DEF Paid, Hired, Fits
  <2> QED BY <2>9, <2>10 DEF Paid
<1> QED BY <1>2, <1>4, <1>5

(* Nobody else was updating the employee: position and salary are what was looked at. *)
LEMMA SaveEmployeeSalaries ==
  ASSUME Typed, Paid, NEW p \in Procs, SaveEmployee(p)
  PROVE  Paid'
<1>1. PICK h, e : h = handler[p] /\ e = h.employee
  OBVIOUS
<1>2. PICK x : x = [employees[e] EXCEPT !.position = Given(h.position, @),
                                        !.department = Given(h.department, @),
                                        !.salary = Given(h.salary, @)]
  OBVIOUS
<1>3. /\ h.pc = "saveEmployee" /\ Goto(p, Idle) /\ UNCHANGED <<positions, raced, reranged>>
      /\ employees' = [employees EXCEPT ![e].position = Given(h.position, @),
                                        ![e].department = Given(h.department, @),
                                        ![e].salary = Given(h.salary, @)]
  BY <1>1 DEF SaveEmployee, history
<1>4. /\ e \in DOMAIN employees /\ h.position \in OrNone(DOMAIN positions)
      /\ h.department \in OrNone(DOMAIN departments)
      /\ h.salary \in OrNone(Salaries)
  BY <1>1, <1>3, UpdateFields
<1>5. employees' = [employees EXCEPT ![e] = x] /\ x \in Employee
  BY <1>2, <1>3, <1>4, SavedEmployee, EmployeeTable
<1>6. /\ DOMAIN employees' = DOMAIN employees
      /\ \A d \in DOMAIN employees : employees'[d] = IF d = e THEN x ELSE employees[d]
  BY <1>4, <1>5, Replaced DEF Typed, TypeOK
<1>7. x.salary = NextSalary(h, e) /\ x.position = NextPosition(h, e)
  BY <1>2, <1>4, EmployeeFields DEF NextSalary, NextPosition, Employee
<1>8. \A q \in Procs : handler'[q] = IF q = p THEN Idle ELSE handler[q]
  BY <1>3, Went
<1>9. \A q \in Procs : \A d : Holds(q, d)' =>
         q # p /\ Holds(q, d) /\ handler'[q] = handler[q]
  BY <1>8 DEF Holds, Idle
<1>10. ASSUME NEW d \in DOMAIN employees \ raced
       PROVE  PaidAsStored(d)' /\ PaidNext(d)'
  <2>1. PaidAsStored(d) /\ PaidNext(d)
    BY DEF Paid
  <2>2. CASE d = e
    <3>1. Holds(p, e)
      BY <1>1, <1>3 DEF Holds
    <3>2. Fits(x.salary, x.position)
      BY <3>1, <2>1, <2>2, <1>1, <1>7 DEF PaidNext
    <3>3. PaidAsStored(d)'
      <4>1. employees'[d] = x
        BY <2>2, <1>6
      <4>2. Fits(x.salary, x.position)'
        BY <3>2, <1>3 DEF Fits
      <4> QED BY <4>1, <4>2 DEF PaidAsStored, Fits
    <3>4. \A q \in Procs : ~Holds(q, e)'
      BY <3>1, <2>1, <2>2, <1>9 DEF PaidNext
    <3>5. PaidNext(d)'
      BY <3>4, <2>2 DEF PaidNext
    <3> QED BY <3>3, <3>5
  <2>3. CASE d # e
    <3>1. employees'[d] = employees[d]
      BY <2>3, <1>6
    <3>2. PaidAsStored(d)'
      BY <3>1, <2>1, <1>3 DEF PaidAsStored, Fits
    <3>3. PaidNext(d)'
      <4> SUFFICES ASSUME NEW q \in Procs, Holds(q, d)'
                   PROVE  /\ \A r \in Procs : Holds(r, d)' => r = q
                          /\ Fits(NextSalary(handler[q], d), NextPosition(handler[q], d))'
        BY DEF PaidNext
      <4>1. Holds(q, d) /\ handler'[q] = handler[q]
        BY <1>9
      <4>2. Fits(NextSalary(handler[q], d), NextPosition(handler[q], d))
        BY <4>1, <2>1 DEF PaidNext
      <4>3. Fits(NextSalary(handler[q], d), NextPosition(handler[q], d))'
        BY <4>1, <4>2, <3>1, <1>3 DEF Fits, NextSalary, NextPosition, Given
      <4> QED BY <4>1, <4>3, <2>1, <1>9 DEF PaidNext
    <3> QED BY <3>2, <3>3
  <2> QED BY <2>2, <2>3
<1>11. Hired'
  BY <1>3, <1>8 DEF Paid, Hired, Fits, Idle
<1> QED BY <1>3, <1>6, <1>10, <1>11 DEF Paid

(* A range is changed, or none is. *)
LEMMA SavePositionSalaries ==
  ASSUME Typed, Paid, NEW p \in Procs, SavePosition(p)
  PROVE  Paid'
<1>1. PICK h : h = handler[p]
  OBVIOUS
<1>2. /\ h.pc = "savePosition" /\ Goto(p, Idle)
      /\ positions' = [positions EXCEPT ![h.position].title = Given(h.title, @),
                                        ![h.position].range = Given(h.range, @)]
      /\ reranged' = IF h.range = None THEN reranged ELSE reranged \cup {h.position}
      /\ UNCHANGED <<employees, raced>>
  BY <1>1 DEF SavePosition
<1>3. h \in Handler
  BY <1>1, <1>2, TypedHandler DEF Idle
<1>4. /\ h.position \in DOMAIN positions /\ h.title \in OrNone(Titles)
      /\ h.range \in OrNone(Ranges)
  BY <1>2, <1>3, HandlerFields
<1>5. PICK x : x = [positions[h.position] EXCEPT !.title = Given(h.title, @),
                                                 !.range = Given(h.range, @)]
  OBVIOUS
<1>6. x \in Position /\ positions' = [positions EXCEPT ![h.position] = x]
  BY <1>2, <1>4, <1>5, PositionTable, SavedPosition
<1>7. \A i \in DOMAIN positions : positions'[i] = IF i = h.position THEN x ELSE positions[i]
  BY <1>4, <1>6, Replaced DEF Typed, TypeOK
<1>8. positions[h.position] \in Position
  BY <1>4, PositionTable
<1>9. h.range = None => x.range = positions[h.position].range
  BY <1>5, <1>8 DEF Given, Position
<1>10. RangesKept
  BY <1>2, <1>7, <1>9 DEF RangesKept
<1>11. Idle.pc \notin {"addEmployee", "saveEmployee"}
  BY DEF Idle
<1> QED BY <1>2, <1>10, <1>11, SalariesAside

LEMMA AddPositionSalaries ==
  ASSUME Typed, Paid, NEW p \in Procs, AddPosition(p)
  PROVE  Paid'
<1>1. PICK h, x : /\ h = handler[p]
                  /\ x = [title |-> h.title, range |-> h.range, deleted |-> FALSE]
  OBVIOUS
<1>2. /\ Goto(p, Idle) /\ positions' = Append(positions, x)
      /\ UNCHANGED <<employees, raced, reranged>>
  BY <1>1 DEF AddPosition, history
<1>3. positions \in Seq(Position)
  BY DEF Typed, TypeOK
<1>4. \A i \in DOMAIN positions : positions'[i] = positions[i]
  BY <1>2, <1>3
<1>5. RangesKept
  BY <1>2, <1>4 DEF RangesKept
<1>6. Idle.pc \notin {"addEmployee", "saveEmployee"}
  BY DEF Idle
<1> QED BY <1>2, <1>5, <1>6, SalariesAside

LEMMA WritesSalaries ==
  ASSUME Typed, Paid, NEW p \in Procs, Writes(p)
  PROVE  Paid'
<1>1. ASSUME NEW h, h.pc \notin {"addEmployee", "saveEmployee"}, Goto(p, h),
             UNCHANGED <<positions, employees, raced, reranged>>
      PROVE  Paid'
  BY <1>1, RangesStay, SalariesAside
<1>2. ASSUME Goto(p, Idle), UNCHANGED <<positions, employees, raced, reranged>>
      PROVE  Paid'
  BY <1>1, <1>2 DEF Idle
<1>3. CASE AddRole(p)
  <2>1. UNCHANGED <<positions, employees, raced, reranged>>
    BY <1>3 DEF AddRole, history, staff
  <2> QED BY <2>1, <1>1, <1>3, AddRoleGoes
<1>4. CASE CheckUser(p)
  <2>1. PICK g : /\ Goto(p, g) /\ UNCHANGED <<positions, employees, raced, reranged>>
                 /\ g.pc \in {"idle", "addUser"}
    BY <1>4 DEF CheckUser, Proceed, staff, Idle
  <2> QED BY <2>1, <1>1
<1>5. CASE AddUser(p) \/ SaveUser(p) \/ SetProfileImage(p) \/ DeleteFile(p)
  BY <1>5, <1>2 DEF AddUser, SaveUser, SetProfileImage, DeleteFile, staff, history
<1>6. CASE SaveFile(p)
  BY <1>6, <1>1 DEF SaveFile, staff, history
<1>7. CASE SetImage(p)
  <2>1. PICK g : /\ Goto(p, g) /\ UNCHANGED <<positions, employees, raced, reranged>>
                 /\ g.pc \in {"idle", "deleteFile"}
    BY <1>7 DEF SetImage, staff, history, Idle
  <2> QED BY <2>1, <1>1
<1>8. CASE ClearImage(p)
  <2>1. UNCHANGED <<positions, employees, raced, reranged>>
    BY <1>8 DEF ClearImage, history, staff
  <2> QED BY <2>1, <1>1, <1>8, ClearImageGoes
<1>9. CASE AddNamedRole(p) \/ RenameRole(p) \/ AddDepartment(p) \/ AddSettings(p)
  BY <1>9, <1>2 DEF AddNamedRole, RenameRole, AddDepartment, AddSettings, staff, history
<1>10. CASE AddCurrency(p)
  <2>1. UNCHANGED <<positions, employees, raced, reranged>>
    BY <1>10 DEF AddCurrency, history, staff
  <2> QED BY <2>1, <1>1, <1>2, <1>10, AddCurrencyGoes
<1> QED
  BY <1>3, <1>4, <1>5, <1>6, <1>7, <1>8, <1>9, <1>10, AddEmployeeSalaries,
     SaveEmployeeSalaries, SavePositionSalaries, AddPositionSalaries DEF Writes

LEMMA DirectSalaries ==
  ASSUME Typed, Paid, Direct
  PROVE  Paid'
<1>1. UNCHANGED <<raced, reranged, handler>>
  BY DEF Direct, DeleteUser, DeleteRole, DeletePosition, DeleteDepartment, UpdateDepartment,
         DeleteEmployee, DeleteCurrency, UpdateCompanySettings, history
<1>2. RangesKept
  <2>1. ASSUME NEW i \in DOMAIN positions, DeletePosition(i)
        PROVE  RangesKept
    <3>1. PICK x : x = [positions[i] EXCEPT !.deleted = TRUE]
      OBVIOUS
    <3>2. positions' = [positions EXCEPT ![i] = x] /\ x \in Position
      BY <2>1, <3>1, PositionTable DEF DeletePosition, Deleted
    <3>3. \A j \in DOMAIN positions : positions'[j] = IF j = i THEN x ELSE positions[j]
      BY <3>2, Replaced DEF Typed, TypeOK
    <3>4. x.range = positions[i].range
      BY <3>1, PositionTable DEF Position
    <3> QED BY <3>3, <3>4, <1>1 DEF RangesKept
  <2>2. (\E i \in DOMAIN positions : DeletePosition(i)) \/ UNCHANGED positions
    BY DEF Direct, DeleteUser, DeleteRole, DeleteDepartment, UpdateDepartment,
           DeleteEmployee, DeleteCurrency, UpdateCompanySettings, staff
  <2> QED BY <2>1, <2>2, <1>1, RangesStay
<1>3. /\ DOMAIN employees' = DOMAIN employees
      /\ \A e \in DOMAIN employees : /\ employees'[e].salary = employees[e].salary
                                     /\ employees'[e].position = employees[e].position
  <2>1. ASSUME NEW d \in DOMAIN employees, DeleteEmployee(d)
        PROVE  /\ DOMAIN employees' = DOMAIN employees
               /\ \A e \in DOMAIN employees :
                     /\ employees'[e].salary = employees[e].salary
                     /\ employees'[e].position = employees[e].position
    <3>1. PICK x : x = [employees[d] EXCEPT !.deleted = TRUE]
      OBVIOUS
    <3>2. employees' = [employees EXCEPT ![d] = x] /\ x \in Employee
      BY <2>1, <3>1, EmployeeTable DEF DeleteEmployee, Deleted
    <3>3. /\ DOMAIN employees' = DOMAIN employees
          /\ \A e \in DOMAIN employees : employees'[e] = IF e = d THEN x ELSE employees[e]
      BY <3>2, Replaced DEF Typed, TypeOK
    <3>4. x.salary = employees[d].salary /\ x.position = employees[d].position
      BY <3>1, EmployeeTable DEF Employee
    <3> QED BY <3>3, <3>4
  <2>2. (\E d \in DOMAIN employees : DeleteEmployee(d)) \/ UNCHANGED employees
    BY DEF Direct, DeleteUser, DeleteRole, DeletePosition, DeleteDepartment,
           UpdateDepartment, DeleteCurrency, UpdateCompanySettings, staff
  <2> QED BY <2>1, <2>2
<1> QED BY <1>1, <1>2, <1>3, SalaryFrame

LEMMA NextSalaries == Typed /\ Paid /\ [Next]_vars => Paid'
<1> SUFFICES ASSUME Typed, Paid, [Next]_vars PROVE Paid'
  OBVIOUS
<1>1. CASE UNCHANGED vars
  <2>1. UNCHANGED <<positions, employees, raced, reranged, handler>>
    BY <1>1 DEF vars, staff, history
  <2> QED BY <2>1, RangesStay, SalaryFrame
<1>2. ASSUME NEW p \in Procs, Requests(p)
      PROVE  Paid'
  BY <1>2, RequestsRead, RequestSalaries
<1> QED BY <1>1, <1>2, WritesSalaries, DirectSalaries, NextIs

LEMMA InitSalaries == Init => Paid
<1> SUFFICES ASSUME Init PROVE Paid
  OBVIOUS
<1>1. PICK r \in Ranges, s \in Salaries :
         /\ r.min <= s /\ s <= r.max
         /\ positions = <<[title |-> CHOOSE t \in Titles : TRUE, range |-> r,
                           deleted |-> FALSE]>>
         /\ employees = <<[user |-> 1, position |-> 1, department |-> 1, salary |-> s,
                           deleted |-> FALSE]>>
  BY DEF Init
<1>2. /\ positions[1].range = r /\ DOMAIN employees = {1}
      /\ employees[1].salary = s /\ employees[1].position = 1
  BY <1>1
<1>3. \A p \in Procs : handler[p] = Idle
  BY DEF Init
<1>4. \A e \in DOMAIN employees : PaidAsStored(e)
  BY <1>1, <1>2 DEF PaidAsStored, Fits
<1>5. \A e : PaidNext(e)
  BY <1>3 DEF PaidNext, Holds, Idle
<1>6. Hired
  BY <1>3 DEF Hired, Idle
<1> QED BY <1>4, <1>5, <1>6 DEF Paid

LEMMA PaidInRange == Typed /\ Paid => SalaryInRange
<1> SUFFICES ASSUME Typed, Paid, NEW i \in FindPositions(None) \ reranged,
                    NEW e \in FindEmployees(i, None) \ raced, employees[e].salary # None
             PROVE  e \in FindEmployees(i, positions[i].range)
  BY DEF SalaryInRange
<1>1. i \in DOMAIN positions /\ i # None
  <2>1. i \in DOMAIN positions
    BY DEF FindPositions, LiveIds
  <2>2. DOMAIN positions \subseteq Nat
    BY DEF Typed, TypeOK
  <2> QED BY <2>1, <2>2, OrganisationAssumption
<1>2. e \in LiveIds(employees) /\ employees[e].position = i /\ e \in DOMAIN employees \ raced
  BY <1>1 DEF FindEmployees, LiveIds
<1>3. positions[i].range.min <= employees[e].salary
      /\ employees[e].salary <= positions[i].range.max
  BY <1>2 DEF Paid, PaidAsStored, Fits
<1> QED BY <1>2, <1>3 DEF FindEmployees

(* Whoever is listed in a position is listed in its salary range: a salary was held    *)
(* against the range when the request came in, and neither changed until it was        *)
(* written; but for employees whom two updates held at once, and ranges that changed.  *)
THEOREM SalariesFit == Spec => []SalaryInRange
<1>1. Typed /\ Paid /\ [Next]_vars => (Typed /\ Paid)'
  BY NextTypes, NextSalaries
<1> QED BY <1>1, InitTypes, InitSalaries, PaidInRange, PTL DEF Spec

-----------------------------------------------------------------------------
(* Names *)

(* The rows that have a name.  The code of a currency is its own after it is deleted. *)
LoginRows(n) == {u \in LiveIds(users) : users[u].login = n}
RoleRows(n) == {r \in LiveIds(roles) : roles[r].name = n}
TitleRows(t) == {i \in LiveIds(positions) : positions[i].title = t}
DepartmentRows(n) == {d \in LiveIds(departments) : departments[d].name = n}
CodeRows(c) == {i \in DOMAIN currencies : currencies[i].code = c}

RowsWith(name) ==
    CASE name[1] = "user" -> LoginRows(name[2])
      [] name[1] = "role" -> RoleRows(name[2])
      [] name[1] = "position" -> TitleRows(name[2])
      [] name[1] = "department" -> DepartmentRows(name[2])
      [] name[1] = "currency" -> CodeRows(name[2])
      [] OTHER -> DOMAIN settings

(* The row that a handler gives the name it holds may have it already. *)
Own(h) ==
    CASE h.pc = "saveUser" -> {h.user}
      [] h.pc = "savePosition" -> {h.position}
      [] OTHER -> {}

(* Roles are looked for in upper case. *)
Proper(name) == name[1] = "role" => Upper[name[2]] = name[2]

OneRow(name) == \A i, j \in RowsWith(name) : i = j

OneHolder(name) ==
    \A p, q \in Procs : name \in HeldBy(handler[p]) /\ name \in HeldBy(handler[q]) => p = q

(* A name is still free when it is written. *)
StillFree(name) ==
    \A p \in Procs : name \in HeldBy(handler[p]) => RowsWith(name) \subseteq Own(handler[p])

Unique ==
    \A name \in Names : name \notin contended /\ Proper(name) =>
        OneRow(name) /\ OneHolder(name) /\ StillFree(name)

(* Where a name is kept *)
LEMMA RowsOf ==
  ASSUME NEW name \in Names
  PROVE  \/ /\ name[1] = "user" /\ name[2] \in Logins /\ name = <<"user", name[2]>>
            /\ RowsWith(name) = LoginRows(name[2]) /\ RowsWith(name)' = LoginRows(name[2])'
         \/ /\ name[1] = "role" /\ name[2] \in RoleNames /\ name = <<"role", name[2]>>
            /\ RowsWith(name) = RoleRows(name[2]) /\ RowsWith(name)' = RoleRows(name[2])'
         \/ /\ name[1] = "position" /\ name[2] \in Titles /\ name = <<"position", name[2]>>
            /\ RowsWith(name) = TitleRows(name[2]) /\ RowsWith(name)' = TitleRows(name[2])'
         \/ /\ name[1] = "department" /\ name[2] \in DepartmentNames
            /\ name = <<"department", name[2]>>
            /\ RowsWith(name) = DepartmentRows(name[2])
            /\ RowsWith(name)' = DepartmentRows(name[2])'
         \/ /\ name[1] = "currency" /\ name[2] \in Codes /\ name = <<"currency", name[2]>>
            /\ RowsWith(name) = CodeRows(name[2]) /\ RowsWith(name)' = CodeRows(name[2])'
         \/ /\ name[1] = "settings" /\ name = <<"settings", "company">>
            /\ RowsWith(name) = DOMAIN settings /\ RowsWith(name)' = DOMAIN settings'
<1>1. CASE name \in {"user"} \X Logins
  BY <1>1 DEF RowsWith
<1>2. CASE name \in {"role"} \X RoleNames
  BY <1>2 DEF RowsWith
<1>3. CASE name \in {"position"} \X Titles
  BY <1>3 DEF RowsWith
<1>4. CASE name \in {"department"} \X DepartmentNames
  BY <1>4 DEF RowsWith
<1>5. CASE name \in {"currency"} \X Codes
  BY <1>5 DEF RowsWith
<1>6. CASE name = <<"settings", "company">>
  BY <1>6 DEF RowsWith
<1> QED BY <1>1, <1>2, <1>3, <1>4, <1>5, <1>6 DEF Names

(* Rows of one kind depend on one table. *)
LEMMA RowsStay ==
  ASSUME NEW name \in Names
  PROVE  /\ name[1] = "user" /\ UNCHANGED users => RowsWith(name)' = RowsWith(name)
         /\ name[1] = "role" /\ UNCHANGED roles => RowsWith(name)' = RowsWith(name)
         /\ name[1] = "position" /\ UNCHANGED positions => RowsWith(name)' = RowsWith(name)
         /\ name[1] = "department" /\ UNCHANGED departments => RowsWith(name)' = RowsWith(name)
         /\ name[1] = "currency" /\ UNCHANGED currencies => RowsWith(name)' = RowsWith(name)
         /\ name[1] = "settings" /\ UNCHANGED settings => RowsWith(name)' = RowsWith(name)
<1>1. /\ UNCHANGED users => LoginRows(name[2])' = LoginRows(name[2])
      /\ UNCHANGED roles => RoleRows(name[2])' = RoleRows(name[2])
      /\ UNCHANGED positions => TitleRows(name[2])' = TitleRows(name[2])
      /\ UNCHANGED departments => DepartmentRows(name[2])' = DepartmentRows(name[2])
      /\ UNCHANGED currencies => CodeRows(name[2])' = CodeRows(name[2])
  BY DEF LoginRows, RoleRows, TitleRows, DepartmentRows, CodeRows, LiveIds
<1> QED BY <1>1, RowsOf

(* Names are written by the one that held them, or are not written at all. *)
LEMMA NamesStep ==
  ASSUME Unique, contended \subseteq contended',
         \A q \in Procs :
            \/ HeldBy(handler'[q]) = {}
            \/ /\ HeldBy(handler'[q]) = HeldBy(handler[q])
               /\ Own(handler'[q]) = Own(handler[q]),
         \A name \in Names : name \notin contended' /\ Proper(name) =>
            \/ RowsWith(name)' \subseteq RowsWith(name)
            \/ /\ OneRow(name)'
               /\ \A q \in Procs : name \notin HeldBy(handler'[q])
  PROVE  Unique'
<1> SUFFICES ASSUME NEW name \in Names, name \notin contended', Proper(name)
             PROVE  OneRow(name)' /\ OneHolder(name)' /\ StillFree(name)'
  BY DEF Unique, Proper
<1>1. OneRow(name) /\ OneHolder(name) /\ StillFree(name)
  BY DEF Unique
<1>2. \A q \in Procs : name \in HeldBy(handler'[q]) => /\ name \in HeldBy(handler[q])
                                                       /\ Own(handler'[q]) = Own(handler[q])
  OBVIOUS
<1>3. OneHolder(name)'
  BY <1>1, <1>2 DEF OneHolder, HeldBy
<1>4. CASE RowsWith(name)' \subseteq RowsWith(name)
  <2>1. OneRow(name)'
    BY <1>1, <1>4 DEF OneRow
  <2>2. StillFree(name)'
    BY <1>1, <1>2, <1>4 DEF StillFree, HeldBy, Own
  <2> QED BY <2>1, <2>2, <1>3
<1>5. CASE OneRow(name)' /\ \A q \in Procs : name \notin HeldBy(handler'[q])
  BY <1>3, <1>5 DEF StillFree, HeldBy
<1> QED BY <1>4, <1>5

(* A handler has found names free that nobody else held, or they are contended. *)
LEMMA NamesRead ==
  ASSUME Typed, Unique, NEW p \in Procs, NEW h, Proceed(p, h),
         UNCHANGED <<staff, accounts, company>>,
         \A name \in HeldBy(h) :
            name \in Names /\ Proper(name) => RowsWith(name) \subseteq Own(h)
  PROVE  Unique'
<1>1. \A q \in Procs : handler'[q] = IF q = p THEN h ELSE handler[q]
  BY Went DEF Proceed
<1>2. contended' = contended \cup (Held \cap HeldBy(h))
  BY DEF Proceed
<1> SUFFICES ASSUME NEW name \in Names, name \notin contended', Proper(name)
             PROVE  OneRow(name)' /\ OneHolder(name)' /\ StillFree(name)'
  BY DEF Unique, Proper
<1>3. OneRow(name) /\ OneHolder(name) /\ StillFree(name)
  BY <1>2 DEF Unique
<1>4. RowsWith(name)' = RowsWith(name)
  BY RowsStay, RowsOf DEF staff, accounts, company
<1>5. name \in HeldBy(h) => \A q \in Procs : name \notin HeldBy(handler[q])
  BY <1>2 DEF Held
<1>6. OneRow(name)'
  BY <1>3, <1>4 DEF OneRow
<1>7. \A q \in Procs : \A r \in Procs :
         name \in HeldBy(handler'[q]) /\ name \in HeldBy(handler'[r]) => q = r
  BY <1>1, <1>3, <1>5 DEF OneHolder
<1>8. \A q \in Procs : name \in HeldBy(handler'[q]) => RowsWith(name) \subseteq Own(handler'[q])
  BY <1>1, <1>3 DEF StillFree
<1>9. OneHolder(name)'
  BY <1>7 DEF OneHolder, HeldBy
<1>10. StillFree(name)'
  BY <1>4, <1>8 DEF StillFree, HeldBy, Own
<1> QED BY <1>6, <1>9, <1>10

(* What is looked for when a request is let in *)
LEMMA RequestNames ==
  ASSUME Typed, Unique, NEW p \in Procs, NEW h, LetIn(p, h)
  PROVE  Unique'
<1>1. h \in Handler /\ Read(h) /\ Sound(h)
  BY DEF LetIn
<1>2. ASSUME NEW name \in HeldBy(h), name \in Names, Proper(name)
      PROVE  RowsWith(name) \subseteq Own(h)
  <2>1. CASE h.pc = "addEmployee"
    <3>1. name = <<"user", h.login>> /\ name[1] = "user" /\ name[2] = h.login
      BY <2>1, <1>2 DEF HeldBy
    <3>2. ~LoginTaken(h.login, None)
      BY <2>1, <1>1 DEF Read
    <3>3. \A u \in DOMAIN users : u # None
      BY OrganisationAssumption DEF Typed, TypeOK
    <3>4. LoginRows(h.login) = {}
      BY <3>2, <3>3 DEF LoginTaken, LoginRows, LiveIds
    <3> QED BY <3>1, <3>4, <1>2, RowsOf
  <2>2. CASE h.pc = "saveUser"
    <3>1. name = <<"user", h.login>> /\ name[1] = "user" /\ name[2] = h.login
      BY <2>2, <1>2 DEF HeldBy
    <3>2. h.login \in Logins /\ h.login # None
      BY <3>1, <1>2, RowsOf, OrganisationAssumption
    <3>3. ~LoginTaken(h.login, h.user)
      BY <2>2, <3>2, <1>1 DEF Read
    <3>4. LoginRows(h.login) \subseteq {h.user}
      BY <3>3 DEF LoginTaken, LoginRows
    <3>5. Own(h) = {h.user}
      BY <2>2 DEF Own
    <3> QED BY <3>1, <3>4, <3>5, <1>2, RowsOf
  <2>3. CASE h.pc \in {"addRole", "addNamedRole"}
    <3>1. name = <<"role", h.name>> /\ name[1] = "role" /\ name[2] = h.name
      BY <2>3, <1>2 DEF HeldBy
    <3>2. RoleRows(h.name) = {}
      BY <2>3, <1>1 DEF Read, RoleRows
    <3> QED BY <3>1, <3>2, <1>2, RowsOf
  <2>4. CASE h.pc = "renameRole"
    <3>1. name = <<"role", h.name>> /\ name[1] = "role" /\ name[2] = h.name
      BY <2>4, <1>2 DEF HeldBy
    <3>2. Upper[h.name] = h.name
      BY <3>1, <1>2 DEF Proper
    <3>3. RoleRows(h.name) = {}
      BY <2>4, <3>2, <1>1 DEF Read, RoleTaken, RoleRows
    <3> QED BY <3>1, <3>3, <1>2, RowsOf
  <2>5. CASE h.pc = "addPosition"
    <3>1. name = <<"position", h.title>> /\ name[1] = "position" /\ name[2] = h.title
      BY <2>5, <1>2 DEF HeldBy
    <3>2. ~TitleTaken(h.title, None)
      BY <2>5, <1>1 DEF Read
    <3>3. \A i \in DOMAIN positions : i # None
      BY OrganisationAssumption DEF Typed, TypeOK
    <3>4. TitleRows(h.title) = {}
      BY <3>2, <3>3 DEF TitleTaken, TitleRows, LiveIds
    <3> QED BY <3>1, <3>4, <1>2, RowsOf
  <2>6. CASE h.pc = "savePosition"
    <3>1. name = <<"position", h.title>> /\ name[1] = "position" /\ name[2] = h.title
      BY <2>6, <1>2 DEF HeldBy
    <3>2. h.title \in Titles /\ h.title # None
      BY <3>1, <1>2, RowsOf, OrganisationAssumption
    <3>3. ~TitleTaken(h.title, h.position)
      BY <2>6, <3>2, <1>1 DEF Read
    <3>4. TitleRows(h.title) \subseteq {h.position}
      BY <3>3 DEF TitleTaken, TitleRows
    <3>5. Own(h) = {h.position}
      BY <2>6 DEF Own
    <3> QED BY <3>1, <3>4, <3>5, <1>2, RowsOf
  <2>7. CASE h.pc = "addDepartment"
    <3>1. name = <<"department", h.name>> /\ name[1] = "department" /\ name[2] = h.name
      BY <2>7, <1>2 DEF HeldBy
    <3>2. DepartmentRows(h.name) = {}
      BY <2>7, <1>1 DEF Read, NameTaken, DepartmentRows
    <3> QED BY <3>1, <3>2, <1>2, RowsOf
  <2>8. CASE h.pc \in {"addCurrency", "addSettings"}
    <3>1. /\ name = <<"settings", "company">> /\ name[1] = "settings"
          /\ h.for = "settings"
      BY <2>8, <1>2 DEF HeldBy
    <3>2. settings = <<>>
      BY <2>8, <3>1, <1>1 DEF Read
    <3>3. DOMAIN settings = {}
      BY <3>2
    <3> QED BY <3>1, <3>3, <1>2, RowsOf
  <2>9. h.pc # "addUser"
    BY <1>1 DEF Read
  <2>10. CASE h.pc \notin {"addUser", "addEmployee", "saveUser", "addRole", "addNamedRole",
                           "renameRole", "addPosition", "savePosition", "addDepartment",
                           "addCurrency", "addSettings"}
    BY <2>10, <1>2 DEF HeldBy
  <2> QED BY <2>1, <2>2, <2>3, <2>4, <2>5, <2>6, <2>7, <2>8, <2>9, <2>10
<1> QED BY <1>2, NamesRead DEF LetIn, Start

LEMMA CheckUserNames ==
  ASSUME Typed, Unique, NEW p \in Procs, CheckUser(p)
  PROVE  Unique'
<1>1. PICK h, g : /\ h = handler[p]
                  /\ g = IF LoginTaken(h.login, None) THEN Idle
                         ELSE [pc |-> "addUser", login |-> h.login, role |-> h.role]
  OBVIOUS
<1>2. Proceed(p, g) /\ UNCHANGED <<staff, accounts, company>>
  BY <1>1 DEF CheckUser
<1>3. ASSUME NEW name \in HeldBy(g), name \in Names, Proper(name)
      PROVE  RowsWith(name) \subseteq Own(g)
  <2>1. g # Idle
    BY <1>3, IdleFits
  <2>2. ~LoginTaken(h.login, None) /\ g.pc = "addUser" /\ g.login = h.login
    BY <2>1, <1>1
  <2>3. name = <<"user", h.login>> /\ name[1] = "user" /\ name[2] = h.login
    BY <2>2, <1>3 DEF HeldBy
  <2>4. \A u \in DOMAIN users : u # None
    BY OrganisationAssumption DEF Typed, TypeOK
  <2>5. LoginRows(h.login) = {}
    BY <2>2, <2>4 DEF LoginTaken, LoginRows, LiveIds
  <2> QED BY <2>3, <2>5, <1>3, RowsOf
<1> QED BY <1>2, <1>3, NamesRead

LEMMA NamesAside ==
  ASSUME Typed, Unique, NEW p \in Procs, NEW h, Goto(p, h), HeldBy(h) = {},
         UNCHANGED contended,
         \A name \in Names : RowsWith(name)' \subseteq RowsWith(name)
  PROVE  Unique'
<1>1. \A q \in Procs : \/ HeldBy(handler'[q]) = {}
                       \/ /\ HeldBy(handler'[q]) = HeldBy(handler[q])
                          /\ Own(handler'[q]) = Own(handler[q])
  BY Went
<1> QED BY <1>1, NamesStep

(* The name x that was held is written, to one row. *)
LEMMA NameWritten ==
  ASSUME Typed, Unique, NEW p \in Procs, Goto(p, Idle), UNCHANGED contended,
         NEW x \in Names, x \in HeldBy(handler[p]),
         \A name \in Names : name = x \/ RowsWith(name)' \subseteq RowsWith(name),
         Proper(x) /\ RowsWith(x) \subseteq Own(handler[p]) => OneRow(x)'
  PROVE  Unique'
<1>1. \A q \in Procs : handler'[q] = IF q = p THEN Idle ELSE handler[q]
  BY Went
<1>2. HeldBy(Idle) = {}
  BY IdleFits
<1>3. \A q \in Procs : \/ HeldBy(handler'[q]) = {}
                       \/ /\ HeldBy(handler'[q]) = HeldBy(handler[q])
                          /\ Own(handler'[q]) = Own(handler[q])
  BY <1>1, <1>2
<1>4. ASSUME x \notin contended', Proper(x)
      PROVE  OneRow(x)' /\ \A q \in Procs : x \notin HeldBy(handler'[q])
  <2>1. OneHolder(x) /\ StillFree(x)
    BY <1>4 DEF Unique
  <2>2. OneRow(x)'
    BY <2>1, <1>4 DEF StillFree
  <2>3. \A q \in Procs : x \in HeldBy(handler[q]) => q = p
    BY <2>1 DEF OneHolder
  <2> QED BY <2>2, <2>3, <1>1, <1>2
<1>5. \A name \in Names : name \notin contended' /\ Proper(name) =>
         \/ RowsWith(name)' \subseteq RowsWith(name)
         \/ OneRow(name)' /\ \A q \in Procs : name \notin HeldBy(handler'[q])
  BY <1>4
<1> QED BY <1>3, <1>5, NamesStep

(* A new user has the login. *)
LEMMA LoginAppended ==
  ASSUME Typed, NEW n \in Logins, users' = Append(users, NewUser(n))
  PROVE  /\ \A m \in Logins : m # n => LoginRows(m)' \subseteq LoginRows(m)
         /\ LoginRows(n)' \subseteq LoginRows(n) \cup {Len(users) + 1}
<1>1. users \in Seq(User) /\ NewUser(n) \in User
  BY NewUserType DEF Typed, TypeOK
<1>2. /\ \A i \in DOMAIN users' : i \in DOMAIN users \/ i = Len(users) + 1
      /\ \A i \in DOMAIN users : users'[i] = users[i]
      /\ users'[Len(users) + 1] = NewUser(n)
  BY <1>1
<1>3. NewUser(n).login = n
  BY DEF NewUser
<1> QED BY <1>2, <1>3 DEF LoginRows, LiveIds

LEMMA NewLoginNames ==
  ASSUME Typed, Unique, NEW p \in Procs, Goto(p, Idle), NEW n \in Logins,
         <<"user", n>> \in HeldBy(handler[p]), Own(handler[p]) = {},
         users' = Append(users, NewUser(n)),
         UNCHANGED <<positions, departments, roles, company, contended>>
  PROVE  Unique'
<1>1. PICK x : x = <<"user", n>>
  OBVIOUS
<1>2. x \in Names /\ x[1] = "user" /\ x[2] = n
  BY <1>1 DEF Names
<1>3. ASSUME NEW name \in Names
      PROVE  name = x \/ RowsWith(name)' \subseteq RowsWith(name)
  <2>1. CASE name[1] = "user"
    <3>1. name[2] \in Logins /\ name = <<"user", name[2]>>
      BY <2>1, RowsOf
    <3>2. name[2] # n => LoginRows(name[2])' \subseteq LoginRows(name[2])
      BY <3>1, LoginAppended
    <3>3. RowsWith(name) = LoginRows(name[2]) /\ RowsWith(name)' = LoginRows(name[2])'
      BY <2>1, RowsOf
    <3> QED BY <3>1, <3>2, <3>3, <1>1
  <2>2. CASE name[1] # "user"
    BY <2>2, RowsStay, RowsOf DEF company
  <2> QED BY <2>1, <2>2
<1>4. ASSUME RowsWith(x) \subseteq Own(handler[p])
      PROVE  OneRow(x)'
  <2>1. RowsWith(x) = LoginRows(n) /\ RowsWith(x)' = LoginRows(n)'
    BY <1>2, RowsOf
  <2>2. LoginRows(n) = {}
    BY <2>1, <1>4
  <2>3. RowsWith(x)' \subseteq {Len(users) + 1}
    BY <2>1, <2>2, LoginAppended
  <2> QED BY <2>3 DEF OneRow
<1> QED BY <1>1, <1>2, <1>3, <1>4, NameWritten

LEMMA AddUserNames ==
  ASSUME Typed, Unique, NEW p \in Procs, AddUser(p) \/ AddEmployee(p)
  PROVE  Unique'
<1>1. PICK h : h = handler[p]
  OBVIOUS
<1>2. /\ h.pc \in {"addUser", "addEmployee"} /\ Goto(p, Idle)
      /\ users' = Append(users, NewUser(h.login)) \/ UNCHANGED users
      /\ UNCHANGED <<positions, departments, roles, company, contended>>
  BY <1>1 DEF AddUser, AddEmployee, staff, history
<1>3. h \in Handler
  BY <1>1, <1>2, TypedHandler DEF Idle
<1>4. h.login \in Logins
  BY <1>2, <1>3, HandlerFields
<1>5. HeldBy(h) = {<<"user", h.login>>} /\ Own(h) = {}
  BY <1>2 DEF HeldBy, Own
<1>6. CASE users' = Append(users, NewUser(h.login))
  BY <1>1, <1>2, <1>4, <1>5, <1>6, NewLoginNames
<1>7. CASE UNCHANGED users
  <2>1. \A name \in Names : RowsWith(name)' = RowsWith(name)
    BY <1>2, <1>7, RowsStay, RowsOf DEF company
  <2> QED BY <2>1, <1>2, IdleFits, NamesAside
<1> QED BY <1>2, <1>6, <1>7

(* The login is the user's, or was nobody's. *)
LEMMA SaveUserNames ==
  ASSUME Typed, Unique, NEW p \in Procs, SaveUser(p)
  PROVE  Unique'
<1>1. PICK h, u, y : /\ h = handler[p] /\ u = h.user
                     /\ y = [users[u] EXCEPT !.login = Given(h.login, @)]
  OBVIOUS
<1>2. /\ h.pc = "saveUser" /\ Goto(p, Idle)
      /\ users' = [users EXCEPT ![u] = y] \/ UNCHANGED users
      /\ UNCHANGED <<positions, departments, roles, company, contended>>
  BY <1>1 DEF SaveUser, staff, history
<1>3. h \in Handler
  BY <1>1, <1>2, TypedHandler DEF Idle
<1>4. u \in DOMAIN users /\ h.login \in OrNone(Logins)
  BY <1>1, <1>2, <1>3, HandlerFields
<1>5. /\ y \in User /\ y.deleted = users[u].deleted
      /\ y.login = IF h.login = None THEN users[u].login ELSE h.login
  <2>1. users[u] \in User
    BY <1>4, UserFields
  <2>2. y \in User
    BY <1>1, <1>4, UpdatedUser
  <2>3. /\ y.deleted = users[u].deleted
        /\ y.login = Given(h.login, users[u].login)
    BY <2>1, <1>1 DEF User
  <2> QED BY <2>2, <2>3 DEF Given
<1>6. \A name \in Names : name[1] # "user" => RowsWith(name)' = RowsWith(name)
  BY <1>2, RowsStay, RowsOf DEF company
<1>7. \A n \in Logins : n # h.login => LoginRows(n)' \subseteq LoginRows(n)
  <2>1. CASE users' = [users EXCEPT ![u] = y]
    <3>1. /\ DOMAIN users' = DOMAIN users
          /\ \A v \in DOMAIN users : users'[v] = IF v = u THEN y ELSE users[v]
      BY <2>1, <1>4, <1>5, Replaced DEF Typed, TypeOK
    <3> QED BY <3>1, <1>5 DEF LoginRows, LiveIds
  <2>2. CASE UNCHANGED users
    BY <2>2 DEF LoginRows, LiveIds
  <2> QED BY <2>1, <2>2, <1>2
<1>8. \A n \in Logins : LoginRows(n)' \subseteq LoginRows(n) \cup {u}
  <2>1. CASE users' = [users EXCEPT ![u] = y]
    <3>1. /\ DOMAIN users' = DOMAIN users
          /\ \A v \in DOMAIN users : users'[v] = IF v = u THEN y ELSE users[v]
      BY <2>1, <1>4, <1>5, Replaced DEF Typed, TypeOK
    <3> QED BY <3>1 DEF LoginRows, LiveIds
  <2>2. CASE UNCHANGED users
    BY <2>2 DEF LoginRows, LiveIds
  <2> QED BY <2>1, <2>2, <1>2
<1>9. PICK x : x = <<"user", h.login>>
  OBVIOUS
<1>10. ASSUME NEW name \in Names
       PROVE  name = x \/ RowsWith(name)' \subseteq RowsWith(name)
  <2>1. CASE name[1] = "user"
    <3>1. name[2] \in Logins /\ name = <<"user", name[2]>>
      BY <2>1, RowsOf
    <3>2. RowsWith(name) = LoginRows(name[2]) /\ RowsWith(name)' = LoginRows(name[2])'
      BY <2>1, RowsOf
    <3> QED BY <3>1, <3>2, <1>7, <1>9
  <2> QED BY <2>1, <1>6
<1>11. CASE h.login = None
  <2>1. x \notin Names
    BY <1>9, <1>11, RowsOf, OrganisationAssumption
  <2> QED BY <2>1, <1>2, <1>10, IdleFits, NamesAside
<1>12. CASE h.login # None
  <2>1. h.login \in Logins
    BY <1>4, <1>12 DEF OrNone
  <2>2. x \in Names /\ x[1] = "user" /\ x[2] = h.login
    BY <2>1, <1>9 DEF Names
  <2>3. x \in HeldBy(h) /\ Own(h) = {u}
    BY <2>2, <1>1, <1>2, <1>9 DEF HeldBy, Own
  <2>4. ASSUME RowsWith(x) \subseteq Own(h)
        PROVE  OneRow(x)'
    <3>1. RowsWith(x) = LoginRows(h.login) /\ RowsWith(x)' = LoginRows(h.login)'
      BY <2>2, RowsOf
    <3>2. RowsWith(x)' \subseteq {u}
      BY <3>1, <2>1, <2>3, <2>4, <1>8
    <3> QED BY <3>2 DEF OneRow
  <2> QED BY <2>2, <2>3, <2>4, <1>1, <1>2, <1>10, NameWritten
<1> QED BY <1>11, <1>12

(* A role, a position or a department is added under the name that was held. *)
LEMMA NewNameNames ==
  ASSUME Typed, Unique, NEW p \in Procs, Goto(p, Idle), UNCHANGED contended,
         NEW x \in Names, x \in HeldBy(handler[p]), Own(handler[p]) = {}, NEW i,
         \A name \in Names : name = x \/ RowsWith(name)' \subseteq RowsWith(name),
         RowsWith(x)' \subseteq RowsWith(x) \cup {i}
  PROVE  Unique'
<1>1. Proper(x) /\ RowsWith(x) \subseteq Own(handler[p]) => OneRow(x)'
  BY DEF OneRow
<1> QED BY <1>1, NameWritten

LEMMA RoleAppended ==
  ASSUME Typed, NEW n \in RoleNames, roles' = Append(roles, [name |-> n, deleted |-> FALSE])
  PROVE  /\ \A m : m # n => RoleRows(m)' \subseteq RoleRows(m)
         /\ RoleRows(n)' \subseteq RoleRows(n) \cup {Len(roles) + 1}
<1>1. PICK x : x = [name |-> n, deleted |-> FALSE]
  OBVIOUS
<1>2. roles \in Seq(Role) /\ x \in Role /\ x.name = n
  BY <1>1 DEF Typed, TypeOK, Role
<1>3. /\ \A i \in DOMAIN roles' : i \in DOMAIN roles \/ i = Len(roles) + 1
      /\ \A i \in DOMAIN roles : roles'[i] = roles[i]
      /\ roles'[Len(roles) + 1] = x
  BY <1>1, <1>2
<1> QED BY <1>2, <1>3 DEF RoleRows, LiveIds

LEMMA NewRoleNames ==
  ASSUME Typed, Unique, NEW p \in Procs, NEW n \in RoleNames,
         <<"role", n>> \in HeldBy(handler[p]), Own(handler[p]) = {},
         NEW h, Goto(p, h), HeldBy(h) = {},
         roles' = Append(roles, [name |-> n, deleted |-> FALSE]),
         UNCHANGED <<positions, departments, users, company, contended>>
  PROVE  Unique'
<1>1. PICK x : x = <<"role", n>>
  OBVIOUS
<1>2. x \in Names /\ x[1] = "role" /\ x[2] = n
  BY <1>1 DEF Names
<1>3. \A q \in Procs : handler'[q] = IF q = p THEN h ELSE handler[q]
  BY Went
<1>4. ASSUME NEW name \in Names, name # x
      PROVE  RowsWith(name)' \subseteq RowsWith(name)
  <2>1. CASE name[1] = "role"
    <3>1. /\ name = <<"role", name[2]>>
          /\ RowsWith(name) = RoleRows(name[2]) /\ RowsWith(name)' = RoleRows(name[2])'
      BY <2>1, RowsOf
    <3> QED BY <3>1, <1>1, <1>4, RoleAppended
  <2>2. CASE name[1] # "role"
    BY <2>2, RowsStay, RowsOf DEF company
  <2> QED BY <2>1, <2>2
<1>5. ASSUME x \notin contended', Proper(x)
      PROVE  OneRow(x)' /\ \A q \in Procs : x \notin HeldBy(handler'[q])
  <2>1. OneHolder(x) /\ StillFree(x)
    BY <1>2, <1>5 DEF Unique
  <2>2. RowsWith(x) = RoleRows(n) /\ RowsWith(x)' = RoleRows(n)'
    BY <1>2, RowsOf
  <2>3. RowsWith(x) = {}
    BY <2>1, <1>1 DEF StillFree
  <2>4. RowsWith(x)' \subseteq {Len(roles) + 1}
    BY <2>2, <2>3, RoleAppended
  <2>5. \A q \in Procs : x \in HeldBy(handler[q]) => q = p
    BY <2>1, <1>1 DEF OneHolder
  <2> QED BY <2>4, <2>5, <1>3 DEF OneRow
<1>6. \A q \in Procs : \/ HeldBy(handler'[q]) = {}
                       \/ /\ HeldBy(handler'[q]) = HeldBy(handler[q])
                          /\ Own(handler'[q]) = Own(handler[q])
  BY <1>3
<1>7. \A name \in Names : name \notin contended' /\ Proper(name) =>
         \/ RowsWith(name)' \subseteq RowsWith(name)
         \/ OneRow(name)' /\ \A q \in Procs : name \notin HeldBy(handler'[q])
  BY <1>4, <1>5
<1> QED BY <1>6, <1>7, NamesStep

LEMMA AddRoleNames ==
  ASSUME Typed, Unique, NEW p \in Procs, AddRole(p) \/ AddNamedRole(p)
  PROVE  Unique'
<1>1. PICK h : h = handler[p]
  OBVIOUS
<1>2. /\ h.pc \in {"addRole", "addNamedRole"}
      /\ roles' = Append(roles, [name |-> h.name, deleted |-> FALSE])
      /\ UNCHANGED <<positions, departments, users, company, contended>>
  BY <1>1 DEF AddRole, AddNamedRole, staff, history
<1>3. h \in Handler
  BY <1>1, <1>2, TypedHandler DEF Idle
<1>4. h.name \in RoleNames
  BY <1>2, <1>3, HandlerFields
<1>5. HeldBy(h) = {<<"role", h.name>>} /\ Own(h) = {}
  BY <1>2 DEF HeldBy, Own
<1>6. PICK g : Goto(p, g) /\ HeldBy(g) = {}
  <2>1. CASE AddRole(p)
    BY <2>1, AddRoleGoes DEF HeldBy
  <2>2. CASE AddNamedRole(p)
    BY <2>2, IdleFits DEF AddNamedRole
  <2> QED BY <2>1, <2>2
<1> QED BY <1>1, <1>2, <1>4, <1>5, <1>6, NewRoleNames

LEMMA RenameRoleNames ==
  ASSUME Typed, Unique, NEW p \in Procs, RenameRole(p)
  PROVE  Unique'
<1>1. PICK h, r, y : /\ h = handler[p] /\ r = h.role /\ y = [roles[r] EXCEPT !.name = h.name]
  OBVIOUS
<1>2. /\ h.pc = "renameRole" /\ Goto(p, Idle) /\ roles' = [roles EXCEPT ![r] = y]
      /\ UNCHANGED <<positions, departments, users, company, contended>>
  BY <1>1 DEF RenameRole, staff, history
<1>3. h \in Handler
  BY <1>1, <1>2, TypedHandler DEF Idle
<1>4. r \in DOMAIN roles /\ h.name \in RoleNames
  BY <1>1, <1>2, <1>3, HandlerFields
<1>5. y \in Role /\ y.name = h.name
  <2>1. roles[r] \in Role /\ y \in Role
    BY <1>1, <1>4, RoleTable
  <2> QED BY <2>1, <1>1 DEF Role
<1>6. /\ DOMAIN roles' = DOMAIN roles
      /\ \A i \in DOMAIN roles : roles'[i] = IF i = r THEN y ELSE roles[i]
  BY <1>2, <1>4, <1>5, Replaced DEF Typed, TypeOK
<1>7. y.deleted = roles[r].deleted
  BY <1>1, <1>4, RoleTable DEF Role
<1>8. /\ \A m : m # h.name => RoleRows(m)' \subseteq RoleRows(m)
      /\ RoleRows(h.name)' \subseteq RoleRows(h.name) \cup {r}
  BY <1>5, <1>6, <1>7 DEF RoleRows, LiveIds
<1>9. PICK x : x = <<"role", h.name>>
  OBVIOUS
<1>10. x \in Names /\ x[1] = "role" /\ x[2] = h.name
  BY <1>4, <1>9 DEF Names
<1>11. x \in HeldBy(h) /\ Own(h) = {}
  BY <1>2, <1>9 DEF HeldBy, Own
<1>12. ASSUME NEW name \in Names
       PROVE  name = x \/ RowsWith(name)' \subseteq RowsWith(name)
  <2>1. CASE name[1] = "role"
    <3>1. /\ name = <<"role", name[2]>>
          /\ RowsWith(name) = RoleRows(name[2]) /\ RowsWith(name)' = RoleRows(name[2])'
      BY <2>1, RowsOf
    <3> QED BY <3>1, <1>8, <1>9
  <2>2. CASE name[1] # "role"
    BY <2>2, <1>2, RowsStay, RowsOf DEF company
  <2> QED BY <2>1, <2>2
<1>13. RowsWith(x)' \subseteq RowsWith(x) \cup {r}
  <2>1. RowsWith(x) = RoleRows(h.name) /\ RowsWith(x)' = RoleRows(h.name)'
    BY <1>10, RowsOf
  <2> QED BY <2>1, <1>8
<1> QED BY <1>1, <1>2, <1>10, <1>11, <1>12, <1>13, NewNameNames

LEMMA AddPositionNames ==
  ASSUME Typed, Unique, NEW p \in Procs, AddPosition(p)
  PROVE  Unique'
<1>1. PICK h, y, x :
         /\ h = handler[p] /\ y = [title |-> h.title, range |-> h.range, deleted |-> FALSE]
         /\ x = <<"position", h.title>>
  OBVIOUS
<1>2. /\ h.pc = "addPosition" /\ Goto(p, Idle) /\ positions' = Append(positions, y)
      /\ UNCHANGED <<departments, users, roles, company, contended>>
  BY <1>1 DEF AddPosition, accounts, history
<1>3. h \in Handler
  BY <1>1, <1>2, TypedHandler DEF Idle
<1>4. h.title \in Titles /\ h.range \in Ranges
  BY <1>2, <1>3, HandlerFields
<1>5. y \in Position /\ y.title = h.title
  BY <1>1, <1>4, PositionTable
<1>6. positions \in Seq(Position)
  BY DEF Typed, TypeOK
<1>7. /\ \A i \in DOMAIN positions' : i \in DOMAIN positions \/ i = Len(positions) + 1
      /\ \A i \in DOMAIN positions : positions'[i] = positions[i]
      /\ positions'[Len(positions) + 1] = y
  BY <1>2, <1>5, <1>6
<1>8. /\ \A t : t # h.title => TitleRows(t)' \subseteq TitleRows(t)
      /\ TitleRows(h.title)' \subseteq TitleRows(h.title) \cup {Len(positions) + 1}
  BY <1>5, <1>7 DEF TitleRows, LiveIds
<1>9. x \in Names /\ x[1] = "position" /\ x[2] = h.title
  BY <1>1, <1>4 DEF Names
<1>10. x \in HeldBy(h) /\ Own(h) = {}
  BY <1>1, <1>2, <1>9 DEF HeldBy, Own
<1>11. ASSUME NEW name \in Names
       PROVE  name = x \/ RowsWith(name)' \subseteq RowsWith(name)
  <2>1. CASE name[1] = "position"
    <3>1. /\ name = <<"position", name[2]>>
          /\ RowsWith(name) = TitleRows(name[2]) /\ RowsWith(name)' = TitleRows(name[2])'
      BY <2>1, RowsOf
    <3> QED BY <3>1, <1>1, <1>8
  <2>2. CASE name[1] # "position"
    BY <2>2, <1>2, RowsStay, RowsOf DEF company
  <2> QED BY <2>1, <2>2
<1>12. RowsWith(x)' \subseteq RowsWith(x) \cup {Len(positions) + 1}
  <2>1. RowsWith(x) = TitleRows(h.title) /\ RowsWith(x)' = TitleRows(h.title)'
    BY <1>9, RowsOf
  <2> QED BY <2>1, <1>8
<1> QED BY <1>1, <1>2, <1>9, <1>10, <1>11, <1>12, NewNameNames

LEMMA SavePositionNames ==
  ASSUME Typed, Unique, NEW p \in Procs, SavePosition(p)
  PROVE  Unique'
<1>1. PICK h, k, x : h = handler[p] /\ k = h.position /\ x = <<"position", h.title>>
  OBVIOUS
<1>2. /\ h.pc = "savePosition" /\ Goto(p, Idle)
      /\ positions' = [positions EXCEPT ![k].title = Given(h.title, @),
                                        ![k].range = Given(h.range, @)]
      /\ UNCHANGED <<departments, users, roles, company, contended>>
  BY <1>1 DEF SavePosition, accounts
<1>3. h \in Handler
  BY <1>1, <1>2, TypedHandler DEF Idle
<1>4. k \in DOMAIN positions /\ h.title \in OrNone(Titles) /\ h.range \in OrNone(Ranges)
  BY <1>1, <1>2, <1>3, HandlerFields
<1>5. PICK y : y = [positions[k] EXCEPT !.title = Given(h.title, @),
                                        !.range = Given(h.range, @)]
  OBVIOUS
<1>6. y \in Position /\ positions' = [positions EXCEPT ![k] = y]
  BY <1>2, <1>4, <1>5, PositionTable, SavedPosition
<1>7. /\ DOMAIN positions' = DOMAIN positions
      /\ \A i \in DOMAIN positions : positions'[i] = IF i = k THEN y ELSE positions[i]
  BY <1>4, <1>6, Replaced DEF Typed, TypeOK
<1>8. y.deleted = positions[k].deleted /\ y.title = Given(h.title, positions[k].title)
  BY <1>4, <1>5, PositionTable DEF Position
<1>9. /\ \A t \in Titles : t # h.title => TitleRows(t)' \subseteq TitleRows(t)
      /\ \A t \in Titles : TitleRows(t)' \subseteq TitleRows(t) \cup {k}
  BY <1>7, <1>8 DEF TitleRows, LiveIds, Given
<1>10. ASSUME NEW name \in Names
       PROVE  name = x \/ RowsWith(name)' \subseteq RowsWith(name)
  <2>1. CASE name[1] = "position"
    <3>1. name[2] \in Titles /\ name = <<"position", name[2]>>
      BY <2>1, RowsOf
    <3>2. RowsWith(name) = TitleRows(name[2]) /\ RowsWith(name)' = TitleRows(name[2])'
      BY <2>1, RowsOf
    <3> QED BY <3>1, <3>2, <1>1, <1>9
  <2>2. CASE name[1] # "position"
    BY <2>2, <1>2, RowsStay, RowsOf DEF company
  <2> QED BY <2>1, <2>2
<1>11. CASE h.title = None
  <2>1. x \notin Names
    BY <1>1, <1>11, RowsOf, OrganisationAssumption
  <2> QED BY <2>1, <1>2, <1>10, IdleFits, NamesAside
<1>12. CASE h.title # None
  <2>1. h.title \in Titles
    BY <1>4, <1>12 DEF OrNone
  <2>2. x \in Names /\ x[1] = "position" /\ x[2] = h.title
    BY <2>1, <1>1 DEF Names
  <2>3. x \in HeldBy(h) /\ Own(h) = {k}
    BY <2>2, <1>1, <1>2 DEF HeldBy, Own
  <2>4. ASSUME RowsWith(x) \subseteq Own(h)
        PROVE  OneRow(x)'
    <3>1. RowsWith(x) = TitleRows(h.title) /\ RowsWith(x)' = TitleRows(h.title)'
      BY <2>2, RowsOf
    <3>2. RowsWith(x)' \subseteq {k}
      BY <3>1, <2>1, <2>3, <2>4, <1>9
    <3> QED BY <3>2 DEF OneRow
  <2> QED BY <2>2, <2>3, <2>4, <1>1, <1>2, <1>10, NameWritten
<1> QED BY <1>11, <1>12

LEMMA AddDepartmentNames ==
  ASSUME Typed, Unique, NEW p \in Procs, AddDepartment(p)
  PROVE  Unique'
<1>1. PICK h, y, x :
         /\ h = handler[p] /\ y = [name |-> h.name, deleted |-> FALSE]
         /\ x = <<"department", h.name>>
  OBVIOUS
<1>2. /\ h.pc = "addDepartment" /\ Goto(p, Idle) /\ departments' = Append(departments, y)
      /\ UNCHANGED <<positions, users, roles, company, contended>>
  BY <1>1 DEF AddDepartment, accounts, history
<1>3. h \in Handler
  BY <1>1, <1>2, TypedHandler DEF Idle
<1>4. h.name \in DepartmentNames
  BY <1>2, <1>3, HandlerFields
<1>5. y \in Department /\ y.name = h.name
  BY <1>1, <1>4, DepartmentTable
<1>6. departments \in Seq(Department)
  BY DEF Typed, TypeOK
<1>7. /\ \A i \in DOMAIN departments' : i \in DOMAIN departments \/ i = Len(departments) + 1
      /\ \A i \in DOMAIN departments : departments'[i] = departments[i]
      /\ departments'[Len(departments) + 1] = y
  BY <1>2, <1>5, <1>6
<1>8. /\ \A n : n # h.name => DepartmentRows(n)' \subseteq DepartmentRows(n)
      /\ DepartmentRows(h.name)' \subseteq DepartmentRows(h.name) \cup {Len(departments) + 1}
  BY <1>5, <1>7 DEF DepartmentRows, LiveIds
<1>9. x \in Names /\ x[1] = "department" /\ x[2] = h.name
  BY <1>1, <1>4 DEF Names
<1>10. x \in HeldBy(h) /\ Own(h) = {}
  BY <1>1, <1>2 DEF HeldBy, Own
<1>11. ASSUME NEW name \in Names
       PROVE  name = x \/ RowsWith(name)' \subseteq RowsWith(name)
  <2>1. CASE name[1] = "department"
    <3>1. /\ name = <<"department", name[2]>>
          /\ RowsWith(name) = DepartmentRows(name[2])
          /\ RowsWith(name)' = DepartmentRows(name[2])'
      BY <2>1, RowsOf
    <3> QED BY <3>1, <1>1, <1>8
  <2>2. CASE name[1] # "department"
    BY <2>2, <1>2, RowsStay, RowsOf DEF company
  <2> QED BY <2>1, <2>2
<1>12. RowsWith(x)' \subseteq RowsWith(x) \cup {Len(departments) + 1}
  <2>1. RowsWith(x) = DepartmentRows(h.name) /\ RowsWith(x)' = DepartmentRows(h.name)'
    BY <1>9, RowsOf
  <2> QED BY <2>1, <1>8
<1> QED BY <1>1, <1>2, <1>9, <1>10, <1>11, <1>12, NewNameNames

(* The code of a currency is unique by a key; the settings follow if they were asked for. *)
LEMMA AddCurrencyNames ==
  ASSUME Typed, Unique, NEW p \in Procs, AddCurrency(p)
  PROVE  Unique'
<1>1. PICK h : h = handler[p]
  OBVIOUS
<1>2. /\ h.pc = "addCurrency" /\ UNCHANGED <<positions, departments, users, roles, settings,
                                             contended>>
      /\ currencies' = IF \A i \in DOMAIN currencies : currencies[i].code # h.code
                       THEN Append(currencies, [code |-> h.code, deleted |-> FALSE])
                       ELSE currencies
  BY <1>1 DEF AddCurrency, staff, accounts, history
<1>3. \A q \in Procs : \/ HeldBy(handler'[q]) = {}
                       \/ /\ HeldBy(handler'[q]) = HeldBy(handler[q])
                          /\ Own(handler'[q]) = Own(handler[q])
  <2>1. CASE Goto(p, Idle)
    BY <2>1, Went, IdleFits
  <2>2. ASSUME NEW g, Goto(p, g), g.pc = "addSettings", g.for = "settings",
               h.for = "settings"
        PROVE  \A q \in Procs : \/ HeldBy(handler'[q]) = {}
                                \/ /\ HeldBy(handler'[q]) = HeldBy(handler[q])
                                   /\ Own(handler'[q]) = Own(handler[q])
    <3>1. HeldBy(g) = HeldBy(h) /\ Own(g) = Own(h)
      BY <2>2, <1>2 DEF HeldBy, Own
    <3> QED BY <3>1, <2>2, <1>1, Went
  <2> QED BY <2>1, <2>2, <1>1, AddCurrencyGoes
<1>4. ASSUME NEW name \in Names
      PROVE  \/ RowsWith(name)' \subseteq RowsWith(name)
             \/ OneRow(name)' /\ \A q \in Procs : name \notin HeldBy(handler'[q])
  <2>1. CASE name[1] # "currency"
    BY <2>1, <1>2, RowsStay, RowsOf
  <2>2. CASE name[1] = "currency"
    <3>1. RowsWith(name) = CodeRows(name[2]) /\ RowsWith(name)' = CodeRows(name[2])'
      BY <2>2, RowsOf
    <3>2. \A q \in Procs : name \notin HeldBy(handler'[q])
      BY <2>2 DEF HeldBy
    <3>3. CASE UNCHANGED currencies
      BY <2>2, <3>3, RowsStay
    <3>4. CASE /\ \A i \in DOMAIN currencies : currencies[i].code # h.code
               /\ currencies' = Append(currencies, [code |-> h.code, deleted |-> FALSE])
      <4>1. PICK x : x = [code |-> h.code, deleted |-> FALSE]
        OBVIOUS
      <4>2. currencies \in Seq(Currency)
        BY DEF Typed, TypeOK
      <4>3. /\ \A i \in DOMAIN currencies' : i \in DOMAIN currencies \/ i = Len(currencies) + 1
            /\ \A i \in DOMAIN currencies : currencies'[i] = currencies[i]
            /\ currencies'[Len(currencies) + 1] = x
        BY <3>4, <4>1, <4>2
      <4>4. CASE name[2] = h.code
        <5>1. CodeRows(name[2])' \subseteq {Len(currencies) + 1}
          BY <3>4, <4>3, <4>4 DEF CodeRows
        <5> QED BY <5>1, <3>1, <3>2 DEF OneRow
      <4>5. CASE name[2] # h.code
        <5>1. CodeRows(name[2])' \subseteq CodeRows(name[2])
          BY <4>1, <4>3, <4>5 DEF CodeRows
        <5> QED BY <5>1, <3>1
      <4> QED BY <4>4, <4>5
    <3> QED BY <3>3, <3>4, <1>2
  <2> QED BY <2>1, <2>2
<1> QED BY <1>2, <1>3, <1>4, NamesStep

LEMMA AddSettingsNames ==
  ASSUME Typed, Unique, NEW p \in Procs, AddSettings(p)
  PROVE  Unique'
<1>1. PICK h, x : h = handler[p] /\ x = <<"settings", "company">>
  OBVIOUS
<1>2. /\ h.pc = "addSettings" /\ Goto(p, Idle) /\ settings' = Append(settings, h.code)
      /\ UNCHANGED <<positions, departments, users, roles, currencies, contended>>
  BY <1>1 DEF AddSettings, staff, accounts, history
<1>3. h.for = "settings"
  BY <1>1, <1>2, TypedHandler DEF Sound
<1>4. x \in Names /\ x[1] = "settings"
  BY <1>1 DEF Names
<1>5. x \in HeldBy(h) /\ Own(h) = {}
  BY <1>1, <1>2, <1>3 DEF HeldBy, Own
<1>6. ASSUME NEW name \in Names
      PROVE  name = x \/ RowsWith(name)' \subseteq RowsWith(name)
  <2>1. CASE name[1] = "settings"
    BY <2>1, <1>1, RowsOf
  <2>2. CASE name[1] # "settings"
    BY <2>2, <1>2, RowsStay, RowsOf
  <2> QED BY <2>1, <2>2
<1>7. RowsWith(x)' \subseteq RowsWith(x) \cup {Len(settings) + 1}
  <2>1. RowsWith(x) = DOMAIN settings /\ RowsWith(x)' = DOMAIN settings'
    BY <1>4, RowsOf
  <2>2. settings \in Seq(Codes)
    BY DEF Typed, TypeOK
  <2>3. DOMAIN settings' \subseteq DOMAIN settings \cup {Len(settings) + 1}
    BY <2>2, <1>2
  <2> QED BY <2>1, <2>3
<1> QED BY <1>1, <1>2, <1>4, <1>5, <1>6, <1>7, NewNameNames


(* A picture is no name. *)
LEMMA ImageNames ==
  ASSUME Typed, Unique, NEW p \in Procs, NEW h, Goto(p, h), HeldBy(h) = {},
         NEW u \in DOMAIN users, NEW x, users' = [users EXCEPT ![u].image = x],
         UNCHANGED <<positions, departments, roles, company, contended>>
  PROVE  Unique'
<1>1. /\ DOMAIN users' = DOMAIN users
      /\ \A v \in DOMAIN users : /\ users'[v].login = users[v].login
                                 /\ users'[v].deleted = users[v].deleted
  BY UserFields DEF User, Typed, TypeOK
<1>2. \A n : LoginRows(n)' = LoginRows(n)
  BY <1>1 DEF LoginRows, LiveIds
<1>3. ASSUME NEW name \in Names
      PROVE  RowsWith(name)' \subseteq RowsWith(name)
  <2>1. CASE name[1] = "user"
    BY <2>1, <1>2, RowsOf
  <2>2. CASE name[1] # "user"
    BY <2>2, RowsStay, RowsOf DEF company
  <2> QED BY <2>1, <2>2
<1> QED BY <1>3, NamesAside

LEMMA PictureNames ==
  ASSUME Typed, Unique, NEW p \in Procs,
         SetImage(p) \/ ClearImage(p) \/ SetProfileImage(p)
  PROVE  Unique'
<1>1. PICK h : h = handler[p]
  OBVIOUS
<1>2. /\ h.pc \in {"setImage", "clearImage", "setProfile"}
      /\ \E x : users' = [users EXCEPT ![h.user].image = x]
      /\ UNCHANGED <<positions, departments, roles, company, contended>>
  BY <1>1 DEF SetImage, ClearImage, SetProfileImage, staff, history
<1>3. h.user \in DOMAIN users
  BY <1>1, <1>2, PictureFields
<1>4. PICK g : Goto(p, g) /\ HeldBy(g) = {}
  <2>1. CASE SetImage(p)
    <3>1. PICK g : g = [pc |-> "deleteFile", user |-> h.user, old |-> h.old]
      OBVIOUS
    <3>2. HeldBy(g) = {}
      BY <3>1 DEF HeldBy
    <3>3. Goto(p, g) \/ Goto(p, Idle)
      BY <2>1, <3>1, <1>1 DEF SetImage
    <3> QED BY <3>2, <3>3, IdleFits
  <2>2. CASE ClearImage(p)
    BY <2>2, ClearImageGoes DEF HeldBy
  <2>3. CASE SetProfileImage(p)
    BY <2>3, IdleFits DEF SetProfileImage
  <2> QED BY <2>1, <2>2, <2>3
<1> QED BY <1>2, <1>3, <1>4, ImageNames

LEMMA NamelessNames ==
  ASSUME Typed, Unique, NEW p \in Procs, SaveFile(p) \/ DeleteFile(p) \/ SaveEmployee(p)
  PROVE  Unique'
<1>1. UNCHANGED <<users, roles, positions, departments, currencies, settings, contended>>
  BY DEF SaveFile, DeleteFile, SaveEmployee, staff, accounts, company, history
<1>2. PICK g : Goto(p, g) /\ HeldBy(g) = {}
  <2>1. CASE SaveFile(p)
    <3>1. PICK g : /\ Goto(p, g)
                   /\ g = [pc |-> "setImage", user |-> handler[p].user,
                           old |-> handler[p].old, new |-> saved + 1]
      BY <2>1 DEF SaveFile
    <3> QED BY <3>1 DEF HeldBy
  <2>2. CASE DeleteFile(p) \/ SaveEmployee(p)
    BY <2>2, IdleFits DEF DeleteFile, SaveEmployee
  <2> QED BY <2>1, <2>2
<1>3. \A name \in Names : RowsWith(name)' = RowsWith(name)
  BY <1>1, RowsStay, RowsOf
<1> QED BY <1>1, <1>2, <1>3, NamesAside

LEMMA WritesNames ==
  ASSUME Typed, Unique, NEW p \in Procs, Writes(p)
  PROVE  Unique'
  BY CheckUserNames, AddUserNames, SaveUserNames, AddRoleNames, RenameRoleNames,
     AddPositionNames, SavePositionNames, AddDepartmentNames, AddCurrencyNames,
     AddSettingsNames, PictureNames, NamelessNames DEF Writes

(* Rows are deleted, and a department is renamed by a call that holds nothing. *)
LEMMA NamesGone ==
  ASSUME Unique, UNCHANGED handler, contended \subseteq contended',
         \A name \in Names : name \notin contended' => RowsWith(name)' \subseteq RowsWith(name)
  PROVE  Unique'
<1>1. \A q \in Procs : /\ HeldBy(handler'[q]) = HeldBy(handler[q])
                       /\ Own(handler'[q]) = Own(handler[q])
  OBVIOUS
<1> QED BY <1>1, NamesStep

LEMMA DeletedRow ==
  ASSUME NEW S, NEW s \in Seq(S), NEW i \in DOMAIN s,
         \A x \in S : [x EXCEPT !.deleted = TRUE].deleted
  PROVE  /\ DOMAIN Deleted(s, i) = DOMAIN s /\ Deleted(s, i)[i].deleted
         /\ \A j \in DOMAIN s : j # i => Deleted(s, i)[j] = s[j]
  BY Row DEF Deleted

LEMMA DeletedRows ==
  ASSUME Typed
  PROVE  /\ \A i \in DOMAIN users : users' = Deleted(users, i) =>
               \A n : LoginRows(n)' \subseteq LoginRows(n)
         /\ \A i \in DOMAIN roles : roles' = Deleted(roles, i) =>
               \A n : RoleRows(n)' \subseteq RoleRows(n)
         /\ \A i \in DOMAIN positions : positions' = Deleted(positions, i) =>
               \A n : TitleRows(n)' \subseteq TitleRows(n)
         /\ \A i \in DOMAIN departments : departments' = Deleted(departments, i) =>
               \A n : DepartmentRows(n)' \subseteq DepartmentRows(n)
<1>1. /\ users \in Seq(User) /\ roles \in Seq(Role)
      /\ positions \in Seq(Position) /\ departments \in Seq(Department)
  BY DEF Typed, TypeOK
<1>2. /\ \A x \in User : [x EXCEPT !.deleted = TRUE].deleted
      /\ \A x \in Role : [x EXCEPT !.deleted = TRUE].deleted
      /\ \A x \in Position : [x EXCEPT !.deleted = TRUE].deleted
      /\ \A x \in Department : [x EXCEPT !.deleted = TRUE].deleted
  BY DEF User, Role, Position, Department
<1>3. ASSUME NEW i \in DOMAIN users, users' = Deleted(users, i), NEW n
      PROVE  LoginRows(n)' \subseteq LoginRows(n)
  <2>1. /\ DOMAIN users' = DOMAIN users /\ users'[i].deleted
        /\ \A j \in DOMAIN users : j # i => users'[j] = users[j]
    BY <1>1, <1>2, <1>3, DeletedRow
  <2> QED BY <2>1 DEF LoginRows, LiveIds
<1>4. ASSUME NEW i \in DOMAIN roles, roles' = Deleted(roles, i), NEW n
      PROVE  RoleRows(n)' \subseteq RoleRows(n)
  <2>1. /\ DOMAIN roles' = DOMAIN roles /\ roles'[i].deleted
        /\ \A j \in DOMAIN roles : j # i => roles'[j] = roles[j]
    BY <1>1, <1>2, <1>4, DeletedRow
  <2> QED BY <2>1 DEF RoleRows, LiveIds
<1>5. ASSUME NEW i \in DOMAIN positions, positions' = Deleted(positions, i), NEW n
      PROVE  TitleRows(n)' \subseteq TitleRows(n)
  <2>1. /\ DOMAIN positions' = DOMAIN positions /\ positions'[i].deleted
        /\ \A j \in DOMAIN positions : j # i => positions'[j] = positions[j]
    BY <1>1, <1>2, <1>5, DeletedRow
  <2> QED BY <2>1 DEF TitleRows, LiveIds
<1>6. ASSUME NEW i \in DOMAIN departments, departments' = Deleted(departments, i), NEW n
      PROVE  DepartmentRows(n)' \subseteq DepartmentRows(n)
  <2>1. /\ DOMAIN departments' = DOMAIN departments /\ departments'[i].deleted
        /\ \A j \in DOMAIN departments : j # i => departments'[j] = departments[j]
    BY <1>1, <1>2, <1>6, DeletedRow
  <2> QED BY <2>1 DEF DepartmentRows, LiveIds
<1> QED BY <1>3, <1>4, <1>5, <1>6

LEMMA DirectNames ==
  ASSUME Typed, Unique, Direct
  PROVE  Unique'
<1>1. ASSUME NEW u \in DOMAIN users, DeleteUser(u)
      PROVE  Unique'
  <2>1. /\ users' = Deleted(users, u)
        /\ UNCHANGED <<roles, positions, departments, currencies, settings, handler, contended>>
    BY <1>1 DEF DeleteUser, staff, company, history
  <2>2. \A name \in Names : RowsWith(name)' \subseteq RowsWith(name)
    BY <2>1, DeletedRows, RowsStay, RowsOf
  <2> QED BY <2>1, <2>2, NamesGone
<1>2. ASSUME NEW r \in DOMAIN roles, DeleteRole(r)
      PROVE  Unique'
  <2>1. /\ roles' = Deleted(roles, r)
        /\ UNCHANGED <<users, positions, departments, currencies, settings, handler, contended>>
    BY <1>2 DEF DeleteRole, staff, company, history
  <2>2. \A name \in Names : RowsWith(name)' \subseteq RowsWith(name)
    BY <2>1, DeletedRows, RowsStay, RowsOf
  <2> QED BY <2>1, <2>2, NamesGone
<1>3. ASSUME NEW i \in DOMAIN positions, DeletePosition(i)
      PROVE  Unique'
  <2>1. /\ positions' = Deleted(positions, i)
        /\ UNCHANGED <<users, roles, departments, currencies, settings, handler, contended>>
    BY <1>3 DEF DeletePosition, accounts, company, history
  <2>2. \A name \in Names : RowsWith(name)' \subseteq RowsWith(name)
    BY <2>1, DeletedRows, RowsStay, RowsOf
  <2> QED BY <2>1, <2>2, NamesGone
<1>4. ASSUME NEW d \in DOMAIN departments, DeleteDepartment(d)
      PROVE  Unique'
  <2>1. /\ departments' = Deleted(departments, d)
        /\ UNCHANGED <<users, roles, positions, currencies, settings, handler, contended>>
    BY <1>4 DEF DeleteDepartment, accounts, company, history
  <2>2. \A name \in Names : RowsWith(name)' \subseteq RowsWith(name)
    BY <2>1, DeletedRows, RowsStay, RowsOf
  <2> QED BY <2>1, <2>2, NamesGone
<1>5. ASSUME NEW d \in DOMAIN departments, NEW n \in DepartmentNames, UpdateDepartment(d, n)
      PROVE  Unique'
  <2>1. /\ departments' = [departments EXCEPT ![d].name = n]
        /\ contended' = contended \cup {<<"department", n>>}
        /\ UNCHANGED <<users, roles, positions, currencies, settings, handler>>
    BY <1>5 DEF UpdateDepartment, accounts, company
  <2>2. /\ DOMAIN departments' = DOMAIN departments
        /\ \A e \in DOMAIN departments : /\ departments'[e].deleted = departments[e].deleted
                                         /\ departments'[e].name = IF e = d THEN n
                                                                   ELSE departments[e].name
    BY <2>1, DepartmentTable DEF Department, Typed, TypeOK
  <2>3. \A m : m # n => DepartmentRows(m)' \subseteq DepartmentRows(m)
    BY <2>2 DEF DepartmentRows, LiveIds
  <2>4. ASSUME NEW name \in Names, name \notin contended'
        PROVE  RowsWith(name)' \subseteq RowsWith(name)
    <3>1. CASE name[1] = "department"
      <4>1. name = <<"department", name[2]>> /\ RowsWith(name) = DepartmentRows(name[2])
            /\ RowsWith(name)' = DepartmentRows(name[2])'
        BY <3>1, RowsOf
      <4>2. name[2] # n
        BY <4>1, <2>1, <2>4
      <4> QED BY <4>1, <4>2, <2>3
    <3>2. CASE name[1] # "department"
      BY <3>2, <2>1, RowsStay, RowsOf
    <3> QED BY <3>1, <3>2
  <2> QED BY <2>1, <2>4, NamesGone
<1>6. ASSUME NEW e \in DOMAIN employees, DeleteEmployee(e)
      PROVE  Unique'
  <2>1. UNCHANGED <<users, roles, positions, departments, currencies, settings, handler,
                    contended>>
    BY <1>6 DEF DeleteEmployee, accounts, company, history
  <2>2. \A name \in Names : RowsWith(name)' = RowsWith(name)
    BY <2>1, RowsStay, RowsOf
  <2> QED BY <2>1, <2>2, NamesGone
<1>7. ASSUME NEW i \in DOMAIN currencies, DeleteCurrency(i)
      PROVE  Unique'
  <2>1. /\ currencies' = [currencies EXCEPT ![i].deleted = TRUE]
        /\ UNCHANGED <<users, roles, positions, departments, settings, handler, contended>>
    BY <1>7 DEF DeleteCurrency, Deleted, staff, accounts, history
  <2>2. currencies \in Seq(Currency)
    BY DEF Typed, TypeOK
  <2>3. \A j \in DOMAIN currencies : currencies[j] \in Currency
    BY <2>2, Row
  <2>4. /\ DOMAIN currencies' = DOMAIN currencies
        /\ \A j \in DOMAIN currencies : currencies'[j].code = currencies[j].code
    BY <2>1, <2>3 DEF Currency
  <2>5. \A c : CodeRows(c)' \subseteq CodeRows(c)
    BY <2>4 DEF CodeRows
  <2>6. \A name \in Names : RowsWith(name)' \subseteq RowsWith(name)
    BY <2>1, <2>5, RowsStay, RowsOf
  <2> QED BY <2>1, <2>6, NamesGone
<1>8. ASSUME NEW c \in Codes, UpdateCompanySettings(c)
      PROVE  Unique'
  <2>1. PICK i \in DOMAIN settings : settings' = [settings EXCEPT ![i] = c]
    BY <1>8 DEF UpdateCompanySettings
  <2>2. DOMAIN settings' = DOMAIN settings
    BY <2>1
  <2>3. UNCHANGED <<users, roles, positions, departments, currencies, handler, contended>>
    BY <1>8 DEF UpdateCompanySettings, staff, accounts, history
  <2>4. \A name \in Names : RowsWith(name)' \subseteq RowsWith(name)
    BY <2>2, <2>3, RowsStay, RowsOf
  <2> QED BY <2>3, <2>4, NamesGone
<1> QED BY <1>1, <1>2, <1>3, <1>4, <1>5, <1>6, <1>7, <1>8 DEF Direct

LEMMA NextNames == Typed /\ Unique /\ [Next]_vars => Unique'
<1> SUFFICES ASSUME Typed, Unique, [Next]_vars PROVE Unique'
  OBVIOUS
<1>1. CASE UNCHANGED vars
  <2>1. UNCHANGED <<users, roles, positions, departments, currencies, settings, handler,
                    contended>>
    BY <1>1 DEF vars, staff, accounts, company, history
  <2>2. \A name \in Names : RowsWith(name)' = RowsWith(name)
    BY <2>1, RowsStay, RowsOf
  <2> QED BY <2>1, <2>2, NamesGone
<1>2. ASSUME NEW p \in Procs, Requests(p)
      PROVE  Unique'
  BY <1>2, RequestsRead, RequestNames
<1> QED BY <1>1, <1>2, WritesNames, DirectNames, NextIs

LEMMA InitNames == Init => Unique
<1> SUFFICES ASSUME Init PROVE Unique
  OBVIOUS
<1>1. \A p \in Procs : HeldBy(handler[p]) = {}
  BY IdleFits DEF Init
<1>2. DOMAIN users = {1} /\ DOMAIN roles = {1}
  BY DEF Init
<1>3. DOMAIN positions = {1} /\ DOMAIN departments = {1}
  BY DEF Init
<1>4. DOMAIN currencies \subseteq {1} /\ DOMAIN settings = {}
  BY DEF Init
<1>5. ASSUME NEW name \in Names
      PROVE  RowsWith(name) \subseteq {1}
  <2>1. /\ LoginRows(name[2]) \subseteq {1} /\ RoleRows(name[2]) \subseteq {1}
        /\ TitleRows(name[2]) \subseteq {1} /\ DepartmentRows(name[2]) \subseteq {1}
        /\ CodeRows(name[2]) \subseteq {1}
    BY <1>2, <1>3, <1>4
       DEF LoginRows, RoleRows, TitleRows, DepartmentRows, CodeRows, LiveIds
  <2> QED BY <2>1, <1>4, RowsOf
<1> QED BY <1>1, <1>5 DEF Unique, OneRow, OneHolder, StillFree

LEMMA UniqueNames == Typed /\ Unique => NamesUnique
<1> SUFFICES ASSUME Typed, Unique, NEW name \in Names \ contended
             PROVE  CASE name[1] = "user" ->
                            \A u, v \in FindUsers(name[2], None) : u = v
                      [] name[1] = "role" -> Upper[name[2]] = name[2] =>
                            \A r, s \in FindRoles(name[2]) : r = s
                      [] name[1] = "position" ->
                            \A i, j \in FindPositions(name[2]) : i = j
                      [] name[1] = "department" ->
                            \A d, e \in FindDepartments(name[2]) : d = e
                      [] name[1] = "currency" ->
                            \A i, j \in FindCurrencies(name[2]) : i = j
                      [] name[1] = "settings" -> Len(settings) <= 1
  BY Zenon DEF NamesUnique
<1>1. Proper(name) => OneRow(name)
  BY DEF Unique
<1>2. name[1] # "role" => Proper(name)
  BY DEF Proper
<1>3. CASE name[1] = "user"
  <2>1. name[2] # None /\ RowsWith(name) = LoginRows(name[2])
    BY <1>3, RowsOf, OrganisationAssumption
  <2>2. FindUsers(name[2], None) \subseteq RowsWith(name)
    BY <2>1 DEF FindUsers, LoginRows, LiveIds
  <2> QED BY <2>2, <1>1, <1>2, <1>3 DEF OneRow
<1>4. CASE name[1] = "role"
  <2>1. FindRoles(name[2]) = RowsWith(name)
    BY <1>4, RowsOf DEF FindRoles, RoleRows
  <2>2. (Upper[name[2]] = name[2]) <=> Proper(name)
    BY <1>4 DEF Proper
  <2> QED BY <2>1, <2>2, <1>1, <1>4 DEF OneRow
<1>5. CASE name[1] = "position"
  <2>1. name[2] # None /\ RowsWith(name) = TitleRows(name[2])
    BY <1>5, RowsOf, OrganisationAssumption
  <2>2. FindPositions(name[2]) \subseteq RowsWith(name)
    BY <2>1 DEF FindPositions, TitleRows, LiveIds
  <2> QED BY <2>2, <1>1, <1>2, <1>5 DEF OneRow
<1>6. CASE name[1] = "department"
  <2>1. name[2] # None /\ RowsWith(name) = DepartmentRows(name[2])
    BY <1>6, RowsOf, OrganisationAssumption
  <2>2. FindDepartments(name[2]) \subseteq RowsWith(name)
    BY <2>1 DEF FindDepartments, DepartmentRows, LiveIds
  <2> QED BY <2>2, <1>1, <1>2, <1>6 DEF OneRow
<1>7. CASE name[1] = "currency"
  <2>1. name[2] # None /\ RowsWith(name) = CodeRows(name[2])
    BY <1>7, RowsOf, OrganisationAssumption
  <2>2. FindCurrencies(name[2]) \subseteq RowsWith(name)
    BY <2>1 DEF FindCurrencies, CodeRows, LiveIds
  <2> QED BY <2>2, <1>1, <1>2, <1>7 DEF OneRow
<1>8. CASE name[1] = "settings"
  <2>1. \A i, j \in DOMAIN settings : i = j
    BY <1>1, <1>2, <1>8, RowsOf DEF OneRow
  <2>2. settings \in Seq(Codes)
    BY DEF Typed, TypeOK
  <2>3. Len(settings) \in Nat /\ DOMAIN settings = 1..Len(settings)
    BY <2>2
  <2>4. Len(settings) <= 1
    <3>1. SUFFICES ASSUME 2 <= Len(settings) PROVE FALSE
      BY <2>3
    <3>2. 1 \in DOMAIN settings /\ 2 \in DOMAIN settings
      BY <3>1, <2>3
    <3> QED BY <3>2, <2>1
  <2> QED BY <2>4, <1>8
<1>9. name[1] \in {"user", "role", "position", "department", "currency", "settings"}
  BY RowsOf
<1> QED BY <1>3, <1>4, <1>5, <1>6, <1>7, <1>8, <1>9

(* Whoever looks a name up in a list finds one row: a handler that found the name free  *)
(* is the only one to hold it, and it is still free, or its own, when it writes it; but *)
(* for names that two handlers held at once, and of departments that were renamed.      *)
THEOREM NamesAreUnique == Spec => []NamesUnique
<1>1. Typed /\ Unique /\ [Next]_vars => (Typed /\ Unique)'
  BY NextTypes, NextNames
<1> QED BY <1>1, InitTypes, InitNames, UniqueNames, PTL DEF Spec

-----------------------------------------------------------------------------
(* OrganisationReports: how many there are *)

(* A user is created with the employee, and no other employee ever gets that user: the *)
(* schema's unique key on user_id never has anything to refuse.                        *)
OneEmployee ==
    \A e, f \in DOMAIN employees : employees[e].user = employees[f].user => e = f

LEMMA SavedUser ==
  ASSUME Typed, NEW p \in Procs, SaveEmployee(p)
  PROVE  /\ DOMAIN employees' = DOMAIN employees
         /\ \A e \in DOMAIN employees : employees'[e].user = employees[e].user
<1>1. PICK h : h = handler[p]
  OBVIOUS
<1>2. /\ h.pc = "saveEmployee"
      /\ employees' = [employees EXCEPT ![h.employee].position = Given(h.position, @),
                                        ![h.employee].department = Given(h.department, @),
                                        ![h.employee].salary = Given(h.salary, @)]
  BY <1>1 DEF SaveEmployee
<1>3. /\ h.employee \in DOMAIN employees /\ h.position \in OrNone(DOMAIN positions)
      /\ h.department \in OrNone(DOMAIN departments)
      /\ h.salary \in OrNone(Salaries)
  BY <1>1, <1>2, UpdateFields
<1>4. PICK x : x = [employees[h.employee] EXCEPT !.position = Given(h.position, @),
                                                 !.department = Given(h.department, @),
                                                 !.salary = Given(h.salary, @)]
  OBVIOUS
<1>5. x \in Employee /\ x.user = employees[h.employee].user
  <2>1. x \in Employee
    BY <1>3, <1>4, EmployeeTable
  <2>2. employees[h.employee] \in Employee
    BY <1>3, EmployeeTable
  <2> QED BY <1>4, <2>1, <2>2 DEF Employee
<1>6. employees' = [employees EXCEPT ![h.employee] = x]
  BY <1>2, <1>3, <1>4, SavedEmployee
<1>7. /\ DOMAIN employees' = DOMAIN employees
      /\ \A e \in DOMAIN employees :
            employees'[e] = IF e = h.employee THEN x ELSE employees[e]
  BY <1>3, <1>5, <1>6, Replaced DEF Typed, TypeOK
<1> QED BY <1>5, <1>7

LEMMA DeletedUser ==
  ASSUME Typed, NEW d \in DOMAIN employees, DeleteEmployee(d)
  PROVE  /\ DOMAIN employees' = DOMAIN employees
         /\ \A e \in DOMAIN employees : employees'[e].user = employees[e].user
<1>1. PICK x : x = [employees[d] EXCEPT !.deleted = TRUE]
  OBVIOUS
<1>2. employees' = [employees EXCEPT ![d] = x] /\ x \in Employee
  BY <1>1, EmployeeTable DEF DeleteEmployee, Deleted
<1>3. /\ DOMAIN employees' = DOMAIN employees
      /\ \A e \in DOMAIN employees : employees'[e] = IF e = d THEN x ELSE employees[e]
  BY <1>2, Replaced DEF Typed, TypeOK
<1>4. x.user = employees[d].user
  BY <1>1, EmployeeTable DEF Employee
<1> QED BY <1>3, <1>4

LEMMA AddedUser ==
  ASSUME Typed, OneEmployee, NEW p \in Procs, AddEmployee(p)
  PROVE  OneEmployee'
<1>1. PICK h : h = handler[p]
  OBVIOUS
<1>2. PICK x : x = [user |-> Len(users) + 1, position |-> h.position,
                    department |-> h.department, salary |-> h.salary, deleted |-> FALSE]
  OBVIOUS
<1>3. employees' = Append(employees, x) \/ UNCHANGED employees
  BY <1>1, <1>2 DEF AddEmployee
<1>4. CASE employees' = Append(employees, x)
  <2>1. employees \in Seq(Employee) /\ users \in Seq(User)
    BY DEF Typed, TypeOK
  <2>2. PICK n : n = Len(employees) + 1
    OBVIOUS
  <2>3. /\ \A e \in DOMAIN employees : employees'[e] = employees[e]
        /\ employees'[n] = x /\ n \notin DOMAIN employees
        /\ \A e \in DOMAIN employees' : e \in DOMAIN employees \/ e = n
    BY <2>1, <2>2, <1>4
  <2>4. \A e \in DOMAIN employees : employees[e].user \in DOMAIN users
    BY EmployeeTable DEF Employee
  <2>5. x.user \notin DOMAIN users
    BY <1>2, <2>1
  <2> QED BY <2>3, <2>4, <2>5 DEF OneEmployee
<1> QED BY <1>3, <1>4 DEF OneEmployee

LEMMA NextOneEmployee == Typed /\ OneEmployee /\ [Next]_vars => OneEmployee'
<1> SUFFICES ASSUME Typed, OneEmployee, [Next]_vars PROVE OneEmployee'
  OBVIOUS
<1>1. ASSUME DOMAIN employees' = DOMAIN employees,
             \A e \in DOMAIN employees : employees'[e].user = employees[e].user
      PROVE  OneEmployee'
  BY <1>1 DEF OneEmployee
<1>2. ASSUME UNCHANGED employees PROVE OneEmployee'
  BY <1>2 DEF OneEmployee
<1>3. CASE UNCHANGED vars
  BY <1>2, <1>3 DEF vars, staff
<1>4. ASSUME NEW p \in Procs, Requests(p) PROVE OneEmployee'
  <2>1. UNCHANGED employees
    BY <1>4, RequestsRead DEF LetIn, staff
  <2> QED BY <1>2, <2>1
<1>5. ASSUME NEW p \in Procs, Writes(p) PROVE OneEmployee'
  <2>1. AddEmployee(p) \/ SaveEmployee(p) \/ UNCHANGED employees
    BY <1>5 DEF Writes, AddRole, CheckUser, AddUser, SaveUser, SaveFile, SetImage, ClearImage,
                DeleteFile, SetProfileImage, AddNamedRole, RenameRole, AddPosition, SavePosition,
                AddDepartment, AddCurrency, AddSettings, staff
  <2> QED BY <2>1, <1>1, <1>2, AddedUser, SavedUser
<1>6. ASSUME Direct PROVE OneEmployee'
  <2>1. (\E d \in DOMAIN employees : DeleteEmployee(d)) \/ UNCHANGED employees
    BY <1>6 DEF Direct, DeleteUser, DeleteRole, DeletePosition, DeleteDepartment,
                UpdateDepartment, DeleteCurrency, UpdateCompanySettings, staff
  <2> QED BY <2>1, <1>1, <1>2, DeletedUser
<1> QED BY <1>3, <1>4, <1>5, <1>6, NextIs

LEMMA InitOneEmployee == Init => OneEmployee
<1> SUFFICES ASSUME Init PROVE OneEmployee
  OBVIOUS
<1>1. DOMAIN employees = {1}
  BY DEF Init
<1> QED BY <1>1 DEF OneEmployee

(* Tables are finite, and so is what a query finds in one. *)
LEMMA RowsFinite ==
  ASSUME NEW S, NEW table \in Seq(S), NEW T, T \subseteq DOMAIN table
  PROVE  IsFiniteSet(T)
<1>1. DOMAIN table = 1..Len(table) /\ Len(table) \in Nat
  OBVIOUS
<1>2. IsFiniteSet(DOMAIN table)
  BY <1>1, FS_Interval
<1> QED BY <1>2, FS_Subset

LEMMA StaffFinite ==
  ASSUME Typed
  PROVE  /\ \A T : T \subseteq DOMAIN employees => IsFiniteSet(T)
         /\ \A T : T \subseteq DOMAIN departments => IsFiniteSet(T)
         /\ \A T : T \subseteq DOMAIN users => IsFiniteSet(T)
  BY RowsFinite DEF Typed, TypeOK

(* The groups of a groupBy, each called by the id that its employees have, add up to    *)
(* the employees who have one of these ids.                                             *)
LEMMA GroupsAddUp ==
  ASSUME NEW S, IsFiniteSet(S), NEW h, NEW G, \A e \in S : h[e] \in G, \A g \in G : \E e \in S : h[e] = g,
         NEW f, DOMAIN f = G, \A g \in G : f[g] = Cardinality(Part(S, h, g))
  PROVE  SumFunction(f) = Cardinality(S)
<1>1. PICK k : k = [e \in S |-> h[e]]
  OBVIOUS
<1>2. k \in Surjection(S, G)
  BY <1>1 DEF Surjection
<1>3. IsFiniteSet(G)
  BY <1>2, FS_Surjection
<1>4. Cardinality(S) = SumFunctionOnSet(f, G)
  BY <1>3, CountOfParts
<1> QED BY <1>4 DEF SumFunction

(* The groups of the departments D that anybody is in. *)
DepartmentGroup(d) ==
    [id |-> d, department |-> NameOf(departments, d, departments[d].name),
     count |-> Cardinality(EmployeesIn(d))]

LEMMA DepartmentGroups ==
  ASSUME Typed, NEW D, NEW S, S = {e \in LiveIds(employees) : employees[e].department \in D},
         NEW G, G = {DepartmentGroup(d) : d \in {employees[e].department : e \in S}}
  PROVE  SumFunction([g \in G |-> g.count]) = Cardinality(S)
<1>1. PICK h : h = [e \in S |-> DepartmentGroup(employees[e].department)]
  OBVIOUS
<1>2. PICK f : f = [g \in G |-> g.count]
  OBVIOUS
<1>3. /\ \A e \in S : h[e] \in G
      /\ \A g \in G : \E e \in S : h[e] = g
      /\ DOMAIN f = G
  BY <1>1, <1>2
<1>4. IsFiniteSet(S)
  <2>1. S \subseteq DOMAIN employees
    BY DEF LiveIds
  <2> QED BY <2>1, StaffFinite
<1>5. ASSUME NEW g \in G PROVE f[g] = Cardinality(Part(S, h, g))
  <2>1. PICK c \in S : g = DepartmentGroup(employees[c].department)
    OBVIOUS
  <2>2. PICK d : d = employees[c].department
    OBVIOUS
  <2>3. d \in D /\ g.id = d /\ g.count = Cardinality(EmployeesIn(d))
    BY <2>1, <2>2 DEF DepartmentGroup
  <2>4. \A e \in S : h[e] = g <=> employees[e].department = d
    <3>1. \A e \in S : h[e].id = employees[e].department
      BY <1>1 DEF DepartmentGroup
    <3>2. \A e \in S : employees[e].department = d => h[e] = g
      BY <1>1, <2>1, <2>2
    <3> QED BY <2>3, <3>1, <3>2
  <2>5. Part(S, h, g) = EmployeesIn(d)
    <3>1. \A e : e \in Part(S, h, g) <=> e \in S /\ employees[e].department = d
      BY <2>4 DEF Part
    <3>2. \A e : e \in EmployeesIn(d) <=> e \in S /\ employees[e].department = d
      BY <2>3 DEF EmployeesIn
    <3> QED BY <3>1, <3>2
  <2> QED BY <1>2, <2>3, <2>5
<1>6. \A g \in G : f[g] = Cardinality(Part(S, h, g))
  BY <1>5
<1>7. PICK grp : grp = G
  OBVIOUS
<1>8. SumFunction(f) = Cardinality(S)
  <2>1. /\ IsFiniteSet(S) /\ \A e \in S : h[e] \in grp
        /\ \A g \in grp : \E e \in S : h[e] = g
        /\ DOMAIN f = grp
        /\ \A g \in grp : f[g] = Cardinality(Part(S, h, g))
    BY <1>3, <1>4, <1>6, <1>7
  <2> QED BY ONLY <2>1, GroupsAddUp
<1> QED BY <1>2, <1>8

PositionGroup(i) ==
    [id |-> i, position |-> NameOf(positions, i, positions[i].title),
     count |-> Cardinality({e \in LiveIds(employees) : employees[e].position = i})]

LEMMA PositionGroups ==
  ASSUME Typed, NEW S, S = LiveIds(employees),
         NEW G, G = {PositionGroup(i) : i \in {employees[e].position : e \in S}}
  PROVE  SumFunction([g \in G |-> g.count]) = Cardinality(S)
<1>1. PICK h : h = [e \in S |-> PositionGroup(employees[e].position)]
  OBVIOUS
<1>2. PICK f : f = [g \in G |-> g.count]
  OBVIOUS
<1>3. /\ \A e \in S : h[e] \in G
      /\ \A g \in G : \E e \in S : h[e] = g
      /\ DOMAIN f = G
  BY <1>1, <1>2
<1>4. IsFiniteSet(S)
  <2>1. S \subseteq DOMAIN employees
    BY DEF LiveIds
  <2> QED BY <2>1, StaffFinite
<1>5. ASSUME NEW g \in G PROVE f[g] = Cardinality(Part(S, h, g))
  <2>1. PICK c \in S : g = PositionGroup(employees[c].position)
    OBVIOUS
  <2>2. PICK i : i = employees[c].position
    OBVIOUS
  <2>3. g.id = i /\ g.count = Cardinality({e \in S : employees[e].position = i})
    BY <2>1, <2>2 DEF PositionGroup
  <2>4. \A e \in S : h[e] = g <=> employees[e].position = i
    <3>1. \A e \in S : h[e].id = employees[e].position
      BY <1>1 DEF PositionGroup
    <3>2. \A e \in S : employees[e].position = i => h[e] = g
      BY <1>1, <2>1, <2>2
    <3> QED BY <2>3, <3>1, <3>2
  <2>5. Part(S, h, g) = {e \in S : employees[e].position = i}
    BY <2>4 DEF Part
  <2> QED BY <1>2, <2>3, <2>5
<1>6. \A g \in G : f[g] = Cardinality(Part(S, h, g))
  BY <1>5
<1>7. PICK grp : grp = G
  OBVIOUS
<1>8. SumFunction(f) = Cardinality(S)
  <2>1. /\ IsFiniteSet(S) /\ \A e \in S : h[e] \in grp
        /\ \A g \in grp : \E e \in S : h[e] = g
        /\ DOMAIN f = grp
        /\ \A g \in grp : f[g] = Cardinality(Part(S, h, g))
    BY <1>3, <1>4, <1>6, <1>7
  <2> QED BY ONLY <2>1, GroupsAddUp
<1> QED BY <1>2, <1>8

(* The groups that are called by a name are those of departments that are there. *)
LEMMA NamedGroups ==
  ASSUME Typed, Unknown \notin DepartmentNames,
         NEW S, S = {e \in LiveIds(employees) : employees[e].department \in LiveIds(departments)}
  PROVE  {g \in EmployeeSummary.departmentBreakdown : g.department # Unknown}
            = {DepartmentGroup(d) : d \in {employees[e].department : e \in S}}
<1>1. \A d \in DOMAIN departments : departments[d].name \in DepartmentNames
  <2>1. departments \in Seq(Department)
    BY DEF Typed, TypeOK
  <2>2. \A d \in DOMAIN departments : departments[d] \in Department
    BY <2>1, Row
  <2> QED BY <2>2 DEF Department
<1>2. \A e \in LiveIds(employees) : employees[e].department \in DOMAIN departments
  BY EmployeeTable DEF LiveIds, Employee
<1>3. EmployeeSummary.departmentBreakdown
        = {DepartmentGroup(d) : d \in {employees[e].department : e \in LiveIds(employees)}}
  BY DEF EmployeeSummary, DepartmentGroup
<1>4. \A d \in DOMAIN departments :
         DepartmentGroup(d).department # Unknown <=> d \in LiveIds(departments)
  BY <1>1 DEF DepartmentGroup, NameOf
<1> QED BY <1>2, <1>3, <1>4

(* Each department counts those in it, and all of them those who are in one. *)
LEMMA DepartmentsAddUp ==
  ASSUME Typed, NEW D, D = LiveIds(departments)
  PROVE  /\ DepartmentSummary.totalEmployees = Cardinality(EmployeeReport(D))
         /\ \A d \in D : /\ Distribution[d] = Cardinality(EmployeesIn(d))
                         /\ Distribution[d] \in Nat
                         /\ Distribution[d] <= EmployeeCount(d)
                         /\ (\A e \in DOMAIN employees : employees[e].department = d =>
                                e \in FindEmployeeById(e))
                            => Distribution[d] = EmployeeCount(d)
<1>1. PICK S : S = EmployeeReport(D)
  OBVIOUS
<1>2. S \subseteq DOMAIN employees /\ D \subseteq DOMAIN departments
  BY <1>1 DEF EmployeeReport, LiveIds
<1>3. IsFiniteSet(S) /\ IsFiniteSet(D)
  BY <1>2, StaffFinite
<1>4. PICK h : h = [e \in S |-> employees[e].department]
  OBVIOUS
<1>5. PICK f : f = [d \in D |-> Headcount(d)]
  OBVIOUS
<1>6. \A e \in S : h[e] \in D
  BY <1>1, <1>4 DEF EmployeeReport
<1>7. ASSUME NEW d \in D PROVE f[d] = Cardinality(Part(S, h, d))
  <2>1. \A e : e \in Part(S, h, d) <=> e \in S /\ employees[e].department = d
    BY <1>4 DEF Part
  <2>2. \A e : e \in EmployeesIn(d) <=> e \in S /\ employees[e].department = d
    BY <1>1 DEF EmployeesIn, EmployeeReport
  <2>3. Part(S, h, d) = EmployeesIn(d)
    BY <2>1, <2>2
  <2> QED BY <1>5, <2>3 DEF Headcount
<1>8. Cardinality(S) = SumFunctionOnSet(f, D)
  BY <1>3, <1>6, <1>7, CountOfParts
<1>9. DepartmentSummary.totalEmployees = SumFunction(f)
  BY <1>5 DEF DepartmentSummary
<1>10. SumFunction(f) = SumFunctionOnSet(f, D)
  BY <1>5 DEF SumFunction
<1>11. ASSUME NEW d \in D
       PROVE  /\ Distribution[d] = Cardinality(EmployeesIn(d))
              /\ Distribution[d] \in Nat
              /\ Distribution[d] <= EmployeeCount(d)
              /\ (\A e \in DOMAIN employees : employees[e].department = d =>
                     e \in FindEmployeeById(e))
                 => Distribution[d] = EmployeeCount(d)
  <2>1. Distribution[d] = Cardinality(EmployeesIn(d))
    BY DEF Distribution, Headcount
  <2>2. PICK T : T = {e \in DOMAIN employees : employees[e].department = d}
    OBVIOUS
  <2>3. EmployeeCount(d) = Cardinality(T)
    BY <2>2 DEF EmployeeCount
  <2>4. EmployeesIn(d) \in SUBSET T /\ IsFiniteSet(T)
    <3>1. EmployeesIn(d) \in SUBSET T /\ T \subseteq DOMAIN employees
      BY <2>2 DEF EmployeesIn, LiveIds
    <3> QED BY <3>1, StaffFinite
  <2>5. Cardinality(EmployeesIn(d)) <= Cardinality(T) /\ IsFiniteSet(EmployeesIn(d))
    BY <2>4, FS_Subset
  <2>6. Cardinality(EmployeesIn(d)) \in Nat
    BY <2>5, FS_CardinalityType
  <2>7. ASSUME \A e \in DOMAIN employees : employees[e].department = d => e \in FindEmployeeById(e)
        PROVE  EmployeesIn(d) = T
    BY <2>2, <2>7 DEF EmployeesIn, FindEmployeeById, LiveIds
  <2> QED BY <2>1, <2>3, <2>5, <2>6, <2>7
<1> QED BY <1>1, <1>8, <1>9, <1>10, <1>11

(* One that has most has the average at least. *)
LEMMA LargestIsLarge ==
  ASSUME Typed, NEW d \in DepartmentSummary.largestDept
  PROVE  DepartmentSummary.totalDepartments * Distribution[d] >= DepartmentSummary.totalEmployees
<1>1. PICK D : D = LiveIds(departments)
  OBVIOUS
<1>2. d \in D /\ \A c \in D : Headcount(c) <= Headcount(d)
  BY <1>1 DEF DepartmentSummary
<1>3. \A c \in D : Headcount(c) \in Nat /\ Distribution[c] = Headcount(c)
  BY <1>1, DepartmentsAddUp DEF Headcount
<1>4. PICK f : f = [c \in D |-> Headcount(c)]
  OBVIOUS
<1>5. PICK m : m = Headcount(d)
  OBVIOUS
<1>6. m \in Int /\ \A c \in D : f[c] \in Int /\ f[c] <= m
  BY <1>2, <1>3, <1>4, <1>5
<1>7. IsFiniteSet(D)
  <2>1. D \subseteq DOMAIN departments
    BY <1>1 DEF LiveIds
  <2> QED BY <2>1, StaffFinite
<1>8. SumFunctionOnSet(f, D) <= Cardinality(D) * m
  BY <1>6, <1>7, SumBound
<1>9. SumFunctionOnSet(f, D) \in Int /\ Cardinality(D) \in Nat
  BY <1>6, <1>7, SumInt, FS_CardinalityType
<1>10. DepartmentSummary.totalEmployees = SumFunctionOnSet(f, D)
  BY <1>1, <1>4 DEF DepartmentSummary, SumFunction
<1>11. DepartmentSummary.totalDepartments = Cardinality(D)
  BY <1>1 DEF DepartmentSummary
<1>12. \A a, b \in Int : a <= b => b >= a
  OBVIOUS
<1>13. Cardinality(D) * m \in Int
  BY <1>6, <1>9
<1> QED BY <1>2, <1>3, <1>5, <1>8, <1>9, <1>10, <1>11, <1>12, <1>13

(* Users, looked up by their employee and by their role. *)
LEMMA UsersCounted ==
  ASSUME Typed, OneEmployee
  PROVE  /\ \A u \in DOMAIN users : Cardinality(FindEmployeeByUser(u)) <= 1
         /\ UserSummary.totalUsers = Cardinality(FindUsers(None, None))
         /\ (\A r \in LiveIds(roles) : Upper[roles[r].name] = roles[r].name) =>
               \A n \in RoleNames :
                  Cardinality(FindUsers(None, n)) <= UserSummary.roleCount[Upper[n]]
<1>1. ASSUME NEW u \in DOMAIN users PROVE Cardinality(FindEmployeeByUser(u)) <= 1
  <2>1. \A e, f \in FindEmployeeByUser(u) : e = f
    BY DEF FindEmployeeByUser, LiveIds, OneEmployee
  <2>2. CASE FindEmployeeByUser(u) = {}
    BY <2>2, FS_EmptySet
  <2>3. CASE FindEmployeeByUser(u) # {}
    <3>1. PICK e : FindEmployeeByUser(u) = {e}
      BY <2>1, <2>3
    <3>2. Cardinality({e}) = 1
      BY FS_Singleton
    <3> QED BY <3>1, <3>2
  <2> QED BY <2>2, <2>3
<1>2. UserSummary.totalUsers = Cardinality(FindUsers(None, None))
  <2>1. FindUsers(None, None) = LiveIds(users)
    BY DEF FindUsers
  <2> QED BY <2>1 DEF UserSummary
<1>3. ASSUME \A r \in LiveIds(roles) : Upper[roles[r].name] = roles[r].name, NEW n \in RoleNames
      PROVE  Cardinality(FindUsers(None, n)) <= UserSummary.roleCount[Upper[n]]
  <2>1. n # None /\ Upper[n] \in RoleNames
    BY OrganisationAssumption
  <2>2. UserSummary.roleCount[Upper[n]] = Cardinality(UsersWithRole(Upper[n]))
    BY <2>1 DEF UserSummary
  <2>3. FindUsers(None, n) \in SUBSET UsersWithRole(Upper[n])
    BY <2>1, <1>3 DEF FindUsers, UsersWithRole, LiveIds
  <2>4. IsFiniteSet(UsersWithRole(Upper[n]))
    <3>1. UsersWithRole(Upper[n]) \subseteq DOMAIN users
      BY DEF UsersWithRole, LiveIds
    <3> QED BY <3>1, StaffFinite
  <2> QED BY <2>2, <2>3, <2>4, FS_Subset
<1> QED BY <1>1, <1>2, <1>3

LEMMA HeadcountsAre ==
  ASSUME Typed, OneEmployee, Unknown \notin DepartmentNames
  PROVE  HeadcountsAgree
<1>1. PICK all : all = LiveIds(employees)
  OBVIOUS
<1>2. PICK groups : groups = EmployeeSummary.departmentBreakdown
  OBVIOUS
<1>3. PICK named : named = {g \in groups : g.department # Unknown}
  OBVIOUS
<1>4. PICK places : places = EmployeeSummary.positionBreakdown
  OBVIOUS
<1>5. EmployeeReport(DOMAIN departments) = all
  BY <1>1, EmployeeTable DEF EmployeeReport, LiveIds, Employee
<1>6. SumFunction([g \in groups |-> g.count]) = Cardinality(all)
  <2>1. groups = {DepartmentGroup(d) : d \in {employees[e].department : e \in all}}
    BY <1>1, <1>2 DEF EmployeeSummary, DepartmentGroup
  <2>2. all = {e \in LiveIds(employees) : employees[e].department \in DOMAIN departments}
    BY <1>5 DEF EmployeeReport
  <2> QED BY <2>1, <2>2, DepartmentGroups
<1>7. SumFunction([g \in places |-> g.count]) = Cardinality(all)
  <2>1. places = {PositionGroup(i) : i \in {employees[e].position : e \in all}}
    BY <1>1, <1>4 DEF EmployeeSummary, PositionGroup
  <2> QED BY <1>1, <2>1, PositionGroups
<1>8. SumFunction([g \in named |-> g.count]) = Cardinality(EmployeeReport(LiveIds(departments)))
  <2>1. PICK S : S = EmployeeReport(LiveIds(departments))
    OBVIOUS
  <2>2. S = {e \in LiveIds(employees) : employees[e].department \in LiveIds(departments)}
    BY <2>1 DEF EmployeeReport
  <2>3. named = {DepartmentGroup(d) : d \in {employees[e].department : e \in S}}
    BY <1>2, <1>3, <2>2, NamedGroups
  <2> QED BY <2>1, <2>2, <2>3, DepartmentGroups
<1>9. EmployeeSummary.totalEmployees = Cardinality(all) /\ EmployeeTotal = Cardinality(all)
  BY <1>1 DEF EmployeeSummary, EmployeeTotal
<1> QED BY <1>2, <1>3, <1>4, <1>5, <1>6, <1>7, <1>8, <1>9, DepartmentsAddUp, LargestIsLarge,
           UsersCounted DEF HeadcountsAgree

(* Theorem: the five places that count the staff, each with queries of its own, agree, *)
(* as long as no department is called "Unknown", which is what the summary calls those *)
(* that were deleted, whoever is moved where by an update.  That a user has one        *)
(* employee at most, which the unique key employees.user_id demands, is not assumed:   *)
(* the transaction that adds an employee adds the user.                                *)
THEOREM HeadcountsComeToTheSame ==
  ASSUME Unknown \notin DepartmentNames
  PROVE  Spec => []HeadcountsAgree
<1>1. Typed /\ OneEmployee /\ [Next]_vars => (Typed /\ OneEmployee)'
  BY NextTypes, NextOneEmployee
<1>2. Init => Typed /\ OneEmployee
  BY InitTypes, InitOneEmployee
<1>3. Typed /\ OneEmployee => HeadcountsAgree
  BY HeadcountsAre
<1> QED BY <1>1, <1>2, <1>3, PTL DEF Spec
=============================================================================
