---------------------------- MODULE Organisation ----------------------------
(***************************************************************************)
(* Who works here: users with their roles and pictures, positions,         *)
(* departments and employees, and the currency of the company.             *)
(* UsersService, RolesService, EmployeesService, EmployeePositionsService, *)
(* DepartmentsService, CurrenciesService and SettingsService.              *)
(*                                                                         *)
(* Most of their rules are kept by code alone: a handler reads, decides,   *)
(* and writes in a later call, and no key of a table says that a user name *)
(* or a title is taken.  The reads a handler makes before its first write  *)
(* are one step, each write is one, and others come between.               *)
(*                                                                         *)
(* A table is the sequence of its rows, a row's id its place: rows are     *)
(* marked deleted and never removed.  A login stands for user name and     *)
(* e-mail, which are looked up in one query and in the same way.           *)
(***************************************************************************)
EXTENDS Integers, Sequences, FiniteSets

CONSTANTS
    Logins, RoleNames, Titles, DepartmentNames, Codes,
    Upper,          \* toUpperCase, on RoleNames
    Default,        \* the currency of the default settings
    Salaries,
    Ranges,         \* salaryRangeMin and salaryRangeMax
    None,           \* null, or a member that a request leaves out
    RoleLists,      \* bound: the lists of roles an update of a user gives
    Procs,          \* bound: the request handlers in flight at once
    MaxCalls        \* bound: the requests that come in

ASSUME OrganisationAssumption ==
    /\ Upper \in [RoleNames -> RoleNames]
    /\ \A n \in RoleNames : Upper[Upper[n]] = Upper[n]
    /\ RoleLists \subseteq SUBSET RoleNames
    /\ Logins # {} /\ RoleNames # {} /\ Titles # {}
    /\ Default \in Codes
    /\ Salaries \subseteq Nat
    /\ \A r \in Ranges : r.min \in Nat /\ r.max \in Nat
    /\ None \notin Logins \cup RoleNames \cup Titles \cup DepartmentNames \cup Codes
    /\ None \notin Ranges /\ None \notin Nat
    /\ MaxCalls \in Nat

VARIABLES
    users, roles, positions, departments, employees, currencies, settings,
    userRoles,
    files,          \* the pictures on the disk
    saved,          \* history: how many were ever saved
    handler,        \* what each handler in flight does next
    contended,      \* history: names that were looked for by two handlers at once, or
                    \* written without being looked for
    raced,          \* history: employees that two updates held at once
    reranged,       \* history: positions whose range was changed
    pointed,        \* history: pictures that a user put in the own profile
    calls

staff == <<positions, departments, employees>>
accounts == <<users, roles, userRoles>>
company == <<currencies, settings>>
disk == <<files, saved>>
history == <<contended, raced, reranged, pointed>>
vars == <<staff, accounts, company, disk, handler, history, calls>>

Idle == [pc |-> "idle"]
OrNone(S) == S \cup {None}

\* Where names must be unique, and what they are.
Names == ({"user"} \X Logins) \cup ({"role"} \X RoleNames) \cup ({"position"} \X Titles)
         \cup ({"department"} \X DepartmentNames) \cup ({"currency"} \X Codes)
         \cup {<<"settings", "company">>}

User == [login : Logins, image : OrNone(Nat), deleted : BOOLEAN]
Role == [name : RoleNames, deleted : BOOLEAN]
Position == [title : Titles, range : Ranges, deleted : BOOLEAN]
Department == [name : DepartmentNames, deleted : BOOLEAN]
Employee == [user : DOMAIN users, position : DOMAIN positions,
             department : DOMAIN departments, salary : OrNone(Salaries),
             deleted : BOOLEAN]
Currency == [code : Codes, deleted : BOOLEAN]

Handler ==
    [pc : {"addRole", "checkUser"}, login : Logins, name : RoleNames, role : OrNone(DOMAIN roles)]
    \cup [pc : {"addUser"}, login : Logins, role : DOMAIN roles]
    \cup [pc : {"saveUser"}, user : DOMAIN users, login : OrNone(Logins),
          names : OrNone(RoleLists)]
    \cup [pc : {"addNamedRole"}, name : RoleNames]
    \cup [pc : {"renameRole"}, role : DOMAIN roles, name : RoleNames]
    \cup [pc : {"addPosition"}, title : Titles, range : Ranges]
    \cup [pc : {"savePosition"}, position : DOMAIN positions, title : OrNone(Titles),
          range : OrNone(Ranges)]
    \cup [pc : {"addDepartment"}, name : DepartmentNames]
    \cup [pc : {"addEmployee"}, login : Logins, role : DOMAIN roles,
          position : DOMAIN positions, department : DOMAIN departments,
          salary : OrNone(Salaries)]
    \cup [pc : {"saveEmployee"}, employee : DOMAIN employees,
          position : OrNone(DOMAIN positions), department : OrNone(DOMAIN departments),
          salary : OrNone(Salaries)]
    \cup [pc : {"saveFile", "deleteFile", "clearImage"}, user : DOMAIN users, old : OrNone(Nat)]
    \cup [pc : {"setImage"}, user : DOMAIN users, old : OrNone(Nat), new : Nat]
    \cup [pc : {"setProfile"}, user : DOMAIN users, new : OrNone(Nat)]
    \cup [pc : {"addCurrency", "addSettings"}, code : Codes, for : {"currency", "settings"}]

TypeOK ==
    /\ users \in Seq(User) /\ roles \in Seq(Role) /\ employees \in Seq(Employee)
    /\ positions \in Seq(Position) /\ departments \in Seq(Department)
    /\ currencies \in Seq(Currency) /\ settings \in Seq(Codes)
    /\ userRoles \subseteq (DOMAIN users) \X (DOMAIN roles)
    /\ saved \in Nat /\ files \subseteq 1..saved
    /\ handler \in [Procs -> Handler \cup {Idle}]
    /\ contended \subseteq Names
    /\ raced \subseteq DOMAIN employees /\ reranged \subseteq DOMAIN positions
    /\ pointed \subseteq 1..saved
    /\ calls \in 0..MaxCalls

-----------------------------------------------------------------------------
(* What queries see: rows that are not deleted *)

LiveIds(table) == {i \in DOMAIN table : ~table[i].deleted}
Deleted(table, i) == [table EXCEPT ![i].deleted = TRUE]

\* Faulty: what is left out becomes null.
GivenOrNull(new, old) == new

\* A given value, or the one stored.
Given(new, old) == IF new = None THEN old ELSE new

\* isExistAsync of users, another one's than u
LoginTaken(n, u) == \E v \in LiveIds(users) : users[v].login = n /\ v # u

\* isExistAsync of roles: the name in upper case
RoleTaken(n) == \E r \in LiveIds(roles) : roles[r].name = Upper[n]

TitleTaken(t, i) == \E j \in LiveIds(positions) : positions[j].title = t /\ j # i
NameTaken(n) == \E d \in LiveIds(departments) : departments[d].name = n
CodeKnown(c) == \E i \in LiveIds(currencies) : currencies[i].code = c

\* The names a handler has found free, and is about to write.
HeldBy(h) ==
    CASE h.pc \in {"addUser", "addEmployee"}        -> {<<"user", h.login>>}
      [] h.pc = "saveUser"                          -> {<<"user", h.login>>} \cap Names
      [] h.pc \in {"addRole", "addNamedRole", "renameRole"} -> {<<"role", h.name>>}
      [] h.pc \in {"addPosition", "savePosition"}   -> {<<"position", h.title>>} \cap Names
      [] h.pc = "addDepartment"                     -> {<<"department", h.name>>}
      [] h.pc \in {"addCurrency", "addSettings"} ->
            IF h.for = "settings" THEN {<<"settings", "company">>} ELSE {}
      [] OTHER -> {}

Held == UNION {HeldBy(handler[q]) : q \in Procs}

Goto(p, h) == handler' = [handler EXCEPT ![p] = h]

\* The handler has read what it needs to go on.
Proceed(p, h) ==
    /\ Goto(p, h)
    /\ contended' = contended \cup (Held \cap HeldBy(h))

\* A request comes in.
Start(p, h) ==
    /\ handler[p] = Idle
    /\ calls < MaxCalls
    /\ calls' = calls + 1
    /\ Proceed(p, h)

\* A request that a single write answers.
Call ==
    /\ calls < MaxCalls
    /\ calls' = calls + 1

-----------------------------------------------------------------------------
(* UsersService: users and their roles *)

\* createAsync: the role is looked up, and created when there is none.
CreateUser(p, n, rn) ==
    LET found == {r \in LiveIds(roles) : roles[r].name = Upper[rn]}
    IN  /\ \E r \in IF found = {} THEN {None} ELSE found :
              Start(p, [pc |-> IF r = None THEN "addRole" ELSE "checkUser",
                        login |-> n, name |-> Upper[rn], role |-> r])
        /\ UNCHANGED <<staff, accounts, company, disk, raced, reranged, pointed>>

AddRole(p) ==
    LET h == handler[p]
    IN  /\ h.pc = "addRole"
        /\ roles' = Append(roles, [name |-> h.name, deleted |-> FALSE])
        /\ Goto(p, [h EXCEPT !.pc = "checkUser", !.role = Len(roles) + 1])
        /\ UNCHANGED <<staff, users, userRoles, company, disk, history, calls>>

\* Only now is the login looked for.  The password is hashed next.
CheckUser(p) ==
    LET h == handler[p]
    IN  /\ h.pc = "checkUser"
        /\ Proceed(p, IF LoginTaken(h.login, None) THEN Idle
                      ELSE [pc |-> "addUser", login |-> h.login, role |-> h.role])
        /\ UNCHANGED <<staff, accounts, company, disk, raced, reranged, pointed, calls>>

NewUser(n) == [login |-> n, image |-> None, deleted |-> FALSE]

AddUser(p) ==
    LET h == handler[p]
    IN  /\ h.pc = "addUser"
        /\ users' = Append(users, NewUser(h.login))
        /\ userRoles' = userRoles \cup {<<Len(users) + 1, h.role>>}
        /\ Goto(p, Idle)
        /\ UNCHANGED <<staff, roles, company, disk, history, calls>>

\* Faulty: whether another user has the login is not looked for.
LoginFreeForAll(u, n) == TRUE

\* updateAsync looks for another user of this login.
LoginFree(u, n) == ~LoginTaken(n, u)

\* updateAsync: what is not given (None) stays.
UpdateUser(p, u, n, names) ==
    /\ u \in LiveIds(users)
    /\ n # None => LoginFree(u, n)
    /\ Start(p, [pc |-> "saveUser", user |-> u, login |-> n, names |-> names])
    /\ UNCHANGED <<staff, accounts, company, disk, raced, reranged, pointed>>

\* The transaction.  A user who was deleted meanwhile is not found, if there is
\* anything to write to the row; and for every name there must be one role.
SaveUser(p) ==
    LET h == handler[p]
        found == {r \in LiveIds(roles) : roles[r].name \in {Upper[n] : n \in h.names}}
        ok == /\ h.login # None => ~users[h.user].deleted
              /\ h.names # None => Cardinality(found) = Cardinality(h.names)
    IN  /\ h.pc = "saveUser"
        /\ IF ok
           THEN /\ users' = [users EXCEPT ![h.user].login = Given(h.login, @)]
                /\ userRoles' = IF h.names = None THEN userRoles
                                ELSE {x \in userRoles : x[1] # h.user}
                                     \cup ({h.user} \X found)
           ELSE UNCHANGED <<users, userRoles>>
        /\ Goto(p, Idle)
        /\ UNCHANGED <<staff, roles, company, disk, history, calls>>

\* deleteAsync: the employee of the user stays.
DeleteUser(u) ==
    /\ Call
    /\ u \in LiveIds(users)
    /\ users' = Deleted(users, u)
    /\ UNCHANGED <<staff, roles, userRoles, company, disk, handler, history>>

-----------------------------------------------------------------------------
(* UsersService: pictures *)

\* uploadImageAsync and removeImageAsync: the old picture is looked up.
UploadImage(p, u) ==
    /\ u \in LiveIds(users)
    /\ Start(p, [pc |-> "saveFile", user |-> u, old |-> users[u].image])
    /\ UNCHANGED <<staff, accounts, company, disk, raced, reranged, pointed>>

RemoveImage(p, u) ==
    /\ u \in LiveIds(users)
    /\ users[u].image # None
    /\ Start(p, [pc |-> "clearImage", user |-> u, old |-> users[u].image])
    /\ UNCHANGED <<staff, accounts, company, disk, raced, reranged, pointed>>

\* saveFileAsync.  The name has the time in it: it is a new one, unless a user's
\* picture is uploaded twice in a millisecond, which is left out.
SaveFile(p) ==
    LET h == handler[p]
        new == saved + 1
    IN  /\ h.pc = "saveFile"
        /\ saved' = new
        /\ files' = files \cup {new}
        /\ Goto(p, [pc |-> "setImage", user |-> h.user, old |-> h.old, new |-> new])
        /\ UNCHANGED <<staff, accounts, company, history, calls>>

SetImage(p) ==
    LET h == handler[p]
    IN  /\ h.pc = "setImage"
        /\ users' = [users EXCEPT ![h.user].image = h.new]
        /\ Goto(p, IF h.old = None THEN Idle
                   ELSE [pc |-> "deleteFile", user |-> h.user, old |-> h.old])
        /\ UNCHANGED <<staff, roles, userRoles, company, disk, history, calls>>

ClearImage(p) ==
    LET h == handler[p]
    IN  /\ h.pc = "clearImage"
        /\ users' = [users EXCEPT ![h.user].image = None]
        /\ Goto(p, [h EXCEPT !.pc = "deleteFile"])
        /\ UNCHANGED <<staff, roles, userRoles, company, disk, history, calls>>

\* Faulty: the user's picture is looked up once more when the old one is deleted.
SupersededNow(h) == users[h.user].image

\* The picture that was read first
Superseded(h) == h.old

DeleteFile(p) ==
    LET h == handler[p]
    IN  /\ h.pc = "deleteFile"
        /\ files' = files \ {Superseded(h)}
        /\ Goto(p, Idle)
        /\ UNCHANGED <<staff, accounts, company, saved, history, calls>>

\* AuthService.updateMeProfileAsync, for users with an employee.  The picture can be any
\* that was ever saved, as the client knows it, or null.
UpdateMeProfile(p, u, image) ==
    /\ u \in LiveIds(users)
    /\ \E e \in DOMAIN employees : employees[e].user = u
    /\ Start(p, [pc |-> "setProfile", user |-> u, new |-> image])
    /\ UNCHANGED <<staff, accounts, company, disk, raced, reranged, pointed>>

\* Whether it is on the disk is not asked, and the old one stays there.  What comes
\* next, updateAsync of the employee, concerns neither position nor salary.
SetProfileImage(p) ==
    LET h == handler[p]
    IN  /\ h.pc = "setProfile"
        /\ users' = [users EXCEPT ![h.user].image = h.new]
        /\ pointed' = pointed \cup ({h.new} \ {None})
        /\ Goto(p, Idle)
        /\ UNCHANGED <<staff, roles, userRoles, company, disk, contended, raced, reranged,
                       calls>>

-----------------------------------------------------------------------------
(* RolesService *)

CreateRole(p, n) ==
    /\ ~RoleTaken(n)
    /\ Start(p, [pc |-> "addNamedRole", name |-> Upper[n]])
    /\ UNCHANGED <<staff, accounts, company, disk, raced, reranged, pointed>>

AddNamedRole(p) ==
    /\ handler[p].pc = "addNamedRole"
    /\ roles' = Append(roles, [name |-> handler[p].name, deleted |-> FALSE])
    /\ Goto(p, Idle)
    /\ UNCHANGED <<staff, users, userRoles, company, disk, history, calls>>

\* updateAsync looks for the name in upper case, its own too, and stores it as given.
UpdateRole(p, r, n) ==
    /\ r \in LiveIds(roles)
    /\ ~RoleTaken(n)
    /\ Start(p, [pc |-> "renameRole", role |-> r, name |-> n])
    /\ UNCHANGED <<staff, accounts, company, disk, raced, reranged, pointed>>

RenameRole(p) ==
    LET h == handler[p]
    IN  /\ h.pc = "renameRole"
        /\ roles' = [roles EXCEPT ![h.role].name = h.name]
        /\ Goto(p, Idle)
        /\ UNCHANGED <<staff, users, userRoles, company, disk, history, calls>>

\* deleteAsync: its users keep it.
DeleteRole(r) ==
    /\ Call
    /\ r \in LiveIds(roles)
    /\ roles' = Deleted(roles, r)
    /\ UNCHANGED <<staff, users, userRoles, company, disk, handler, history>>

-----------------------------------------------------------------------------
(* EmployeePositionsService *)

CreatePosition(p, t, range) ==
    /\ ~TitleTaken(t, None)
    /\ Start(p, [pc |-> "addPosition", title |-> t, range |-> range])
    /\ UNCHANGED <<staff, accounts, company, disk, raced, reranged, pointed>>

AddPosition(p) ==
    LET h == handler[p]
    IN  /\ h.pc = "addPosition"
        /\ positions' = Append(positions, [title |-> h.title, range |-> h.range,
                                           deleted |-> FALSE])
        /\ Goto(p, Idle)
        /\ UNCHANGED <<departments, employees, accounts, company, disk, history, calls>>

UpdatePosition(p, i, t, range) ==
    /\ i \in LiveIds(positions)
    /\ t # None => ~TitleTaken(t, i)
    /\ Start(p, [pc |-> "savePosition", position |-> i, title |-> t, range |-> range])
    /\ UNCHANGED <<staff, accounts, company, disk, raced, reranged, pointed>>

\* The salaries of those in the position are not looked at.
SavePosition(p) ==
    LET h == handler[p]
    IN  /\ h.pc = "savePosition"
        /\ positions' = [positions EXCEPT ![h.position].title = Given(h.title, @),
                                          ![h.position].range = Given(h.range, @)]
        /\ reranged' = IF h.range = None THEN reranged ELSE reranged \cup {h.position}
        /\ Goto(p, Idle)
        /\ UNCHANGED <<departments, employees, accounts, company, disk, contended, raced,
                       pointed, calls>>

\* deleteEmployeePositionAsync: its employees keep it.
DeletePosition(i) ==
    /\ Call
    /\ i \in LiveIds(positions)
    /\ positions' = Deleted(positions, i)
    /\ UNCHANGED <<departments, employees, accounts, company, disk, handler, history>>

-----------------------------------------------------------------------------
(* DepartmentsService *)

CreateDepartment(p, n) ==
    /\ ~NameTaken(n)
    /\ Start(p, [pc |-> "addDepartment", name |-> n])
    /\ UNCHANGED <<staff, accounts, company, disk, raced, reranged, pointed>>

AddDepartment(p) ==
    /\ handler[p].pc = "addDepartment"
    /\ departments' = Append(departments, [name |-> handler[p].name, deleted |-> FALSE])
    /\ Goto(p, Idle)
    /\ UNCHANGED <<positions, employees, accounts, company, disk, history, calls>>

\* updateAsync looks neither for the department nor for the name.
UpdateDepartment(d, n) ==
    /\ Call
    /\ d \in DOMAIN departments
    /\ departments' = [departments EXCEPT ![d].name = n]
    /\ contended' = contended \cup {<<"department", n>>}
    /\ UNCHANGED <<positions, employees, accounts, company, disk, handler, raced, reranged, pointed>>

\* deleteAsync: its employees keep it.
DeleteDepartment(d) ==
    /\ Call
    /\ d \in LiveIds(departments)
    /\ departments' = Deleted(departments, d)
    /\ UNCHANGED <<positions, employees, accounts, company, disk, handler, history>>

-----------------------------------------------------------------------------
(* EmployeesService *)

\* validateSalaryAgainstPosition
SalaryFits(salary, i) ==
    salary # None => /\ i \in LiveIds(positions)
                     /\ positions[i].range.min <= salary
                     /\ salary <= positions[i].range.max

\* createAsync: login, role and salary are in order.
CreateEmployee(p, n, rn, i, d, salary) ==
    /\ ~LoginTaken(n, None)
    /\ SalaryFits(salary, i)
    /\ \E r \in LiveIds(roles) :
          /\ roles[r].name = Upper[rn]
          /\ Start(p, [pc |-> "addEmployee", login |-> n, role |-> r, position |-> i,
                       department |-> d, salary |-> salary])
    /\ UNCHANGED <<staff, accounts, company, disk, raced, reranged, pointed>>

\* The transaction: the user, the role and the employee, or nothing, as when the
\* employee code is taken, which a key of the table says.
AddEmployee(p) ==
    LET h == handler[p]
        u == Len(users) + 1
    IN  /\ h.pc = "addEmployee"
        /\ \/ /\ users' = Append(users, NewUser(h.login))
              /\ userRoles' = userRoles \cup {<<u, h.role>>}
              /\ employees' = Append(employees,
                    [user |-> u, position |-> h.position, department |-> h.department,
                     salary |-> h.salary, deleted |-> FALSE])
           \/ UNCHANGED <<users, userRoles, employees>>
        /\ Goto(p, Idle)
        /\ UNCHANGED <<positions, departments, roles, company, disk, history, calls>>

\* Number(null) is 0.
Number(salary) == IF salary = None THEN 0 ELSE salary

\* Faulty: a new position is not what the salary is held against.
SalaryInOrderAsWas(e, i, salary) ==
    (i # None \/ salary # None) =>
        SalaryFits(Given(salary, Number(employees[e].salary)), employees[e].position)

\* updateAsync: is what is given of position and salary in order with what is stored?
SalaryInOrder(e, i, salary) ==
    (i # None \/ salary # None) =>
        SalaryFits(Given(salary, Number(employees[e].salary)),
                   Given(i, employees[e].position))

Holds(q, e) == handler[q].pc = "saveEmployee" /\ handler[q].employee = e

\* A department that is given is not looked at, and may be a deleted one.
UpdateEmployee(p, e, i, d, salary) ==
    /\ e \in LiveIds(employees)
    /\ SalaryInOrder(e, i, salary)
    /\ Start(p, [pc |-> "saveEmployee", employee |-> e, position |-> i, department |-> d,
                 salary |-> salary])
    /\ raced' = IF \E q \in Procs : Holds(q, e) THEN raced \cup {e} ELSE raced
    /\ UNCHANGED <<staff, accounts, company, disk, reranged, pointed>>

SaveEmployee(p) ==
    LET h == handler[p]
    IN  /\ h.pc = "saveEmployee"
        /\ employees' = [employees EXCEPT
                            ![h.employee].position = Given(h.position, @),
                            ![h.employee].department = Given(h.department, @),
                            ![h.employee].salary = Given(h.salary, @)]
        /\ Goto(p, Idle)
        /\ UNCHANGED <<positions, departments, accounts, company, disk, history, calls>>

\* deleteAsync: the user stays.
DeleteEmployee(e) ==
    /\ Call
    /\ e \in LiveIds(employees)
    /\ employees' = Deleted(employees, e)
    /\ UNCHANGED <<positions, departments, accounts, company, disk, handler, history>>

-----------------------------------------------------------------------------
(* CurrenciesService and SettingsService *)

\* createAsync: a deleted currency is not seen, although it still has the code.
CreateCurrency(p, c) ==
    /\ ~CodeKnown(c)
    /\ Start(p, [pc |-> "addCurrency", code |-> c, for |-> "currency"])
    /\ UNCHANGED <<staff, accounts, company, disk, raced, reranged, pointed>>

\* The key on the code makes it fail, and with it getCompanySettings.
AddCurrency(p) ==
    LET h == handler[p]
        free == \A i \in DOMAIN currencies : currencies[i].code # h.code
    IN  /\ h.pc = "addCurrency"
        /\ currencies' = IF free
                         THEN Append(currencies, [code |-> h.code, deleted |-> FALSE])
                         ELSE currencies
        /\ Goto(p, IF free /\ h.for = "settings" THEN [h EXCEPT !.pc = "addSettings"]
                   ELSE Idle)
        /\ UNCHANGED <<staff, accounts, settings, disk, history, calls>>

DeleteCurrency(i) ==
    /\ Call
    /\ i \in LiveIds(currencies)
    /\ currencies' = Deleted(currencies, i)
    /\ UNCHANGED <<staff, accounts, settings, disk, handler, history>>

\* getCompanySettings creates them on the first call, and their currency.
GetCompanySettings(p) ==
    /\ settings = <<>>
    /\ Start(p, [pc |-> IF CodeKnown(Default) THEN "addSettings" ELSE "addCurrency",
                 code |-> Default, for |-> "settings"])
    /\ UNCHANGED <<staff, accounts, company, disk, raced, reranged, pointed>>

AddSettings(p) ==
    /\ handler[p].pc = "addSettings"
    /\ settings' = Append(settings, handler[p].code)
    /\ Goto(p, Idle)
    /\ UNCHANGED <<staff, accounts, currencies, disk, history, calls>>

\* updateCompanySettings, when there are settings, of which it takes the first it
\* finds; or it creates them as well.
UpdateCompanySettings(c) ==
    /\ Call
    /\ CodeKnown(c)
    /\ \E i \in DOMAIN settings : settings' = [settings EXCEPT ![i] = c]
    /\ UNCHANGED <<staff, accounts, currencies, disk, handler, history>>

CreateCompanySettings(p, c) ==
    /\ settings = <<>>
    /\ CodeKnown(c)
    /\ Start(p, [pc |-> "addSettings", code |-> c, for |-> "settings"])
    /\ UNCHANGED <<staff, accounts, company, disk, raced, reranged, pointed>>

-----------------------------------------------------------------------------
(* Lists *)

\* findAllPaginatedAsync of users: those with this login and a role of this name.
FindUsers(n, rn) ==
    {u \in LiveIds(users) :
        /\ n # None => users[u].login = n
        /\ rn # None => \E r \in LiveIds(roles) :
                           /\ <<u, r>> \in userRoles
                           /\ Upper[roles[r].name] = Upper[rn]}

\* The same of the other services
FindRoles(n) == {r \in LiveIds(roles) : roles[r].name = n}
FindPositions(t) == {i \in LiveIds(positions) : t = None \/ positions[i].title = t}
FindDepartments(n) == {d \in LiveIds(departments) : n = None \/ departments[d].name = n}
FindCurrencies(c) == {i \in LiveIds(currencies) : c = None \/ currencies[i].code = c}

\* findAllPaginatedAsync of employees: those in this position, with such a salary.
FindEmployees(i, range) ==
    {e \in LiveIds(employees) :
        /\ i # None => employees[e].position = i
        /\ range # None => /\ employees[e].salary # None
                           /\ range.min <= employees[e].salary
                           /\ employees[e].salary <= range.max}

-----------------------------------------------------------------------------
\* After the installation: the roles of the seed, its administrator, and what HR has
\* entered so far.
Init ==
    /\ users = <<[login |-> CHOOSE n \in Logins : TRUE, image |-> 1, deleted |-> FALSE]>>
    /\ roles = <<[name |-> CHOOSE n \in RoleNames : Upper[n] = n, deleted |-> FALSE]>>
    /\ userRoles = {<<1, 1>>}
    /\ \E r \in Ranges, s \in Salaries :
          /\ r.min <= s /\ s <= r.max
          /\ positions = <<[title |-> CHOOSE t \in Titles : TRUE, range |-> r,
                            deleted |-> FALSE]>>
          /\ employees = <<[user |-> 1, position |-> 1, department |-> 1, salary |-> s,
                            deleted |-> FALSE]>>
    /\ \E n \in DepartmentNames : departments = <<[name |-> n, deleted |-> FALSE]>>
    /\ currencies \in {<<>>, <<[code |-> Default, deleted |-> FALSE]>>}
    /\ settings = <<>>
    /\ saved = 1 /\ files = {1}
    /\ handler = [p \in Procs |-> Idle]
    /\ contended = {} /\ raced = {} /\ reranged = {} /\ pointed = {}
    /\ calls = 0

Requests(p) ==
    \/ \E n \in Logins, rn \in RoleNames :
          \/ CreateUser(p, n, rn)
          \/ \E i \in DOMAIN positions, d \in DOMAIN departments, s \in OrNone(Salaries) :
                CreateEmployee(p, n, rn, i, d, s)
    \/ \E u \in DOMAIN users :
          \/ \E n \in OrNone(Logins), names \in OrNone(RoleLists) :
                UpdateUser(p, u, n, names)
          \/ UploadImage(p, u)
          \/ RemoveImage(p, u)
          \/ \E image \in OrNone(1..saved) : UpdateMeProfile(p, u, image)
    \/ \E n \in RoleNames : CreateRole(p, n) \/ \E r \in DOMAIN roles : UpdateRole(p, r, n)
    \/ \E t \in Titles, range \in Ranges : CreatePosition(p, t, range)
    \/ \E i \in DOMAIN positions, t \in OrNone(Titles), range \in OrNone(Ranges) :
          UpdatePosition(p, i, t, range)
    \/ \E n \in DepartmentNames : CreateDepartment(p, n)
    \/ \E e \in DOMAIN employees, i \in OrNone(DOMAIN positions),
          d \in OrNone(DOMAIN departments), s \in OrNone(Salaries) :
          UpdateEmployee(p, e, i, d, s)
    \/ \E c \in Codes : CreateCurrency(p, c) \/ CreateCompanySettings(p, c)
    \/ GetCompanySettings(p)

Writes(p) ==
    \/ AddRole(p) \/ CheckUser(p) \/ AddUser(p) \/ SaveUser(p)
    \/ SaveFile(p) \/ SetImage(p) \/ ClearImage(p) \/ DeleteFile(p)
    \/ SetProfileImage(p)
    \/ AddNamedRole(p) \/ RenameRole(p)
    \/ AddPosition(p) \/ SavePosition(p) \/ AddDepartment(p)
    \/ AddEmployee(p) \/ SaveEmployee(p)
    \/ AddCurrency(p) \/ AddSettings(p)

Next ==
    \/ \E p \in Procs : Requests(p) \/ Writes(p)
    \/ \E u \in DOMAIN users : DeleteUser(u)
    \/ \E r \in DOMAIN roles : DeleteRole(r)
    \/ \E i \in DOMAIN positions : DeletePosition(i)
    \/ \E d \in DOMAIN departments :
          DeleteDepartment(d) \/ \E n \in DepartmentNames : UpdateDepartment(d, n)
    \/ \E e \in DOMAIN employees : DeleteEmployee(e)
    \/ \E i \in DOMAIN currencies : DeleteCurrency(i)
    \/ \E c \in Codes : UpdateCompanySettings(c)

Spec == Init /\ [][Next]_vars

-----------------------------------------------------------------------------
(* Properties *)

\* Whoever looks a name up in a list finds one row, although only the code of a
\* currency is unique by a key: unless two handlers had both found the name free, or
\* a department was given it, which nobody looks for.  Roles are looked up in upper
\* case; of names that are not, as updateAsync stores them, nothing is claimed.
NamesUnique ==
    \A name \in Names \ contended :
        CASE name[1] = "user" ->
                \A u, v \in FindUsers(name[2], None) : u = v
          [] name[1] = "role" -> Upper[name[2]] = name[2] =>
                \A r, s \in FindRoles(name[2]) : r = s
          [] name[1] = "position" ->
                \A i, j \in FindPositions(name[2]) : i = j
          [] name[1] = "department" ->
                \A d, e \in FindDepartments(name[2]) : d = e
          [] name[1] = "currency" ->
                \A i, j \in FindCurrencies(name[2]) : i = j
          [] name[1] = "settings" -> Len(settings) <= 1

\* Who is listed in a position, and has a salary, is listed in its salary range, too:
\* unless two updates held the employee at once, each looking at the position or the
\* salary that the other replaced, or the range was changed.
SalaryInRange ==
    \A i \in FindPositions(None) \ reranged :
        \A e \in FindEmployees(i, None) \ raced :
            employees[e].salary # None => e \in FindEmployees(i, positions[i].range)

\* However uploads and removals overlap, the picture a user refers to is there: the one
\* that is deleted is never the one referred to.  Unless a user put it in the own
\* profile, where it may be one that is long deleted, or that another upload replaces.
ImageOnDisk ==
    \A u \in DOMAIN users : users[u].image \in files \cup pointed \cup {None}
=============================================================================
