--------------------------- MODULE PaymentsProofs ---------------------------
(***************************************************************************)
(* The safety properties of Payments hold for any number of users, items,  *)
(* payments and requests, and Payments implements Purchases; circuit       *)
(* breakers in front of the providers change none of that.  Before that,   *)
(* what is promised of accounts, of schedules and of workflows.            *)
(***************************************************************************)
EXTENDS MCPayments, GuardedPayments, SequenceTheorems, FiniteSetTheorems, TLAPS

(***************************************************************************)
(* Accounts                                                                *)
(***************************************************************************)

UserRow  == [there : BOOLEAN, role : Accounts!AllRoles, staff : Accounts!Staff, off : BOOLEAN]
UserList == [role : [People -> Accounts!AllRoles], old : SUBSET People]
UserForm == [on : People, role : Accounts!AllRoles, old : BOOLEAN]

\* The pages show roles that were chosen last, or are old.
PagesFresh ==
  \A a \in People :
      /\ list[a] # Accounts!NoList =>
            \A u \in People \ list[a].old : Accounts!Fresh(u, list[a].role[u])
      /\ fields[a] # Accounts!NoForm /\ ~fields[a].old => Accounts!Fresh(fields[a].on, fields[a].role)

\* A role that will be fresh.
FreshThen(u, role) == row'[u].there => role = chosen'[u] \/ u \in late'

RolesChosen == \A u \in People : row[u].there => row[u].role = chosen[u] \/ u \in late

\* The parts of the invariant.
LEMMA AccountsParts ==
  Accounts!AccountsInv <=>
      /\ row \in [People -> UserRow] /\ list \in [People -> UserList]
      /\ fields \in [People -> UserForm] /\ chosen \in [People -> Accounts!AllRoles]
      /\ crossed \in BOOLEAN
      /\ \A d \in dropping : d[1] # d[2]
      /\ PagesFresh
      /\ crossed \/ \E u \in People : Accounts!Active(u)
      /\ RolesChosen
  BY DEF Accounts!AccountsInv, Accounts!TypeOK, Accounts!AdministrationHolds, UserRow, UserList,
         UserForm, PagesFresh, RolesChosen

\* Its parts after a step.
LEMMA AccountsThen ==
  ASSUME row' \in [People -> UserRow], list' \in [People -> UserList],
         fields' \in [People -> UserForm], chosen' \in [People -> Accounts!AllRoles],
         crossed' \in BOOLEAN,
         \A d \in dropping' : d[1] # d[2],
         PagesFresh',
         crossed' \/ \E u \in People : Accounts!Active(u)',
         RolesChosen'
  PROVE  Accounts!AccountsInv'
  BY DEF Accounts!AccountsInv, Accounts!TypeOK, Accounts!AdministrationHolds, UserRow, UserList,
         UserForm, PagesFresh, RolesChosen

\* A role that is chosen is the role of the row, and whatever shows another is old.
LEMMA RoleChosen ==
  ASSUME Accounts!AccountsInv, NEW v \in People, NEW r \in Accounts!AllRoles, Accounts!Choose(v, r),
         row' \in [People -> UserRow], row'[v].role = r,
         \A u \in People \ {v} : row'[u] = row[u]
  PROVE  /\ list' \in [People -> UserList] /\ fields' \in [People -> UserForm]
         /\ chosen' \in [People -> Accounts!AllRoles]
         /\ PagesFresh' /\ RolesChosen'
  <1>1. /\ list \in [People -> UserList] /\ fields \in [People -> UserForm]
        /\ chosen \in [People -> Accounts!AllRoles] /\ PagesFresh /\ RolesChosen
    BY AccountsParts
  <1>2. /\ chosen' = [chosen EXCEPT ![v] = r] /\ late' = late \ {v}
        /\ list' = [a \in People |-> [list[a] EXCEPT !.old = IF list[a] = Accounts!NoList THEN {} ELSE @ \cup {v}]]
        /\ fields' = [a \in People |-> [fields[a] EXCEPT !.old = @ \/ (fields[a] # Accounts!NoForm /\ fields[a].on = v)]]
    BY DEF Accounts!Choose
  <1>3. ASSUME NEW a \in People
        PROVE  /\ list'[a] \in UserList /\ list'[a].role = list[a].role
               /\ list[a] = Accounts!NoList => list'[a] = Accounts!NoList
               /\ list[a] # Accounts!NoList => list'[a].old = list[a].old \cup {v}
    <2>1. CASE list[a] = Accounts!NoList
      <3>1. list'[a] = [Accounts!NoList EXCEPT !.old = {}]
        BY <1>2, <2>1
      <3>2. list'[a] = Accounts!NoList
        BY <3>1 DEF Accounts!NoList
      <3>3. QED
        BY <1>1, <2>1, <3>2
    <2>2. CASE list[a] # Accounts!NoList
      <3>1. list'[a] = [list[a] EXCEPT !.old = list[a].old \cup {v}] /\ list[a] \in UserList
        BY <1>1, <1>2, <2>2
      <3>2. QED
        BY <2>2, <3>1 DEF UserList
    <2>3. QED
      BY <2>1, <2>2
  <1>4. ASSUME NEW a \in People
        PROVE  /\ fields'[a] \in UserForm /\ fields'[a].role = fields[a].role
               /\ fields'[a].on = fields[a].on
               /\ fields[a] = Accounts!NoForm => fields'[a] = Accounts!NoForm
               /\ fields[a] # Accounts!NoForm /\ fields[a].on = v => fields'[a].old
               /\ fields[a].old => fields'[a].old
    <2>1. fields[a] \in UserForm
      BY <1>1
    <2>2. CASE fields[a] = Accounts!NoForm
      <3> DEFINE old == fields[a].old \/ (fields[a] # Accounts!NoForm /\ fields[a].on = v)
      <3>0. Accounts!NoForm.old = FALSE
        BY DEF Accounts!NoForm
      <3>a. old = FALSE
        BY <2>2, <3>0
      <3>b. fields'[a] = [fields[a] EXCEPT !.old = old]
        BY <1>2
      <3> HIDE DEF old
      <3>1. fields'[a] = [Accounts!NoForm EXCEPT !.old = FALSE] /\ ~Accounts!NoForm.old
        BY <2>2, <3>0, <3>a, <3>b
      <3>2. fields'[a] = Accounts!NoForm
        BY <3>1 DEF Accounts!NoForm
      <3>3. QED
        BY <2>1, <2>2, <3>1, <3>2
    <2>3. CASE fields[a] # Accounts!NoForm
      <3>1. fields'[a] = [fields[a] EXCEPT !.old = fields[a].old \/ fields[a].on = v]
        BY <1>2, <2>3
      <3>2. (fields[a].old \/ fields[a].on = v) \in BOOLEAN
        OBVIOUS
      <3>3. QED
        BY <2>1, <2>3, <3>1, <3>2 DEF UserForm
    <2>4. QED
      BY <2>2, <2>3
  <1>5. list' \in [People -> UserList] /\ fields' \in [People -> UserForm]
    BY <1>2, <1>3, <1>4
  <1>6. chosen' \in [People -> Accounts!AllRoles] /\ chosen'[v] = r
        /\ \A u \in People \ {v} : chosen'[u] = chosen[u]
    BY <1>1, <1>2
  <1>7. ASSUME NEW u \in People \ {v}, NEW role, Accounts!Fresh(u, role)
        PROVE  FreshThen(u, role)
    <2>1. row'[u] = row[u] /\ chosen'[u] = chosen[u] /\ (u \in late => u \in late')
      BY <1>2, <1>6
    <2>2. QED
      BY <1>7, <2>1 DEF Accounts!Fresh, FreshThen
  <1>8. PagesFresh'
    <2>1. ASSUME NEW a \in People, list'[a] # Accounts!NoList, NEW u \in People \ list'[a].old
          PROVE  FreshThen(u, list'[a].role[u])
      <3>1. list[a] # Accounts!NoList /\ u # v /\ u \in People \ list[a].old
        BY <1>3, <2>1
      <3>2. Accounts!Fresh(u, list[a].role[u])
        BY <1>1, <3>1 DEF PagesFresh
      <3>3. QED
        BY <1>3, <1>7, <3>1, <3>2
    <2>2. ASSUME NEW a \in People, fields'[a] # Accounts!NoForm, ~fields'[a].old
          PROVE  FreshThen(fields'[a].on, fields'[a].role)
      <3>1. fields[a] # Accounts!NoForm /\ ~fields[a].old /\ fields[a].on \in People \ {v}
        BY <1>1, <1>4, <2>2 DEF UserForm
      <3>2. Accounts!Fresh(fields[a].on, fields[a].role)
        BY <1>1, <3>1 DEF PagesFresh
      <3>3. QED
        BY <1>4, <1>7, <3>1, <3>2
    <2>3. QED
      BY <2>1, <2>2 DEF PagesFresh, FreshThen, Accounts!Fresh, Accounts!NoList, Accounts!NoForm
  <1>9. RolesChosen'
    BY <1>1, <1>2, <1>6 DEF RolesChosen
  <1>10. QED
    BY <1>5, <1>6, <1>8, <1>9

\* A step that keeps the roles of rows, or writes one that was chosen or is known to be
\* late, and shows nothing new.
LEMMA RolesKept ==
  ASSUME Accounts!AccountsInv, row' \in [People -> UserRow],
         \A u \in People : row'[u].there =>
             row[u].there /\ (row'[u].role \in {row[u].role, chosen[u]} \/ u \in late'),
         chosen' = chosen, late \subseteq late', list' = list,
         fields' = fields \/ \E a \in People : fields' = [fields EXCEPT ![a] = Accounts!NoForm]
  PROVE  /\ list' \in [People -> UserList] /\ fields' \in [People -> UserForm]
         /\ chosen' \in [People -> Accounts!AllRoles]
         /\ PagesFresh' /\ RolesChosen'
  <1>1. /\ list \in [People -> UserList] /\ fields \in [People -> UserForm]
        /\ chosen \in [People -> Accounts!AllRoles] /\ PagesFresh /\ RolesChosen
    BY AccountsParts
  <1>2. Accounts!NoForm \in UserForm
    BY FounderAssumption DEF Accounts!NoForm, UserForm, Accounts!AllRoles
  <1>3. fields' \in [People -> UserForm]
    BY <1>1, <1>2
  <1>4. \A a \in People : fields'[a] = fields[a] \/ fields'[a] = Accounts!NoForm
    BY <1>1
  <1>5. ASSUME NEW u \in People, NEW role, Accounts!Fresh(u, role)
        PROVE  FreshThen(u, role)
    BY <1>5 DEF Accounts!Fresh, FreshThen
  <1>6. PagesFresh'
    <2>1. ASSUME NEW a \in People, list[a] # Accounts!NoList, NEW u \in People \ list[a].old
          PROVE  FreshThen(u, list[a].role[u])
      BY <1>1, <1>5, <2>1 DEF PagesFresh
    <2>2. ASSUME NEW a \in People, fields'[a] # Accounts!NoForm, ~fields'[a].old
          PROVE  FreshThen(fields'[a].on, fields'[a].role)
      <3>1. fields'[a] = fields[a] /\ fields[a].on \in People
        BY <1>1, <1>4, <2>2 DEF UserForm
      <3>2. QED
        BY <1>1, <1>5, <2>2, <3>1 DEF PagesFresh
    <2>3. QED
      BY <2>1, <2>2 DEF PagesFresh, FreshThen, Accounts!Fresh, Accounts!NoList, Accounts!NoForm
  <1>7. RolesChosen'
    BY <1>1 DEF RolesChosen
  <1>8. QED
    BY <1>1, <1>3, <1>6, <1>7

\* An administrator who changes another row, or leaves the own one active, remains.
LEMMA ActiveRemains ==
  ASSUME Accounts!AccountsInv, NEW a \in People, NEW u \in People, NEW to \in UserRow,
         Accounts!Change(a, u, to),
         a = u /\ row[u].role = "ADMIN" /\ ~row[u].off => to.there /\ to.role = "ADMIN" /\ ~to.off
  PROVE  /\ row' \in [People -> UserRow] /\ row' = [row EXCEPT ![u] = to]
         /\ crossed' \in BOOLEAN
         /\ crossed' \/ \E v \in People : Accounts!Active(v)'
  <1>1. row \in [People -> UserRow] /\ crossed \in BOOLEAN
    BY AccountsParts
  <1>2. row' = [row EXCEPT ![u] = to] /\ crossed' = (crossed \/ ~Accounts!Active(a))
    BY DEF Accounts!Change
  <1>3. row' \in [People -> UserRow] /\ row'[u] = to /\ \A v \in People \ {u} : row'[v] = row[v]
    BY <1>1, <1>2
  <1>4. ASSUME Accounts!Active(a) PROVE Accounts!Active(a)'
    BY <1>3, <1>4 DEF Accounts!Active
  <1>5. crossed' \in BOOLEAN
    BY <1>1, <1>2 DEF Accounts!Active
  <1>6. QED
    BY <1>2, <1>3, <1>4, <1>5

\* Steps that write no row and leave the pages.
LEMMA AccountsQuiet ==
  ASSUME Accounts!AccountsInv, row' = row, list' = list, fields' = fields, chosen' = chosen,
         late' = late, crossed' = crossed, \A d \in dropping' : d[1] # d[2]
  PROVE  Accounts!AccountsInv'
  BY DEF Accounts!AccountsInv, Accounts!TypeOK, Accounts!AdministrationHolds, Accounts!Active,
         Accounts!Fresh, Accounts!NoList, Accounts!NoForm

\* The list loaded shows the rows as they are ...
LEMMA LoadFresh ==
  ASSUME Accounts!AccountsInv, NEW a \in People, Accounts!load(a)
  PROVE  Accounts!AccountsInv'
  <1> DEFINE shown == [role |-> [u \in People |-> row[u].role], old |-> {}]
  <1>1. /\ row' = row /\ fields' = fields /\ chosen' = chosen /\ late' = late
        /\ crossed' = crossed /\ dropping' = dropping
        /\ list' = [list EXCEPT ![a] = shown]
    BY DEF Accounts!load, Accounts!choices
  <1>2. /\ row \in [People -> UserRow] /\ list \in [People -> UserList] /\ RolesChosen
        /\ PagesFresh
    BY AccountsParts
  <1>3. shown \in UserList
    BY <1>2 DEF UserList, UserRow
  <1>4. \A u \in People : Accounts!Fresh(u, shown.role[u])
    BY <1>2 DEF RolesChosen, Accounts!Fresh
  <1> HIDE DEF shown
  <1>5. list' \in [People -> UserList]
    BY <1>1, <1>2, <1>3
  <1>6. PagesFresh'
    <2>1. ASSUME NEW b \in People, list'[b] # Accounts!NoList, NEW u \in People \ list'[b].old
          PROVE  Accounts!Fresh(u, list'[b].role[u])
      <3>1. CASE b = a
        BY <1>1, <1>2, <1>4, <3>1
      <3>2. CASE b # a
        <4>1. list'[b] = list[b]
          BY <1>1, <1>2, <3>2
        <4>2. QED
          BY <1>2, <2>1, <4>1 DEF PagesFresh
      <3>3. QED
        BY <3>1, <3>2
    <2>2. QED
      BY <1>1, <1>2, <2>1 DEF PagesFresh, Accounts!Fresh, Accounts!NoList, Accounts!NoForm
  <1>7. RolesChosen' /\ (crossed' \/ \E u \in People : Accounts!Active(u)')
    BY <1>1, AccountsParts DEF RolesChosen, Accounts!Active
  <1>8. QED
    BY <1>1, <1>5, <1>6, <1>7, AccountsParts, AccountsThen

\* ... and a form what the list shows.
LEMMA FormFresh ==
  ASSUME Accounts!AccountsInv, NEW a \in People, NEW v \in People, Accounts!openEdit(a, v)
  PROVE  Accounts!AccountsInv'
  <1> DEFINE old == v \in list[a].old
             shown == [on |-> v, role |-> list[a].role[v], old |-> old]
  <1>1. /\ row' = row /\ list' = list /\ chosen' = chosen /\ late' = late
        /\ crossed' = crossed /\ dropping' = dropping /\ list[a] # Accounts!NoList
        /\ fields' = [fields EXCEPT ![a] = shown]
    BY DEF Accounts!openEdit, Accounts!choices
  <1>2. /\ fields \in [People -> UserForm] /\ list \in [People -> UserList] /\ PagesFresh
    BY AccountsParts
  <1>3. old \in BOOLEAN /\ (~old => Accounts!Fresh(v, list[a].role[v]))
    BY <1>1, <1>2 DEF PagesFresh
  <1> HIDE DEF old
  <1>4. shown \in UserForm /\ shown.on = v /\ shown.role = list[a].role[v] /\ shown.old = old
    BY <1>2, <1>3 DEF UserForm, UserList
  <1> HIDE DEF shown
  <1>5. fields' \in [People -> UserForm]
    BY <1>1, <1>2, <1>4
  <1>6. PagesFresh'
    <2>1. ASSUME NEW b \in People, fields'[b] # Accounts!NoForm, ~fields'[b].old
          PROVE  Accounts!Fresh(fields'[b].on, fields'[b].role)
      <3>1. CASE b = a
        <4>1. fields'[b] = shown
          BY <1>1, <1>2, <3>1
        <4>2. QED
          BY <1>3, <1>4, <2>1, <4>1
      <3>2. CASE b # a
        <4>1. fields'[b] = fields[b]
          BY <1>1, <1>2, <3>2
        <4>2. QED
          BY <1>2, <2>1, <4>1 DEF PagesFresh
      <3>3. QED
        BY <3>1, <3>2
    <2>2. QED
      BY <1>1, <1>2, <2>1 DEF PagesFresh, Accounts!Fresh, Accounts!NoList, Accounts!NoForm
  <1>7. RolesChosen' /\ (crossed' \/ \E u \in People : Accounts!Active(u)')
    BY <1>1, AccountsParts DEF RolesChosen, Accounts!Active
  <1>8. QED
    BY <1>1, <1>5, <1>6, <1>7, AccountsParts, AccountsThen

\* The role list of a row.
LEMMA RoleListKeeps ==
  ASSUME Accounts!AccountsInv, NEW a \in People, NEW u \in People, NEW r \in Accounts!AllRoles,
         a = u => r = "ADMIN",
         Accounts!Change(a, u, [row[u] EXCEPT !.role = r]), Accounts!Choose(u, r),
         dropping' = dropping
  PROVE  Accounts!AccountsInv'
  <1> DEFINE to == [row[u] EXCEPT !.role = r]
  <1>1. row \in [People -> UserRow] /\ row[u].there
    BY AccountsParts DEF Accounts!Change
  <1>2. to \in UserRow /\ to.role = r /\ to.there /\ to.off = row[u].off
    BY <1>1 DEF UserRow
  <1> HIDE DEF to
  <1>3. Accounts!Change(a, u, to)
    BY DEF to
  <1>4. /\ row' \in [People -> UserRow] /\ row' = [row EXCEPT ![u] = to] /\ crossed' \in BOOLEAN
        /\ crossed' \/ \E v \in People : Accounts!Active(v)'
    BY <1>2, <1>3, ActiveRemains
  <1>5. row'[u].role = r /\ \A v \in People \ {u} : row'[v] = row[v]
    BY <1>1, <1>2, <1>4
  <1>6. QED
    BY <1>4, <1>5, RoleChosen, AccountsParts, AccountsThen

\* A change that leaves the role, or writes what a form shows, or takes the row away.
LEMMA ChangeKeeps ==
  ASSUME Accounts!AccountsInv, NEW a \in People, NEW u \in People, NEW to \in UserRow,
         Accounts!Change(a, u, to),
         to.there => to.role \in {row[u].role, chosen[u]} \/ u \in late',
         a = u => to.there /\ (row[u].role = "ADMIN" => to.role = "ADMIN") /\ (~row[u].off => ~to.off),
         chosen' = chosen, late \subseteq late', list' = list,
         fields' = fields \/ \E b \in People : fields' = [fields EXCEPT ![b] = Accounts!NoForm],
         \A d \in dropping' : d[1] # d[2]
  PROVE  Accounts!AccountsInv'
  <1>1. row \in [People -> UserRow] /\ row[u].there
    BY AccountsParts DEF Accounts!Change
  <1>2. /\ row' \in [People -> UserRow] /\ row' = [row EXCEPT ![u] = to] /\ crossed' \in BOOLEAN
        /\ crossed' \/ \E v \in People : Accounts!Active(v)'
    BY ActiveRemains
  <1>3. \A v \in People : row'[v].there =>
            row[v].there /\ (row'[v].role \in {row[v].role, chosen[v]} \/ v \in late')
    BY <1>1, <1>2
  <1>4. QED
    BY <1>2, <1>3, RolesKept, AccountsThen

\* A form that is saved as it was filled writes the role it shows.
LEMMA UpdateUserKeeps ==
  ASSUME Accounts!AccountsInv, NEW a \in People,
         NEW r \in Roles \cup {fields[a].role}, Accounts!updateUser(a, r)
  PROVE  Accounts!AccountsInv'
  <1> DEFINE u == fields[a].on
             to == [row[u] EXCEPT !.role = r]
  <1>1. /\ row \in [People -> UserRow] /\ fields \in [People -> UserForm] /\ PagesFresh
        /\ \A d \in dropping : d[1] # d[2]
    BY AccountsParts
  <1>2. u \in People /\ r \in Accounts!AllRoles
    BY <1>1 DEF UserForm, Accounts!AllRoles
  <1>3. /\ fields[a] # Accounts!NoForm /\ (a = u => r = "ADMIN") /\ dropping' = dropping
        /\ Accounts!Change(a, u, to)
        /\ IF r # fields[a].role THEN Accounts!Choose(u, r)
           ELSE /\ late' = IF fields[a].old THEN late \cup {u} ELSE late
                /\ fields' = [fields EXCEPT ![a] = Accounts!NoForm]
                /\ list' = list /\ chosen' = chosen
    BY DEF Accounts!updateUser
  <1>4. row[u].there
    BY <1>3 DEF Accounts!Change
  <1>5. to \in UserRow /\ to.role = r /\ to.there /\ to.off = row[u].off
    BY <1>1, <1>2, <1>4 DEF UserRow
  <1>6. CASE r # fields[a].role
    BY <1>2, <1>3, <1>6, RoleListKeeps
  <1>7. CASE r = fields[a].role
    <2>1. r = chosen[u] \/ u \in late'
      BY <1>1, <1>3, <1>4, <1>7 DEF PagesFresh, Accounts!Fresh
    <2>2. late \subseteq late'
      BY <1>3, <1>7
    <2> HIDE DEF to, u
    <2>3. QED
      BY <1>1, <1>2, <1>3, <1>5, <1>7, <2>1, <2>2, ChangeKeeps
  <1>8. QED
    BY <1>6, <1>7

\* A staff role, a suspension and a deletion leave the roles.
LEMMA StaffRoleKeeps ==
  ASSUME Accounts!AccountsInv, NEW a \in People, NEW u \in People, NEW staff \in Accounts!Staff,
         Accounts!setStaffRole(a, u, staff)
  PROVE  Accounts!AccountsInv'
  <1> DEFINE to == [row[u] EXCEPT !.staff = staff]
  <1>1. row \in [People -> UserRow] /\ \A d \in dropping : d[1] # d[2]
    BY AccountsParts
  <1>2. /\ Accounts!Change(a, u, to) /\ dropping' = dropping /\ list' = list /\ fields' = fields
        /\ chosen' = chosen /\ late' = late /\ row[u].there
    BY DEF Accounts!setStaffRole, Accounts!pages, Accounts!choices, Accounts!Change
  <1>3. to \in UserRow /\ to.role = row[u].role /\ to.there /\ to.off = row[u].off
    BY <1>1, <1>2 DEF UserRow
  <1> HIDE DEF to
  <1>4. QED
    BY <1>1, <1>2, <1>3, ChangeKeeps

LEMMA SuspensionKeeps ==
  ASSUME Accounts!AccountsInv, NEW a \in People, NEW u \in People, NEW suspend \in BOOLEAN,
         Accounts!setSuspended(a, u, suspend)
  PROVE  Accounts!AccountsInv'
  <1> DEFINE to == [row[u] EXCEPT !.off = suspend]
  <1>1. row \in [People -> UserRow] /\ \A d \in dropping : d[1] # d[2]
    BY AccountsParts
  <1>2. /\ Accounts!Change(a, u, to) /\ dropping' = dropping /\ list' = list /\ fields' = fields
        /\ chosen' = chosen /\ late' = late /\ row[u].there /\ (a = u => ~suspend)
    BY DEF Accounts!setSuspended, Accounts!pages, Accounts!choices, Accounts!Change
  <1>3. to \in UserRow /\ to.role = row[u].role /\ to.there /\ to.off = suspend
    BY <1>1, <1>2 DEF UserRow
  <1> HIDE DEF to
  <1>4. QED
    BY <1>1, <1>2, <1>3, ChangeKeeps

LEMMA DeletionKeeps ==
  ASSUME Accounts!AccountsInv, NEW a \in People, NEW u \in People, Accounts!deleteUser(a, u)
  PROVE  Accounts!AccountsInv'
  <1>1. /\ \A d \in dropping : d[1] # d[2]
        /\ <<a, u>> \in dropping /\ dropping' = dropping \ {<<a, u>>}
        /\ list' = list /\ fields' = fields /\ chosen' = chosen /\ late' = late
        /\ \/ Accounts!Change(a, u, Accounts!Gone)
           \/ row' = row /\ crossed' = crossed
    BY AccountsParts DEF Accounts!deleteUser, Accounts!pages, Accounts!choices
  <1>2. a # u /\ \A d \in dropping' : d[1] # d[2]
    BY <1>1
  <1>3. Accounts!Gone \in UserRow /\ ~Accounts!Gone.there
    BY DEF Accounts!Gone, UserRow, Accounts!AllRoles, Accounts!Staff
  <1>4. QED
    BY <1>1, <1>2, <1>3, ChangeKeeps, AccountsQuiet

\* Who becomes a creator was no administrator, or is known to have been promoted since.
LEMMA CreatorKeeps ==
  ASSUME Accounts!AccountsInv, NEW u \in People, Accounts!becomeCreator(u)
  PROVE  Accounts!AccountsInv'
  <1>1. /\ row \in [People -> UserRow] /\ crossed \in BOOLEAN
        /\ crossed \/ \E v \in People : Accounts!Active(v)
        /\ \A d \in dropping : d[1] # d[2]
    BY AccountsParts
  <1>2. /\ row' = [row EXCEPT ![u].role = "CREATOR"] /\ Accounts!Choose(u, "CREATOR")
        /\ crossed' = (crossed \/ row[u].role = "ADMIN") /\ dropping' = dropping
    BY DEF Accounts!becomeCreator
  <1>3. "CREATOR" \in Accounts!AllRoles
    BY DEF Accounts!AllRoles
  <1>4. row' \in [People -> UserRow] /\ row'[u].role = "CREATOR"
        /\ \A v \in People \ {u} : row'[v] = row[v]
    BY <1>1, <1>2, <1>3 DEF UserRow
  <1>5. crossed' \in BOOLEAN /\ (crossed' \/ \E v \in People : Accounts!Active(v)')
    <2>1. ASSUME NEW v \in People, Accounts!Active(v), row[u].role # "ADMIN"
          PROVE  Accounts!Active(v)'
      BY <1>4, <2>1 DEF Accounts!Active
    <2>2. QED
      BY <1>1, <1>2, <2>1
  <1>6. QED
    BY <1>1, <1>2, <1>3, <1>4, <1>5, RoleChosen, AccountsThen

\* Every step of the accounts keeps the invariant.
LEMMA AccountsStep ==
  ASSUME Accounts!AccountsInv, Accounts!Next \/ UNCHANGED accountVars
  PROVE  Accounts!AccountsInv'
  <1>0. /\ \A d \in dropping : d[1] # d[2]
        /\ Roles \subseteq Accounts!AllRoles
    BY AccountsParts DEF Accounts!AllRoles
  <1>1. CASE UNCHANGED accountVars
    BY <1>0, <1>1, AccountsQuiet DEF accountVars
  <1>2. ASSUME NEW u \in People,
               Accounts!login(u) \/ Accounts!googleAuthCallback(u) \/ Accounts!Expire(u) \/ Accounts!ReadRole(u)
        PROVE  Accounts!AccountsInv'
    BY <1>0, <1>2, AccountsQuiet
       DEF Accounts!login, Accounts!googleAuthCallback, Accounts!Expire, Accounts!ReadRole,
           Accounts!Enter, Accounts!pages, Accounts!choices
  <1>3. ASSUME NEW u \in People, NEW v \in People, Accounts!CountOwned(u, v)
        PROVE  Accounts!AccountsInv'
    BY <1>0, <1>3, AccountsQuiet DEF Accounts!CountOwned, Accounts!pages, Accounts!choices
  <1>4. ASSUME NEW u \in People, NEW v \in People, NEW r \in Roles, Accounts!updateUserRole(u, v, r)
        PROVE  Accounts!AccountsInv'
    BY <1>0, <1>4, RoleListKeeps DEF Accounts!updateUserRole
  <1>5. QED
    BY <1>1, <1>2, <1>3, <1>4, LoadFresh, FormFresh, UpdateUserKeeps, StaffRoleKeeps,
       SuspensionKeeps, DeletionKeeps, CreatorKeeps DEF Accounts!Next

\* At first the founder is an administrator, and no page shows anything.
LEMMA AccountsAtFirst == Accounts!Init => Accounts!AccountsInv
  <1> SUFFICES ASSUME Accounts!Init PROVE Accounts!AccountsInv
    OBVIOUS
  <1>1. /\ row = [u \in People |-> IF u = Founder THEN [Accounts!Signup EXCEPT !.role = "ADMIN"]
                                   ELSE Accounts!Signup]
        /\ list = [u \in People |-> Accounts!NoList] /\ fields = [u \in People |-> Accounts!NoForm]
        /\ dropping = {} /\ crossed = FALSE /\ chosen = [u \in People |-> row[u].role]
    BY DEF Accounts!Init
  <1>2. /\ Accounts!Signup \in UserRow /\ Accounts!Signup.there /\ ~Accounts!Signup.off
        /\ "ADMIN" \in Accounts!AllRoles
    BY DEF Accounts!Signup, UserRow, Accounts!AllRoles, Accounts!Staff
  <1>3. row \in [People -> UserRow] /\ row[Founder].role = "ADMIN" /\ row[Founder].there
        /\ ~row[Founder].off
    BY <1>1, <1>2, FounderAssumption DEF UserRow
  <1>4. list \in [People -> UserList] /\ fields \in [People -> UserForm]
    BY <1>1, FounderAssumption DEF UserList, UserForm, Accounts!NoList, Accounts!NoForm, Accounts!AllRoles
  <1>5. chosen \in [People -> Accounts!AllRoles] /\ RolesChosen
    BY <1>1, <1>3 DEF UserRow, RolesChosen
  <1>6. PagesFresh
    BY <1>1 DEF PagesFresh
  <1>7. Accounts!Active(Founder)
    BY <1>3 DEF Accounts!Active
  <1>8. QED
    BY <1>1, <1>3, <1>4, <1>5, <1>6, <1>7, AccountsParts, FounderAssumption

(***************************************************************************)
(* The workflow builder                                                    *)
(***************************************************************************)

FlowRow == [there : BOOLEAN, steps : Int, of : Int]
FlowForm == [at : Int, steps : Int, of : Int, shown : BOOLEAN, crossed : BOOLEAN, pending : BOOLEAN]
FlowCall == [pc : {"idle", "sent", "answered"}, for : Builder!Kinds, flow : Int,
             kept : [steps : Int, of : Int], empty : BOOLEAN, here : BOOLEAN]

\* What the invariant says of the form, and of a call.
FormOwn(x) ==
  /\ x.at = -1 => ~x.crossed
  /\ x.at \notin {-1, 0} /\ x.shown /\ ~x.crossed => Builder!Own(x.at, x.of)

LoadFits(x) ==
  x.pc # "idle" /\ x.for = "load" =>
      /\ x.flow \in Flows
      /\ form.crossed \/ x.flow = form.at

CallOwn(x) ==
  /\ x.pc = "answered" /\ x.for = "load" /\ ~x.empty => Builder!Own(x.flow, x.kept.of)
  /\ x.pc = "sent" /\ x.for = "update" => Builder!Own(x.flow, x.kept.of)
  /\ x.pc = "answered" /\ x.for = "create" => x.flow \in Flows

LEMMA BuilderParts ==
  Builder!BuilderInv <=>
      /\ flow \in [Flows -> FlowRow] /\ form \in FlowForm /\ call \in [Requests -> FlowCall]
      /\ \A f \in Flows : flow[f].there => Builder!Own(f, flow[f].of)
      /\ FormOwn(form)
      /\ \A c \in Requests : LoadFits(call[c]) /\ CallOwn(call[c])
  BY DEF Builder!BuilderInv, Builder!TypeOK, Builder!StepsAreItsOwn, Builder!LoadsMatch, Builder!At,
         Builder!Own, FlowRow, FlowForm, FlowCall, FormOwn, LoadFits, CallOwn

\* The parts after a step that saves blindly at most.
LEMMA BuilderThen ==
  ASSUME Builder!BuilderInv, blind \subseteq blind',
         flow' \in [Flows -> FlowRow], form' \in FlowForm, call' \in [Requests -> FlowCall],
         \A f \in Flows : flow'[f].there => flow'[f].of = f \/ f \in blind',
         form'.at = -1 => ~form'.crossed,
         form'.at \notin {-1, 0} /\ form'.shown /\ ~form'.crossed => form'.of = form'.at \/ form'.at \in blind',
         \A c \in Requests :
             /\ call'[c].pc # "idle" /\ call'[c].for = "load" =>
                    /\ call'[c].flow \in Flows
                    /\ form'.crossed \/ call'[c].flow = form'.at
             /\ \/ call'[c] = call[c]
                \/ /\ call'[c].pc = "answered" /\ call'[c].for = "load" /\ ~call'[c].empty =>
                          call'[c].kept.of = call'[c].flow \/ call'[c].flow \in blind'
                   /\ call'[c].pc = "sent" /\ call'[c].for = "update" =>
                          call'[c].kept.of = call'[c].flow \/ call'[c].flow \in blind'
                   /\ call'[c].pc = "answered" /\ call'[c].for = "create" => call'[c].flow \in Flows
  PROVE  Builder!BuilderInv'
  <1>1. \A c \in Requests : CallOwn(call[c])
    BY BuilderParts
  <1>2. ASSUME NEW c \in Requests
        PROVE  /\ call'[c].pc = "answered" /\ call'[c].for = "load" /\ ~call'[c].empty =>
                      call'[c].kept.of = call'[c].flow \/ call'[c].flow \in blind'
               /\ call'[c].pc = "sent" /\ call'[c].for = "update" =>
                      call'[c].kept.of = call'[c].flow \/ call'[c].flow \in blind'
               /\ call'[c].pc = "answered" /\ call'[c].for = "create" => call'[c].flow \in Flows
    <2>1. CASE call'[c] = call[c]
      BY <1>1, <2>1 DEF CallOwn, Builder!Own
    <2>2. QED
      BY <2>1
  <1>3. QED
    BY <1>2 DEF Builder!BuilderInv, Builder!TypeOK, Builder!StepsAreItsOwn, Builder!LoadsMatch,
                Builder!At, Builder!Own, FlowRow, FlowForm, FlowCall

\* A call sent, and one that is over.
SentCall(for, f, steps, of) ==
  [Builder!NoCall EXCEPT !.pc = "sent", !.for = for, !.flow = f, !.kept = [steps |-> steps, of |-> of]]

LEMMA CallsAre ==
  /\ Builder!NoCall \in FlowCall /\ Builder!NoCall.pc = "idle"
  /\ \A for \in Builder!Kinds, f \in Int, steps \in Int, of \in Int :
         /\ SentCall(for, f, steps, of) \in FlowCall
         /\ SentCall(for, f, steps, of).pc = "sent" /\ SentCall(for, f, steps, of).for = for
         /\ SentCall(for, f, steps, of).flow = f /\ SentCall(for, f, steps, of).kept.of = of
  <1>1. Builder!NoCall \in FlowCall /\ Builder!NoCall.pc = "idle"
    BY DEF Builder!NoCall, Builder!Default, FlowCall, Builder!Kinds
  <1>2. ASSUME NEW for \in Builder!Kinds, NEW f \in Int, NEW steps \in Int, NEW of \in Int
        PROVE  /\ SentCall(for, f, steps, of) \in FlowCall
               /\ SentCall(for, f, steps, of).pc = "sent" /\ SentCall(for, f, steps, of).for = for
               /\ SentCall(for, f, steps, of).flow = f /\ SentCall(for, f, steps, of).kept.of = of
    <2> DEFINE kept == [steps |-> steps, of |-> of]
    <2>1. kept \in [steps : Int, of : Int] /\ kept.of = of
      OBVIOUS
    <2>2. SentCall(for, f, steps, of) = [Builder!NoCall EXCEPT !.pc = "sent", !.for = for, !.flow = f, !.kept = kept]
      BY DEF SentCall
    <2> HIDE DEF kept
    <2>3. QED
      BY <1>1, <2>1, <2>2 DEF FlowCall
  <1>3. QED
    BY <1>1, <1>2

\* A builder that is not there.
LEMMA ClosedIs ==
  /\ Builder!Closed \in FlowForm /\ Builder!Closed.at = -1 /\ ~Builder!Closed.shown
  /\ ~Builder!Closed.crossed
  BY DEF Builder!Closed, FlowForm

\* What a page that is left has asked for.
LEMMA LeftAre ==
  ASSUME call \in [Requests -> FlowCall]
  PROVE  /\ Builder!Left \in [Requests -> FlowCall]
         /\ \A c \in Requests :
                /\ Builder!Left[c].pc # "idle" => Builder!Left[c].for # "load"
                /\ \/ Builder!Left[c] = Builder!NoCall
                   \/ /\ Builder!Left[c].pc = call[c].pc /\ Builder!Left[c].for = call[c].for
                      /\ Builder!Left[c].flow = call[c].flow /\ Builder!Left[c].kept = call[c].kept
  <1>1. ASSUME NEW c \in Requests
        PROVE  /\ Builder!Left[c] \in FlowCall
               /\ Builder!Left[c].pc # "idle" => Builder!Left[c].for # "load"
               /\ \/ Builder!Left[c] = Builder!NoCall
                  \/ /\ Builder!Left[c].pc = call[c].pc /\ Builder!Left[c].for = call[c].for
                     /\ Builder!Left[c].flow = call[c].flow /\ Builder!Left[c].kept = call[c].kept
    <2> DEFINE here == call[c] = Builder!NoCall
    <2>1. Builder!Left[c] = IF call[c].for = "load" THEN Builder!NoCall ELSE [call[c] EXCEPT !.here = here]
      BY DEF Builder!Left
    <2>2. here \in BOOLEAN
      OBVIOUS
    <2> HIDE DEF here
    <2>3. QED
      BY <2>1, <2>2, CallsAre DEF FlowCall
  <1>2. QED
    BY <1>1 DEF Builder!Left

\* Asking puts a call in its place.
LEMMA Asked ==
  ASSUME NEW calls \in [Requests -> FlowCall], NEW c \in Requests, NEW for \in Builder!Kinds,
         NEW f \in Int, NEW steps \in Int, NEW of \in Int, Builder!Ask(calls, c, for, f, steps, of)
  PROVE  /\ call' \in [Requests -> FlowCall] /\ call'[c] = SentCall(for, f, steps, of)
         /\ \A d \in Requests \ {c} : call'[d] = calls[d]
  <1>1. call' = [calls EXCEPT ![c] = SentCall(for, f, steps, of)]
    BY DEF Builder!Ask, SentCall
  <1>2. QED
    BY <1>1, CallsAre

\* A page opens on a workflow, and closes.
LEMMA OpenOwn ==
  ASSUME Builder!BuilderInv, NEW c \in Requests, NEW f \in Flows, Builder!Open(c, f)
  PROVE  Builder!BuilderInv'
  <1>1. /\ flow \in [Flows -> FlowRow] /\ form \in FlowForm /\ call \in [Requests -> FlowCall]
        /\ \A g \in Flows : flow[g].there => Builder!Own(g, flow[g].of)
        /\ FormOwn(form) /\ \A d \in Requests : LoadFits(call[d])
    BY BuilderParts
  <1>2. /\ form.at = -1 /\ flow' = flow /\ blind' = blind
        /\ form' = [Builder!Closed EXCEPT !.at = f, !.steps = 1]
        /\ Builder!Ask(call, c, "load", f, 1, 0)
    BY DEF Builder!Open, Builder!Load, Builder!Default
  <1>3. f \in Int /\ f > 0 /\ "load" \in Builder!Kinds /\ 1 \in Int /\ 0 \in Int
    BY FlowsAssumption DEF Builder!Kinds
  <1>4. /\ form' \in FlowForm /\ form'.at = f /\ ~form'.shown /\ ~form'.crossed
    BY <1>2, <1>3, ClosedIs DEF FlowForm
  <1>5. /\ call' \in [Requests -> FlowCall] /\ call'[c] = SentCall("load", f, 1, 0)
        /\ \A d \in Requests \ {c} : call'[d] = call[d]
    BY <1>1, <1>2, <1>3, Asked
  <1>6. /\ call'[c].pc = "sent" /\ call'[c].for = "load" /\ call'[c].flow = f
    BY <1>3, <1>5, CallsAre
  <1>7. \A d \in Requests : call[d].pc # "idle" => call[d].for # "load"
    BY <1>1, <1>2, FlowsAssumption DEF LoadFits, FormOwn, FlowForm
  <1>8. QED
    BY <1>1, <1>2, <1>3, <1>4, <1>5, <1>6, <1>7, BuilderThen DEF Builder!Own

LEMMA CloseOwn ==
  ASSUME Builder!BuilderInv, Builder!Close
  PROVE  Builder!BuilderInv'
  <1>1. /\ flow \in [Flows -> FlowRow] /\ form \in FlowForm /\ call \in [Requests -> FlowCall]
        /\ \A g \in Flows : flow[g].there => Builder!Own(g, flow[g].of)
        /\ \A d \in Requests : CallOwn(call[d])
    BY BuilderParts
  <1>2. flow' = flow /\ blind' = blind /\ form' = Builder!Closed /\ call' = Builder!Left
    BY DEF Builder!Close
  <1>3. form' \in FlowForm /\ form'.at = -1 /\ ~form'.crossed
    BY <1>2 DEF FlowForm, Builder!Closed
  <1>4. /\ call' \in [Requests -> FlowCall]
        /\ \A d \in Requests :
               /\ call'[d].pc # "idle" => call'[d].for # "load"
               /\ \/ call'[d].pc = "idle"
                  \/ /\ call'[d].pc = call[d].pc /\ call'[d].for = call[d].for
                     /\ call'[d].flow = call[d].flow /\ call'[d].kept = call[d].kept
    BY <1>1, <1>2, LeftAre, CallsAre
  <1>5. \A d \in Requests :
            /\ call'[d].pc = "sent" /\ call'[d].for = "update" =>
                   call'[d].kept.of = call'[d].flow \/ call'[d].flow \in blind'
            /\ call'[d].pc = "answered" /\ call'[d].for = "create" => call'[d].flow \in Flows
    BY <1>1, <1>2, <1>4 DEF CallOwn, Builder!Own
  <1>6. QED
    BY <1>1, <1>2, <1>3, <1>4, <1>5, BuilderThen DEF Builder!Own

\* The form's steps are edited.
LEMMA EditsOwn ==
  ASSUME Builder!BuilderInv,
         Builder!OpenNew \/ Builder!addStep \/ Builder!removeStep
  PROVE  Builder!BuilderInv'
  <1>1. /\ flow \in [Flows -> FlowRow] /\ form \in FlowForm /\ call \in [Requests -> FlowCall]
        /\ \A g \in Flows : flow[g].there => Builder!Own(g, flow[g].of)
        /\ FormOwn(form) /\ \A d \in Requests : LoadFits(call[d])
    BY BuilderParts
  <1>2. flow' = flow /\ blind' = blind /\ call' = call
    BY DEF Builder!OpenNew, Builder!addStep, Builder!removeStep
  <1>3. CASE Builder!OpenNew
    <2>1. form.at = -1 /\ form' = [Builder!Closed EXCEPT !.at = 0, !.steps = 1]
      BY <1>3 DEF Builder!OpenNew, Builder!Default
    <2>2. form' \in FlowForm /\ form'.at = 0 /\ ~form'.shown /\ ~form'.crossed
      <3>1. 0 \in Int /\ 1 \in Int
        OBVIOUS
      <3>2. QED
        BY <2>1, <3>1, ClosedIs DEF FlowForm
    <2>3. \A d \in Requests : call[d].pc # "idle" => call[d].for # "load"
      BY <1>1, <2>1, FlowsAssumption DEF LoadFits, FormOwn, FlowForm
    <2>4. QED
      BY <1>1, <1>2, <2>2, <2>3, BuilderThen DEF Builder!Own
  <1>4. CASE Builder!addStep \/ Builder!removeStep
    <2>1. PICK n \in {form.steps + 1, form.steps - 1} : form' = [form EXCEPT !.steps = n]
      BY <1>4 DEF Builder!addStep, Builder!removeStep
    <2>2. n \in Int
      BY <1>1, <2>1 DEF FlowForm
    <2>3. /\ form' \in FlowForm /\ form'.at = form.at /\ form'.shown = form.shown
          /\ form'.crossed = form.crossed /\ form'.of = form.of
      BY <1>1, <2>1, <2>2 DEF FlowForm
    <2>4. QED
      BY <1>1, <1>2, <2>3, BuilderThen DEF Builder!Own, FormOwn, LoadFits
  <1>5. QED
    BY <1>3, <1>4

\* A form is asked to be saved, or a workflow to be run.
LEMMA SaveOwn ==
  ASSUME Builder!BuilderInv, NEW c \in Requests, Builder!save(c)
  PROVE  Builder!BuilderInv'
  <1> DEFINE for == IF form.at = 0 THEN "create" ELSE "update"
  <1>1. /\ flow \in [Flows -> FlowRow] /\ form \in FlowForm /\ call \in [Requests -> FlowCall]
        /\ \A g \in Flows : flow[g].there => Builder!Own(g, flow[g].of)
        /\ FormOwn(form) /\ \A d \in Requests : LoadFits(call[d])
    BY BuilderParts
  <1>2. /\ form.at # -1 /\ flow' = flow /\ form' = [form EXCEPT !.pending = TRUE]
        /\ Builder!Ask(call, c, for, form.at, form.steps, form.of)
        /\ blind \subseteq blind'
        /\ form.at # 0 /\ (~form.shown \/ form.crossed) => form.at \in blind'
    BY DEF Builder!save
  <1>3. for \in Builder!Kinds /\ form.at \in Int /\ form.steps \in Int /\ form.of \in Int
    BY <1>1 DEF Builder!Kinds, FlowForm
  <1>4. for = "create" \/ (for = "update" /\ form.at # 0)
    OBVIOUS
  <1> HIDE DEF for
  <1>5. /\ call' \in [Requests -> FlowCall] /\ call'[c] = SentCall(for, form.at, form.steps, form.of)
        /\ \A d \in Requests \ {c} : call'[d] = call[d]
    BY <1>1, <1>2, <1>3, Asked
  <1>6. /\ call'[c].pc = "sent" /\ call'[c].for = for /\ call'[c].flow = form.at
        /\ call'[c].kept.of = form.of
    BY <1>3, <1>5, CallsAre
  <1>7. form.at # 0 => form.of = form.at \/ form.at \in blind'
    BY <1>1, <1>2 DEF FormOwn, Builder!Own
  <1>8. /\ form' \in FlowForm /\ form'.at = form.at /\ form'.shown = form.shown
        /\ form'.crossed = form.crossed /\ form'.of = form.of
    BY <1>1, <1>2 DEF FlowForm
  <1>9. QED
    BY <1>1, <1>2, <1>4, <1>5, <1>6, <1>7, <1>8, BuilderThen DEF Builder!Own, FormOwn, LoadFits

LEMMA RunNowOwn ==
  ASSUME Builder!BuilderInv, NEW c \in Requests, Builder!runNow(c)
  PROVE  Builder!BuilderInv'
  <1>1. /\ flow \in [Flows -> FlowRow] /\ form \in FlowForm /\ call \in [Requests -> FlowCall]
        /\ \A g \in Flows : flow[g].there => Builder!Own(g, flow[g].of)
        /\ FormOwn(form) /\ \A d \in Requests : LoadFits(call[d])
    BY BuilderParts
  <1>2. /\ flow' = flow /\ blind' = blind /\ form' = [form EXCEPT !.pending = TRUE]
        /\ Builder!Ask(call, c, "run", form.at, 1, 0)
    BY DEF Builder!runNow, Builder!Default
  <1>3. "run" \in Builder!Kinds /\ form.at \in Int /\ 1 \in Int /\ 0 \in Int
    BY <1>1 DEF Builder!Kinds, FlowForm
  <1>4. /\ call' \in [Requests -> FlowCall] /\ call'[c] = SentCall("run", form.at, 1, 0)
        /\ \A d \in Requests \ {c} : call'[d] = call[d]
    BY <1>1, <1>2, <1>3, Asked
  <1>5. call'[c].pc = "sent" /\ call'[c].for = "run"
    BY <1>3, <1>4, CallsAre
  <1>6. /\ form' \in FlowForm /\ form'.at = form.at /\ form'.shown = form.shown
        /\ form'.crossed = form.crossed /\ form'.of = form.of
    BY <1>1, <1>2 DEF FlowForm
  <1>7. QED
    BY <1>1, <1>2, <1>4, <1>5, <1>6, BuilderThen DEF Builder!Own, FormOwn, LoadFits

\* The answer to a call: it is over for the server, and carries a workflow.
LEMMA AnswerIs ==
  ASSUME call \in [Requests -> FlowCall], NEW c \in Requests, NEW f \in Int, call[c].for # "load"
  PROVE  /\ Builder!Answer(c, f) \in [Requests -> FlowCall]
         /\ Builder!Answer(c, f)[c].pc = "answered" /\ Builder!Answer(c, f)[c].for = call[c].for
         /\ Builder!Answer(c, f)[c].flow = f
         /\ \A d \in Requests \ {c} : Builder!Answer(c, f)[d] = call[d]
  <1> DEFINE for == call[c].for
             here == call[c].here
             over == [Builder!NoCall EXCEPT !.pc = "answered", !.for = for, !.here = here, !.flow = f]
  <1>1. Builder!Answer(c, f) = [call EXCEPT ![c] = over]
    BY DEF Builder!Answer
  <1>2. for \in Builder!Kinds /\ here \in BOOLEAN /\ "answered" \in {"idle", "sent", "answered"}
    BY DEF FlowCall
  <1> HIDE DEF for, here
  <1>3. over \in FlowCall /\ over.pc = "answered" /\ over.for = for /\ over.flow = f
    BY <1>2, CallsAre DEF FlowCall
  <1> HIDE DEF over
  <1>4. QED
    BY <1>1, <1>3 DEF for

LEMMA CreateOwn ==
  ASSUME Builder!BuilderInv, NEW c \in Requests, Builder!createWorkflow(c)
  PROVE  Builder!BuilderInv'
  <1>1. /\ flow \in [Flows -> FlowRow] /\ form \in FlowForm /\ call \in [Requests -> FlowCall]
        /\ \A g \in Flows : flow[g].there => Builder!Own(g, flow[g].of)
        /\ FormOwn(form) /\ \A d \in Requests : LoadFits(call[d])
    BY BuilderParts
  <1>2. PICK f \in Flows :
            /\ flow' = [flow EXCEPT ![f] = [there |-> TRUE, steps |-> call[c].kept.steps, of |-> f]]
            /\ call' = Builder!Answer(c, f)
    BY DEF Builder!createWorkflow
  <1>3. call[c].for = "create" /\ form' = form /\ blind' = blind
    BY DEF Builder!createWorkflow, Builder!At
  <1>4. f \in Int /\ call[c].kept.steps \in Int
    BY <1>1, FlowsAssumption DEF FlowCall
  <1>5. /\ call' \in [Requests -> FlowCall] /\ call'[c].for = "create" /\ call'[c].flow = f
        /\ call'[c].pc = "answered" /\ \A d \in Requests \ {c} : call'[d] = call[d]
    BY <1>1, <1>2, <1>3, <1>4, AnswerIs
  <1>6. /\ flow' \in [Flows -> FlowRow] /\ flow'[f].of = f
        /\ \A g \in Flows \ {f} : flow'[g] = flow[g]
    BY <1>1, <1>2, <1>4 DEF FlowRow
  <1>7. QED
    BY <1>1, <1>3, <1>5, <1>6, BuilderThen DEF Builder!Own, FormOwn, LoadFits

LEMMA UpdateOwn ==
  ASSUME Builder!BuilderInv, NEW c \in Requests, Builder!updateWorkflow(c)
  PROVE  Builder!BuilderInv'
  <1> DEFINE f == call[c].flow
             steps == call[c].kept.steps
             of == call[c].kept.of
  <1>1. /\ flow \in [Flows -> FlowRow] /\ form \in FlowForm /\ call \in [Requests -> FlowCall]
        /\ \A g \in Flows : flow[g].there => Builder!Own(g, flow[g].of)
        /\ FormOwn(form) /\ \A d \in Requests : LoadFits(call[d]) /\ CallOwn(call[d])
    BY BuilderParts
  <1>2. /\ flow' = [flow EXCEPT ![f] = [@ EXCEPT !.steps = steps, !.of = of]]
        /\ call' = Builder!Answer(c, f) /\ form' = form /\ blind' = blind
        /\ call[c].pc = "sent" /\ call[c].for = "update"
    BY DEF Builder!updateWorkflow, Builder!At
  <1>3. f \in Int /\ steps \in Int /\ of \in Int /\ Builder!Own(f, of)
    BY <1>1, <1>2 DEF FlowCall, CallOwn
  <1>4. /\ call' \in [Requests -> FlowCall] /\ call'[c].for = "update"
        /\ call'[c].pc = "answered" /\ \A d \in Requests \ {c} : call'[d] = call[d]
    BY <1>1, <1>2, <1>3, AnswerIs
  <1> HIDE DEF f, steps, of
  <1>5. /\ flow' \in [Flows -> FlowRow]
        /\ \A g \in Flows : flow'[g] = flow[g] \/ (g = f /\ flow'[g].of = of)
    BY <1>1, <1>2, <1>3 DEF FlowRow
  <1>6. QED
    BY <1>1, <1>2, <1>3, <1>4, <1>5, BuilderThen DEF Builder!Own, FormOwn, LoadFits

\* A load is answered with the row's steps, or keeps the form's own when there are none.
LEMMA GetOwn ==
  ASSUME Builder!BuilderInv, NEW c \in Requests, Builder!getWorkflow(c)
  PROVE  Builder!BuilderInv'
  <1> DEFINE was == flow[call[c].flow]
             empty == was.steps = 0
             kept == IF empty THEN call[c].kept ELSE [steps |-> was.steps, of |-> was.of]
  <1>1. /\ flow \in [Flows -> FlowRow] /\ form \in FlowForm /\ call \in [Requests -> FlowCall]
        /\ \A g \in Flows : flow[g].there => Builder!Own(g, flow[g].of)
        /\ FormOwn(form) /\ \A d \in Requests : LoadFits(call[d]) /\ CallOwn(call[d])
    BY BuilderParts
  <1>2. /\ call[c].pc = "sent" /\ call[c].for = "load" /\ was.there
        /\ call' = [call EXCEPT ![c].pc = "answered", ![c].kept = kept, ![c].empty = empty]
        /\ flow' = flow /\ form' = form /\ blind' = blind
    BY DEF Builder!getWorkflow, Builder!At
  <1>3. call[c].flow \in Flows
    BY <1>1, <1>2 DEF LoadFits
  <1>4. empty \in BOOLEAN /\ kept \in [steps : Int, of : Int]
        /\ (~empty => Builder!Own(call[c].flow, kept.of))
    BY <1>1, <1>2, <1>3 DEF FlowCall, FlowRow
  <1> HIDE DEF was, empty, kept
  <1>5. /\ call' \in [Requests -> FlowCall] /\ call'[c].pc = "answered" /\ call'[c].for = "load"
        /\ call'[c].flow = call[c].flow /\ call'[c].kept = kept /\ call'[c].empty = empty
        /\ \A d \in Requests \ {c} : call'[d] = call[d]
    BY <1>1, <1>2, <1>4 DEF FlowCall
  <1>6. QED
    BY <1>1, <1>2, <1>4, <1>5, BuilderThen DEF Builder!Own, FormOwn, LoadFits

\* Rows come and go beside the builder.
LEMMA RowsOwn ==
  ASSUME Builder!BuilderInv, Builder!install \/ \E f \in Flows : Builder!deleteWorkflow(f)
  PROVE  Builder!BuilderInv'
  <1>1. /\ flow \in [Flows -> FlowRow] /\ form \in FlowForm /\ call \in [Requests -> FlowCall]
        /\ \A g \in Flows : flow[g].there => Builder!Own(g, flow[g].of)
        /\ FormOwn(form) /\ \A d \in Requests : LoadFits(call[d])
    BY BuilderParts
  <1>2. form' = form /\ blind' = blind /\ call' = call
    BY DEF Builder!install, Builder!deleteWorkflow
  <1>3. CASE Builder!install
    <2>1. PICK f \in Flows : flow' = [flow EXCEPT ![f] = [there |-> TRUE, steps |-> MaxSteps, of |-> f]]
      BY <1>3 DEF Builder!install
    <2>2. f \in Int /\ MaxSteps \in Int
      BY FlowsAssumption
    <2>3. /\ flow' \in [Flows -> FlowRow] /\ \A g \in Flows : flow'[g] = flow[g] \/ flow'[g].of = g
      BY <1>1, <2>1, <2>2 DEF FlowRow
    <2>4. QED
      BY <1>1, <1>2, <2>3, BuilderThen DEF Builder!Own, FormOwn, LoadFits
  <1>4. CASE \E f \in Flows : Builder!deleteWorkflow(f)
    <2>1. PICK f \in Flows : flow' = [flow EXCEPT ![f] = [Builder!NoFlow EXCEPT !.of = f]]
      BY <1>4 DEF Builder!deleteWorkflow
    <2>2. Builder!NoFlow \in FlowRow /\ f \in Int
      BY FlowsAssumption DEF Builder!NoFlow, FlowRow
    <2>3. /\ flow' \in [Flows -> FlowRow] /\ \A g \in Flows : flow'[g] = flow[g] \/ flow'[g].of = g
      BY <1>1, <2>1, <2>2 DEF FlowRow
    <2>4. QED
      BY <1>1, <1>2, <2>3, BuilderThen DEF Builder!Own, FormOwn, LoadFits
  <1>5. QED
    BY <1>3, <1>4

\* The builder hears a load.
LEMMA LoadedOwn ==
  ASSUME Builder!BuilderInv, NEW c \in Requests, Builder!Loaded(c)
  PROVE  Builder!BuilderInv'
  <1> DEFINE shown == ~call[c].empty
             steps == call[c].kept.steps
             of == call[c].kept.of
  <1>1. /\ flow \in [Flows -> FlowRow] /\ form \in FlowForm /\ call \in [Requests -> FlowCall]
        /\ \A g \in Flows : flow[g].there => Builder!Own(g, flow[g].of)
        /\ FormOwn(form) /\ \A d \in Requests : LoadFits(call[d]) /\ CallOwn(call[d])
    BY BuilderParts
  <1>2. /\ call[c].pc = "answered" /\ call[c].for = "load"
        /\ form' = [form EXCEPT !.shown = shown, !.steps = steps, !.of = of]
        /\ call' = [call EXCEPT ![c] = Builder!NoCall] /\ flow' = flow /\ blind' = blind
    BY DEF Builder!Loaded
  <1>3. /\ shown \in BOOLEAN /\ steps \in Int /\ of \in Int
        /\ shown /\ ~form.crossed => Builder!Own(form.at, of)
    BY <1>1, <1>2 DEF FlowCall, LoadFits, CallOwn
  <1> HIDE DEF shown, steps, of
  <1>4. /\ form' \in FlowForm /\ form'.at = form.at /\ form'.shown = shown
        /\ form'.crossed = form.crossed /\ form'.of = of
    BY <1>1, <1>2, <1>3 DEF FlowForm
  <1>5. /\ call' \in [Requests -> FlowCall] /\ call'[c].pc = "idle"
        /\ \A d \in Requests \ {c} : call'[d] = call[d]
    BY <1>1, <1>2, CallsAre
  <1>6. QED
    BY <1>1, <1>2, <1>3, <1>4, <1>5, BuilderThen DEF Builder!Own, FormOwn, LoadFits

\* The builder hears that its workflow was made, and loads it.
LEMMA CreatedOwn ==
  ASSUME Builder!BuilderInv, NEW c \in Requests, Builder!Created(c)
  PROVE  Builder!BuilderInv'
  <1> DEFINE f == call[c].flow
             here == call[c].here
             waiting == form.pending /\ ~here
             steps == IF form.at = -1 THEN 1 ELSE form.steps
             of == IF here THEN f ELSE form.of
             mixed == form.crossed \/ \E d \in Requests : ~Builder!Free(d) /\ call[d].for = "load"
             rest == [call EXCEPT ![c] = Builder!NoCall]
  <1>1. /\ flow \in [Flows -> FlowRow] /\ form \in FlowForm /\ call \in [Requests -> FlowCall]
        /\ \A g \in Flows : flow[g].there => Builder!Own(g, flow[g].of)
        /\ \A d \in Requests : LoadFits(call[d]) /\ CallOwn(call[d])
    BY BuilderParts
  <1>2. /\ call[c].pc = "answered" /\ call[c].for = "create"
        /\ form' = [form EXCEPT !.at = f, !.shown = here, !.pending = waiting, !.steps = steps,
                                !.of = of, !.crossed = mixed]
        /\ Builder!Ask(rest, c, "load", f, form'.steps, form'.of)
        /\ flow' = flow /\ blind' = blind
    BY DEF Builder!Created, Builder!Load, Builder!Default
  <1>3. f \in Flows /\ f \in Int /\ f > 0
    BY <1>1, <1>2, FlowsAssumption DEF CallOwn
  <1>4. here \in BOOLEAN /\ waiting \in BOOLEAN /\ mixed \in BOOLEAN
    BY <1>1 DEF FlowCall
  <1>5. steps \in Int /\ of \in Int /\ (here => of = f)
    BY <1>1, <1>3 DEF FlowForm
  <1>6. rest \in [Requests -> FlowCall] /\ \A d \in Requests \ {c} : rest[d] = call[d]
    BY <1>1, CallsAre
  <1>7. \A d \in Requests : call[d].pc # "idle" /\ call[d].for = "load" => mixed
    BY CallsAre DEF Builder!Free
  <1> HIDE DEF f, here, waiting, steps, of, mixed, rest
  <1>8. /\ form' \in FlowForm /\ form'.at = f /\ form'.shown = here /\ form'.crossed = mixed
        /\ form'.of = of /\ form'.steps = steps
    BY <1>1, <1>2, <1>3, <1>4, <1>5 DEF FlowForm
  <1>9. /\ call' \in [Requests -> FlowCall] /\ call'[c] = SentCall("load", f, steps, of)
        /\ \A d \in Requests \ {c} : call'[d] = rest[d]
    <2>1. "load" \in Builder!Kinds /\ Builder!Ask(rest, c, "load", f, steps, of)
      BY <1>2, <1>8 DEF Builder!Kinds
    <2>2. QED
      BY <1>3, <1>5, <1>6, <2>1, Asked
  <1>10. /\ call'[c].pc = "sent" /\ call'[c].for = "load" /\ call'[c].flow = f
    <2>1. "load" \in Builder!Kinds
      BY DEF Builder!Kinds
    <2>2. QED
      BY <1>3, <1>5, <1>9, <2>1, CallsAre
  <1>11. ASSUME NEW d \in Requests, call'[d].pc # "idle", call'[d].for = "load"
         PROVE  call'[d].flow \in Flows /\ (form'.crossed \/ call'[d].flow = form'.at)
    <2>1. CASE d = c
      BY <1>3, <1>8, <1>10, <2>1
    <2>2. CASE d # c
      BY <1>1, <1>6, <1>7, <1>8, <1>9, <1>11, <2>2 DEF LoadFits
    <2>3. QED
      BY <2>1, <2>2
  <1>12. \A d \in Requests : call'[d] = call[d] \/ (call'[d].pc = "sent" /\ call'[d].for = "load")
    BY <1>6, <1>9, <1>10
  <1>13. \A g \in Flows : flow'[g].there => flow'[g].of = g \/ g \in blind'
    BY <1>1, <1>2 DEF Builder!Own
  <1>14. form'.at \notin {-1, 0} /\ form'.shown /\ ~form'.crossed => form'.of = form'.at \/ form'.at \in blind'
    BY <1>5, <1>8
  <1>15. form'.at = -1 => ~form'.crossed
    BY <1>3, <1>8
  <1>16. flow' \in [Flows -> FlowRow] /\ blind \subseteq blind'
    BY <1>1, <1>2
  <1>17. QED
    BY <1>8, <1>9, <1>11, <1>12, <1>13, <1>14, <1>15, <1>16, BuilderThen

\* A call that is over: heard, refused or lost.
LEMMA OverOwn ==
  ASSUME Builder!BuilderInv, NEW c \in Requests,
         Builder!Run(c) \/ Builder!Updated(c) \/ Builder!Lost(c)
  PROVE  Builder!BuilderInv'
  <1> DEFINE heard == form.pending /\ ~call[c].here
             lost == form.pending /\ (call[c].for = "load" \/ ~call[c].here)
  <1>1. /\ flow \in [Flows -> FlowRow] /\ form \in FlowForm /\ call \in [Requests -> FlowCall]
        /\ \A g \in Flows : flow[g].there => Builder!Own(g, flow[g].of)
        /\ FormOwn(form) /\ \A d \in Requests : LoadFits(call[d])
    BY BuilderParts
  <1>2. /\ form' = [form EXCEPT !.pending = heard] \/ form' = [form EXCEPT !.pending = lost]
        /\ call' = [call EXCEPT ![c] = Builder!NoCall] /\ flow' = flow /\ blind' = blind
    BY DEF Builder!Run, Builder!Updated, Builder!Lost
  <1>3. heard \in BOOLEAN /\ lost \in BOOLEAN
    BY <1>1 DEF FlowCall, FlowForm
  <1> HIDE DEF heard, lost
  <1>4. /\ form' \in FlowForm /\ form'.at = form.at /\ form'.shown = form.shown
        /\ form'.crossed = form.crossed /\ form'.of = form.of
    BY <1>1, <1>2, <1>3 DEF FlowForm
  <1>5. /\ call' \in [Requests -> FlowCall] /\ call'[c].pc = "idle"
        /\ \A d \in Requests \ {c} : call'[d] = call[d]
    BY <1>1, <1>2, CallsAre
  <1>6. QED
    BY <1>1, <1>2, <1>4, <1>5, BuilderThen DEF Builder!Own, FormOwn, LoadFits

\* Every step of the builder keeps its invariant.
LEMMA BuilderStep ==
  ASSUME Builder!BuilderInv, [Builder!Next]_(Builder!flowVars)
  PROVE  Builder!BuilderInv'
  <1>1. CASE UNCHANGED Builder!flowVars
    BY <1>1 DEF Builder!flowVars, Builder!BuilderInv, Builder!TypeOK, Builder!StepsAreItsOwn,
                Builder!LoadsMatch, Builder!At, Builder!Own
  <1>2. CASE Builder!Next
    BY <1>2, OpenOwn, CloseOwn, EditsOwn, SaveOwn, RunNowOwn, CreateOwn, UpdateOwn, GetOwn, RowsOwn,
       LoadedOwn, CreatedOwn, OverOwn DEF Builder!Next
  <1>3. QED
    BY <1>1, <1>2

\* At first there are no workflows and no builder.
LEMMA BuilderAtFirst == Builder!Init => Builder!BuilderInv
  <1> SUFFICES ASSUME Builder!Init PROVE Builder!BuilderInv
    OBVIOUS
  <1>1. /\ flow = [f \in Flows |-> Builder!NoFlow] /\ form = Builder!Closed
        /\ call = [c \in Requests |-> Builder!NoCall]
    BY DEF Builder!Init
  <1>2. Builder!NoFlow \in FlowRow /\ ~Builder!NoFlow.there
    BY DEF Builder!NoFlow, FlowRow
  <1>3. QED
    BY <1>1, <1>2, CallsAre, ClosedIs, BuilderParts DEF FormOwn, LoadFits, CallOwn

(***************************************************************************)
(* The clock of the automations                                            *)
(***************************************************************************)

\* What division by the parts of a minute does.
LEMMA Quotients ==
  ASSUME NEW a \in Nat, NEW b \in Nat, NEW p \in Nat \ {0}
  PROVE  /\ a \div p \in Nat
         /\ a <= b => a \div p <= b \div p
         /\ (a + p) \div p = a \div p + 1
  <1>1. /\ a \div p \in Int /\ a % p \in 0..(p - 1) /\ a = p * (a \div p) + (a % p)
        /\ b \div p \in Int /\ b % p \in 0..(p - 1) /\ b = p * (b \div p) + (b % p)
        /\ (a + p) \div p \in Int /\ (a + p) % p \in 0..(p - 1)
        /\ a + p = p * ((a + p) \div p) + ((a + p) % p)
    BY SMTT(30)
  <1>2. ASSUME NEW q \in Int, NEW r \in Int, q < r
        PROVE  p * q + p <= p * r
    BY <1>2, SMTT(30)
  <1> DEFINE x == a \div p
             y == b \div p
             z == (a + p) \div p
             i == p * x
             j == p * y
             k == p * z
  <1>3. /\ x \in Int /\ y \in Int /\ z \in Int /\ i \in Int /\ j \in Int /\ k \in Int
        /\ i <= a /\ a < i + p /\ j <= b /\ b < j + p /\ k <= a + p /\ a < k
    BY <1>1
  <1>4. /\ x < 0 => i + p <= 0
        /\ y < x => j + p <= i
        /\ x + 1 < z => p * (x + 1) + p <= k
        /\ z < x + 1 => k + p <= p * (x + 1)
        /\ p * (x + 1) = i + p
    <2>1. x < 0 => i + p <= p * 0
      BY <1>2, <1>3
    <2>2. y < x => j + p <= i
      BY <1>2, <1>3
    <2>3. x + 1 \in Int
      BY <1>3
    <2>4. (x + 1 < z => p * (x + 1) + p <= k) /\ (z < x + 1 => k + p <= p * (x + 1))
      BY <1>2, <1>3, <2>3
    <2>5. \A n \in Int : p * (n + 1) = p * n + p
      BY SMTT(30)
    <2>6. p * (x + 1) = i + p
      BY <1>3, <2>5
    <2>7. p * 0 = 0
      OBVIOUS
    <2>8. QED
      BY <2>1, <2>2, <2>4, <2>6, <2>7
  <1> HIDE DEF x, y, z, i, j, k
  <1>5. x >= 0 /\ (a <= b => x <= y) /\ z = x + 1
    BY <1>3, <1>4
  <1>6. QED
    BY <1>3, <1>5 DEF x, y, z

\* The minutes follow the clock.
LEMMA MinutesPass ==
  ASSUME NEW a \in Nat, NEW b \in Nat
  PROVE  /\ Sched!Minute(a) \in Nat
         /\ a <= b => Sched!Minute(a) <= Sched!Minute(b)
         /\ Sched!Minute(a + Parts) = Sched!Minute(a) + 1
  <1> DEFINE x == a \div Parts
             y == b \div Parts
             z == (a + Parts) \div Parts
  <1>1. x \in Nat /\ y \in Nat /\ (a <= b => x <= y) /\ z = x + 1
    BY ClockAssumption, Quotients
  <1>2. Sched!Minute(a) = Start + x /\ Sched!Minute(b) = Start + y /\ Sched!Minute(a + Parts) = Start + z
    BY DEF Sched!Minute
  <1> HIDE DEF x, y, z
  <1>3. QED
    BY <1>1, <1>2, ClockAssumption
LEMMA MinutesAreNat == \A m \in Sched!Minutes : m \in Nat
  <1>1. \A time \in 0..MaxTime : time \in Nat
    BY ClockAssumption
  <1>2. QED
    BY <1>1, MinutesPass DEF Sched!Minutes

TickRow == [pc : {"idle", "query", "read", "enqueue"}, began : 0..MaxTime, read : Nat,
            cron : Crons \cup {<<>>}]

\* A tick, as x, may yet fire in minute m; and what its invariant says of it.
Fires(x, m) ==
  \/ x.pc = "enqueue" /\ x.read = m
  \/ x.pc \in {"query", "read"} /\ Sched!Minute(x.began) = m

TickFits(x) ==
  /\ x.pc \in {"read", "enqueue"} => x.cron \in Crons
  /\ x.pc = "enqueue" => x.read \in Sched!Minutes

\* Those of the ticks, as f, that may.
Firers(f, m) == {s \in Requests : Fires(f[s], m)}

\* One more of a minute's jobs, while its tick is not yet due.
Room(d, m) == IF Sched!Minute(d) <= m THEN 0 ELSE 1

\* The instance counts as its module does.
LEMMA SameCount == \A S : Sched!Cardinality(S) = Cardinality(S)
  BY Zenon DEF Sched!Cardinality, Cardinality, Sched!IsFiniteSet, IsFiniteSet

LEMMA ClockParts ==
  Sched!SchedulesInv <=>
      /\ now \in 0..MaxTime /\ due \in Nat /\ due <= now + Parts
      /\ plan.cron \in Crons \cup {<<>>} /\ tick \in [Requests -> TickRow]
      /\ fired \in [Sched!Minutes -> Nat] /\ slid \in [Sched!Minutes -> Nat]
      /\ Sched!SchedulesKeepTime
      /\ \A t \in Requests : TickFits(tick[t])
      /\ \A m \in Sched!Minutes :
             fired[m] + Cardinality(Firers(tick, m)) <= Room(due, m) + slid[m]
  <1>1. \A m : Sched!Firing(m) = Firers(tick, m)
    BY DEF Sched!Firing, Firers, Fires
  <1>2. (\A m \in Sched!Minutes : fired[m] + Cardinality(Sched!Firing(m)) <=
                                     (IF Sched!Minute(due) <= m THEN 0 ELSE 1) + slid[m])
        <=> \A m \in Sched!Minutes : fired[m] + Cardinality(Firers(tick, m)) <= Room(due, m) + slid[m]
    BY <1>1 DEF Room
  <1>3. Sched!TypeOK <=>
            /\ now \in 0..MaxTime /\ due \in Nat /\ due <= now + Parts
            /\ plan.cron \in Crons \cup {<<>>} /\ tick \in [Requests -> TickRow]
            /\ fired \in [Sched!Minutes -> Nat] /\ slid \in [Sched!Minutes -> Nat]
    BY Zenon DEF Sched!TypeOK, TickRow
  <1>4. (\A t \in Requests :
             /\ tick[t].pc \in {"read", "enqueue"} => tick[t].cron \in Crons
             /\ tick[t].pc = "enqueue" => tick[t].read \in Sched!Minutes)
        <=> \A t \in Requests : TickFits(tick[t])
    BY Zenon DEF TickFits
  <1>5. QED
    BY <1>2, <1>3, <1>4, SameCount, Zenon DEF Sched!SchedulesInv

\* A minute fires within its bound: the ticks that may yet fire are counted.
LEMMA RoomIsOne ==
  ASSUME NEW d \in Nat, NEW m \in Sched!Minutes, NEW n \in Nat, NEW k \in Nat, NEW s \in Nat,
         n + k <= Room(d, m) + s
  PROVE  n <= 1 + s
  BY DEF Room

\* The same of the state a step leads to.
LEMMA ClockThen ==
  ASSUME now' \in 0..MaxTime, due' \in Nat, due' <= now' + Parts,
         plan'.cron \in Crons \cup {<<>>}, tick' \in [Requests -> TickRow],
         fired' \in [Sched!Minutes -> Nat], slid' \in [Sched!Minutes -> Nat],
         \A m \in Sched!Minutes : fired'[m] > 0 => \E cron \in Crons : Sched!cronMatches(cron, m),
         \A t \in Requests : TickFits(tick'[t]),
         \A m \in Sched!Minutes :
             /\ fired'[m] <= 1 + slid'[m]
             /\ fired'[m] + Cardinality(Firers(tick', m)) <= Room(due', m) + slid'[m]
  PROVE  Sched!SchedulesInv'
  <1>1. \A m : Sched!Firing(m)' = Firers(tick', m)
    BY DEF Sched!Firing, Firers, Fires
  <1>2. \A m \in Sched!Minutes : fired'[m] + Cardinality(Sched!Firing(m)') <=
                                    (IF Sched!Minute(due') <= m THEN 0 ELSE 1) + slid'[m]
    BY <1>1 DEF Room
  <1>3. Sched!TypeOK'
    BY DEF Sched!TypeOK, TickRow
  <1>4. Sched!SchedulesKeepTime'
    BY DEF Sched!SchedulesKeepTime
  <1>5. \A t \in Requests :
            /\ tick'[t].pc \in {"read", "enqueue"} => tick'[t].cron \in Crons
            /\ tick'[t].pc = "enqueue" => tick'[t].read \in Sched!Minutes
    BY Zenon DEF TickFits
  <1>6. QED
    BY <1>2, <1>3, <1>4, <1>5, SameCount, Zenon DEF Sched!SchedulesInv

\* The ticks that may fire in a minute, when one of the ticks changes.
LEMMA OneTick ==
  ASSUME NEW f \in [Requests -> TickRow], NEW g \in [Requests -> TickRow], NEW t \in Requests, NEW m,
         \A s \in Requests \ {t} : g[s] = f[s]
  PROVE  /\ Cardinality(Firers(f, m)) \in Nat /\ Cardinality(Firers(g, m)) \in Nat
         /\ Cardinality(Firers(g, m)) <= Cardinality(Firers(f, m)) + 1
         /\ Fires(f[t], m) \/ ~Fires(g[t], m) => Cardinality(Firers(g, m)) <= Cardinality(Firers(f, m))
         /\ Fires(f[t], m) /\ ~Fires(g[t], m) => Cardinality(Firers(g, m)) + 1 = Cardinality(Firers(f, m))
  <1> DEFINE F == Firers(f, m)
             G == Firers(g, m)
  <1>1. /\ F \subseteq Requests /\ G \subseteq Requests
        /\ \A s \in Requests \ {t} : s \in F <=> s \in G
        /\ t \in F <=> Fires(f[t], m)
        /\ t \in G <=> Fires(g[t], m)
    BY DEF Firers
  <1> HIDE DEF F, G
  <1>2. IsFiniteSet(F) /\ IsFiniteSet(G)
    BY <1>1, ClockAssumption, FS_Subset
  <1>3. Cardinality(F) \in Nat /\ Cardinality(G) \in Nat
    BY <1>2, FS_CardinalityType
  <1>4. CASE t \in F <=> t \in G
    <2>1. F = G
      BY <1>1, <1>4
    <2>2. QED
      BY <1>1, <1>3, <1>4, <2>1 DEF F, G
  <1>5. CASE t \in F /\ t \notin G
    <2>1. G = F \ {t}
      BY <1>1, <1>5
    <2>2. Cardinality(G) = Cardinality(F) - 1
      BY <1>2, <1>5, <2>1, FS_RemoveElement
    <2>3. QED
      BY <1>1, <1>3, <1>5, <2>2 DEF F, G
  <1>6. CASE t \notin F /\ t \in G
    <2>1. G = F \cup {t}
      BY <1>1, <1>6
    <2>2. Cardinality(G) = Cardinality(F) + 1
      BY <1>2, <1>6, <2>1, FS_AddElement
    <2>3. QED
      BY <1>1, <1>3, <1>6, <2>2 DEF F, G
  <1>7. QED
    BY <1>4, <1>5, <1>6

\* A tick that is not at work.
LEMMA IdleIs == Sched!Idle \in TickRow /\ Sched!Idle.pc = "idle"
  <1>1. 0 \in 0..MaxTime /\ 0 \in Nat /\ <<>> \in Crons \cup {<<>>}
    BY ClockAssumption
  <1>2. QED
    BY <1>1 DEF Sched!Idle, TickRow

\* The timer runs: its minute has room for one, and the next time it is due in a later one.
LEMMA BeginKeeps ==
  ASSUME Sched!SchedulesInv, NEW t \in Requests, Sched!Begin(t)
  PROVE  Sched!SchedulesInv'
  <1>1. /\ now \in 0..MaxTime /\ due \in Nat /\ due <= now + Parts
        /\ plan.cron \in Crons \cup {<<>>} /\ tick \in [Requests -> TickRow]
        /\ fired \in [Sched!Minutes -> Nat] /\ slid \in [Sched!Minutes -> Nat]
        /\ \A s \in Requests : TickFits(tick[s])
        /\ \A m \in Sched!Minutes : fired[m] > 0 => \E cron \in Crons : Sched!cronMatches(cron, m)
        /\ \A m \in Sched!Minutes : fired[m] <= 1 + slid[m]
        /\ \A m \in Sched!Minutes :
               fired[m] + Cardinality(Firers(tick, m)) <= Room(due, m) + slid[m]
    BY ClockParts DEF Sched!SchedulesKeepTime
  <1>2. /\ tick[t] = Sched!Idle /\ now >= due /\ due' = now + Parts
        /\ tick' = [tick EXCEPT ![t] = [Sched!Idle EXCEPT !.pc = "query", !.began = now]]
        /\ now' = now /\ plan' = plan /\ fired' = fired /\ slid' = slid
    BY DEF Sched!Begin
  <1>3. /\ tick' \in [Requests -> TickRow] /\ tick'[t].pc = "query" /\ tick'[t].began = now
        /\ \A s \in Requests \ {t} : tick'[s] = tick[s]
    BY <1>1, <1>2, IdleIs DEF TickRow
  <1>4. Sched!Minute(due) <= Sched!Minute(now) /\ Sched!Minute(due') = Sched!Minute(now) + 1
        /\ Sched!Minute(now) \in Nat /\ Sched!Minute(due) \in Nat /\ due' \in Nat /\ due' <= now' + Parts
    BY <1>1, <1>2, ClockAssumption, MinutesPass
  <1>5. ASSUME NEW m \in Sched!Minutes
        PROVE  fired'[m] + Cardinality(Firers(tick', m)) <= Room(due', m) + slid'[m]
    <2> DEFINE F == Cardinality(Firers(tick, m))
               G == Cardinality(Firers(tick', m))
    <2>1. Fires(tick'[t], m) <=> m = Sched!Minute(now)
      BY <1>3 DEF Fires
    <2>2. F \in Nat /\ G \in Nat /\ G <= F + 1 /\ (m # Sched!Minute(now) => G <= F)
      BY <1>1, <1>3, <2>1, OneTick
    <2>3. Room(due, m) \in Nat /\ Room(due', m) \in Nat /\ Room(due, m) <= Room(due', m)
      BY <1>4, MinutesAreNat DEF Room
    <2>4. m = Sched!Minute(now) => Room(due, m) = 0 /\ Room(due', m) = 1
      BY <1>4 DEF Room
    <2>5. fired[m] + F <= Room(due, m) + slid[m] /\ fired[m] \in Nat /\ slid[m] \in Nat
      BY <1>1
    <2> HIDE DEF F, G
    <2>6. fired[m] + G <= Room(due', m) + slid[m]
      BY <2>2, <2>3, <2>4, <2>5
    <2>7. QED
      BY <1>2, <2>6 DEF G
  <1>6. \A s \in Requests : TickFits(tick'[s])
    BY <1>1, <1>3 DEF TickFits
  <1>7. QED
    BY <1>1, <1>2, <1>3, <1>4, <1>5, <1>6, ClockThen

\* What the invariant says, named for the steps.
LEMMA ClockFacts ==
  ASSUME Sched!SchedulesInv
  PROVE  /\ now \in 0..MaxTime /\ now \in Nat /\ due \in Nat /\ due <= now + Parts
         /\ plan.cron \in Crons \cup {<<>>} /\ tick \in [Requests -> TickRow]
         /\ fired \in [Sched!Minutes -> Nat] /\ slid \in [Sched!Minutes -> Nat]
         /\ \A s \in Requests : TickFits(tick[s])
         /\ \A m \in Sched!Minutes : fired[m] > 0 => \E cron \in Crons : Sched!cronMatches(cron, m)
         /\ \A m \in Sched!Minutes : fired[m] <= 1 + slid[m]
         /\ \A m \in Sched!Minutes :
                /\ m \in Nat /\ Cardinality(Firers(tick, m)) \in Nat
                /\ fired[m] + Cardinality(Firers(tick, m)) <= Room(due, m) + slid[m]
  <1>1. \A m : Cardinality(Firers(tick, m)) \in Nat
    <2> TAKE m
    <2>1. Firers(tick, m) \subseteq Requests
      BY DEF Firers
    <2>2. QED
      BY <2>1, ClockAssumption, FS_Subset, FS_CardinalityType
  <1>2. now \in 0..MaxTime => now \in Nat
    BY ClockAssumption
  <1>3. QED
    BY <1>1, <1>2, ClockParts, MinutesAreNat DEF Sched!SchedulesKeepTime

\* A step that enqueues nothing, and after which no more ticks may fire.
LEMMA ClockQuiet ==
  ASSUME Sched!SchedulesInv,
         now' \in 0..MaxTime, due' \in Nat, due <= due', due' <= now' + Parts,
         plan'.cron \in Crons \cup {<<>>}, tick' \in [Requests -> TickRow],
         fired' = fired, slid' = slid, \A t \in Requests : TickFits(tick'[t]),
         \A m \in Sched!Minutes : /\ Cardinality(Firers(tick', m)) \in Nat
                                  /\ Cardinality(Firers(tick', m)) <= Cardinality(Firers(tick, m))
  PROVE  Sched!SchedulesInv'
  <1>1. ASSUME NEW m \in Sched!Minutes
        PROVE  fired'[m] + Cardinality(Firers(tick', m)) <= Room(due', m) + slid'[m]
    <2>1. Sched!Minute(due) <= Sched!Minute(due') /\ Sched!Minute(due) \in Nat /\ Sched!Minute(due') \in Nat
      BY ClockFacts, MinutesPass
    <2>2. Room(due, m) \in Nat /\ Room(due', m) \in Nat /\ Room(due, m) <= Room(due', m)
      BY <2>1, MinutesAreNat DEF Room
    <2>3. QED
      BY <2>2, ClockFacts
  <1>2. QED
    BY <1>1, ClockFacts, ClockThen

\* Time passes, the workflow is edited, or something happens.
LEMMA QuietKeeps ==
  ASSUME Sched!SchedulesInv,
         \/ Sched!Pass \/ Sched!Edit \/ Sched!fireEvent \/ Sched!inboundFire \/ Sched!importData
  PROVE  Sched!SchedulesInv'
  <1>1. tick' = tick /\ due' = due /\ fired' = fired /\ slid' = slid
    BY DEF Sched!Pass, Sched!Edit, Sched!fireEvent, Sched!inboundFire, Sched!importData, Sched!Trigger
  <1>2. now' \in 0..MaxTime /\ now <= now' /\ now' \in Nat
    BY ClockFacts, ClockAssumption
       DEF Sched!Pass, Sched!Edit, Sched!fireEvent, Sched!inboundFire, Sched!importData, Sched!Trigger
  <1>3. plan'.cron \in Crons \cup {<<>>}
    <2>1. CASE Sched!Edit
      <3>1. PICK trigger \in {"SCHEDULE", "EVENT"}, cron \in Crons :
                plan'.cron = IF trigger = "SCHEDULE" THEN cron ELSE <<>>
        BY <2>1 DEF Sched!Edit
      <3>2. QED
        BY <3>1
    <2>2. CASE ~Sched!Edit
      BY <2>2, ClockFacts DEF Sched!Pass, Sched!fireEvent, Sched!inboundFire, Sched!importData, Sched!Trigger
    <2>3. QED
      BY <2>1, <2>2
  <1>4. due' <= now' + Parts /\ due <= due'
    BY <1>1, <1>2, ClockFacts, ClockAssumption
  <1>5. \A m \in Sched!Minutes : /\ Cardinality(Firers(tick', m)) \in Nat
                                 /\ Cardinality(Firers(tick', m)) <= Cardinality(Firers(tick, m))
    BY <1>1, ClockFacts
  <1>6. QED
    BY <1>1, <1>2, <1>3, <1>4, <1>5, ClockFacts, ClockQuiet

\* The query takes the schedule, or ends the tick.
LEMMA QueryKeeps ==
  ASSUME Sched!SchedulesInv, NEW t \in Requests, Sched!Query(t)
  PROVE  Sched!SchedulesInv'
  <1> DEFINE cron == plan.cron
  <1>1. /\ tick[t].pc = "query" /\ now' = now /\ due' = due /\ plan' = plan /\ fired' = fired /\ slid' = slid
        /\ \/ /\ cron # <<>>
              /\ tick' = [tick EXCEPT ![t] = [@ EXCEPT !.pc = "read", !.cron = cron]]
           \/ tick' = [tick EXCEPT ![t] = Sched!Idle]
    BY DEF Sched!Query, Sched!Scheduled
  <1>2. cron \in Crons \cup {<<>>}
    BY ClockFacts
  <1> HIDE DEF cron
  <1>3. /\ tick' \in [Requests -> TickRow] /\ \A s \in Requests \ {t} : tick'[s] = tick[s]
        /\ \/ tick'[t].pc = "read" /\ tick'[t].began = tick[t].began /\ tick'[t].cron \in Crons
           \/ tick'[t].pc = "idle"
    <2>1. tick \in [Requests -> TickRow] /\ tick[t] \in TickRow
      BY ClockFacts
    <2>2. CASE tick' = [tick EXCEPT ![t] = Sched!Idle]
      BY <2>1, <2>2, IdleIs
    <2>3. CASE cron # <<>> /\ tick' = [tick EXCEPT ![t] = [@ EXCEPT !.pc = "read", !.cron = cron]]
      <3> DEFINE x == [tick[t] EXCEPT !.pc = "read", !.cron = cron]
      <3>1. x \in TickRow /\ x.pc = "read" /\ x.began = tick[t].began /\ x.cron \in Crons
        BY <1>2, <2>1, <2>3 DEF TickRow
      <3>2. tick' = [tick EXCEPT ![t] = x]
        BY <2>3
      <3> HIDE DEF x
      <3>3. QED
        BY <2>1, <3>1, <3>2
    <2>4. QED
      BY <1>1, <2>2, <2>3
  <1>4. \A m \in Sched!Minutes : Fires(tick[t], m) \/ ~Fires(tick'[t], m)
    BY <1>1, <1>3 DEF Fires
  <1>5. \A m \in Sched!Minutes : /\ Cardinality(Firers(tick', m)) \in Nat
                                 /\ Cardinality(Firers(tick', m)) <= Cardinality(Firers(tick, m))
    BY <1>3, <1>4, OneTick, ClockFacts
  <1>6. \A s \in Requests : TickFits(tick'[s])
    BY <1>3, ClockFacts DEF TickFits
  <1>7. QED
    BY <1>1, <1>3, <1>5, <1>6, ClockFacts, ClockQuiet

\* A tick fails.
LEMMA FailKeeps ==
  ASSUME Sched!SchedulesInv, NEW t \in Requests, Sched!Fail(t)
  PROVE  Sched!SchedulesInv'
  <1>1. /\ tick' = [tick EXCEPT ![t] = Sched!Idle]
        /\ now' = now /\ due' = due /\ plan' = plan /\ fired' = fired /\ slid' = slid
    BY DEF Sched!Fail
  <1>2. /\ tick' \in [Requests -> TickRow] /\ tick'[t].pc = "idle"
        /\ \A s \in Requests \ {t} : tick'[s] = tick[s]
    BY <1>1, IdleIs, ClockFacts
  <1>3. \A m \in Sched!Minutes : ~Fires(tick'[t], m)
    BY <1>2 DEF Fires
  <1>4. \A m \in Sched!Minutes : /\ Cardinality(Firers(tick', m)) \in Nat
                                 /\ Cardinality(Firers(tick', m)) <= Cardinality(Firers(tick, m))
    BY <1>2, <1>3, OneTick, ClockFacts
  <1>5. \A s \in Requests : TickFits(tick'[s])
    BY <1>2, ClockFacts DEF TickFits
  <1>6. /\ now' \in 0..MaxTime /\ due' \in Nat /\ due <= due' /\ due' <= now' + Parts
        /\ plan'.cron \in Crons \cup {<<>>}
    BY <1>1, ClockFacts
  <1>7. QED
    BY <1>1, <1>2, <1>4, <1>5, <1>6, ClockQuiet

\* The process starts again, with its ticks lost and the timer set anew.
LEMMA RestartKeeps ==
  ASSUME Sched!SchedulesInv, Sched!Restart
  PROVE  Sched!SchedulesInv'
  <1>1. /\ tick' = [t \in Requests |-> Sched!Idle] /\ due' = now + Parts
        /\ now' = now /\ plan' = plan /\ fired' = fired /\ slid' = slid
    BY DEF Sched!Restart
  <1>2. tick' \in [Requests -> TickRow] /\ \A t \in Requests : tick'[t].pc = "idle"
    BY <1>1, IdleIs
  <1>3. \A m \in Sched!Minutes : Cardinality(Firers(tick', m)) = 0
    <2> TAKE m \in Sched!Minutes
    <2>1. Firers(tick', m) = {}
      BY <1>2 DEF Firers, Fires
    <2>2. QED
      BY <2>1, FS_EmptySet
  <1>4. \A m \in Sched!Minutes : /\ Cardinality(Firers(tick', m)) \in Nat
                                 /\ Cardinality(Firers(tick', m)) <= Cardinality(Firers(tick, m))
    BY <1>3, ClockFacts
  <1>5. \A t \in Requests : TickFits(tick'[t])
    BY <1>2 DEF TickFits
  <1>6. due' \in Nat /\ due <= due' /\ due' <= now' + Parts
    BY <1>1, ClockFacts, ClockAssumption
  <1>7. QED
    BY <1>1, <1>2, <1>4, <1>5, <1>6, ClockFacts, ClockQuiet

\* A tick reads the clock: it moves to a later minute only as one that slid into it.
LEMMA ReadKeeps ==
  ASSUME Sched!SchedulesInv, NEW t \in Requests, Sched!ReadClock(t)
  PROVE  Sched!SchedulesInv'
  <1> DEFINE here == Sched!Minute(now)
             came == Sched!Minute(tick[t].began)
  <1>1. /\ tick[t].pc = "read" /\ now' = now /\ due' = due /\ plan' = plan /\ fired' = fired
        /\ tick' = [tick EXCEPT ![t].pc = "enqueue", ![t].read = here]
        /\ here = came => slid' = slid
        /\ here # came => slid' = [slid EXCEPT ![here] = @ + 1]
    BY DEF Sched!ReadClock
  <1>2. here \in Sched!Minutes /\ here \in Nat
    BY ClockFacts, MinutesPass DEF Sched!Minutes
  <1>3. \A m : Fires(tick[t], m) <=> came = m
    BY <1>1 DEF Fires
  <1> HIDE DEF here, came
  <1>4. /\ tick' \in [Requests -> TickRow] /\ \A s \in Requests \ {t} : tick'[s] = tick[s]
        /\ tick'[t].pc = "enqueue" /\ tick'[t].read = here /\ tick'[t].cron = tick[t].cron
    BY <1>1, <1>2, ClockFacts DEF TickRow
  <1>5. \A m : Fires(tick'[t], m) <=> here = m
    BY <1>4 DEF Fires
  <1>6. /\ slid' \in [Sched!Minutes -> Nat]
        /\ \A m \in Sched!Minutes :
               slid'[m] \in Nat /\ slid'[m] = IF m = here /\ here # came THEN slid[m] + 1 ELSE slid[m]
    <2>1. CASE here = came
      BY <1>1, <2>1, ClockFacts
    <2>2. CASE here # came
      <3>1. slid' = [slid EXCEPT ![here] = slid[here] + 1] /\ slid[here] + 1 \in Nat
        BY <1>1, <1>2, <2>2, ClockFacts
      <3>2. QED
        BY <1>2, <2>2, <3>1, ClockFacts
    <2>3. QED
      BY <2>1, <2>2
  <1>7. ASSUME NEW m \in Sched!Minutes
        PROVE  /\ fired'[m] <= 1 + slid'[m]
               /\ fired'[m] + Cardinality(Firers(tick', m)) <= Room(due', m) + slid'[m]
    <2> DEFINE F == Cardinality(Firers(tick, m))
               G == Cardinality(Firers(tick', m))
    <2>1. /\ F \in Nat /\ G \in Nat /\ G <= F + 1
          /\ (came = m \/ here # m => G <= F)
      BY <1>3, <1>4, <1>5, OneTick, ClockFacts
    <2>2. /\ fired[m] \in Nat /\ slid[m] \in Nat /\ slid'[m] \in Nat /\ Room(due, m) \in Nat
          /\ fired[m] + F <= Room(due, m) + slid[m] /\ fired[m] <= 1 + slid[m]
      BY <1>6, ClockFacts DEF Room
    <2> HIDE DEF F, G
    <2>3. (G <= F /\ slid'[m] = slid[m]) \/ (G <= F + 1 /\ slid'[m] = slid[m] + 1)
      <3>1. CASE m = here /\ here # came
        BY <1>6, <2>1, <3>1
      <3>2. CASE m # here \/ here = came
        BY <1>6, <2>1, <3>2
      <3>3. QED
        BY <3>1, <3>2
    <2>4. fired[m] + G <= Room(due, m) + slid'[m] /\ fired[m] <= 1 + slid'[m]
      BY <2>1, <2>2, <2>3
    <2>5. QED
      BY <1>1, <2>4 DEF G
  <1>8. \A s \in Requests : TickFits(tick'[s])
    BY <1>1, <1>2, <1>4, ClockFacts DEF TickFits
  <1>9. /\ now' \in 0..MaxTime /\ due' \in Nat /\ due' <= now' + Parts
        /\ plan'.cron \in Crons \cup {<<>>} /\ fired' \in [Sched!Minutes -> Nat]
        /\ \A m \in Sched!Minutes : fired'[m] > 0 => \E cron \in Crons : Sched!cronMatches(cron, m)
    BY <1>1, ClockFacts
  <1>10. QED
    BY <1>4, <1>6, <1>7, <1>8, <1>9, ClockThen

\* A tick enqueues in the minute it has read, if its expression is for it.
LEMMA EnqueueKeeps ==
  ASSUME Sched!SchedulesInv, NEW t \in Requests, Sched!Enqueue(t)
  PROVE  Sched!SchedulesInv'
  <1> DEFINE here == tick[t].read
  <1>1. /\ tick[t].pc = "enqueue" /\ now' = now /\ due' = due /\ plan' = plan /\ slid' = slid
        /\ tick' = [tick EXCEPT ![t] = Sched!Idle]
        /\ \/ fired' = fired
           \/ fired' = [fired EXCEPT ![here] = @ + 1] /\ Sched!cronMatches(tick[t].cron, here)
    BY DEF Sched!Enqueue
  <1>2. here \in Sched!Minutes /\ tick[t].cron \in Crons
    BY <1>1, ClockFacts DEF TickFits
  <1>3. \A m : Fires(tick[t], m) <=> here = m
    BY <1>1 DEF Fires
  <1> HIDE DEF here
  <1>4. /\ tick' \in [Requests -> TickRow] /\ \A s \in Requests \ {t} : tick'[s] = tick[s]
        /\ tick'[t].pc = "idle"
    BY <1>1, IdleIs, ClockFacts
  <1>5. \A m : ~Fires(tick'[t], m)
    BY <1>4 DEF Fires
  <1>6. /\ fired' \in [Sched!Minutes -> Nat]
        /\ \A m \in Sched!Minutes :
               \/ fired'[m] = fired[m]
               \/ m = here /\ fired'[m] = fired[m] + 1 /\ Sched!cronMatches(tick[t].cron, m)
    <2>1. CASE fired' = fired
      BY <2>1, ClockFacts
    <2>2. CASE fired' = [fired EXCEPT ![here] = @ + 1] /\ Sched!cronMatches(tick[t].cron, here)
      <3>1. fired' = [fired EXCEPT ![here] = fired[here] + 1] /\ fired[here] + 1 \in Nat
        BY <1>2, <2>2, ClockFacts
      <3>2. QED
        BY <1>2, <2>2, <3>1, ClockFacts
    <2>3. QED
      BY <1>1, <2>1, <2>2
  <1>7. ASSUME NEW m \in Sched!Minutes
        PROVE  /\ fired'[m] <= 1 + slid'[m]
               /\ fired'[m] + Cardinality(Firers(tick', m)) <= Room(due', m) + slid'[m]
    <2> DEFINE F == Cardinality(Firers(tick, m))
               G == Cardinality(Firers(tick', m))
               r == Room(due, m)
    <2>1. F \in Nat /\ G \in Nat /\ G <= F /\ (here = m => G + 1 = F)
      BY <1>3, <1>4, <1>5, OneTick, ClockFacts
    <2>2. /\ fired[m] \in Nat /\ slid[m] \in Nat /\ r \in {0, 1}
          /\ fired[m] + F <= r + slid[m] /\ fired[m] <= 1 + slid[m]
      BY ClockFacts DEF Room
    <2>3. due' = due /\ slid'[m] = slid[m] /\ fired'[m] \in Nat
      BY <1>1, <1>6
    <2> HIDE DEF F, G, r
    <2>4. fired'[m] = fired[m] \/ (here = m /\ fired'[m] = fired[m] + 1)
      BY <1>6
    <2>5. fired'[m] + G <= r + slid[m] /\ fired'[m] <= 1 + slid[m]
      BY <2>1, <2>2, <2>3, <2>4
    <2>6. QED
      BY <2>3, <2>5 DEF G, r
  <1>8. \A s \in Requests : TickFits(tick'[s])
    BY <1>4, ClockFacts DEF TickFits
  <1>9. /\ now' \in 0..MaxTime /\ due' \in Nat /\ due' <= now' + Parts
        /\ plan'.cron \in Crons \cup {<<>>} /\ slid' \in [Sched!Minutes -> Nat]
    BY <1>1, ClockFacts
  <1>10. \A m \in Sched!Minutes : fired'[m] > 0 => \E cron \in Crons : Sched!cronMatches(cron, m)
    BY <1>2, <1>6, ClockFacts
  <1>11. QED
    BY <1>4, <1>6, <1>7, <1>8, <1>9, <1>10, ClockThen

\* Every step of the clock keeps its invariant.
LEMMA ClockStep ==
  ASSUME Sched!SchedulesInv, [Sched!Next]_(Sched!schedVars)
  PROVE  Sched!SchedulesInv'
  <1>1. CASE UNCHANGED Sched!schedVars
    BY <1>1, ClockFacts, ClockQuiet DEF Sched!schedVars
  <1>2. CASE Sched!Next
    BY <1>2, QuietKeeps, QueryKeeps, FailKeeps, RestartKeeps, ReadKeeps, EnqueueKeeps, BeginKeeps
       DEF Sched!Next
  <1>3. QED
    BY <1>1, <1>2

\* At first nothing is enqueued and the timer is due in a minute.
LEMMA ClockAtFirst == Sched!Init => Sched!SchedulesInv
  <1> SUFFICES ASSUME Sched!Init PROVE Sched!SchedulesInv
    OBVIOUS
  <1>1. /\ now = 0 /\ due = Parts /\ plan.cron = <<>> /\ tick = [t \in Requests |-> Sched!Idle]
        /\ fired = [m \in Sched!Minutes |-> 0] /\ slid = [m \in Sched!Minutes |-> 0]
    BY DEF Sched!Init
  <1>2. tick \in [Requests -> TickRow] /\ \A t \in Requests : tick[t].pc = "idle"
    BY <1>1, IdleIs
  <1>3. ASSUME NEW m \in Sched!Minutes
        PROVE  fired[m] + Cardinality(Firers(tick, m)) <= Room(due, m) + slid[m]
    <2>1. Firers(tick, m) = {}
      BY <1>2 DEF Firers, Fires
    <2>2. Cardinality(Firers(tick, m)) = 0
      BY <2>1, FS_EmptySet
    <2>3. QED
      BY <1>1, <2>2 DEF Room
  <1>4. now \in 0..MaxTime /\ due \in Nat /\ due <= now + Parts
    BY <1>1, ClockAssumption
  <1>5. Sched!SchedulesKeepTime
    BY <1>1 DEF Sched!SchedulesKeepTime
  <1>6. \A t \in Requests : TickFits(tick[t])
    BY <1>2 DEF TickFits
  <1>7. QED
    BY <1>1, <1>2, <1>3, <1>4, <1>5, <1>6, ClockParts

(***************************************************************************)
(* The theorems                                                            *)
(***************************************************************************)

BackOfficeInv == Sched!SchedulesInv /\ Builder!BuilderInv /\ Accounts!AccountsInv

\* The parts keep their invariants beside each other.
LEMMA BackOfficeKeeps == AllSpec => []BackOfficeInv
  <1>1. AllInit => BackOfficeInv
    BY ClockAtFirst, BuilderAtFirst, AccountsAtFirst DEF AllInit, BackOfficeInv
  <1>2. BackOfficeInv /\ [AllNext]_allVars => BackOfficeInv'
    <2> SUFFICES ASSUME BackOfficeInv, [AllNext]_allVars PROVE BackOfficeInv'
      OBVIOUS
    <2>1. [Sched!Next]_(Sched!schedVars) /\ [Builder!Next]_(Builder!flowVars)
          /\ (Accounts!Next \/ UNCHANGED accountVars)
      BY DEF AllNext, allVars, schedVars, flowVars, accountVars, Sched!schedVars, Builder!flowVars,
             Accounts!accountVars
    <2>2. QED
      BY <2>1, ClockStep, BuilderStep, AccountsStep DEF BackOfficeInv
  <1>3. QED
    BY <1>1, <1>2, PTL DEF AllSpec

\* A schedule fires in a minute once more at most than ticks of earlier minutes slid into
\* it, and only in a minute one of its expressions is for: tickSchedules, cronMatches.
THEOREM SchedulesAlwaysKeepTime == AllSpec => []SchedulesKeepTime
  <1>1. BackOfficeInv => SchedulesKeepTime
    BY DEF BackOfficeInv, SchedulesKeepTime, Sched!SchedulesInv
  <1>2. QED
    BY <1>1, BackOfficeKeeps, PTL

\* A saved workflow has its own steps, unless its form was saved before it had shown
\* them: WorkflowBuilderPage and updateWorkflow.
THEOREM StepsAreAlwaysItsOwn == AllSpec => []StepsAreItsOwn
  <1>1. BackOfficeInv => StepsAreItsOwn
    BY DEF BackOfficeInv, StepsAreItsOwn, Builder!BuilderInv
  <1>2. QED
    BY <1>1, BackOfficeKeeps, PTL

\* An administrator remains, and each role is the one that was chosen for its user:
\* updateUser, becomeCreator and the pages that send what they have read.
THEOREM AdministrationAlwaysHolds == AllSpec => []AdministrationHolds
  <1>1. BackOfficeInv => AdministrationHolds
    BY DEF BackOfficeInv, AdministrationHolds, Accounts!AccountsInv
  <1>2. QED
    BY <1>1, BackOfficeKeeps, PTL

USE OrdersAssumption, ModeAssumption, NoPaymentAssumption

(***************************************************************************)
(* Which steps write which part of the state                               *)
(***************************************************************************)

\* The payments table changes by seven statements only.
LEMMA RowSteps ==
  ASSUME Next
  PROVE  \/ UNCHANGED rows
         \/ \E r \in Requests :
               \/ CreatePayment(r) \/ RecordCharge(r) \/ RefuseCharge(r)
               \/ DebitWallet(r) \/ VerifyDecline(r) \/ VerifyComplete(r)
               \/ RefundWrite(r)
  BY DEF Next, Serve, Customer, Crash, AddToCart, RemoveFromCart, PayerApproves,
         PayerDeclines, Checkout, Settle, Fulfil, Refund,
         StartCheckout, CreateConflict, ChargeOk, ChargeFail, ReadWallet,
         VerifyRead, SimulatedVerify, VerifyAsk, VerifyError, VerifyCounter,
         FulfilRead, FulfilCredit, FulfilGrant, FulfilClearCart, FulfilEnrol,
         FulfilEnrolError, RefundRead

\* The wallet and its ledger change in two transactions.
LEMMA PurseSteps ==
  ASSUME Next
  PROVE  \/ UNCHANGED purse
         \/ \E r \in Requests : DebitWallet(r) \/ FulfilCredit(r)
  BY DEF Next, Serve, Customer, Crash, AddToCart, RemoveFromCart, PayerApproves,
         PayerDeclines, Checkout, Settle, Fulfil, Refund,
         StartCheckout, CreatePayment, CreateConflict, ChargeOk, ChargeFail,
         RecordCharge, RefuseCharge, ReadWallet, VerifyRead, SimulatedVerify,
         VerifyAsk, VerifyError, VerifyDecline, VerifyCounter, VerifyComplete,
         FulfilRead, FulfilGrant, FulfilClearCart, FulfilEnrol,
         FulfilEnrolError, RefundRead, RefundWrite

\* Downloads and enrolments are inserted by the fulfilment alone.
LEMMA GrantSteps ==
  ASSUME Next
  PROVE  \/ downloads' = downloads /\ enrolled' = enrolled
         \/ \E r \in Requests : FulfilGrant(r) \/ FulfilEnrol(r)
  <1> USE DEF goods
  <1>1. ASSUME NEW r \in Requests, Checkout(r)
        PROVE  UNCHANGED goods
    BY <1>1 DEF Checkout, StartCheckout, CreatePayment,
         CreateConflict, ChargeOk, ChargeFail, RecordCharge, RefuseCharge,
         ReadWallet, DebitWallet
  <1>2. ASSUME NEW r \in Requests, Settle(r)
        PROVE  UNCHANGED goods
    BY <1>2 DEF Settle, VerifyRead, SimulatedVerify, VerifyAsk, VerifyError,
         VerifyDecline, VerifyCounter, VerifyComplete
  <1>3. ASSUME NEW r \in Requests, Refund(r)
        PROVE  UNCHANGED goods
    BY <1>3 DEF Refund, RefundRead, RefundWrite
  <1>4. ASSUME NEW r \in Requests, Fulfil(r), ~FulfilGrant(r), ~FulfilEnrol(r)
        PROVE  downloads' = downloads /\ enrolled' = enrolled
    BY <1>4 DEF Fulfil, FulfilRead, FulfilCredit, FulfilClearCart, FulfilEnrolError
  <1>5. CASE Customer
    BY <1>5 DEF Customer, AddToCart, RemoveFromCart, PayerApproves, PayerDeclines
  <1>6. CASE Crash
    BY <1>6 DEF Crash
  <1>7. QED
    BY <1>1, <1>2, <1>3, <1>4, <1>5, <1>6 DEF Next, Serve

(***************************************************************************)
(* Facts about the data                                                    *)
(***************************************************************************)

\* The local variables a request starts with are of the right types.
LEMMA NewJobType ==
  /\ \A p \in PaymentIds \cup {NoPayment}, o \in Orders \cup {NoOrder},
        v \in Providers, e \in {"NONE", "COMPLETED", "FAILED"} :
       NewJob(p, o, v, e) \in Job
  /\ NoJob \in Job
  BY DEF NewJob, NoJob, Job, Providers, LiveProviders

\* A ledger row that a transaction appends keeps the ledger a sequence of rows.
LEMMA LedgerAppend ==
  ASSUME NEW s \in Seq(LedgerRow), NEW line \in LedgerRow
  PROVE  /\ Append(s, line) \in Seq(LedgerRow)
         /\ Len(Append(s, line)) = Len(s) + 1
         /\ \A n \in 1..Len(s) : Append(s, line)[n] = s[n]
         /\ Append(s, line)[Len(s) + 1] = line
         /\ Len(s) \in Nat
         /\ Append(s, line) # <<>>
  BY AppendProperties

\* What a step of a request does to pc and job stays within their types.
LEMMA LocalTypes ==
  ASSUME pc \in [Requests -> Labels], job \in [Requests -> Job], NEW r \in Requests
  PROVE  /\ Finish(r) => pc' \in [Requests -> Labels] /\ job' \in [Requests -> Job]
         /\ \A l \in Labels :
               Goto(r, l) => pc' \in [Requests -> Labels] /\ job' \in [Requests -> Job]
         /\ \A l \in Labels, j \in Job :
               Begin(r, l, j) => pc' \in [Requests -> Labels] /\ job' \in [Requests -> Job]
  BY NewJobType DEF Finish, Goto, Begin, Labels

\* The local variables of a request that a step overwrites, field by field.
LEMMA JobUpdates ==
  ASSUME NEW j \in Job
  PROVE  /\ \A p \in PaymentIds, v \in Providers :
              LET k == [j EXCEPT !.pay = p, !.provider = v] IN
              k \in Job /\ k.pay = p /\ k.order = j.order
         /\ \A v \in Providers :
              LET k == [j EXCEPT !.provider = v] IN
              k \in Job /\ k.pay = j.pay /\ k.order = j.order
         /\ \A n \in Int :
              LET k == [j EXCEPT !.avail = n] IN
              k \in Job /\ k.avail = n /\ k.order = j.order
         /\ \A p \in PaymentIds :
              LET k == [j EXCEPT !.pay = p] IN
              k \in Job /\ k.pay = p
         /\ \A t \in SUBSET Items :
              LET k == [j EXCEPT !.todo = t] IN
              k \in Job /\ k.pay = j.pay /\ k.order = j.order /\ k.todo = t
         /\ \A t \in SUBSET Items, o \in Orders :
              LET k == [j EXCEPT !.todo = t, !.order = o] IN
              k \in Job /\ k.pay = j.pay /\ k.order = o /\ k.todo = t
  BY DEF Job

(***************************************************************************)
(* Type correctness                                                        *)
(***************************************************************************)

\* A step of a checkout leaves its own local variables well typed, and those
\* of the other requests alone.
LEMMA CheckoutLocal ==
  ASSUME IInv, NEW r \in Requests, Checkout(r)
  PROVE  pc' \in [Requests -> Labels] /\ job' \in [Requests -> Job]
  <1> USE DEF IInv, TypeOK
  <1>0. job[r] \in Job
    OBVIOUS
  <1>1. ASSUME NEW o \in Orders, StartCheckout(r, o)
        PROVE  pc' \in [Requests -> Labels] /\ job' \in [Requests -> Job]
    <2>1. NewJob(NoPayment, o, "BANFFPAY", "NONE") \in Job
      BY NewJobType DEF Providers, LiveProviders
    <2>2. QED
      BY <1>1, <2>1, LocalTypes DEF StartCheckout, local, Labels
  <1>2. CASE CreatePayment(r)
    <2>1. PICK p \in PaymentIds :
            job' = [job EXCEPT ![r] = [@ EXCEPT !.pay = p,
                      !.provider = FirstProvider(job[r].order)]]
      BY <1>2 DEF CreatePayment, Fresh
    <2>2. FirstProvider(job[r].order) \in Providers
      BY DEF FirstProvider, Providers, LiveProviders
    <2>3. [job[r] EXCEPT !.pay = p, !.provider = FirstProvider(job[r].order)] \in Job
      BY <1>0, <2>2, JobUpdates
    <2>4. job' \in [Requests -> Job]
      BY <2>1, <2>3
    <2>5. pc' \in [Requests -> Labels]
      BY <1>2 DEF CreatePayment, Labels
    <2>6. QED
      BY <2>4, <2>5
  <1>3. CASE ChargeFail(r)
    <2>1. Other(job[r].provider) \in Providers
      BY DEF Other, Providers, LiveProviders
    <2>2. [job[r] EXCEPT !.provider = Other(job[r].provider)] \in Job
      BY <1>0, <2>1, JobUpdates
    <2>3. [job EXCEPT ![r].provider = Other(@)] \in [Requests -> Job]
      BY <2>2
    <2>4. pc' = [pc EXCEPT ![r] = "fallback"] \/ pc' = [pc EXCEPT ![r] = "refuse"]
      BY <1>3 DEF ChargeFail, Goto
    <2>5. job' = job \/ job' = [job EXCEPT ![r].provider = Other(@)]
      BY <1>3 DEF ChargeFail, Goto
    <2>6. QED
      BY <2>3, <2>4, <2>5 DEF Labels
  <1>4. CASE ReadWallet(r)
    <2>0. job[r].order \in Orders
      BY <1>4 DEF ReadWallet, Knows, CheckoutKnows, BeforeRow
    <2>1. wallet[job[r].order.user] \in Int
      BY <2>0
    <2>2. [job[r] EXCEPT !.avail = wallet[job[r].order.user]] \in Job
      BY <1>0, <2>1 DEF Job
    <2>3. [job EXCEPT ![r].avail = wallet[job[r].order.user]] \in [Requests -> Job]
      BY <2>2
    <2>4. QED
      BY <1>4, <2>3, LocalTypes DEF ReadWallet, Labels
  <1>5. CASE DebitWallet(r)
    <2>1. PICK p \in PaymentIds : job' = [job EXCEPT ![r].pay = p]
      BY <1>5 DEF DebitWallet, Fresh
    <2>2. [job[r] EXCEPT !.pay = p] \in Job
      BY <1>0, JobUpdates
    <2>3. QED
      BY <1>5, <2>1, <2>2 DEF DebitWallet, Labels
  <1>6. CASE CreateConflict(r) \/ ChargeOk(r) \/ RecordCharge(r) \/ RefuseCharge(r)
    BY <1>6, LocalTypes DEF CreateConflict, ChargeOk, RecordCharge, RefuseCharge,
       Labels
  <1>7. QED
    BY <1>1, <1>2, <1>3, <1>4, <1>5, <1>6 DEF Checkout

\* The same of a settlement.
LEMMA SettleLocal ==
  ASSUME IInv, NEW r \in Requests, Settle(r)
  PROVE  pc' \in [Requests -> Labels] /\ job' \in [Requests -> Job]
  <1> USE DEF IInv, TypeOK
  <1>1. ASSUME NEW p \in PaymentIds, NEW e \in Expectations, VerifyRead(r, p, e)
        PROVE  pc' \in [Requests -> Labels] /\ job' \in [Requests -> Job]
    <2>1. NewJob(p, NoOrder, AskedProvider(p), e) \in Job
      BY NewJobType DEF Providers, LiveProviders, AskedProvider, Expectations
    <2>2. QED
      BY <1>1, <2>1, LocalTypes DEF VerifyRead, Labels
  <1>2. ASSUME NEW p \in PaymentIds, SimulatedVerify(r, p)
        PROVE  pc' \in [Requests -> Labels] /\ job' \in [Requests -> Job]
    <2>1. NewJob(p, NoOrder, "SANDBOX", "NONE") \in Job
      BY NewJobType DEF Providers, LiveProviders
    <2>2. QED
      BY <1>2, <2>1, LocalTypes DEF SimulatedVerify, Labels, local
  <1>3. ASSUME NEW s, AfterAnswer(r, s)
        PROVE  pc' \in [Requests -> Labels] /\ job' \in [Requests -> Job]
    BY <1>3, LocalTypes DEF AfterAnswer, Labels
  <1>4. CASE VerifyAsk(r)
    BY <1>3, <1>4 DEF VerifyAsk
  <1>5. CASE VerifyError(r) \/ VerifyDecline(r) \/ VerifyCounter(r) \/ VerifyComplete(r)
    BY <1>5, LocalTypes DEF VerifyError, VerifyDecline, VerifyCounter,
       VerifyComplete, Labels
  <1>6. QED
    BY <1>1, <1>2, <1>4, <1>5 DEF Settle

\* The same of a fulfilment.
LEMMA FulfilLocal ==
  ASSUME IInv, NEW r \in Requests, Fulfil(r)
  PROVE  pc' \in [Requests -> Labels] /\ job' \in [Requests -> Job]
  <1> USE DEF IInv, TypeOK
  <1>0. job[r] \in Job
    OBVIOUS
  <1>1. ASSUME NEW t \in SUBSET Items
        PROVE  [job EXCEPT ![r].todo = t] \in [Requests -> Job]
    <2>1. [job[r] EXCEPT !.todo = t] \in Job
      BY <1>0, JobUpdates
    <2>2. QED
      BY <2>1
  <1>2. job[r].todo \in SUBSET Items
    BY <1>0 DEF Job
  <1>3. CASE FulfilRead(r)
    <2> DEFINE o == order[job[r].pay]
    <2>0. job[r].pay \in PaymentIds /\ status[job[r].pay] # "NONE"
      BY <1>3 DEF FulfilRead, Knows, HasRow, BeforeRow
    <2>1. o \in Orders /\ o.items \in SUBSET Items
      BY <2>0 DEF RowsMatch
    <2>2. [job[r] EXCEPT !.todo = o.items, !.order = o] \in Job
      BY <1>0, <2>1 DEF Job
    <2>3. [job EXCEPT ![r] = [@ EXCEPT !.todo = o.items, !.order = o]]
            \in [Requests -> Job]
      BY <2>2
    <2>4. Branch[o.purpose] \in Labels
      BY <2>1 DEF Branch, Labels, Purposes
    <2>5. QED
      BY <1>3, <2>3, <2>4, LocalTypes DEF FulfilRead
  <1>4. CASE FulfilGrant(r)
    <2>1. PICK i \in job[r].todo :
            /\ job' = [job EXCEPT ![r].todo = @ \ {i}]
            /\ pc' = [pc EXCEPT ![r] = IF job[r].todo = {i} THEN "clear" ELSE @]
      BY <1>4 DEF FulfilGrant
    <2>2. job[r].todo \ {i} \in SUBSET Items
      BY <1>2
    <2>3. QED
      BY <1>1, <2>1, <2>2 DEF Labels
  <1>5. CASE FulfilEnrol(r)
    <2>1. PICK i \in job[r].todo :
            IF job[r].todo = {i} THEN Finish(r)
            ELSE job' = [job EXCEPT ![r].todo = @ \ {i}] /\ UNCHANGED pc
      BY <1>5 DEF FulfilEnrol
    <2>2. job[r].todo \ {i} \in SUBSET Items
      BY <1>2
    <2>3. QED
      BY <1>1, <2>1, <2>2, LocalTypes
  <1>6. CASE FulfilCredit(r) \/ FulfilClearCart(r) \/ FulfilEnrolError(r)
    BY <1>6, LocalTypes DEF FulfilCredit, FulfilClearCart, FulfilEnrolError
  <1>7. QED
    BY <1>3, <1>4, <1>5, <1>6 DEF Fulfil

\* Every step keeps the program counters and local variables well typed.
LEMMA LocalTypeOK ==
  ASSUME IInv, Next
  PROVE  pc' \in [Requests -> Labels] /\ job' \in [Requests -> Job]
  <1> USE DEF IInv, TypeOK
  <1>1. ASSUME NEW r \in Requests, Refund(r)
        PROVE  pc' \in [Requests -> Labels] /\ job' \in [Requests -> Job]
    <2>1. ASSUME NEW p \in PaymentIds, RefundRead(r, p)
          PROVE  pc' \in [Requests -> Labels] /\ job' \in [Requests -> Job]
      <3>1. NewJob(p, NoOrder, "BANFFPAY", "NONE") \in Job
        BY NewJobType DEF Providers, LiveProviders
      <3>2. QED
        BY <2>1, <3>1, LocalTypes DEF RefundRead, Labels
    <2>2. QED
      BY <1>1, <2>1, LocalTypes DEF Refund, RefundWrite
  <1>2. CASE Customer
    BY <1>2 DEF Customer, AddToCart, RemoveFromCart, PayerApproves,
       PayerDeclines, local
  <1>3. CASE Crash
    BY <1>3, NewJobType DEF Crash, Labels
  <1>4. QED
    BY <1>1, <1>2, <1>3, CheckoutLocal, SettleLocal, FulfilLocal DEF Next, Serve

\* What the invariant says of a request at work: the row and the order it has.
LEMMA AtWork ==
  ASSUME IInv, NEW r \in Requests
  PROVE  /\ pc[r] \notin BeforeRow \cup {"idle"} =>
              /\ job[r].pay \in PaymentIds
              /\ status[job[r].pay] # "NONE"
              /\ order[job[r].pay] \in Orders
         /\ pc[r] \in BeforeRow \cup Charging \cup Fulfilling =>
              job[r].order \in Orders
  <1> USE DEF IInv, TypeOK
  <1>1. pc[r] \notin BeforeRow \cup {"idle"} =>
          job[r].pay \in PaymentIds /\ status[job[r].pay] # "NONE"
    BY DEF Knows, HasRow
  <1>2. \A p \in PaymentIds : status[p] # "NONE" => order[p] \in Orders
    BY DEF RowsMatch
  <1>3. pc[r] \in BeforeRow => job[r].order \in Orders
    BY DEF Knows, CheckoutKnows
  <1>4. pc[r] \in Charging \cup Fulfilling => job[r].order = order[job[r].pay]
    BY DEF Knows, CheckoutKnows, FulfilmentKnows
  <1>5. pc[r] \in Charging \cup Fulfilling => pc[r] \notin BeforeRow \cup {"idle"}
    BY DEF BeforeRow, Charging, Fulfilling
  <1>6. QED
    BY <1>1, <1>2, <1>3, <1>4, <1>5

\* Every step keeps the payments table well typed.
LEMMA RowsTypeOK ==
  ASSUME IInv, Next
  PROVE  /\ status' \in [PaymentIds -> Statuses \cup {"NONE"}]
         /\ order' \in [PaymentIds -> Orders \cup {NoOrder}]
         /\ provider' \in [PaymentIds -> Providers]
         /\ verified' \in [PaymentIds -> BOOLEAN]
  <1> USE DEF IInv, TypeOK, Statuses
  <1>1. CASE UNCHANGED rows
    BY <1>1 DEF rows
  <1>2. ASSUME NEW r \in Requests, CreatePayment(r)
        PROVE  /\ status' \in [PaymentIds -> Statuses \cup {"NONE"}]
               /\ order' \in [PaymentIds -> Orders \cup {NoOrder}]
               /\ UNCHANGED <<provider, verified>>
    <2>1. job[r].order \in Orders
      BY <1>2, AtWork DEF CreatePayment, BeforeRow
    <2>2. QED
      BY <1>2, <2>1 DEF CreatePayment
  <1>3. ASSUME NEW r \in Requests, RecordCharge(r)
        PROVE  /\ provider' \in [PaymentIds -> Providers]
               /\ UNCHANGED <<status, order, verified>>
    <2>1. job[r].provider \in Providers
      BY DEF Job
    <2>2. QED
      BY <1>3, <2>1 DEF RecordCharge
  <1>4. ASSUME NEW r \in Requests, DebitWallet(r)
        PROVE  /\ status' \in [PaymentIds -> Statuses \cup {"NONE"}]
               /\ order' \in [PaymentIds -> Orders \cup {NoOrder}]
               /\ verified' \in [PaymentIds -> BOOLEAN]
               /\ UNCHANGED provider
    <2>1. job[r].order \in Orders
      BY <1>4, AtWork DEF DebitWallet, BeforeRow
    <2>2. QED
      BY <1>4, <2>1 DEF DebitWallet
  <1>5. ASSUME NEW r \in Requests,
               RefuseCharge(r) \/ VerifyDecline(r) \/ RefundWrite(r)
        PROVE  /\ status' \in [PaymentIds -> Statuses \cup {"NONE"}]
               /\ UNCHANGED <<order, provider, verified>>
    BY <1>5 DEF RefuseCharge, VerifyDecline, RefundWrite
  <1>6. ASSUME NEW r \in Requests, VerifyComplete(r)
        PROVE  /\ status' \in [PaymentIds -> Statuses \cup {"NONE"}]
               /\ verified' \in [PaymentIds -> BOOLEAN]
               /\ UNCHANGED <<order, provider>>
    BY <1>6 DEF VerifyComplete
  <1>7. QED
    BY <1>1, <1>2, <1>3, <1>4, <1>5, <1>6, RowSteps

\* A ledger row for a row of the payments table is well typed.
LEMMA EntryType ==
  ASSUME NEW p \in PaymentIds, NEW reason \in {"purchase", "topup"},
         NEW delta \in Int, NEW after \in Int
  PROVE  /\ Entry(p, reason, delta, after) \in LedgerRow
         /\ Entry(p, reason, delta, after).pay = p
         /\ Entry(p, reason, delta, after).reason = reason
         /\ Entry(p, reason, delta, after).delta = delta
         /\ Entry(p, reason, delta, after).after = after
  BY DEF Entry, LedgerRow

\* Every step keeps the wallets and their ledgers well typed.
LEMMA PurseTypeOK ==
  ASSUME IInv, Next
  PROVE  wallet' \in [Users -> Int] /\ ledger' \in [Users -> Seq(LedgerRow)]
  <1> USE DEF IInv, TypeOK
  <1>1. CASE UNCHANGED purse
    BY <1>1 DEF purse
  <1>2. ASSUME NEW r \in Requests, DebitWallet(r)
        PROVE  wallet' \in [Users -> Int] /\ ledger' \in [Users -> Seq(LedgerRow)]
    <2> DEFINE o == job[r].order
               next == job[r].avail - o.amount
    <2>1. o \in Orders /\ o.user \in Users /\ o.amount \in Nat
      BY <1>2, AtWork DEF DebitWallet, BeforeRow
    <2>2. next \in Int /\ -o.amount \in Int
      BY <2>1 DEF Job
    <2>3. PICK p \in PaymentIds :
            /\ wallet' = [wallet EXCEPT ![o.user] = next]
            /\ ledger' = [ledger EXCEPT ![o.user] =
                             Append(@, Entry(p, "purchase", -o.amount, next))]
      BY <1>2 DEF DebitWallet, Fresh
    <2>4. Entry(p, "purchase", -o.amount, next) \in LedgerRow
      BY <2>2, EntryType
    <2> HIDE DEF next, o
    <2>5. Append(ledger[o.user], Entry(p, "purchase", -o.amount, next)) \in Seq(LedgerRow)
      BY <2>1, <2>4, LedgerAppend
    <2>6. QED
      BY <2>1, <2>2, <2>3, <2>5
  <1>3. ASSUME NEW r \in Requests, FulfilCredit(r)
        PROVE  wallet' \in [Users -> Int] /\ ledger' \in [Users -> Seq(LedgerRow)]
    <2> DEFINE o == job[r].order
               sum == wallet[o.user] + o.amount
               p == job[r].pay
    <2>1. o \in Orders /\ o.user \in Users /\ o.amount \in Nat
      BY <1>3, AtWork DEF FulfilCredit, Fulfilling
    <2>a. wallet[o.user] \in Int
      BY <2>1
    <2>b. p \in PaymentIds
      BY <1>3, AtWork DEF FulfilCredit, BeforeRow
    <2>2. sum \in Int /\ p \in PaymentIds
      BY <2>1, <2>a, <2>b
    <2>3. /\ wallet' = [wallet EXCEPT ![o.user] = sum]
          /\ ledger' = [ledger EXCEPT ![o.user] =
                           Append(@, Entry(p, "topup", o.amount, sum))]
      BY <1>3 DEF FulfilCredit
    <2>4. Entry(p, "topup", o.amount, sum) \in LedgerRow
      BY <2>1, <2>2, EntryType
    <2> HIDE DEF sum, o, p
    <2>5. Append(ledger[o.user], Entry(p, "topup", o.amount, sum)) \in Seq(LedgerRow)
      BY <2>1, <2>4, LedgerAppend
    <2>6. QED
      BY <2>1, <2>2, <2>3, <2>5
  <1>4. QED
    BY <1>1, <1>2, <1>3, PurseSteps

\* Every step keeps downloads and enrolments well typed.
LEMMA GrantsTypeOK ==
  ASSUME IInv, Next
  PROVE  /\ downloads' \in SUBSET (Users \X Items \X PaymentIds)
         /\ enrolled' \in SUBSET (Users \X Items)
  <1> USE DEF IInv, TypeOK
  <1>1. ASSUME NEW r \in Requests, FulfilGrant(r)
        PROVE  /\ downloads' \in SUBSET (Users \X Items \X PaymentIds)
               /\ enrolled' = enrolled
    <2>1. PICK i \in job[r].todo :
            downloads' = downloads \cup {<<job[r].order.user, i, job[r].pay>>}
      BY <1>1 DEF FulfilGrant
    <2>2. job[r].order \in Orders /\ job[r].pay \in PaymentIds
      BY <1>1, AtWork DEF FulfilGrant, Fulfilling, BeforeRow
    <2>3. i \in Items
      BY DEF Job
    <2>4. QED
      BY <1>1, <2>1, <2>2, <2>3 DEF FulfilGrant
  <1>2. ASSUME NEW r \in Requests, FulfilEnrol(r)
        PROVE  /\ enrolled' \in SUBSET (Users \X Items)
               /\ downloads' = downloads
    <2>1. PICK i \in job[r].todo :
            enrolled' = enrolled \cup {<<job[r].order.user, i>>}
      BY <1>2 DEF FulfilEnrol
    <2>2. job[r].order \in Orders
      BY <1>2, AtWork DEF FulfilEnrol, Fulfilling
    <2>3. i \in Items
      BY DEF Job
    <2>4. QED
      BY <1>2, <2>1, <2>2, <2>3 DEF FulfilEnrol
  <1>3. QED
    BY <1>1, <1>2, GrantSteps

\* One provider's entry for one reference is overwritten, the others stay.
LEMMA NestedUpdate ==
  ASSUME NEW A, NEW B, NEW T, NEW f \in [A -> [B -> T]],
         NEW a \in A, NEW b \in B, NEW s \in T
  PROVE  /\ [f EXCEPT ![a][b] = s] \in [A -> [B -> T]]
         /\ \A x \in A, y \in B :
              [f EXCEPT ![a][b] = s][x][y] = IF x = a /\ y = b THEN s ELSE f[x][y]
  OBVIOUS

\* The answer of a charge, of a webhook body or of a payer keeps what the
\* providers know well typed.
LEMMA RemoteTypeOK ==
  ASSUME IInv, Next
  PROVE  remote' \in [Providers -> [PaymentIds -> {"NONE", "PENDING", "COMPLETED", "FAILED"}]]
  <1> DEFINE T == {"NONE", "PENDING", "COMPLETED", "FAILED"}
  <1> USE DEF IInv, TypeOK
  <1>0. ASSUME NEW v \in Providers, NEW p \in PaymentIds, NEW s \in T
        PROVE  [remote EXCEPT ![v][p] = s] \in [Providers -> [PaymentIds -> T]]
    OBVIOUS
  <1>1. ASSUME NEW r \in Requests, Checkout(r)
        PROVE  remote' \in [Providers -> [PaymentIds -> T]]
    <2>1. CASE UNCHANGED remote
      BY <2>1
    <2>2. ASSUME pc[r] \in {"charge", "fallback"}, Opened(job[r].provider, job[r].pay)
          PROVE  remote' \in [Providers -> [PaymentIds -> T]]
      <3>1. job[r].provider \in Providers /\ job[r].pay \in PaymentIds
        BY <2>2, AtWork DEF Job, BeforeRow
      <3>2. QED
        BY <2>2, <3>1 DEF Opened
    <2>3. QED
      BY <1>1, <2>1, <2>2 DEF Checkout, StartCheckout,
         CreatePayment, CreateConflict, ChargeOk, ChargeFail, RecordCharge,
         RefuseCharge, ReadWallet, DebitWallet
  <1>2. ASSUME NEW r \in Requests, Settle(r)
        PROVE  remote' \in [Providers -> [PaymentIds -> T]]
    <2>1. CASE UNCHANGED remote
      BY <2>1
    <2>2. ASSUME NEW p \in PaymentIds, SimulatedVerify(r, p)
          PROVE  remote' \in [Providers -> [PaymentIds -> T]]
      BY <2>2 DEF SimulatedVerify, Providers
    <2>3. ASSUME VerifyAsk(r)
          PROVE  remote' \in [Providers -> [PaymentIds -> T]]
      <3>1. job[r].pay \in PaymentIds
        BY <2>3, AtWork DEF VerifyAsk, BeforeRow
      <3>2. job[r].expected \in T /\ "SANDBOX" \in Providers
        BY DEF Job, Providers
      <3>3. \/ UNCHANGED remote
            \/ remote' = [remote EXCEPT !["SANDBOX"][job[r].pay] = job[r].expected]
        BY <2>3 DEF VerifyAsk
      <3> HIDE DEF T
      <3>4. [remote EXCEPT !["SANDBOX"][job[r].pay] = job[r].expected]
              \in [Providers -> [PaymentIds -> T]]
        BY <1>0, <3>1, <3>2
      <3>5. remote \in [Providers -> [PaymentIds -> T]]
        BY DEF T
      <3>6. QED
        BY <3>3, <3>4, <3>5
    <2>4. QED
      BY <1>2, <2>1, <2>2, <2>3 DEF Settle, VerifyRead, VerifyError,
         VerifyDecline, VerifyCounter, VerifyComplete
  <1>3. ASSUME NEW r \in Requests, Fulfil(r) \/ Refund(r)
        PROVE  UNCHANGED remote
    BY <1>3 DEF Fulfil, Refund, FulfilRead, FulfilCredit, FulfilGrant,
       FulfilClearCart, FulfilEnrol, FulfilEnrolError, RefundRead, RefundWrite
  <1>4. CASE Customer
    <2>1. ASSUME NEW v \in LiveProviders, NEW p \in PaymentIds,
                 PayerApproves(v, p) \/ PayerDeclines(v, p)
          PROVE  remote' \in [Providers -> [PaymentIds -> T]]
      <3>1. v \in Providers /\ {"COMPLETED", "FAILED"} \subseteq T
        BY DEF Providers
      <3>2. \/ remote' = [remote EXCEPT ![v][p] = "COMPLETED"]
            \/ remote' = [remote EXCEPT ![v][p] = "FAILED"]
        BY <2>1 DEF PayerApproves, PayerDeclines
      <3> HIDE DEF T
      <3>3. /\ [remote EXCEPT ![v][p] = "COMPLETED"] \in [Providers -> [PaymentIds -> T]]
            /\ [remote EXCEPT ![v][p] = "FAILED"] \in [Providers -> [PaymentIds -> T]]
        BY <1>0, <3>1
      <3>4. QED
        BY <3>2, <3>3
    <2>2. ASSUME NEW u, NEW i, AddToCart(u, i) \/ RemoveFromCart(u, i)
          PROVE  UNCHANGED remote
      BY <2>2 DEF AddToCart, RemoveFromCart
    <2>3. QED
      BY <1>4, <2>1, <2>2 DEF Customer
  <1>5. CASE Crash
    BY <1>5 DEF Crash, Providers
  <1>6. QED
    BY <1>1, <1>2, <1>3, <1>4, <1>5 DEF Next, Serve

\* Carts hold items of users.
LEMMA CartTypeOK ==
  ASSUME IInv, Next
  PROVE  cart' \in SUBSET (Users \X Items)
  <1> USE DEF IInv, TypeOK
  <1>1. ASSUME NEW r \in Requests, Checkout(r) \/ Settle(r) \/ Refund(r)
        PROVE  UNCHANGED cart
    BY <1>1 DEF Checkout, StartCheckout, CreatePayment, CreateConflict, ChargeOk,
       ChargeFail, RecordCharge, RefuseCharge, ReadWallet, DebitWallet, Settle,
       Refund, VerifyRead, SimulatedVerify, VerifyAsk, VerifyError, VerifyDecline,
       VerifyCounter, VerifyComplete, RefundRead, RefundWrite, goods
  <1>2. ASSUME NEW r \in Requests, Fulfil(r)
        PROVE  cart' \in SUBSET (Users \X Items)
    BY <1>2 DEF Fulfil, FulfilRead, FulfilCredit, FulfilGrant, FulfilClearCart,
       FulfilEnrol, FulfilEnrolError, goods
  <1>3. CASE Customer
    BY <1>3 DEF Customer, AddToCart, RemoveFromCart, PayerApproves,
       PayerDeclines, goods
  <1>4. CASE Crash
    BY <1>4 DEF Crash, goods
  <1>5. QED
    BY <1>1, <1>2, <1>3, <1>4 DEF Next, Serve

\* Type correctness is kept by every step from a state the invariant allows.
LEMMA TypeStep ==
  ASSUME IInv, Next
  PROVE  TypeOK'
  BY LocalTypeOK, RowsTypeOK, PurseTypeOK, GrantsTypeOK, RemoteTypeOK,
     CartTypeOK DEF TypeOK

(***************************************************************************)
(* What no step takes back                                                 *)
(***************************************************************************)

\* A payer's approval stays: nothing in the program writes to a live provider
\* what it holds already.
LEMMA ApprovalsLast ==
  ASSUME IInv, Next, NEW v \in LiveProviders, NEW p \in PaymentIds,
         remote[v][p] = "COMPLETED"
  PROVE  remote'[v][p] = "COMPLETED"
  <1> USE DEF IInv, TypeOK
  <1>0. v \in Providers /\ v # "SANDBOX"
    BY DEF Providers, LiveProviders
  <1>1. ASSUME NEW r \in Requests, Checkout(r)
        PROVE  remote'[v][p] = "COMPLETED"
    <2>1. CASE UNCHANGED remote
      BY <2>1
    <2>2. ASSUME pc[r] \in {"charge", "fallback"}, Opened(job[r].provider, job[r].pay)
          PROVE  remote'[v][p] = "COMPLETED"
      <3>1. job[r].provider \in Providers /\ job[r].pay \in PaymentIds
        BY <2>2, AtWork DEF Job, BeforeRow
      <3>2. QED
        BY <1>0, <2>2, <3>1 DEF Opened
    <2>3. QED
      BY <1>1, <2>1, <2>2 DEF Checkout, StartCheckout,
         CreatePayment, CreateConflict, ChargeOk, ChargeFail, RecordCharge,
         RefuseCharge, ReadWallet, DebitWallet
  <1>2. ASSUME NEW r \in Requests, Settle(r)
        PROVE  remote'[v][p] = "COMPLETED"
    <2>1. CASE UNCHANGED remote
      BY <2>1
    <2>2. ASSUME NEW q \in PaymentIds, SimulatedVerify(r, q)
          PROVE  remote'[v][p] = "COMPLETED"
      BY <1>0, <2>2 DEF SimulatedVerify, Providers
    <2>3. CASE VerifyAsk(r)
      BY <1>0, <2>3 DEF VerifyAsk, Providers
    <2>4. QED
      BY <1>2, <2>1, <2>2, <2>3 DEF Settle, VerifyRead, VerifyError,
         VerifyDecline, VerifyCounter, VerifyComplete
  <1>3. ASSUME NEW r \in Requests, Fulfil(r) \/ Refund(r)
        PROVE  UNCHANGED remote
    BY <1>3 DEF Fulfil, Refund, FulfilRead, FulfilCredit, FulfilGrant,
       FulfilClearCart, FulfilEnrol, FulfilEnrolError, RefundRead, RefundWrite
  <1>4. CASE Customer
    <2>1. ASSUME NEW w \in LiveProviders, NEW q \in PaymentIds,
                 PayerApproves(w, q) \/ PayerDeclines(w, q)
          PROVE  remote'[v][p] = "COMPLETED"
      <3>1. w \in Providers
        BY DEF Providers
      <3>2. CASE PayerApproves(w, q)
        BY <1>0, <3>1, <3>2, NestedUpdate DEF PayerApproves
      <3>3. CASE PayerDeclines(w, q)
        BY <1>0, <3>1, <3>3, NestedUpdate DEF PayerDeclines
      <3>4. QED
        BY <2>1, <3>2, <3>3
    <2>2. ASSUME NEW u, NEW i, AddToCart(u, i) \/ RemoveFromCart(u, i)
          PROVE  UNCHANGED remote
      BY <2>2 DEF AddToCart, RemoveFromCart
    <2>3. QED
      BY <1>4, <2>1, <2>2 DEF Customer
  <1>5. CASE Crash
    BY <1>0, <1>5 DEF Crash, Providers
  <1>6. QED
    BY <1>1, <1>2, <1>3, <1>4, <1>5 DEF Next, Serve

\* Rows are never deleted or given another order, and stay verified.
LEMMA RowsLast ==
  ASSUME IInv, Next
  PROVE  /\ \A p \in PaymentIds :
              /\ status[p] # "NONE" => status'[p] # "NONE" /\ order'[p] = order[p]
              /\ verified[p] => verified'[p]
         /\ RowsMatch'
  <1> USE DEF IInv, TypeOK, RowsMatch
  <1>1. CASE UNCHANGED rows
    BY <1>1 DEF rows
  <1>2. ASSUME NEW r \in Requests, CreatePayment(r)
        PROVE  /\ \A p \in PaymentIds :
                    /\ status[p] # "NONE" => status'[p] # "NONE" /\ order'[p] = order[p]
                    /\ verified[p] => verified'[p]
               /\ RowsMatch'
    <2>1. job[r].order \in Orders
      BY <1>2, AtWork DEF CreatePayment, BeforeRow
    <2>2. QED
      BY <1>2, <2>1 DEF CreatePayment, Fresh, Rows
  <1>3. ASSUME NEW r \in Requests, DebitWallet(r)
        PROVE  /\ \A p \in PaymentIds :
                    /\ status[p] # "NONE" => status'[p] # "NONE" /\ order'[p] = order[p]
                    /\ verified[p] => verified'[p]
               /\ RowsMatch'
    <2>1. job[r].order \in Orders
      BY <1>3, AtWork DEF DebitWallet, BeforeRow
    <2>2. QED
      BY <1>3, <2>1 DEF DebitWallet, Fresh, Rows
  <1>4. ASSUME NEW r \in Requests,
               \/ RefuseCharge(r) \/ VerifyDecline(r) \/ RefundWrite(r)
               \/ VerifyComplete(r) \/ RecordCharge(r)
        PROVE  /\ \A p \in PaymentIds :
                    /\ status[p] # "NONE" => status'[p] # "NONE" /\ order'[p] = order[p]
                    /\ verified[p] => verified'[p]
               /\ RowsMatch'
    <2>1. job[r].pay \in PaymentIds /\ status[job[r].pay] # "NONE"
      BY <1>4, AtWork DEF RefuseCharge, VerifyDecline, RefundWrite,
         VerifyComplete, RecordCharge, BeforeRow
    <2>2. QED
      BY <1>4, <2>1 DEF RefuseCharge, VerifyDecline, RefundWrite,
         VerifyComplete, RecordCharge
  <1>5. QED
    BY <1>1, <1>2, <1>3, <1>4, RowSteps

\* The two together, and downloads are never deleted.
LEMMA StepsLast ==
  ASSUME IInv, Next
  PROVE  Lasting
  <1>1. downloads \subseteq downloads'
    BY GrantSteps DEF FulfilGrant, FulfilEnrol
  <1>2. QED
    BY <1>1, RowsLast, ApprovalsLast DEF Lasting

(***************************************************************************)
(* What requests know                                                      *)
(***************************************************************************)

\* A request leaves the local variables of the others alone.
LEMMA OthersKeep ==
  ASSUME IInv, NEW r \in Requests, NEW q \in Requests, q # r,
         Checkout(r) \/ Settle(r) \/ Fulfil(r) \/ Refund(r)
  PROVE  pc'[q] = pc[q] /\ job'[q] = job[q]
  <1> USE DEF IInv, TypeOK
  <1> DEFINE Alone == pc'[q] = pc[q] /\ job'[q] = job[q]
  <1>0. /\ Finish(r) => Alone
        /\ \A l : Goto(r, l) => Alone
        /\ \A l, j : Begin(r, l, j) => Alone
    BY DEF Finish, Goto, Begin
  <1>1. CASE Checkout(r)
    <2>1. CASE CreatePayment(r) \/ ChargeFail(r) \/ ReadWallet(r) \/ DebitWallet(r)
      BY <1>0, <2>1 DEF CreatePayment, ChargeFail, ReadWallet, DebitWallet
    <2>2. QED
      BY <1>0, <1>1, <2>1 DEF Checkout, StartCheckout, local,
         CreateConflict, ChargeOk, RecordCharge, RefuseCharge
  <1>2. CASE Settle(r)
    <2>1. ASSUME NEW s, AfterAnswer(r, s)
          PROVE  Alone
      BY <1>0, <2>1 DEF AfterAnswer
    <2>2. QED
      BY <1>0, <1>2, <2>1 DEF Settle, VerifyRead, SimulatedVerify, local,
         VerifyAsk, VerifyError, VerifyDecline, VerifyCounter, VerifyComplete
  <1>3. CASE Fulfil(r)
    BY <1>0, <1>3 DEF Fulfil, FulfilRead, FulfilCredit, FulfilGrant,
       FulfilClearCart, FulfilEnrol, FulfilEnrolError
  <1>4. CASE Refund(r)
    BY <1>0, <1>4 DEF Refund, RefundRead, RefundWrite
  <1>5. QED
    BY <1>1, <1>2, <1>3, <1>4

\* A request either takes the step itself, or is left alone, or is dropped.
LEMMA WhoActs ==
  ASSUME IInv, Next, NEW q \in Requests
  PROVE  \/ pc'[q] = pc[q] /\ job'[q] = job[q]
         \/ pc'[q] = "idle"
         \/ Checkout(q) \/ Settle(q) \/ Fulfil(q) \/ Refund(q)
  <1>1. ASSUME NEW r \in Requests, Checkout(r) \/ Settle(r) \/ Fulfil(r) \/ Refund(r)
        PROVE  q # r => pc'[q] = pc[q] /\ job'[q] = job[q]
    BY <1>1, OthersKeep
  <1>2. CASE Customer
    BY <1>2 DEF Customer, AddToCart, RemoveFromCart, PayerApproves,
       PayerDeclines, local
  <1>3. CASE Crash
    BY <1>3 DEF Crash
  <1>4. QED
    BY <1>1, <1>2, <1>3 DEF Next, Serve

\* What a request knows stays true while others act.
LEMMA KnowledgeLasts ==
  ASSUME IInv, Lasting, NEW q \in Requests,
         pc'[q] = pc[q], job'[q] = job[q]
  PROVE  Knows(q)'
  <1>0. Knows(q)
    BY DEF IInv
  <1>1. CheckoutKnows(q)' /\ HasRow(q)'
    BY <1>0 DEF Knows, CheckoutKnows, HasRow, Lasting, Charging, BeforeRow
  <1>2. SettlementKnows(q)'
    BY <1>0 DEF Knows, SettlementKnows, HasRow, BeforeRow, Lasting, Paid
  <1>3. FulfilmentKnows(q)'
    BY <1>0 DEF Knows, FulfilmentKnows, HasRow, BeforeRow, Lasting, OnVerified,
       Fulfilling
  <1>4. QED
    BY <1>1, <1>2, <1>3 DEF Knows

\* A request that has ended relies on nothing.
LEMMA IdleKnows ==
  ASSUME NEW q \in Requests, pc'[q] = "idle"
  PROVE  Knows(q)'
  BY DEF Knows, CheckoutKnows, HasRow, SettlementKnows, FulfilmentKnows,
     BeforeRow, Charging, Fulfilling, OnVerified

\* A checkout establishes what its next statement relies on.
LEMMA CheckoutLearns ==
  ASSUME IInv, Lasting, NEW r \in Requests, Checkout(r)
  PROVE  Knows(r)'
  <1> USE DEF IInv, TypeOK
  <1>0. Knows(r) /\ job[r] \in Job /\ pc[r] \in Labels
    OBVIOUS
  <1>a. ASSUME Finish(r)
        PROVE  Knows(r)'
    BY <1>a, IdleKnows DEF Finish
  <1>1. ASSUME NEW o \in Orders, StartCheckout(r, o)
        PROVE  Knows(r)'
    <2>1. /\ pc'[r] = IF o.gateway = "WALLET" THEN "wallet" ELSE "create"
          /\ job'[r].order = o
      BY <1>1 DEF StartCheckout, Begin, NewJob
    <2>2. QED
      BY <2>1 DEF Knows, CheckoutKnows, HasRow, SettlementKnows,
         FulfilmentKnows, BeforeRow, Charging, Fulfilling, OnVerified
  <1>2. CASE CreatePayment(r)
    <2>1. PICK p \in PaymentIds :
            /\ status'[p] = "PENDING"
            /\ order'[p] = job[r].order
            /\ job'[r] = [job[r] EXCEPT !.pay = p,
                             !.provider = FirstProvider(job[r].order)]
      BY <1>2 DEF CreatePayment, Fresh
    <2>2. job'[r].pay = p /\ job'[r].order = job[r].order /\ pc'[r] = "charge"
      BY <1>0, <1>2, <2>1 DEF CreatePayment, Job
    <2>3. QED
      BY <2>1, <2>2 DEF Knows, CheckoutKnows, HasRow, SettlementKnows,
         FulfilmentKnows, BeforeRow, Charging, Fulfilling, OnVerified
  <1>3. CASE ChargeOk(r) \/ ChargeFail(r)
    <2>1. /\ pc[r] \in {"charge", "fallback"}
          /\ pc'[r] \in {"fallback", "record", "refuse"}
          /\ UNCHANGED <<status, order>>
      BY <1>3 DEF ChargeOk, ChargeFail, Goto, rows
    <2>2. job'[r].pay = job[r].pay /\ job'[r].order = job[r].order
      BY <1>0, <1>3 DEF ChargeOk, ChargeFail, Goto, Job
    <2>3. QED
      BY <1>0, <2>1, <2>2 DEF Knows, CheckoutKnows, HasRow, SettlementKnows,
         FulfilmentKnows, BeforeRow, Charging, Fulfilling, OnVerified
  <1>4. CASE ReadWallet(r)
    <2>1. CASE Finish(r)
      BY <1>a, <2>1
    <2>2. CASE ~Finish(r)
      <3>1. /\ pc[r] = "wallet" /\ pc'[r] = "debit"
            /\ ~(wallet[job[r].order.user] < job[r].order.amount)
            /\ job' = [job EXCEPT ![r].avail = wallet[job[r].order.user]]
        BY <1>4, <2>2 DEF ReadWallet
      <3>2. /\ job'[r].order = job[r].order
            /\ job'[r].avail = wallet[job[r].order.user]
        BY <1>0, <3>1 DEF Job
      <3>3. job[r].order \in Orders /\ wallet[job[r].order.user] \in Int
        BY <3>1, AtWork DEF BeforeRow
      <3>4. job'[r].avail >= job'[r].order.amount
        BY <3>1, <3>2, <3>3
      <3>5. QED
        BY <1>0, <3>1, <3>2, <3>3, <3>4 DEF Knows, CheckoutKnows, HasRow,
           SettlementKnows, FulfilmentKnows, BeforeRow, Charging, Fulfilling,
           OnVerified
    <2>3. QED
      BY <2>1, <2>2
  <1>5. CASE DebitWallet(r)
    <2>1. PICK p \in PaymentIds :
            /\ status'[p] = "COMPLETED"
            /\ verified'[p]
            /\ job' = [job EXCEPT ![r].pay = p]
      BY <1>5 DEF DebitWallet, Fresh
    <2>2. job'[r].pay = p /\ pc'[r] = "fulfil"
      BY <1>0, <1>5, <2>1 DEF DebitWallet, Job
    <2>3. QED
      BY <2>1, <2>2 DEF Knows, CheckoutKnows, HasRow, SettlementKnows,
         FulfilmentKnows, BeforeRow, Charging, Fulfilling, OnVerified
  <1>6. QED
    BY <1>a, <1>1, <1>2, <1>3, <1>4, <1>5 DEF Checkout, CreateConflict,
       RecordCharge, RefuseCharge

\* So does a settlement: the row it read, a live provider to ask, and in the
\* end an approval that this provider holds.
LEMMA SettleLearns ==
  ASSUME IInv, Lasting, NEW r \in Requests, Settle(r)
  PROVE  Knows(r)'
  <1> USE DEF IInv, TypeOK
  <1>0. Knows(r) /\ job[r] \in Job /\ pc[r] \in Labels
    OBVIOUS
  <1>a. ASSUME Finish(r)
        PROVE  Knows(r)'
    BY <1>a, IdleKnows DEF Finish
  <1>1. ASSUME NEW p \in PaymentIds, NEW e \in Expectations, VerifyRead(r, p, e)
        PROVE  Knows(r)'
    <2>1. /\ pc'[r] = "ask" /\ job'[r].pay = p
          /\ job'[r].provider = AskedProvider(p)
          /\ status[p] # "NONE"
      BY <1>1 DEF VerifyRead, Begin, NewJob, Statuses
    <2>2. ~Sandbox => AskedProvider(p) \in LiveProviders
      BY DEF AskedProvider, LiveProviders
    <2>3. status'[p] # "NONE"
      BY <2>1 DEF Lasting
    <2>4. QED
      BY <2>1, <2>2, <2>3 DEF Knows, CheckoutKnows, HasRow, SettlementKnows,
         FulfilmentKnows, BeforeRow, Charging, Fulfilling, OnVerified
  <1>2. ASSUME NEW p \in PaymentIds, SimulatedVerify(r, p)
        PROVE  Knows(r)'
    <2>1. CASE UNCHANGED local
      BY <2>1, KnowledgeLasts DEF local
    <2>2. CASE Begin(r, "ask", NewJob(p, NoOrder, "SANDBOX", "NONE"))
      <3>1. pc'[r] = "ask" /\ job'[r].pay = p /\ status[p] # "NONE" /\ Sandbox
        BY <1>2, <2>2 DEF SimulatedVerify, Begin, NewJob, Rows
      <3>2. status'[p] # "NONE"
        BY <3>1 DEF Lasting
      <3>3. QED
        BY <3>1, <3>2 DEF Knows, CheckoutKnows, HasRow, SettlementKnows,
           FulfilmentKnows, BeforeRow, Charging, Fulfilling, OnVerified
    <2>3. QED
      BY <1>2, <2>1, <2>2 DEF SimulatedVerify
  <1>3. CASE VerifyAsk(r)
    <2>1. CASE pc'[r] = "idle"
      BY <2>1, IdleKnows
    <2>2. CASE pc'[r] # "idle"
      <3>1. pc[r] = "ask" /\ pc'[r] \in {"decline", "counter"} /\ job' = job
        BY <1>3, <2>2 DEF VerifyAsk, AfterAnswer, Finish, Goto
      <3>2. /\ job[r].pay \in PaymentIds /\ status[job[r].pay] # "NONE"
            /\ ~Sandbox => job[r].provider \in LiveProviders
        BY <1>0, <3>1 DEF Knows, HasRow, SettlementKnows, BeforeRow
      <3>3. status'[job[r].pay] # "NONE"
        BY <3>2 DEF Lasting
      <3>4. QED
        BY <3>1, <3>2, <3>3 DEF Knows, CheckoutKnows, HasRow, SettlementKnows,
           FulfilmentKnows, BeforeRow, Charging, Fulfilling, OnVerified
    <2>3. QED
      BY <2>1, <2>2
  <1>4. CASE VerifyCounter(r)
    <2>1. PICK s \in Heard(job[r].provider, job[r].pay) :
            IF s = "COMPLETED" \/ Sandbox THEN Goto(r, "settle") ELSE Finish(r)
      BY <1>4 DEF VerifyCounter
    <2>2. CASE ~(s = "COMPLETED" \/ Sandbox)
      BY <1>a, <2>1, <2>2
    <2>3. CASE s = "COMPLETED" \/ Sandbox
      <3>1. pc[r] = "counter" /\ pc'[r] = "settle" /\ job' = job
        BY <1>4, <2>1, <2>3 DEF VerifyCounter, Goto
      <3>2. /\ job[r].pay \in PaymentIds /\ status[job[r].pay] # "NONE"
            /\ ~Sandbox => job[r].provider \in LiveProviders
        BY <1>0, <3>1 DEF Knows, HasRow, SettlementKnows, BeforeRow
      <3>3. ~Sandbox => remote[job[r].provider][job[r].pay] = "COMPLETED"
        BY <2>3 DEF Heard, Told
      <3>4. /\ status'[job[r].pay] # "NONE"
            /\ ~Sandbox => Paid(job[r].pay)'
        BY <3>1, <3>2, <3>3 DEF Lasting, Paid
      <3>5. QED
        BY <3>1, <3>2, <3>4 DEF Knows, CheckoutKnows, HasRow, SettlementKnows,
           FulfilmentKnows, BeforeRow, Charging, Fulfilling, OnVerified, Paid
    <2>4. QED
      BY <2>2, <2>3
  <1>5. CASE VerifyComplete(r)
    <2>1. /\ job[r].pay \in PaymentIds /\ status[job[r].pay] # "NONE"
          /\ pc'[r] = "fulfil" /\ job' = job
      BY <1>5, AtWork DEF VerifyComplete, Goto, BeforeRow
    <2>2. status'[job[r].pay] # "NONE" /\ verified'[job[r].pay]
      BY <1>5, <2>1 DEF VerifyComplete
    <2>3. QED
      BY <2>1, <2>2 DEF Knows, CheckoutKnows, HasRow, SettlementKnows,
         FulfilmentKnows, BeforeRow, Charging, Fulfilling, OnVerified
  <1>6. QED
    BY <1>a, <1>1, <1>2, <1>3, <1>4, <1>5 DEF Settle, VerifyError, VerifyDecline

\* A fulfilment reads the order of a verified payment and works through it.
LEMMA FulfilLearns ==
  ASSUME IInv, Lasting, NEW r \in Requests, Fulfil(r)
  PROVE  Knows(r)'
  <1> USE DEF IInv, TypeOK
  <1>0. Knows(r) /\ job[r] \in Job /\ pc[r] \in Labels
    OBVIOUS
  <1>a. ASSUME Finish(r)
        PROVE  Knows(r)'
    BY <1>a, IdleKnows DEF Finish
  <1>1. CASE FulfilRead(r)
    <2> DEFINE p == job[r].pay
               o == order[p]
    <2>1. CASE Finish(r)
      BY <1>a, <2>1
    <2>2. CASE ~Finish(r)
      <3>1. /\ pc[r] = "fulfil" /\ pc'[r] = Branch[o.purpose]
            /\ job' = [job EXCEPT ![r] = [@ EXCEPT !.todo = o.items, !.order = o]]
            /\ UNCHANGED <<order, status, verified>>
        BY <1>1, <2>2 DEF FulfilRead, rows
      <3>2. p \in PaymentIds /\ status[p] # "NONE" /\ o \in Orders /\ verified[p]
        BY <1>0, <3>1, AtWork DEF Knows, FulfilmentKnows, BeforeRow, OnVerified
      <3>3. job'[r].pay = p /\ job'[r].order = o /\ job'[r].todo = o.items
        BY <1>0, <3>1 DEF Job
      <3>4. o.purpose \in Purposes
        BY <3>2
      <3>5. /\ o.purpose = "WALLET_TOPUP" => pc'[r] = "credit"
            /\ o.purpose = "COURSE" => pc'[r] = "enrol"
            /\ o.purpose = "TEMPLATE" => pc'[r] = "grant"
        BY <3>1 DEF Branch
      <3>6. QED
        BY <3>1, <3>2, <3>3, <3>4, <3>5 DEF Knows, CheckoutKnows, HasRow,
           SettlementKnows, FulfilmentKnows, BeforeRow, Charging, Fulfilling,
           OnVerified, Purposes
    <2>3. QED
      BY <2>1, <2>2
  <1>2. ASSUME NEW t \in SUBSET Items, t \subseteq job[r].todo,
               pc[r] \in {"grant", "enrol"},
               job' = [job EXCEPT ![r].todo = t],
               pc'[r] = pc[r] \/ (pc[r] = "grant" /\ pc'[r] = "clear" /\ t = {}),
               pc[r] = "grant" =>
                  \A i \in job[r].todo \ t :
                      <<job[r].order.user, i, job[r].pay>> \in downloads',
               UNCHANGED <<order, status, verified>>
        PROVE  Knows(r)'
    <2>1. /\ job'[r].pay = job[r].pay /\ job'[r].order = job[r].order
          /\ job'[r].todo = t
      BY <1>0, <1>2 DEF Job
    <2>2. /\ job[r].pay \in PaymentIds /\ status[job[r].pay] # "NONE"
          /\ verified[job[r].pay]
          /\ job[r].order = order[job[r].pay] /\ job[r].todo \subseteq job[r].order.items
      BY <1>0, <1>2, AtWork DEF Knows, FulfilmentKnows, BeforeRow, OnVerified,
         Fulfilling
    <2>3. /\ pc[r] = "grant" => job[r].order.purpose = "TEMPLATE"
          /\ pc[r] = "enrol" => job[r].order.purpose = "COURSE"
      BY <1>0 DEF Knows, FulfilmentKnows
    <2>a. pc[r] = "grant" =>
            \A i \in job[r].order.items \ t :
                <<job[r].order.user, i, job[r].pay>> \in downloads'
      BY <1>0, <1>2 DEF Knows, FulfilmentKnows, Lasting
    <2>4. QED
      BY <1>2, <2>1, <2>2, <2>3, <2>a DEF Knows, CheckoutKnows, HasRow,
         SettlementKnows, FulfilmentKnows, BeforeRow, Charging, Fulfilling,
         OnVerified
  <1>3. CASE FulfilGrant(r)
    <2>1. PICK i \in job[r].todo :
            /\ job' = [job EXCEPT ![r].todo = @ \ {i}]
            /\ pc' = [pc EXCEPT ![r] = IF job[r].todo = {i} THEN "clear" ELSE @]
            /\ downloads' = downloads \cup {<<job[r].order.user, i, job[r].pay>>}
            /\ pc[r] = "grant"
            /\ UNCHANGED <<order, status, verified>>
      BY <1>3 DEF FulfilGrant, rows
    <2>2. job[r].todo \ {i} \in SUBSET Items
      BY <1>0 DEF Job
    <2>3. pc'[r] = pc[r] \/ (pc'[r] = "clear" /\ job[r].todo \ {i} = {})
      BY <1>0, <2>1
    <2>4. QED
      BY <1>2, <2>1, <2>2, <2>3
  <1>4. CASE FulfilEnrol(r)
    <2>1. PICK i \in job[r].todo :
            IF job[r].todo = {i} THEN Finish(r)
            ELSE job' = [job EXCEPT ![r].todo = @ \ {i}] /\ UNCHANGED pc
      BY <1>4 DEF FulfilEnrol
    <2>2. job[r].todo \ {i} \in SUBSET Items
      BY <1>0 DEF Job
    <2>3. QED
      BY <1>a, <1>2, <1>4, <2>1, <2>2 DEF FulfilEnrol, rows
  <1>5. QED
    BY <1>a, <1>1, <1>3, <1>4 DEF Fulfil, FulfilCredit, FulfilClearCart,
       FulfilEnrolError

\* A refund starts from a completed, therefore verified, payment.
LEMMA RefundLearns ==
  ASSUME IInv, Lasting, NEW r \in Requests, Refund(r)
  PROVE  Knows(r)'
  <1> USE DEF IInv, TypeOK
  <1>1. ASSUME NEW p \in PaymentIds, RefundRead(r, p)
        PROVE  Knows(r)'
    <2>1. /\ pc'[r] = "refund" /\ job'[r].pay = p
          /\ status[p] = "COMPLETED"
      BY <1>1 DEF RefundRead, Begin, NewJob
    <2>2. verified[p]
      BY <2>1 DEF SettledWasVerified
    <2>3. status'[p] # "NONE" /\ verified'[p]
      BY <2>1, <2>2 DEF Lasting
    <2>4. QED
      BY <2>1, <2>3 DEF Knows, CheckoutKnows, HasRow, SettlementKnows,
         FulfilmentKnows, BeforeRow, Charging, Fulfilling, OnVerified
  <1>2. ASSUME RefundWrite(r)
        PROVE  Knows(r)'
    BY <1>2, IdleKnows DEF RefundWrite, Finish
  <1>3. QED
    BY <1>1, <1>2 DEF Refund

\* After every step, every request still knows what its next statement needs.
LEMMA KnowledgeStep ==
  ASSUME IInv, Next
  PROVE  \A r \in Requests : Knows(r)'
  BY StepsLast, WhoActs, KnowledgeLasts, IdleKnows, CheckoutLearns,
     SettleLearns, FulfilLearns, RefundLearns

(***************************************************************************)
(* The safety properties, step by step                                     *)
(***************************************************************************)

\* A row gets the status COMPLETED with verified_at, or REFUNDED from a
\* request that saw it completed.
LEMMA SettledStep ==
  ASSUME IInv, Next
  PROVE  SettledWasVerified'
  <1> USE DEF IInv, TypeOK, SettledWasVerified
  <1>0. Lasting
    BY StepsLast
  <1>1. CASE UNCHANGED rows
    BY <1>1 DEF rows
  <1>2. ASSUME NEW r \in Requests, RefundWrite(r)
        PROVE  SettledWasVerified'
    <2>1. verified[job[r].pay]
      BY <1>2 DEF RefundWrite, Knows, FulfilmentKnows, OnVerified
    <2>2. QED
      BY <1>2, <2>1 DEF RefundWrite
  <1>3. ASSUME NEW r \in Requests, DebitWallet(r) \/ VerifyComplete(r)
        PROVE  SettledWasVerified'
    BY <1>0, <1>3 DEF DebitWallet, VerifyComplete, Lasting
  <1>4. ASSUME NEW r \in Requests,
               CreatePayment(r) \/ RecordCharge(r) \/ RefuseCharge(r) \/ VerifyDecline(r)
        PROVE  SettledWasVerified'
    BY <1>4 DEF CreatePayment, RecordCharge, RefuseCharge, VerifyDecline
  <1>5. QED
    BY <1>1, <1>2, <1>3, <1>4, RowSteps

\* verified_at is set for a wallet purchase, or after the provider's second
\* answer.
LEMMA PaidStep ==
  ASSUME IInv, Next
  PROVE  VerifiedWasPaid'
  <1> USE DEF IInv, TypeOK
  <1> SUFFICES ASSUME ~Sandbox, NEW p \in PaymentIds,
                      verified'[p], order'[p].gateway # "WALLET"
               PROVE  \E v \in LiveProviders : remote'[v][p] = "COMPLETED"
    BY DEF VerifiedWasPaid
  <1>0. Lasting
    BY StepsLast
  <1>1. CASE verified[p]
    <2>1. order'[p] = order[p]
      BY <1>0, <1>1 DEF Lasting, RowsMatch
    <2>2. QED
      BY <1>0, <1>1, <2>1 DEF VerifiedWasPaid, Lasting
  <1>2. CASE ~verified[p]
    <2>1. PICK r \in Requests : DebitWallet(r) \/ VerifyComplete(r)
      BY <1>2, RowSteps DEF rows, CreatePayment, RecordCharge, RefuseCharge,
         VerifyDecline, RefundWrite
    <2>2. CASE DebitWallet(r)
      <3>1. job[r].order.gateway = "WALLET"
        BY <2>2 DEF DebitWallet, Knows, CheckoutKnows, BeforeRow
      <3>2. order'[p] = job[r].order
        BY <1>2, <2>2 DEF DebitWallet, Fresh
      <3>3. QED
        BY <3>1, <3>2
    <2>3. CASE VerifyComplete(r)
      <3>1. job[r].pay = p
        BY <1>2, <2>3 DEF VerifyComplete
      <3>2. Paid(p)
        BY <2>3, <3>1 DEF VerifyComplete, Knows, SettlementKnows
      <3>3. QED
        BY <1>0, <3>2 DEF Paid, Lasting
    <2>4. QED
      BY <2>1, <2>2, <2>3
  <1>3. QED
    BY <1>1, <1>2

\* A download or an enrolment is inserted for the order of a verified payment.
LEMMA GrantsStep ==
  ASSUME IInv, Next
  PROVE  GrantsVerified'
  <1> USE DEF IInv, TypeOK
  <1>0. Lasting
    BY StepsLast
  <1>1. ASSUME NEW p \in PaymentIds, verified[p]
        PROVE  /\ verified'[p]
               /\ order'[p] = order[p]
    BY <1>0, <1>1 DEF Lasting, RowsMatch
  <1>2. \A d \in downloads : verified'[d[3]] /\ Buys(d[3], d[1], d[2], "TEMPLATE")'
    BY <1>1 DEF GrantsVerified, Buys
  <1>3. ASSUME NEW e \in enrolled
        PROVE  \E p \in PaymentIds : verified'[p] /\ Buys(p, e[1], e[2], "COURSE")'
    <2>1. PICK p \in PaymentIds : verified[p] /\ Buys(p, e[1], e[2], "COURSE")
      BY DEF GrantsVerified
    <2>2. verified'[p] /\ order'[p] = order[p]
      BY <1>1, <2>1
    <2>3. Buys(p, e[1], e[2], "COURSE")'
      BY <2>1, <2>2 DEF Buys
    <2>4. QED
      BY <2>2, <2>3
  <1>4. ASSUME NEW r \in Requests, pc[r] \in {"grant", "enrol"}
        PROVE  \E p \in PaymentIds, o \in Orders :
                 /\ job[r].pay = p /\ job[r].order = o
                 /\ verified'[p] /\ order'[p] = o
                 /\ job[r].todo \subseteq o.items
    <2>1. /\ job[r].pay \in PaymentIds /\ job[r].order \in Orders
          /\ verified[job[r].pay] /\ job[r].order = order[job[r].pay]
          /\ job[r].todo \subseteq job[r].order.items
      BY <1>4, AtWork DEF Knows, FulfilmentKnows, BeforeRow, OnVerified, Fulfilling
    <2>2. verified'[job[r].pay] /\ order'[job[r].pay] = job[r].order
      BY <1>1, <2>1
    <2>3. QED
      BY <2>1, <2>2
  <1>5. ASSUME NEW r \in Requests, FulfilGrant(r)
        PROVE  GrantsVerified'
    <2>1. pc[r] = "grant" /\ UNCHANGED enrolled
      BY <1>5 DEF FulfilGrant
    <2>2. PICK p \in PaymentIds, o \in Orders :
            /\ job[r].pay = p /\ job[r].order = o
            /\ verified'[p] /\ order'[p] = o
            /\ job[r].todo \subseteq o.items
      BY <1>4, <2>1
    <2>3. PICK i \in o.items : downloads' = downloads \cup {<<o.user, i, p>>}
      BY <1>5, <2>2 DEF FulfilGrant
    <2>4. o.purpose = "TEMPLATE"
      BY <2>1, <2>2 DEF Knows, FulfilmentKnows
    <2>5. verified'[p] /\ Buys(p, o.user, i, "TEMPLATE")'
      BY <2>2, <2>3, <2>4 DEF Buys
    <2>6. \A d \in downloads' : verified'[d[3]] /\ Buys(d[3], d[1], d[2], "TEMPLATE")'
      BY <1>2, <2>3, <2>5
    <2>7. QED
      BY <1>3, <2>1, <2>6 DEF GrantsVerified
  <1>6. ASSUME NEW r \in Requests, FulfilEnrol(r)
        PROVE  GrantsVerified'
    <2>1. pc[r] = "enrol" /\ UNCHANGED downloads
      BY <1>6 DEF FulfilEnrol
    <2>2. PICK p \in PaymentIds, o \in Orders :
            /\ job[r].pay = p /\ job[r].order = o
            /\ verified'[p] /\ order'[p] = o
            /\ job[r].todo \subseteq o.items
      BY <1>4, <2>1
    <2>3. PICK i \in o.items : enrolled' = enrolled \cup {<<o.user, i>>}
      BY <1>6, <2>2 DEF FulfilEnrol
    <2>4. o.purpose = "COURSE"
      BY <2>1, <2>2 DEF Knows, FulfilmentKnows
    <2>5. verified'[p] /\ Buys(p, o.user, i, "COURSE")'
      BY <2>2, <2>3, <2>4 DEF Buys
    <2>6. \A e \in enrolled' :
             \E q \in PaymentIds : verified'[q] /\ Buys(q, e[1], e[2], "COURSE")'
      BY <1>3, <2>3, <2>5
    <2>7. QED
      BY <1>2, <2>1, <2>6 DEF GrantsVerified
  <1>7. QED
    BY <1>2, <1>3, <1>5, <1>6, GrantSteps DEF GrantsVerified

\* A transaction appends a ledger row for a verified payment of its user, with
\* the amount of its order, and the balance it writes to the user's row.
AppendsEntry(p, o, line) ==
  /\ line.pay = p /\ verified'[p] /\ order'[p] = o
  /\ \/ line.reason = "topup" /\ o.purpose = "WALLET_TOPUP" /\ line.delta = o.amount
     \/ line.reason = "purchase" /\ o.gateway = "WALLET" /\ line.delta = -o.amount
  /\ line.after >= 0
  /\ wallet' = [wallet EXCEPT ![o.user] = line.after]
  /\ ledger' = [ledger EXCEPT ![o.user] = Append(@, line)]

\* Both transactions on the wallet do just that.
LEMMA PurseAppends ==
  ASSUME IInv, Next
  PROVE  \/ UNCHANGED purse
         \/ \E p \in PaymentIds, o \in Orders, line \in LedgerRow :
               AppendsEntry(p, o, line)
  <1> USE DEF IInv, TypeOK
  <1>0. Lasting
    BY StepsLast
  <1>1. ASSUME NEW r \in Requests, DebitWallet(r)
        PROVE  \E p \in PaymentIds, o \in Orders, line \in LedgerRow :
                 AppendsEntry(p, o, line)
    <2>1. job[r].order \in Orders /\ pc[r] = "debit"
      BY <1>1, AtWork DEF DebitWallet, BeforeRow
    <2>a. job[r].avail \in Int
      BY DEF Job
    <2>b. PICK o \in Orders : o = job[r].order /\ o.amount \in Nat
      BY <2>1
    <2>c. job[r].avail - o.amount \in Int
      BY <2>a, <2>b
    <2>2. PICK n \in Int : o = job[r].order /\ n = job[r].avail - o.amount
      BY <2>b, <2>c
    <2>3. o.gateway = "WALLET" /\ n >= 0
      BY <2>1, <2>2, <2>a DEF Knows, CheckoutKnows, BeforeRow
    <2>4. PICK p \in PaymentIds :
            /\ verified'[p] /\ order'[p] = o
            /\ wallet' = [wallet EXCEPT ![o.user] = n]
            /\ ledger' = [ledger EXCEPT ![o.user] =
                             Append(@, Entry(p, "purchase", -o.amount, n))]
      BY <1>1, <2>2 DEF DebitWallet, Fresh
    <2>5. -o.amount \in Int
      BY <2>2
    <2>6. PICK line \in LedgerRow :
            /\ line = Entry(p, "purchase", -o.amount, n)
            /\ line.pay = p /\ line.reason = "purchase" /\ line.delta = -o.amount
            /\ line.after = n
      BY <2>5, EntryType
    <2>7. AppendsEntry(p, o, line)
      BY <2>3, <2>4, <2>6 DEF AppendsEntry
    <2>8. QED
      BY <2>7
  <1>2. ASSUME NEW r \in Requests, FulfilCredit(r)
        PROVE  \E p \in PaymentIds, o \in Orders, line \in LedgerRow :
                 AppendsEntry(p, o, line)
    <2>1. job[r].order \in Orders /\ job[r].pay \in PaymentIds /\ pc[r] = "credit"
      BY <1>2, AtWork DEF FulfilCredit, Fulfilling, BeforeRow
    <2>2. PICK o \in Orders, p \in PaymentIds : o = job[r].order /\ p = job[r].pay
      BY <2>1
    <2>3. /\ o.purpose = "WALLET_TOPUP" /\ verified[p] /\ order[p] = o
      BY <2>1, <2>2 DEF Knows, FulfilmentKnows, OnVerified, Fulfilling
    <2>4. verified'[p] /\ order'[p] = o
      BY <1>0, <2>3 DEF Lasting, RowsMatch
    <2>5. wallet[o.user] \in Int /\ wallet[o.user] >= 0 /\ o.amount \in Nat
      BY DEF WalletMatchesLedger
    <2>6. PICK n \in Int : n = wallet[o.user] + o.amount /\ n >= 0
      BY <2>5
    <2>7. /\ wallet' = [wallet EXCEPT ![o.user] = n]
          /\ ledger' = [ledger EXCEPT ![o.user] =
                           Append(@, Entry(p, "topup", o.amount, n))]
      BY <1>2, <2>2, <2>6 DEF FulfilCredit
    <2>8. PICK line \in LedgerRow :
            /\ line = Entry(p, "topup", o.amount, n)
            /\ line.pay = p /\ line.reason = "topup" /\ line.delta = o.amount
            /\ line.after = n
      BY <2>5, EntryType
    <2>9. AppendsEntry(p, o, line)
      BY <2>3, <2>4, <2>6, <2>7, <2>8 DEF AppendsEntry
    <2>10. QED
      BY <2>9
  <1>3. QED
    BY <1>1, <1>2, PurseSteps

\* The ledger and the balance agree after every step.
LEMMA LedgerStep ==
  ASSUME IInv, Next
  PROVE  LedgerVerified' /\ WalletMatchesLedger'
  <1> USE DEF IInv, TypeOK
  <1>0. Lasting
    BY StepsLast
  <1>1. ASSUME NEW p \in PaymentIds, verified[p]
        PROVE  verified'[p] /\ order'[p] = order[p]
    BY <1>0, <1>1 DEF Lasting, RowsMatch
  <1>2. ASSUME NEW u \in Users, NEW n \in 1..Len(ledger[u])
        PROVE  ledger[u][n].pay \in PaymentIds
    <2>1. ledger[u] \in Seq(LedgerRow)
      OBVIOUS
    <2>2. ledger[u][n] \in LedgerRow
      BY <2>1, ElementOfSeq
    <2>3. QED
      BY <2>2 DEF LedgerRow
  <1>3. CASE UNCHANGED purse
    BY <1>1, <1>2, <1>3 DEF purse, LedgerVerified, WalletMatchesLedger
  <1>4. ASSUME NEW p \in PaymentIds, NEW o \in Orders, NEW line \in LedgerRow,
               AppendsEntry(p, o, line)
        PROVE  LedgerVerified' /\ WalletMatchesLedger'
    <2> USE <1>4 DEF AppendsEntry
    <2>1. o.user \in Users
      OBVIOUS
    <2> DEFINE s == ledger[o.user]
    <2>2. /\ ledger'[o.user] = Append(s, line)
          /\ wallet'[o.user] = line.after
          /\ \A u \in Users \ {o.user} : ledger'[u] = ledger[u] /\ wallet'[u] = wallet[u]
      BY <2>1
    <2>3. /\ Len(Append(s, line)) = Len(s) + 1
          /\ \A n \in 1..Len(s) : Append(s, line)[n] = s[n]
          /\ Append(s, line)[Len(s) + 1] = line
          /\ Len(s) \in Nat
          /\ Append(s, line) # <<>>
      BY <2>1, LedgerAppend
    <2>s. s = ledger[o.user]
      OBVIOUS
    <2> HIDE DEF s
    <2>4. WalletMatchesLedger'
      BY <2>1, <2>2, <2>3 DEF WalletMatchesLedger
    <2>5. SUFFICES ASSUME NEW u \in Users, NEW n \in 1..Len(ledger'[u])
                   PROVE  LET k == ledger'[u][n] IN
                          /\ verified'[k.pay]
                          /\ order'[k.pay] \in Orders
                          /\ order'[k.pay].user = u
                          /\ IF k.reason = "topup"
                             THEN /\ order'[k.pay].purpose = "WALLET_TOPUP"
                                  /\ k.delta = order'[k.pay].amount
                             ELSE /\ order'[k.pay].gateway = "WALLET"
                                  /\ k.delta = -order'[k.pay].amount
      BY <2>4 DEF LedgerVerified
    <2>6. CASE u = o.user /\ n = Len(s) + 1
      BY <2>2, <2>3, <2>6
    <2>7. CASE u # o.user \/ n # Len(s) + 1
      <3>1. n \in 1..Len(ledger[u]) /\ ledger'[u][n] = ledger[u][n]
        <4>1. CASE u # o.user
          BY <2>2, <4>1
        <4>2. CASE u = o.user
          BY <2>2, <2>3, <2>7, <2>s, <4>2
        <4>3. QED
          BY <4>1, <4>2
      <3>2. PICK k : k = ledger[u][n]
        OBVIOUS
      <3>3. /\ k.pay \in PaymentIds /\ verified[k.pay]
            /\ order[k.pay] \in Orders
            /\ order[k.pay].user = u
            /\ IF k.reason = "topup"
               THEN /\ order[k.pay].purpose = "WALLET_TOPUP"
                    /\ k.delta = order[k.pay].amount
               ELSE /\ order[k.pay].gateway = "WALLET"
                    /\ k.delta = -order[k.pay].amount
        BY <1>2, <3>1, <3>2 DEF LedgerVerified
      <3>4. verified'[k.pay] /\ order'[k.pay] = order[k.pay]
        BY <1>1, <3>3
      <3>5. ledger'[u][n] = k
        BY <3>1, <3>2
      <3>6. /\ verified'[k.pay] /\ order'[k.pay] \in Orders /\ order'[k.pay].user = u
            /\ IF k.reason = "topup"
               THEN /\ order'[k.pay].purpose = "WALLET_TOPUP"
                    /\ k.delta = order'[k.pay].amount
               ELSE /\ order'[k.pay].gateway = "WALLET"
                    /\ k.delta = -order'[k.pay].amount
        BY <3>3, <3>4
      <3> HIDE DEF IInv, TypeOK
      <3>7. QED
        BY <3>5, <3>6
    <2>8. QED
      BY <2>6, <2>7
  <1>5. QED
    BY <1>3, <1>4, PurseAppends

\* The unique index: a second row with a key is refused, whatever the look-up
\* at the start of the checkout had found, and purchases from the wallet have
\* no key.
LEMMA KeyStep ==
  ASSUME IInv, Next
  PROVE  OnePaymentPerKey'
  <1> USE DEF IInv, TypeOK
  <1> DEFINE Keyed(p, k) == status[p] # "NONE" /\ KeyOf(p) = k /\ k # NoKey
  <1>0. \A p, q \in PaymentIds : \A k : Keyed(p, k) /\ Keyed(q, k) => p = q
    BY DEF OnePaymentPerKey, Rows
  <1>a. ASSUME \A p, q \in PaymentIds : \A k : Keyed(p, k)' /\ Keyed(q, k)' => p = q
        PROVE  OnePaymentPerKey'
    BY <1>a DEF OnePaymentPerKey, Rows
  <1>1. ASSUME UNCHANGED order,
               \A p \in PaymentIds : status'[p] # "NONE" => status[p] # "NONE"
        PROVE  OnePaymentPerKey'
    BY <1>0, <1>1, <1>a DEF KeyOf
  <1>2. ASSUME NEW r \in Requests, NEW p \in PaymentIds, NEW o \in Orders,
               status[p] = "NONE",
               order' = [order EXCEPT ![p] = o],
               \A q \in PaymentIds \ {p} : status'[q] = status[q],
               o.gateway # "WALLET" => RowsWithKey(o.key) = {}
        PROVE  OnePaymentPerKey'
    <2>1. \A q \in PaymentIds \ {p} : \A k : Keyed(q, k)' => Keyed(q, k)
      BY <1>2 DEF KeyOf
    <2>2. ASSUME NEW k, Keyed(p, k)'
          PROVE  \A q \in PaymentIds : ~Keyed(q, k)
      <3>1. o.gateway # "WALLET" /\ k = o.key
        BY <1>2, <2>2 DEF KeyOf
      <3>2. QED
        BY <1>2, <2>2, <3>1 DEF RowsWithKey, Rows
    <2>3. ASSUME NEW x \in PaymentIds, NEW y \in PaymentIds, NEW k,
                 Keyed(x, k)', Keyed(y, k)'
          PROVE  x = y
      <3>1. CASE x # p /\ y # p
        BY <1>0, <2>1, <2>3, <3>1
      <3>2. CASE x = p /\ y # p
        BY <2>1, <2>2, <2>3, <3>2
      <3>3. CASE y = p /\ x # p
        BY <2>1, <2>2, <2>3, <3>3
      <3>4. QED
        BY <3>1, <3>2, <3>3
    <2>4. QED
      BY <1>a, <2>3
  <1>3. ASSUME NEW r \in Requests, CreatePayment(r)
        PROVE  OnePaymentPerKey'
    <2>1. PICK p \in PaymentIds :
            /\ status[p] = "NONE"
            /\ order' = [order EXCEPT ![p] = job[r].order]
            /\ status' = [status EXCEPT ![p] = "PENDING"]
      BY <1>3 DEF CreatePayment, Fresh, Rows
    <2>2. job[r].order \in Orders /\ RowsWithKey(job[r].order.key) = {}
      BY <1>3, AtWork DEF CreatePayment, BeforeRow
    <2>3. \A q \in PaymentIds \ {p} : status'[q] = status[q]
      BY <2>1
    <2>4. QED
      BY <1>2, <2>1, <2>2, <2>3
  <1>4. ASSUME NEW r \in Requests, DebitWallet(r)
        PROVE  OnePaymentPerKey'
    <2>1. PICK p \in PaymentIds :
            /\ status[p] = "NONE"
            /\ order' = [order EXCEPT ![p] = job[r].order]
            /\ status' = [status EXCEPT ![p] = "COMPLETED"]
      BY <1>4 DEF DebitWallet, Fresh, Rows
    <2>2. job[r].order \in Orders /\ job[r].order.gateway = "WALLET"
      BY <1>4, AtWork DEF DebitWallet, BeforeRow, Knows, CheckoutKnows
    <2>3. \A q \in PaymentIds \ {p} : status'[q] = status[q]
      BY <2>1
    <2>4. QED
      BY <1>2, <2>1, <2>2, <2>3
  <1>5. ASSUME NEW r \in Requests,
               \/ RefuseCharge(r) \/ VerifyDecline(r) \/ RefundWrite(r)
               \/ VerifyComplete(r) \/ RecordCharge(r)
        PROVE  OnePaymentPerKey'
    <2>1. status[job[r].pay] # "NONE"
      BY <1>5, AtWork DEF RefuseCharge, VerifyDecline, RefundWrite,
         VerifyComplete, RecordCharge, BeforeRow
    <2>2. UNCHANGED order
      BY <1>5 DEF RefuseCharge, VerifyDecline, RefundWrite, VerifyComplete,
         RecordCharge
    <2>3. \A p \in PaymentIds : status'[p] # "NONE" => status[p] # "NONE"
      BY <1>5, <2>1 DEF RefuseCharge, VerifyDecline, RefundWrite,
         VerifyComplete, RecordCharge
    <2>4. QED
      BY <1>1, <2>2, <2>3
  <1>6. QED
    BY <1>1, <1>3, <1>4, <1>5, RowSteps DEF rows

(***************************************************************************)
(* The theorems                                                            *)
(***************************************************************************)

\* The invariant holds initially.
LEMMA InitInvariant ==
  ASSUME Init
  PROVE  IInv
  <1> USE DEF Init
  <1>1. TypeOK
    BY NewJobType DEF TypeOK, Providers, LiveProviders, Labels
  <1>2. RowsMatch /\ SettledWasVerified /\ VerifiedWasPaid
    BY DEF RowsMatch, SettledWasVerified, VerifiedWasPaid
  <1>3. GrantsVerified /\ LedgerVerified /\ WalletMatchesLedger /\ OnePaymentPerKey
    BY DEF GrantsVerified, LedgerVerified, WalletMatchesLedger, OnePaymentPerKey, Rows
  <1>4. \A r \in Requests : Knows(r)
    BY DEF Knows, CheckoutKnows, HasRow, SettlementKnows, FulfilmentKnows,
       BeforeRow, Charging, Fulfilling, OnVerified
  <1>5. QED
    BY <1>1, <1>2, <1>3, <1>4 DEF IInv

\* And is kept by every step, so that it always holds.
THEOREM Invariant == Spec => []IInv
  <1>1. Init => IInv
    BY InitInvariant
  <1>2. IInv /\ [Next]_vars => IInv'
    <2>1. ASSUME IInv, Next
          PROVE  IInv'
      <3>1. TypeOK' /\ RowsMatch'
        BY <2>1, TypeStep, RowsLast
      <3>2. SettledWasVerified' /\ VerifiedWasPaid' /\ GrantsVerified'
        BY <2>1, SettledStep, PaidStep, GrantsStep
      <3>3. LedgerVerified' /\ WalletMatchesLedger' /\ OnePaymentPerKey'
        BY <2>1, LedgerStep, KeyStep
      <3>4. (\A r \in Requests : Knows(r))'
        BY <2>1, KnowledgeStep
      <3>5. QED
        BY <3>1, <3>2, <3>3, <3>4 DEF IInv
    <2>2. ASSUME IInv, UNCHANGED vars
          PROVE  IInv'
      <3> USE <2>2 DEF vars, rows, purse, goods, local
      <3>1. TypeOK' /\ RowsMatch'
        BY DEF IInv, TypeOK, RowsMatch
      <3>2. SettledWasVerified' /\ VerifiedWasPaid'
        BY DEF IInv, SettledWasVerified, VerifiedWasPaid
      <3>3. GrantsVerified'
        BY DEF IInv, GrantsVerified, Buys
      <3>4. LedgerVerified' /\ WalletMatchesLedger' /\ OnePaymentPerKey'
        BY DEF IInv, LedgerVerified, WalletMatchesLedger, OnePaymentPerKey,
           Rows, KeyOf
      <3>5. (\A r \in Requests : Knows(r))'
        BY DEF IInv, Knows, CheckoutKnows, HasRow, SettlementKnows,
           FulfilmentKnows, Paid
      <3>6. QED
        BY <3>1, <3>2, <3>3, <3>4, <3>5 DEF IInv
    <2>3. QED
      BY <2>1, <2>2
  <1>3. QED
    BY <1>1, <1>2, PTL DEF Spec

\* The tables and the requests always hold values of their types.
THEOREM TypeCorrect == Spec => []TypeOK
  <1>1. IInv => TypeOK
    BY DEF IInv
  <1>2. QED
    BY <1>1, Invariant, PTL

\* No interleaving of checkouts, webhooks, polls, refunds and crashes grants a
\* template or a course that a verified payment of that user does not contain.
THEOREM GoodsArePaid == Spec => []GrantsVerified
  <1>1. IInv => GrantsVerified
    BY DEF IInv
  <1>2. QED
    BY <1>1, Invariant, PTL

\* A completed or refunded payment was verified, however refunds race declines.
THEOREM SettledIsVerified == Spec => []SettledWasVerified
  <1>1. IInv => SettledWasVerified
    BY DEF IInv
  <1>2. QED
    BY <1>1, Invariant, PTL

\* In live mode, a verified gateway payment was approved by its payer at a
\* provider, although requests act on answers that may be old.
THEOREM VerifiedIsPaid == Spec => []VerifiedWasPaid
  <1>1. IInv => VerifiedWasPaid
    BY DEF IInv
  <1>2. QED
    BY <1>1, Invariant, PTL

\* The stored balance is always the one the newest ledger row records, and never
\* negative, however purchases and settlements read it before they write it.
THEOREM WalletIsAccounted == Spec => []WalletMatchesLedger
  <1>1. IInv => WalletMatchesLedger
    BY DEF IInv
  <1>2. QED
    BY <1>1, Invariant, PTL

\* Every ledger row belongs to a verified payment of that user, with its amount.
THEOREM LedgerIsVerified == Spec => []LedgerVerified
  <1>1. IInv => LedgerVerified
    BY DEF IInv
  <1>2. QED
    BY <1>1, Invariant, PTL

\* Nothing is delivered, enrolled or credited that was not settled for that user and
\* order, whatever the order in which webhooks, polls, refunds and checkouts write.
THEOREM NothingIsUnpaid == Spec => []NothingUnpaid
  BY GoodsArePaid, LedgerIsVerified, PTL DEF NothingUnpaid

\* Two rows never share an idempotency key, however checkouts race.
THEOREM OneRowPerKey == Spec => []OnePaymentPerKey
  <1>1. IInv => OnePaymentPerKey
    BY DEF IInv
  <1>2. QED
    BY <1>1, Invariant, PTL

\* What a fulfilment removes from a cart has been granted to that user.
THEOREM CartIsKept == Spec => CartOutlivesPurchase
  <1> DEFINE Kept == \A u \in Users, i \in Items :
                        <<u, i>> \in cart \ cart' =>
                           \/ RemoveFromCart(u, i)
                           \/ \E p \in PaymentIds : <<u, i, p>> \in downloads
  <1>1. IInv /\ [Next]_vars => [Kept]_vars
    <2> SUFFICES ASSUME IInv, Next, NEW u \in Users, NEW i \in Items,
                        <<u, i>> \in cart, <<u, i>> \notin cart'
                 PROVE  \/ RemoveFromCart(u, i)
                        \/ \E p \in PaymentIds : <<u, i, p>> \in downloads
      OBVIOUS
    <2>1. ASSUME NEW r \in Requests, FulfilClearCart(r)
          PROVE  \E p \in PaymentIds : <<u, i, p>> \in downloads
      <3>1. pc[r] = "clear" /\ u = job[r].order.user /\ i \in job[r].order.items
        BY <2>1 DEF FulfilClearCart
      <3>2. job[r].pay \in PaymentIds
        BY <3>1, AtWork DEF BeforeRow
      <3>3. <<u, i, job[r].pay>> \in downloads
        BY <3>1 DEF IInv, Knows, FulfilmentKnows
      <3>4. QED
        BY <3>2, <3>3
    <2>2. ASSUME NEW r \in Requests, Checkout(r)
          PROVE  UNCHANGED cart
      BY <2>2 DEF Checkout, StartCheckout, CreatePayment,
         CreateConflict, ChargeOk, ChargeFail, RecordCharge, RefuseCharge,
         ReadWallet, DebitWallet, goods
    <2>3. ASSUME NEW r \in Requests, Settle(r) \/ Refund(r)
          PROVE  UNCHANGED cart
      BY <2>3 DEF Settle, Refund, VerifyRead, SimulatedVerify, VerifyAsk,
         VerifyError, VerifyDecline, VerifyCounter, VerifyComplete, RefundRead,
         RefundWrite, goods
    <2>4. ASSUME NEW r \in Requests, Fulfil(r), ~FulfilClearCart(r)
          PROVE  UNCHANGED cart
      BY <2>4 DEF Fulfil, FulfilRead, FulfilCredit, FulfilGrant, FulfilEnrol,
         FulfilEnrolError, goods
    <2>5. CASE Customer
      <3>1. ASSUME NEW v \in LiveProviders, NEW p \in PaymentIds,
                   PayerApproves(v, p) \/ PayerDeclines(v, p)
            PROVE  UNCHANGED cart
        BY <3>1 DEF PayerApproves, PayerDeclines, goods
      <3>2. ASSUME NEW w \in Users, NEW j \in Items, AddToCart(w, j)
            PROVE  cart \subseteq cart'
        BY <3>2 DEF AddToCart
      <3>3. ASSUME NEW w \in Users, NEW j \in Items, RemoveFromCart(w, j)
            PROVE  w = u /\ j = i
        BY <3>3 DEF RemoveFromCart
      <3>4. QED
        BY <2>5, <3>1, <3>2, <3>3 DEF Customer
    <2>6. CASE Crash
      BY <2>6 DEF Crash, goods
    <2>7. QED
      BY <2>1, <2>2, <2>3, <2>4, <2>5, <2>6 DEF Next, Serve
  <1>2. QED
    BY <1>1, Invariant, PTL DEF Spec, CartOutlivesPurchase

(***************************************************************************)
(* Payments implements Purchases                                           *)
(***************************************************************************)

\* A grant of a fulfilment is a hand-over of a paid purchase.
LEMMA GrantHandsOver ==
  ASSUME IInv, NEW r \in Requests, FulfilGrant(r) \/ FulfilEnrol(r)
  PROVE  \E p \in PaymentIds :
            \E i \in order[p].items : order[p] # NoOrder /\ Abstract!HandOver(p, i)
  <1> USE DEF IInv, TypeOK
  <1>1. PICK p \in PaymentIds, o \in Orders :
          /\ p = job[r].pay /\ o = job[r].order
          /\ verified[p] /\ order[p] = o
          /\ job[r].todo \subseteq o.items
    <2>1. pc[r] \in {"grant", "enrol"}
      BY DEF FulfilGrant, FulfilEnrol
    <2>2. QED
      BY <2>1, AtWork DEF Knows, FulfilmentKnows, BeforeRow, OnVerified, Fulfilling
  <1>2. o # NoOrder /\ UNCHANGED <<order, verified>>
    BY DEF FulfilGrant, FulfilEnrol, rows
  <1>3. CASE FulfilGrant(r)
    <2>1. PICK i \in o.items : downloads' = downloads \cup {<<o.user, i, p>>}
      BY <1>1, <1>3 DEF FulfilGrant
    <2>a. enrolled' = enrolled
      BY <1>3 DEF FulfilGrant
    <2>b. ASSUME NEW x \in HandedOver'
          PROVE  x \in HandedOver \cup {<<o.user, i>>}
      <3>1. CASE x \in enrolled
        BY <3>1 DEF HandedOver
      <3>2. CASE x \notin enrolled
        <4>1. PICK d \in downloads' : x = <<d[1], d[2]>>
          BY <2>a, <3>2 DEF HandedOver, Owned
        <4>2. CASE d \in downloads
          BY <4>1, <4>2 DEF HandedOver, Owned
        <4>3. CASE d = <<o.user, i, p>>
          BY <4>1, <4>3
        <4>4. QED
          BY <2>1, <4>2, <4>3
      <3>3. QED
        BY <3>1, <3>2
    <2>c. HandedOver \subseteq HandedOver'
      BY <2>1, <2>a DEF HandedOver, Owned
    <2>d. <<o.user, i>> \in HandedOver'
      <3>a. PICK d : d = <<o.user, i, p>>
        OBVIOUS
      <3>1. d[1] = o.user /\ d[2] = i
        BY <3>a
      <3>2. d \in downloads'
        BY <2>1, <3>a
      <3>3. <<d[1], d[2]>> \in HandedOver'
        BY <3>2 DEF HandedOver, Owned
      <3>4. QED
        BY <3>1, <3>3
    <2>2. HandedOver' = HandedOver \cup {<<o.user, i>>}
      BY <2>b, <2>c, <2>d
    <2>3. QED
      BY <1>1, <1>2, <2>1, <2>2 DEF Abstract!HandOver, PaidRows
  <1>4. CASE FulfilEnrol(r)
    <2>1. PICK i \in o.items : enrolled' = enrolled \cup {<<o.user, i>>}
      BY <1>1, <1>4 DEF FulfilEnrol
    <2>2. HandedOver' = HandedOver \cup {<<o.user, i>>}
      BY <1>4, <2>1 DEF HandedOver, FulfilEnrol
    <2>3. QED
      BY <1>1, <1>2, <2>1, <2>2 DEF Abstract!HandOver, PaidRows
  <1>5. QED
    BY <1>3, <1>4

\* Every step of the payment code is a step of the promise, or changes nothing
\* that the promise speaks of.
LEMMA StepRefines ==
  ASSUME IInv, Next
  PROVE  [Abstract!Next]_(Abstract!purchaseVars)
  <1> USE DEF IInv, TypeOK
  <1>1. ASSUME NEW r \in Requests, FulfilGrant(r) \/ FulfilEnrol(r)
        PROVE  Abstract!Next
    BY <1>1, GrantHandsOver DEF Abstract!Next
  <1>2. ASSUME downloads' = downloads, enrolled' = enrolled
        PROVE  HandedOver' = HandedOver
    BY <1>2 DEF HandedOver, Owned
  <1>3. ASSUME UNCHANGED rows, HandedOver' = HandedOver
        PROVE  UNCHANGED Abstract!purchaseVars
    BY <1>3 DEF rows, Abstract!purchaseVars, PaidRows
  <1>4. ASSUME NEW r \in Requests, CreatePayment(r), HandedOver' = HandedOver
        PROVE  Abstract!Next
    <2>1. PICK p \in PaymentIds :
            status[p] = "NONE" /\ order' = [order EXCEPT ![p] = job[r].order]
      BY <1>4 DEF CreatePayment, Fresh, Rows
    <2>2. job[r].order \in Orders /\ order[p] = NoOrder /\ PaidRows' = PaidRows
      BY <1>4, <2>1, AtWork DEF CreatePayment, BeforeRow, RowsMatch, PaidRows
    <2>3. Abstract!Place(p, job[r].order)
      BY <1>4, <2>1, <2>2 DEF Abstract!Place
    <2>4. QED
      BY <2>2, <2>3 DEF Abstract!Next
  <1>5. ASSUME NEW r \in Requests, DebitWallet(r), HandedOver' = HandedOver
        PROVE  Abstract!Next
    <2>1. PICK p \in PaymentIds :
            /\ status[p] = "NONE"
            /\ order' = [order EXCEPT ![p] = job[r].order]
            /\ verified' = [verified EXCEPT ![p] = TRUE]
      BY <1>5 DEF DebitWallet, Fresh, Rows
    <2>2. job[r].order \in Orders /\ order[p] = NoOrder
      BY <1>5, <2>1, AtWork DEF DebitWallet, BeforeRow, RowsMatch
    <2>3. PaidRows' = PaidRows \cup {p}
      BY <2>1 DEF PaidRows
    <2>4. Abstract!PlacePaid(p, job[r].order)
      BY <1>5, <2>1, <2>2, <2>3 DEF Abstract!PlacePaid
    <2>5. QED
      BY <2>2, <2>4 DEF Abstract!Next
  <1>6. ASSUME NEW r \in Requests, VerifyComplete(r), HandedOver' = HandedOver
        PROVE  Abstract!Next
    <2>1. PICK p \in PaymentIds : p = job[r].pay /\ order[p] \in Orders
      BY <1>6, AtWork DEF VerifyComplete, BeforeRow
    <2>2. PaidRows' = PaidRows \cup {p} /\ UNCHANGED order
      BY <1>6, <2>1 DEF VerifyComplete, PaidRows
    <2>3. Abstract!Pay(p)
      BY <1>6, <2>1, <2>2 DEF Abstract!Pay
    <2>4. QED
      BY <2>3 DEF Abstract!Next
  <1>7. ASSUME NEW r \in Requests, HandedOver' = HandedOver,
               \/ RecordCharge(r) \/ RefuseCharge(r) \/ VerifyDecline(r)
               \/ RefundWrite(r)
        PROVE  UNCHANGED Abstract!purchaseVars
    BY <1>7 DEF RecordCharge, RefuseCharge, VerifyDecline, RefundWrite,
       PaidRows, Abstract!purchaseVars
  <1>8. QED
    BY <1>1, <1>2, <1>3, <1>4, <1>5, <1>6, <1>7, RowSteps, GrantSteps

\* Every behaviour of the payment code is one the abstract specification
\* allows: goods are handed out for paid purchases of that customer only.
THEOREM Refinement == Spec => ImplementsPurchases
  <1>1. Init => Abstract!Init
    BY DEF Init, Abstract!Init, PaidRows, HandedOver, Owned
  <1>2. IInv /\ [Next]_vars => [Abstract!Next]_(Abstract!purchaseVars)
    <2>1. ASSUME UNCHANGED vars
          PROVE  UNCHANGED Abstract!purchaseVars
      BY <2>1 DEF vars, rows, goods, Abstract!purchaseVars, PaidRows, HandedOver, Owned
    <2>2. QED
      BY <2>1, StepRefines
  <1>3. QED
    BY <1>1, <1>2, Invariant, PTL DEF Spec, ImplementsPurchases, Abstract!Spec

(***************************************************************************)
(* Breakers in front of the providers: they take nothing from what is      *)
(* proved of the payments, and count as they should whatever calls overlap *)
(***************************************************************************)

USE ThresholdAssumption, LiveAssumption

\* Every step with breakers is a step of the payments without, or changes only
\* the breakers.
LEMMA GuardedStep ==
  ASSUME GuardedNext \/ UNCHANGED guardedVars
  PROVE  Next \/ UNCHANGED vars
  <1>1. ASSUME NEW r \in Requests,
               Statement(r) \/ TurnAway(r) \/ CallAnswers(r) \/ CallThrows(r)
        PROVE  Next
    BY <1>1 DEF Statement, TurnAway, CallAnswers, CallThrows, Throws, Answers, Checkout,
       Settle, Next, Serve
  <1>2. ASSUME Customer
        PROVE  Next
    BY <1>2 DEF Next, Serve
  <1>3. QED
    BY <1>1, <1>2 DEF GuardedNext, Admit, Elapse, guardedVars

\* What is proved of Payments holds with breakers in front of the providers.
THEOREM GuardedImplementsPayments == GuardedSpec => Spec
  <1>1. GuardedInit => Init
    BY DEF GuardedInit
  <1>2. [GuardedNext]_guardedVars => [Next]_vars
    BY GuardedStep
  <1>3. QED
    BY <1>1, <1>2, PTL DEF GuardedSpec, Spec

(***************************************************************************)
(* The breakers                                                            *)
(***************************************************************************)

\* A call that a breaker admitted is still to end, at a provider with credentials.
CallsAreMade ==
    /\ breaker \in [LiveProviders -> Breaker]
    /\ \A r \in calling : r \in Requests /\ pc[r] \in Calls /\ Reached(r)

GuardInv == CallsAreMade /\ BreakersCount

\* What a call does to the counters of a breaker.
LEMMA BreakerOperators ==
  ASSUME NEW b \in Breaker
  PROVE  /\ Succeeded(b) \in Breaker /\ Succeeded(b).failures = 0 /\ Succeeded(b).opened = b.opened
         /\ Failed(b) \in Breaker /\ Failed(b).failures = b.failures + 1
         /\ Failed(b).opened = "no" => Failed(b).failures < Threshold
         /\ Admitted(b) \in Breaker
         /\ Admits(b) => Admitted(b) = IF b.opened = "no" THEN b ELSE Closed
         /\ Elapsed(b) \in Breaker /\ Elapsed(b).failures = b.failures /\ Elapsed(b).opened # "no"
  <1>1. b.failures \in Nat /\ b.opened \in Phases /\ b = [failures |-> b.failures, opened |-> b.opened]
    BY DEF Breaker
  <1>2. "no" \in Phases /\ "recently" \in Phases /\ "long ago" \in Phases
    BY DEF Phases
  <1>3. Threshold \in Nat /\ b.failures + 1 \in Nat
    BY <1>1
  <1>4. /\ Failed(b).failures = b.failures + 1
        /\ Failed(b).opened = IF b.failures + 1 >= Threshold THEN "recently" ELSE b.opened
    BY DEF Failed
  <1>5. Failed(b) \in Breaker
    BY <1>1, <1>2, <1>3 DEF Failed, Breaker
  <1>6. Failed(b).opened = "no" => Failed(b).failures < Threshold
    <2>1. b.failures + 1 >= Threshold \/ b.failures + 1 < Threshold
      BY <1>3
    <2>2. QED
      BY <1>4, <2>1, Zenon
  <1>7. Admits(b) => b.opened = "no" \/ b.opened = "long ago"
    BY <1>1 DEF Admits, Phases
  <1>8. QED
    BY <1>1, <1>2, <1>4, <1>5, <1>6, <1>7 DEF Succeeded, Admitted, Elapsed, Breaker, Closed

\* Calls are counted with the breaker of their provider.
LEMMA CallsOfFinite ==
  ASSUME CallsAreMade, NEW v \in LiveProviders
  PROVE  /\ IsFiniteSet(CallsOf(v)) /\ Cardinality(CallsOf(v)) \in Nat
         /\ CallsOf(v) \subseteq Requests
         /\ Cardinality(CallsOf(v)) <= Cardinality(Requests)
         /\ Cardinality(Requests) \in Nat
  BY FS_Subset, FS_CardinalityType DEF CallsAreMade, CallsOf

\* While nobody's call begins or ends, they are counted as before.
LEMMA SameCalls ==
  ASSUME CallsAreMade, UNCHANGED guards,
         \A q \in calling : pc'[q] = pc[q] /\ job'[q] = job[q]
  PROVE  CallsAreMade' /\ \A v \in LiveProviders : CallsOf(v)' = CallsOf(v)
  BY DEF CallsAreMade, CallsOf, Reached, guards

\* A call that ends is no longer counted, and the others are.
LEMMA OneCallLess ==
  ASSUME IInv, CallsAreMade, NEW r \in calling, Throws(r) \/ Answers(r),
         calling' = calling \ {r}, breaker' \in [LiveProviders -> Breaker]
  PROVE  /\ CallsAreMade'
         /\ \A v \in LiveProviders :
               CallsOf(v)' = IF v = job[r].provider THEN CallsOf(v) \ {r} ELSE CallsOf(v)
  <1>1. r \in Requests /\ (Checkout(r) \/ Settle(r))
    BY DEF CallsAreMade, Throws, Answers, Checkout, Settle
  <1>2. \A q \in calling \ {r} : pc'[q] = pc[q] /\ job'[q] = job[q]
    BY <1>1, OthersKeep DEF CallsAreMade
  <1>3. CallsAreMade'
    BY <1>2 DEF CallsAreMade, Reached
  <1>4. QED
    BY <1>2, <1>3 DEF CallsOf

\* The counters stay within their bounds: a call that throws passes from those in
\* flight to the failures, and only a breaker that does not admit calls counts up
\* to the threshold.
LEMMA BreakersStep ==
  ASSUME IInv, GuardInv, GuardedNext \/ UNCHANGED guardedVars
  PROVE  GuardInv'
  <1> USE DEF GuardInv
  <1> DEFINE Within(b, n) == /\ b.opened = "no" => b.failures < Threshold
                             /\ b.failures + n < Threshold + Cardinality(Requests)
  <1>0. BreakersCount <=> \A v \in LiveProviders : Within(breaker[v], Cardinality(CallsOf(v)))
    BY DEF BreakersCount
  <1>1. ASSUME NEW r \in Requests, Statement(r)
        PROVE  GuardInv'
    <2>1. \A q \in calling : q \in Requests /\ q # r
      BY <1>1 DEF Statement, CallsAreMade
    <2>2. \A q \in calling : pc'[q] = pc[q] /\ job'[q] = job[q]
      BY <1>1, <2>1, OthersKeep DEF Statement
    <2>3. QED
      BY <1>1, <2>2, SameCalls DEF Statement, BreakersCount, guards
  <1>2. ASSUME NEW r \in Requests, Admit(r)
        PROVE  GuardInv'
    <2>1. PICK v \in LiveProviders : v = job[r].provider
      BY <1>2 DEF Admit, Reached
    <2>2. /\ breaker[v] \in Breaker /\ Admits(breaker[v])
          /\ breaker' = [breaker EXCEPT ![v] = Admitted(breaker[v])]
      BY <1>2, <2>1 DEF Admit, CallsAreMade
    <2>3. breaker' \in [LiveProviders -> Breaker] /\ breaker'[v] = Admitted(breaker[v])
          /\ \A w \in LiveProviders : w # v => breaker'[w] = breaker[w]
      BY <2>2, BreakerOperators DEF CallsAreMade
    <2>4. CallsAreMade'
      BY <1>2, <2>3 DEF Admit, CallsAreMade, Reached, vars, local
    <2>5. \A w \in LiveProviders : w # v => CallsOf(w)' = CallsOf(w)
      BY <1>2, <2>1 DEF Admit, CallsOf, vars, local, CallsAreMade
    <2>6. Admitted(breaker[v]).failures \in Nat /\ Admitted(breaker[v]).failures < Threshold
      <3>1. CASE breaker[v].opened = "no"
        BY <1>0, <2>2, <3>1, BreakerOperators DEF Breaker
      <3>2. CASE breaker[v].opened # "no"
        BY <2>2, <3>2, BreakerOperators DEF Closed
      <3>3. QED
        BY <3>1, <3>2
    <2>7. CallsOf(v)' \subseteq Requests
      BY <2>4 DEF CallsAreMade, CallsOf
    <2>8. Cardinality(CallsOf(v)') \in Nat /\ Cardinality(CallsOf(v)') <= Cardinality(Requests)
          /\ Cardinality(Requests) \in Nat
      BY <2>7, FS_Subset, FS_CardinalityType
    <2>9. Within(breaker'[v], Cardinality(CallsOf(v)'))
      BY <2>3, <2>6, <2>8
    <2>10. \A w \in LiveProviders : Within(breaker'[w], Cardinality(CallsOf(w)'))
      <3>1. \A w \in LiveProviders : w # v => Within(breaker'[w], Cardinality(CallsOf(w)'))
        BY <1>0, <2>3, <2>5
      <3>2. QED
        <4> HIDE DEF Within
        <4>1. QED BY <2>9, <3>1
    <2>11. QED
      BY <2>4, <2>10 DEF BreakersCount
  <1>3. ASSUME NEW r \in Requests, TurnAway(r)
        PROVE  GuardInv'
    <2>1. Checkout(r) \/ Settle(r)
      BY <1>3 DEF TurnAway, Throws, Checkout, Settle
    <2>2. \A q \in calling : pc'[q] = pc[q] /\ job'[q] = job[q]
      BY <1>3, <2>1, OthersKeep DEF TurnAway, CallsAreMade
    <2>3. QED
      BY <1>3, <2>2, SameCalls DEF TurnAway, BreakersCount, guards
  <1>4. ASSUME NEW r \in Requests, CallAnswers(r) \/ CallThrows(r)
        PROVE  GuardInv'
    <2>1. r \in calling /\ calling' = calling \ {r} /\ (Throws(r) \/ Answers(r))
      BY <1>4 DEF CallAnswers, CallThrows
    <2>2. PICK v \in LiveProviders : v = job[r].provider
      BY <2>1 DEF CallsAreMade, Reached
    <2>3. breaker[v] \in Breaker /\ breaker[v].failures \in Nat
      BY DEF CallsAreMade, Breaker
    <2>4. PICK b \in Breaker :
            /\ breaker' = [breaker EXCEPT ![v] = b]
            /\ b.failures <= breaker[v].failures + 1
            /\ b.opened = "no" => b.failures < Threshold
      <3> DEFINE s == Succeeded(breaker[v])
                 f == Failed(breaker[v])
      <3>0. /\ s \in Breaker /\ s.failures = 0 /\ s.opened = breaker[v].opened
            /\ f \in Breaker /\ f.failures = breaker[v].failures + 1
            /\ f.opened = "no" => f.failures < Threshold
        BY <2>3, BreakerOperators
      <3>1. CASE CallAnswers(r)
        <4>1. breaker' = [breaker EXCEPT ![v] = s]
          BY <3>1, <2>2 DEF CallAnswers
        <4>2. s.failures <= breaker[v].failures + 1 /\ (s.opened = "no" => s.failures < Threshold)
          BY <3>0, <2>3
        <4>3. QED
          BY <4>1, <4>2, <3>0
      <3>2. CASE CallThrows(r)
        <4>1. breaker' = [breaker EXCEPT ![v] = f]
          BY <3>2, <2>2 DEF CallThrows
        <4>2. f.failures <= breaker[v].failures + 1
          BY <3>0, <2>3
        <4>3. QED
          BY <4>1, <4>2, <3>0
      <3>3. QED
        BY <1>4, <3>1, <3>2
    <2>5. breaker' \in [LiveProviders -> Breaker] /\ breaker'[v] = b
          /\ \A w \in LiveProviders : w # v => breaker'[w] = breaker[w]
      BY <2>4 DEF CallsAreMade
    <2>6. CallsAreMade' /\ \A w \in LiveProviders :
             CallsOf(w)' = IF w = v THEN CallsOf(w) \ {r} ELSE CallsOf(w)
      BY <2>1, <2>2, <2>5, OneCallLess
    <2>7. r \in CallsOf(v) /\ CallsOf(v)' = CallsOf(v) \ {r}
      BY <2>1, <2>2, <2>6 DEF CallsOf
    <2>8. Cardinality(CallsOf(v)') = Cardinality(CallsOf(v)) - 1
      <3>1. IsFiniteSet(CallsOf(v))
        BY CallsOfFinite
      <3>2. QED
        BY <2>7, <3>1, FS_RemoveElement
    <2>9. Within(b, Cardinality(CallsOf(v)'))
      <3>1. b.failures \in Nat /\ Cardinality(CallsOf(v)) \in Nat /\ Cardinality(Requests) \in Nat
        BY CallsOfFinite DEF Breaker
      <3>2. breaker[v].failures + Cardinality(CallsOf(v)) < Threshold + Cardinality(Requests)
        BY <1>0
      <3>3. QED
        BY <2>3, <2>4, <2>8, <3>1, <3>2
    <2>10. \A w \in LiveProviders : w # v => Within(breaker'[w], Cardinality(CallsOf(w)'))
      BY <1>0, <2>5, <2>6
    <2>11. \A w \in LiveProviders : Within(breaker'[w], Cardinality(CallsOf(w)'))
      <3> HIDE DEF Within
      <3>1. QED
        BY <2>5, <2>9, <2>10
    <2>12. QED
      BY <2>6, <2>11 DEF BreakersCount
  <1>5. CASE Customer /\ UNCHANGED guards
    BY <1>5, SameCalls DEF Customer, AddToCart, RemoveFromCart, PayerApproves, PayerDeclines,
       local, BreakersCount, guards
  <1>6. ASSUME NEW v \in LiveProviders, Elapse(v)
        PROVE  GuardInv'
    <2>1. breaker[v] \in Breaker /\ Elapsed(breaker[v]) \in Breaker
          /\ Elapsed(breaker[v]).failures = breaker[v].failures
          /\ Elapsed(breaker[v]).opened # "no"
      BY BreakerOperators DEF CallsAreMade
    <2>2. CallsAreMade' /\ \A w \in LiveProviders : CallsOf(w)' = CallsOf(w)
      BY <1>6, <2>1 DEF Elapse, CallsAreMade, CallsOf, Reached, vars, local
    <2>3. breaker'[v] = Elapsed(breaker[v]) /\ \A w \in LiveProviders : w # v => breaker'[w] = breaker[w]
      BY <1>6 DEF Elapse, CallsAreMade
    <2>4. QED
      BY <2>1, <2>2, <2>3 DEF BreakersCount
  <1>7. CASE UNCHANGED guardedVars
    BY <1>7, SameCalls DEF guardedVars, vars, local, guards, BreakersCount
  <1>8. QED
    BY <1>1, <1>2, <1>3, <1>4, <1>5, <1>6, <1>7 DEF GuardedNext

\* Whatever calls overlap, a breaker that has counted enough failures is not
\* closed, and the count passes the threshold by less than the requests there are.
THEOREM BreakersAreBounded ==
  GuardedSpec => []BreakersCount
  <1>1. GuardedInit => GuardInv
    <2> SUFFICES ASSUME GuardedInit PROVE GuardInv
      OBVIOUS
    <2>1. breaker \in [LiveProviders -> Breaker] /\ calling = {}
          /\ \A v \in LiveProviders : breaker[v].failures = 0
      BY DEF GuardedInit, Closed, Breaker, Phases
    <2>2. \A v \in LiveProviders : CallsOf(v) = {}
      BY <2>1 DEF CallsOf
    <2>3. Cardinality(Requests) \in Nat /\ Cardinality({}) = 0 /\ Threshold \in Nat \ {0}
      BY FS_CardinalityType, FS_EmptySet
    <2>4. 0 < Threshold /\ 0 + 0 < Threshold + Cardinality(Requests)
      BY <2>3
    <2>5. BreakersCount
      BY <2>1, <2>2, <2>3, <2>4 DEF BreakersCount
    <2>6. QED
      BY <2>1, <2>5 DEF GuardInv, CallsAreMade
  <1>2. IInv /\ GuardInv /\ [GuardedNext]_guardedVars => GuardInv'
    BY BreakersStep
  <1>3. GuardInv => BreakersCount
    BY DEF GuardInv
  <1>4. QED
    BY <1>1, <1>2, <1>3, GuardedImplementsPayments, Invariant, PTL DEF GuardedSpec
=============================================================================
