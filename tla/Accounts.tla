------------------------------ MODULE Accounts ------------------------------
(***************************************************************************)
(* Roles and suspensions: the handlers of adminController and              *)
(* adminDashboardController that change users, becomeCreator of            *)
(* userController, what middleware/auth lets through, and the page         *)
(* AdminUsersManagePage.                                                   *)
(*                                                                         *)
(* A handler looks at the role of the access token, which is that of the   *)
(* user's row when the token was signed; names, addresses and the other    *)
(* fields of a row are left out.  Sessions has the tokens' own life.       *)
(***************************************************************************)
EXTENDS Naturals

CONSTANTS
    Users,       \* the users
    Founder,     \* the one who is an administrator at first
    Roles,       \* the roles an administrator gives
    MaxChanges   \* bound on the changes of rows

VARIABLES
    row,         \* the rows of users
    badge,       \* the access token each user's pages hold
    list,        \* the users as each user's page shows them
    form,        \* the edit form of each page
    dropping,    \* deletions that have passed the count of templates
    rising,      \* becomeCreator calls that have read the row
    changes,     \* changes so far
    crossed,     \* history: one changed a row who was no administrator any more
    chosen,      \* history: the role chosen last for each user
    late         \* history: users whose role came with a form that did not show that choice

accountVars == <<row, badge, list, form, dropping, rising, changes, crossed, chosen, late>>

\* Of the staff roles, one that may not manage users, and none, which is all of them.
Staff == {"none", "FINANCE"}

Gone    == [there |-> FALSE, role |-> "USER", staff |-> "none", off |-> FALSE]
Signup  == [there |-> TRUE, role |-> "USER", staff |-> "none", off |-> FALSE]
NoBadge == [role |-> "none", staff |-> "none"]
NoList  == [role |-> [u \in Users |-> "none"], old |-> {}]
NoForm  == [on |-> Founder, role |-> "none", old |-> FALSE]

Init ==
    /\ row = [u \in Users |-> IF u = Founder THEN [Signup EXCEPT !.role = "ADMIN"] ELSE Signup]
    /\ badge = [u \in Users |-> NoBadge]
    /\ list = [u \in Users |-> NoList]
    /\ form = [u \in Users |-> NoForm]
    /\ dropping = {}
    /\ rising = {}
    /\ changes = 0
    /\ crossed = FALSE
    /\ chosen = [u \in Users |-> row[u].role]
    /\ late = {}

pages   == <<list, form>>
choices == <<chosen, late>>

-----------------------------------------------------------------------------
(* Who may *)

signAccessToken(u) ==
    [role |-> row[u].role,
     staff |-> IF row[u].staff = "none" /\ row[u].role = "ADMIN" THEN "SUPER" ELSE row[u].staff]

staffCan(staff, scope) ==
    staff \in CASE scope = "users" -> {"none", "SUPER"} [] scope = "settings" -> {"none", "SUPER"}

authenticate(u) == badge[u] # NoBadge

requireStaff(u, scope) ==
    /\ authenticate(u)
    /\ badge[u].role = "ADMIN"
    /\ staffCan(badge[u].staff, scope)

Enter(u) ==
    /\ badge' = [badge EXCEPT ![u] = signAccessToken(u)]
    /\ UNCHANGED <<row, pages, dropping, rising, changes, crossed, choices>>

\* With a password, or a refresh.
login(u) == row[u].there /\ ~row[u].off /\ Enter(u)

\* With Google, whose handlers do not look at the suspension.
googleAuthCallback(u) == row[u].there /\ Enter(u)

Expire(u) ==
    /\ authenticate(u)
    /\ badge' = [badge EXCEPT ![u] = NoBadge]
    /\ UNCHANGED <<row, pages, dropping, rising, changes, crossed, choices>>

-----------------------------------------------------------------------------
(* The page *)

\* A list may be of any age: of loads that overtake each other the older is shown.
load(a) ==
    /\ requireStaff(a, "users")
    /\ list' = [list EXCEPT ![a] = [role |-> [u \in Users |-> row[u].role], old |-> {}]]
    /\ UNCHANGED <<row, badge, form, dropping, rising, changes, crossed, choices>>

openEdit(a, u) ==
    /\ list[a] # NoList
    /\ form' = [form EXCEPT ![a] = [on |-> u, role |-> list[a].role[u], old |-> u \in list[a].old]]
    /\ UNCHANGED <<row, badge, list, dropping, rising, changes, crossed, choices>>

-----------------------------------------------------------------------------
(* The handlers *)

Active(u) == row[u].there /\ row[u].role = "ADMIN" /\ ~row[u].off

\* A change of u's row by a.
Change(a, u, to) ==
    /\ changes < MaxChanges
    /\ row[u].there
    /\ changes' = changes + 1
    /\ row' = [row EXCEPT ![u] = to]
    /\ crossed' = (crossed \/ ~Active(a))

\* A role is chosen: lists and forms that do not show it are old.
Choose(u, role) ==
    /\ chosen' = [chosen EXCEPT ![u] = role]
    /\ late' = late \ {u}
    /\ list' = [a \in Users |-> [list[a] EXCEPT !.old = IF list[a] = NoList THEN {} ELSE @ \cup {u}]]
    /\ form' = [a \in Users |-> [form[a] EXCEPT !.old = @ \/ (form[a] # NoForm /\ form[a].on = u)]]

\* Mutant: an administrator's own role is not excepted.
updateUserRole_Own(a, u, role) ==
    /\ requireStaff(a, "users")
    /\ list[a] # NoList
    /\ Change(a, u, [row[u] EXCEPT !.role = role])
    /\ Choose(u, role)
    /\ UNCHANGED <<badge, dropping, rising>>

\* The role list of a row.
updateUserRole(a, u, role) ==
    /\ requireStaff(a, "users")
    /\ list[a] # NoList
    /\ a = u => role = "ADMIN"
    /\ Change(a, u, [row[u] EXCEPT !.role = role])
    /\ Choose(u, role)
    /\ UNCHANGED <<badge, dropping, rising>>

\* saveEdit and updateUser: the form sends the role it shows with every other change;
\* another role is one chosen in it.
updateUser(a, role) ==
    LET u == form[a].on
    IN  /\ requireStaff(a, "users")
        /\ form[a] # NoForm
        /\ a = u => role = "ADMIN"
        /\ Change(a, u, [row[u] EXCEPT !.role = role])
        /\ IF role # form[a].role THEN Choose(u, role)
           ELSE /\ late' = IF form[a].old THEN late \cup {u} ELSE late
                /\ form' = [form EXCEPT ![a] = NoForm]
                /\ UNCHANGED <<list, chosen>>
        /\ UNCHANGED <<badge, dropping, rising>>

setStaffRole(a, u, staff) ==
    /\ requireStaff(a, "settings")
    /\ Change(a, u, [row[u] EXCEPT !.staff = staff])
    /\ UNCHANGED <<badge, pages, dropping, rising, choices>>

\* setSuspended, and bulkUsers for any number of rows, here one at a time.
setSuspended(a, u, suspend) ==
    /\ requireStaff(a, "users")
    /\ a = u => ~suspend
    /\ Change(a, u, [row[u] EXCEPT !.off = suspend])
    /\ UNCHANGED <<badge, pages, dropping, rising, choices>>

\* deleteUser: templates and courses are counted, then the sessions end, then the row goes.
CountOwned(a, u) ==
    /\ requireStaff(a, "users")
    /\ a # u /\ row[u].there
    /\ dropping' = dropping \cup {<<a, u>>}
    /\ UNCHANGED <<row, badge, pages, rising, changes, crossed, choices>>

\* The database keeps the row of who has made one meanwhile, or written a page of the site.
deleteUser(a, u) ==
    /\ <<a, u>> \in dropping
    /\ dropping' = dropping \ {<<a, u>>}
    /\ \/ Change(a, u, Gone)
       \/ UNCHANGED <<row, changes, crossed>>
    /\ UNCHANGED <<badge, pages, rising, choices>>

\* becomeCreator: the role is read, then set.
ReadRole(u) ==
    /\ authenticate(u)
    /\ row[u].there /\ row[u].role # "ADMIN"
    /\ rising' = rising \cup {u}
    /\ UNCHANGED <<row, badge, pages, dropping, changes, crossed, choices>>

becomeCreator(u) ==
    /\ u \in rising
    /\ rising' = rising \ {u}
    /\ changes < MaxChanges /\ row[u].there
    /\ row' = [row EXCEPT ![u].role = "CREATOR"]
    /\ changes' = changes + 1
    /\ crossed' = (crossed \/ row[u].role = "ADMIN")
    /\ badge' = [badge EXCEPT ![u] = [role |-> "CREATOR", staff |-> row[u].staff]]
    /\ Choose(u, "CREATOR")
    /\ UNCHANGED dropping

Next ==
    \E u \in Users :
        \/ login(u) \/ googleAuthCallback(u) \/ Expire(u) \/ load(u)
        \/ ReadRole(u) \/ becomeCreator(u)
        \/ \E role \in Roles \cup {form[u].role} : updateUser(u, role)
        \/ \E v \in Users :
               \/ openEdit(u, v) \/ CountOwned(u, v) \/ deleteUser(u, v)
               \/ \E role \in Roles : updateUserRole(u, v, role)
               \/ \E staff \in Staff : setStaffRole(u, v, staff)
               \/ \E suspend \in BOOLEAN : setSuspended(u, v, suspend)

Spec == Init /\ [][Next]_accountVars

-----------------------------------------------------------------------------
(* What the code keeps true *)

\* Somebody can always administer the site, unless a row was changed by one who was no
\* administrator any more, with an older token or in a deletion under way, or one became
\* a creator across a promotion; and a role is the one chosen last, unless it came with
\* a form that did not show that choice.
AdministrationHolds ==
    /\ crossed \/ \E u \in Users : Active(u)
    /\ \A u \in Users : row[u].there => row[u].role = chosen[u] \/ u \in late

-----------------------------------------------------------------------------
(* The inductive invariant of PaymentsProofs *)

AllRoles == Roles \cup {"USER", "ADMIN", "CREATOR", "none"}

\* The rows, lists and forms have the fields they are declared with.
TypeOK ==
    /\ row \in [Users -> [there : BOOLEAN, role : AllRoles, staff : Staff, off : BOOLEAN]]
    /\ list \in [Users -> [role : [Users -> AllRoles], old : SUBSET Users]]
    /\ form \in [Users -> [on : Users, role : AllRoles, old : BOOLEAN]]
    /\ chosen \in [Users -> AllRoles]
    /\ crossed \in BOOLEAN

\* What a page shows of a user's role is what was chosen last, unless the page is old.
Fresh(u, role) == row[u].there => role = chosen[u] \/ u \in late

AccountsInv ==
    /\ TypeOK
    /\ \A d \in dropping : d[1] # d[2]
    /\ \A a \in Users :
           /\ list[a] # NoList => \A u \in Users \ list[a].old : Fresh(u, list[a].role[u])
           /\ form[a] # NoForm /\ ~form[a].old => Fresh(form[a].on, form[a].role)
    /\ AdministrationHolds
=============================================================================
