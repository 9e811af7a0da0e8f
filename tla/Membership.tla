----------------------------- MODULE Membership -----------------------------
(***************************************************************************)
(* The members: the users table, written by logins, by the synchronisation *)
(* with the company's directory and by administrators.                     *)
(*                                                                         *)
(* A login asks the local password or the company's system, reads the      *)
(* user, computes role and company, and then creates or updates the row.   *)
(* The synchronisation lists the directory, and for each member reads the  *)
(* user and upserts the row.  Creating and editing a member hash a         *)
(* password between their read and their write.  No two steps share a      *)
(* transaction, so each may be overtaken by the others.  What the          *)
(* synchronisation does to the balances of leave is in LeaveBook;          *)
(* Personnel has both.                                                     *)
(***************************************************************************)
EXTENDS Integers, FiniteSets, Functions

CONSTANTS
  Emails,
  OfCompany,      \* emails of the company's own domain
  Listable,       \* emails the directory may list
  Seeded,         \* the users table of a new installation
  Logins,         \* logins that take place
  Editors,        \* administrators
  MaxSyncs,       \* bound: synchronisations
  MaxEdits,       \* bound: members created or edited
  MaxMoves,       \* bound: changes of the directory
  None

Local   == {"EXAM", "EXAM_ADMIN"}
Family  == {"ADMIN", "EZPASS_ADMIN", "EXAM_ADMIN"}
Roles   == Family \cup {"EZPASS", "EXAM"}
Companies == {"EZPASS", "EXAM", None}

Absent == [role |-> None, company |-> None, local |-> FALSE, active |-> FALSE]
Rows   == {Absent} \cup [role : Roles, company : Companies, local : BOOLEAN, active : BOOLEAN]

\* What a seeded row looks like: an administrator of all companies, or a member of one.
CompanyOf(role) ==
  CASE role = "ADMIN" -> None
    [] role \in {"EXAM", "EXAM_ADMIN"} -> "EXAM"
    [] role \in {"EZPASS", "EZPASS_ADMIN"} -> "EZPASS"

MembershipAssumption ==
  /\ OfCompany \subseteq Emails /\ Listable \subseteq Emails
  /\ Seeded \in [Emails -> Rows]
  /\ \A e \in Emails : Seeded[e] # Absent =>
       /\ Seeded[e].company = CompanyOf(Seeded[e].role)
       /\ e \in OfCompany => Seeded[e].role \notin Local
       /\ e \notin OfCompany \cup Listable => Seeded[e].role \notin {"EZPASS", "EZPASS_ADMIN"}
  /\ MaxSyncs \in Nat /\ MaxEdits \in Nat /\ MaxMoves \in Nat
  /\ None \notin Emails /\ None \notin Roles /\ None \notin {"EZPASS", "EXAM"}

VARIABLES
  row,         \* users, by email
  directory,   \* the company's directory: "none", "staff" or "manager"
  login,       \* where each login is and what it has read
  sync,        \* the synchronisation under way: members to do, and the one it has read
  edit,        \* what each administrator's request has read
  syncs, edits, moves,
  adopted      \* history: of the company's domain, and given a local role by an edit

bounds == <<syncs, edits, moves, adopted>>
vars == <<row, directory, login, sync, edit, bounds>>

Waiting  == [at |-> "waiting", email |-> None, hint |-> FALSE, was |-> None, role |-> None, stale |-> FALSE]
Finished == [Waiting EXCEPT !.at = "finished"]
NoSync   == [todo |-> {}, email |-> None, was |-> None, role |-> None]
NoEdit   == [email |-> None, create |-> FALSE]

Init ==
  /\ row = Seeded
  /\ directory = [e \in Emails |-> IF e \in Listable THEN "staff" ELSE "none"]
  /\ login = [l \in Logins |-> Waiting]
  /\ sync = NoSync /\ edit = [a \in Editors |-> NoEdit]
  /\ syncs = 0 /\ edits = 0 /\ moves = 0 /\ adopted = {}

\* The company's personnel department moves somebody.
DirectoryChanges(e, standing) ==
  /\ e \in Listable /\ directory[e] # standing
  /\ moves < MaxMoves /\ moves' = moves + 1
  /\ directory' = [directory EXCEPT ![e] = standing]
  /\ UNCHANGED <<row, login, sync, edit, syncs, edits, adopted>>

-----------------------------------------------------------------------------
(* A login.                                                                *)

\* A member with a local password is checked here and nowhere else.
AuthenticateLocally(l, e) ==
  /\ login[l] = Waiting
  /\ row[e].local /\ row[e].active
  /\ login' = [login EXCEPT ![l] = [@ EXCEPT !.at = "known", !.email = e, !.hint = (row[e].role = "ADMIN")]]
  /\ UNCHANGED <<row, directory, sync, edit, bounds>>

\* Everybody else is known, or not, to the company's system, which may call a user an
\* administrator.
AuthenticateByCompany(l, e) ==
  /\ login[l] = Waiting
  /\ ~ row[e].local
  /\ \E hint \in BOOLEAN :
       login' = [login EXCEPT ![l] = [@ EXCEPT !.at = "known", !.email = e, !.hint = hint]]
  /\ UNCHANGED <<row, directory, sync, edit, bounds>>

DomainRole(e, hint) ==
  IF hint THEN IF e \in OfCompany THEN "EZPASS_ADMIN" ELSE "EXAM_ADMIN"
          ELSE IF e \in OfCompany THEN "EZPASS" ELSE "EXAM"

ResolvedByDomain(e, was, hint) == DomainRole(e, hint)    \* Mutant: administrators too.
\* resolveRole: administrators stay what they are.
Resolved(e, was, hint) == IF was \in Family THEN was ELSE DomainRole(e, hint)

\* findUnique, and the row that ought to be; a changed name makes a write of its own.
ReadUser(l) ==
  /\ login[l].at = "known"
  /\ LET e == login[l].email
         role == Resolved(e, row[e].role, login[l].hint)
     IN \E renamed \in BOOLEAN :
          login' = [login EXCEPT ![l] =
            [@ EXCEPT !.at = "read", !.was = row[e].role, !.role = role,
                      !.stale = renamed \/ row[e].role # role \/ row[e].company # CompanyOf(role)]]
  /\ UNCHANGED <<row, directory, sync, edit, bounds>>

\* The row is created, or the email has appeared meanwhile and the create fails.
Provision(l) ==
  /\ login[l].at = "read" /\ login[l].was = None
  /\ LET e == login[l].email IN
     row' = IF row[e] = Absent
            THEN [row EXCEPT ![e] = [role |-> login[l].role, company |-> CompanyOf(login[l].role),
                                     local |-> FALSE, active |-> TRUE]]
            ELSE row
  /\ login' = [login EXCEPT ![l] = Finished]
  /\ UNCHANGED <<directory, sync, edit, bounds>>

Realigned(r, role) == [r EXCEPT !.role = role, !.company = CompanyOf(role)]

Update(l) ==
  /\ login[l].at = "read" /\ login[l].was # None
  /\ row' = IF login[l].stale
            THEN [row EXCEPT ![login[l].email] = Realigned(@, login[l].role)]
            ELSE row
  /\ login' = [login EXCEPT ![l] = Finished]
  /\ UNCHANGED <<directory, sync, edit, bounds>>

-----------------------------------------------------------------------------
(* The synchronisation with the directory.                                 *)

ListDirectory ==
  /\ sync = NoSync
  /\ syncs < MaxSyncs /\ syncs' = syncs + 1
  /\ sync' = [sync EXCEPT !.todo = {<<e, directory[e]>> : e \in {f \in Emails : directory[f] # "none"}}]
  /\ UNCHANGED <<row, directory, login, edit, edits, moves, adopted>>

ListedRole(was, standing) ==
  IF was \in Family THEN was ELSE IF standing = "manager" THEN "EZPASS_ADMIN" ELSE "EZPASS"

ReadListed ==
  /\ sync.email = None
  /\ \E m \in sync.todo :
       sync' = [todo |-> sync.todo \ {m}, email |-> m[1], was |-> row[m[1]].role,
                role |-> ListedRole(row[m[1]].role, m[2])]
  /\ UNCHANGED <<row, directory, login, edit, bounds>>

Mirrored(r, role) ==
  IF r = Absent THEN [role |-> role, company |-> None, local |-> FALSE, active |-> TRUE]
                ELSE [r EXCEPT !.role = role]

NextMember == sync.email # None /\ sync' = [NoSync EXCEPT !.todo = sync.todo]

\* The upsert.
WriteListed ==
  /\ NextMember
  /\ row' = [row EXCEPT ![sync.email] = Mirrored(@, sync.role)]
  /\ UNCHANGED <<directory, login, edit, bounds>>

\* An error is noted and the next member follows.
SkipListed ==
  /\ NextMember
  /\ UNCHANGED <<row, directory, login, edit, bounds>>

-----------------------------------------------------------------------------
(* Members made and changed by administrators.                             *)

Begin(a, e, create) ==
  /\ edit[a] = NoEdit
  /\ edits < MaxEdits /\ edits' = edits + 1
  /\ edit' = [edit EXCEPT ![a] = [email |-> e, create |-> create]]
  /\ UNCHANGED <<row, directory, login, sync, syncs, moves, adopted>>

CreatableAnywhere(e) == row[e] = Absent    \* Mutant: the company's domain is not refused.
Creatable(e) == row[e] = Absent /\ e \notin OfCompany

ReadForCreate(a, e) == Creatable(e) /\ Begin(a, e, TRUE)

\* Whoever is not a plain member of the company may be edited; the page offers it for
\* EXAM's members and their administrators only.
Editable(e) == row[e] # Absent /\ row[e].role # "EZPASS"

ReadForEdit(a, e) == Editable(e) /\ Begin(a, e, FALSE)

\* After the password is hashed: the create fails when the email has appeared.
WriteCreated(a, role) ==
  /\ edit[a].email # None /\ edit[a].create
  /\ row' = IF row[edit[a].email] = Absent
            THEN [row EXCEPT ![edit[a].email] = [role |-> role, company |-> None, local |-> TRUE, active |-> TRUE]]
            ELSE row
  /\ edit' = [edit EXCEPT ![a] = NoEdit]
  /\ UNCHANGED <<directory, login, sync, bounds>>

Edited(r, role, active, password) ==
  [r EXCEPT !.role = IF role = None THEN @ ELSE role, !.active = active, !.local = @ \/ password]

\* An edit sets what the request names: a local role, a password, whether the member is
\* active. The company stays.
WriteSaved(a, role) ==
  LET e == edit[a].email IN
  /\ e # None /\ ~ edit[a].create
  /\ \E active, password \in BOOLEAN :
       row' = [row EXCEPT ![e] = Edited(@, role, active, password)]
  /\ adopted' = IF role \in Local THEN adopted \cup ({e} \cap OfCompany) ELSE adopted
  /\ edit' = [edit EXCEPT ![a] = NoEdit]
  /\ UNCHANGED <<directory, login, sync, syncs, edits, moves>>

LogsIn(l) ==
  \/ ReadUser(l) \/ Provision(l) \/ Update(l)
  \/ \E e \in Emails : AuthenticateLocally(l, e) \/ AuthenticateByCompany(l, e)
Administers(a) ==
  \/ \E e \in Emails : ReadForCreate(a, e) \/ ReadForEdit(a, e)
  \/ \E role \in Local : WriteCreated(a, role)
  \/ \E role \in Local \cup {None} : WriteSaved(a, role)
Moves == \E e \in Emails, standing \in {"none", "staff", "manager"} : DirectoryChanges(e, standing)

Next ==
  \/ \E l \in Logins : LogsIn(l)
  \/ \E a \in Editors : Administers(a)
  \/ Moves
  \/ ListDirectory \/ ReadListed \/ WriteListed \/ SkipListed

Spec == Init /\ [][Next]_vars

-----------------------------------------------------------------------------
(* Properties.                                                             *)

LoginState ==
  [at : {"waiting", "known", "read", "finished"}, email : Emails \cup {None}, hint : BOOLEAN,
   was : Roles \cup {None}, role : Roles \cup {None}, stale : BOOLEAN]

TypeOK ==
  /\ row \in [Emails -> Rows]
  /\ directory \in [Emails -> {"none", "staff", "manager"}]
  /\ login \in [Logins -> LoginState]
  /\ sync.todo \subseteq Emails \X {"staff", "manager"}
  /\ sync \in [todo : {sync.todo}, email : Emails \cup {None}, was : Roles \cup {None},
               role : Roles \cup {None}]
  /\ edit \in [Editors -> [email : Emails \cup {None}, create : BOOLEAN]]
  /\ syncs \in Nat /\ edits \in Nat /\ moves \in Nat /\ adopted \subseteq OfCompany

\* A member's company, once it is set, is the one of the role, whoever wrote the row last
\* and however the writers overtook each other: by company members are listed. There are
\* two exceptions. An email that the directory lists although it is of another domain has
\* the company's role after a synchronisation and EXAM's after a login. And an edit may give
\* a local role to an administrator of the company's own domain, whose company it leaves
\* (manage-members.use-case refuses it for plain members only; no page asks for it).
CompanyFollowsRole ==
  \A e \in Emails \ ((Listable \ OfCompany) \cup adopted) :
    row[e] # Absent /\ row[e].company # None => row[e].company = CompanyOf(row[e].role)

\* An administrator loses the role to an administrator's edit, or to a login or a
\* synchronisation that had read the row before the promotion, and to nothing else
\* (resolveRole and the synchronisation keep administrators).
DemotedOnlyByOthers ==
  [][\A e \in Emails : row[e].role \in Family /\ row'[e].role \notin Family =>
       \/ \E a \in Editors : edit[a].email = e /\ edit'[a] = NoEdit
       \/ \E l \in Logins : login[l].email = e /\ login'[l] = Finished /\ login[l].was \notin Family
       \/ sync.email = e /\ sync'.email = None /\ sync.was \notin Family]_vars

\* An administrator stays one unless an administrator changes it (login.use-case:
\* the family of administrators is fixed).
PromotionKept ==
  [][\A e \in Emails : row[e].role \in Family /\ row'[e].role \notin Family =>
       \E a \in Editors : edit[a].email = e /\ edit'[a] = NoEdit]_vars
=============================================================================
