-------------------------- MODULE PersonnelProofs --------------------------
(***************************************************************************)
(* For any emails, logins, editors, wins, uses and synchronisations.       *)
(* About the members: the roles that one of them can ever have stay on one *)
(* side, that of the company or that of EXAM, so that the company in the   *)
(* row is the one of the role in any order of the writers' steps.  About   *)
(* their leave: the plan of a use stays within what is left and keeps the  *)
(* order of the kinds, so that won and given days are never used beyond    *)
(* what there was, whatever the synchronisation writes meanwhile.          *)
(***************************************************************************)
EXTENDS Personnel, TLAPS

\* A row of somebody.
Member == [role : Roster!Roles, company : Roster!Companies, local : BOOLEAN, active : BOOLEAN]

USE PersonnelAssumption DEF Roster!MembershipAssumption, Book!LeaveAssumption, Member

-----------------------------------------------------------------------------
(* The members.                                                            *)

\* The emails whose directory and domain agree.
Plain == Emails \ (Listable \ OfCompany)

\* The roles such a member can have, while no edit gives an administrator of the company's
\* domain a local one.
SideOf(e) ==
  IF e \in OfCompany
  THEN IF Seeded[e].role = "ADMIN" THEN {"ADMIN"} ELSE {"EZPASS_ADMIN", "EZPASS"}
  ELSE Roster!Local \cup {"ADMIN"}

\* A member's row has one of these roles, and its company if it has one.
Fits(e, r) ==
  r # Roster!Absent => r.role \in SideOf(e) /\ r.company \in {None, Roster!CompanyOf(r.role)}

USE DEF Fits

-----------------------------------------------------------------------------
(* The invariant.                                                          *)

\* What the processes have read has the type of what they will write.
Prepared ==
  /\ \A e \in Emails : directory[e] # "none" => e \in Listable
  /\ \A m \in sync.todo : m[1] \in Listable
  /\ \A l \in Logins :
       /\ login[l].at \in {"known", "read"} => login[l].email \in Emails
       /\ login[l].at = "read" => login[l].role \in Roster!Roles
  /\ sync.email # None => sync.email \in Emails \cap Listable /\ sync.role \in Roster!Roles
  /\ \A a \in Editors : edit[a].email # None /\ ~ edit[a].create => row[edit[a].email] # Roster!Absent

Steady == Plain \ adopted

OneSide ==
  /\ \A e \in Steady :
       /\ Fits(e, row[e])
       /\ e \in OfCompany /\ Seeded[e].role = "ADMIN" => row[e] # Roster!Absent
  /\ \A l \in Logins :
       login[l].at = "read" /\ login[l].email \in Steady => login[l].role \in SideOf(login[l].email)
  /\ sync.email \in Steady => sync.role \in SideOf(sync.email)
  /\ \A a \in Editors : edit[a].create => edit[a].email \notin OfCompany

RosterInv == Roster!TypeOK /\ Prepared /\ OneSide

\* All roles of one side of the company's domain belong to one company.
LEMMA SideFacts ==
  ASSUME NEW e \in Emails
  PROVE  /\ SideOf(e) \subseteq Roster!Roles
         /\ e \in OfCompany =>
              \A r, q \in SideOf(e) : Roster!CompanyOf(r) = Roster!CompanyOf(q)
  BY DEF SideOf, Roster!Roles, Roster!Family, Roster!Local, Roster!CompanyOf

\* A row that is there has a role and a company.
LEMMA RowFacts ==
  ASSUME NEW r \in Roster!Rows
  PROVE  /\ r = Roster!Absent <=> r.role = None
         /\ r # Roster!Absent => r.role \in Roster!Roles /\ r.company \in Roster!Companies
         /\ r.role \in Roster!Roles \cup {None} /\ r.local \in BOOLEAN /\ r.active \in BOOLEAN
PROOF
  <1>1. CASE r = Roster!Absent
        BY <1>1 DEF Roster!Absent
  <1>2. CASE r \in Member
        <2>1. r.role \in Roster!Roles /\ r.company \in Roster!Companies /\ {r.local, r.active} \subseteq BOOLEAN
              BY <1>2
        <2>2. r.role # None  BY <2>1
        <2> QED  BY <2>1, <2>2 DEF Roster!Absent
  <1> QED  BY <1>1, <1>2 DEF Roster!Rows

\* What a login and the synchronisation resolve.
LEMMA ResolvedFacts ==
  ASSUME Roster!TypeOK, OneSide, NEW e \in Emails, NEW hint \in BOOLEAN
  PROVE  /\ Roster!Resolved(e, row[e].role, hint) \in Roster!Roles
         /\ e \in Steady => Roster!Resolved(e, row[e].role, hint) \in SideOf(e)
         /\ Roster!CompanyOf(Roster!Resolved(e, row[e].role, hint)) \in Roster!Companies
PROOF
  <1>1. row[e] \in Roster!Rows  BY DEF Roster!TypeOK
  <1>2. Roster!Resolved(e, row[e].role, hint) \in Roster!Roles
        BY DEF Roster!Resolved, Roster!DomainRole, Roster!Family, Roster!Roles
  <1>3. ASSUME e \in Steady  PROVE Roster!Resolved(e, row[e].role, hint) \in SideOf(e)
        <2>1. CASE row[e].role \in Roster!Family
              <3>1. row[e] # Roster!Absent  BY <1>1, <2>1, RowFacts DEF Roster!Family, Roster!Roles
              <3> QED  BY <1>3, <2>1, <3>1 DEF OneSide, Roster!Resolved
        <2>2. CASE row[e].role \notin Roster!Family
              <3>1. e \in OfCompany => Seeded[e].role # "ADMIN"
                    BY <1>3, <2>2 DEF OneSide, SideOf, Roster!Family
              <3> QED  BY <2>2, <3>1 DEF Roster!Resolved, Roster!DomainRole, SideOf, Roster!Local
        <2> QED  BY <2>1, <2>2
  <1>4. Roster!CompanyOf(Roster!Resolved(e, row[e].role, hint)) \in Roster!Companies
        BY <1>2 DEF Roster!CompanyOf, Roster!Companies, Roster!Roles, Roster!Family
  <1> QED  BY <1>2, <1>3, <1>4

\* The seed is on the side its accounts are on, and nobody is at work.
LEMMA RosterInit == Roster!Init => RosterInv
PROOF
  <1> SUFFICES ASSUME Roster!Init PROVE RosterInv  OBVIOUS
  <1> USE DEF Roster!Init
  <1>1. Roster!TypeOK
        BY DEF Roster!TypeOK, Roster!LoginState, Roster!Waiting, Roster!NoSync, Roster!NoEdit
  <1>2. Prepared
        BY DEF Prepared, Roster!Waiting, Roster!NoSync, Roster!NoEdit
  <1>3. OneSide
        <2>1. ASSUME NEW e \in Plain
              PROVE  /\ Fits(e, row[e])
                     /\ e \in OfCompany /\ Seeded[e].role = "ADMIN" => row[e] # Roster!Absent
              <3>1. e \in Emails /\ Seeded[e] \in Roster!Rows /\ row[e] = Seeded[e]
                    BY DEF Plain
              <3>2. Seeded[e] # Roster!Absent => Seeded[e].role \in Roster!Roles
                    BY <3>1, RowFacts
              <3>3. Seeded[e].role = "ADMIN" => Seeded[e] # Roster!Absent
                    BY <3>1, RowFacts DEF Roster!Roles, Roster!Family
              <3>4. Seeded[e] # Roster!Absent => Seeded[e].role \in SideOf(e)
                    BY <3>1, <3>2 DEF SideOf, Plain, Roster!Roles, Roster!Family, Roster!Local
              <3> QED  BY <3>1, <3>3, <3>4
        <2>2. None \notin Plain  BY DEF Plain
        <2> QED  BY <2>1, <2>2 DEF OneSide, Steady, Roster!Waiting, Roster!NoSync, Roster!NoEdit
  <1> QED  BY <1>1, <1>2, <1>3 DEF RosterInv

-----------------------------------------------------------------------------
(* Every step keeps the invariant.                                         *)

\* A change in the company's directory changes no row.
LEMMA DirectoryStep ==
  ASSUME RosterInv, NEW e \in Emails, NEW standing \in {"none", "staff", "manager"},
         Roster!DirectoryChanges(e, standing)
  PROVE  RosterInv'
  BY DEF RosterInv, Roster!TypeOK, Prepared, OneSide, Steady, Roster!DirectoryChanges

\* A login that is let in has read nothing yet.
LEMMA AuthenticateStep ==
  ASSUME RosterInv, NEW l \in Logins, NEW e \in Emails,
         Roster!AuthenticateLocally(l, e) \/ Roster!AuthenticateByCompany(l, e)
  PROVE  RosterInv'
PROOF
  <1> USE DEF RosterInv
  <1>1. /\ UNCHANGED <<row, directory, sync, edit, Roster!bounds>>
        /\ \E hint \in BOOLEAN :
             login' = [login EXCEPT ![l] = [@ EXCEPT !.at = "known", !.email = e, !.hint = hint]]
        BY DEF Roster!AuthenticateLocally, Roster!AuthenticateByCompany
  <1>2. PICK hint \in BOOLEAN :
          login' = [login EXCEPT ![l] = [@ EXCEPT !.at = "known", !.email = e, !.hint = hint]]
        BY <1>1
  <1>3. Roster!TypeOK'
        <2> DEFINE s == login[l]
        <2>0. s \in Roster!LoginState  BY DEF Roster!TypeOK
        <2>1. [s EXCEPT !.at = "known", !.email = e, !.hint = hint] \in Roster!LoginState
              <3> HIDE DEF s
              <3> QED  BY <2>0 DEF Roster!LoginState
        <2>2. login' \in [Logins -> Roster!LoginState]
              BY <1>2, <2>1 DEF Roster!TypeOK
        <2> QED  BY <1>1, <2>2 DEF Roster!TypeOK, Roster!bounds
  <1>4. Prepared'
        BY <1>1, <1>2 DEF Roster!TypeOK, Prepared
  <1>5. OneSide'
        BY <1>1, <1>2 DEF Roster!TypeOK, OneSide, Steady, Roster!bounds
  <1> QED  BY <1>3, <1>4, <1>5

\* A login resolves a role of the account's side.
LEMMA ReadUserStep ==
  ASSUME RosterInv, NEW l \in Logins, Roster!ReadUser(l)
  PROVE  RosterInv'
PROOF
  <1> USE DEF RosterInv
  <1> DEFINE e == login[l].email
             role == Roster!Resolved(e, row[e].role, login[l].hint)
  <1>0. login[l] \in Roster!LoginState  BY DEF Roster!TypeOK
  <1>1. e \in Emails /\ login[l].hint \in BOOLEAN
        <2>1. login[l].at = "known"  BY DEF Roster!ReadUser
        <2>2. login[l].hint \in BOOLEAN  BY <1>0 DEF Roster!LoginState
        <2> QED  BY <2>1, <2>2 DEF Prepared
  <1>2. role \in Roster!Roles /\ (e \in Steady => role \in SideOf(e))
        BY <1>1, ResolvedFacts
  <1>3. row[e].role \in Roster!Roles \cup {None}
        BY <1>1, RowFacts DEF Roster!TypeOK
  <1>4. PICK stale \in BOOLEAN :
          login' = [login EXCEPT ![l] =
            [@ EXCEPT !.at = "read", !.was = row[e].role, !.role = role, !.stale = stale]]
        BY DEF Roster!ReadUser
  <1>5. UNCHANGED <<row, directory, sync, edit, Roster!bounds>>  BY DEF Roster!ReadUser
  <1> HIDE DEF role
  <1>6. Roster!TypeOK'
        <2> DEFINE s == login[l]
                   was == row[e].role
        <2>1. [s EXCEPT !.at = "read", !.was = was, !.role = role, !.stale = stale] \in Roster!LoginState
              <3>1. s \in Roster!LoginState /\ was \in Roster!Roles \cup {None}  BY <1>0, <1>3
              <3> HIDE DEF s, was
              <3> QED  BY <1>2, <3>1 DEF Roster!LoginState
        <2>2. login' \in [Logins -> Roster!LoginState]
              BY <1>4, <2>1 DEF Roster!TypeOK
        <2> QED  BY <1>5, <2>2 DEF Roster!TypeOK, Roster!bounds
  <1>7. Prepared'
        BY <1>1, <1>2, <1>4, <1>5 DEF Roster!TypeOK, Prepared
  <1>8. OneSide'
        BY <1>1, <1>2, <1>4, <1>5 DEF Roster!TypeOK, OneSide, Steady, Roster!bounds
  <1> QED  BY <1>6, <1>7, <1>8

\* A step that writes one row and ends or advances what had prepared it.
RowStep(e, r) ==
  /\ r \in Roster!Rows /\ row' = [row EXCEPT ![e] = r]
  /\ row[e] # Roster!Absent => r # Roster!Absent
  /\ e \in Plain \ adopted' => r # Roster!Absent /\ Fits(e, r)

\* A row that is written with a role of its side leaves the table on its sides.
LEMMA RowStepFacts ==
  ASSUME Roster!TypeOK, OneSide, NEW e \in Emails, NEW r, RowStep(e, r) \/ row' = row,
         adopted \subseteq adopted'
  PROVE  /\ row' \in [Emails -> Roster!Rows]
         /\ \A f \in Emails : row[f] # Roster!Absent => row'[f] # Roster!Absent
         /\ \A f \in Plain \ adopted' :
              /\ Fits(f, row'[f])
              /\ f \in OfCompany /\ Seeded[f].role = "ADMIN" => row'[f] # Roster!Absent
PROOF
  <1>1. CASE row' = row
        BY <1>1 DEF Roster!TypeOK, OneSide, Steady
  <1>2. CASE RowStep(e, r)
        <2>1. row' \in [Emails -> Roster!Rows]  BY <1>2 DEF RowStep, Roster!TypeOK
        <2>2. \A f \in Emails : row'[f] = IF f = e THEN r ELSE row[f]
              BY <1>2 DEF RowStep, Roster!TypeOK
        <2>3. Plain \subseteq Emails  BY DEF Plain
        <2> QED  BY <1>2, <2>1, <2>2, <2>3 DEF RowStep, OneSide, Steady
  <1> QED  BY <1>1, <1>2

\* A login writes what it resolved.
LEMMA FinishStep ==
  ASSUME RosterInv, NEW l \in Logins, Roster!Provision(l) \/ Roster!Update(l)
  PROVE  RosterInv'
PROOF
  <1> USE DEF RosterInv
  <1> DEFINE e == login[l].email
             role == login[l].role
  <1>0. adopted' = adopted
        BY DEF Roster!Provision, Roster!Update, Roster!bounds
  <1>1. e \in Emails /\ role \in Roster!Roles /\ (e \in Steady => role \in SideOf(e))
        BY DEF Roster!Provision, Roster!Update, Prepared, OneSide
  <1>2. Roster!CompanyOf(role) \in Roster!Companies
        BY <1>1 DEF Roster!CompanyOf, Roster!Companies, Roster!Roles, Roster!Family
  <1>3. row[e] \in Roster!Rows  BY <1>1 DEF Roster!TypeOK
  <1>4. \E r : RowStep(e, r) \/ row' = row
        <2>1. CASE Roster!Provision(l) /\ row[e] = Roster!Absent
              <3> DEFINE r == [role |-> role, company |-> Roster!CompanyOf(role),
                              local |-> FALSE, active |-> TRUE]
              <3>1. r \in Roster!Rows /\ r # Roster!Absent  BY <1>1, <1>2 DEF Roster!Rows, Roster!Absent
              <3>2. row' = [row EXCEPT ![e] = r]  BY <2>1 DEF Roster!Provision
              <3>3. r.role = role /\ r.company = Roster!CompanyOf(role)  OBVIOUS
              <3> HIDE DEF r
              <3>4. RowStep(e, r)  BY <1>0, <1>1, <3>1, <3>2, <3>3 DEF RowStep, Steady
              <3> QED  BY <3>4
        <2>2. CASE Roster!Provision(l) /\ row[e] # Roster!Absent
              BY <2>2 DEF Roster!Provision
        <2>3. CASE Roster!Update(l) /\ login[l].stale
              <3> DEFINE r == Roster!Realigned(row[e], role)
              <3>1. row' = [row EXCEPT ![e] = r]  BY <1>1, <2>3 DEF Roster!Update
              <3>2. r.role = role /\ r.company = Roster!CompanyOf(role)
                    BY <1>3 DEF Roster!Realigned, Roster!Rows, Roster!Absent
              <3>3. r \in Roster!Rows
                    <4>1. row[e] \in [role : Roster!Roles \cup {None}, company : Roster!Companies,
                                      local : BOOLEAN, active : BOOLEAN]
                          <5>1. CASE row[e] = Roster!Absent
                                BY <5>1 DEF Roster!Absent, Roster!Companies
                          <5>2. CASE row[e] # Roster!Absent
                                BY <1>3, <5>2 DEF Roster!Rows
                          <5> QED  BY <5>1, <5>2
                    <4>2. r \in Member
                          BY <1>1, <1>2, <4>1 DEF Roster!Realigned
                    <4> QED  BY <4>2 DEF Roster!Rows
              <3>4. r # Roster!Absent  BY <1>1, <3>2 DEF Roster!Absent
              <3> HIDE DEF r
              <3>5. RowStep(e, r)
                    BY <1>0, <1>1, <3>1, <3>2, <3>3, <3>4 DEF RowStep, Steady
              <3> QED  BY <3>5
        <2>4. CASE Roster!Update(l) /\ ~ login[l].stale
              BY <2>4 DEF Roster!Update
        <2> QED  BY <2>1, <2>2, <2>3, <2>4
  <1>5. /\ row' \in [Emails -> Roster!Rows]
        /\ \A f \in Emails : row[f] # Roster!Absent => row'[f] # Roster!Absent
        /\ \A f \in Plain \ adopted' :
             /\ Fits(f, row'[f])
             /\ f \in OfCompany /\ Seeded[f].role = "ADMIN" => row'[f] # Roster!Absent
        BY <1>0, <1>1, <1>4, RowStepFacts
  <1>6. /\ login' = [login EXCEPT ![l] = Roster!Finished]
        /\ UNCHANGED <<directory, sync, edit, Roster!bounds>>
        BY DEF Roster!Provision, Roster!Update
  <1> HIDE DEF e, role
  <1>7. Roster!TypeOK'
        <2>1. Roster!Finished \in Roster!LoginState  BY DEF Roster!LoginState, Roster!Finished, Roster!Waiting
        <2> QED  BY <1>5, <1>6, <2>1 DEF Roster!TypeOK, Roster!bounds
  <1>8. Prepared'  BY <1>5, <1>6 DEF Roster!TypeOK, Prepared, Roster!Finished, Roster!Waiting
  <1>9. OneSide'  BY <1>5, <1>6 DEF Roster!TypeOK, OneSide, Steady, Roster!bounds, Roster!Finished, Roster!Waiting
  <1> QED  BY <1>7, <1>8, <1>9

\* The synchronisation reads the directory and the row of a member.
LEMMA ListStep ==
  ASSUME RosterInv, Roster!ListDirectory \/ Roster!ReadListed
  PROVE  RosterInv'
PROOF
  <1> USE DEF RosterInv
  <1>0. sync \in [todo : {sync.todo}, email : Emails \cup {None},
                 was : Roster!Roles \cup {None}, role : Roster!Roles \cup {None}]
        BY DEF Roster!TypeOK
  <1>1. CASE Roster!ListDirectory
        <2> DEFINE listed == {<<e, directory[e]>> : e \in {f \in Emails : directory[f] # "none"}}
        <2>1. listed \subseteq Emails \X {"staff", "manager"} /\ \A m \in listed : m[1] \in Listable
              BY DEF Roster!TypeOK, Prepared
        <2>2. sync' = [todo |-> listed, email |-> None, was |-> None, role |-> None]
              BY <1>1 DEF Roster!ListDirectory, Roster!NoSync
        <2>3. UNCHANGED <<row, directory, login, edit, edits, moves, adopted>> /\ syncs' = syncs + 1
              BY <1>1 DEF Roster!ListDirectory
        <2> HIDE DEF listed
        <2>4. None \notin Steady  BY DEF Steady, Plain
        <2> QED  BY <2>1, <2>2, <2>3, <2>4 DEF Roster!TypeOK, Prepared, OneSide, Steady
  <1>2. CASE Roster!ReadListed
        <2>1. PICK m \in sync.todo :
                sync' = [todo |-> sync.todo \ {m}, email |-> m[1], was |-> row[m[1]].role,
                         role |-> Roster!ListedRole(row[m[1]].role, m[2])]
              BY <1>2 DEF Roster!ReadListed
        <2> DEFINE e == m[1]
                   was == row[e].role
                   role == Roster!ListedRole(was, m[2])
        <2>2. e \in Emails \cap Listable /\ m[2] \in {"staff", "manager"}
              BY DEF Roster!TypeOK, Prepared
        <2>3. was \in Roster!Roles \cup {None}
              BY <2>2, RowFacts DEF Roster!TypeOK
        <2>4. role \in Roster!Roles
              BY <2>3 DEF Roster!ListedRole, Roster!Roles, Roster!Family
        <2>5. ASSUME e \in Steady  PROVE role \in SideOf(e)
              <3>1. e \in OfCompany  BY <2>2, <2>5 DEF Steady, Plain
              <3>2. row[e] \in Roster!Rows  BY <2>2 DEF Roster!TypeOK
              <3>3. CASE was \in Roster!Family
                    <4>1. row[e] # Roster!Absent  BY <3>2, <3>3, RowFacts DEF Roster!Roles
                    <4> QED  BY <2>5, <3>3, <4>1 DEF OneSide, Roster!ListedRole
              <3>4. CASE was \notin Roster!Family
                    <4>1. Seeded[e].role # "ADMIN"
                          BY <2>5, <3>1, <3>4 DEF OneSide, SideOf, Roster!Family
                    <4> QED  BY <3>1, <3>4, <4>1 DEF Roster!ListedRole, SideOf
              <3> QED  BY <3>3, <3>4
        <2>6. UNCHANGED <<row, directory, login, edit, Roster!bounds>>
              BY <1>2 DEF Roster!ReadListed
        <2>7. sync' = [todo |-> sync.todo \ {m}, email |-> e, was |-> was, role |-> role]
              BY <2>1
        <2> HIDE DEF e, was, role
        <2>8. Roster!TypeOK'  BY <2>2, <2>3, <2>4, <2>6, <2>7 DEF Roster!TypeOK, Roster!bounds
        <2>9. Prepared'  BY <2>2, <2>4, <2>6, <2>7 DEF Roster!TypeOK, Prepared
        <2>10. OneSide'  BY <2>5, <2>6, <2>7 DEF Roster!TypeOK, OneSide, Steady, Roster!bounds
        <2> QED  BY <2>8, <2>9, <2>10
  <1> QED  BY <1>1, <1>2

\* The synchronisation writes what it resolved.
LEMMA WriteListedStep ==
  ASSUME RosterInv, Roster!WriteListed \/ Roster!SkipListed
  PROVE  RosterInv'
PROOF
  <1> USE DEF RosterInv
  <1> DEFINE e == sync.email
             r == Roster!Mirrored(row[e], sync.role)
  <1>1. e \in Emails /\ sync.role \in Roster!Roles /\ (e \in Steady => sync.role \in SideOf(e))
        BY DEF Roster!WriteListed, Roster!SkipListed, Roster!NextMember, Prepared, OneSide
  <1>2. row[e] \in Roster!Rows  BY <1>1 DEF Roster!TypeOK
  <1>3. /\ r \in Member
        /\ r.role = sync.role /\ (r.company = None \/ (r.company = row[e].company /\ row[e] # Roster!Absent))
        <2>1. CASE row[e] = Roster!Absent
              BY <1>1, <2>1 DEF Roster!Mirrored, Roster!Companies
        <2>2. CASE row[e] # Roster!Absent
              <3> DEFINE q == row[e]
              <3>1. q \in Member
                    BY <1>2, <2>2 DEF Roster!Rows
              <3>2. r = [q EXCEPT !.role = sync.role]  BY <2>2 DEF Roster!Mirrored
              <3> HIDE DEF q, r
              <3>3. r \in Member
                    /\ r.role = sync.role /\ r.company = q.company
                    BY <1>1, <3>1, <3>2
              <3> QED  BY <2>2, <3>3 DEF q
        <2> QED  BY <2>1, <2>2
  <1>4. r \in Roster!Rows /\ r # Roster!Absent
        BY <1>1, <1>3 DEF Roster!Rows, Roster!Absent
  <1>5. ASSUME e \in Steady
        PROVE  r.role \in SideOf(e) /\ r.company \in {None, Roster!CompanyOf(r.role)}
        <2>1. e \in OfCompany
              BY <1>5 DEF Steady, Plain, Prepared, Roster!WriteListed, Roster!SkipListed, Roster!NextMember
        <2>2. row[e] # Roster!Absent =>
                row[e].role \in SideOf(e) /\ row[e].company \in {None, Roster!CompanyOf(row[e].role)}
              BY <1>5 DEF OneSide
        <2> HIDE DEF r
        <2> QED  BY <1>1, <1>3, <1>5, <2>1, <2>2, SideFacts
  <1>a. adopted' = adopted
        BY DEF Roster!WriteListed, Roster!SkipListed, Roster!bounds
  <1>6. RowStep(e, r) \/ row' = row
        BY <1>4, <1>5, <1>a DEF RowStep, Steady, Roster!WriteListed, Roster!SkipListed
  <1>7. /\ row' \in [Emails -> Roster!Rows]
        /\ \A f \in Emails : row[f] # Roster!Absent => row'[f] # Roster!Absent
        /\ \A f \in Plain \ adopted' :
             /\ Fits(f, row'[f])
             /\ f \in OfCompany /\ Seeded[f].role = "ADMIN" => row'[f] # Roster!Absent
        <2> HIDE DEF r
        <2> QED  BY <1>1, <1>6, <1>a, RowStepFacts
  <1>8. /\ sync' = [todo |-> sync.todo, email |-> None, was |-> None, role |-> None]
        /\ UNCHANGED <<directory, login, edit, Roster!bounds>>
        BY DEF Roster!WriteListed, Roster!SkipListed, Roster!NextMember, Roster!NoSync
  <1> HIDE DEF e, r
  <1>9. None \notin Steady  BY DEF Steady, Plain
  <1>10. Roster!TypeOK'  BY <1>7, <1>8 DEF Roster!TypeOK, Roster!bounds
  <1>11. Prepared'  BY <1>7, <1>8 DEF Roster!TypeOK, Prepared
  <1>12. OneSide'  BY <1>7, <1>8, <1>9 DEF Roster!TypeOK, OneSide, Steady, Roster!bounds
  <1> QED  BY <1>10, <1>11, <1>12

\* An administrator's request reads the row it is about.
LEMMA BeginStep ==
  ASSUME RosterInv, NEW a \in Editors, NEW e \in Emails,
         Roster!ReadForCreate(a, e) \/ Roster!ReadForEdit(a, e)
  PROVE  RosterInv'
PROOF
  <1> USE DEF RosterInv
  <1>1. PICK create \in BOOLEAN :
          Roster!Begin(a, e, create) /\ (IF create THEN Roster!Creatable(e) ELSE Roster!Editable(e))
        BY DEF Roster!ReadForCreate, Roster!ReadForEdit
  <1>2. /\ edit' = [edit EXCEPT ![a] = [email |-> e, create |-> create]]
        /\ edits' = edits + 1 /\ UNCHANGED <<row, directory, login, sync, syncs, moves, adopted>>
        BY <1>1 DEF Roster!Begin
  <1>3. create => e \notin OfCompany
        BY <1>1 DEF Roster!Creatable
  <1>4. Roster!TypeOK'  BY <1>2 DEF Roster!TypeOK
  <1>5. Prepared'
        <2>1. ~ create => row[e] # Roster!Absent
              BY <1>1 DEF Roster!Editable
        <2> QED  BY <1>2, <2>1 DEF Roster!TypeOK, Prepared
  <1>6. OneSide'  BY <1>2, <1>3 DEF Roster!TypeOK, OneSide, Steady
  <1> QED  BY <1>4, <1>5, <1>6

\* An administrator's request writes.
Administered(a) ==
  \/ \E role \in Roster!Local : Roster!WriteCreated(a, role)
  \/ \E role \in Roster!Local \cup {None} : Roster!WriteSaved(a, role)

\* An account is created once, as a local one.
LEMMA CreatedRow ==
  ASSUME RosterInv, NEW a \in Editors, NEW role \in Roster!Local, edit[a].email \in Emails,
         Roster!WriteCreated(a, role)
  PROVE  \E r : RowStep(edit[a].email, r) \/ row' = row
PROOF
  <1> DEFINE e == edit[a].email
             q == [role |-> role, company |-> None, local |-> TRUE, active |-> TRUE]
  <1>1. CASE row[e] # Roster!Absent
        BY <1>1 DEF Roster!WriteCreated
  <1>2. CASE row[e] = Roster!Absent
        <2>1. q \in Roster!Rows /\ q # Roster!Absent
              BY DEF Roster!Rows, Roster!Absent, Roster!Roles, Roster!Family, Roster!Local, Roster!Companies
        <2>2. row' = [row EXCEPT ![e] = q]  BY <1>2 DEF Roster!WriteCreated
        <2>3. e \notin OfCompany
              BY DEF RosterInv, OneSide, Roster!WriteCreated
        <2>4. q.role = role /\ q.company = None  OBVIOUS
        <2> HIDE DEF q
        <2>5. Fits(e, q)  BY <2>3, <2>4 DEF SideOf
        <2>6. RowStep(e, q)  BY <1>2, <2>1, <2>2, <2>5 DEF RowStep
        <2> QED  BY <2>6
  <1> QED  BY <1>1, <1>2

\* An edit leaves the row on its side, or its email is counted among the adopted.
LEMMA ChangedRow ==
  ASSUME RosterInv, NEW a \in Editors, NEW role \in Roster!Local \cup {None},
         edit[a].email \in Emails, Roster!WriteSaved(a, role)
  PROVE  \E r : RowStep(edit[a].email, r)
PROOF
  <1> DEFINE e == edit[a].email
             q == row[e]
  <1>1. q # Roster!Absent /\ q \in Member
        <2>1. e # None /\ ~ edit[a].create
              BY DEF Roster!WriteSaved
        <2>2. q # Roster!Absent  BY <2>1 DEF RosterInv, Prepared
        <2>3. q \in Roster!Rows  BY DEF RosterInv, Roster!TypeOK
        <2> QED  BY <2>2, <2>3 DEF Roster!Rows
  <1>2. e \in Steady => q.role \in SideOf(e) /\ q.company \in {None, Roster!CompanyOf(q.role)}
        BY <1>1 DEF RosterInv, OneSide
  <1>3. /\ adopted \subseteq adopted'
        /\ role # None => e \notin OfCompany \ adopted'
        BY DEF Roster!WriteSaved
  <1>4. PICK active \in BOOLEAN, password \in BOOLEAN :
          row' = [row EXCEPT ![e] = Roster!Edited(q, role, active, password)]
        BY DEF Roster!WriteSaved
  <1> DEFINE r == Roster!Edited(q, role, active, password)
  <1>5. r \in Member /\ r.role = (IF role = None THEN q.role ELSE role) /\ r.company = q.company
        <2>1. PICK local \in BOOLEAN : local = (q.local \/ password)
              OBVIOUS
        <2>2. role # None => role \in Roster!Roles
              BY DEF Roster!Local, Roster!Roles, Roster!Family
        <2>3. PICK new : new = IF role = None THEN q.role ELSE role
              OBVIOUS
        <2>4. r = [q EXCEPT !.role = new, !.active = active, !.local = local]
              BY <2>1, <2>3 DEF Roster!Edited
        <2>5. new \in Roster!Roles
              BY <1>1, <2>2, <2>3
        <2> HIDE DEF q, r
        <2> QED  BY <1>1, <2>3, <2>4, <2>5
  <1>6. row' = [row EXCEPT ![e] = r]  BY <1>4
  <1> HIDE DEF r
  <1>7. r \in Roster!Rows /\ r # Roster!Absent
        <2>1. None \notin Roster!Roles  OBVIOUS
        <2> QED  BY <1>5, <2>1 DEF Roster!Rows, Roster!Absent
  <1>8. ASSUME e \in Plain \ adopted'  PROVE Fits(e, r)
        <2>1. e \in Steady  BY <1>3, <1>8 DEF Steady
        <2>2. CASE role = None
              BY <1>2, <1>5, <2>1, <2>2
        <2>3. CASE role # None
              <3>1. e \notin OfCompany  BY <1>3, <1>8, <2>3
              <3>2. q.role \in Roster!Local \cup {"ADMIN"}  BY <1>2, <2>1, <3>1 DEF SideOf
              <3>3. q.company \in {None, "EXAM"}
                    BY <1>2, <2>1, <3>2 DEF Roster!CompanyOf, Roster!Local
              <3>4. r.role \in Roster!Local /\ r.company = q.company  BY <1>5, <2>3
              <3> HIDE DEF q
              <3> QED  BY <3>1, <3>3, <3>4 DEF SideOf, Roster!CompanyOf, Roster!Local
        <2> QED  BY <2>2, <2>3
  <1>9. RowStep(e, r)  BY <1>6, <1>7, <1>8 DEF RowStep
  <1> QED  BY <1>9

\* What an administrator writes keeps the rows on their sides.
LEMMA EditStep ==
  ASSUME RosterInv, NEW a \in Editors, Administered(a)
  PROVE  RosterInv'
PROOF
  <1> USE DEF RosterInv
  <1> DEFINE e == edit[a].email
  <1>1. /\ edit' = [edit EXCEPT ![a] = Roster!NoEdit]
        /\ UNCHANGED <<directory, login, sync, syncs, edits, moves>>
        /\ adopted \subseteq adopted' /\ adopted' \subseteq OfCompany
        BY DEF Administered, Roster!WriteCreated, Roster!WriteSaved, Roster!bounds, Roster!TypeOK
  <1>2. e \in Emails
        <2>1. e # None  BY DEF Administered, Roster!WriteCreated, Roster!WriteSaved
        <2> QED  BY <2>1 DEF Roster!TypeOK
  <1>3. /\ row' \in [Emails -> Roster!Rows]
        /\ \A f \in Emails : row[f] # Roster!Absent => row'[f] # Roster!Absent
        /\ \A f \in Plain \ adopted' :
             /\ Fits(f, row'[f])
             /\ f \in OfCompany /\ Seeded[f].role = "ADMIN" => row'[f] # Roster!Absent
        <2>1. \E r : RowStep(e, r) \/ row' = row
              <3>1. CASE \E role \in Roster!Local : Roster!WriteCreated(a, role)
                    BY <1>2, <3>1, CreatedRow
              <3>2. CASE \E role \in Roster!Local \cup {None} : Roster!WriteSaved(a, role)
                    BY <1>2, <3>2, ChangedRow
              <3> QED  BY <3>1, <3>2 DEF Administered
        <2> QED  BY <1>1, <1>2, <2>1, RowStepFacts
  <1>4. None \notin Steady  BY DEF Steady, Plain
  <1> HIDE DEF e
  <1>5. Roster!TypeOK'  BY <1>1, <1>3 DEF Roster!TypeOK, Roster!NoEdit
  <1>6. Prepared'  BY <1>1, <1>3 DEF Roster!TypeOK, Prepared, Roster!NoEdit
  <1>7. OneSide'  BY <1>1, <1>3, <1>4 DEF Roster!TypeOK, OneSide, Steady, Roster!NoEdit
  <1> QED  BY <1>5, <1>6, <1>7

\* Every step keeps the invariant.
LEMMA RosterNext ==
  ASSUME RosterInv, [Roster!Next]_Roster!vars
  PROVE  RosterInv'
PROOF
  <1>1. CASE UNCHANGED Roster!vars
        BY <1>1 DEF RosterInv, Roster!TypeOK, Prepared, OneSide, Steady, Roster!vars, Roster!bounds
  <1>2. ASSUME NEW l \in Logins, Roster!LogsIn(l)  PROVE RosterInv'
        BY <1>2, AuthenticateStep, ReadUserStep, FinishStep DEF Roster!LogsIn
  <1>3. ASSUME NEW a \in Editors, Roster!Administers(a)  PROVE RosterInv'
        <2>1. CASE \E e \in Emails : Roster!ReadForCreate(a, e) \/ Roster!ReadForEdit(a, e)
              BY <2>1, BeginStep
        <2>2. CASE Administered(a)
              BY <2>2, EditStep
        <2> QED  BY <1>3, <2>1, <2>2 DEF Roster!Administers, Administered
  <1>4. CASE Roster!Moves
        BY <1>4, DirectoryStep DEF Roster!Moves
  <1>5. CASE Roster!ListDirectory \/ Roster!ReadListed
        BY <1>5, ListStep
  <1>6. CASE Roster!WriteListed \/ Roster!SkipListed
        BY <1>6, WriteListedStep
  <1> QED  BY <1>1, <1>2, <1>3, <1>4, <1>5, <1>6 DEF Roster!Next

-----------------------------------------------------------------------------
(* Who may demote an administrator.                                        *)

\* Who has read an administrator is going to write one.
Remembered ==
  /\ \A l \in Logins :
       login[l].at = "read" /\ login[l].was \in Roster!Family => login[l].role = login[l].was
  /\ sync.was \in Roster!Family => sync.role = sync.was

\* No role is not a role.
LEMMA NoneIsNoRole == None \notin Roster!Family /\ Roster!Absent.role = None
  BY DEF Roster!Family, Roster!Roles, Roster!Absent

\* What a login and the synchronisation remember stays what they read.
LEMMA RememberedStep ==
  ASSUME RosterInv, Remembered, Roster!Next
  PROVE  Remembered'
PROOF
  <1> USE DEF RosterInv, Roster!TypeOK
  <1>1. ASSUME NEW l \in Logins, Roster!ReadUser(l)
        PROVE  Remembered'
        <2>1. /\ sync' = sync
              /\ \A k \in Logins : k # l => login'[k] = login[k]
              BY <1>1 DEF Roster!ReadUser
        <2>2. login'[l].was \in Roster!Family => login'[l].role = login'[l].was
              <3> DEFINE e == login[l].email
                         role == Roster!Resolved(e, row[e].role, login[l].hint)
              <3>1. login[l] \in Roster!LoginState  OBVIOUS
              <3>2. PICK stale \in BOOLEAN :
                      login' = [login EXCEPT ![l] =
                        [@ EXCEPT !.at = "read", !.was = row[e].role, !.role = role, !.stale = stale]]
                    BY <1>1 DEF Roster!ReadUser
              <3> HIDE DEF role
              <3>3. login'[l].was = row[e].role /\ login'[l].role = role
                    BY <3>1, <3>2 DEF Roster!LoginState
              <3> QED  BY <3>3 DEF Roster!Resolved, role
        <2> QED  BY <2>1, <2>2 DEF Remembered
  <1>2. ASSUME NEW l \in Logins, NEW e \in Emails,
               Roster!AuthenticateLocally(l, e) \/ Roster!AuthenticateByCompany(l, e)
        PROVE  Remembered'
        <2>1. PICK hint \in BOOLEAN :
                login' = [login EXCEPT ![l] = [@ EXCEPT !.at = "known", !.email = e, !.hint = hint]]
              BY <1>2 DEF Roster!AuthenticateLocally, Roster!AuthenticateByCompany
        <2>2. login[l] \in Roster!LoginState  OBVIOUS
        <2>3. login'[l].at = "known" /\ \A k \in Logins : k # l => login'[k] = login[k]
              BY <2>1, <2>2 DEF Roster!LoginState
        <2>4. sync' = sync  BY <1>2 DEF Roster!AuthenticateLocally, Roster!AuthenticateByCompany
        <2> QED  BY <2>3, <2>4 DEF Remembered
  <1>3. ASSUME NEW l \in Logins, Roster!Provision(l) \/ Roster!Update(l)
        PROVE  Remembered'
        <2>1. sync' = sync /\ login' = [login EXCEPT ![l] = Roster!Finished]
              BY <1>3 DEF Roster!Provision, Roster!Update
        <2> QED  BY <2>1 DEF Remembered, Roster!Finished, Roster!Waiting
  <1>4. CASE Roster!ListDirectory \/ Roster!WriteListed \/ Roster!SkipListed
        <2>1. login' = login /\ sync'.was = None
              BY <1>4 DEF Roster!ListDirectory, Roster!WriteListed, Roster!SkipListed,
                          Roster!NextMember, Roster!NoSync
        <2> QED  BY <2>1, NoneIsNoRole DEF Remembered
  <1>5. CASE Roster!ReadListed
        <2>1. login' = login  BY <1>5 DEF Roster!ReadListed
        <2>2. sync'.was \in Roster!Family => sync'.role = sync'.was
              BY <1>5 DEF Roster!ReadListed, Roster!ListedRole
        <2> QED  BY <2>1, <2>2 DEF Remembered
  <1>6. CASE UNCHANGED <<login, sync>>
        BY <1>6 DEF Remembered
  <1>7. ASSUME NEW a \in Editors, NEW e \in Emails, Roster!ReadForCreate(a, e) \/ Roster!ReadForEdit(a, e)
        PROVE  UNCHANGED <<login, sync>>
        BY <1>7 DEF Roster!ReadForCreate, Roster!ReadForEdit, Roster!Begin
  <1>8. ASSUME NEW a \in Editors, Administered(a)
        PROVE  UNCHANGED <<login, sync>>
        BY <1>8 DEF Administered, Roster!WriteCreated, Roster!WriteSaved
  <1>9. ASSUME NEW e \in Emails, NEW standing \in {"none", "staff", "manager"},
               Roster!DirectoryChanges(e, standing)
        PROVE  UNCHANGED <<login, sync>>
        BY <1>9 DEF Roster!DirectoryChanges
  <1> QED  BY <1>1, <1>2, <1>3, <1>4, <1>5, <1>6, <1>7, <1>8, <1>9
           DEF Roster!Next, Roster!LogsIn, Roster!Administers, Roster!Moves, Administered

Demoted(e) == row[e].role \in Roster!Family /\ row'[e].role \notin Roster!Family
ByOthers(e) ==
  \/ \E a \in Editors : edit[a].email = e /\ edit'[a] = Roster!NoEdit
  \/ \E l \in Logins : login[l].email = e /\ login'[l] = Roster!Finished /\ login[l].was \notin Roster!Family
  \/ sync.email = e /\ sync'.email = None /\ sync.was \notin Roster!Family

\* The role is taken away by an administrator, or by somebody who had read another one.
LEMMA DemotionStep ==
  ASSUME RosterInv, Remembered, Roster!Next, NEW e \in Emails, Demoted(e)
  PROVE  ByOthers(e)
PROOF
  <1> USE DEF RosterInv, Roster!TypeOK
  <1>0. row'[e] # row[e] /\ row[e] # Roster!Absent /\ row[e] \in Roster!Rows
        BY NoneIsNoRole DEF Demoted
  <1>1. ASSUME NEW l \in Logins, Roster!Provision(l) \/ Roster!Update(l)
        PROVE  ByOthers(e)
        <2>1. login[l].at = "read" /\ login'[l] = Roster!Finished
              BY <1>1 DEF Roster!Provision, Roster!Update
        <2>2. login[l].email = e
              BY <1>0, <1>1 DEF Roster!Provision, Roster!Update
        <2>3. Roster!Update(l) /\ row' = [row EXCEPT ![e] = Roster!Realigned(row[e], login[l].role)]
              BY <1>0, <1>1, <2>2 DEF Roster!Provision, Roster!Update
        <2>4. row'[e].role = login[l].role
              <3> DEFINE q == row[e]
              <3>1. q \in Member
                    BY <1>0 DEF Roster!Rows
              <3>2. row'[e] = [q EXCEPT !.role = login[l].role, !.company = Roster!CompanyOf(login[l].role)]
                    BY <2>3 DEF Roster!Realigned
              <3> HIDE DEF q
              <3> QED  BY <3>1, <3>2
        <2>5. login[l].was \notin Roster!Family
              BY <2>1, <2>4 DEF Demoted, Remembered
        <2> QED  BY <2>1, <2>2, <2>5 DEF ByOthers
  <1>2. CASE Roster!WriteListed
        <2>1. sync'.email = None  BY <1>2 DEF Roster!WriteListed, Roster!NextMember, Roster!NoSync
        <2>2. sync.email = e /\ row'[e] = Roster!Mirrored(row[e], sync.role)
              BY <1>0, <1>2 DEF Roster!WriteListed, Roster!NextMember
        <2>3. row'[e].role = sync.role
              <3> DEFINE q == row[e]
              <3>1. q \in Member
                    BY <1>0 DEF Roster!Rows
              <3>2. row'[e] = [q EXCEPT !.role = sync.role]
                    BY <1>0, <2>2 DEF Roster!Mirrored
              <3> HIDE DEF q
              <3> QED  BY <3>1, <3>2
        <2>4. sync.was \notin Roster!Family  BY <2>3 DEF Demoted, Remembered
        <2> QED  BY <2>1, <2>2, <2>4 DEF ByOthers
  <1>3. ASSUME NEW a \in Editors, Administered(a)
        PROVE  ByOthers(e)
        <2>1. edit'[a] = Roster!NoEdit  BY <1>3 DEF Administered, Roster!WriteCreated, Roster!WriteSaved
        <2>2. edit[a].email = e
              BY <1>0, <1>3 DEF Administered, Roster!WriteCreated, Roster!WriteSaved
        <2> QED  BY <2>1, <2>2 DEF ByOthers
  <1>4. ASSUME NEW l \in Logins, Roster!ReadUser(l)
        PROVE  row' = row
        BY <1>4 DEF Roster!ReadUser
  <1>5. ASSUME NEW l \in Logins, NEW f \in Emails,
               Roster!AuthenticateLocally(l, f) \/ Roster!AuthenticateByCompany(l, f)
        PROVE  row' = row
        BY <1>5 DEF Roster!AuthenticateLocally, Roster!AuthenticateByCompany
  <1>6. Roster!ListDirectory \/ Roster!ReadListed \/ Roster!SkipListed => row' = row
        BY DEF Roster!ListDirectory, Roster!ReadListed, Roster!SkipListed
  <1>7. ASSUME NEW a \in Editors, NEW f \in Emails, Roster!ReadForCreate(a, f) \/ Roster!ReadForEdit(a, f)
        PROVE  row' = row
        BY <1>7 DEF Roster!ReadForCreate, Roster!ReadForEdit, Roster!Begin
  <1>8. ASSUME NEW f \in Emails, NEW standing \in {"none", "staff", "manager"},
               Roster!DirectoryChanges(f, standing)
        PROVE  row' = row
        BY <1>8 DEF Roster!DirectoryChanges
  <1>9. row' # row  BY <1>0
  <1> QED  BY <1>1, <1>2, <1>3, <1>4, <1>5, <1>6, <1>7, <1>8, <1>9
           DEF Roster!Next, Roster!LogsIn, Roster!Administers, Roster!Moves, Administered

-----------------------------------------------------------------------------
(* Their leave.                                                            *)

(* The plan.                                                               *)

\* A round takes at most what is asked and what is there, and all of one of them.
LEMMA TakenFacts ==
  ASSUME NEW days \in Nat, NEW most \in Nat
  PROVE  /\ Book!Taken(days, most) \in Nat
         /\ Book!Taken(days, most) <= days /\ Book!Taken(days, most) <= most
         /\ Book!Taken(days, most) = days \/ Book!Taken(days, most) = most
  BY DEF Book!Taken, Book!Smaller

\* The plan of a use that is granted: it takes just the days asked for, never more
\* than is left, and a kind only when the kinds before it are taken whole. The
\* REGULAR days left may be negative (planLeaveDeduction).
LEMMA PlanFacts ==
  ASSUME NEW left \in [Book!Kinds -> Int], left["AUCTION"] >= 0, left["EVENT"] >= 0,
         NEW days \in Nat \ {0}, Book!Sufficient(left, days)
  PROVE  /\ Book!Plan(left, days) \in [Book!Kinds -> Nat]
         /\ Book!Plan(left, days)["AUCTION"] <= left["AUCTION"]
         /\ Book!Plan(left, days)["EVENT"] <= left["EVENT"]
         /\ Book!Plan(left, days)["EVENT"] > 0 => Book!Plan(left, days)["AUCTION"] = left["AUCTION"]
         /\ Book!Plan(left, days)["REGULAR"] > 0 =>
              /\ Book!Plan(left, days)["AUCTION"] = left["AUCTION"]
              /\ Book!Plan(left, days)["EVENT"] = left["EVENT"]
              /\ Book!Plan(left, days)["REGULAR"] <= left["REGULAR"]
         /\ Book!Plan(left, days)["AUCTION"] + Book!Plan(left, days)["EVENT"]
              + Book!Plan(left, days)["REGULAR"] = days
PROOF
  <1> DEFINE a == Book!Taken(days, left["AUCTION"])
             e == Book!Taken(days - a, left["EVENT"])
             r == Book!Taken(days - a - e, left["REGULAR"])
  <1>1. left["AUCTION"] \in Nat /\ left["EVENT"] \in Nat /\ left["REGULAR"] \in Int
        BY DEF Book!Kinds
  <1>2. a \in Nat /\ a <= days /\ a <= left["AUCTION"] /\ (a = days \/ a = left["AUCTION"])
        BY <1>1, TakenFacts
  <1>3. /\ e \in Nat /\ e <= days - a /\ e <= left["EVENT"]
        /\ e = days - a \/ e = left["EVENT"]
        <2>1. days - a \in Nat  BY <1>2
        <2> QED  BY <1>1, <2>1, TakenFacts
  <1>4. /\ r \in Nat /\ r = days - a - e
        /\ r > 0 => a = left["AUCTION"] /\ e = left["EVENT"] /\ r <= left["REGULAR"]
        <2> HIDE DEF a, e
        <2>1. days - a - e \in Nat  BY <1>2, <1>3
        <2>2. CASE days - a - e = 0
              BY <2>1, <2>2 DEF Book!Taken
        <2>3. CASE days - a - e # 0
              <3>1. a # days /\ e # days - a  BY <1>2, <1>3, <2>3
              <3>2. a = left["AUCTION"] /\ e = left["EVENT"]  BY <1>2, <1>3, <3>1
              <3>3. left["REGULAR"] >= days - a - e
                    BY <1>1, <1>2, <1>3, <3>2 DEF Book!Sufficient
              <3>4. r = days - a - e
                    BY <1>1, <2>1, <2>3, <3>3 DEF Book!Taken, Book!Smaller
              <3> QED  BY <2>1, <3>2, <3>3, <3>4
        <2> QED  BY <2>2, <2>3
  <1>5. Book!Plan(left, days) =
          [k \in Book!Kinds |-> CASE k = "AUCTION" -> a [] k = "EVENT" -> e [] k = "REGULAR" -> r]
        BY DEF Book!Plan
  <1> HIDE DEF a, e, r
  <1>6. /\ Book!Plan(left, days)["AUCTION"] = a
        /\ Book!Plan(left, days)["EVENT"] = e
        /\ Book!Plan(left, days)["REGULAR"] = r
        BY <1>5 DEF Book!Kinds
  <1>7. Book!Plan(left, days) \in [Book!Kinds -> Nat]
        BY <1>2, <1>3, <1>4, <1>5 DEF Book!Kinds
  <1> QED  BY <1>2, <1>3, <1>4, <1>6, <1>7

-----------------------------------------------------------------------------
(* The invariant.                                                          *)

BookInv == Book!TypeOK /\ Book!NothingOverdrawn

\* What is left is what was granted less what was used.
LEMMA LeftType ==
  ASSUME Book!TypeOK, NEW u \in Emails
  PROVE  /\ Book!Left(u) \in [Book!Kinds -> Int]
         /\ \A k \in Book!Kinds : Book!Left(u)[k] = entitled[u][k] - used[u][k]
         /\ Book!Ours(u) \in Int
  BY DEF Book!TypeOK, Book!Left, Book!Ours, Book!Kinds

\* What a use of leave does to the rows.
LEMMA UseFacts ==
  ASSUME BookInv, NEW u \in Emails, NEW days \in 1..MaxUse, Book!UseLeave(u, days)
  PROVE  /\ used' \in [Emails -> [Book!Kinds -> Int]]
         /\ \A v \in Emails : v # u => used'[v] = used[v]
         /\ \A k \in Book!Kinds : used'[u][k] = used[u][k] + Book!Plan(Book!Left(u), days)[k]
         /\ Book!Left(u) \in [Book!Kinds -> Int] /\ Book!Left(u)["AUCTION"] >= 0 /\ Book!Left(u)["EVENT"] >= 0
         /\ Book!Sufficient(Book!Left(u), days) /\ days \in Nat \ {0}
         /\ Book!Plan(Book!Left(u), days) \in [Book!Kinds -> Nat]
PROOF
  <1>1. Book!Left(u) \in [Book!Kinds -> Int] /\ Book!Left(u)["AUCTION"] >= 0 /\ Book!Left(u)["EVENT"] >= 0
        BY LeftType DEF BookInv, Book!NothingOverdrawn
  <1>2. Book!Sufficient(Book!Left(u), days) /\ days \in Nat \ {0}
        BY DEF Book!UseLeave
  <1>3. Book!Plan(Book!Left(u), days) \in [Book!Kinds -> Nat]
        BY <1>1, <1>2, PlanFacts
  <1>4. used' = [used EXCEPT ![u] = [k \in Book!Kinds |-> used[u][k] + Book!Plan(Book!Left(u), days)[k]]]
        BY DEF Book!UseLeave
  <1>5. used \in [Emails -> [Book!Kinds -> Int]]  BY DEF BookInv, Book!TypeOK
  <1>6. [k \in Book!Kinds |-> used[u][k] + Book!Plan(Book!Left(u), days)[k]] \in [Book!Kinds -> Int]
        BY <1>3, <1>5
  <1> QED  BY <1>1, <1>2, <1>3, <1>4, <1>5, <1>6

\* The book opens with nothing used.
LEMMA BookInit == Book!Init => BookInv
  BY DEF Book!Init, BookInv, Book!TypeOK, Book!NothingOverdrawn, Book!Left, Book!Nobody, Book!Idle, Book!Kinds

\* A member leaves the listing.
LEMMA UnlistFacts ==
  ASSUME Book!TypeOK, NEW u \in Emails, Book!Unlist(u)
  PROVE  DOMAIN listing' = DOMAIN listing \ {u} /\ listing' \in [DOMAIN listing' -> Int]
  BY DEF Book!Unlist, Book!TypeOK, Book!Restrict

\* Every step keeps the types.
LEMMA BookTyped ==
  ASSUME BookInv, [Book!Next]_Book!vars
  PROVE  Book!TypeOK'
PROOF
  <1> USE DEF Book!TypeOK, BookInv
  <1>1. ASSUME NEW u \in Emails, Book!Win(u)  PROVE Book!TypeOK'
        BY <1>1 DEF Book!Win, Book!jobs, Book!Kinds
  <1>2. ASSUME NEW u \in Emails, Book!Deliver(u)  PROVE Book!TypeOK'
        BY <1>2 DEF Book!Deliver, Book!book, Book!jobs
  <1>3. ASSUME NEW u \in Emails, Book!GrantEvent(u)  PROVE Book!TypeOK'
        BY <1>3 DEF Book!GrantEvent, Book!Unsold, Book!theirs, Book!jobs, Book!Kinds
  <1>4. ASSUME NEW u \in Emails, Book!SyncMember(u)  PROVE Book!TypeOK'
        <2>1. /\ DOMAIN listing' = DOMAIN listing \ {u}
              /\ listing' \in [DOMAIN listing' -> Int]
              BY <1>4, UnlistFacts DEF Book!SyncMember
        <2>2. entitled' \in [Emails -> [Book!Kinds -> Int]]
              <3>1. listing[u] \in Int
                    BY <1>4 DEF Book!SyncMember, Book!Unlist
              <3>2. entitled' = [entitled EXCEPT ![u] = [@ EXCEPT !["REGULAR"] = listing[u]]]
                    BY <1>4 DEF Book!SyncMember
              <3> QED  BY <3>1, <3>2 DEF Book!Kinds
        <2>3. UNCHANGED <<used, lots, won, notices, mdat, task, syncs, reconciles>>
              BY <1>4 DEF Book!SyncMember, Book!theirs
        <2> QED  BY <2>1, <2>2, <2>3
  <1>5. ASSUME NEW u \in Emails, Book!ReadOurs(u)  PROVE Book!TypeOK'
        <2>1. Book!Ours(u) \in Int  BY LeftType
        <2>2. Book!Target(u) \in Int  BY <2>1 DEF Book!Target
        <2>3. u # None  OBVIOUS
        <2> QED  BY <1>5, <2>1, <2>2, <2>3 DEF Book!ReadOurs, Book!book, Book!theirs, Book!Idle
  <1>6. ASSUME NEW u \in Emails, NEW days \in 1..MaxUse, Book!UseLeave(u, days)  PROVE Book!TypeOK'
        <2>1. used' \in [Emails -> [Book!Kinds -> Int]]  BY <1>6, UseFacts
        <2> QED  BY <1>6, <2>1 DEF Book!UseLeave, Book!theirs, Book!jobs
  <1>7. ASSUME NEW listed \in SUBSET Emails, Book!ListMembers(listed)  PROVE Book!TypeOK'
        <2>1. DOMAIN listing' = listed /\ listing' \in [listed -> Int]
              BY <1>7 DEF Book!ListMembers
        <2> QED  BY <1>7, <2>1 DEF Book!ListMembers, Book!book, Book!theirs
  <1>8. CASE Book!PutTarget
        BY <1>8 DEF Book!PutTarget, Book!book, Book!Idle
  <1>9. CASE UNCHANGED Book!vars
        BY <1>9 DEF Book!vars, Book!book, Book!theirs, Book!jobs
  <1>10. ASSUME NEW u \in Emails, Book!SkipMember(u)  PROVE Book!TypeOK'
        <2>1. DOMAIN listing' \subseteq Emails /\ listing' \in [DOMAIN listing' -> Int]
              BY <1>10, UnlistFacts DEF Book!SkipMember
        <2> QED  BY <1>10, <2>1 DEF Book!SkipMember, Book!book, Book!theirs
  <1>11. ASSUME NEW u \in Emails, Book!OfUser(u)  PROVE Book!TypeOK'
         BY <1>11, <1>1, <1>3, <1>5, <1>6 DEF Book!OfUser
  <1> HIDE DEF Book!TypeOK, BookInv
  <1> QED  BY <1>2, <1>4, <1>7, <1>8, <1>9, <1>10, <1>11 DEF Book!Next

\* No step uses more than is left.
LEMMA BookCovered ==
  ASSUME BookInv, [Book!Next]_Book!vars
  PROVE  Book!NothingOverdrawn'
PROOF
  <1>t. Book!TypeOK  BY DEF BookInv
  <1>o. Book!NothingOverdrawn  BY DEF BookInv
  <1> USE DEF Book!NothingOverdrawn, Book!Left
  <1>1. ASSUME NEW u \in Emails, Book!Win(u)  PROVE Book!NothingOverdrawn'
        BY <1>1, <1>t, <1>o DEF Book!Win, Book!TypeOK, Book!Kinds
  <1>2. ASSUME NEW u \in Emails, Book!GrantEvent(u)  PROVE Book!NothingOverdrawn'
        BY <1>2, <1>t, <1>o DEF Book!GrantEvent, Book!TypeOK, Book!Kinds
  <1>3. ASSUME NEW u \in Emails, Book!SyncMember(u)  PROVE Book!NothingOverdrawn'
        <2>1. \A v \in Emails, k \in {"AUCTION", "EVENT"} : entitled'[v][k] = entitled[v][k]
              BY <1>3, <1>t DEF Book!SyncMember, Book!TypeOK, Book!Kinds
        <2>2. used' = used  BY <1>3 DEF Book!SyncMember
        <2>3. \A v \in Emails, k \in {"AUCTION", "EVENT"} :
                /\ Book!Left(v)[k] = entitled[v][k] - used[v][k]
                /\ Book!Left(v)'[k] = entitled'[v][k] - used'[v][k]
              BY DEF Book!Kinds
        <2> HIDE DEF Book!Left
        <2> QED  BY <2>1, <2>2, <2>3, <1>o
  <1>4. ASSUME NEW u \in Emails, NEW days \in 1..MaxUse, Book!UseLeave(u, days)
        PROVE  Book!NothingOverdrawn'
        <2> DEFINE p == Book!Plan(Book!Left(u), days)
        <2>1. /\ p \in [Book!Kinds -> Nat]
              /\ p["AUCTION"] <= Book!Left(u)["AUCTION"] /\ p["EVENT"] <= Book!Left(u)["EVENT"]
              BY <1>4, UseFacts, PlanFacts
        <2>2. \A k \in Book!Kinds : used'[u][k] = used[u][k] + p[k]
              BY <1>4, UseFacts
        <2>3. \A v \in Emails : v # u => used'[v] = used[v]
              BY <1>4, UseFacts
        <2>4. entitled' = entitled  BY <1>4 DEF Book!UseLeave
        <2>5. \A v \in Emails, k \in Book!Kinds :
                /\ Book!Left(v)[k] = entitled[v][k] - used[v][k]
                /\ Book!Left(v)'[k] = entitled[v][k] - used'[v][k]
              BY <2>4
        <2>6. \A v \in Emails, k \in Book!Kinds : used[v][k] \in Int /\ entitled[v][k] \in Int
              BY <1>t DEF Book!TypeOK
        <2> HIDE DEF p, Book!Left
        <2>7. \A k \in {"AUCTION", "EVENT"} : Book!Left(u)'[k] >= 0
              BY <2>1, <2>2, <2>5, <2>6, <1>o DEF Book!Kinds
        <2>8. \A v \in Emails : v # u => \A k \in {"AUCTION", "EVENT"} : Book!Left(v)'[k] >= 0
              BY <2>3, <2>5, <2>6, <1>o DEF Book!Kinds
        <2>9. \A v \in Emails, k \in Book!Kinds : used'[v][k] >= 0
              BY <2>1, <2>2, <2>3, <2>6, <1>o
        <2> QED  BY <2>7, <2>8, <2>9
  <1>5. ASSUME NEW u \in Emails, Book!Deliver(u) \/ Book!ReadOurs(u) \/ Book!SkipMember(u)
        PROVE  Book!NothingOverdrawn'
        BY <1>5, <1>o DEF Book!Deliver, Book!ReadOurs, Book!SkipMember, Book!book
  <1>6. CASE \/ \E listed \in SUBSET Emails : Book!ListMembers(listed)
             \/ Book!PutTarget \/ UNCHANGED Book!vars
        BY <1>6, <1>o DEF Book!ListMembers, Book!PutTarget, Book!vars, Book!book
  <1>7. ASSUME NEW u \in Emails, Book!OfUser(u)  PROVE Book!NothingOverdrawn'
        BY <1>7, <1>1, <1>2, <1>4, <1>5 DEF Book!OfUser
  <1> HIDE DEF Book!NothingOverdrawn, Book!Left
  <1> QED  BY <1>3, <1>5, <1>6, <1>7 DEF Book!Next

\* Every step keeps both.
LEMMA BookNext ==
  ASSUME BookInv, [Book!Next]_Book!vars
  PROVE  BookInv'
  BY BookTyped, BookCovered DEF BookInv

-----------------------------------------------------------------------------
(* The order of the kinds.                                                 *)

Ordered(u) ==
  /\ used'[u]["EVENT"] > used[u]["EVENT"] => Book!Left(u)'["AUCTION"] = 0
  /\ used'[u]["REGULAR"] > used[u]["REGULAR"] =>
       Book!Left(u)'["AUCTION"] = 0 /\ Book!Left(u)'["EVENT"] = 0 /\ Book!Left(u)'["REGULAR"] >= 0

\* A day is taken from a kind only when those before it are used up.
LEMMA StepsOrdered ==
  ASSUME BookInv, Book!Next, NEW u \in Emails
  PROVE  Ordered(u)
PROOF
  <1>t. Book!TypeOK  BY DEF BookInv
  <1>1. ASSUME NEW v \in Emails, NEW days \in 1..MaxUse, Book!UseLeave(v, days)
        PROVE  Ordered(u)
        <2> DEFINE p == Book!Plan(Book!Left(v), days)
        <2>1. /\ p \in [Book!Kinds -> Nat]
              /\ p["EVENT"] > 0 => p["AUCTION"] = Book!Left(v)["AUCTION"]
              /\ p["REGULAR"] > 0 => /\ p["AUCTION"] = Book!Left(v)["AUCTION"]
                                     /\ p["EVENT"] = Book!Left(v)["EVENT"]
                                     /\ p["REGULAR"] <= Book!Left(v)["REGULAR"]
              BY <1>1, UseFacts, PlanFacts
        <2>2. \A k \in Book!Kinds : used'[v][k] = used[v][k] + p[k]
              BY <1>1, UseFacts
        <2>3. u # v => used'[u] = used[u]
              BY <1>1, UseFacts
        <2>4. entitled' = entitled  BY <1>1 DEF Book!UseLeave
        <2>5. \A k \in Book!Kinds : used[u][k] \in Int /\ entitled[u][k] \in Int
              BY <1>t DEF Book!TypeOK
        <2> HIDE DEF p
        <2>6. CASE u # v
              BY <2>3, <2>5, <2>6 DEF Ordered, Book!Kinds
        <2>7. CASE u = v
              <3>1. \A k \in Book!Kinds : Book!Left(u)[k] = entitled[u][k] - used[u][k]
                    BY DEF Book!Left
              <3>2. \A k \in Book!Kinds : Book!Left(u)'[k] = entitled[u][k] - used[u][k] - p[k]
                    BY <2>1, <2>2, <2>4, <2>5, <2>7 DEF Book!Left, Book!Kinds
              <3> QED  BY <2>1, <2>2, <2>5, <2>7, <3>1, <3>2 DEF Ordered, Book!Kinds
        <2> QED  BY <2>6, <2>7
  <1>2. ASSUME used' = used  PROVE Ordered(u)
        BY <1>2, <1>t DEF Ordered, Book!TypeOK, Book!Kinds
  <1>3. ASSUME NEW v \in Emails,
               \/ Book!Win(v) \/ Book!Deliver(v) \/ Book!GrantEvent(v)
               \/ Book!SyncMember(v) \/ Book!SkipMember(v) \/ Book!ReadOurs(v)
        PROVE  used' = used
        BY <1>3 DEF Book!Win, Book!Deliver, Book!GrantEvent, Book!SyncMember, Book!SkipMember,
                    Book!ReadOurs, Book!book
  <1>4. (\E listed \in SUBSET Emails : Book!ListMembers(listed)) \/ Book!PutTarget => used' = used
        BY DEF Book!ListMembers, Book!PutTarget, Book!book
  <1> QED  BY <1>1, <1>2, <1>3, <1>4 DEF Book!Next, Book!OfUser

-----------------------------------------------------------------------------
(* The reconciliation.                                                     *)

\* What is going to be written makes up for what was read.
Reckoned == task.user # None => /\ task.user \in Emails /\ task.ours \in Int
                                /\ task.target = task.ours - Atmc[task.user]

\* What is about to be written is reckoned from what was read.
LEMMA ReckonedStep ==
  ASSUME BookInv, Reckoned, Book!Next
  PROVE  Reckoned'
PROOF
  <1>1. ASSUME NEW u \in Emails, Book!ReadOurs(u)
        PROVE  Reckoned'
        BY <1>1, LeftType DEF BookInv, Reckoned, Book!ReadOurs, Book!Target
  <1>2. CASE Book!PutTarget
        BY <1>2 DEF Reckoned, Book!PutTarget, Book!Idle
  <1>3. ASSUME NEW u \in Emails, \/ Book!Win(u) \/ Book!Deliver(u) \/ Book!GrantEvent(u)
                                 \/ Book!SyncMember(u) \/ Book!SkipMember(u)
        PROVE  task' = task
        BY <1>3 DEF Book!Win, Book!Deliver, Book!GrantEvent, Book!SyncMember, Book!SkipMember,
                    Book!jobs
  <1>4. ASSUME NEW u \in Emails, NEW days \in 1..MaxUse, Book!UseLeave(u, days)
        PROVE  task' = task
        BY <1>4 DEF Book!UseLeave, Book!jobs
  <1>5. (\E listed \in SUBSET Emails : Book!ListMembers(listed)) => task' = task
        BY DEF Book!ListMembers
  <1>6. CASE task' = task
        BY <1>6 DEF Reckoned
  <1> QED  BY <1>1, <1>2, <1>3, <1>4, <1>5, <1>6 DEF Book!Next, Book!OfUser

Written == mdat' # mdat /\ task # Book!Idle /\ task' = Book!Idle /\ Book!Ours(task.user) = task.ours
Agreed == Atmc[task.user] + mdat'[task.user] = Book!Ours(task.user)

\* A write brings the two books together.
LEMMA WriteAgrees ==
  ASSUME BookInv, Reckoned, Book!Next, Written
  PROVE  Agreed
PROOF
  <1> USE DEF BookInv, Book!TypeOK
  <1>1. task.user # None  BY DEF Written
  <1>2. CASE Book!PutTarget
        <2>1. task.user \in Emails /\ mdat'[task.user] = task.target
              BY <1>1, <1>2 DEF Reckoned, Written, Book!PutTarget
        <2>2. task.ours \in Int /\ task.target = task.ours - Atmc[task.user] /\ Atmc[task.user] \in Int
              BY <1>1, <2>1 DEF Reckoned
        <2> QED  BY <2>1, <2>2 DEF Agreed, Written
  <1>3. ASSUME NEW u \in Emails, \/ Book!Win(u) \/ Book!Deliver(u) \/ Book!GrantEvent(u)
                                 \/ Book!SyncMember(u) \/ Book!SkipMember(u) \/ Book!ReadOurs(u)
        PROVE  task' = task \/ mdat' = mdat
        BY <1>3 DEF Book!Win, Book!Deliver, Book!GrantEvent, Book!SyncMember, Book!SkipMember,
                    Book!ReadOurs, Book!jobs, Book!theirs, Book!book
  <1>4. ASSUME NEW u \in Emails, NEW days \in 1..MaxUse, Book!UseLeave(u, days)
        PROVE  task' = task
        BY <1>4 DEF Book!UseLeave, Book!jobs
  <1>5. (\E listed \in SUBSET Emails : Book!ListMembers(listed)) => task' = task
        BY DEF Book!ListMembers
  <1> QED  BY <1>2, <1>3, <1>4, <1>5 DEF Book!Next, Book!OfUser, Written

-----------------------------------------------------------------------------
(* Both together: a step of either leaves the other's variables alone, or  *)
(* is a step of both.                                                      *)

\* A step of the whole is a step of the table of members.
LEMMA RosterStep == [Next]_vars => [Roster!Next]_Roster!vars
<1> SUFFICES ASSUME [Next]_vars PROVE [Roster!Next]_Roster!vars
  OBVIOUS
<1>1. CASE AtRoster
  BY <1>1 DEF AtRoster, Roster!Next
<1>2. CASE AtLeave
  <2>1. UNCHANGED syncs
    BY <1>2 DEF AtLeave, Book!OfUser, Book!Win, Book!GrantEvent, Book!ReadOurs, Book!UseLeave,
                Book!Deliver, Book!PutTarget, Book!jobs
  <2> QED BY <1>2, <2>1 DEF AtLeave, members, Roster!vars, Roster!bounds
<1>3. CASE ListCompany \/ ReadMember \/ MirrorMember \/ SkipMember
  BY <1>3 DEF ListCompany, ReadMember, MirrorMember, SkipMember, Roster!Next
<1>4. ASSUME NEW e \in Emails, SyncBalance(e) PROVE UNCHANGED Roster!vars
  BY <1>4 DEF SyncBalance, Book!SyncMember, Book!SkipMember, members, Roster!vars, Roster!bounds
<1>5. CASE UNCHANGED vars
  BY <1>5 DEF vars, members, Roster!vars, Roster!bounds
<1> QED BY <1>1, <1>2, <1>3, <1>4, <1>5 DEF Next

\* A step of the whole is a step of the book of leave.
LEMMA BookStep == RosterInv /\ [Next]_vars => [Book!Next]_Book!vars
<1> SUFFICES ASSUME RosterInv, [Next]_vars PROVE [Book!Next]_Book!vars
  OBVIOUS
<1> USE DEF balances, Book!vars, Book!book, Book!theirs, Book!jobs
<1>1. CASE AtRoster
  <2>1. UNCHANGED syncs
    BY <1>1 DEF AtRoster, Roster!LogsIn, Roster!Administers, Roster!Moves, Roster!ReadUser,
                Roster!Provision, Roster!Update, Roster!AuthenticateLocally,
                Roster!AuthenticateByCompany, Roster!ReadForCreate, Roster!ReadForEdit, Roster!Begin,
                Roster!WriteCreated, Roster!WriteSaved, Roster!DirectoryChanges,
                Roster!bounds
  <2> QED BY <1>1, <2>1 DEF AtRoster
<1>2. CASE AtLeave
  BY <1>2 DEF AtLeave, Book!Next
<1>3. CASE ListCompany
  BY <1>3 DEF ListCompany, Book!Next
<1>4. CASE ReadMember \/ MirrorMember
  BY <1>4 DEF ReadMember, MirrorMember, Roster!ReadListed, Roster!WriteListed, Roster!bounds
<1>5. CASE SkipMember
  <2>1. sync.email \in Emails
    BY <1>5 DEF SkipMember, Roster!SkipListed, Roster!NextMember, RosterInv, Prepared
  <2> QED BY <1>5, <2>1 DEF SkipMember, Book!Next
<1>6. ASSUME NEW e \in Emails, SyncBalance(e) PROVE Book!Next
  BY <1>6 DEF SyncBalance, Book!Next
<1>7. CASE UNCHANGED vars
  BY <1>7 DEF vars
<1> QED BY <1>1, <1>2, <1>3, <1>4, <1>5, <1>6, <1>7 DEF Next

PersonnelInv == RosterInv /\ Remembered /\ BookInv /\ Reckoned

\* The seed is in order, and nobody is at work.
LEMMA PersonnelInit == Init => PersonnelInv
<1> SUFFICES ASSUME Init PROVE PersonnelInv
  OBVIOUS
<1>1. RosterInv /\ BookInv
  BY RosterInit, BookInit DEF Init
<1>2. Remembered
  BY NoneIsNoRole DEF Init, Roster!Init, Remembered, Roster!Waiting, Roster!NoSync
<1>3. Reckoned
  BY DEF Init, Book!Init, Reckoned, Book!Idle
<1> QED BY <1>1, <1>2, <1>3 DEF PersonnelInv

\* Every step keeps what each of the two knows.
LEMMA PersonnelNext == PersonnelInv /\ [Next]_vars => PersonnelInv'
<1> SUFFICES ASSUME PersonnelInv, [Next]_vars PROVE PersonnelInv'
  OBVIOUS
<1>1. [Roster!Next]_Roster!vars /\ [Book!Next]_Book!vars
  BY RosterStep, BookStep DEF PersonnelInv
<1>2. RosterInv'
  BY <1>1, RosterNext DEF PersonnelInv
<1>5. BookInv'
  BY <1>1, BookNext DEF PersonnelInv
<1>3. Remembered'
  BY <1>1, RememberedStep DEF PersonnelInv, Remembered, Roster!vars
<1>4. Reckoned'
  BY <1>1, ReckonedStep DEF PersonnelInv, Reckoned, Book!vars, Book!jobs
<1> QED BY <1>2, <1>3, <1>4, <1>5 DEF PersonnelInv

\* Rows, processes, balances, listings and counters keep their types, whatever logins,
\* administrators, the directory and the personnel system do (login.use-case.ts,
\* sync-members.use-case.ts, manage-members.use-case.ts, prisma-leave-admin.adapter.ts).
THEOREM PersonnelTyped == Spec => []TypeOK
<1>1. PersonnelInv => TypeOK
  BY DEF PersonnelInv, RosterInv, BookInv, TypeOK
<1> QED BY <1>1, PersonnelInit, PersonnelNext, PTL DEF Spec

\* The company in a row is the one of its role (resolveCompanyId, and every other writer), but
\* for members listed from another domain and the company's own whom an edit gave EXAM's role.
THEOREM CompanyKept == Spec => []CompanyFollowsRole
<1>1. PersonnelInv => CompanyFollowsRole
  BY DEF PersonnelInv, RosterInv, OneSide, CompanyFollowsRole, Roster!CompanyFollowsRole, Steady, Plain
<1> QED BY <1>1, PersonnelInit, PersonnelNext, PTL DEF Spec

\* Nothing demotes an administrator but an administrator's edit, or a login or a
\* synchronisation that had read the row before the promotion (resolveRole, syncMembers).
THEOREM AdministratorsKept == Spec => DemotedOnlyByOthers
<1>1. PersonnelInv /\ [Next]_vars =>
      [\A e \in Emails : row[e].role \in Roster!Family /\ row'[e].role \notin Roster!Family =>
         \/ \E a \in Editors : edit[a].email = e /\ edit'[a] = Roster!NoEdit
         \/ \E l \in Logins :
              login[l].email = e /\ login'[l] = Roster!Finished /\ login[l].was \notin Roster!Family
         \/ sync.email = e /\ sync'.email = None /\ sync.was \notin Roster!Family]_Roster!vars
  <2> SUFFICES ASSUME PersonnelInv, [Next]_vars, NEW e \in Emails, Demoted(e), ~ UNCHANGED Roster!vars
               PROVE  ByOthers(e)
    BY DEF Demoted, ByOthers
  <2>1. Roster!Next
    BY RosterStep
  <2> QED BY <2>1, DemotionStep DEF PersonnelInv
<1> QED BY <1>1, PersonnelInit, PersonnelNext, PTL
        DEF Spec, DemotedOnlyByOthers, Roster!DemotedOnlyByOthers

\* Won and given days are never overdrawn, and no use gives days back (deductPriority).
THEOREM NeverOverdrawn == Spec => []NothingOverdrawn
<1>1. PersonnelInv => NothingOverdrawn
  BY DEF PersonnelInv, BookInv, NothingOverdrawn
<1> QED BY <1>1, PersonnelInit, PersonnelNext, PTL DEF Spec

\* Leave is used in the order AUCTION, EVENT, REGULAR (planLeaveDeduction).
THEOREM OrderKept == Spec => UsedInOrder
<1>1. PersonnelInv /\ [Next]_vars =>
      [\A u \in Emails :
         /\ used'[u]["EVENT"] > used[u]["EVENT"] => Book!Left(u)'["AUCTION"] = 0
         /\ used'[u]["REGULAR"] > used[u]["REGULAR"] =>
              Book!Left(u)'["AUCTION"] = 0 /\ Book!Left(u)'["EVENT"] = 0 /\ Book!Left(u)'["REGULAR"] >= 0
        ]_Book!vars
  <2> SUFFICES ASSUME PersonnelInv, [Next]_vars, NEW u \in Emails, ~ UNCHANGED Book!vars
               PROVE  Ordered(u)
    BY DEF Ordered
  <2>1. Book!Next
    BY BookStep DEF PersonnelInv
  <2> QED BY <2>1, StepsOrdered DEF PersonnelInv
<1> QED BY <1>1, PersonnelInit, PersonnelNext, PTL DEF Spec, UsedInOrder, Book!UsedInOrder

\* A reconciliation that nothing overtook makes both systems agree (reconcileUserLeave).
THEOREM ReconciliationAgrees == Spec => ReconciledAgrees
<1>1. PersonnelInv /\ [Next]_vars =>
      [mdat' # mdat /\ task # Book!Idle /\ task' = Book!Idle /\ Book!Ours(task.user) = task.ours =>
         Atmc[task.user] + mdat'[task.user] = Book!Ours(task.user)]_Book!vars
  BY BookStep, WriteAgrees DEF PersonnelInv, Written, Agreed
<1> QED BY <1>1, PersonnelInit, PersonnelNext, PTL DEF Spec, ReconciledAgrees, Book!ReconciledAgrees
=============================================================================
