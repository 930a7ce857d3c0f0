------------------------------ MODULE Accounts ------------------------------
(***************************************************************************)
(* Members of a tenant, their roles, and the documents these open: roles   *)
(* name boxes, and reach what lies below them.  A member has roles and one *)
(* main role among them.  Two parts of the program decide who may see a    *)
(* document: a query that lists documents, and a test of a single one.     *)
(***************************************************************************)
EXTENDS Documents

CONSTANTS
    Members, \* users
    Roles    \* roles, in the order of their names

ASSUME AccountsAssumption ==
    /\ Roles \in Seq(ToSet(Roles))
    /\ \A b \in Bounds :
          /\ DOMAIN b.roles \subseteq ToSet(Roles)
          /\ \A r \in DOMAIN b.roles :
                b.roles[r] \in [see : BOOLEAN, all : BOOLEAN, boxes : SUBSET DOMAIN FirstBoxes,
                                active : BOOLEAN, system : BOOLEAN, sup : SUBSET DOMAIN b.first]
          /\ \A m \in DOMAIN b.members :
                /\ b.members[m] \in [active : BOOLEAN, role : DOMAIN b.roles,
                                      roles : SUBSET DOMAIN b.roles]
                /\ b.members[m].role \in b.members[m].roles

VARIABLES
    member,  \* the membership rows
    role,    \* the role rows; see: may view documents, sup: documents with a
             \* workflow that the role supervises
    deleting \* roles that requests have found unused and will delete

accountVars == <<member, role, deleting>>

\* The rows.
TenantMembership == [active : BOOLEAN, role : DOMAIN role, roles : SUBSET DOMAIN role]

TenantRole ==
    [see : BOOLEAN, all : BOOLEAN, boxes : SUBSET DOMAIN box, active : BOOLEAN,
     system : BOOLEAN, sup : SUBSET Docs]

ActiveRoles == {r \in DOMAIN role : role[r].active}

\* the first of the roles, by name
FirstRole(rs) ==
    Roles[CHOOSE n \in DOMAIN Roles :
              /\ Roles[n] \in rs
              /\ \A k \in DOMAIN Roles : Roles[k] \in rs => n <= k]

\* Error: the main role is not made one of the roles.
WithoutMain(rs, active) ==
    [active |-> active, role |-> FirstRole(rs),
     roles |-> IF Cardinality(rs) = 1 THEN rs ELSE rs \ {FirstRole(rs)}]

\* TenantMembership.save and roles.set: the first role is the main role.
WithRoles(rs, active) == [active |-> active, role |-> FirstRole(rs), roles |-> rs]

(***************************************************************************)
(* Members.  Their forms offer active roles.                               *)
(***************************************************************************)

\* AddTenantMember and UpdateTenantMembership
MemberSaved(m, rs, active) == Upsert(member, m, WithRoles(rs, active))

\* a member, or one that left and comes back
AddTenantMember(m, rs) ==
    /\ Request("accounts")
    /\ rs # {} /\ rs \subseteq ActiveRoles
    /\ member' = MemberSaved(m, rs, TRUE)
    /\ UNCHANGED <<box, doc, file, blob, optimize, purge, pending, bound, role, deleting>>

UpdateTenantMembership(m, rs, active) ==
    /\ Request("accounts")
    /\ m \in DOMAIN member
    /\ rs # {} /\ rs \subseteq ActiveRoles
    /\ member' = MemberSaved(m, rs, active)
    /\ UNCHANGED <<box, doc, file, blob, optimize, purge, pending, bound, role, deleting>>

(***************************************************************************)
(* Roles.                                                                  *)
(***************************************************************************)

OfferedBoxes == {b \in DOMAIN box : box[b].active}

\* CreateTenantRole and UpdateTenantRole: is it a default role, and what its
\* members supervise, is not for the form.
RoleSaved(r, row, was) == Upsert(role, r, [row EXCEPT !.system = was.system, !.sup = was.sup])

CreateTenantRole(r, row) ==
    /\ Request("accounts")
    /\ r \notin DOMAIN role
    /\ row.boxes \subseteq OfferedBoxes
    /\ row.active
    /\ role' = RoleSaved(r, row, [system |-> FALSE, sup |-> {}])
    /\ UNCHANGED <<box, doc, file, blob, optimize, purge, pending, bound, member, deleting>>

UpdateTenantRole(r, row) ==
    /\ Request("accounts")
    /\ r \in DOMAIN role
    /\ row.boxes \subseteq OfferedBoxes
    /\ role' = RoleSaved(r, row, role[r])
    /\ UNCHANGED <<box, doc, file, blob, optimize, purge, pending, bound, member, deleting>>

\* DeleteTenantRole finds the role unused ...
CheckTenantRole(r) ==
    /\ Request("accounts")
    /\ r \in DOMAIN role /\ ~ role[r].system
    /\ \A m \in DOMAIN member : member[m].role # r /\ r \notin member[m].roles
    /\ deleting' = deleting \cup {r}
    /\ UNCHANGED <<box, doc, file, blob, optimize, purge, pending, bound, member, role>>

\* Error: members lose it, whatever it is to them.
Deletable(r) == r \in DOMAIN role

\* main roles are protected
Unprotected(r) == r \in DOMAIN role /\ \A m \in DOMAIN member : member[m].role # r

\* ... and deletes it, and takes it from those who have got it meanwhile.
DeleteTenantRole(r) ==
    /\ r \in deleting
    /\ deleting' = deleting \ {r}
    /\ IF Unprotected(r)
       THEN /\ role' = Restrict(role, DOMAIN role \ {r})
            /\ member' = [m \in DOMAIN member |-> [member[m] EXCEPT !.roles = @ \ {r}]]
       ELSE UNCHANGED <<role, member>>
    /\ UNCHANGED docVars

(***************************************************************************)
(* Who sees a document.                                                    *)
(***************************************************************************)

\* Error: boxes below are forgotten.
AllowsOwnBox(r, d) == role[r].all \/ doc[d].box \in role[r].boxes

\* _role_allows_space
AllowsSpace(r, d) ==
    \/ role[r].all
    \/ \E b \in role[r].boxes : doc[d].box = b \/ doc[d].box \in Below(b)

\* the active ones of a member's roles, and the main role
Supervisors(m) == (member[m].roles \cup {member[m].role}) \cap ActiveRoles

Supervised(m, d) == \E r \in Supervisors(m) : d \in role[r].sup

\* has_document_permission: without an active role, the main role counts.
Openable(m, d) ==
    LET own == member[m].roles \cap ActiveRoles
        used == IF own = {} THEN {member[m].role} \cap ActiveRoles ELSE own
    IN  /\ member[m].active
        /\ Active(d)
        /\ Supervised(m, d) \/ \E r \in used : role[r].see /\ AllowsSpace(r, d)

\* filter_documents_for_user
ListedDocuments(m) ==
    LET used == {r \in member[m].roles \cap ActiveRoles : role[r].see}
        boxes == UNION {role[r].boxes : r \in used}
        spaces == boxes \cup UNION {Below(b) : b \in boxes}
    IN  IF ~ member[m].active THEN {}
        ELSE {d \in Docs : /\ Active(d)
                           /\ \/ \E r \in used : role[r].all
                              \/ doc[d].box \in spaces
                              \/ Supervised(m, d)}

AccountsInit ==
    /\ member = bound.members
    /\ role = bound.roles
    /\ deleting = {}

(***************************************************************************)
(* Properties.                                                             *)
(***************************************************************************)

\* A member finds in lists exactly the documents that open: the query and the
\* test agree, wherever boxes move and whatever becomes of roles, because the
\* main role, which the test alone falls back to, is always one of the roles.
ListedIsOpenable ==
    \A m \in DOMAIN member : ListedDocuments(m) = {d \in Docs : Openable(m, d)}

=============================================================================
