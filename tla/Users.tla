------------------------------- MODULE Users -------------------------------
(***************************************************************************)
(* Users, their roles, permissions and profiles: internal/service/users.go *)
(* and user_profile.go, the registration of a merchant in onboarding.go,   *)
(* the task merchants_migrate of merchant.go, and the repositories of      *)
(* roles and profiles.                                                     *)
(*                                                                         *)
(* A request reads what it needs when it starts and then makes the calls   *)
(* in its list todo, one by one: each is a write to MongoDB, a call of     *)
(* casbin, which keeps the permissions, or a letter. A call that fails     *)
(* ends the request. Every user has one address, which the authentication, *)
(* external, has proved: the address of a request is that of its user.     *)
(***************************************************************************)
EXTENDS Integers, Sequences, FiniteSets

CONSTANTS
    Requests,        \* requests handled at the same time
    RoleIds,         \* ids of role documents
    Users,
    Nobody,          \* an empty user id
    Absent,          \* no document yet
    Gone,            \* a document that was deleted
    Founder,         \* the user who registers the merchant
    FirstAdmin,      \* the administrator there is from the start
    Profiled,        \* users with a complete profile from the start
    ProfileInputs,   \* whether a profile that is sent has both names
    MaxTroubles      \* bound on failed calls and on requests that start while another is
                     \* handled, together

Merchant == "merchant"
System == "system"
Scopes == {Merchant, System}

\* merchantUserRoles, the ones the code tells apart and another.
RolesOf(scope) == IF scope = Merchant THEN {"owner", "viewer"}
                                      ELSE {"admin", "support"}

VARIABLES
    registered,    \* whether the merchant is stored
    roles,         \* role id -> document, Absent or Gone
    grants,        \* casbin: <<scope, user, role>>
    profiles,      \* user -> profile or Absent
    invites,       \* invitations that were mailed
    letters,       \* users who were mailed the token that confirms their address
    r,             \* request -> its state
    overlaps,      \* how many requests started while another was handled
    userFailures

userVars == <<registered, roles, grants, profiles, invites, letters, r, overlaps,
              userFailures>>

RoleDoc == [scope : Scopes, email : Users, user : Users \cup {Nobody},
            role : RolesOf(Merchant) \cup RolesOf(System), status : {"invited", "accepted"}]

ASSUME UsersAssumption ==
    /\ {Founder, FirstAdmin} \cup Profiled \subseteq Users /\ Nobody \notin Users
    /\ Absent # Gone /\ Absent \notin RoleDoc /\ Gone \notin RoleDoc
    /\ ProfileInputs \subseteq BOOLEAN
    /\ MaxTroubles \in Nat

ProfileDoc == [names : BOOLEAN, mailed : BOOLEAN, confirmed : BOOLEAN]

Calls == {"insert", "send", "update", "delete", "revoke", "grant", "grantFirst", "confirm",
          "truncate", "upsert", "mail"}

Idle == [todo |-> <<>>, id |-> Absent, doc |-> Absent, user |-> Nobody, profile |-> Absent]

UsersTypeOK ==
    /\ registered \in BOOLEAN
    /\ roles \in [RoleIds -> RoleDoc \cup {Absent, Gone}]
    /\ grants \subseteq Scopes \X Users \X (RolesOf(Merchant) \cup RolesOf(System))
    /\ profiles \in [Users -> ProfileDoc \cup {Absent}]
    /\ invites \subseteq [scope : Scopes, email : Users, id : RoleIds]
    /\ letters \subseteq Users
    /\ \A p \in Requests :
          /\ \A i \in DOMAIN r[p].todo : r[p].todo[i] \in Calls
          /\ r[p].id \in RoleIds \cup {Absent} /\ r[p].doc \in RoleDoc \cup {Absent}
          /\ r[p].user \in Users \cup {Nobody} /\ r[p].profile \in ProfileDoc \cup {Absent}
    /\ overlaps \in Nat /\ userFailures \in Nat /\ overlaps + userFailures <= MaxTroubles

Complete == [names |-> TRUE, mailed |-> TRUE, confirmed |-> FALSE]

\* One administrator is there; the merchant is not.
UsersInit ==
    /\ registered = FALSE
    /\ \E id \in RoleIds : roles = [x \in RoleIds |->
          IF x = id THEN [scope |-> System, email |-> FirstAdmin, user |-> FirstAdmin,
                          role |-> "admin", status |-> "accepted"]
                    ELSE Absent]
    /\ grants = {<<System, FirstAdmin, "admin">>}
    /\ profiles = [u \in Users |-> IF u \in Profiled THEN Complete ELSE Absent]
    /\ invites = {} /\ letters = Profiled
    /\ r = [p \in Requests |-> Idle]
    /\ overlaps = 0
    /\ userFailures = 0

-----------------------------------------------------------------------------
(* The role repository.                                                    *)

Stored == {id \in RoleIds : roles[id] \notin {Absent, Gone}}

\* GetMerchantOwner and GetSystemAdmin find by role, GetMerchantUserByEmail and
\* GetAdminUserByEmail by address, GetMerchantUserByUserId by user.
GetMerchantOwner == {id \in Stored : roles[id].scope = Merchant /\ roles[id].role = "owner"}
GetSystemAdmin == {id \in Stored : roles[id].role = "admin"}
GetMerchantUserByEmail(u) == {id \in Stored : roles[id].scope = Merchant /\ roles[id].email = u}
GetAdminUserByEmail(u) == {id \in Stored : roles[id].scope = System /\ roles[id].email = u}
GetMerchantUserByUserId(u) == {id \in Stored : roles[id].scope = Merchant /\ roles[id].user = u}
GetAdminUserByUserId(u) == {id \in Stored : roles[id].scope = System /\ roles[id].user = u}

\* The documents of one user: the cached list of GetMerchantsForUser is never used, since
\* it is read into a nil slice.
GetMerchantsForUser(u) == GetMerchantUserByUserId(u)

\* GetMerchantUserById and GetAdminUserById; the service refuses a role of another scope.
GetMerchantUserById(id) == id \in Stored /\ roles[id].scope = Merchant
GetAdminUserById(id) == id \in Stored /\ roles[id].scope = System

FreshId(id) == roles[id] = Absent /\ \A p \in Requests : r[p].id # id

-----------------------------------------------------------------------------
(* Requests.                                                               *)

Start(p, calls, id, doc, u, profile) ==
    /\ r[p] = Idle
    /\ r' = [r EXCEPT ![p] = [todo |-> calls, id |-> id, doc |-> doc, user |-> u,
                              profile |-> profile]]
    /\ overlaps' = IF \E q \in Requests : r[q] # Idle THEN overlaps + 1 ELSE overlaps
    /\ overlaps' + userFailures <= MaxTroubles

\* The end of ChangeMerchant for a new merchant: the merchant is stored, then its owner
\* gets the role and the permission.
RegisterMerchant(p, id) ==
    /\ ~registered /\ registered' = TRUE
    /\ FreshId(id)
    /\ Start(p, <<"insert", "grant">>, id,
             [scope |-> Merchant, email |-> Founder, user |-> Founder, role |-> "owner",
              status |-> "accepted"], Founder, Absent)
    /\ UNCHANGED <<roles, grants, profiles, invites, letters, userFailures>>

\* Mistake: a status of no meaning.
InvitationPending(scope, u, role) ==
    [scope |-> scope, email |-> u, user |-> Nobody, role |-> role, status |-> "pending"]

Invitation(scope, u, role) ==
    [scope |-> scope, email |-> u, user |-> Nobody, role |-> role, status |-> "invited"]

InviteUserMerchant(p, id, u, role) ==
    /\ role # "owner" /\ registered
    /\ GetMerchantOwner # {} /\ GetMerchantUserByEmail(u) = {} /\ FreshId(id)
    /\ Start(p, <<"insert", "send">>, id, Invitation(Merchant, u, role), u, Absent)
    /\ UNCHANGED <<registered, roles, grants, profiles, invites, letters, userFailures>>

InviteUserAdmin(p, id, u, role) ==
    /\ GetSystemAdmin # {} /\ GetAdminUserByEmail(u) = {} /\ FreshId(id)
    /\ Start(p, <<"insert", "send">>, id, Invitation(System, u, role), u, Absent)
    /\ UNCHANGED <<registered, roles, grants, profiles, invites, letters, userFailures>>

ResendInviteMerchant(p, u) ==
    /\ registered /\ GetMerchantOwner # {}
    /\ \E id \in GetMerchantUserByEmail(u) :
          /\ roles[id].status = "invited"
          /\ Start(p, <<"send">>, id, roles[id], u, Absent)
    /\ UNCHANGED <<registered, roles, grants, profiles, invites, letters, userFailures>>

\* An administrator who accepted may be invited again; the invitation is then refused.
ResendInviteAdmin(p, u) ==
    /\ GetSystemAdmin # {}
    /\ \E id \in GetAdminUserByEmail(u) : Start(p, <<"send">>, id, roles[id], u, Absent)
    /\ UNCHANGED <<registered, roles, grants, profiles, invites, letters, userFailures>>

\* parseInviteToken: the token is one that was signed and is for the address of the user.
ParseInviteToken(t, u) == t \in invites /\ t.email = u

\* Mistake: the address of the invitation is not compared.
AcceptAnyInvite(p, t, u) ==
    /\ profiles[u] # Absent /\ profiles[u].names
    /\ (GetMerchantUserById(t.id) \/ GetAdminUserById(t.id)) /\ roles[t.id].status = "invited"
    /\ Start(p, <<"update", "grant", "confirm">>, t.id,
             [roles[t.id] EXCEPT !.status = "accepted", !.user = u], u, profiles[u])
    /\ UNCHANGED <<registered, roles, grants, profiles, invites, letters, userFailures>>

AcceptInvite(p, t, u) ==
    /\ ParseInviteToken(t, u)
    /\ profiles[u] # Absent /\ profiles[u].names
    /\ IF t.scope = Merchant THEN GetMerchantUserById(t.id) ELSE GetAdminUserById(t.id)
    /\ roles[t.id].status = "invited"
    /\ Start(p, <<"update", "grant", "confirm">>, t.id,
             [roles[t.id] EXCEPT !.status = "accepted", !.user = u], u, profiles[u])
    /\ UNCHANGED <<registered, roles, grants, profiles, invites, letters, userFailures>>

\* Mistake: the permission of the old role stays.
ChangeWithoutRevoke(doc) == IF doc.user = Nobody THEN <<"update">> ELSE <<"update", "grant">>

\* What casbin is told when a role changes: nothing if it was not accepted yet.
ChangeCalls(doc) == IF doc.user = Nobody THEN <<"update">> ELSE <<"update", "revoke", "grant">>

ChangeRoleForMerchantUser(p, id, role) ==
    /\ role # "owner" /\ GetMerchantUserById(id)
    /\ Start(p, ChangeCalls(roles[id]), id, [roles[id] EXCEPT !.role = role],
             roles[id].user, Absent)
    /\ UNCHANGED <<registered, roles, grants, profiles, invites, letters, userFailures>>

ChangeRoleForAdminUser(p, id, role) ==
    /\ GetAdminUserById(id)
    /\ Start(p, ChangeCalls(roles[id]), id, [roles[id] EXCEPT !.role = role],
             roles[id].user, Absent)
    /\ UNCHANGED <<registered, roles, grants, profiles, invites, letters, userFailures>>

DeleteCalls(doc) ==
    IF doc.user = Nobody THEN <<"delete">> ELSE <<"delete", "revoke", "truncate">>

DeleteMerchantUser(p, id) ==
    /\ GetMerchantUserById(id)
    /\ Start(p, DeleteCalls(roles[id]), id, roles[id], roles[id].user, Absent)
    /\ UNCHANGED <<registered, roles, grants, profiles, invites, letters, userFailures>>

DeleteAdminUser(p, id) ==
    /\ GetAdminUserById(id)
    /\ Start(p, DeleteCalls(roles[id]), id, roles[id], roles[id].user, Absent)
    /\ UNCHANGED <<registered, roles, grants, profiles, invites, letters, userFailures>>

\* updateOnboardingProfile: what the request has replaces what the profile has; the
\* address stays.
UpdateOnboardingProfile(profile, names) == [profile EXCEPT !.names = names]

CreateOrUpdateUserProfile(p, u, names) ==
    /\ Start(p, <<"upsert", "mail">>, Absent, Absent, u,
             IF profiles[u] = Absent THEN [Complete EXCEPT !.names = names, !.mailed = FALSE]
             ELSE UpdateOnboardingProfile(profiles[u], names))
    /\ UNCHANGED <<registered, roles, grants, profiles, invites, letters, userFailures>>

\* The token stays in Redis and may be used again.
ConfirmUserEmail(p, u) ==
    /\ u \in letters
    /\ profiles[u] # Absent /\ ~profiles[u].confirmed
    /\ Start(p, <<"confirm">>, Absent, Absent, u, profiles[u])
    /\ UNCHANGED <<registered, roles, grants, profiles, invites, letters, userFailures>>

\* The task gives the user who registered the merchant a role, and a permission, if they
\* have none.
MerchantsMigrate(p, id) ==
    LET found == GetMerchantUserByUserId(Founder)
    IN  /\ registered
        /\ IF found = {}
           THEN /\ FreshId(id)
                /\ Start(p, <<"insert", "grantFirst">>, id,
                         [scope |-> Merchant, email |-> Founder, user |-> Founder,
                          role |-> "owner", status |-> "accepted"], Founder, Absent)
           ELSE \E x \in found : Start(p, <<"grantFirst">>, x,
                   [roles[x] EXCEPT !.role = "owner"], Founder, Absent)
        /\ UNCHANGED <<registered, roles, grants, profiles, invites, letters, userFailures>>

-----------------------------------------------------------------------------
(* The calls.                                                              *)

Made(p, call) == r[p].todo # <<>> /\ Head(r[p].todo) = call
Rest(p) == IF Len(r[p].todo) = 1 THEN Idle ELSE [r[p] EXCEPT !.todo = Tail(@)]
Goes(p) == r' = [r EXCEPT ![p] = Rest(p)]
Ends(p) == r' = [r EXCEPT ![p] = Idle]

AddUser(p, scope) ==
    /\ Made(p, "insert") /\ r[p].doc.scope = scope
    /\ roles' = [roles EXCEPT ![r[p].id] = r[p].doc]
    /\ Goes(p)
    /\ UNCHANGED <<registered, grants, profiles, invites, letters, overlaps, userFailures>>

AddMerchantUser(p) == AddUser(p, Merchant)
AddAdminUser(p) == AddUser(p, System)

CreateInviteToken(doc, id) == [scope |-> doc.scope, email |-> doc.email, id |-> id]

SendInviteEmail(p) ==
    /\ Made(p, "send")
    /\ invites' = invites \cup {CreateInviteToken(r[p].doc, r[p].id)}
    /\ Goes(p)
    /\ UNCHANGED <<registered, roles, grants, profiles, letters, overlaps, userFailures>>

\* The document is replaced; it is an error if there is none.
UpdateUser(p, scope) ==
    /\ Made(p, "update") /\ r[p].doc.scope = scope
    /\ IF r[p].id \in Stored
       THEN roles' = [roles EXCEPT ![r[p].id] = r[p].doc] /\ Goes(p)
       ELSE Ends(p) /\ UNCHANGED roles
    /\ UNCHANGED <<registered, grants, profiles, invites, letters, overlaps, userFailures>>

UpdateMerchantUser(p) == UpdateUser(p, Merchant)
UpdateAdminUser(p) == UpdateUser(p, System)

RemoveUser(p, scope) ==
    /\ Made(p, "delete") /\ r[p].doc.scope = scope
    /\ IF r[p].id \in Stored
       THEN roles' = [roles EXCEPT ![r[p].id] = Gone] /\ Goes(p)
       ELSE Ends(p) /\ UNCHANGED roles
    /\ UNCHANGED <<registered, grants, profiles, invites, letters, overlaps, userFailures>>

RemoveMerchantUser(p) == RemoveUser(p, Merchant)
RemoveAdminUser(p) == RemoveUser(p, System)

\* External, DeleteUser of casbin: every role of the user in the scope.
Revoke(p) ==
    /\ Made(p, "revoke")
    /\ grants' = {g \in grants : ~(g[1] = r[p].doc.scope /\ g[2] = r[p].user)}
    /\ Goes(p)
    /\ UNCHANGED <<registered, roles, profiles, invites, letters, overlaps, userFailures>>

\* External, AddRoleForUser of casbin; the task asks GetRolesForUser before.
Grant(p) ==
    /\ Made(p, "grant") \/ Made(p, "grantFirst")
    /\ grants' = IF /\ Made(p, "grantFirst")
                    /\ \E g \in grants : g[1] = r[p].doc.scope /\ g[2] = r[p].user
                 THEN grants
                 ELSE grants \cup {<<r[p].doc.scope, r[p].user, r[p].doc.role>>}
    /\ Goes(p)
    /\ UNCHANGED <<registered, roles, profiles, invites, letters, overlaps, userFailures>>

\* emailConfirmedSuccessfully, with the profile as it was read.
EmailConfirmedSuccessfully(p) ==
    /\ Made(p, "confirm")
    /\ profiles' = [profiles EXCEPT ![r[p].user] = [r[p].profile EXCEPT !.confirmed = TRUE]]
    /\ Goes(p)
    /\ UNCHANGED <<registered, roles, grants, invites, letters, overlaps, userFailures>>

\* The profile is read, if there is one, and emailConfirmedTruncate writes it.
EmailConfirmedTruncate(p) ==
    /\ Made(p, "truncate")
    /\ profiles' = [profiles EXCEPT ![r[p].user] =
                      IF @ = Absent THEN @ ELSE [@ EXCEPT !.confirmed = FALSE]]
    /\ Goes(p)
    /\ UNCHANGED <<registered, roles, grants, invites, letters, overlaps, userFailures>>

\* userProfileRepository.Upsert.
UpsertProfile(p) ==
    /\ Made(p, "upsert")
    /\ profiles' = [profiles EXCEPT ![r[p].user] = r[p].profile]
    /\ Goes(p)
    /\ UNCHANGED <<registered, roles, grants, invites, letters, overlaps, userFailures>>

\* setUserEmailConfirmationToken and sendUserEmailConfirmationToken, for a profile whose
\* address is to be confirmed and was not written to.
SendUserEmailConfirmationToken(p) ==
    LET profile == r[p].profile
    IN  /\ Made(p, "mail")
        /\ IF profile.mailed \/ profile.confirmed THEN UNCHANGED <<letters, profiles>>
           ELSE /\ letters' = letters \cup {r[p].user}
                /\ profiles' = [profiles EXCEPT ![r[p].user] =
                                  [profile EXCEPT !.mailed = TRUE]]
        /\ Goes(p)
        /\ UNCHANGED <<registered, roles, grants, invites, overlaps, userFailures>>

\* A call fails, or the process dies, and the rest is not done.
FailCall(p) ==
    /\ r[p] # Idle
    /\ overlaps + userFailures < MaxTroubles /\ userFailures' = userFailures + 1
    /\ Ends(p)
    /\ UNCHANGED <<registered, roles, grants, profiles, invites, letters, overlaps>>

-----------------------------------------------------------------------------
(* What a user sees.                                                       *)

\* findRoleForUser: the role at the merchant, which the request may name or not.
FindRoleForUser(u) == GetMerchantsForUser(u)

\* getUserPermissions: what casbin has for the user there.
GetUserPermissions(u, scope) == {g[3] : g \in {x \in grants : x[1] = scope /\ x[2] = u}}

\* The role that is shown and the permissions shown with it.
GetCommonUserProfile(u) ==
    LET found == IF FindRoleForUser(u) # {} THEN FindRoleForUser(u) ELSE GetAdminUserByUserId(u)
    IN  {[role |-> roles[id].role, permissions |-> GetUserPermissions(u, roles[id].scope)] :
            id \in found}

UserCall(p) ==
    \/ AddMerchantUser(p) \/ AddAdminUser(p) \/ SendInviteEmail(p)
    \/ UpdateMerchantUser(p) \/ UpdateAdminUser(p)
    \/ RemoveMerchantUser(p) \/ RemoveAdminUser(p)
    \/ Revoke(p) \/ Grant(p) \/ EmailConfirmedSuccessfully(p)
    \/ EmailConfirmedTruncate(p) \/ UpsertProfile(p)
    \/ SendUserEmailConfirmationToken(p)

RoleRequest(p, id) ==
    \/ RegisterMerchant(p, id)
    \/ MerchantsMigrate(p, id)
    \/ DeleteMerchantUser(p, id)
    \/ DeleteAdminUser(p, id)
    \/ \E role \in RolesOf(Merchant) :
          \/ ChangeRoleForMerchantUser(p, id, role)
          \/ \E u \in Users : InviteUserMerchant(p, id, u, role)
    \/ \E role \in RolesOf(System) :
          \/ ChangeRoleForAdminUser(p, id, role)
          \/ \E u \in Users : InviteUserAdmin(p, id, u, role)

UserRequest(p, u) ==
    \/ ResendInviteMerchant(p, u)
    \/ ResendInviteAdmin(p, u)
    \/ ConfirmUserEmail(p, u)
    \/ \E names \in ProfileInputs : CreateOrUpdateUserProfile(p, u, names)
    \/ \E t \in invites : AcceptInvite(p, t, u)

UsersNext ==
    \E p \in Requests :
        \/ UserCall(p) \/ FailCall(p)
        \/ \E id \in RoleIds : RoleRequest(p, id)
        \/ \E u \in Users : UserRequest(p, u)

UsersSpec == UsersInit /\ [][UsersNext]_userVars

-----------------------------------------------------------------------------
(* Properties.                                                             *)

Quiet == \A p \in Requests : r[p] = Idle

\* Requests that were handled one after the other and met no error leave casbin with the
\* permissions the role documents give: each accepted role and nothing else, whatever was
\* invited, accepted, changed, deleted and migrated before, and the profile of a user shows
\* the permissions of the role it shows (AcceptInvite, ChangeRoleForMerchantUser,
\* DeleteMerchantUser, MerchantsMigrate, GetCommonUserProfile).
PermissionsFollowRoles ==
    (Quiet /\ overlaps = 0 /\ userFailures = 0) =>
        /\ grants = {<<roles[id].scope, roles[id].user, roles[id].role>> :
                        id \in {x \in Stored : roles[x].status = "accepted"}}
        /\ \A u \in Users : \A shown \in GetCommonUserProfile(u) :
              shown.role \in shown.permissions

\* Also when requests overlap and calls fail, only those have permissions of the merchant
\* or of the system who were invited there at their address, who registered the merchant
\* or were there from the start (AcceptInvite).
GrantNeedsInvitation ==
    \A g \in grants :
        \/ \E t \in invites : t.scope = g[1] /\ t.email = g[2]
        \/ g[1] = Merchant /\ g[2] = Founder /\ registered
        \/ g[1] = System /\ g[2] = FirstAdmin
=============================================================================
