---------------------------- MODULE BackOfficeProofs ----------------------------
(***************************************************************************)
(* Theorems about the back office: Users, for any requests that overlap    *)
(* and fail, and VatReport, for any companies, payments, countries and     *)
(* lengths of months and any number of days and failures.                  *)
(***************************************************************************)
EXTENDS MCBackOffice, SumProofs, SequenceTheorems

-----------------------------------------------------------------------------
(* Users: what a request has with it while its calls are made.             *)

Work == [todo : Seq(Calls), id : RoleIds \cup {Absent}, doc : RoleDoc \cup {Absent},
         user : Users \cup {Nobody}, profile : ProfileDoc \cup {Absent}]

\* Whether one of the calls is still to be made.
Ahead(x, calls) == \E i \in DOMAIN x.todo : x.todo[i] \in calls

\* A request has what its calls will write.
Prepared(x) ==
    /\ Ahead(x, {"insert", "send", "update", "delete", "revoke", "grant", "grantFirst"})
          => x.doc \in RoleDoc /\ x.id \in RoleIds
    /\ Ahead(x, {"grant", "grantFirst"}) => x.user \in Users
    /\ Ahead(x, {"confirm", "upsert", "mail"}) => x.profile \in ProfileDoc
    /\ Ahead(x, {"mail"}) => x.user \in Users

UsersTypeInv ==
    /\ registered \in BOOLEAN
    /\ roles \in [RoleIds -> RoleDoc \cup {Absent, Gone}]
    /\ grants \subseteq Scopes \X Users \X (RolesOf(Merchant) \cup RolesOf(System))
    /\ profiles \in [Users -> ProfileDoc \cup {Absent}]
    /\ invites \subseteq [scope : Scopes, email : Users, id : RoleIds]
    /\ letters \subseteq Users
    /\ r \in [Requests -> Work]
    /\ \A p \in Requests : Prepared(r[p]) /\ (r[p] # Idle => r[p].todo # <<>>)
    /\ overlaps \in Nat /\ userFailures \in Nat /\ overlaps + userFailures <= MaxTroubles

\* A user may have roles in a scope, when the merchant is stored or not.
Entitled(scope, u, stored) ==
    \/ \E t \in invites : t.scope = scope /\ t.email = u
    \/ scope = Merchant /\ u = Founder /\ stored
    \/ scope = System /\ u = FirstAdmin

\* A request that will write a role of a user, or grant one, does so for who may have it.
Rightful(x, stored) ==
    /\ Ahead(x, {"insert", "update"}) /\ x.doc.user # Nobody
          => Entitled(x.doc.scope, x.doc.user, stored)
    /\ Ahead(x, {"grant", "grantFirst"}) => Entitled(x.doc.scope, x.user, stored)

EntitledInv ==
    /\ \A g \in grants : Entitled(g[1], g[2], registered)
    /\ \A id \in Stored : roles[id].user # Nobody
                            => Entitled(roles[id].scope, roles[id].user, registered)
    /\ \A p \in Requests : Rightful(r[p], registered)

LEMMA WorksAre ==
  /\ Idle \in Work /\ Idle.todo = <<>> /\ Prepared(Idle)
  /\ \A stored : Rightful(Idle, stored)
  /\ \A x \in Work : /\ x.todo \in Seq(Calls) /\ x.id \in RoleIds \cup {Absent}
                     /\ x.doc \in RoleDoc \cup {Absent} /\ x.user \in Users \cup {Nobody}
                     /\ x.profile \in ProfileDoc \cup {Absent}
<1>1. Idle \in Work /\ Idle.todo = <<>>
  BY DEF Idle, Work
<1>2. \A calls : ~Ahead(Idle, calls)
  BY <1>1 DEF Ahead
<1>3. Prepared(Idle) /\ \A stored : Rightful(Idle, stored)
  BY <1>2 DEF Prepared, Rightful
<1> QED
  BY <1>1, <1>3 DEF Work

-----------------------------------------------------------------------------
(* Users: the requests.                                                    *)

\* Request p starts and has x with it.
Begins(p, x) ==
    /\ x \in Work /\ x.todo # <<>>
    /\ r[p] = Idle /\ r' = [r EXCEPT ![p] = x]
    /\ overlaps' = IF \E q \in Requests : r[q] # Idle THEN overlaps + 1 ELSE overlaps
    /\ overlaps' + userFailures <= MaxTroubles
    /\ UNCHANGED <<roles, grants, profiles, invites, letters, userFailures>>
    /\ registered' \in BOOLEAN /\ (registered => registered')

LEMMA StartBegins ==
  ASSUME NEW p, NEW calls \in Seq(Calls), calls # <<>>, NEW id \in RoleIds \cup {Absent},
         NEW doc \in RoleDoc \cup {Absent}, NEW u \in Users \cup {Nobody},
         NEW profile \in ProfileDoc \cup {Absent},
         Start(p, calls, id, doc, u, profile), registered \in BOOLEAN,
         registered' = registered \/ registered' = TRUE,
         UNCHANGED <<roles, grants, profiles, invites, letters, userFailures>>
  PROVE  Begins(p, [todo |-> calls, id |-> id, doc |-> doc, user |-> u, profile |-> profile])
<1> DEFINE x == [todo |-> calls, id |-> id, doc |-> doc, user |-> u, profile |-> profile]
<1>1. x \in Work /\ x.todo = calls
  BY DEF Work
<1>2. r[p] = Idle /\ r' = [r EXCEPT ![p] = x]
  BY DEF Start
<1> HIDE DEF x
<1>3. Begins(p, x)
  BY <1>1, <1>2 DEF Start, Begins
<1> QED
  BY <1>3 DEF x

LEMMA AheadOf ==
  ASSUME NEW x
  PROVE  /\ x.todo = <<>> => \A S : ~Ahead(x, S)
         /\ \A a, S : x.todo = <<a>> => (Ahead(x, S) <=> a \in S)
         /\ \A a, b, S : x.todo = <<a, b>> => (Ahead(x, S) <=> a \in S \/ b \in S)
         /\ \A a, b, c, S : x.todo = <<a, b, c>> =>
               (Ahead(x, S) <=> a \in S \/ b \in S \/ c \in S)
BY DEF Ahead

\* One call fewer.
LEMMA AheadNearer ==
  ASSUME NEW x \in Work, x.todo # <<>>, NEW y \in Work,
         (y = Idle /\ Len(x.todo) = 1) \/ y.todo = Tail(x.todo)
  PROVE  /\ Head(x.todo) = x.todo[1] /\ 1 \in DOMAIN x.todo
         /\ \A S : Ahead(y, S) <=> \E i \in DOMAIN x.todo : i # 1 /\ x.todo[i] \in S
         /\ \A S : Ahead(x, S) <=> Head(x.todo) \in S \/ Ahead(y, S)
<1>1. x.todo \in Seq(Calls) /\ Len(x.todo) \in Nat \ {0} /\ DOMAIN x.todo = 1 .. Len(x.todo)
  BY WorksAre, EmptySeq, LenProperties
<1>2. Head(x.todo) = x.todo[1] /\ 1 \in DOMAIN x.todo
  BY <1>1
<1>3. ASSUME NEW S PROVE Ahead(y, S) <=> \E i \in DOMAIN x.todo : i # 1 /\ x.todo[i] \in S
  <2>1. CASE y = Idle /\ Len(x.todo) = 1
    BY <1>1, <2>1, WorksAre, AheadOf
  <2>2. CASE y.todo = Tail(x.todo)
    <3>1. /\ Len(Tail(x.todo)) = Len(x.todo) - 1 /\ DOMAIN y.todo = 1 .. Len(x.todo) - 1
          /\ \A i \in 1 .. Len(x.todo) - 1 : y.todo[i] = x.todo[i + 1]
      BY <1>1, <2>2
    <3>2. ASSUME NEW i \in DOMAIN y.todo, y.todo[i] \in S
          PROVE  \E j \in DOMAIN x.todo : j # 1 /\ x.todo[j] \in S
      <4>1. i + 1 \in DOMAIN x.todo /\ i + 1 # 1 /\ x.todo[i + 1] \in S
        BY <1>1, <3>1, <3>2
      <4> QED
        BY <4>1
    <3>3. ASSUME NEW i \in DOMAIN x.todo, i # 1, x.todo[i] \in S
          PROVE  \E j \in DOMAIN y.todo : y.todo[j] \in S
      <4>1. i - 1 \in DOMAIN y.todo /\ y.todo[i - 1] = x.todo[i]
        BY <1>1, <3>1, <3>3
      <4> QED
        BY <3>3, <4>1
    <3> QED
      BY <3>2, <3>3 DEF Ahead
  <2> QED
    BY <2>1, <2>2
<1>4. ASSUME NEW S PROVE Ahead(x, S) <=> Head(x.todo) \in S \/ Ahead(y, S)
  BY <1>2, <1>3 DEF Ahead
<1> QED
  BY <1>2, <1>3, <1>4

-----------------------------------------------------------------------------
(* Users: what the rest of a request leads to.                             *)

DocumentWrites == {"insert", "update", "delete"}
Grants == {"grant", "grantFirst"}

\* Role documents rs, permissions gs and invitations is belong together: an accepted
\* document is its user's, a user has one document in a scope, the owner of the merchant is
\* its founder, and an invitation names the document it is for.
StoredIn(rs) == {id \in RoleIds : rs[id] \notin {Absent, Gone}}

DocumentAgrees(doc, stored) ==
    /\ doc.status = "accepted" <=> doc.user # Nobody
    /\ doc.user # Nobody => doc.user = doc.email
    /\ doc.scope = Merchant => /\ stored
                               /\ doc.email = Founder => doc.user = Founder
                               /\ doc.role = "owner" => doc.email = Founder

DocumentsAgree(rs, stored) ==
    /\ rs \in [RoleIds -> RoleDoc \cup {Absent, Gone}]
    /\ \A id \in StoredIn(rs) : DocumentAgrees(rs[id], stored)
    /\ \A i, j \in StoredIn(rs) : rs[i].scope = rs[j].scope /\ rs[i].email = rs[j].email => i = j

PermissionOf(doc) == <<doc.scope, doc.user, doc.role>>

AcceptedIn(rs) == {id \in StoredIn(rs) : rs[id].status = "accepted"}

PermissionsAgree(rs, gs) == gs = {PermissionOf(rs[id]) : id \in AcceptedIn(rs)}

InvitesAgree(rs, is) ==
    \A t \in is : /\ t.id \in RoleIds /\ rs[t.id] # Absent
                  /\ t.id \in StoredIn(rs) => rs[t.id].scope = t.scope /\ rs[t.id].email = t.email

Agree(rs, gs, is, stored) ==
    DocumentsAgree(rs, stored) /\ PermissionsAgree(rs, gs) /\ InvitesAgree(rs, is)

\* The three once the calls of x were made.
RolesAfter(x) ==
    IF Ahead(x, {"insert", "update"}) THEN [roles EXCEPT ![x.id] = x.doc]
    ELSE IF Ahead(x, {"delete"}) THEN [roles EXCEPT ![x.id] = Gone] ELSE roles

Others(gs, x) == {g \in gs : ~(g[1] = x.doc.scope /\ g[2] = x.user)}

Granted(gs, x) == gs \cup {<<x.doc.scope, x.user, x.doc.role>>}

\* Revoke and Grant, if they are still to come.
Revoked(x) == IF Ahead(x, {"revoke"}) THEN Others(grants, x) ELSE grants

GrantsAfter(x) ==
    IF \/ Ahead(x, {"grant"})
       \/ Ahead(x, {"grantFirst"}) /\ Others(Revoked(x), x) = Revoked(x)
    THEN Granted(Revoked(x), x) ELSE Revoked(x)

InvitesAfter(x) ==
    IF Ahead(x, {"send"}) THEN invites \cup {CreateInviteToken(x.doc, x.id)} ELSE invites

\* The document is written first, a permission taken before one is given.
Ordered(todo) ==
    /\ \A i \in DOMAIN todo : todo[i] \in DocumentWrites => i = 1
    /\ \A i, j \in DOMAIN todo : todo[i] = "revoke" /\ todo[j] \in Grants => i < j
    /\ \A i, j \in DOMAIN todo : todo[i] \in Grants /\ todo[j] \in Grants => i = j

Leads(x, stored) ==
    /\ Ordered(x.todo)
    /\ Ahead(x, {"update", "delete"}) => x.id \in Stored
    /\ Agree(RolesAfter(x), GrantsAfter(x), InvitesAfter(x), stored)

\* Requests handled one by one and without failure: the one that runs leads to documents,
\* permissions and invitations that belong together.
FollowInv ==
    overlaps = 0 /\ userFailures = 0 =>
        /\ \A p, q \in Requests : r[p] # Idle /\ r[q] # Idle => p = q
        /\ \A p \in Requests : r[p] # Idle => Leads(r[p], registered)
        /\ (\A p \in Requests : r[p] = Idle) => Leads(Idle, registered)

LEMMA NothingAhead ==
  ASSUME NEW x, \A S : ~Ahead(x, S)
  PROVE  RolesAfter(x) = roles /\ GrantsAfter(x) = grants /\ InvitesAfter(x) = invites
BY DEF RolesAfter, GrantsAfter, Revoked, InvitesAfter

LEMMA IdleLeads == \A stored : Leads(Idle, stored) <=> Agree(roles, grants, invites, stored)
<1>1. Idle.todo = <<>> /\ \A S : ~Ahead(Idle, S)
  BY WorksAre, AheadOf
<1>2. Ordered(Idle.todo)
  BY <1>1 DEF Ordered
<1> QED
  BY <1>1, <1>2, NothingAhead DEF Leads

-----------------------------------------------------------------------------
(* Users: a request leads to documents that belong together.               *)

LEMMA StoredStays ==
  ASSUME NEW rs, NEW gs, NEW is, NEW stored, Agree(rs, gs, is, registered), registered => stored
  PROVE  Agree(rs, gs, is, stored)
BY DEF Agree, DocumentsAgree, DocumentAgrees

\* A document becomes an accepted one, or a document that is not accepted changes.
LEMMA OneMoreAccepted ==
  ASSUME NEW rs, NEW new, NEW gs, PermissionsAgree(rs, gs), NEW i \in RoleIds,
         i \notin AcceptedIn(rs), \A id \in RoleIds \ {i} : new[id] = rs[id]
  PROVE  PermissionsAgree(new, IF i \in AcceptedIn(new) THEN gs \cup {PermissionOf(new[i])}
                                                       ELSE gs)
<1>1. \A id \in RoleIds : id \in AcceptedIn(new) <=> IF id = i THEN i \in AcceptedIn(new)
                                                           ELSE id \in AcceptedIn(rs)
  BY DEF AcceptedIn, StoredIn
<1>2. \A id \in AcceptedIn(rs) : id \in RoleIds /\ new[id] = rs[id]
  BY DEF AcceptedIn, StoredIn
<1>3. AcceptedIn(new) \subseteq RoleIds
  BY DEF AcceptedIn, StoredIn
<1>4. CASE i \in AcceptedIn(new)
  <2>1. AcceptedIn(new) = AcceptedIn(rs) \cup {i}
    BY <1>1, <1>2, <1>3, <1>4
  <2> QED
    BY <1>2, <1>4, <2>1 DEF PermissionsAgree
<1>5. CASE i \notin AcceptedIn(new)
  <2>1. AcceptedIn(new) = AcceptedIn(rs)
    BY <1>1, <1>2, <1>3, <1>5
  <2> QED
    BY <1>2, <1>5, <2>1 DEF PermissionsAgree
<1> QED
  BY <1>4, <1>5

\* A user with one accepted document in a scope has none there when it is gone.
LEMMA OneLessAccepted ==
  ASSUME NEW stored, DocumentsAgree(roles, stored), PermissionsAgree(roles, grants),
         NEW new, NEW x, x.id \in AcceptedIn(roles), x.id \notin AcceptedIn(new),
         x.doc.scope = roles[x.id].scope, x.user = roles[x.id].user,
         \A id \in RoleIds \ {x.id} : new[id] = roles[id]
  PROVE  PermissionsAgree(new, Others(grants, x))
<1>1. AcceptedIn(new) = AcceptedIn(roles) \ {x.id} /\ AcceptedIn(roles) \subseteq RoleIds
  BY DEF AcceptedIn, StoredIn
<1>2. ASSUME NEW id \in AcceptedIn(roles)
      PROVE  roles[id].scope = x.doc.scope /\ roles[id].user = x.user <=> id = x.id
  BY DEF AcceptedIn, DocumentsAgree, DocumentAgrees
<1>3. \A id \in AcceptedIn(roles) : /\ PermissionOf(roles[id])[1] = roles[id].scope
                                    /\ PermissionOf(roles[id])[2] = roles[id].user
  BY DEF PermissionOf
<1> QED
  BY <1>1, <1>2, <1>3 DEF PermissionsAgree, Others

\* A new document, for a user who has none in its scope.
LEMMA InsertLeads ==
  ASSUME UsersAssumption, NEW stored \in BOOLEAN, Agree(roles, grants, invites, stored),
         NEW x, x.doc \in RoleDoc, x.id \in RoleIds, roles[x.id] = Absent,
         DocumentAgrees(x.doc, stored),
         \A id \in Stored : ~(roles[id].scope = x.doc.scope /\ roles[id].email = x.doc.email),
         \/ x.todo = <<"insert", "send">> /\ x.doc.user = Nobody
         \/ /\ x.todo \in {<<"insert", "grant">>, <<"insert", "grantFirst">>}
            /\ x.doc.user # Nobody /\ x.doc.user = x.user
  PROVE  Leads(x, stored)
<1> DEFINE rs == [roles EXCEPT ![x.id] = x.doc]
<1>1. RolesAfter(x) = rs
  BY AheadOf DEF RolesAfter
<1>2. /\ rs \in [RoleIds -> RoleDoc \cup {Absent, Gone}]
      /\ rs[x.id] = x.doc /\ \A id \in RoleIds \ {x.id} : rs[id] = roles[id]
      /\ x.doc \notin {Absent, Gone}
  BY DEF Agree, DocumentsAgree, UsersAssumption
<1> HIDE DEF rs
<1>3. StoredIn(rs) = Stored \cup {x.id} /\ StoredIn(roles) = Stored /\ x.id \notin Stored
  BY <1>2 DEF StoredIn, Stored
<1>4. DocumentsAgree(rs, stored)
  <2>1. \A id \in Stored : id # x.id /\ rs[id] = roles[id]
    BY <1>2, <1>3 DEF Stored
  <2>2. \A id \in StoredIn(rs) : DocumentAgrees(rs[id], stored)
    BY <1>2, <1>3, <2>1 DEF Agree, DocumentsAgree
  <2>3. \A i, j \in StoredIn(rs) : rs[i].scope = rs[j].scope /\ rs[i].email = rs[j].email => i = j
    BY <1>2, <1>3, <2>1 DEF Agree, DocumentsAgree
  <2> QED
    BY <1>2, <2>2, <2>3 DEF DocumentsAgree
<1>5. PermissionsAgree(rs, GrantsAfter(x)) /\ InvitesAgree(rs, InvitesAfter(x))
  <2>1. InvitesAgree(rs, invites)
    BY <1>2, <1>3 DEF Agree, InvitesAgree
  <2>2. x.id \notin AcceptedIn(roles) /\ (x.id \in AcceptedIn(rs) <=> x.doc.user # Nobody)
    BY <1>2, <1>3 DEF AcceptedIn, DocumentAgrees
  <2>3. PermissionsAgree(rs, IF x.doc.user # Nobody THEN grants \cup {PermissionOf(x.doc)}
                                                   ELSE grants)
    BY <1>2, <2>2, OneMoreAccepted DEF Agree
  <2>4. CASE x.todo = <<"insert", "send">> /\ x.doc.user = Nobody
    <3>1. /\ GrantsAfter(x) = grants
          /\ InvitesAfter(x) = invites \cup {CreateInviteToken(x.doc, x.id)}
      BY <2>4, AheadOf DEF GrantsAfter, Revoked, InvitesAfter
    <3>2. InvitesAgree(rs, InvitesAfter(x))
      BY <1>2, <1>3, <2>1, <3>1 DEF InvitesAgree, CreateInviteToken
    <3> QED
      BY <2>3, <2>4, <3>1, <3>2
  <2>5. CASE /\ x.todo \in {<<"insert", "grant">>, <<"insert", "grantFirst">>}
             /\ x.doc.user # Nobody /\ x.doc.user = x.user
    <3>1. Revoked(x) = grants /\ InvitesAfter(x) = invites
      BY <2>5, AheadOf DEF Revoked, InvitesAfter
    <3>2. ASSUME NEW g \in grants PROVE ~(g[1] = x.doc.scope /\ g[2] = x.user)
      <4>1. PICK id \in AcceptedIn(roles) : g = PermissionOf(roles[id])
        BY <3>2 DEF Agree, PermissionsAgree
      <4>2. id \in Stored /\ roles[id].user # Nobody /\ roles[id].user = roles[id].email
        BY <1>3, <4>1 DEF AcceptedIn, Agree, DocumentsAgree, DocumentAgrees
      <4>3. x.user = x.doc.email
        BY <2>5 DEF DocumentAgrees
      <4> QED
        BY <4>1, <4>2, <4>3 DEF PermissionOf
    <3>3. Others(grants, x) = grants
      BY <3>2 DEF Others
    <3>4. GrantsAfter(x) = grants \cup {PermissionOf(x.doc)}
      BY <2>5, <3>1, <3>3, AheadOf DEF GrantsAfter, Granted, PermissionOf
    <3> QED
      BY <2>1, <2>3, <2>5, <3>1, <3>4
  <2> QED
    BY <2>4, <2>5
<1>6. Ordered(x.todo) /\ ~Ahead(x, {"update", "delete"})
  BY AheadOf DEF Ordered, DocumentWrites, Grants
<1> QED
  BY <1>1, <1>4, <1>5, <1>6 DEF Leads, Agree

\* An invitation is accepted, or a role changes.
LEMMA RewriteLeads ==
  ASSUME UsersAssumption, NEW stored \in BOOLEAN, Agree(roles, grants, invites, stored),
         NEW x, x.doc \in RoleDoc, x.id \in Stored, DocumentAgrees(x.doc, stored),
         x.doc.scope = roles[x.id].scope, x.doc.email = roles[x.id].email,
         \/ x.todo = <<"update">> /\ roles[x.id].user = Nobody /\ x.doc.user = Nobody
         \/ /\ x.todo = <<"update", "grant", "confirm">>
            /\ roles[x.id].user = Nobody /\ x.doc.user # Nobody /\ x.user = x.doc.user
         \/ /\ x.todo = <<"update", "revoke", "grant">>
            /\ roles[x.id].user = x.doc.user /\ x.doc.user # Nobody /\ x.user = x.doc.user
  PROVE  Leads(x, stored)
<1> DEFINE rs == [roles EXCEPT ![x.id] = x.doc]
           gone == [roles EXCEPT ![x.id] = Gone]
<1>1. RolesAfter(x) = rs
  BY AheadOf DEF RolesAfter
<1>2. /\ rs \in [RoleIds -> RoleDoc \cup {Absent, Gone}]
      /\ rs[x.id] = x.doc /\ \A id \in RoleIds \ {x.id} : rs[id] = roles[id]
      /\ gone[x.id] = Gone /\ \A id \in RoleIds \ {x.id} : gone[id] = roles[id]
      /\ x.doc \notin {Absent, Gone} /\ x.id \in RoleIds
  BY DEF Agree, DocumentsAgree, UsersAssumption, Stored
<1> HIDE DEF rs, gone
<1>3. StoredIn(rs) = Stored /\ StoredIn(roles) = Stored
  BY <1>2 DEF StoredIn, Stored
<1>4. DocumentsAgree(rs, stored)
  <2>1. \A id \in Stored : id # x.id => rs[id] = roles[id]
    BY <1>2, <1>3 DEF Stored
  <2>2. \A id \in StoredIn(rs) : DocumentAgrees(rs[id], stored)
    BY <1>2, <1>3, <2>1 DEF Agree, DocumentsAgree
  <2>3. \A i \in Stored : rs[i].scope = roles[i].scope /\ rs[i].email = roles[i].email
    BY <1>2, <2>1
  <2>4. \A i, j \in StoredIn(rs) : rs[i].scope = rs[j].scope /\ rs[i].email = rs[j].email => i = j
    BY <1>3, <2>3 DEF Agree, DocumentsAgree
  <2> QED
    BY <1>2, <2>2, <2>4 DEF DocumentsAgree
<1>5. InvitesAfter(x) = invites
  BY AheadOf DEF InvitesAfter
<1>6. InvitesAgree(rs, invites)
  BY <1>2, <1>3 DEF Agree, InvitesAgree
<1>7. PermissionsAgree(rs, GrantsAfter(x))
  <2>1. x.id \in AcceptedIn(rs) <=> x.doc.user # Nobody
    BY <1>2, <1>3 DEF AcceptedIn, DocumentAgrees
  <2>2. x.id \in AcceptedIn(roles) <=> roles[x.id].user # Nobody
    BY <1>3 DEF AcceptedIn, Agree, DocumentsAgree, DocumentAgrees
  <2>3. CASE x.todo = <<"update">> /\ roles[x.id].user = Nobody /\ x.doc.user = Nobody
    <3>1. GrantsAfter(x) = grants
      BY <2>3, AheadOf DEF GrantsAfter, Revoked
    <3>2. PermissionsAgree(rs, grants)
      BY <1>2, <2>1, <2>2, <2>3, OneMoreAccepted DEF Agree
    <3> QED
      BY <3>1, <3>2
  <2>4. CASE /\ x.todo = <<"update", "grant", "confirm">>
             /\ roles[x.id].user = Nobody /\ x.doc.user # Nobody /\ x.user = x.doc.user
    <3>1. GrantsAfter(x) = grants \cup {PermissionOf(x.doc)}
      BY <2>4, AheadOf DEF GrantsAfter, Revoked, Granted, PermissionOf
    <3>2. PermissionsAgree(rs, grants \cup {PermissionOf(x.doc)})
      BY <1>2, <2>1, <2>2, <2>4, OneMoreAccepted DEF Agree
    <3> QED
      BY <3>1, <3>2
  <2>5. CASE /\ x.todo = <<"update", "revoke", "grant">>
             /\ roles[x.id].user = x.doc.user /\ x.doc.user # Nobody /\ x.user = x.doc.user
    <3>1. GrantsAfter(x) = Others(grants, x) \cup {PermissionOf(x.doc)}
      BY <2>5, AheadOf DEF GrantsAfter, Revoked, Granted, PermissionOf
    <3>2. x.id \notin AcceptedIn(gone)
      BY <1>2 DEF AcceptedIn, StoredIn
    <3>3. PermissionsAgree(gone, Others(grants, x))
      BY <1>2, <2>2, <2>5, <3>2, OneLessAccepted DEF Agree
    <3>4. \A id \in RoleIds \ {x.id} : rs[id] = gone[id]
      BY <1>2
    <3>5. PermissionsAgree(rs, Others(grants, x) \cup {PermissionOf(x.doc)})
      BY <1>2, <2>1, <2>5, <3>2, <3>3, <3>4, OneMoreAccepted
    <3> QED
      BY <3>1, <3>5
  <2> QED
    BY <2>3, <2>4, <2>5
<1>8. Ordered(x.todo)
  BY DEF Ordered, DocumentWrites, Grants
<1> QED
  BY <1>1, <1>4, <1>5, <1>6, <1>7, <1>8 DEF Leads, Agree

\* A document is deleted.
LEMMA DeleteLeads ==
  ASSUME UsersAssumption, NEW stored \in BOOLEAN, Agree(roles, grants, invites, stored),
         NEW x, x.id \in Stored, x.doc = roles[x.id], x.user = roles[x.id].user,
         x.todo = DeleteCalls(roles[x.id])
  PROVE  Leads(x, stored)
<1> DEFINE gone == [roles EXCEPT ![x.id] = Gone]
<1>1. x.todo = IF x.user = Nobody THEN <<"delete">> ELSE <<"delete", "revoke", "truncate">>
  BY DEF DeleteCalls
<1>2. RolesAfter(x) = gone /\ InvitesAfter(x) = invites
  BY <1>1, AheadOf DEF RolesAfter, InvitesAfter
<1>3. /\ gone \in [RoleIds -> RoleDoc \cup {Absent, Gone}]
      /\ gone[x.id] = Gone /\ \A id \in RoleIds \ {x.id} : gone[id] = roles[id]
      /\ x.id \in RoleIds
  BY DEF Agree, DocumentsAgree, Stored
<1> HIDE DEF gone
<1>4. StoredIn(gone) = Stored \ {x.id} /\ StoredIn(roles) = Stored
  BY <1>3 DEF StoredIn, Stored
<1>5. DocumentsAgree(gone, stored)
  <2>1. \A id \in StoredIn(gone) : gone[id] = roles[id] /\ id \in StoredIn(roles)
    BY <1>3, <1>4 DEF Stored
  <2> QED
    BY <1>3, <2>1 DEF Agree, DocumentsAgree
<1>6. InvitesAgree(gone, invites)
  BY <1>3, <1>4 DEF Agree, InvitesAgree, UsersAssumption
<1>7. PermissionsAgree(gone, GrantsAfter(x))
  <2>1. x.id \in AcceptedIn(roles) <=> roles[x.id].user # Nobody
    BY <1>4 DEF AcceptedIn, Agree, DocumentsAgree, DocumentAgrees
  <2>2. x.id \notin AcceptedIn(gone)
    BY <1>4 DEF AcceptedIn
  <2>3. CASE x.user = Nobody
    <3>1. GrantsAfter(x) = grants
      BY <1>1, <2>3, AheadOf DEF GrantsAfter, Revoked
    <3> QED
      BY <1>3, <2>1, <2>2, <2>3, <3>1, OneMoreAccepted DEF Agree
  <2>4. CASE x.user # Nobody
    <3>1. GrantsAfter(x) = Others(grants, x)
      BY <1>1, <2>4, AheadOf DEF GrantsAfter, Revoked
    <3> QED
      BY <1>3, <2>1, <2>2, <2>4, <3>1, OneLessAccepted DEF Agree
  <2> QED
    BY <2>3, <2>4
<1>8. Ordered(x.todo)
  BY <1>1 DEF Ordered, DocumentWrites, Grants
<1> QED
  BY <1>2, <1>5, <1>6, <1>7, <1>8 DEF Leads, Agree

\* No document changes: an invitation is sent again, the founder's role is granted if there
\* is none, or a profile is written.
LEMMA SameLeads ==
  ASSUME NEW stored \in BOOLEAN, Agree(roles, grants, invites, stored), NEW x,
         \/ x.todo = <<"send">> /\ x.id \in Stored /\ x.doc = roles[x.id]
         \/ /\ x.todo = <<"grantFirst">> /\ x.id \in Stored /\ x.user = roles[x.id].user
            /\ x.user # Nobody /\ x.doc.scope = roles[x.id].scope
         \/ x.todo = <<"upsert", "mail">> \/ x.todo = <<"confirm">>
  PROVE  Leads(x, stored)
<1>1. RolesAfter(x) = roles /\ Revoked(x) = grants
  BY AheadOf DEF RolesAfter, Revoked
<1>2. GrantsAfter(x) = grants
  <2>1. CASE /\ x.todo = <<"grantFirst">> /\ x.id \in Stored /\ x.user = roles[x.id].user
             /\ x.user # Nobody /\ x.doc.scope = roles[x.id].scope
    <3>1. x.id \in AcceptedIn(roles)
      BY <2>1 DEF Agree, DocumentsAgree, DocumentAgrees, AcceptedIn, StoredIn, Stored
    <3>2. PermissionOf(roles[x.id]) \in grants /\ PermissionOf(roles[x.id]) \notin Others(grants, x)
      BY <2>1, <3>1 DEF Agree, PermissionsAgree, Others, PermissionOf
    <3> QED
      BY <1>1, <2>1, <3>2, AheadOf DEF GrantsAfter
  <2>2. CASE x.todo \in {<<"send">>, <<"upsert", "mail">>, <<"confirm">>}
    BY <1>1, <2>2, AheadOf DEF GrantsAfter
  <2> QED
    BY <2>1, <2>2
<1>3. InvitesAgree(roles, InvitesAfter(x))
  <2>1. CASE x.todo = <<"send">> /\ x.id \in Stored /\ x.doc = roles[x.id]
    <3>1. InvitesAfter(x) = invites \cup {CreateInviteToken(x.doc, x.id)}
      BY <2>1, AheadOf DEF InvitesAfter
    <3> QED
      BY <2>1, <3>1 DEF Agree, InvitesAgree, CreateInviteToken, Stored
  <2>2. CASE x.todo \in {<<"grantFirst">>, <<"upsert", "mail">>, <<"confirm">>}
    BY <2>2, AheadOf DEF InvitesAfter, Agree
  <2> QED
    BY <2>1, <2>2
<1>4. Ordered(x.todo) /\ ~Ahead(x, {"update", "delete"})
  BY AheadOf DEF Ordered, DocumentWrites, Grants
<1> QED
  BY <1>1, <1>2, <1>3, <1>4 DEF Leads, Agree

-----------------------------------------------------------------------------
(* Users: every request starts with what its calls need, rightfully, and   *)
(* leads to documents that belong together.                                *)

GoodStart(p) ==
    \E x : /\ Begins(p, x) /\ Prepared(x)
           /\ EntitledInv => Rightful(x, registered')
           /\ Agree(roles, grants, invites, registered) => Leads(x, registered')

LEMMA InviteStarts ==
  ASSUME UsersAssumption, UsersTypeInv, NEW p \in Requests, NEW id \in RoleIds,
         NEW u \in Users, NEW role,
         \/ role \in RolesOf(Merchant) /\ InviteUserMerchant(p, id, u, role)
         \/ role \in RolesOf(System) /\ InviteUserAdmin(p, id, u, role)
  PROVE  GoodStart(p)
<1>1. PICK scope \in Scopes :
         /\ role \in RolesOf(scope)
         /\ scope = Merchant => registered /\ role # "owner" /\ GetMerchantOwner # {}
         /\ \A i \in Stored : ~(roles[i].scope = scope /\ roles[i].email = u)
         /\ FreshId(id) /\ registered' = registered
         /\ UNCHANGED <<roles, grants, profiles, invites, letters, userFailures>>
         /\ Start(p, <<"insert", "send">>, id, Invitation(scope, u, role), u, Absent)
  <2>1. CASE role \in RolesOf(Merchant) /\ InviteUserMerchant(p, id, u, role)
    <3>1. Merchant \in Scopes
      BY DEF Scopes
    <3> QED
      BY <2>1, <3>1, Zenon DEF InviteUserMerchant, GetMerchantUserByEmail
  <2>2. CASE role \in RolesOf(System) /\ InviteUserAdmin(p, id, u, role)
    <3>1. System \in Scopes /\ System # Merchant
      BY DEF Scopes, System, Merchant
    <3> QED
      BY <2>2, <3>1, Zenon DEF InviteUserAdmin, GetAdminUserByEmail
  <2> QED
    BY <2>1, <2>2
<1>2. PICK doc : doc = Invitation(scope, u, role)
  OBVIOUS
<1>3. /\ doc \in RoleDoc /\ doc.scope = scope /\ doc.email = u /\ doc.user = Nobody
      /\ doc.role = role /\ doc.status = "invited"
  BY <1>1, <1>2 DEF Invitation, RoleDoc, RolesOf, Scopes, Merchant, System
<1>4. PICK x : x = [todo |-> <<"insert", "send">>, id |-> id, doc |-> doc, user |-> u,
                    profile |-> Absent]
  OBVIOUS
<1>5. Begins(p, x)
  <2>1. <<"insert", "send">> \in Seq(Calls)
    BY DEF Calls
  <2> QED
    BY <1>1, <1>2, <1>3, <1>4, <2>1, StartBegins DEF UsersTypeInv
<1>6. /\ x.todo = <<"insert", "send">> /\ x.id = id /\ x.doc = doc /\ x.user = u
  BY <1>4
<1>7. Prepared(x) /\ \A stored : Rightful(x, stored)
  BY <1>3, <1>6, AheadOf DEF Prepared, Rightful
<1>8. ASSUME Agree(roles, grants, invites, registered)
      PROVE  Leads(x, registered)
  <2>1. scope = Merchant => u # Founder
    <3>1. Stored = StoredIn(roles)
      BY DEF Stored, StoredIn
    <3> QED
      BY <1>1, <1>8, <3>1 DEF GetMerchantOwner, Agree, DocumentsAgree, DocumentAgrees
  <2>2. DocumentAgrees(doc, registered)
    BY <1>1, <1>3, <2>1 DEF DocumentAgrees
  <2> QED
    BY <1>1, <1>3, <1>6, <1>8, <2>2, InsertLeads DEF FreshId, UsersTypeInv
<1> QED
  BY <1>1, <1>5, <1>7, <1>8 DEF GoodStart

\* The founder's role, for a new merchant or by the task, if there is none.
LEMMA FounderStarts ==
  ASSUME UsersAssumption, UsersTypeInv, NEW p \in Requests, NEW id \in RoleIds,
         NEW calls \in {<<"insert", "grant">>, <<"insert", "grantFirst">>},
         FreshId(id), registered', Stored = StoredIn(roles),
         Agree(roles, grants, invites, registered) =>
            \A i \in Stored : ~(roles[i].scope = Merchant /\ roles[i].email = Founder),
         UNCHANGED <<roles, grants, profiles, invites, letters, userFailures>>,
         registered' \in BOOLEAN, registered' = registered \/ registered' = TRUE,
         Start(p, calls, id,
               [scope |-> Merchant, email |-> Founder, user |-> Founder, role |-> "owner",
                status |-> "accepted"], Founder, Absent)
  PROVE  GoodStart(p)
<1>1. PICK doc : doc = [scope |-> Merchant, email |-> Founder, user |-> Founder,
                        role |-> "owner", status |-> "accepted"]
  OBVIOUS
<1>2. /\ doc \in RoleDoc /\ doc.scope = Merchant /\ doc.email = Founder /\ doc.user = Founder
      /\ doc.role = "owner" /\ doc.status = "accepted" /\ Founder \in Users /\ Founder # Nobody
  <2>1. Founder \in Users /\ Founder # Nobody
    BY DEF UsersAssumption
  <2>2. "owner" \in RolesOf(Merchant) /\ Merchant \in Scopes
    BY DEF RolesOf, Scopes, Merchant
  <2> QED
    BY <1>1, <2>1, <2>2 DEF RoleDoc
<1>3. PICK x : x = [todo |-> calls, id |-> id, doc |-> doc, user |-> Founder, profile |-> Absent]
  OBVIOUS
<1>4. Begins(p, x)
  <2>1. /\ <<"insert", "grant">> \in Seq(Calls) /\ <<"insert", "grant">> # <<>>
        /\ <<"insert", "grantFirst">> \in Seq(Calls) /\ <<"insert", "grantFirst">> # <<>>
    BY DEF Calls
  <2>2. calls \in Seq(Calls) /\ calls # <<>>
    BY <2>1, Zenon
  <2> QED
    BY <1>1, <1>2, <1>3, <2>2, StartBegins DEF UsersTypeInv
<1>5. /\ x.todo = calls /\ x.id = id /\ x.doc = doc /\ x.user = Founder
  BY <1>3
<1>6. Prepared(x)
  BY <1>2, <1>5, AheadOf DEF Prepared
<1>7. Rightful(x, registered')
  BY <1>2, <1>5 DEF Rightful, Entitled
<1>8. ASSUME Agree(roles, grants, invites, registered)
      PROVE  Leads(x, registered')
  <2>1. DocumentAgrees(doc, registered')
    BY <1>2 DEF DocumentAgrees
  <2>2. PICK stored \in BOOLEAN : stored = registered'
    OBVIOUS
  <2>3. Agree(roles, grants, invites, stored)
    BY <1>8, <2>2, StoredStays
  <2> QED
    BY <1>2, <1>5, <1>8, <2>1, <2>2, <2>3, InsertLeads DEF FreshId
<1> QED
  BY <1>4, <1>6, <1>7, <1>8 DEF GoodStart

LEMMA RegisterStarts ==
  ASSUME UsersAssumption, UsersTypeInv, NEW p \in Requests, NEW id \in RoleIds,
         RegisterMerchant(p, id)
  PROVE  GoodStart(p)
<1>1. Stored = StoredIn(roles)
  BY DEF Stored, StoredIn
<1>2. Agree(roles, grants, invites, registered) => \A i \in Stored : roles[i].scope # Merchant
  BY <1>1 DEF RegisterMerchant, Agree, DocumentsAgree, DocumentAgrees
<1> QED
  BY <1>1, <1>2, FounderStarts DEF RegisterMerchant, UsersTypeInv

LEMMA MigrateStarts ==
  ASSUME UsersAssumption, UsersTypeInv, NEW p \in Requests, NEW id \in RoleIds,
         MerchantsMigrate(p, id)
  PROVE  GoodStart(p)
<1>1. /\ Stored = StoredIn(roles) /\ registered /\ registered' = registered
      /\ UNCHANGED <<roles, grants, profiles, invites, letters, userFailures>>
      /\ \A i \in Stored : i \in RoleIds /\ roles[i] \in RoleDoc
      /\ Founder \in Users /\ Founder # Nobody
  BY DEF Stored, StoredIn, MerchantsMigrate, UsersTypeInv, UsersAssumption
<1>2. CASE GetMerchantUserByUserId(Founder) = {}
  <2>1. Agree(roles, grants, invites, registered) =>
            \A i \in Stored : ~(roles[i].scope = Merchant /\ roles[i].email = Founder)
    BY <1>1, <1>2 DEF GetMerchantUserByUserId, Agree, DocumentsAgree, DocumentAgrees
  <2>2. /\ FreshId(id)
        /\ Start(p, <<"insert", "grantFirst">>, id,
                 [scope |-> Merchant, email |-> Founder, user |-> Founder, role |-> "owner",
                  status |-> "accepted"], Founder, Absent)
    BY <1>2 DEF MerchantsMigrate
  <2>3. registered' /\ registered' \in BOOLEAN /\ (registered' = registered \/ registered' = TRUE)
    BY <1>1 DEF UsersTypeInv
  <2>4. <<"insert", "grantFirst">> \in {<<"insert", "grant">>, <<"insert", "grantFirst">>}
    OBVIOUS
  <2> QED
    BY <1>1, <2>1, <2>2, <2>3, <2>4, FounderStarts
<1>3. CASE GetMerchantUserByUserId(Founder) # {}
  <2>1. PICK i \in GetMerchantUserByUserId(Founder) :
           Start(p, <<"grantFirst">>, i, [roles[i] EXCEPT !.role = "owner"], Founder, Absent)
    BY <1>3, Zenon DEF MerchantsMigrate
  <2>2. i \in Stored /\ roles[i].scope = Merchant /\ roles[i].user = Founder
    BY <2>1 DEF GetMerchantUserByUserId
  <2>3. PICK doc : doc = [roles[i] EXCEPT !.role = "owner"]
    OBVIOUS
  <2>4. doc \in RoleDoc /\ doc.scope = Merchant
    <3>1. "owner" \in RolesOf(Merchant)
      BY DEF RolesOf
    <3> QED
      BY <1>1, <2>2, <2>3, <3>1 DEF RoleDoc
  <2>5. PICK x : x = [todo |-> <<"grantFirst">>, id |-> i, doc |-> doc, user |-> Founder,
                      profile |-> Absent]
    OBVIOUS
  <2>6. Begins(p, x)
    <3>1. <<"grantFirst">> \in Seq(Calls) /\ <<"grantFirst">> # <<>>
      BY DEF Calls
    <3> QED
      BY <1>1, <2>1, <2>2, <2>3, <2>4, <2>5, <3>1, StartBegins DEF UsersTypeInv
  <2>7. /\ x.todo = <<"grantFirst">> /\ x.id = i /\ x.doc = doc /\ x.user = Founder
    BY <2>5
  <2>8. Prepared(x)
    BY <1>1, <2>2, <2>4, <2>7, AheadOf DEF Prepared
  <2>9. Rightful(x, registered')
    BY <1>1, <2>4, <2>7, AheadOf DEF Rightful, Entitled
  <2>10. Agree(roles, grants, invites, registered) => Leads(x, registered')
    BY <1>1, <2>2, <2>4, <2>7, SameLeads
  <2> QED
    BY <2>6, <2>8, <2>9, <2>10 DEF GoodStart
<1> QED
  BY <1>2, <1>3

\* The role of the document changes, and with it what casbin has.
LEMMA ChangeStarts ==
  ASSUME UsersAssumption, UsersTypeInv, NEW p \in Requests, NEW id \in RoleIds, NEW role,
         \/ role \in RolesOf(Merchant) /\ ChangeRoleForMerchantUser(p, id, role)
         \/ role \in RolesOf(System) /\ ChangeRoleForAdminUser(p, id, role)
  PROVE  GoodStart(p)
<1>1. /\ Stored = StoredIn(roles) /\ registered' = registered
      /\ UNCHANGED <<roles, grants, profiles, invites, letters, userFailures>>
      /\ id \in Stored /\ roles[id] \in RoleDoc
  BY DEF Stored, StoredIn, ChangeRoleForMerchantUser, ChangeRoleForAdminUser, UsersTypeInv,
         GetMerchantUserById, GetAdminUserById
<1>2. PICK doc : doc = [roles[id] EXCEPT !.role = role]
  OBVIOUS
<1>3. /\ Start(p, ChangeCalls(roles[id]), id, doc, roles[id].user, Absent)
      /\ role \in RolesOf(Merchant) \cup RolesOf(System)
      /\ roles[id].scope = Merchant => role # "owner"
  BY <1>2 DEF ChangeRoleForMerchantUser, ChangeRoleForAdminUser, GetAdminUserById, System, Merchant
<1>4. /\ doc \in RoleDoc /\ doc.scope = roles[id].scope /\ doc.email = roles[id].email
      /\ doc.user = roles[id].user /\ doc.status = roles[id].status /\ doc.role = role
      /\ roles[id].user \in Users \cup {Nobody}
  BY <1>1, <1>2, <1>3 DEF RoleDoc
<1>5. PICK x : x = [todo |-> ChangeCalls(roles[id]), id |-> id, doc |-> doc,
                    user |-> roles[id].user, profile |-> Absent]
  OBVIOUS
<1>6. Begins(p, x)
  <2>1. ChangeCalls(roles[id]) \in Seq(Calls) /\ ChangeCalls(roles[id]) # <<>>
    <3>1. /\ <<"update">> \in Seq(Calls) /\ <<"update">> # <<>>
          /\ <<"update", "revoke", "grant">> \in Seq(Calls) /\ <<"update", "revoke", "grant">> # <<>>
      BY DEF Calls
    <3> QED
      BY <3>1 DEF ChangeCalls
  <2> QED
    BY <1>1, <1>3, <1>4, <1>5, <2>1, StartBegins DEF UsersTypeInv
<1>7. /\ x.id = id /\ x.doc = doc /\ x.user = doc.user
      /\ \/ x.todo = <<"update">> /\ doc.user = Nobody
         \/ x.todo = <<"update", "revoke", "grant">> /\ doc.user # Nobody
  BY <1>4, <1>5 DEF ChangeCalls
<1>8. Prepared(x)
  BY <1>1, <1>4, <1>7, AheadOf DEF Prepared
<1>9. EntitledInv => Rightful(x, registered')
  BY <1>1, <1>4, <1>7, AheadOf DEF EntitledInv, Rightful
<1>10. ASSUME Agree(roles, grants, invites, registered)
       PROVE  Leads(x, registered')
  <2>1. DocumentAgrees(roles[id], registered)
    BY <1>1, <1>10 DEF Agree, DocumentsAgree
  <2>2. DocumentAgrees(doc, registered)
    BY <1>3, <1>4, <2>1 DEF DocumentAgrees
  <2> QED
    BY <1>1, <1>4, <1>7, <1>10, <2>2, RewriteLeads DEF UsersTypeInv
<1> QED
  BY <1>6, <1>8, <1>9, <1>10 DEF GoodStart

LEMMA DeleteStarts ==
  ASSUME UsersAssumption, UsersTypeInv, NEW p \in Requests, NEW id \in RoleIds,
         DeleteMerchantUser(p, id) \/ DeleteAdminUser(p, id)
  PROVE  GoodStart(p)
<1>1. /\ Stored = StoredIn(roles) /\ registered' = registered
      /\ UNCHANGED <<roles, grants, profiles, invites, letters, userFailures>>
      /\ id \in Stored /\ roles[id] \in RoleDoc
      /\ Start(p, DeleteCalls(roles[id]), id, roles[id], roles[id].user, Absent)
  BY DEF Stored, StoredIn, DeleteMerchantUser, DeleteAdminUser, UsersTypeInv,
         GetMerchantUserById, GetAdminUserById
<1>2. PICK x : x = [todo |-> DeleteCalls(roles[id]), id |-> id, doc |-> roles[id],
                    user |-> roles[id].user, profile |-> Absent]
  OBVIOUS
<1>3. Begins(p, x)
  <2>1. DeleteCalls(roles[id]) \in Seq(Calls) /\ DeleteCalls(roles[id]) # <<>>
    <3>1. /\ <<"delete">> \in Seq(Calls) /\ <<"delete">> # <<>>
          /\ <<"delete", "revoke", "truncate">> \in Seq(Calls)
          /\ <<"delete", "revoke", "truncate">> # <<>>
      BY DEF Calls
    <3> QED
      BY <3>1 DEF DeleteCalls
  <2>2. roles[id].user \in Users \cup {Nobody}
    BY <1>1 DEF RoleDoc
  <2> QED
    BY <1>1, <1>2, <2>1, <2>2, StartBegins DEF UsersTypeInv
<1>4. /\ x.id = id /\ x.doc = roles[id] /\ x.user = roles[id].user
      /\ x.todo = DeleteCalls(roles[id])
      /\ x.todo = <<"delete">> \/ x.todo = <<"delete", "revoke", "truncate">>
  BY <1>2 DEF DeleteCalls
<1>5. Prepared(x)
  BY <1>1, <1>4, AheadOf DEF Prepared
<1>6. Rightful(x, registered')
  BY <1>4, AheadOf DEF Rightful
<1>7. Agree(roles, grants, invites, registered) => Leads(x, registered')
  BY <1>1, <1>4, DeleteLeads DEF UsersTypeInv
<1> QED
  BY <1>3, <1>5, <1>6, <1>7 DEF GoodStart

LEMMA ResendStarts ==
  ASSUME UsersAssumption, UsersTypeInv, NEW p \in Requests, NEW u \in Users,
         ResendInviteMerchant(p, u) \/ ResendInviteAdmin(p, u)
  PROVE  GoodStart(p)
<1>1. PICK id \in Stored : Start(p, <<"send">>, id, roles[id], u, Absent)
  BY DEF ResendInviteMerchant, ResendInviteAdmin, GetMerchantUserByEmail, GetAdminUserByEmail
<1>2. /\ registered' = registered /\ id \in RoleIds /\ roles[id] \in RoleDoc
      /\ UNCHANGED <<roles, grants, profiles, invites, letters, userFailures>>
  BY <1>1 DEF ResendInviteMerchant, ResendInviteAdmin, Stored, UsersTypeInv
<1>3. PICK x : x = [todo |-> <<"send">>, id |-> id, doc |-> roles[id], user |-> u,
                    profile |-> Absent]
  OBVIOUS
<1>4. Begins(p, x)
  <2>1. <<"send">> \in Seq(Calls) /\ <<"send">> # <<>>
    BY DEF Calls
  <2> QED
    BY <1>1, <1>2, <1>3, <2>1, StartBegins DEF UsersTypeInv
<1>5. x.todo = <<"send">> /\ x.id = id /\ x.doc = roles[id] /\ x.user = u
  BY <1>3
<1>6. Prepared(x) /\ Rightful(x, registered')
  BY <1>2, <1>5, AheadOf DEF Prepared, Rightful
<1>7. Agree(roles, grants, invites, registered) => Leads(x, registered')
  BY <1>1, <1>2, <1>5, SameLeads DEF UsersTypeInv
<1> QED
  BY <1>4, <1>6, <1>7 DEF GoodStart

LEMMA ProfileStarts ==
  ASSUME UsersAssumption, UsersTypeInv, NEW p \in Requests, NEW u \in Users,
         \/ ConfirmUserEmail(p, u)
         \/ \E names \in ProfileInputs : CreateOrUpdateUserProfile(p, u, names)
  PROVE  GoodStart(p)
<1>1. /\ registered' = registered
      /\ UNCHANGED <<roles, grants, profiles, invites, letters, userFailures>>
  BY Zenon DEF ConfirmUserEmail, CreateOrUpdateUserProfile
<1>2. PICK calls \in {<<"confirm">>, <<"upsert", "mail">>}, profile \in ProfileDoc :
         Start(p, calls, Absent, Absent, u, profile)
  <2>1. CASE ConfirmUserEmail(p, u)
    <3>1. profiles[u] \in ProfileDoc /\ Start(p, <<"confirm">>, Absent, Absent, u, profiles[u])
      BY <2>1 DEF ConfirmUserEmail, UsersTypeInv
    <3> QED
      BY <3>1
  <2>2. ASSUME NEW names \in ProfileInputs, CreateOrUpdateUserProfile(p, u, names)
        PROVE  \E profile \in ProfileDoc :
                  Start(p, <<"upsert", "mail">>, Absent, Absent, u, profile)
    <3>1. names \in BOOLEAN
      BY DEF UsersAssumption
    <3>2. CASE profiles[u] = Absent
      <4>1. Complete \in ProfileDoc
        BY DEF Complete, ProfileDoc
      <4>2. [Complete EXCEPT !.names = names, !.mailed = FALSE] \in ProfileDoc
        <5>1. CASE names = TRUE
          BY <4>1, <5>1 DEF ProfileDoc
        <5>2. CASE names = FALSE
          BY <4>1, <5>2 DEF ProfileDoc
        <5> QED
          BY <3>1, <5>1, <5>2
      <4>3. Start(p, <<"upsert", "mail">>, Absent, Absent, u,
                  [Complete EXCEPT !.names = names, !.mailed = FALSE])
        BY <2>2, <3>2, Zenon DEF CreateOrUpdateUserProfile
      <4> QED
        BY <4>2, <4>3, Zenon
    <3>3. CASE profiles[u] # Absent
      <4>1. profiles[u] \in ProfileDoc
        BY <3>3 DEF UsersTypeInv
      <4>2. UpdateOnboardingProfile(profiles[u], names) \in ProfileDoc
        BY <3>1, <4>1 DEF UpdateOnboardingProfile, ProfileDoc
      <4> QED
        BY <2>2, <3>3, <4>2 DEF CreateOrUpdateUserProfile
    <3> QED
      BY <3>2, <3>3
  <2> QED
    BY <2>1, <2>2
<1>3. PICK x : x = [todo |-> calls, id |-> Absent, doc |-> Absent, user |-> u,
                    profile |-> profile]
  OBVIOUS
<1>4. Begins(p, x)
  <2>1. /\ <<"confirm">> \in Seq(Calls) /\ <<"confirm">> # <<>>
        /\ <<"upsert", "mail">> \in Seq(Calls) /\ <<"upsert", "mail">> # <<>>
    BY DEF Calls
  <2> QED
    BY <1>1, <1>2, <1>3, <2>1, StartBegins DEF UsersTypeInv
<1>5. /\ x.todo = <<"confirm">> \/ x.todo = <<"upsert", "mail">>
      /\ x.user = u /\ x.profile \in ProfileDoc
  BY <1>2, <1>3
<1>6. Prepared(x) /\ Rightful(x, registered')
  BY <1>5, AheadOf DEF Prepared, Rightful
<1>7. Agree(roles, grants, invites, registered) => Leads(x, registered')
  BY <1>1, <1>5, SameLeads DEF UsersTypeInv
<1> QED
  BY <1>4, <1>6, <1>7 DEF GoodStart

LEMMA AcceptStarts ==
  ASSUME UsersAssumption, UsersTypeInv, NEW p \in Requests, NEW u \in Users,
         NEW t \in invites, AcceptInvite(p, t, u)
  PROVE  GoodStart(p)
<1>1. /\ Stored = StoredIn(roles) /\ registered' = registered /\ u # Nobody
      /\ UNCHANGED <<roles, grants, profiles, invites, letters, userFailures>>
      /\ t \in [scope : Scopes, email : Users, id : RoleIds] /\ t.email = u
      /\ t.id \in Stored /\ roles[t.id] \in RoleDoc /\ roles[t.id].scope = t.scope
      /\ roles[t.id].status = "invited" /\ profiles[u] \in ProfileDoc
  <2>1. /\ Stored = StoredIn(roles) /\ registered' = registered /\ u # Nobody
        /\ UNCHANGED <<roles, grants, profiles, invites, letters, userFailures>>
        /\ t \in [scope : Scopes, email : Users, id : RoleIds] /\ t.email = u
        /\ profiles[u] \in ProfileDoc /\ roles[t.id].status = "invited"
    BY DEF Stored, StoredIn, AcceptInvite, ParseInviteToken, UsersTypeInv, UsersAssumption
  <2>2. t.id \in Stored /\ roles[t.id].scope = t.scope
    <3>1. t.scope \in {Merchant, System}
      BY <2>1 DEF Scopes
    <3> QED
      BY <3>1 DEF AcceptInvite, GetMerchantUserById, GetAdminUserById, System, Merchant
  <2>3. roles[t.id] \in RoleDoc
    BY <2>1, <2>2 DEF Stored, UsersTypeInv
  <2> QED
    BY <2>1, <2>2, <2>3
<1>2. PICK doc : doc = [roles[t.id] EXCEPT !.status = "accepted", !.user = u]
  OBVIOUS
<1>3. Start(p, <<"update", "grant", "confirm">>, t.id, doc, u, profiles[u])
  BY <1>2 DEF AcceptInvite
<1>4. /\ doc \in RoleDoc /\ doc.scope = t.scope /\ doc.email = roles[t.id].email
      /\ doc.user = u /\ doc.status = "accepted" /\ doc.role = roles[t.id].role
  BY <1>1, <1>2 DEF RoleDoc
<1>5. PICK x : x = [todo |-> <<"update", "grant", "confirm">>, id |-> t.id, doc |-> doc,
                    user |-> u, profile |-> profiles[u]]
  OBVIOUS
<1>6. Begins(p, x)
  <2>1. <<"update", "grant", "confirm">> \in Seq(Calls) /\ <<"update", "grant", "confirm">> # <<>>
    BY DEF Calls
  <2> QED
    BY <1>1, <1>3, <1>4, <1>5, <2>1, StartBegins DEF UsersTypeInv
<1>7. /\ x.todo = <<"update", "grant", "confirm">> /\ x.id = t.id /\ x.doc = doc /\ x.user = u
      /\ x.profile = profiles[u]
  BY <1>5
<1>8. Prepared(x)
  BY <1>1, <1>4, <1>7 DEF Prepared
<1>9. Rightful(x, registered')
  BY <1>1, <1>4, <1>7 DEF Rightful, Entitled
<1>10. ASSUME Agree(roles, grants, invites, registered)
       PROVE  Leads(x, registered')
  <2>1. DocumentAgrees(roles[t.id], registered)
    BY <1>1, <1>10 DEF Agree, DocumentsAgree
  <2>2. roles[t.id].user = Nobody /\ roles[t.id].email = u
    BY <1>1, <1>10, <2>1 DEF DocumentAgrees, Agree, InvitesAgree
  <2>3. DocumentAgrees(doc, registered)
    BY <1>1, <1>4, <2>1, <2>2 DEF DocumentAgrees
  <2> QED
    BY <1>1, <1>4, <1>7, <1>10, <2>2, <2>3, RewriteLeads DEF UsersTypeInv
<1> QED
  BY <1>6, <1>8, <1>9, <1>10 DEF GoodStart

LEMMA RequestsStartWell ==
  ASSUME UsersAssumption, UsersTypeInv, NEW p \in Requests,
         \/ \E id \in RoleIds : RoleRequest(p, id)
         \/ \E u \in Users : UserRequest(p, u)
  PROVE  GoodStart(p)
<1>1. ASSUME NEW id \in RoleIds, RoleRequest(p, id) PROVE GoodStart(p)
  BY <1>1, InviteStarts, RegisterStarts, MigrateStarts, ChangeStarts, DeleteStarts
  DEF RoleRequest
<1>2. ASSUME NEW u \in Users, UserRequest(p, u) PROVE GoodStart(p)
  BY <1>2, ResendStarts, ProfileStarts, AcceptStarts DEF UserRequest
<1> QED
  BY <1>1, <1>2

-----------------------------------------------------------------------------
(* Users: the calls.                                                       *)

\* What is left of x after its next call, and of a request whose document is not there.
Left(x, y) ==
    \/ y = Idle /\ Len(x.todo) = 1
    \/ /\ y.todo = Tail(x.todo) /\ y.todo # <<>> /\ y.id = x.id /\ y.doc = x.doc
       /\ y.user = x.user /\ y.profile = x.profile

Dropped(x, y) == y = Idle /\ Head(x.todo) \in {"update", "delete"} /\ x.id \notin Stored

\* The calls' effects that others can see, apart from profiles.
Effects(x) ==
    LET call == Head(x.todo)
    IN  /\ roles' = IF call \in {"insert", "update"} THEN [roles EXCEPT ![x.id] = x.doc]
                    ELSE IF call = "delete" THEN [roles EXCEPT ![x.id] = Gone] ELSE roles
        /\ grants' = IF call = "revoke" THEN Others(grants, x)
                     ELSE IF \/ call = "grant"
                             \/ call = "grantFirst" /\ Others(grants, x) = grants
                          THEN Granted(grants, x) ELSE grants
        /\ invites' = IF call = "send"
                      THEN invites \cup {CreateInviteToken(x.doc, x.id)} ELSE invites

UserCallTaken(p) ==
    /\ r[p].todo # <<>> /\ r[p] # Idle
    /\ \E y \in Work : /\ r' = [r EXCEPT ![p] = y]
                       /\ \/ Left(r[p], y) /\ Effects(r[p])
                          \/ Dropped(r[p], y) /\ UNCHANGED <<roles, grants, invites>>
    /\ UNCHANGED <<registered, overlaps, userFailures>>

LEMMA RestIsLeft ==
  ASSUME UsersTypeInv, NEW p \in Requests, r[p].todo # <<>>
  PROVE  /\ Rest(p) \in Work /\ Left(r[p], Rest(p)) /\ r[p] # Idle /\ r[p] \in Work
         /\ r[p].todo \in Seq(Calls) /\ Head(r[p].todo) = r[p].todo[1]
         /\ 1 \in DOMAIN r[p].todo
<1>1. r[p] \in Work /\ r[p].todo \in Seq(Calls) /\ Idle \in Work /\ Idle.todo = <<>>
  BY WorksAre DEF UsersTypeInv
<1>2. /\ Len(r[p].todo) \in Nat \ {0} /\ Tail(r[p].todo) \in Seq(Calls)
      /\ Len(Tail(r[p].todo)) = Len(r[p].todo) - 1
      /\ Head(r[p].todo) = r[p].todo[1] /\ 1 \in DOMAIN r[p].todo
  BY <1>1, EmptySeq, HeadTailProperties
<1>3. CASE Len(r[p].todo) = 1
  BY <1>1, <1>2, <1>3 DEF Rest, Left
<1>4. CASE Len(r[p].todo) # 1
  <2> DEFINE y == [r[p] EXCEPT !.todo = Tail(r[p].todo)]
  <2>1. Rest(p) = y
    BY <1>4 DEF Rest
  <2>2. /\ y \in Work /\ y.todo = Tail(r[p].todo) /\ y.id = r[p].id /\ y.doc = r[p].doc
        /\ y.user = r[p].user /\ y.profile = r[p].profile
    BY <1>1, <1>2 DEF Work
  <2>3. Tail(r[p].todo) # <<>>
    <3>1. Len(Tail(r[p].todo)) # 0
      BY <1>2, <1>4
    <3> QED
      BY <3>1, EmptySeq, Zenon
  <2> HIDE DEF y
  <2> QED
    BY <1>1, <1>2, <2>1, <2>2, <2>3 DEF Left
<1> QED
  BY <1>3, <1>4

LEMMA UserCallsAreTaken ==
  ASSUME UsersTypeInv, NEW p \in Requests, UserCall(p)
  PROVE  UserCallTaken(p)
<1> DEFINE x == r[p]
<1>1. x.todo # <<>> /\ UNCHANGED <<registered, overlaps, userFailures>>
  BY DEF UserCall, AddMerchantUser, AddAdminUser, AddUser, SendInviteEmail, UpdateMerchantUser,
         UpdateAdminUser, UpdateUser, RemoveMerchantUser, RemoveAdminUser, RemoveUser, Revoke,
         Grant, EmailConfirmedSuccessfully, EmailConfirmedTruncate, UpsertProfile,
         SendUserEmailConfirmationToken, Made
<1>2. Rest(p) \in Work /\ Left(x, Rest(p)) /\ x # Idle /\ Idle \in Work
  BY <1>1, RestIsLeft, WorksAre
<1>3. \/ r' = [r EXCEPT ![p] = Rest(p)] /\ Effects(x)
      \/ r' = [r EXCEPT ![p] = Idle] /\ Dropped(x, Idle) /\ UNCHANGED <<roles, grants, invites>>
  <2>1. CASE AddMerchantUser(p) \/ AddAdminUser(p)
    BY <2>1 DEF AddMerchantUser, AddAdminUser, AddUser, Made, Goes, Effects
  <2>2. CASE SendInviteEmail(p)
    BY <2>2 DEF SendInviteEmail, Made, Goes, Effects
  <2>3. CASE UpdateMerchantUser(p) \/ UpdateAdminUser(p)
    BY <2>3 DEF UpdateMerchantUser, UpdateAdminUser, UpdateUser, Made, Goes, Ends, Effects, Dropped
  <2>4. CASE RemoveMerchantUser(p) \/ RemoveAdminUser(p)
    BY <2>4 DEF RemoveMerchantUser, RemoveAdminUser, RemoveUser, Made, Goes, Ends, Effects, Dropped
  <2>5. CASE Revoke(p)
    BY <2>5 DEF Revoke, Made, Goes, Effects, Others
  <2>6. CASE Grant(p)
    <3>1. (\E g \in grants : g[1] = x.doc.scope /\ g[2] = x.user) <=> Others(grants, x) # grants
      BY DEF Others
    <3> HIDE DEF x
    <3>2. /\ Head(x.todo) \in {"grant", "grantFirst"} /\ r' = [r EXCEPT ![p] = Rest(p)]
          /\ UNCHANGED <<roles, invites>>
          /\ grants' = IF Head(x.todo) = "grantFirst" /\ Others(grants, x) # grants
                       THEN grants ELSE Granted(grants, x)
      BY <2>6, <3>1 DEF Grant, Made, Goes, Granted, x
    <3> QED
      BY <3>2 DEF Effects
  <2>7. CASE EmailConfirmedSuccessfully(p)
    BY <2>7 DEF EmailConfirmedSuccessfully, Made, Goes, Effects
  <2>8. CASE EmailConfirmedTruncate(p)
    BY <2>8 DEF EmailConfirmedTruncate, Made, Goes, Effects
  <2>9. CASE UpsertProfile(p)
    BY <2>9 DEF UpsertProfile, Made, Goes, Effects
  <2>10. CASE SendUserEmailConfirmationToken(p)
    BY <2>10 DEF SendUserEmailConfirmationToken, Made, Goes, Effects
  <2> QED
    BY <2>1, <2>2, <2>3, <2>4, <2>5, <2>6, <2>7, <2>8, <2>9, <2>10 DEF UserCall
<1> QED
  BY <1>1, <1>2, <1>3 DEF UserCallTaken

LEMMA HeadIsAhead ==
  ASSUME UsersTypeInv, NEW p \in Requests, r[p].todo # <<>>, NEW S, Head(r[p].todo) \in S
  PROVE  Ahead(r[p], S)
BY RestIsLeft DEF Ahead

\* What is left needs no more than there was.
LEMMA LeftIsLess ==
  ASSUME UsersTypeInv, NEW p \in Requests, r[p].todo # <<>>, NEW y \in Work,
         Left(r[p], y) \/ y = Idle
  PROVE  /\ Prepared(y) /\ (y # Idle => y.todo # <<>>)
         /\ \A stored : Rightful(r[p], stored) => Rightful(y, stored)
<1> DEFINE x == r[p]
<1>1. CASE y = Idle
  BY <1>1, WorksAre
<1>2. CASE y # Idle
  <2>1. /\ y.todo = Tail(x.todo) /\ y.todo # <<>> /\ y.id = x.id /\ y.doc = x.doc
        /\ y.user = x.user /\ y.profile = x.profile
    BY <1>2 DEF Left
  <2>2. \A S : Ahead(y, S) => Ahead(x, S)
    BY <2>1, RestIsLeft, AheadNearer
  <2>3. Prepared(x)
    BY DEF UsersTypeInv
  <2> HIDE DEF x
  <2>4. Prepared(y)
    BY <2>1, <2>2, <2>3 DEF Prepared
  <2>5. \A stored : Rightful(x, stored) => Rightful(y, stored)
    BY <2>1, <2>2 DEF Rightful
  <2> QED
    BY <2>1, <2>4, <2>5 DEF x
<1> QED
  BY <1>1, <1>2

LEMMA UserCallTypes ==
  ASSUME UsersAssumption, UsersTypeInv, NEW p \in Requests, UserCall(p)
  PROVE  UsersTypeInv'
<1> DEFINE x == r[p]
<1>1. UserCallTaken(p) /\ x.todo # <<>> /\ x \in Work /\ Prepared(x)
  BY UserCallsAreTaken DEF UserCallTaken, UsersTypeInv
<1>2. /\ r' \in [Requests -> Work]
      /\ \A q \in Requests : Prepared(r'[q]) /\ (r'[q] # Idle => r'[q].todo # <<>>)
      /\ UNCHANGED <<registered, overlaps, userFailures>>
  <2>1. PICK y \in Work : r' = [r EXCEPT ![p] = y] /\ (Left(x, y) \/ y = Idle)
    BY <1>1 DEF UserCallTaken, Dropped
  <2>2. Prepared(y) /\ (y # Idle => y.todo # <<>>)
    BY <1>1, <2>1, LeftIsLess
  <2> QED
    BY <1>1, <2>1, <2>2 DEF UserCallTaken, UsersTypeInv
<1>3. \A S : Head(x.todo) \in S => Ahead(x, S)
  BY <1>1, HeadIsAhead
<1>4. roles' \in [RoleIds -> RoleDoc \cup {Absent, Gone}]
  <2>1. Head(x.todo) \in {"insert", "update"} => x.doc \in RoleDoc
    BY <1>1, <1>3 DEF Prepared
  <2>2. \/ roles' = roles \/ roles' = [roles EXCEPT ![x.id] = Gone]
        \/ Head(x.todo) \in {"insert", "update"} /\ roles' = [roles EXCEPT ![x.id] = x.doc]
    BY <1>1 DEF UserCallTaken, Effects
  <2> QED
    BY <2>1, <2>2 DEF UsersTypeInv
<1>5. grants' \subseteq Scopes \X Users \X (RolesOf(Merchant) \cup RolesOf(System))
  <2>1. Head(x.todo) \in {"grant", "grantFirst"} => x.doc \in RoleDoc /\ x.user \in Users
    BY <1>1, <1>3 DEF Prepared
  <2>2. \/ grants' \subseteq grants
        \/ /\ Head(x.todo) \in {"grant", "grantFirst"}
           /\ grants' = grants \cup {<<x.doc.scope, x.user, x.doc.role>>}
    BY <1>1 DEF UserCallTaken, Effects, Others, Granted
  <2>3. x.doc \in RoleDoc => /\ x.doc.scope \in Scopes
                             /\ x.doc.role \in RolesOf(Merchant) \cup RolesOf(System)
    BY DEF RoleDoc
  <2> QED
    BY <2>1, <2>2, <2>3 DEF UsersTypeInv
<1>6. invites' \subseteq [scope : Scopes, email : Users, id : RoleIds]
  <2>1. Head(x.todo) = "send" => x.doc \in RoleDoc /\ x.id \in RoleIds
    BY <1>1, <1>3 DEF Prepared
  <2>2. \/ invites' = invites
        \/ /\ Head(x.todo) = "send"
           /\ invites' = invites \cup {[scope |-> x.doc.scope, email |-> x.doc.email, id |-> x.id]}
    BY <1>1 DEF UserCallTaken, Effects, CreateInviteToken
  <2>3. x.doc \in RoleDoc => x.doc.scope \in Scopes /\ x.doc.email \in Users
    BY DEF RoleDoc
  <2> QED
    BY <2>1, <2>2, <2>3 DEF UsersTypeInv
<1>7. profiles' \in [Users -> ProfileDoc \cup {Absent}] /\ letters' \subseteq Users
  <2>1. CASE EmailConfirmedSuccessfully(p)
    <3>1. x.profile \in ProfileDoc
      BY <1>1, <1>3, <2>1 DEF EmailConfirmedSuccessfully, Made, Prepared
    <3>2. [x.profile EXCEPT !.confirmed = TRUE] \in ProfileDoc
      BY <3>1 DEF ProfileDoc
    <3> QED
      BY <2>1, <3>2 DEF EmailConfirmedSuccessfully, UsersTypeInv
  <2>2. CASE EmailConfirmedTruncate(p)
    <3>1. \A u \in Users : profiles[u] # Absent => [profiles[u] EXCEPT !.confirmed = FALSE] \in ProfileDoc
      <4> TAKE u \in Users
      <4>1. HAVE profiles[u] # Absent
      <4>2. profiles[u] \in ProfileDoc
        BY <4>1 DEF UsersTypeInv
      <4> QED
        BY <4>2 DEF ProfileDoc
    <3>2. /\ letters' = letters
          /\ profiles' = [profiles EXCEPT ![x.user] =
                             IF profiles[x.user] = Absent THEN profiles[x.user]
                             ELSE [profiles[x.user] EXCEPT !.confirmed = FALSE]]
      BY <2>2 DEF EmailConfirmedTruncate
    <3> QED
      BY <3>1, <3>2 DEF UsersTypeInv
  <2>3. CASE UpsertProfile(p)
    <3>1. x.profile \in ProfileDoc
      BY <1>1, <1>3, <2>3 DEF UpsertProfile, Made, Prepared
    <3> QED
      BY <2>3, <3>1 DEF UpsertProfile, UsersTypeInv
  <2>4. CASE SendUserEmailConfirmationToken(p)
    <3>1. x.profile \in ProfileDoc /\ x.user \in Users
      BY <1>1, <1>3, <2>4 DEF SendUserEmailConfirmationToken, Made, Prepared
    <3>2. [x.profile EXCEPT !.mailed = TRUE] \in ProfileDoc
      BY <3>1 DEF ProfileDoc
    <3> QED
      BY <2>4, <3>1, <3>2 DEF SendUserEmailConfirmationToken, UsersTypeInv
  <2>5. CASE UNCHANGED <<profiles, letters>>
    BY <2>5 DEF UsersTypeInv
  <2> QED
    BY <2>1, <2>2, <2>3, <2>4, <2>5 DEF UserCall, AddMerchantUser, AddAdminUser, AddUser,
       SendInviteEmail, UpdateMerchantUser, UpdateAdminUser, UpdateUser, RemoveMerchantUser,
       RemoveAdminUser, RemoveUser, Revoke, Grant
<1> QED
  BY <1>2, <1>4, <1>5, <1>6, <1>7 DEF UsersTypeInv

LEMMA UserCallRights ==
  ASSUME UsersAssumption, UsersTypeInv, EntitledInv, NEW p \in Requests, UserCall(p)
  PROVE  EntitledInv'
<1> DEFINE x == r[p]
<1>1. UserCallTaken(p) /\ x.todo # <<>> /\ x \in Work /\ Prepared(x) /\ Rightful(x, registered)
  BY UserCallsAreTaken DEF UserCallTaken, UsersTypeInv, EntitledInv
<1>2. \A S : Head(x.todo) \in S => Ahead(x, S)
  BY <1>1, HeadIsAhead
<1>3. invites \subseteq invites' /\ registered' = registered
  BY <1>1 DEF UserCallTaken, Effects
<1>4. \A scope, u : Entitled(scope, u, registered) => Entitled(scope, u, registered)'
  BY <1>3 DEF Entitled
<1>5. ASSUME NEW g \in grants' PROVE Entitled(g[1], g[2], registered)'
  <2>1. \/ g \in grants
        \/ /\ Head(x.todo) \in {"grant", "grantFirst"}
           /\ g = <<x.doc.scope, x.user, x.doc.role>>
    BY <1>1, <1>5 DEF UserCallTaken, Effects, Others, Granted
  <2>2. Entitled(g[1], g[2], registered)
    BY <1>1, <1>2, <2>1 DEF Rightful, EntitledInv
  <2> QED
    BY <1>4, <2>2
<1>6. ASSUME NEW id \in Stored', roles'[id].user # Nobody
      PROVE  Entitled(roles[id].scope, roles[id].user, registered)'
  <2>1. id \in RoleIds /\ roles'[id] \notin {Absent, Gone}
    BY <1>6 DEF Stored
  <2>2. \/ roles'[id] = roles[id] /\ id \in Stored
        \/ Head(x.todo) \in {"insert", "update"} /\ roles'[id] = x.doc
    BY <1>1, <2>1 DEF UserCallTaken, Effects, Stored, UsersTypeInv
  <2>3. PICK scope, u : scope = roles'[id].scope /\ u = roles'[id].user
    OBVIOUS
  <2>4. Entitled(scope, u, registered)
    BY <1>1, <1>2, <1>6, <2>2, <2>3 DEF Rightful, EntitledInv
  <2> QED
    BY <1>4, <2>3, <2>4
<1>7. ASSUME NEW q \in Requests PROVE Rightful(r[q], registered)'
  <2>1. PICK y \in Work : r' = [r EXCEPT ![p] = y] /\ (Left(x, y) \/ y = Idle)
    BY <1>1 DEF UserCallTaken, Dropped
  <2>2. PICK z : z = r'[q]
    OBVIOUS
  <2>3. Rightful(z, registered)
    <3>1. Rightful(y, registered)
      BY <1>1, <2>1, LeftIsLess
    <3>2. CASE q = p
      BY <2>1, <2>2, <3>1, <3>2 DEF UsersTypeInv
    <3>3. CASE q # p
      BY <2>1, <2>2, <3>3 DEF UsersTypeInv, EntitledInv
    <3> QED
      BY <3>2, <3>3
  <2>4. Rightful(z, registered)'
    BY <1>3, <1>4, <2>3 DEF Rightful
  <2> QED
    BY <2>2, <2>4
<1> QED
  BY <1>5, <1>6, <1>7 DEF EntitledInv

\* A call that is made leads where it led before.
LEMMA UserCallLeads ==
  ASSUME UsersTypeInv, NEW p \in Requests, Leads(r[p], registered), r[p].todo # <<>>,
         Effects(r[p]), UNCHANGED registered, NEW y \in Work, Left(r[p], y)
  PROVE  Leads(y, registered)'
<1> PICK x \in Work : x = r[p]
  BY RestIsLeft
<1>1. /\ x.todo # <<>> /\ Effects(x) /\ Left(x, y) /\ Leads(x, registered)
      /\ x.todo \in Seq(Calls) /\ Head(x.todo) = x.todo[1] /\ 1 \in DOMAIN x.todo
  BY RestIsLeft
<1> DEFINE call == Head(x.todo)
<1>2. /\ \A S : Ahead(y, S) <=> \E i \in DOMAIN x.todo : i # 1 /\ x.todo[i] \in S
      /\ \A S : Ahead(x, S) <=> call \in S \/ Ahead(y, S)
  BY <1>1, AheadNearer DEF Left
<1>3. \/ \A S : ~Ahead(y, S)
      \/ y.id = x.id /\ y.doc = x.doc /\ y.user = x.user
  BY <1>1, WorksAre, AheadOf DEF Left
<1>4. DOMAIN x.todo = 1 .. Len(x.todo) /\ Len(x.todo) \in Nat
  BY <1>1
<1>5. Ordered(x.todo)
  BY <1>1 DEF Leads
<1>6. /\ ~Ahead(y, {"insert", "update"}) /\ ~Ahead(y, {"delete"}) /\ ~Ahead(y, {"update", "delete"})
  BY <1>2, <1>5 DEF Ordered, DocumentWrites
<1>7. call \in Grants => /\ ~Ahead(y, {"revoke"}) /\ ~Ahead(y, {"grant"})
                         /\ ~Ahead(y, {"grantFirst"})
  BY <1>1, <1>2, <1>4, <1>5 DEF Ordered, Grants
<1>8. Ordered(y.todo)
  <2>1. CASE y = Idle /\ Len(x.todo) = 1
    BY <2>1, WorksAre DEF Ordered
  <2>2. CASE y.todo = Tail(x.todo)
    <3>1. /\ DOMAIN y.todo = 1 .. Len(x.todo) - 1
          /\ \A i \in 1 .. Len(x.todo) - 1 : y.todo[i] = x.todo[i + 1]
      BY <1>1, <1>4, <2>2
    <3>2. \A i \in DOMAIN y.todo : i + 1 \in DOMAIN x.todo /\ i + 1 # 1 /\ i \in Int
                                /\ y.todo[i] = x.todo[i + 1]
      BY <1>4, <3>1
    <3>3. ASSUME NEW i \in DOMAIN y.todo PROVE y.todo[i] \notin DocumentWrites
      BY <1>5, <3>2 DEF Ordered
    <3>4. ASSUME NEW i \in DOMAIN y.todo, NEW j \in DOMAIN y.todo
          PROVE  /\ y.todo[i] = "revoke" /\ y.todo[j] \in Grants => i < j
                 /\ y.todo[i] \in Grants /\ y.todo[j] \in Grants => i = j
      <4>1. /\ x.todo[i + 1] = "revoke" /\ x.todo[j + 1] \in Grants => i + 1 < j + 1
            /\ x.todo[i + 1] \in Grants /\ x.todo[j + 1] \in Grants => i + 1 = j + 1
        BY <1>5, <3>2 DEF Ordered
      <4> QED
        BY <3>2, <4>1
    <3> QED
      BY <3>3, <3>4 DEF Ordered
  <2> QED
    BY <1>1, <2>1, <2>2 DEF Left
<1> HIDE DEF call
<1>9. RolesAfter(y)' = RolesAfter(x)
  BY <1>1, <1>2, <1>6 DEF RolesAfter, Effects, call
<1>10. GrantsAfter(y)' = GrantsAfter(x)
  <2> PICK gs : gs = grants'
    OBVIOUS
  <2>1. CASE call \in Grants
    <3>1. GrantsAfter(y)' = grants'
      BY <1>7, <2>1 DEF GrantsAfter, Revoked
    <3>2. /\ ~Ahead(x, {"revoke"})
          /\ Ahead(x, {"grant"}) <=> call = "grant"
          /\ Ahead(x, {"grantFirst"}) <=> call = "grantFirst"
      BY <1>2, <1>7, <2>1 DEF Grants
    <3>3. GrantsAfter(x) = grants'
      BY <1>1, <2>1, <3>2 DEF GrantsAfter, Revoked, Effects, call, Grants
    <3> QED
      BY <3>1, <3>3
  <2>2. CASE call = "revoke"
    <3>1. Revoked(x) = grants' /\ gs = Others(grants, x)
      BY <1>1, <1>2, <2>2 DEF Revoked, Effects, call
    <3>2. Others(gs, x) = gs
      BY <3>1 DEF Others
    <3>3. (Ahead(x, {"grant"}) <=> Ahead(y, {"grant"}))
          /\ (Ahead(x, {"grantFirst"}) <=> Ahead(y, {"grantFirst"}))
      BY <1>2, <2>2
    <3>4. CASE \A S : ~Ahead(y, S)
      BY <3>1, <3>3, <3>4 DEF GrantsAfter, Revoked
    <3>5. CASE y.id = x.id /\ y.doc = x.doc /\ y.user = x.user
      <4>1. Revoked(y)' = gs
        BY <3>2, <3>5 DEF Revoked, Others
      <4>2. Others(gs, y) = Others(gs, x) /\ Granted(gs, y) = Granted(gs, x)
        BY <3>5 DEF Others, Granted
      <4>3. GrantsAfter(y)' = IF Ahead(y, {"grant"}) \/ (Ahead(y, {"grantFirst"})
                                                          /\ Others(gs, y) = gs)
                              THEN Granted(gs, y) ELSE gs
        BY <4>1 DEF GrantsAfter, Others, Granted
      <4>4. GrantsAfter(x) = IF Ahead(x, {"grant"}) \/ (Ahead(x, {"grantFirst"})
                                                         /\ Others(gs, x) = gs)
                             THEN Granted(gs, x) ELSE gs
        BY <3>1 DEF GrantsAfter
      <4> QED
        BY <3>3, <4>2, <4>3, <4>4
    <3> QED
      BY <1>3, <3>4, <3>5
  <2>3. CASE call \notin Grants \cup {"revoke"}
    <3>1. grants' = grants
      BY <1>1, <2>3 DEF Effects, call, Grants
    <3>2. \A S \in {{"revoke"}, {"grant"}, {"grantFirst"}} : Ahead(x, S) <=> Ahead(y, S)
      BY <1>2, <2>3 DEF Grants
    <3>3. CASE \A S : ~Ahead(y, S)
      BY <3>1, <3>2, <3>3 DEF GrantsAfter, Revoked
    <3>4. CASE y.id = x.id /\ y.doc = x.doc /\ y.user = x.user
      <4>1. Others(grants, y) = Others(grants, x) /\ Granted(grants, y) = Granted(grants, x)
        BY <3>4 DEF Others, Granted
      <4>2. PICK rv : rv = Revoked(x)
        OBVIOUS
      <4>3. Revoked(y)' = rv
        BY <3>1, <3>2, <3>4, <4>2 DEF Revoked, Others
      <4>4. Others(rv, y) = Others(rv, x) /\ Granted(rv, y) = Granted(rv, x)
        BY <3>4 DEF Others, Granted
      <4>5. GrantsAfter(y)' = IF Ahead(y, {"grant"}) \/ (Ahead(y, {"grantFirst"})
                                                          /\ Others(rv, y) = rv)
                              THEN Granted(rv, y) ELSE rv
        BY <4>3 DEF GrantsAfter, Others, Granted
      <4>6. GrantsAfter(x) = IF Ahead(x, {"grant"}) \/ (Ahead(x, {"grantFirst"})
                                                         /\ Others(rv, x) = rv)
                             THEN Granted(rv, x) ELSE rv
        BY <4>2 DEF GrantsAfter
      <4> QED
        BY <3>2, <4>4, <4>5, <4>6
    <3> QED
      BY <1>3, <3>3, <3>4
  <2> QED
    BY <2>1, <2>2, <2>3
<1>11. InvitesAfter(y)' = InvitesAfter(x)
  BY <1>1, <1>2, <1>3 DEF InvitesAfter, Effects, call, CreateInviteToken
<1> QED
  <2>1. PICK rs, gs, is : rs = RolesAfter(x) /\ gs = GrantsAfter(x) /\ is = InvitesAfter(x)
    OBVIOUS
  <2>2. Agree(rs, gs, is, registered)
    BY <1>1, <2>1 DEF Leads
  <2>3. Agree(rs, gs, is, registered')
    BY <2>2
  <2>4. rs = RolesAfter(y)' /\ gs = GrantsAfter(y)' /\ is = InvitesAfter(y)'
    BY <1>9, <1>10, <1>11, <2>1
  <2>5. Agree(RolesAfter(y), GrantsAfter(y), InvitesAfter(y), registered)'
    BY <2>3, <2>4 DEF Agree, DocumentsAgree, DocumentAgrees, PermissionsAgree, InvitesAgree,
       StoredIn, AcceptedIn
  <2> QED
    BY <1>6, <1>8, <2>5 DEF Leads

-----------------------------------------------------------------------------
(* Users: the theorems.                                                    *)

LEMMA BeginsAre ==
  ASSUME UsersAssumption, UsersTypeInv, NEW p \in Requests, NEW x, Begins(p, x), Prepared(x)
  PROVE  /\ UsersTypeInv'
         /\ r'[p] = x /\ \A q \in Requests \ {p} : r'[q] = r[q]
         /\ overlaps' = 0 => overlaps = 0 /\ \A q \in Requests : r[q] = Idle
<1>1. /\ r' \in [Requests -> Work] /\ r'[p] = x
      /\ \A q \in Requests \ {p} : r'[q] = r[q]
  BY DEF Begins, UsersTypeInv
<1>2. /\ \A q \in Requests : Prepared(r'[q]) /\ (r'[q] # Idle => r'[q].todo # <<>>)
  BY <1>1 DEF Begins, UsersTypeInv
<1>3. /\ overlaps' \in Nat /\ overlaps' + userFailures' <= MaxTroubles
      /\ overlaps' = 0 => overlaps = 0 /\ \A q \in Requests : r[q] = Idle
  BY DEF Begins, UsersTypeInv
<1>4. UsersTypeInv'
  BY <1>1, <1>2, <1>3 DEF Begins, UsersTypeInv
<1> QED
  BY <1>1, <1>3, <1>4

LEMMA FailCallIs ==
  ASSUME UsersAssumption, UsersTypeInv, NEW p \in Requests, FailCall(p)
  PROVE  /\ UsersTypeInv' /\ userFailures' # 0
         /\ \A q \in Requests : r'[q] \in {r[q], Idle}
         /\ UNCHANGED <<registered, roles, grants, invites>>
<1>1. /\ r' = [r EXCEPT ![p] = Idle] /\ userFailures' = userFailures + 1
      /\ overlaps + userFailures < MaxTroubles
      /\ UNCHANGED <<registered, roles, grants, profiles, invites, letters, overlaps>>
  BY DEF FailCall, Ends
<1>2. /\ r' \in [Requests -> Work] /\ \A q \in Requests : r'[q] \in {r[q], Idle}
  BY <1>1, WorksAre DEF UsersTypeInv
<1>3. \A q \in Requests : Prepared(r'[q]) /\ (r'[q] # Idle => r'[q].todo # <<>>)
  BY <1>2, WorksAre DEF UsersTypeInv
<1>4. /\ userFailures' \in Nat /\ userFailures' # 0 /\ overlaps' \in Nat
      /\ overlaps' + userFailures' <= MaxTroubles
  BY <1>1 DEF UsersTypeInv, UsersAssumption
<1>5. UsersTypeInv'
  BY <1>1, <1>2, <1>3, <1>4 DEF UsersTypeInv
<1> QED
  BY <1>1, <1>2, <1>4, <1>5

LEMMA UsersTypesStart == UsersInit => UsersTypeInv
<1> SUFFICES ASSUME UsersInit PROVE UsersTypeInv
  OBVIOUS
<1>1. /\ Founder \in Users /\ FirstAdmin \in Users /\ Profiled \subseteq Users
      /\ MaxTroubles \in Nat
  BY UsersAssumption DEF UsersAssumption
<1>2. PICK doc : doc = [scope |-> System, email |-> FirstAdmin, user |-> FirstAdmin,
                        role |-> "admin", status |-> "accepted"]
  OBVIOUS
<1>3. doc \in RoleDoc
  <2>1. System \in Scopes /\ "admin" \in RolesOf(System)
    BY DEF Scopes, RolesOf, System, Merchant
  <2> QED
    BY <1>1, <1>2, <2>1 DEF RoleDoc
<1>4. roles \in [RoleIds -> RoleDoc \cup {Absent, Gone}]
  BY <1>2, <1>3 DEF UsersInit
<1>5. grants \subseteq Scopes \X Users \X (RolesOf(Merchant) \cup RolesOf(System))
  BY <1>1 DEF UsersInit, Scopes, RolesOf, System, Merchant
<1>6. profiles \in [Users -> ProfileDoc \cup {Absent}]
  <2>1. Complete \in ProfileDoc
    BY DEF Complete, ProfileDoc
  <2> QED
    BY <2>1 DEF UsersInit
<1>7. r \in [Requests -> Work] /\ \A p \in Requests : r[p] = Idle
  BY WorksAre DEF UsersInit
<1>8. \A p \in Requests : Prepared(r[p]) /\ (r[p] # Idle => r[p].todo # <<>>)
  BY <1>7, WorksAre
<1>9. /\ registered = FALSE /\ invites = {} /\ letters = Profiled
      /\ overlaps = 0 /\ userFailures = 0
  BY DEF UsersInit
<1>10. r \in [Requests -> Work]
  BY <1>7
<1> QED
  <2>1. /\ registered \in BOOLEAN /\ letters \subseteq Users
        /\ invites \subseteq [scope : Scopes, email : Users, id : RoleIds]
    BY <1>1, <1>9
  <2>2. overlaps \in Nat /\ userFailures \in Nat /\ overlaps + userFailures <= MaxTroubles
    BY <1>1, <1>9
  <2> QED
    BY <1>4, <1>5, <1>6, <1>8, <1>10, <2>1, <2>2, Zenon DEF UsersTypeInv

LEMMA UsersTypesStep == UsersTypeInv /\ [UsersNext]_userVars => UsersTypeInv'
<1> SUFFICES ASSUME UsersTypeInv, [UsersNext]_userVars
             PROVE  UsersTypeInv'
  OBVIOUS
<1>1. CASE UNCHANGED userVars
  BY <1>1 DEF userVars, UsersTypeInv
<1>2. ASSUME NEW p \in Requests, UserCall(p) PROVE UsersTypeInv'
  BY <1>2, UserCallTypes, UsersAssumption
<1>3. ASSUME NEW p \in Requests, FailCall(p) PROVE UsersTypeInv'
  BY <1>3, FailCallIs, UsersAssumption
<1>4. ASSUME NEW p \in Requests,
             \/ \E id \in RoleIds : RoleRequest(p, id)
             \/ \E u \in Users : UserRequest(p, u)
      PROVE  UsersTypeInv'
  <2>1. PICK x : Begins(p, x) /\ Prepared(x)
    BY <1>4, RequestsStartWell, UsersAssumption DEF GoodStart
  <2> QED
    BY <2>1, BeginsAre, UsersAssumption
<1> QED
  BY <1>1, <1>2, <1>3, <1>4 DEF UsersNext

LEMMA UsersTypes == UsersSpec => []UsersTypeInv
BY UsersTypesStart, UsersTypesStep, PTL DEF UsersSpec

LEMMA UsersTyped == UsersTypeInv => UsersTypeOK
<1> SUFFICES ASSUME UsersTypeInv PROVE UsersTypeOK
  OBVIOUS
<1>1. ASSUME NEW p \in Requests
      PROVE  /\ \A i \in DOMAIN r[p].todo : r[p].todo[i] \in Calls
             /\ r[p].id \in RoleIds \cup {Absent} /\ r[p].doc \in RoleDoc \cup {Absent}
             /\ r[p].user \in Users \cup {Nobody} /\ r[p].profile \in ProfileDoc \cup {Absent}
  BY WorksAre, ElementOfSeq DEF UsersTypeInv
<1> QED
  BY <1>1 DEF UsersTypeInv, UsersTypeOK

\* Roles, permissions, profiles and what the requests have with them have the types the
\* code gives them, for any users, requests and overlaps.
THEOREM UsersTypeCorrect == UsersSpec => []UsersTypeOK
BY UsersTypes, UsersTyped, PTL

\* However requests overlap and fail, only those have permissions who were invited at their
\* address, the founder of the merchant and the first administrator: an invitation that is
\* accepted is compared with the address of who accepts it (AcceptInvite), and a role is
\* only ever changed for a user who may have it.
THEOREM GrantsAreInvited == UsersSpec => []GrantNeedsInvitation
<1>1. UsersInit => EntitledInv
  <2> SUFFICES ASSUME UsersInit PROVE EntitledInv
    OBVIOUS
  <2>1. PICK id \in RoleIds : roles = [y \in RoleIds |->
          IF y = id THEN [scope |-> System, email |-> FirstAdmin, user |-> FirstAdmin,
                          role |-> "admin", status |-> "accepted"]
                    ELSE Absent]
    BY DEF UsersInit
  <2>2. Stored \subseteq {id}
    BY <2>1 DEF Stored
  <2>3. \A i \in Stored : roles[i].scope = System /\ roles[i].user = FirstAdmin
    BY <2>1, <2>2
  <2>4. \A g \in grants : g[1] = System /\ g[2] = FirstAdmin
    BY DEF UsersInit
  <2>5. \A p \in Requests : r[p] = Idle
    BY DEF UsersInit
  <2> QED
    BY <2>3, <2>4, <2>5, WorksAre DEF EntitledInv, Entitled
<1>2. UsersTypeInv /\ EntitledInv /\ [UsersNext]_userVars => EntitledInv'
  <2> SUFFICES ASSUME UsersTypeInv, EntitledInv, [UsersNext]_userVars
               PROVE  EntitledInv'
    OBVIOUS
  <2>1. CASE UNCHANGED userVars
    BY <2>1 DEF userVars, EntitledInv, Entitled, Rightful, Stored
  <2>2. ASSUME NEW p \in Requests, UserCall(p) PROVE EntitledInv'
    BY <2>2, UserCallRights, UsersAssumption
  <2>3. ASSUME NEW p \in Requests, FailCall(p) PROVE EntitledInv'
    <3>1. /\ \A q \in Requests : r'[q] \in {r[q], Idle}
          /\ UNCHANGED <<registered, roles, grants, invites>>
      BY <2>3, FailCallIs, UsersAssumption
    <3>2. ASSUME NEW q \in Requests PROVE Rightful(r[q], registered)'
      <4>1. PICK z : z = r'[q]
        OBVIOUS
      <4>2. Rightful(z, registered)
        BY <3>1, <4>1, WorksAre DEF EntitledInv
      <4>3. Rightful(z, registered)'
        BY <3>1, <4>2 DEF Rightful, Entitled
      <4> QED
        BY <4>1, <4>3
    <3> QED
      BY <3>1, <3>2 DEF EntitledInv, Entitled, Stored
  <2>4. ASSUME NEW p \in Requests,
               \/ \E id \in RoleIds : RoleRequest(p, id)
               \/ \E u \in Users : UserRequest(p, u)
        PROVE  EntitledInv'
    <3>1. PICK x : Begins(p, x) /\ Prepared(x) /\ Rightful(x, registered')
      BY <2>4, RequestsStartWell, UsersAssumption DEF GoodStart
    <3>2. /\ UNCHANGED <<roles, grants, invites>> /\ (registered => registered')
          /\ \A q \in Requests : r'[q] = IF q = p THEN x ELSE r[q]
      BY <3>1, BeginsAre, UsersAssumption DEF Begins
    <3>3. \A scope, u : Entitled(scope, u, registered) => Entitled(scope, u, registered)'
      BY <3>2 DEF Entitled
    <3>4. ASSUME NEW q \in Requests PROVE Rightful(r[q], registered)'
      <4>1. PICK z : z = r'[q]
        OBVIOUS
      <4>2. CASE q = p
        <5>1. Rightful(z, registered)'
          BY <3>1, <3>2, <4>1, <4>2 DEF Rightful, Entitled
        <5> QED
          BY <4>1, <5>1
      <4>3. CASE q # p
        <5>1. Rightful(z, registered)
          BY <3>2, <4>1, <4>3 DEF EntitledInv
        <5>2. Rightful(z, registered)'
          BY <3>3, <5>1 DEF Rightful
        <5> QED
          BY <4>1, <5>2
      <4> QED
        BY <4>2, <4>3
    <3> QED
      BY <3>2, <3>3, <3>4 DEF EntitledInv, Stored
  <2> QED
    BY <2>1, <2>2, <2>3, <2>4 DEF UsersNext
<1>3. EntitledInv => GrantNeedsInvitation
  BY DEF EntitledInv, Entitled, GrantNeedsInvitation
<1> QED
  BY <1>1, <1>2, <1>3, UsersTypes, PTL DEF UsersSpec

\* Requests handled one after the other and without failure leave casbin with what the role
\* documents say, and a profile with the permissions of its role: the calls a request still
\* has to make lead there from wherever it is (AcceptInvite, ChangeRoleForMerchantUser,
\* DeleteMerchantUser, MerchantsMigrate).
THEOREM PermissionsFollow == UsersSpec => []PermissionsFollowRoles
<1>1. UsersInit => FollowInv
  <2> SUFFICES ASSUME UsersInit PROVE FollowInv
    OBVIOUS
  <2>1. PICK doc : doc = [scope |-> System, email |-> FirstAdmin, user |-> FirstAdmin,
                          role |-> "admin", status |-> "accepted"]
    OBVIOUS
  <2>2. /\ doc \in RoleDoc /\ doc.scope = System /\ doc.email = FirstAdmin
        /\ doc.user = FirstAdmin /\ doc.role = "admin" /\ doc.status = "accepted"
        /\ doc \notin {Absent, Gone} /\ FirstAdmin # Nobody /\ System # Merchant
    <3>1. /\ FirstAdmin \in Users /\ FirstAdmin # Nobody
          /\ System \in Scopes /\ "admin" \in RolesOf(System) /\ System # Merchant
      BY UsersAssumption DEF UsersAssumption, Scopes, RolesOf, System, Merchant
    <3>2. doc \in RoleDoc
      BY <2>1, <3>1 DEF RoleDoc
    <3> QED
      BY <2>1, <3>1, <3>2, UsersAssumption DEF UsersAssumption
  <2>3. PICK id \in RoleIds : roles = [y \in RoleIds |-> IF y = id THEN doc ELSE Absent]
    BY <2>1 DEF UsersInit
  <2>4. StoredIn(roles) = {id} /\ roles[id] = doc /\ AcceptedIn(roles) = {id}
    BY <2>2, <2>3 DEF StoredIn, AcceptedIn
  <2>5. DocumentsAgree(roles, registered)
    BY <2>2, <2>3, <2>4 DEF DocumentsAgree, DocumentAgrees
  <2>6. PermissionsAgree(roles, grants)
    BY <2>2, <2>4 DEF UsersInit, PermissionsAgree, PermissionOf
  <2>7. InvitesAgree(roles, invites)
    BY DEF UsersInit, InvitesAgree
  <2>8. \A p \in Requests : r[p] = Idle
    BY DEF UsersInit
  <2> QED
    BY <2>5, <2>6, <2>7, <2>8, IdleLeads DEF FollowInv, Agree
<1>2. UsersTypeInv /\ FollowInv /\ [UsersNext]_userVars => FollowInv'
  <2> SUFFICES ASSUME UsersTypeInv, FollowInv, [UsersNext]_userVars,
                      overlaps' = 0, userFailures' = 0
               PROVE  FollowInv'
    BY DEF FollowInv
  <2>1. CASE UNCHANGED userVars
    BY <2>1 DEF userVars, FollowInv, Leads, Agree, DocumentsAgree, DocumentAgrees,
       PermissionsAgree, InvitesAgree, StoredIn, AcceptedIn, RolesAfter, GrantsAfter, Revoked,
       Others, Granted, InvitesAfter, Stored
  <2>2. ASSUME NEW p \in Requests, UserCall(p) PROVE FollowInv'
    <3>1. UserCallTaken(p) /\ overlaps = 0 /\ userFailures = 0 /\ UNCHANGED registered
      BY <2>2, UserCallsAreTaken DEF UserCallTaken
    <3>2. /\ \A q \in Requests : r[q] # Idle => q = p
          /\ r[p] # Idle /\ r[p].todo # <<>> /\ Leads(r[p], registered)
      BY <3>1 DEF FollowInv, UserCallTaken
    <3>3. ~(Head(r[p].todo) \in {"update", "delete"} /\ r[p].id \notin Stored)
      BY <3>2, HeadIsAhead DEF Leads
    <3>4. PICK y \in Work : r' = [r EXCEPT ![p] = y] /\ Left(r[p], y) /\ Effects(r[p])
      BY <3>1, <3>3 DEF UserCallTaken, Dropped
    <3>5. Leads(y, registered)'
      BY <3>1, <3>2, <3>4, UserCallLeads
    <3>6. \A q \in Requests : r'[q] = IF q = p THEN y ELSE Idle
      BY <3>2, <3>4 DEF UsersTypeInv
    <3>7. \A q \in Requests : r'[q] # Idle => q = p
      BY <3>6
    <3>8. r'[p] # Idle => Leads(r[p], registered)'
      BY <3>5, <3>6
    <3>9. r'[p] = Idle => Leads(Idle, registered)'
      BY <3>5, <3>6
    <3> QED
      BY <3>7, <3>8, <3>9 DEF FollowInv
  <2>3. ASSUME NEW p \in Requests, FailCall(p) PROVE FollowInv'
    BY <2>3, FailCallIs, UsersAssumption
  <2>4. ASSUME NEW p \in Requests,
               \/ \E id \in RoleIds : RoleRequest(p, id)
               \/ \E u \in Users : UserRequest(p, u)
        PROVE  FollowInv'
    <3>1. PICK x : /\ Begins(p, x) /\ Prepared(x)
                   /\ Agree(roles, grants, invites, registered) => Leads(x, registered')
      BY <2>4, RequestsStartWell, UsersAssumption DEF GoodStart
    <3>2. /\ overlaps = 0 /\ userFailures = 0 /\ \A q \in Requests : r[q] = Idle
          /\ r'[p] = x /\ \A q \in Requests \ {p} : r'[q] = Idle
          /\ UNCHANGED <<roles, grants, invites>>
      BY <3>1, BeginsAre, UsersAssumption DEF Begins
    <3>3. Leads(x, registered')
      BY <3>1, <3>2, IdleLeads DEF FollowInv
    <3>4. Leads(x, registered)'
      BY <3>2, <3>3 DEF Leads, Agree, DocumentsAgree, DocumentAgrees,
         PermissionsAgree, InvitesAgree, StoredIn, AcceptedIn, RolesAfter, GrantsAfter, Revoked,
         Others, Granted, InvitesAfter, Stored
    <3>5. r'[p] = x /\ x # Idle
      BY <3>1, <3>2, WorksAre DEF Begins
    <3>6. Leads(r[p], registered)'
      BY <3>4, <3>5
    <3> QED
      BY <3>2, <3>5, <3>6 DEF FollowInv
  <2> QED
    BY <2>1, <2>2, <2>3, <2>4 DEF UsersNext
<1>3. FollowInv => PermissionsFollowRoles
  <2> SUFFICES ASSUME FollowInv, Quiet, overlaps = 0, userFailures = 0
               PROVE  /\ grants = {<<roles[id].scope, roles[id].user, roles[id].role>> :
                                     id \in {x \in Stored : roles[x].status = "accepted"}}
                      /\ \A u \in Users : \A shown \in GetCommonUserProfile(u) :
                            shown.role \in shown.permissions
    BY DEF PermissionsFollowRoles
  <2>1. Agree(roles, grants, invites, registered) /\ Stored = StoredIn(roles)
    BY IdleLeads DEF FollowInv, Quiet, Stored, StoredIn
  <2>2. AcceptedIn(roles) = {x \in Stored : roles[x].status = "accepted"}
    BY <2>1 DEF AcceptedIn
  <2>3. ASSUME NEW u \in Users, NEW shown \in GetCommonUserProfile(u)
        PROVE  shown.role \in shown.permissions
    <3>1. PICK id \in Stored :
             /\ roles[id].user = u
             /\ shown = [role |-> roles[id].role,
                         permissions |-> GetUserPermissions(u, roles[id].scope)]
      BY DEF GetCommonUserProfile, FindRoleForUser, GetMerchantsForUser,
             GetMerchantUserByUserId, GetAdminUserByUserId
    <3>2. id \in AcceptedIn(roles)
      BY <2>1, <2>2, <3>1, UsersAssumption DEF UsersAssumption, Agree, DocumentsAgree, DocumentAgrees
    <3>3. <<roles[id].scope, u, roles[id].role>> \in grants
      BY <2>1, <3>1, <3>2 DEF Agree, PermissionsAgree, PermissionOf
    <3>4. roles[id].role \in GetUserPermissions(u, roles[id].scope)
      BY <3>3 DEF GetUserPermissions
    <3> QED
      BY <3>1, <3>4
  <2> QED
    BY <2>1, <2>2, <2>3 DEF Agree, PermissionsAgree, PermissionOf
<1> QED
  BY <1>1, <1>2, <1>3, UsersTypes, PTL DEF UsersSpec

-----------------------------------------------------------------------------
(* Periods.                                                                *)

\* The day before d, in days and months that are counted from 0.
LEMMA Quotients ==
    ASSUME NEW D \in Nat \ {0}, NEW a \in Nat
    PROVE  /\ a \div D \in Nat
           /\ D * (a \div D) <= a /\ a < D * (a \div D) + D
BY Z3

\* Products of months and days keep the order of the months.
LEMMA Monotone ==
    ASSUME NEW D \in Nat, NEW a \in Nat, NEW b \in Nat, a <= b
    PROVE  /\ a * D \in Nat /\ b * D \in Nat /\ a * D <= b * D
           /\ (b + 1) * D = b * D + D /\ (a + 1) * D = a * D + D
BY Z3

\* The period of a day is one of the blocks of n months the year is divided into.
LEMMA PeriodIs ==
    ASSUME NEW n \in 1 .. 3, NEW d \in Nat \ {0}
    PROVE  \E k \in Nat :
              /\ GetVatReportTime(n, d) = [from |-> (n * k) * DaysInMonth + 1,
                                           to |-> (n * k + n) * DaysInMonth]
              /\ (n * k) * DaysInMonth + 1 <= d /\ d <= (n * k + n) * DaysInMonth
<1> DEFINE D == DaysInMonth
           a == (d - 1) \div D
           k == a \div n
<1>1. D \in Nat \ {0} /\ d - 1 \in Nat
  BY VatAssumption
<1>2. a \in Nat /\ D * a <= d - 1 /\ d - 1 < D * a + D
  BY <1>1, Quotients
<1> HIDE DEF a
<1>3. k \in Nat /\ n * k <= a /\ a < n * k + n
  <2>1. n \in Nat \ {0}
    OBVIOUS
  <2> QED BY <1>2, <2>1, Quotients
<1>4. Month(d) = a + 1
  BY DEF Month, a, D
<1>5. /\ (n * k) * D <= a * D /\ (a + 1) * D <= (n * k + n) * D /\ (a + 1) * D = a * D + D
  <2>1. n * k \in Nat /\ n * k + n \in Nat /\ a + 1 \in Nat /\ a + 1 <= n * k + n
    BY <1>2, <1>3
  <2> HIDE DEF D, k
  <2> QED BY <1>1, <1>2, <1>3, <2>1, Monotone
<1>6. (n * k) * D + 1 <= d /\ d <= (n * k + n) * D
  BY <1>1, <1>2, <1>3, <1>5
<1>7. GetVatReportTime(n, d) = [from |-> (n * k) * D + 1, to |-> (n * k + n) * D]
  <2>1. CASE n = 1
    BY <1>2, <1>3, <1>4, <2>1 DEF GetVatReportTime, FirstDay, LastDay
  <2>2. CASE n = 2
    BY <1>2, <1>3, <1>4, <2>2 DEF GetVatReportTime, FirstDay, LastDay
  <2>3. CASE n = 3
    BY <1>2, <1>3, <1>4, <2>3 DEF GetVatReportTime, FirstDay, LastDay
  <2> QED BY <2>1, <2>2, <2>3
<1> QED BY <1>3, <1>6, <1>7

\* A later day is in the same period or in one that starts after the other has ended.
LEMMA Periods ==
    ASSUME NEW n \in 1 .. 3, NEW c \in Nat \ {0}, NEW d \in Nat \ {0}, c <= d,
           NEW p, p = GetVatReportTime(n, c), NEW q, q = GetVatReportTime(n, d)
    PROVE  /\ p.from \in Nat \ {0} /\ p.to \in Nat \ {0} /\ p.from <= c /\ c <= p.to
           /\ q.from \in Nat \ {0} /\ q.to \in Nat \ {0} /\ q.from <= d /\ d <= q.to
           /\ \/ p.from = q.from /\ p.to = q.to
              \/ p.to < q.from
<1>1. PICK k \in Nat : /\ p = [from |-> (n * k) * DaysInMonth + 1,
                               to |-> (n * k + n) * DaysInMonth]
                       /\ (n * k) * DaysInMonth + 1 <= c /\ c <= (n * k + n) * DaysInMonth
  BY PeriodIs
<1>2. PICK l \in Nat : /\ q = [from |-> (n * l) * DaysInMonth + 1,
                               to |-> (n * l + n) * DaysInMonth]
                       /\ (n * l) * DaysInMonth + 1 <= d /\ d <= (n * l + n) * DaysInMonth
  BY PeriodIs
<1>3. /\ n * k \in Nat /\ n * l \in Nat /\ n * k + n \in Nat /\ n * l + n \in Nat
      /\ DaysInMonth \in Nat
      /\ k < l => n * k + n <= n * l
      /\ l < k => n * l + n <= n * k
  <2>1. CASE n = 1
    BY <2>1, VatAssumption
  <2>2. CASE n = 2
    BY <2>2, VatAssumption
  <2>3. CASE n = 3
    BY <2>3, VatAssumption
  <2> QED BY <2>1, <2>2, <2>3
<1>4. /\ (n * k) * DaysInMonth \in Nat /\ (n * l) * DaysInMonth \in Nat
      /\ (n * k + n) * DaysInMonth \in Nat /\ (n * l + n) * DaysInMonth \in Nat
  BY <1>3, Monotone
<1>5. k < l => (n * k + n) * DaysInMonth <= (n * l) * DaysInMonth
  BY <1>3, Monotone
<1>6. l < k => (n * l + n) * DaysInMonth <= (n * k) * DaysInMonth
  BY <1>3, Monotone
<1>7. /\ p.from = (n * k) * DaysInMonth + 1 /\ p.to = (n * k + n) * DaysInMonth
      /\ q.from = (n * l) * DaysInMonth + 1 /\ q.to = (n * l + n) * DaysInMonth
  BY <1>1, <1>2
<1>8. CASE k = l
  BY <1>1, <1>2, <1>4, <1>7, <1>8
<1>9. CASE k < l
  BY <1>1, <1>2, <1>4, <1>5, <1>7, <1>9
<1>10. CASE l < k
  BY <1>1, <1>2, <1>4, <1>6, <1>7, <1>10
<1> QED BY <1>8, <1>9, <1>10

-----------------------------------------------------------------------------
(* The invariant. It speaks of every copy of a report, the stored one and  *)
(* the one the task has read to change its status, because that copy is    *)
(* written back whole.                                                     *)

Period(d) == GetVatReportTime(country.period, d)

\* The copies of the report v.
CopiesOf(v) ==
    {j \in {vatReports[v]} : j # NoRecord} \cup {e[2] : e \in {f \in task.list : f[1] = v}}

\* The payments whose tax a decided report of the period holds.
Kept(c, from, to) ==
    {x \in ClosedIn(c, from, to) :
        /\ payments[x].day < to \/ ~payments[x].late
        /\ \/ paybacks[x] = NoRecord \/ paybacks[x].day > to
           \/ paybacks[x].day = to /\ paybacks[x].late}

HoldsAll(j) == j.vat = Cardinality(Kept(j.company, j.from, j.to))

\* The task has summed the report j for the last time.
Counted(j) == j.to < day \/ (j.to = day /\ Summed(j.company))

IsRecord(j) ==
    j = [company |-> j.company, from |-> j.from, to |-> j.to, status |-> j.status,
         vat |-> j.vat, deduction |-> j.deduction, turnover |-> j.turnover, count |-> j.count]

IsReport(j) ==
    /\ IsRecord(j) /\ j.company \in Companies
    /\ \E t \in 1 .. day : j.from = Period(t).from /\ j.to = Period(t).to

\* The two differ in what StatusOfReport and UpdateVatReportStatus change.
SameReport(j, q) ==
    j.company = q.company /\ j.from = q.from /\ j.to = q.to /\ j.vat = q.vat

\* Days only grow; the task runs for today, and once a day.
DaysInv ==
    /\ country \in CountryConfigs /\ day \in Nat \ {0} /\ reported \in Nat /\ reported <= day
    /\ \A x \in Payments : payments[x] # NoRecord => payments[x].day \in 1 .. day
    /\ \A x \in Payments : paybacks[x] # NoRecord =>
          /\ payments[x] # NoRecord /\ paybacks[x].day \in 1 .. day
          /\ paybacks[x].deduction = (payments[x].day < Period(paybacks[x].day).from)
    /\ payments = [x \in Payments |-> payments[x]]
    /\ paybacks = [x \in Payments |-> paybacks[x]]

TaskInv ==
    /\ task = [pc |-> task.pc, date |-> task.date, todo |-> task.todo, list |-> task.list]
    /\ task.pc \in {"idle", "turnover", "report", "status", "change"}
    /\ task.pc # "idle" => task.date = day /\ reported < day
    /\ task.todo \subseteq Companies
    /\ task.pc # "change" => task.list = {}
    /\ \A e \in task.list : e = <<e[1], e[2]>> /\ e[1] \in VatReports
    /\ vatFailures \in Nat

\* A report has turnovers, and is complete once it has been summed.
ReportInv(j) ==
    /\ IsReport(j) /\ GetTurnover(j.company) # NoRecord
    /\ vatFailures = 0 /\ Counted(j) => HoldsAll(j)

CopiesInv ==
    /\ vatReports = [v \in VatReports |-> vatReports[v]]
    /\ turnovers = [c \in Companies |-> turnovers[c]]
    /\ turnoverCache = [c \in Companies |-> turnoverCache[c]]
    /\ \A v \in VatReports : \A j \in CopiesOf(v) : ReportInv(j)
    /\ \A v, u \in VatReports : \A j \in CopiesOf(v), q \in CopiesOf(u) :
          /\ v = u => SameReport(j, q)
          /\ j.from = q.from => v = u

\* The period of the report v is past and it was not decided.
Undecided(v) ==
    /\ vatReports[v] # NoRecord /\ vatReports[v].from < Period(day).from
    /\ vatReports[v].status = "threshold"

\* A report of today's period is not decided, and one of the past is once the task has
\* gone through it.
DecidedInv ==
    /\ \A v \in VatReports :
          vatReports[v] # NoRecord /\ Period(day).from <= vatReports[v].from
              => vatReports[v].status = "threshold"
    /\ \A e, f \in task.list : e[1] = f[1] => e = f
    /\ task.pc = "change" =>
          \A v \in VatReports : Undecided(v) => <<v, vatReports[v]>> \in task.list
    /\ reported = day => \A v \in VatReports : ~Undecided(v)

\* What is late today is so because of a sum of today.
LateInv ==
    vatFailures = 0 =>
        \A x \in Payments :
            /\ payments[x] # NoRecord /\ payments[x].day = day /\ payments[x].late
                   => Summed(payments[x].company)
            /\ paybacks[x] # NoRecord /\ paybacks[x].day = day /\ paybacks[x].late
                   => Summed(payments[x].company)

VatInv == DaysInv /\ TaskInv /\ CopiesInv /\ DecidedInv /\ LateInv

-----------------------------------------------------------------------------
(* Facts about days, periods and sums.                                     *)

LEMMA DaysOrdered ==
    ASSUME DaysInv, NEW c \in 1 .. day
    PROVE  /\ Period(c).from \in Nat \ {0} /\ Period(c).to \in Nat \ {0}
           /\ Period(c).from <= c /\ c <= Period(c).to
           /\ Period(day).from \in Nat \ {0} /\ Period(day).to \in Nat \ {0}
           /\ Period(day).from <= day /\ day <= Period(day).to
           /\ \/ Period(c).from = Period(day).from /\ Period(c).to = Period(day).to
              \/ Period(c).to < Period(day).from
<1>1. country.period \in 1 .. 3 /\ c \in Nat \ {0} /\ day \in Nat \ {0} /\ c <= day
  BY DEF DaysInv, CountryConfigs
<1> QED BY <1>1, Periods DEF Period

\* The period of a report is today's or it is past.
LEMMA ReportPeriod ==
    ASSUME DaysInv, NEW j, IsReport(j)
    PROVE  /\ j.from \in Nat \ {0} /\ j.to \in Nat \ {0}
           /\ \/ j.from = Period(day).from /\ j.to = Period(day).to /\ day <= j.to
              \/ j.from < Period(day).from /\ j.to < Period(day).from /\ j.to < day
           /\ Period(day).from \in Nat /\ Period(day).to \in Nat
<1>1. PICK t \in 1 .. day : j.from = Period(t).from /\ j.to = Period(t).to
  BY DEF IsReport
<1>2. t \in Nat /\ day \in Nat
  BY DEF DaysInv
<1> QED BY <1>1, <1>2, DaysOrdered

LEMMA KeptFinite ==
    ASSUME NEW c, NEW from, NEW to
    PROVE  IsFiniteSet(ClosedIn(c, from, to))
BY VatAssumption, FS_Subset DEF ClosedIn

\* What was paid back up to today is no deduction in today's period, so a report that is
\* summed on the last day of its period is complete.
LEMMA SummedNow ==
    ASSUME DaysInv, LateInv, vatFailures = 0, NEW c, ~Summed(c), Period(day).to = day
    PROVE  NewVatReport(c, Period(day)).vat
               = Cardinality(Kept(c, Period(day).from, Period(day).to))
<1> DEFINE from == Period(day).from
           to == Period(day).to
           P == ClosedIn(c, from, to)
           back == PaidBackIn(c, from, to, FALSE)
<1>0. day \in 1 .. day
  BY DEF DaysInv
<1>1. ASSUME NEW x \in P, paybacks[x] # NoRecord
      PROVE  /\ paybacks[x].deduction = FALSE /\ ~(paybacks[x].day > to)
             /\ ~(paybacks[x].day = to /\ paybacks[x].late)
  <2>1. /\ payments[x] # NoRecord /\ payments[x].day \in 1 .. day
        /\ from <= payments[x].day
    BY <1>0, DaysOrdered DEF DaysInv, ClosedIn
  <2>2. /\ paybacks[x].day \in 1 .. day
        /\ paybacks[x].deduction = (payments[x].day < Period(paybacks[x].day).from)
    BY <1>1 DEF DaysInv, ClosedIn
  <2>3. PICK t \in 1 .. day : t = paybacks[x].day
    BY <2>2
  <2>4. ~(payments[x].day < Period(t).from) /\ ~(t > to)
    BY <2>1, <2>3, DaysOrdered DEF DaysInv
  <2>5. (payments[x].day < Period(t).from) = FALSE
    BY <2>4
  <2>6. x \in Payments /\ payments[x].company = c
    BY DEF ClosedIn
  <2>7. ~(paybacks[x].day = to /\ paybacks[x].late)
    BY <1>1, <2>6 DEF LateInv
  <2> QED BY <2>2, <2>3, <2>4, <2>5, <2>7
<1>7. ASSUME NEW x \in P
      PROVE  payments[x].day < to \/ ~payments[x].late
  <2>1. /\ x \in Payments /\ payments[x] # NoRecord /\ payments[x].company = c
        /\ payments[x].day \in 1 .. day
    BY DEF ClosedIn, DaysInv
  <2>2. payments[x].day = day => ~payments[x].late
    BY <2>1 DEF LateInv
  <2>3. payments[x].day < day \/ payments[x].day = day
    BY <2>1 DEF DaysInv
  <2> QED BY <2>2, <2>3
<1>2. back = {x \in P : paybacks[x] # NoRecord}
  BY <1>1 DEF PaidBackIn
<1>3. Kept(c, from, to) = P \ back
  BY <1>1, <1>2, <1>7 DEF Kept
<1>4. IsFiniteSet(P) /\ back \subseteq P
  BY <1>2, KeptFinite
<1>5. /\ Cardinality(P \ back) = Cardinality(P) - Cardinality(P \cap back)
      /\ P \cap back = back
  BY <1>4, FS_Difference
<1>6. NewVatReport(c, Period(day)).vat = Cardinality(P) - Cardinality(back)
  BY DEF NewVatReport, GetVatSummary
<1> QED BY <1>3, <1>5, <1>6

\* The sums of a period depend on the payments and on what was paid back only.
LEMMA SameSums ==
    ASSUME UNCHANGED <<payments, paybacks>>, NEW j
    PROVE  HoldsAll(j)' <=> HoldsAll(j)
BY DEF HoldsAll, Kept, ClosedIn

LEMMA SameTurnovers ==
    ASSUME UNCHANGED <<turnovers, turnoverCache>>, NEW c
    PROVE  GetTurnover(c)' = GetTurnover(c)
BY DEF GetTurnover

-----------------------------------------------------------------------------
(* Steps.                                                                  *)

\* Steps that are not of the calendar, a payment or a refund.
DaysStay == UNCHANGED <<country, day, payments, paybacks>> /\ reported' \in {reported, day}

LEMMA DaysStayKeep ==
    ASSUME DaysInv, DaysStay
    PROVE  DaysInv'
BY DEF DaysInv, DaysStay, Period

LEMMA ClosePaymentDays ==
    ASSUME DaysInv, NEW x \in Payments, NEW c \in Companies, ClosePayment(x, c)
    PROVE  DaysInv'
<1>1. PICK doc : doc = [day |-> day, company |-> c, late |-> Summed(c)]
  OBVIOUS
<1>2. payments' = [payments EXCEPT ![x] = doc] /\ doc.day \in 1 .. day
  BY <1>1 DEF ClosePayment, DaysInv
<1>3. UNCHANGED <<country, day, paybacks, reported>> /\ payments[x] = NoRecord
  BY DEF ClosePayment
<1>4. payments' = [y \in Payments |-> payments'[y]]
  BY <1>2 DEF DaysInv
<1>5. \A y \in Payments : payments'[y] = IF y = x THEN doc ELSE payments[y]
  BY <1>2 DEF DaysInv
<1>6. \A y \in Payments : payments'[y] # NoRecord => payments'[y].day \in 1 .. day
  BY <1>2, <1>5 DEF DaysInv
<1>7. ASSUME NEW y \in Payments, paybacks[y] # NoRecord
      PROVE  /\ payments'[y] # NoRecord /\ paybacks[y].day \in 1 .. day
             /\ paybacks[y].deduction = (payments'[y].day < Period(paybacks[y].day).from)
  <2>1. payments'[y] = payments[y]
    BY <1>3, <1>5, <1>7 DEF DaysInv
  <2> QED BY <1>7, <2>1 DEF DaysInv
<1> QED BY <1>3, <1>4, <1>6, <1>7 DEF DaysInv, Period

LEMMA PayBackDays ==
    ASSUME DaysInv, NEW x \in Payments, PayBack(x)
    PROVE  DaysInv'
<1>1. PICK doc : doc = [day |-> day, deduction |-> payments[x].day < Period(day).from,
                         late |-> Summed(payments[x].company)]
  OBVIOUS
<1>2. paybacks' = [paybacks EXCEPT ![x] = doc]
  BY <1>1 DEF PayBack, GetLastVatReportTime, Period
<1>3. doc.day = day /\ doc.deduction = (payments[x].day < Period(doc.day).from)
  BY <1>1
<1>4. UNCHANGED <<country, day, payments, reported>> /\ payments[x] # NoRecord
  BY DEF PayBack
<1>5. paybacks' = [y \in Payments |-> paybacks'[y]]
  BY <1>2 DEF DaysInv
<1>6. \A y \in Payments : paybacks'[y] = IF y = x THEN doc ELSE paybacks[y]
  BY <1>2 DEF DaysInv
<1>7. ASSUME NEW y \in Payments, paybacks'[y] # NoRecord
      PROVE  /\ payments[y] # NoRecord /\ paybacks'[y].day \in 1 .. day
             /\ paybacks'[y].deduction = (payments[y].day < Period(paybacks'[y].day).from)
  <2>1. CASE y = x
    <3>1. paybacks'[y] = doc
      BY <1>6, <2>1
    <3>2. doc.day \in 1 .. day
      BY <1>3 DEF DaysInv
    <3> QED BY <1>3, <1>4, <2>1, <3>1, <3>2
  <2>2. CASE y # x
    BY <1>6, <1>7, <2>2 DEF DaysInv
  <2> QED BY <2>1, <2>2
<1> QED BY <1>4, <1>5, <1>7 DEF DaysInv, Period

LEMMA NextDayDays ==
    ASSUME DaysInv, NextDay
    PROVE  DaysInv'
<1>1. day' = day + 1 /\ UNCHANGED <<country, payments, paybacks, reported>>
  BY DEF NextDay
<1>2. day' \in Nat \ {0} /\ reported <= day' /\ 1 .. day \subseteq 1 .. day'
  BY <1>1 DEF DaysInv
<1>3. \A x \in Payments : payments[x] # NoRecord => payments[x].day \in 1 .. day'
  BY <1>2 DEF DaysInv
<1>4. \A x \in Payments : paybacks[x] # NoRecord =>
         /\ payments[x] # NoRecord /\ paybacks[x].day \in 1 .. day'
         /\ paybacks[x].deduction = (payments[x].day < Period(paybacks[x].day).from)
  BY <1>2 DEF DaysInv
<1> QED BY <1>1, <1>2, <1>3, <1>4 DEF DaysInv, Period

\* Copies of reports that differ in their status from those there were.
LEMMA CopiesKept ==
    ASSUME DaysInv, CopiesInv, DaysInv', UNCHANGED country, day <= day',
           vatReports' = [v \in VatReports |-> vatReports'[v]],
           turnovers' = [c \in Companies |-> turnovers'[c]],
           turnoverCache' = [c \in Companies |-> turnoverCache'[c]],
           \A v \in VatReports : \A j \in CopiesOf(v)' :
              IsRecord(j) /\ \E q \in CopiesOf(v) : SameReport(j, q),
           \A c \in Companies : GetTurnover(c) # NoRecord => GetTurnover(c)' # NoRecord,
           \A v \in VatReports : \A q \in CopiesOf(v) :
              ReportInv(q) /\ vatFailures' = 0 /\ Counted(q)' => HoldsAll(q)'
    PROVE  CopiesInv'
<1>1. ASSUME NEW v \in VatReports, NEW j \in CopiesOf(v)' PROVE ReportInv(j)'
  <2>1. PICK q \in CopiesOf(v) : SameReport(j, q)
    BY <1>1
  <2>2. IsRecord(j) /\ ReportInv(q)
    BY <1>1 DEF CopiesInv
  <2>3. PICK t \in 1 .. day : q.from = Period(t).from /\ q.to = Period(t).to
    BY <2>2 DEF ReportInv, IsReport
  <2>4. t \in 1 .. day'
    BY DEF DaysInv
  <2>5. IsReport(j)'
    BY <2>1, <2>2, <2>3, <2>4 DEF ReportInv, IsReport, IsRecord, SameReport, Period
  <2>6. (vatFailures = 0)' /\ Counted(q)' => HoldsAll(q)'
    BY <2>2
  <2>7. Counted(j)' => Counted(q)'
    BY <2>1 DEF Counted, SameReport
  <2>8. HoldsAll(q)' => HoldsAll(j)'
    BY <2>1 DEF HoldsAll, SameReport
  <2>9. GetTurnover(j.company)' # NoRecord
    BY <2>1, <2>2 DEF SameReport, ReportInv, IsReport
  <2> QED BY <2>5, <2>6, <2>7, <2>8, <2>9 DEF ReportInv
<1>2. ASSUME NEW v \in VatReports, NEW u \in VatReports,
             NEW j \in CopiesOf(v)', NEW q \in CopiesOf(u)'
      PROVE  (v = u => SameReport(j, q)) /\ (j.from = q.from => v = u)
  <2>1. PICK a \in CopiesOf(v) : SameReport(j, a)
    BY <1>2
  <2>2. PICK b \in CopiesOf(u) : SameReport(q, b)
    BY <1>2
  <2> QED BY <2>1, <2>2 DEF CopiesInv, SameReport
<1> QED BY <1>1, <1>2 DEF CopiesInv

\* The same copies as before.
LEMMA SameCopies ==
    ASSUME UNCHANGED <<vatReports, task>>, NEW v
    PROVE  CopiesOf(v)' = CopiesOf(v)
BY DEF CopiesOf

LEMMA ReportsAlike == \A j : SameReport(j, j)
BY DEF SameReport

\* Payments and refunds of today leave the sums of the past alone, and those that are late
\* the sums of a period that ends today.
LEMMA TodayCopies ==
    ASSUME VatInv, DaysInv',
           \/ \E x \in Payments, c \in Companies : ClosePayment(x, c)
           \/ \E x \in Payments : PayBack(x)
    PROVE  CopiesInv'
<1> DEFINE Closed(x) ==
             /\ payments[x] = NoRecord /\ UNCHANGED paybacks
             /\ \E doc : /\ doc.day = day /\ doc.late = Summed(doc.company)
                         /\ payments' = [payments EXCEPT ![x] = doc]
           Returned(x) ==
             /\ paybacks[x] = NoRecord /\ UNCHANGED payments
             /\ \E doc : /\ doc.day = day /\ doc.late = Summed(payments[x].company)
                         /\ paybacks' = [paybacks EXCEPT ![x] = doc]
<1>1. UNCHANGED <<country, day, reported, task, vatReports, turnovers, turnoverCache,
                  vatFailures>>
  BY DEF ClosePayment, PayBack
<1>2. PICK x \in Payments : Closed(x) \/ Returned(x)
  <2>1. ASSUME NEW z \in Payments, NEW c \in Companies, ClosePayment(z, c) PROVE Closed(z)
    <3>1. PICK doc : doc = [day |-> day, company |-> c, late |-> Summed(c)]
      OBVIOUS
    <3>2. payments' = [payments EXCEPT ![z] = doc]
      BY <2>1, <3>1 DEF ClosePayment
    <3>3. doc.day = day /\ doc.company = c /\ doc.late = Summed(c)
      BY <3>1
    <3> QED BY <2>1, <3>2, <3>3 DEF ClosePayment
  <2>2. ASSUME NEW z \in Payments, PayBack(z) PROVE Returned(z)
    <3>1. PICK doc : doc = [day |-> day,
                            deduction |-> payments[z].day < GetLastVatReportTime.from,
                            late |-> Summed(payments[z].company)]
      OBVIOUS
    <3>2. paybacks' = [paybacks EXCEPT ![z] = doc]
      BY <2>2, <3>1 DEF PayBack
    <3>3. doc.day = day /\ doc.late = Summed(payments[z].company)
      BY <3>1
    <3> QED BY <2>2, <3>2, <3>3 DEF PayBack
  <2> QED BY <2>1, <2>2
<1>3. ASSUME NEW j, IsReport(j), Counted(j)
      PROVE  Kept(j.company, j.from, j.to)' = Kept(j.company, j.from, j.to)
  <2>1. j.to \in Nat /\ j.from \in Nat /\ day \in Nat
    BY <1>3, ReportPeriod DEF VatInv, DaysInv
  <2>2. j.to < day \/ (j.to = day /\ Summed(j.company))
    BY <1>3 DEF Counted
  <2>3. CASE Closed(x)
    <3>1. PICK doc : /\ doc.day = day /\ doc.late = Summed(doc.company)
                     /\ payments' = [payments EXCEPT ![x] = doc]
      BY <2>3
    <3>2. \A y \in Payments : payments'[y] = IF y = x THEN doc ELSE payments[y]
      BY <3>1 DEF VatInv, DaysInv
    <3>3. x \notin Kept(j.company, j.from, j.to)
      BY <2>3 DEF Kept, ClosedIn
    <3>4. x \notin Kept(j.company, j.from, j.to)'
      BY <2>1, <2>2, <3>1, <3>2 DEF Kept, ClosedIn
    <3>5. \A y \in Payments : y # x => (y \in Kept(j.company, j.from, j.to)'
                                           <=> y \in Kept(j.company, j.from, j.to))
      BY <2>3, <3>2 DEF Kept, ClosedIn
    <3>6. \A y : /\ y \in Kept(j.company, j.from, j.to) => y \in Payments
                 /\ y \in Kept(j.company, j.from, j.to)' => y \in Payments
      BY DEF Kept, ClosedIn
    <3> QED BY <3>3, <3>4, <3>5, <3>6
  <2>4. CASE Returned(x)
    <3>1. PICK doc : /\ doc.day = day /\ doc.late = Summed(payments[x].company)
                     /\ paybacks' = [paybacks EXCEPT ![x] = doc]
      BY <2>4
    <3>2. \A y \in Payments : paybacks'[y] = IF y = x THEN doc ELSE paybacks[y]
      BY <3>1 DEF VatInv, DaysInv
    <3>3. ClosedIn(j.company, j.from, j.to)' = ClosedIn(j.company, j.from, j.to)
      BY <2>4 DEF ClosedIn
    <3>4. x \in ClosedIn(j.company, j.from, j.to)
             => doc.day > j.to \/ (doc.day = j.to /\ doc.late)
      BY <2>1, <2>2, <3>1 DEF ClosedIn
    <3>5. \A y \in ClosedIn(j.company, j.from, j.to) :
             (\/ paybacks'[y] = NoRecord \/ paybacks'[y].day > j.to
              \/ paybacks'[y].day = j.to /\ paybacks'[y].late)
                 <=> (\/ paybacks[y] = NoRecord \/ paybacks[y].day > j.to
                      \/ paybacks[y].day = j.to /\ paybacks[y].late)
      BY <2>4, <3>2, <3>4 DEF ClosedIn
    <3> QED BY <2>4, <3>3, <3>5 DEF Kept
  <2> QED BY <1>2, <2>3, <2>4
<1>4. ASSUME NEW q, ReportInv(q), vatFailures' = 0, Counted(q)' PROVE HoldsAll(q)'
  <2>1. Counted(q)
    BY <1>1, <1>4 DEF Counted, Summed
  <2> QED BY <1>1, <1>3, <1>4, <2>1 DEF ReportInv, HoldsAll
<1>5. \A v \in VatReports : \A j \in CopiesOf(v)' :
         IsRecord(j) /\ \E q \in CopiesOf(v) : SameReport(j, q)
  BY <1>1, SameCopies, ReportsAlike DEF VatInv, CopiesInv, ReportInv, IsReport
<1>6. \A c \in Companies : GetTurnover(c) # NoRecord => GetTurnover(c)' # NoRecord
  BY <1>1, SameTurnovers
<1>7. CopiesInv /\ DaysInv /\ day <= day'
  BY <1>1 DEF VatInv, DaysInv
<1>8. /\ vatReports' = [v \in VatReports |-> vatReports'[v]]
      /\ turnovers' = [c \in Companies |-> turnovers'[c]]
      /\ turnoverCache' = [c \in Companies |-> turnoverCache'[c]]
  BY <1>1, <1>7 DEF CopiesInv
<1> QED BY <1>1, <1>4, <1>5, <1>6, <1>7, <1>8, CopiesKept

LEMMA NextDayCopies ==
    ASSUME VatInv, DaysInv', NextDay
    PROVE  CopiesInv'
<1>1. /\ UNCHANGED <<country, payments, paybacks, reported, task, vatReports, turnovers,
                     turnoverCache, vatFailures>>
      /\ task.pc = "idle" /\ day' = day + 1
      /\ reported = day \/ vatFailures > 0
  BY DEF NextDay
<1>2. ASSUME NEW q, ReportInv(q), vatFailures' = 0, Counted(q)' PROVE HoldsAll(q)'
  <2>1. reported = day /\ day \in Nat
    BY <1>1, <1>2 DEF VatInv, DaysInv
  <2>2. ~Summed(q.company)'
    BY <1>1, <2>1 DEF Summed
  <2>3. q.to \in Nat /\ q.to < day + 1
    BY <1>1, <1>2, <2>2, ReportPeriod DEF Counted, ReportInv, VatInv
  <2>4. Counted(q)
    BY <2>1, <2>3 DEF Counted, Summed
  <2> QED BY <1>1, <1>2, <2>4, SameSums DEF ReportInv
<1>5. \A v \in VatReports : \A j \in CopiesOf(v)' :
         IsRecord(j) /\ \E q \in CopiesOf(v) : SameReport(j, q)
  BY <1>1, SameCopies, ReportsAlike DEF VatInv, CopiesInv, ReportInv, IsReport
<1>6. \A c \in Companies : GetTurnover(c) # NoRecord => GetTurnover(c)' # NoRecord
  BY <1>1, SameTurnovers
<1>7. CopiesInv /\ DaysInv /\ day <= day'
  BY <1>1 DEF VatInv, DaysInv
<1>8. /\ vatReports' = [v \in VatReports |-> vatReports'[v]]
      /\ turnovers' = [c \in Companies |-> turnovers'[c]]
      /\ turnoverCache' = [c \in Companies |-> turnoverCache'[c]]
  BY <1>1, <1>7 DEF CopiesInv
<1> QED BY <1>1, <1>2, <1>5, <1>6, <1>7, <1>8, CopiesKept

\* A step of the task or of the financier that sums nothing.
LEMMA TaskCopies ==
    ASSUME VatInv, DaysInv', DaysStay,
           vatReports' = [v \in VatReports |-> vatReports'[v]],
           turnovers' = [c \in Companies |-> turnovers'[c]],
           turnoverCache' = [c \in Companies |-> turnoverCache'[c]],
           \A v \in VatReports : \A j \in CopiesOf(v)' :
              IsRecord(j) /\ \E q \in CopiesOf(v) : SameReport(j, q),
           \A c \in Companies : GetTurnover(c) # NoRecord => GetTurnover(c)' # NoRecord,
           vatFailures' = 0 => vatFailures = 0,
           \A v \in VatReports : \A q \in CopiesOf(v) :
              ReportInv(q) /\ vatFailures' = 0 /\ Counted(q)' => Counted(q)
    PROVE  CopiesInv'
<1>1. \A v \in VatReports : \A q \in CopiesOf(v) :
         ReportInv(q) /\ vatFailures' = 0 /\ Counted(q)' => HoldsAll(q)'
  BY SameSums DEF ReportInv, DaysStay
<1>2. DaysInv /\ CopiesInv /\ UNCHANGED country /\ day <= day'
  BY DEF VatInv, DaysInv, DaysStay
<1> QED BY <1>1, <1>2, CopiesKept

\* The reports and the list stay as they are.
LEMMA StayingCopies ==
    ASSUME VatInv, UNCHANGED vatReports, task'.list \subseteq task.list
    PROVE  /\ vatReports' = [v \in VatReports |-> vatReports'[v]]
           /\ \A v \in VatReports : \A j \in CopiesOf(v)' :
                 IsRecord(j) /\ \E q \in CopiesOf(v) : SameReport(j, q)
<1>1. ASSUME NEW v \in VatReports, NEW j \in CopiesOf(v)'
      PROVE  j \in CopiesOf(v)
  BY DEF CopiesOf
<1> QED BY <1>1, ReportsAlike DEF VatInv, CopiesInv, ReportInv, IsReport

LEMMA StayingTurnovers ==
    ASSUME VatInv, UNCHANGED <<turnovers, turnoverCache>>
    PROVE  /\ turnovers' = [c \in Companies |-> turnovers'[c]]
           /\ turnoverCache' = [c \in Companies |-> turnoverCache'[c]]
           /\ \A c \in Companies : GetTurnover(c) # NoRecord => GetTurnover(c)' # NoRecord
BY SameTurnovers DEF VatInv, CopiesInv

LEMMA StartTaskCopies ==
    ASSUME VatInv, DaysInv', StartTask(0)
    PROVE  CopiesInv'
<1>1. /\ UNCHANGED <<country, day, payments, paybacks, reported, vatReports, turnovers,
                     turnoverCache, vatFailures>>
      /\ reported < day /\ task' = [NoTask EXCEPT !.pc = "turnover", !.date = day - 0,
                                                  !.todo = Companies]
  BY DEF StartTask
<1>2. task'.list = {} /\ task'.pc = "turnover"
  BY <1>1 DEF NoTask
<1>3. \A q : Counted(q)' => Counted(q)
  BY <1>1, <1>2 DEF Counted, Summed, VatInv, DaysInv
<1>4. task'.list \subseteq task.list
  BY <1>2
<1> QED
  BY <1>1, <1>3, <1>4, StayingCopies, StayingTurnovers, TaskCopies DEF DaysStay

\* What the loops over the companies do to the task.
LEMMA AfterCompanyIs ==
    ASSUME TaskInv, NEW c \in task.todo, NEW pc
    PROVE  \/ /\ task.todo = {c} /\ AfterCompany(c, pc).pc = pc
              /\ AfterCompany(c, pc).todo = Companies
              /\ AfterCompany(c, pc).list = task.list /\ AfterCompany(c, pc).date = task.date
              /\ AfterCompany(c, pc) = [pc |-> pc, date |-> task.date, todo |-> Companies,
                                        list |-> task.list]
           \/ /\ AfterCompany(c, pc).pc = task.pc
              /\ AfterCompany(c, pc).todo = task.todo \ {c}
              /\ AfterCompany(c, pc).list = task.list /\ AfterCompany(c, pc).date = task.date
              /\ AfterCompany(c, pc) = [pc |-> task.pc, date |-> task.date,
                                        todo |-> task.todo \ {c}, list |-> task.list]
<1>1. CASE task.todo = {c}
  BY <1>1 DEF AfterCompany, TaskInv
<1>2. CASE task.todo # {c}
  BY <1>2 DEF AfterCompany, TaskInv
<1> QED BY <1>1, <1>2

LEMMA CalcAnnualTurnoversCopies ==
    ASSUME VatInv, DaysInv', NEW c \in Companies, CalcAnnualTurnovers(c)
    PROVE  CopiesInv'
<1>1. /\ UNCHANGED <<country, day, payments, paybacks, reported, vatReports>>
      /\ task.pc = "turnover" /\ c \in task.todo /\ task' = AfterCompany(c, "report")
  BY DEF CalcAnnualTurnovers
<1>2. PICK amount : amount = CalcAnnualTurnover(c)
  OBVIOUS
<1>3. \/ UNCHANGED <<turnovers, turnoverCache, vatFailures>>
      \/ /\ amount # NoRecord /\ turnovers' = [turnovers EXCEPT ![c] = amount]
         /\ \/ turnoverCache' = [turnoverCache EXCEPT ![c] = amount] /\ UNCHANGED vatFailures
            \/ vatFailures' = vatFailures + 1 /\ UNCHANGED turnoverCache
  BY <1>2 DEF CalcAnnualTurnovers, StoreTurnover
<1>4. /\ turnovers' = [d \in Companies |-> turnovers'[d]]
      /\ turnoverCache' = [d \in Companies |-> turnoverCache'[d]]
      /\ \A d \in Companies : GetTurnover(d) # NoRecord => GetTurnover(d)' # NoRecord
  BY <1>3 DEF VatInv, CopiesInv, GetTurnover
<1>5. vatFailures' = 0 => vatFailures = 0
  BY <1>3 DEF VatInv, TaskInv
<1>6. task'.list = task.list /\ \/ task'.pc = "turnover"
                                \/ task'.pc = "report" /\ task'.todo = Companies
  BY <1>1, AfterCompanyIs DEF VatInv
<1>7. \A q : ReportInv(q) /\ Counted(q)' => Counted(q)
  BY <1>1, <1>6 DEF Counted, Summed, ReportInv, IsReport
<1> QED
  BY <1>1, <1>4, <1>5, <1>6, <1>7, StayingCopies, TaskCopies DEF DaysStay

\* The report of today's period, if there is one, is the one GetByCountryPeriod finds.
LEMMA FoundIsCurrent ==
    ASSUME VatInv, NEW v \in VatReports, vatReports[v] # NoRecord,
           vatReports[v].from = Period(day).from
    PROVE  v \in GetByCountryPeriod(Period(day))
<1>1. vatReports[v] \in CopiesOf(v)
  BY DEF CopiesOf
<1>2. IsReport(vatReports[v])
  BY <1>1 DEF VatInv, CopiesInv, ReportInv
<1>3. /\ vatReports[v].to = Period(day).to /\ Period(day).from <= vatReports[v].from
  BY <1>2, ReportPeriod DEF VatInv
<1>4. vatReports[v].status = "threshold"
  BY <1>3 DEF VatInv, DecidedInv
<1> QED BY <1>3, <1>4 DEF GetByCountryPeriod

LEMMA NewReportIs ==
    ASSUME VatInv, NEW c \in Companies, ~Summed(c), NEW n, n = NewVatReport(c, Period(day))
    PROVE  /\ IsReport(n) /\ n.status = "threshold" /\ n.company = c
           /\ vatFailures = 0 /\ n.to = day => HoldsAll(n)
           /\ n.from = Period(day).from /\ n.to = Period(day).to
<1>1. day \in 1 .. day
  BY DEF VatInv, DaysInv
<1>2. /\ IsRecord(n) /\ n.status = "threshold" /\ n.company = c
      /\ n.from = Period(day).from /\ n.to = Period(day).to
  BY DEF NewVatReport, IsRecord
<1>3. IsReport(n)
  BY <1>1, <1>2 DEF IsReport
<1>4. vatFailures = 0 /\ n.to = day => HoldsAll(n)
  BY <1>2, SummedNow DEF VatInv, HoldsAll
<1> QED BY <1>2, <1>3, <1>4

LEMMA ProcessReportCopies ==
    ASSUME VatInv, DaysInv', NEW c \in Companies, ProcessVatReportForPeriod(c)
    PROVE  CopiesInv'
<1>1. /\ UNCHANGED <<country, day, payments, paybacks, reported, turnovers, turnoverCache,
                     vatFailures>>
      /\ task.pc = "report" /\ c \in task.todo /\ task' = AfterCompany(c, "status")
      /\ task.date = day /\ reported < day /\ task.list = {}
  BY DEF ProcessVatReportForPeriod, VatInv, TaskInv
<1>2. task'.list = {} /\ \/ task'.pc = "status" /\ task.todo = {c}
                         \/ task'.pc = "report" /\ task'.todo = task.todo \ {c}
  BY <1>1, AfterCompanyIs DEF VatInv
<1>3. ASSUME NEW q, Counted(q)' PROVE Counted(q) \/ q.company = c
  BY <1>1, <1>2, <1>3 DEF Counted, Summed, VatInv, DaysInv
<1>6. ~Summed(c) /\ day \in Nat
  BY <1>1 DEF Summed, VatInv, DaysInv
<1>4. CASE GetTurnover(c) = NoRecord
  <2>1. UNCHANGED vatReports
    BY <1>4 DEF ProcessVatReportForPeriod
  <2>2. \A q : ReportInv(q) /\ Counted(q)' => Counted(q)
    BY <1>3, <1>4 DEF ReportInv
  <2> QED BY <1>1, <1>2, <2>1, <2>2, StayingCopies, StayingTurnovers, TaskCopies DEF DaysStay
<1>5. CASE GetTurnover(c) # NoRecord
  <2>1. PICK n : n = NewVatReport(c, Period(day))
    OBVIOUS
  <2>2. PICK v \in VatReports :
           /\ \/ v \in GetByCountryPeriod(Period(day))
              \/ GetByCountryPeriod(Period(day)) = {} /\ vatReports[v] = NoRecord
           /\ vatReports' = [vatReports EXCEPT ![v] = n]
    BY <1>1, <1>5, <2>1 DEF ProcessVatReportForPeriod, StoreReport, Period
  <2>3. /\ IsReport(n) /\ n.company = c
        /\ vatFailures = 0 /\ n.to = day => HoldsAll(n)
        /\ n.from = Period(day).from /\ n.to = Period(day).to
    BY <1>6, <2>1, NewReportIs
  <2>10. n.to \in Nat /\ ~(n.to < day)
    BY <1>6, <2>3, ReportPeriod DEF VatInv
  <2>4. \A u \in VatReports : vatReports'[u] = IF u = v THEN n ELSE vatReports[u]
    BY <2>2 DEF VatInv, CopiesInv
  <2>5. ASSUME NEW u \in VatReports, u # v, vatReports[u] # NoRecord
        PROVE  vatReports[u].from # Period(day).from
    <3>1. SUFFICES ASSUME vatReports[u].from = Period(day).from PROVE FALSE
      OBVIOUS
    <3>2. u \in GetByCountryPeriod(Period(day))
      BY <2>5, <3>1, FoundIsCurrent
    <3>3. v \in GetByCountryPeriod(Period(day))
      BY <2>2, <3>2
    <3>4. vatReports[v] # NoRecord /\ vatReports[v].from = Period(day).from
      BY <3>3 DEF GetByCountryPeriod
    <3>5. vatReports[v] \in CopiesOf(v) /\ vatReports[u] \in CopiesOf(u)
      BY <2>5, <3>4 DEF CopiesOf
    <3> QED BY <2>5, <3>1, <3>4, <3>5 DEF VatInv, CopiesInv
  <2>6. \A u \in VatReports : \A j \in CopiesOf(u)' :
           \/ u = v /\ j = n
           \/ u # v /\ j = vatReports[u] /\ j # NoRecord /\ j \in CopiesOf(u)
    BY <1>2, <2>4 DEF CopiesOf
  <2>7. ASSUME NEW u \in VatReports, NEW j \in CopiesOf(u)' PROVE ReportInv(j)'
    <3>1. CASE u = v /\ j = n
      <4>1. IsReport(n)'
        BY <1>1, <2>3 DEF IsReport, IsRecord, Period
      <4>2. GetTurnover(n.company)' # NoRecord
        BY <1>1, <1>5, <2>3, SameTurnovers
      <4>3. vatFailures' = 0 /\ Counted(n)' => HoldsAll(n)'
        BY <1>1, <2>3, <2>10, SameSums DEF Counted
      <4> QED BY <3>1, <4>1, <4>2, <4>3 DEF ReportInv
    <3>2. CASE u # v /\ j = vatReports[u] /\ j # NoRecord /\ j \in CopiesOf(u)
      <4>1. ReportInv(j) /\ j.from # Period(day).from
        BY <2>5, <3>2 DEF VatInv, CopiesInv
      <4>2. j.to < day
        BY <4>1, ReportPeriod DEF VatInv, ReportInv
      <4>3. Counted(j)
        BY <4>2 DEF Counted
      <4>4. IsReport(j)'
        BY <1>1, <4>1 DEF ReportInv, IsReport, IsRecord, Period
      <4>5. GetTurnover(j.company)' # NoRecord
        BY <1>1, <4>1, SameTurnovers DEF ReportInv
      <4>6. (vatFailures = 0)' => HoldsAll(j)'
        BY <1>1, <4>1, <4>3, SameSums DEF ReportInv
      <4> QED BY <4>4, <4>5, <4>6 DEF ReportInv
    <3> QED BY <2>6, <3>1, <3>2
  <2>8. ASSUME NEW u \in VatReports, NEW z \in VatReports,
               NEW j \in CopiesOf(u)', NEW q \in CopiesOf(z)'
        PROVE  (u = z => SameReport(j, q)) /\ (j.from = q.from => u = z)
    <3>1. CASE u = v /\ z = v
      BY <2>6, <3>1, ReportsAlike
    <3>2. CASE u = v /\ z # v
      BY <2>3, <2>5, <2>6, <3>2
    <3>3. CASE u # v /\ z = v
      BY <2>3, <2>5, <2>6, <3>3
    <3>4. CASE u # v /\ z # v
      BY <2>6, <3>4 DEF VatInv, CopiesInv
    <3> QED BY <3>1, <3>2, <3>3, <3>4
  <2>9. vatReports' = [u \in VatReports |-> vatReports'[u]]
    BY <2>2 DEF VatInv, CopiesInv
  <2> QED BY <1>1, <2>7, <2>8, <2>9, StayingTurnovers DEF CopiesInv
<1> QED BY <1>4, <1>5

\* A report is stored with another status.
LEMMA RestatusCopies ==
    ASSUME VatInv, NEW v \in VatReports, NEW j \in CopiesOf(v), NEW status,
           vatReports' = [vatReports EXCEPT ![v] = [j EXCEPT !.status = status]],
           task'.list \subseteq task.list
    PROVE  /\ vatReports' = [u \in VatReports |-> vatReports'[u]]
           /\ \A u \in VatReports : \A q \in CopiesOf(u)' :
                 IsRecord(q) /\ \E z \in CopiesOf(u) : SameReport(q, z)
<1>1. PICK s : s = [j EXCEPT !.status = status]
  OBVIOUS
<1>2. IsRecord(j)
  BY DEF VatInv, CopiesInv, ReportInv, IsReport
<1>3. IsRecord(s) /\ SameReport(s, j)
  BY <1>1, <1>2 DEF IsRecord, SameReport
<1>4. vatReports' = [vatReports EXCEPT ![v] = s]
  BY <1>1
<1>5. \A u \in VatReports : \A q \in CopiesOf(u)' : q \in CopiesOf(u) \/ (u = v /\ q = s)
  BY <1>4 DEF CopiesOf, VatInv, CopiesInv
<1>6. \A u \in VatReports : \A q \in CopiesOf(u) : IsRecord(q)
  BY DEF VatInv, CopiesInv, ReportInv, IsReport
<1>7. vatReports' = [u \in VatReports |-> vatReports'[u]]
  BY <1>4 DEF VatInv, CopiesInv
<1>8. ASSUME NEW u \in VatReports, NEW q \in CopiesOf(u)'
      PROVE  IsRecord(q) /\ \E z \in CopiesOf(u) : SameReport(q, z)
  BY <1>3, <1>5, <1>6, ReportsAlike
<1> QED BY <1>7, <1>8

LEMMA ReadReportsCopies ==
    ASSUME VatInv, DaysInv', ReadVatReports
    PROVE  CopiesInv'
<1>1. /\ UNCHANGED <<country, day, payments, paybacks, reported, vatReports, turnovers,
                     turnoverCache, vatFailures>>
      /\ task.pc = "status"
  BY DEF ReadVatReports
<1>2. task'.list \subseteq {<<v, vatReports[v]>> : v \in {u \in VatReports : vatReports[u] # NoRecord}}
  BY DEF ReadVatReports, GetByStatus, VatInv, TaskInv
<1>3. \A v \in VatReports : \A j \in CopiesOf(v)' : j \in CopiesOf(v)
  BY <1>1, <1>2 DEF CopiesOf
<1>4. \A v \in VatReports : \A j \in CopiesOf(v)' :
         IsRecord(j) /\ \E q \in CopiesOf(v) : SameReport(j, q)
  BY <1>3, ReportsAlike DEF VatInv, CopiesInv, ReportInv, IsReport
<1>5. \A q : Counted(q)' => Counted(q)
  BY <1>1 DEF Counted, Summed
<1>6. vatReports' = [v \in VatReports |-> vatReports'[v]]
  BY <1>1 DEF VatInv, CopiesInv
<1> QED BY <1>1, <1>4, <1>5, <1>6, StayingTurnovers, TaskCopies DEF DaysStay

LEMMA ChangeReportCopies ==
    ASSUME VatInv, DaysInv', NEW e \in task.list, ChangeVatReport(e[1], e[2])
    PROVE  CopiesInv'
<1>1. /\ UNCHANGED <<country, day, payments, paybacks, reported, turnovers,
                     turnoverCache, vatFailures>>
      /\ task.pc = "change" /\ e[1] \in VatReports
  BY DEF ChangeVatReport, VatInv, TaskInv
<1>2. task'.list \subseteq task.list
  BY DEF ChangeVatReport, VatInv, TaskInv
<1>3. e[2] \in CopiesOf(e[1])
  BY DEF CopiesOf
<1>4. PICK status : status = StatusOfReport(e[2])
  OBVIOUS
<1>5. \/ UNCHANGED vatReports
      \/ vatReports' = [vatReports EXCEPT ![e[1]] = [e[2] EXCEPT !.status = status]]
  BY <1>4 DEF ChangeVatReport, StoreReport
<1>6. /\ vatReports' = [v \in VatReports |-> vatReports'[v]]
      /\ \A v \in VatReports : \A j \in CopiesOf(v)' :
            IsRecord(j) /\ \E q \in CopiesOf(v) : SameReport(j, q)
  <2>1. CASE UNCHANGED vatReports
    BY <1>2, <2>1, StayingCopies
  <2>2. CASE vatReports' = [vatReports EXCEPT ![e[1]] = [e[2] EXCEPT !.status = status]]
    BY <1>1, <1>2, <1>3, <2>2, RestatusCopies
  <2> QED BY <1>5, <2>1, <2>2
<1>7. \A q : Counted(q)' => Counted(q)
  BY <1>1 DEF Counted, Summed
<1> QED BY <1>1, <1>6, <1>7, StayingTurnovers, TaskCopies DEF DaysStay

LEMMA EndTaskCopies ==
    ASSUME VatInv, DaysInv', EndTask \/ FailTask
    PROVE  CopiesInv'
<1>1. /\ UNCHANGED <<country, day, payments, paybacks, vatReports, turnovers, turnoverCache>>
      /\ reported' \in {reported, day} /\ task' = NoTask
      /\ vatFailures' = 0 => vatFailures = 0 /\ task.pc = "change"
  BY DEF EndTask, FailTask, VatInv, TaskInv
<1>2. \A q : vatFailures' = 0 /\ Counted(q)' => Counted(q)
  BY <1>1 DEF Counted, Summed
<1>3. task'.list \subseteq task.list
  BY <1>1 DEF NoTask
<1> QED BY <1>1, <1>2, <1>3, StayingCopies, StayingTurnovers, TaskCopies DEF DaysStay

LEMMA UpdateStatusCopies ==
    ASSUME VatInv, DaysInv', NEW v \in VatReports, NEW status, UpdateVatReportStatus(v, status)
    PROVE  CopiesInv'
<1>1. /\ UNCHANGED <<country, day, payments, paybacks, reported, turnovers, turnoverCache,
                     vatFailures, task>>
      /\ vatReports[v] # NoRecord
      /\ vatReports' = [vatReports EXCEPT ![v] = [vatReports[v] EXCEPT !.status = status]]
  BY DEF UpdateVatReportStatus, StoreReport
<1>2. vatReports[v] \in CopiesOf(v)
  BY <1>1 DEF CopiesOf
<1>3. /\ vatReports' = [u \in VatReports |-> vatReports'[u]]
      /\ \A u \in VatReports : \A q \in CopiesOf(u)' :
            IsRecord(q) /\ \E z \in CopiesOf(u) : SameReport(q, z)
  BY <1>1, <1>2, RestatusCopies
<1>4. \A q : Counted(q)' => Counted(q)
  BY <1>1 DEF Counted, Summed
<1> QED BY <1>1, <1>3, <1>4, StayingTurnovers, TaskCopies DEF DaysStay

-----------------------------------------------------------------------------
(* The task, and what it decides.                                          *)

LEMMA TaskStep ==
    ASSUME VatInv, PastDays = {0}, [VatNext]_vatVars
    PROVE  TaskInv'
<1>0. TaskInv /\ day \in Nat /\ vatFailures \in Nat
  BY DEF VatInv, DaysInv, TaskInv
<1>1. CASE UNCHANGED <<task, vatFailures>> /\ day' >= day /\ (task.pc # "idle" => day' = day)
           /\ UNCHANGED reported
  BY <1>0, <1>1 DEF TaskInv
<1>2. CASE StartTask(0)
  <2>1. task' = [pc |-> "turnover", date |-> day - 0, todo |-> Companies, list |-> {}]
    BY <1>2 DEF StartTask, NoTask
  <2>2. /\ task'.pc = "turnover" /\ task'.date = day /\ task'.todo = Companies
        /\ task'.list = {} /\ UNCHANGED <<day, reported, vatFailures>> /\ reported < day
    <3>1. UNCHANGED <<day, reported, vatFailures>> /\ reported < day
      BY <1>2 DEF StartTask
    <3>2. day - 0 = day
      BY <1>0
    <3> QED BY <2>1, <3>1, <3>2
  <2>3. task' = [pc |-> task'.pc, date |-> task'.date, todo |-> task'.todo,
                 list |-> task'.list]
    BY <2>1
  <2>4. \A e \in task'.list : e = <<e[1], e[2]>> /\ e[1] \in VatReports
    BY <2>2
  <2>5. task'.todo \subseteq Companies
    BY <2>2
  <2> HIDE <2>1
  <2> QED BY <1>0, <2>2, <2>3, <2>4, <2>5 DEF TaskInv
<1>3. ASSUME NEW c \in Companies, CalcAnnualTurnovers(c) PROVE TaskInv'
  <2>1. /\ c \in task.todo /\ task.pc = "turnover" /\ task' = AfterCompany(c, "report")
        /\ UNCHANGED <<day, reported>> /\ vatFailures' \in Nat
    BY <1>0, <1>3 DEF CalcAnnualTurnovers, StoreTurnover
  <2> QED BY <1>0, <2>1, AfterCompanyIs DEF TaskInv
<1>4. ASSUME NEW c \in Companies, ProcessVatReportForPeriod(c) PROVE TaskInv'
  <2>1. /\ c \in task.todo /\ task.pc = "report" /\ task' = AfterCompany(c, "status")
        /\ UNCHANGED <<day, reported, vatFailures>>
    BY <1>4 DEF ProcessVatReportForPeriod
  <2> QED BY <1>0, <2>1, AfterCompanyIs DEF TaskInv
<1>5. CASE ReadVatReports
  <2>1. PICK list : list = {<<v, vatReports[v]>> : v \in GetByStatus({"threshold", "need_to_pay"})}
    OBVIOUS
  <2>2. task' = [task EXCEPT !.pc = "change", !.list = list]
    BY <1>5, <2>1 DEF ReadVatReports
  <2>3. task' = [pc |-> "change", date |-> task.date, todo |-> task.todo, list |-> list]
    BY <1>0, <2>2 DEF TaskInv
  <2>4. \A e \in list : e = <<e[1], e[2]>> /\ e[1] \in VatReports
    BY <2>1 DEF GetByStatus
  <2>5. /\ task'.pc = "change" /\ task'.date = task.date /\ task'.todo = task.todo
        /\ task'.list = list /\ UNCHANGED <<day, reported, vatFailures>>
        /\ task.pc = "status"
    <3>1. UNCHANGED <<day, reported, vatFailures>> /\ task.pc = "status"
      BY <1>5 DEF ReadVatReports
    <3> QED BY <2>3, <3>1
  <2>6. task' = [pc |-> task'.pc, date |-> task'.date, todo |-> task'.todo,
                 list |-> task'.list]
    BY <2>3
  <2>7. \A e \in task'.list : e = <<e[1], e[2]>> /\ e[1] \in VatReports
    BY <2>4, <2>5
  <2> HIDE <2>1, <2>3
  <2> QED BY <1>0, <2>5, <2>6, <2>7 DEF TaskInv
<1>6. ASSUME NEW e \in task.list, ChangeVatReport(e[1], e[2]) PROVE TaskInv'
  <2>1. task' = [task EXCEPT !.list = task.list \ {<<e[1], e[2]>>}] /\ task.pc = "change"
    BY <1>6 DEF ChangeVatReport
  <2>2. task' = [pc |-> task.pc, date |-> task.date, todo |-> task.todo,
                 list |-> task.list \ {<<e[1], e[2]>>}]
    BY <1>0, <2>1 DEF TaskInv
  <2> QED BY <1>0, <1>6, <2>1, <2>2 DEF TaskInv, ChangeVatReport
<1>7. CASE EndTask \/ FailTask
  <2>1. task' = [pc |-> "idle", date |-> 0, todo |-> {}, list |-> {}] /\ vatFailures' \in Nat
    BY <1>0, <1>7 DEF EndTask, FailTask, NoTask
  <2> QED BY <1>0, <2>1 DEF TaskInv
<1> QED
  <2>1. ASSUME NEW x \in Payments, NEW c \in Companies, ClosePayment(x, c) PROVE TaskInv'
    BY <1>0, <1>1, <2>1 DEF ClosePayment
  <2>2. ASSUME NEW x \in Payments, PayBack(x) PROVE TaskInv'
    BY <1>0, <1>1, <2>2 DEF PayBack
  <2>3. CASE NextDay
    BY <1>0, <1>1, <2>3 DEF NextDay
  <2>4. ASSUME NEW v \in VatReports, NEW status, UpdateVatReportStatus(v, status)
        PROVE  TaskInv'
    BY <1>0, <1>1, <2>4 DEF UpdateVatReportStatus
  <2>5. CASE UNCHANGED vatVars
    BY <1>0, <1>1, <2>5 DEF vatVars
  <2> QED
    BY <1>2, <1>3, <1>4, <1>5, <1>6, <1>7, <2>1, <2>2, <2>3, <2>4, <2>5 DEF VatNext

\* Reports of today's period wait and all others are decided.
LEMMA StatusDecides ==
    ASSUME DaysInv, NEW j, IsReport(j)
    PROVE  /\ Period(day).from <= j.from => StatusOfReport(j) = j.status
           /\ j.from < Period(day).from => StatusOfReport(j) # "threshold"
<1>1. j.from \in Nat /\ Period(day).from \in Nat
  BY ReportPeriod
<1>2. GetLastVatReportTime.from = Period(day).from
  BY DEF GetLastVatReportTime, Period
<1>3. CASE Period(day).from <= j.from
  <2>1. ~(j.from < Period(day).from) /\ j.from >= Period(day).from
    BY <1>1, <1>3
  <2> QED BY <1>2, <1>3, <2>1, Zenon DEF StatusOfReport
<1>4. CASE j.from < Period(day).from
  <2>1. ~(j.from >= Period(day).from) /\ ~(Period(day).from <= j.from)
    BY <1>1, <1>4
  <2>2. CASE j.status = "need_to_pay"
    BY <1>2, <1>4, <2>1, <2>2 DEF StatusOfReport
  <2>3. CASE j.status # "need_to_pay"
    BY <1>2, <1>4, <2>1, <2>3 DEF StatusOfReport
  <2> QED BY <2>1, <2>2, <2>3
<1> QED BY <1>1, <1>3, <1>4

LEMMA StoredIs ==
    ASSUME VatInv, NEW v \in VatReports, vatReports[v] # NoRecord
    PROVE  /\ IsReport(vatReports[v]) /\ vatReports[v].from \in Nat
           /\ Period(day).from \in Nat
<1>1. vatReports[v] \in CopiesOf(v)
  BY DEF CopiesOf
<1>2. IsReport(vatReports[v])
  BY <1>1 DEF VatInv, CopiesInv, ReportInv
<1> QED BY <1>2, ReportPeriod DEF VatInv

\* Neither the reports nor what is past change.
LEMMA StayingDecided ==
    ASSUME VatInv, UNCHANGED <<country, day, vatReports>>, task'.list = task.list,
           task'.pc = "change" => task.pc = "change",
           reported' = day => reported = day
    PROVE  DecidedInv'
BY DEF VatInv, DecidedInv, Undecided, Period

LEMMA NextDayDecided ==
    ASSUME VatInv, NextDay
    PROVE  DecidedInv'
<1>1. /\ UNCHANGED <<country, vatReports, task, reported>> /\ day' = day + 1
      /\ task.pc = "idle"
  BY DEF NextDay
<1>2. PICK t : t = day + 1
  OBVIOUS
<1>3. /\ country.period \in 1 .. 3 /\ day \in Nat \ {0} /\ t \in Nat \ {0} /\ day <= t
      /\ reported \in Nat /\ reported <= day
  BY <1>2 DEF VatInv, DaysInv, CountryConfigs
<1>4. /\ Period(day).from <= Period(t).from /\ Period(day).from \in Nat
      /\ Period(t).from \in Nat
  BY <1>3, Periods DEF Period
<1>5. ASSUME NEW v \in VatReports, vatReports[v] # NoRecord,
             Period(t).from <= vatReports[v].from
      PROVE  vatReports[v].status = "threshold"
  BY <1>4, <1>5, StoredIs DEF VatInv, DecidedInv
<1>6. Period(day)' = Period(t)
  BY <1>1, <1>2 DEF Period
<1>7. task.list = {}
  BY <1>1 DEF VatInv, TaskInv
<1>8. reported # day'
  BY <1>1, <1>3
<1> QED BY <1>1, <1>5, <1>6, <1>7, <1>8 DEF DecidedInv

LEMMA ProcessReportDecided ==
    ASSUME VatInv, NEW c \in Companies, ProcessVatReportForPeriod(c)
    PROVE  DecidedInv'
<1>1. /\ UNCHANGED <<country, day, reported>>
      /\ task.pc = "report" /\ c \in task.todo /\ task' = AfterCompany(c, "status")
      /\ task.date = day /\ reported < day /\ task.list = {} /\ day \in Nat /\ reported \in Nat
  BY DEF ProcessVatReportForPeriod, VatInv, TaskInv, DaysInv
<1>2. task'.list = {} /\ task'.pc # "change"
  BY <1>1, AfterCompanyIs DEF VatInv
<1>3. \A v \in VatReports : vatReports'[v] = vatReports[v]
                               \/ vatReports'[v].status = "threshold"
  <2>1. CASE GetTurnover(c) = NoRecord
    BY <2>1 DEF ProcessVatReportForPeriod
  <2>2. CASE GetTurnover(c) # NoRecord
    <3>1. PICK n : n = NewVatReport(c, Period(day))
      OBVIOUS
    <3>2. PICK v \in VatReports : vatReports' = [vatReports EXCEPT ![v] = n]
      BY <1>1, <2>2, <3>1 DEF ProcessVatReportForPeriod, StoreReport, Period
    <3>4. ~Summed(c)
      BY <1>1 DEF Summed
    <3>3. n.status = "threshold"
      BY <3>1, <3>4, NewReportIs
    <3> QED BY <3>2, <3>3 DEF VatInv, CopiesInv
  <2> QED BY <2>1, <2>2
<1>4. \A v \in VatReports :
         vatReports'[v] # NoRecord /\ Period(day).from <= vatReports'[v].from
             => vatReports'[v].status = "threshold"
  BY <1>3 DEF VatInv, DecidedInv
<1>5. Period(day)' = Period(day)
  BY <1>1 DEF Period
<1>6. reported' # day'
  BY <1>1
<1> QED BY <1>2, <1>4, <1>5, <1>6 DEF DecidedInv

LEMMA ReadReportsDecided ==
    ASSUME VatInv, ReadVatReports
    PROVE  DecidedInv'
<1>1. /\ UNCHANGED <<country, day, reported, vatReports>> /\ task.pc = "status"
      /\ reported < day /\ day \in Nat /\ reported \in Nat
  BY DEF ReadVatReports, VatInv, TaskInv, DaysInv
<1>2. PICK list : list = {<<v, vatReports[v]>> : v \in GetByStatus({"threshold", "need_to_pay"})}
  OBVIOUS
<1>3. task'.list = list
  BY <1>2 DEF ReadVatReports, VatInv, TaskInv
<1>4. \A e, f \in list : e[1] = f[1] => e = f
  BY <1>2
<1>5. \A v \in VatReports : Undecided(v) => <<v, vatReports[v]>> \in list
  BY <1>2 DEF Undecided, GetByStatus
<1>6. Period(day)' = Period(day)
  BY <1>1 DEF Period
<1>7. \A v \in VatReports : Undecided(v)' <=> Undecided(v)
  BY <1>1, <1>6 DEF Undecided
<1>8. reported' # day'
  BY <1>1
<1> QED BY <1>1, <1>3, <1>4, <1>5, <1>6, <1>7, <1>8 DEF DecidedInv, VatInv

LEMMA ChangeReportDecided ==
    ASSUME VatInv, NEW e \in task.list, ChangeVatReport(e[1], e[2])
    PROVE  DecidedInv'
<1>1. /\ UNCHANGED <<country, day, reported>> /\ task.pc = "change"
      /\ reported < day /\ day \in Nat /\ reported \in Nat
      /\ e[1] \in VatReports /\ e = <<e[1], e[2]>>
  BY DEF ChangeVatReport, VatInv, TaskInv, DaysInv
<1>2. task'.list = task.list \ {e}
  BY <1>1 DEF ChangeVatReport, VatInv, TaskInv
<1>3. PICK v, j : v \in VatReports /\ v = e[1] /\ j = e[2] /\ e = <<v, j>>
  BY <1>1
<1>4. j \in CopiesOf(v)
  BY <1>3 DEF CopiesOf
<1>5. IsReport(j)
  BY <1>3, <1>4 DEF VatInv, CopiesInv, ReportInv
<1>6. j.from \in Nat /\ Period(day).from \in Nat
  BY <1>5, ReportPeriod DEF VatInv
<1>7. PICK status : status = StatusOfReport(j)
  OBVIOUS
<1>8. PICK s : s = [j EXCEPT !.status = status]
  OBVIOUS
<1>9. s.from = j.from /\ s.status = status
  BY <1>5, <1>8 DEF IsReport, IsRecord
<1>10. \/ status = j.status /\ UNCHANGED vatReports
       \/ status # j.status /\ vatReports' = [vatReports EXCEPT ![v] = s]
  BY <1>3, <1>7, <1>8 DEF ChangeVatReport, StoreReport
<1>11. /\ Period(day).from <= j.from => status = j.status
       /\ j.from < Period(day).from => status # "threshold"
  BY <1>5, <1>7, StatusDecides DEF VatInv
<1>12. \A u \in VatReports : \/ vatReports'[u] = vatReports[u]
                             \/ u = v /\ vatReports'[u] = s /\ status # j.status
  BY <1>10 DEF VatInv, CopiesInv
<1>13. status # j.status => j.from < Period(day).from /\ status # "threshold"
  BY <1>6, <1>11
<1>14. Period(day)' = Period(day)
  BY <1>1 DEF Period
<1>15. \A u \in VatReports :
          vatReports'[u] # NoRecord /\ Period(day).from <= vatReports'[u].from
              => vatReports'[u].status = "threshold"
  BY <1>6, <1>9, <1>12, <1>13 DEF VatInv, DecidedInv
<1>16. ASSUME NEW u \in VatReports, Undecided(u)'
       PROVE  <<u, vatReports'[u]>> \in task.list \ {e}
  <2>1. /\ vatReports'[u] # NoRecord /\ vatReports'[u].from < Period(day).from
        /\ vatReports'[u].status = "threshold"
    BY <1>14, <1>16 DEF Undecided
  <2>2. vatReports'[u] = vatReports[u]
    BY <1>9, <1>12, <1>13, <2>1
  <2>3. <<u, vatReports[u]>> \in task.list
    BY <1>1, <2>1, <2>2 DEF VatInv, DecidedInv, Undecided
  <2>4. <<u, vatReports[u]>> # e
    <3>1. SUFFICES ASSUME <<u, vatReports[u]>> = e PROVE FALSE
      OBVIOUS
    <3>2. u = v /\ vatReports[u] = j
      BY <1>3, <3>1
    <3>3. status # "threshold" /\ j.status = "threshold"
      BY <1>11, <2>1, <2>2, <3>2
    <3>4. vatReports' = [vatReports EXCEPT ![v] = s]
      BY <1>10, <3>3
    <3>5. vatReports'[u] = s
      BY <3>2, <3>4 DEF VatInv, CopiesInv
    <3> QED BY <1>9, <2>1, <3>3, <3>5
  <2> QED BY <2>2, <2>3, <2>4
<1>17. reported' # day'
  BY <1>1
<1>18. \A g, f \in task.list \ {e} : g[1] = f[1] => g = f
  BY DEF VatInv, DecidedInv
<1> QED BY <1>2, <1>14, <1>15, <1>16, <1>17, <1>18 DEF DecidedInv

LEMMA EndTaskDecided ==
    ASSUME VatInv, EndTask \/ FailTask
    PROVE  DecidedInv'
<1>1. /\ UNCHANGED <<country, day, vatReports>> /\ task' = NoTask
      /\ reported < day /\ day \in Nat /\ reported \in Nat
  BY DEF EndTask, FailTask, VatInv, TaskInv, DaysInv
<1>2. task'.list = {} /\ task'.pc = "idle"
  BY <1>1 DEF NoTask
<1>3. Period(day)' = Period(day)
  BY <1>1 DEF Period
<1>4. \A v \in VatReports : Undecided(v)' <=> Undecided(v)
  BY <1>1, <1>3 DEF Undecided
<1>5. ASSUME reported' = day', NEW v \in VatReports PROVE ~Undecided(v)
  <2>1. task.pc = "change" /\ task.list = {}
    BY <1>1, <1>5 DEF EndTask, FailTask
  <2> QED BY <2>1 DEF VatInv, DecidedInv
<1> QED BY <1>1, <1>2, <1>3, <1>4, <1>5 DEF VatInv, DecidedInv

LEMMA UpdateStatusDecided ==
    ASSUME VatInv, NEW v \in VatReports, NEW status, UpdateVatReportStatus(v, status)
    PROVE  DecidedInv'
<1>1. /\ UNCHANGED <<country, day, reported, task>> /\ status # "threshold"
      /\ vatReports[v] # NoRecord /\ vatReports[v].status # "threshold"
  BY DEF UpdateVatReportStatus
<1>2. PICK s : s = [vatReports[v] EXCEPT !.status = status]
  OBVIOUS
<1>3. vatReports' = [vatReports EXCEPT ![v] = s]
  BY <1>2 DEF UpdateVatReportStatus, StoreReport
<1>4. s.from = vatReports[v].from /\ s.status = status
  BY <1>1, <1>2, StoredIs DEF IsReport, IsRecord
<1>5. \A u \in VatReports : \/ vatReports'[u] = vatReports[u]
                            \/ u = v /\ vatReports'[u] = s
  BY <1>3 DEF VatInv, CopiesInv
<1>6. ~(Period(day).from <= vatReports[v].from)
  BY <1>1 DEF VatInv, DecidedInv
<1>7. Period(day)' = Period(day)
  BY <1>1 DEF Period
<1>8. \A u \in VatReports :
         vatReports'[u] # NoRecord /\ Period(day).from <= vatReports'[u].from
             => vatReports'[u].status = "threshold"
  BY <1>4, <1>5, <1>6 DEF VatInv, DecidedInv
<1>9. ASSUME NEW u \in VatReports, Undecided(u)'
      PROVE  vatReports'[u] = vatReports[u] /\ Undecided(u)
  BY <1>1, <1>4, <1>5, <1>7, <1>9 DEF Undecided
<1>10. task.pc = "change" =>
          \A u \in VatReports : Undecided(u)' => <<u, vatReports'[u]>> \in task.list
  BY <1>9 DEF VatInv, DecidedInv
<1>11. reported = day => \A u \in VatReports : ~Undecided(u)'
  BY <1>9 DEF VatInv, DecidedInv
<1>12. \A e, f \in task.list : e[1] = f[1] => e = f
  BY DEF VatInv, DecidedInv
<1> QED BY <1>1, <1>7, <1>8, <1>10, <1>11, <1>12 DEF DecidedInv

-----------------------------------------------------------------------------
(* What is late.                                                           *)

\* What has been summed today stays so until midnight, unless the task fails.
LEMMA LateStays ==
    ASSUME LateInv, UNCHANGED <<day, payments, paybacks>>,
           vatFailures' = 0 => vatFailures = 0 /\ \A c : Summed(c) => Summed(c)'
    PROVE  LateInv'
BY DEF LateInv

LEMMA LateStep ==
    ASSUME VatInv, PastDays = {0}, [VatNext]_vatVars
    PROVE  LateInv'
<1>0. DaysInv /\ TaskInv /\ LateInv
  BY DEF VatInv
<1>1. ASSUME NEW x \in Payments, NEW c \in Companies, ClosePayment(x, c) PROVE LateInv'
  <2>1. PICK doc : doc = [day |-> day, company |-> c, late |-> Summed(c)]
    OBVIOUS
  <2>2. /\ payments' = [payments EXCEPT ![x] = doc] /\ payments[x] = NoRecord
        /\ UNCHANGED <<day, paybacks, task, reported, vatFailures>>
    BY <1>1, <2>1 DEF ClosePayment
  <2>3. doc.company = c /\ doc.late = Summed(c)
    BY <2>1
  <2>4. \A y \in Payments : payments'[y] = IF y = x THEN doc ELSE payments[y]
    BY <1>0, <2>2 DEF DaysInv
  <2>5. \A d : Summed(d)' <=> Summed(d)
    BY <2>2 DEF Summed
  <2>6. paybacks[x] = NoRecord
    BY <1>0, <2>2 DEF DaysInv
  <2> QED BY <1>0, <2>2, <2>3, <2>4, <2>5, <2>6 DEF LateInv
<1>2. ASSUME NEW x \in Payments, PayBack(x) PROVE LateInv'
  <2>1. PICK doc : doc = [day |-> day,
                          deduction |-> payments[x].day < GetLastVatReportTime.from,
                          late |-> Summed(payments[x].company)]
    OBVIOUS
  <2>2. /\ paybacks' = [paybacks EXCEPT ![x] = doc]
        /\ UNCHANGED <<day, payments, task, reported, vatFailures>>
    BY <1>2, <2>1 DEF PayBack
  <2>3. doc.late = Summed(payments[x].company)
    BY <2>1
  <2>4. \A y \in Payments : paybacks'[y] = IF y = x THEN doc ELSE paybacks[y]
    BY <1>0, <2>2 DEF DaysInv
  <2>5. \A d : Summed(d)' <=> Summed(d)
    BY <2>2 DEF Summed
  <2> QED BY <1>0, <2>2, <2>3, <2>4, <2>5 DEF LateInv
<1>3. CASE NextDay
  <2>1. day' = day + 1 /\ UNCHANGED <<payments, paybacks>> /\ day \in Nat
    BY <1>0, <1>3 DEF NextDay, DaysInv
  <2>2. \A x \in Payments : /\ payments[x] # NoRecord => payments[x].day # day'
                            /\ paybacks[x] # NoRecord => paybacks[x].day # day'
    BY <1>0, <2>1 DEF DaysInv
  <2> QED BY <2>1, <2>2 DEF LateInv
<1>4. CASE StartTask(0)
  <2>1. /\ UNCHANGED <<day, payments, paybacks, vatFailures>>
        /\ task.pc = "idle" /\ reported < day /\ day \in Nat /\ reported \in Nat
    BY <1>0, <1>4 DEF StartTask, DaysInv
  <2>2. \A c : ~Summed(c)
    BY <2>1 DEF Summed
  <2> QED BY <1>0, <2>1, <2>2, LateStays
<1>5. ASSUME NEW c \in Companies, CalcAnnualTurnovers(c) PROVE LateInv'
  <2>1. /\ UNCHANGED <<day, payments, paybacks>> /\ task.pc = "turnover" /\ reported < day
        /\ day \in Nat /\ reported \in Nat /\ vatFailures \in Nat
        /\ vatFailures' \in {vatFailures, vatFailures + 1}
    BY <1>0, <1>5 DEF CalcAnnualTurnovers, StoreTurnover, DaysInv, TaskInv
  <2>2. \A d : ~Summed(d)
    BY <2>1 DEF Summed
  <2> QED BY <1>0, <2>1, <2>2, LateStays
<1>6. ASSUME NEW c \in Companies, ProcessVatReportForPeriod(c) PROVE LateInv'
  <2>1. /\ UNCHANGED <<day, payments, paybacks, reported, vatFailures>>
        /\ task.pc = "report" /\ c \in task.todo /\ task' = AfterCompany(c, "status")
    BY <1>6 DEF ProcessVatReportForPeriod
  <2>2. \/ task'.pc = "status"
        \/ task'.pc = "report" /\ task'.todo = task.todo \ {c}
    BY <1>0, <2>1, AfterCompanyIs
  <2>3. \A d : Summed(d) => Summed(d)'
    BY <2>1, <2>2 DEF Summed
  <2> QED BY <1>0, <2>1, <2>3, LateStays
<1>7. CASE ReadVatReports
  <2>1. UNCHANGED <<day, payments, paybacks, vatFailures>> /\ task'.pc = "change"
    BY <1>0, <1>7 DEF ReadVatReports, TaskInv
  <2>2. \A d : Summed(d)'
    BY <2>1 DEF Summed
  <2> QED BY <1>0, <2>1, <2>2, LateStays
<1>8. ASSUME NEW e \in task.list, ChangeVatReport(e[1], e[2]) PROVE LateInv'
  <2>1. UNCHANGED <<day, payments, paybacks, vatFailures>> /\ task'.pc = "change"
    BY <1>0, <1>8 DEF ChangeVatReport, TaskInv
  <2>2. \A d : Summed(d)'
    BY <2>1 DEF Summed
  <2> QED BY <1>0, <2>1, <2>2, LateStays
<1>9. CASE EndTask
  <2>1. UNCHANGED <<day, payments, paybacks, vatFailures>> /\ reported' = day
    BY <1>0, <1>9 DEF EndTask, TaskInv
  <2>2. \A d : Summed(d)'
    BY <2>1 DEF Summed
  <2> QED BY <1>0, <2>1, <2>2, LateStays
<1>10. CASE FailTask
  <2>1. vatFailures' # 0
    BY <1>0, <1>10 DEF FailTask, TaskInv
  <2> QED BY <2>1 DEF LateInv
<1>11. ASSUME NEW v \in VatReports, NEW status, UpdateVatReportStatus(v, status)
       PROVE  LateInv'
  <2>1. UNCHANGED <<day, payments, paybacks, vatFailures, task, reported>>
    BY <1>11 DEF UpdateVatReportStatus
  <2>2. \A d : Summed(d) => Summed(d)'
    BY <2>1 DEF Summed
  <2> QED BY <1>0, <2>1, <2>2, LateStays
<1>12. CASE UNCHANGED vatVars
  <2>1. UNCHANGED <<day, payments, paybacks, vatFailures, task, reported>>
    BY <1>12 DEF vatVars
  <2>2. \A d : Summed(d) => Summed(d)'
    BY <2>1 DEF Summed
  <2> QED BY <1>0, <2>1, <2>2, LateStays
<1> QED
  BY <1>1, <1>2, <1>3, <1>4, <1>5, <1>6, <1>7, <1>8, <1>9, <1>10, <1>11, <1>12 DEF VatNext

-----------------------------------------------------------------------------
(* Theorems.                                                               *)

LEMMA VatStep ==
    ASSUME VatInv, PastDays = {0}, [VatNext]_vatVars
    PROVE  VatInv'
<1>0. TaskInv' /\ LateInv'
  BY TaskStep, LateStep
<1>1. ASSUME NEW x \in Payments, NEW c \in Companies, ClosePayment(x, c) PROVE VatInv'
  <2>1. DaysInv'
    BY <1>1, ClosePaymentDays DEF VatInv
  <2>2. CopiesInv'
    BY <1>1, <2>1, TodayCopies
  <2>3. DecidedInv'
    BY <1>1, StayingDecided DEF ClosePayment
  <2> QED BY <1>0, <2>1, <2>2, <2>3 DEF VatInv
<1>2. ASSUME NEW x \in Payments, PayBack(x) PROVE VatInv'
  <2>1. DaysInv'
    BY <1>2, PayBackDays DEF VatInv
  <2>2. CopiesInv'
    BY <1>2, <2>1, TodayCopies
  <2>3. DecidedInv'
    BY <1>2, StayingDecided DEF PayBack
  <2> QED BY <1>0, <2>1, <2>2, <2>3 DEF VatInv
<1>3. CASE NextDay
  <2>1. DaysInv'
    BY <1>3, NextDayDays DEF VatInv
  <2> QED BY <1>0, <1>3, <2>1, NextDayCopies, NextDayDecided DEF VatInv
<1>4. CASE StartTask(0)
  <2>1. DaysInv'
    BY <1>4, DaysStayKeep DEF StartTask, DaysStay, VatInv
  <2>2. /\ UNCHANGED <<country, day, vatReports, reported>> /\ task.list = {}
        /\ task'.list = {} /\ task'.pc = "turnover"
    BY <1>4 DEF StartTask, NoTask, VatInv, TaskInv
  <2>3. DecidedInv'
    BY <2>2, StayingDecided
  <2> QED BY <1>0, <1>4, <2>1, <2>3, StartTaskCopies DEF VatInv
<1>5. ASSUME NEW c \in Companies, CalcAnnualTurnovers(c) PROVE VatInv'
  <2>1. DaysInv'
    BY <1>5, DaysStayKeep DEF CalcAnnualTurnovers, DaysStay, VatInv
  <2>2. /\ UNCHANGED <<country, day, vatReports, reported>> /\ task.pc = "turnover"
        /\ c \in task.todo /\ task' = AfterCompany(c, "report")
    BY <1>5 DEF CalcAnnualTurnovers
  <2>3. task'.list = task.list /\ task'.pc # "change"
    BY <2>2, AfterCompanyIs DEF VatInv
  <2>4. DecidedInv'
    BY <2>2, <2>3, StayingDecided
  <2> QED BY <1>0, <1>5, <2>1, <2>4, CalcAnnualTurnoversCopies DEF VatInv
<1>6. ASSUME NEW c \in Companies, ProcessVatReportForPeriod(c) PROVE VatInv'
  <2>1. DaysInv'
    BY <1>6, DaysStayKeep DEF ProcessVatReportForPeriod, DaysStay, VatInv
  <2> QED BY <1>0, <1>6, <2>1, ProcessReportCopies, ProcessReportDecided DEF VatInv
<1>7. CASE ReadVatReports
  <2>1. DaysInv'
    BY <1>7, DaysStayKeep DEF ReadVatReports, DaysStay, VatInv
  <2> QED BY <1>0, <1>7, <2>1, ReadReportsCopies, ReadReportsDecided DEF VatInv
<1>8. ASSUME NEW e \in task.list, ChangeVatReport(e[1], e[2]) PROVE VatInv'
  <2>1. DaysInv'
    BY <1>8, DaysStayKeep DEF ChangeVatReport, DaysStay, VatInv
  <2> QED BY <1>0, <1>8, <2>1, ChangeReportCopies, ChangeReportDecided DEF VatInv
<1>9. CASE EndTask \/ FailTask
  <2>1. DaysInv'
    BY <1>9, DaysStayKeep DEF EndTask, FailTask, DaysStay, VatInv
  <2> QED BY <1>0, <1>9, <2>1, EndTaskCopies, EndTaskDecided DEF VatInv
<1>10. ASSUME NEW v \in VatReports, NEW status, UpdateVatReportStatus(v, status)
       PROVE  VatInv'
  <2>1. DaysInv'
    BY <1>10, DaysStayKeep DEF UpdateVatReportStatus, DaysStay, VatInv
  <2> QED BY <1>0, <1>10, <2>1, UpdateStatusCopies, UpdateStatusDecided DEF VatInv
<1>11. CASE UNCHANGED vatVars
  <2>1. DaysInv' /\ DaysInv
    BY <1>11, DaysStayKeep DEF vatVars, DaysStay, VatInv
  <2>2. DecidedInv'
    BY <1>11, StayingDecided DEF vatVars
  <2>3. CopiesInv'
    <3>1. \A q : Counted(q)' => Counted(q)
      BY <1>11 DEF vatVars, Counted, Summed
    <3>2. /\ UNCHANGED <<vatReports, turnovers, turnoverCache, task, vatFailures>>
          /\ task'.list \subseteq task.list /\ DaysStay
      BY <1>11 DEF vatVars, DaysStay
    <3> QED BY <2>1, <3>1, <3>2, StayingCopies, StayingTurnovers, TaskCopies
  <2> QED BY <1>0, <2>1, <2>2, <2>3 DEF VatInv
<1> QED
  BY <1>1, <1>2, <1>3, <1>4, <1>5, <1>6, <1>7, <1>8, <1>9, <1>10, <1>11 DEF VatNext

LEMMA VatInvHolds == ASSUME PastDays = {0} PROVE VatSpec => []VatInv
<1>1. VatInit => VatInv
  <2> SUFFICES ASSUME VatInit PROVE VatInv
    OBVIOUS
  <2>1. task = NoTask /\ reported = 0 /\ day = 1 /\ vatFailures = 0
    BY DEF VatInit
  <2>2. TaskInv
    BY <2>1 DEF TaskInv, NoTask
  <2>3. DaysInv
    BY <2>1, VatAssumption DEF VatInit, DaysInv
  <2>4. \A v \in VatReports : vatReports[v] = NoRecord /\ CopiesOf(v) = {}
    BY <2>1 DEF VatInit, CopiesOf, NoTask
  <2>5. CopiesInv
    BY <2>4 DEF VatInit, CopiesInv
  <2>6. DecidedInv
    BY <2>1, <2>4 DEF DecidedInv, NoTask
  <2>7. LateInv
    BY DEF VatInit, LateInv
  <2> QED BY <2>2, <2>3, <2>5, <2>6, <2>7 DEF VatInv
<1>2. VatInv /\ [VatNext]_vatVars => VatInv'
  BY VatStep
<1> QED BY <1>1, <1>2, PTL DEF VatSpec

\* If no call failed, a report that has been decided holds the tax of the payments of its
\* period that were closed before the task summed it for the last time and not paid back by
\* then, for any number of companies, although the report is looked up without the company
\* and summed anew every day while payments and refunds go on (ProcessVatReports).
THEOREM DecidedReportsAreComplete ==
    ASSUME PastDays = {0}
    PROVE  VatSpec => []DecidedReportIsComplete
<1>1. VatInv => DecidedReportIsComplete
  <2> SUFFICES ASSUME VatInv, vatFailures = 0, NEW v \in VatReports,
                      vatReports[v] # NoRecord, vatReports[v].status # "threshold"
               PROVE  HoldsAll(vatReports[v])
    BY DEF DecidedReportIsComplete, HoldsAll, Kept
  <2>1. vatReports[v] \in CopiesOf(v)
    BY DEF CopiesOf
  <2>2. ReportInv(vatReports[v])
    BY <2>1 DEF VatInv, CopiesInv
  <2>3. ~(Period(day).from <= vatReports[v].from)
    BY DEF VatInv, DecidedInv
  <2>4. vatReports[v].to < day
    BY <2>2, <2>3, ReportPeriod DEF VatInv, ReportInv
  <2> QED BY <2>2, <2>4 DEF ReportInv, Counted
<1> QED BY <1>1, VatInvHolds, PTL

\* When the task has run through, whatever failed on the days before and whatever the
\* financier changed meanwhile, every report of a past period is decided
\* (ProcessVatReportsStatus).
THEOREM PastReportsAreDecided ==
    ASSUME PastDays = {0}
    PROVE  VatSpec => []PastPeriodsAreDecided
<1>1. VatInv => PastPeriodsAreDecided
  BY DEF VatInv, DecidedInv, PastPeriodsAreDecided, Undecided, GetLastVatReportTime, Period
<1> QED BY <1>1, VatInvHolds, PTL


-----------------------------------------------------------------------------
(* Turnovers.                                                              *)

\* The days up to today on which a period starts, and the day up to which it is summed.
Starts == {t \in 1 .. day : GetVatReportTime(country.period, t).from = t}

UpTo(t) == Min({GetVatReportTime(country.period, t).to, day})

\* The payments of a company that a sum from one day to another is made of.
Unreturned(c, from, to) == {x \in ClosedIn(c, from, to) : paybacks[x] = NoRecord}

Turned(c, S) == [t \in S |-> GetTurnoverSummary(c, t, UpTo(t))]

LEMMA TurnedSum ==
    ASSUME NEW c, NEW S, IsFiniteSet(S)
    PROVE  MapThenSumSet(LAMBDA t : GetTurnoverSummary(c, t, UpTo(t)), S)
               = Total(Turned(c, S), S)
<1> DEFINE Eq(g) == g = [s \in SUBSET S |->
                           IF s = {} THEN 0
                           ELSE LET x == CHOOSE x \in s : TRUE
                                IN  GetTurnoverSummary(c, x, UpTo(x)) + g[s \ {x}]]
<1>1. MapThenSumSet(LAMBDA t : GetTurnoverSummary(c, t, UpTo(t)), S) = (CHOOSE g : Eq(g))[S]
  BY DEF MapThenSumSet, MapThenFoldSet
<1>2. ASSUME NEW g
      PROVE  Eq(g) <=> Partials(Turned(c, S), S, g)
  <2>1. ASSUME NEW s \in SUBSET S, s # {}
        PROVE  (LET x == CHOOSE x \in s : TRUE
                IN  GetTurnoverSummary(c, x, UpTo(x)) + g[s \ {x}])
                = (LET x == CHOOSE x \in s : TRUE IN Turned(c, S)[x] + g[s \ {x}])
    BY <2>1, SomeElement DEF Turned
  <2>2. [s \in SUBSET S |-> IF s = {} THEN 0
                            ELSE LET x == CHOOSE x \in s : TRUE
                                 IN  GetTurnoverSummary(c, x, UpTo(x)) + g[s \ {x}]]
        = [s \in SUBSET S |-> IF s = {} THEN 0
                              ELSE LET x == CHOOSE x \in s : TRUE
                                   IN  Turned(c, S)[x] + g[s \ {x}]]
    BY <2>1, Zenon
  <2> QED BY <2>2, Zenon DEF Partials
<1> HIDE DEF Eq
<1>3. PICK g : g = CHOOSE h : Eq(h)
  OBVIOUS
<1>4. \E h : Eq(h)
  BY <1>2, PartialsExist
<1>5. Eq(g)
  BY <1>3, <1>4
<1>6. Partials(Turned(c, S), S, g)
  BY <1>2, <1>5
<1>7. Total(Turned(c, S), S) = g[S]
  BY <1>6, TotalIs
<1> QED BY <1>1, <1>3, <1>7

LEMMA EarlierOf ==
    ASSUME NEW a \in Int, NEW b \in Int
    PROVE  Min({a, b}) = IF a <= b THEN a ELSE b
<1>1. PICK m : m = IF a <= b THEN a ELSE b
  OBVIOUS
<1>2. m \in {a, b} /\ \A y \in {a, b} : m =< y
  BY <1>1
<1>3. \A x \in {a, b} : (\A y \in {a, b} : x =< y) => x = m
  BY <1>1, <1>2
<1> QED BY <1>1, <1>2, <1>3 DEF Min

\* The periods of the year so far: none overlaps another, and every day is in one.
LEMMA StartsDivide ==
    ASSUME country.period \in 1 .. 3, day \in Nat \ {0}
    PROVE  /\ IsFiniteSet(Starts)
           /\ \A t, u \in Starts : t # u => (t .. UpTo(t)) \cap (u .. UpTo(u)) = {}
           /\ \A d \in Int : d \in 1 .. day <=> \E t \in Starts : d \in t .. UpTo(t)
<1>1. Starts \subseteq 1 .. day /\ IsFiniteSet(1 .. day)
  BY FS_Interval DEF Starts
<1>2. IsFiniteSet(Starts)
  BY <1>1, FS_Subset
<1>3. ASSUME NEW t \in Starts
      PROVE  LET p == GetVatReportTime(country.period, t)
             IN  /\ t \in Nat \ {0} /\ t <= day
                 /\ p.from = t /\ p.to \in Nat /\ t <= p.to
                 /\ UpTo(t) = IF p.to <= day THEN p.to ELSE day
  <2>1. t \in Nat \ {0} /\ t <= day
    BY DEF Starts
  <2>2. PICK p : p = GetVatReportTime(country.period, t)
    OBVIOUS
  <2>3. p.from = t /\ p.to \in Nat /\ t <= p.to
    BY <2>1, <2>2, Periods DEF Starts
  <2>4. UpTo(t) = IF p.to <= day THEN p.to ELSE day
    BY <2>2, <2>3, EarlierOf DEF UpTo
  <2> QED BY <2>1, <2>2, <2>3, <2>4
<1>4. ASSUME NEW t \in Starts, NEW u \in Starts, t < u
      PROVE  UpTo(t) < u
  <2>1. PICK p, q : /\ p = GetVatReportTime(country.period, t)
                    /\ q = GetVatReportTime(country.period, u)
    OBVIOUS
  <2>2. p.from = t /\ q.from = u /\ p.to \in Nat
    BY <1>3, <2>1
  <2>3. p.to < q.from
    BY <1>3, <1>4, <2>1, <2>2, Periods
  <2>4. UpTo(t) <= p.to /\ UpTo(t) \in Int
    BY <1>3, <2>1
  <2> QED BY <1>3, <2>2, <2>3, <2>4
<1>5. \A t, u \in Starts : t # u => (t .. UpTo(t)) \cap (u .. UpTo(u)) = {}
  BY <1>3, <1>4
<1>6. ASSUME NEW d \in 1 .. day
      PROVE  \E t \in Starts : d \in t .. UpTo(t)
  <2>1. PICK p : p = GetVatReportTime(country.period, d)
    OBVIOUS
  <2>2. p.from \in Nat \ {0} /\ p.to \in Nat /\ p.from <= d /\ d <= p.to /\ p.from <= day
    BY <2>1, Periods
  <2>3. PICK t \in Nat \ {0} : t = p.from
    BY <2>2
  <2>4. PICK q : q = GetVatReportTime(country.period, t)
    OBVIOUS
  <2>5. q.from = t /\ q.to = p.to
    BY <2>1, <2>2, <2>3, <2>4, Periods
  <2>6. t \in Starts
    BY <2>2, <2>3, <2>4, <2>5 DEF Starts
  <2>7. d <= UpTo(t) /\ UpTo(t) \in Int
    BY <1>3, <2>2, <2>4, <2>5, <2>6
  <2> QED BY <2>2, <2>3, <2>6, <2>7
<1>7. ASSUME NEW d \in Int, NEW t \in Starts, d \in t .. UpTo(t)
      PROVE  d \in 1 .. day
  BY <1>3, <1>7
<1> QED BY <1>2, <1>5, <1>6, <1>7

\* Going through the periods of the year sums every payment once: the turnover of a company
\* is the same with the policy of the last day as with the policy of the day
\* (calcAnnualTurnover).
THEOREM TurnoverIsOfTheYear ==
    ASSUME country \in CountryConfigs, day \in Nat \ {0}, NEW c \in Companies,
           \A x \in Payments : payments[x] # NoRecord => payments[x].day \in Nat
    PROVE  CalcAnnualTurnover(c) = IF country.policy \in {"on-day", "last-day"}
                                   THEN GetTurnoverSummary(c, 1, day) ELSE NoRecord
<1>1. CASE country.policy # "last-day"
  BY <1>1 DEF CalcAnnualTurnover
<1>2. CASE country.policy = "last-day"
  <2>1. country.period \in 1 .. 3
    BY DEF CountryConfigs
  <2>2. PICK S : S = Starts
    OBVIOUS
  <2>3. CalcAnnualTurnover(c) = MapThenSumSet(LAMBDA t : GetTurnoverSummary(c, t, UpTo(t)), S)
    BY <1>2, <2>2 DEF CalcAnnualTurnover, Starts, UpTo
  <2>4. /\ IsFiniteSet(S)
        /\ \A t, u \in S : t # u => (t .. UpTo(t)) \cap (u .. UpTo(u)) = {}
        /\ \A d \in Int : d \in 1 .. day <=> \E t \in S : d \in t .. UpTo(t)
    BY <2>1, <2>2, StartsDivide
  <2>5. PICK A : A = [t \in S |-> Unreturned(c, t, UpTo(t))]
    OBVIOUS
  <2>6. PICK C : C = [t \in S |-> Cardinality(A[t])]
    OBVIOUS
  <2>7. PICK U : U = Unreturned(c, 1, day)
    OBVIOUS
  <2>8. \A t \in S : IsFiniteSet(A[t])
    BY <2>5, KeptFinite, FS_Subset DEF Unreturned
  <2>9. \A t, u \in S : t # u => A[t] \cap A[u] = {}
    BY <2>4, <2>5 DEF Unreturned, ClosedIn
  <2>10. \A x : x \in U <=> \E t \in S : x \in A[t]
    BY <2>4, <2>5, <2>7 DEF Unreturned, ClosedIn
  <2>11. Total(C, S) = Cardinality(U)
    <3>1. \A t \in S : C[t] = Cardinality(A[t])
      BY <2>6
    <3> QED BY <2>4, <2>8, <2>9, <2>10, <3>1, TotalOfCounts
  <2>12. Total(Turned(c, S), S) = 2 * Total(C, S)
    <3>1. \A t \in S : C[t] \in Int /\ Turned(c, S)[t] = 2 * C[t]
      BY <2>5, <2>6, <2>8, FS_CardinalityType DEF Turned, GetTurnoverSummary, Unreturned
    <3> QED BY <2>4, <3>1, TotalTimes
  <2>13. MapThenSumSet(LAMBDA t : GetTurnoverSummary(c, t, UpTo(t)), S) = Total(Turned(c, S), S)
    BY <2>4, TurnedSum
  <2> QED BY <1>2, <2>3, <2>7, <2>11, <2>12, <2>13 DEF GetTurnoverSummary, Unreturned
<1> QED BY <1>1, <1>2

LEMMA TurnoverIsNat ==
    ASSUME NEW c, NEW from, NEW to
    PROVE  GetTurnoverSummary(c, from, to) \in Nat
<1>1. IsFiniteSet(Unreturned(c, from, to))
  BY KeptFinite, FS_Subset DEF Unreturned
<1>2. Cardinality(Unreturned(c, from, to)) \in Nat
  BY <1>1, FS_CardinalityType
<1> QED BY <1>2 DEF GetTurnoverSummary, Unreturned


-----------------------------------------------------------------------------
(* Types, for runs of the task for any day.                                *)

VatShape == VatTypeOK /\ (task.pc # "idle" => task.date \in Nat \ {0})

IsTask(t) ==
    t \in [pc : {"idle", "turnover", "report", "status", "change"}, date : Int,
           todo : SUBSET Companies, list : SUBSET (VatReports \X VatReportDoc)]

LEMMA PeriodTyped ==
    ASSUME country \in Countries, NEW d \in Nat \ {0}
    PROVE  /\ GetVatReportTime(country.period, d).from \in Int
           /\ GetVatReportTime(country.period, d).to \in Int
<1>1. country.period \in 1 .. 3
  BY VatAssumption DEF CountryConfigs
<1> QED BY <1>1, Periods

LEMMA NewReportTyped ==
    ASSUME VatShape, NEW c \in Companies, GetTurnover(c) # NoRecord,
           NEW p, p.from \in Int, p.to \in Int
    PROVE  NewVatReport(c, p) \in VatReportDoc
<1>1. GetTurnover(c) \in Nat
  BY DEF GetTurnover, VatShape, VatTypeOK
<1>2. ASSUME NEW deduction \in BOOLEAN
      PROVE  LET s == GetVatSummary(c, p.from, p.to, deduction)
             IN  s.count \in Nat /\ s.tax \in Nat /\ s.refundTax \in Nat
  <2>1. PICK P : P = IF deduction THEN {} ELSE ClosedIn(c, p.from, p.to)
    OBVIOUS
  <2>2. PICK B : B = PaidBackIn(c, p.from, p.to, deduction)
    OBVIOUS
  <2>3. IsFiniteSet(P) /\ IsFiniteSet(B)
    BY <2>1, <2>2, KeptFinite, FS_EmptySet, FS_Subset DEF PaidBackIn
  <2>4. Cardinality(P) \in Nat /\ Cardinality(B) \in Nat
    BY <2>3, FS_CardinalityType
  <2> QED BY <2>1, <2>2, <2>4 DEF GetVatSummary
<1>3. PICK s, d : s = GetVatSummary(c, p.from, p.to, FALSE) /\ d = GetVatSummary(c, p.from, p.to, TRUE)
  OBVIOUS
<1>4. /\ s.count \in Nat /\ s.tax \in Nat /\ s.refundTax \in Nat
      /\ d.count \in Nat /\ d.refundTax \in Nat
  BY <1>2, <1>3
<1>5. NewVatReport(c, p) =
         [company |-> c, from |-> p.from, to |-> p.to, status |-> "threshold",
          vat |-> s.tax - s.refundTax, deduction |-> d.refundTax,
          turnover |-> GetTurnover(c), count |-> s.count + d.count]
  BY <1>3 DEF NewVatReport
<1> QED BY <1>1, <1>4, <1>5 DEF VatReportDoc, VatStatuses

\* The task goes on with its next company or at pc.
LEMMA AfterCompanyTyped ==
    ASSUME VatShape, NEW c, NEW pc \in {"report", "status"},
           task' = AfterCompany(c, pc), task.pc # "idle"
    PROVE  IsTask(task') /\ task'.date \in Nat \ {0}
<1>1. IsTask(task) /\ task.date \in Nat \ {0}
  BY DEF VatShape, VatTypeOK, IsTask
<1> QED BY <1>1 DEF AfterCompany, IsTask

LEMMA VatShapeSteps ==
    ASSUME VatShape, VatNext
    PROVE  VatShape'
<1>0. /\ IsTask(task) /\ country \in Countries /\ day \in Nat \ {0}
      /\ VatReportDoc = [company : Companies, from : Int, to : Int, status : VatStatuses,
                         vat : Int, deduction : Int, turnover : Int, count : Nat]
  BY DEF VatShape, VatTypeOK, IsTask, VatReportDoc
<1>n. NoTask.pc = "idle" /\ IsTask(NoTask)
  BY DEF NoTask, IsTask
<1>1. ASSUME NEW x \in Payments, NEW c \in Companies, ClosePayment(x, c) PROVE VatShape'
  <2>0. Summed(c) \in BOOLEAN
    BY DEF Summed
  <2>1. PICK d : d = [day |-> day, company |-> c, late |-> Summed(c)]
    OBVIOUS
  <2>2. d \in [day : Nat, company : Companies, late : BOOLEAN]
    BY <1>0, <2>0, <2>1
  <2> QED BY <1>1, <2>1, <2>2 DEF ClosePayment, VatShape, VatTypeOK
<1>2. ASSUME NEW x \in Payments, PayBack(x) PROVE VatShape'
  <2>0. Summed(payments[x].company) \in BOOLEAN
    BY DEF Summed
  <2>1. PICK d : d = [day |-> day, deduction |-> payments[x].day < GetLastVatReportTime.from,
                      late |-> Summed(payments[x].company)]
    OBVIOUS
  <2>2. d \in [day : Nat, deduction : BOOLEAN, late : BOOLEAN]
    BY <1>0, <2>0, <2>1
  <2> QED BY <1>2, <2>1, <2>2 DEF PayBack, VatShape, VatTypeOK
<1>3. ASSUME NextDay PROVE VatShape'
  BY <1>3, VatAssumption DEF NextDay, VatShape, VatTypeOK
<1>4. ASSUME NEW past \in PastDays, StartTask(past) PROVE VatShape'
  <2>1. day - past \in Nat \ {0}
    BY <1>0, <1>4, VatAssumption DEF StartTask
  <2>2. PICK t : t = [NoTask EXCEPT !.pc = "turnover", !.date = day - past, !.todo = Companies]
    OBVIOUS
  <2>3. IsTask(t) /\ t.date = day - past
    <3>1. t = [pc |-> "turnover", date |-> day - past, todo |-> Companies, list |-> {}]
      BY <2>2 DEF NoTask
    <3> QED BY <2>1, <3>1 DEF IsTask
  <2>4. bankFees' \in [Payments -> Int]
    BY <1>4 DEF StartTask, ProcessAccountingEntries, VatShape, VatTypeOK
  <2>5. task' = t
    BY <1>4, <2>2 DEF StartTask
  <2> QED BY <1>4, <2>1, <2>3, <2>4, <2>5 DEF StartTask, VatShape, VatTypeOK, IsTask
<1>5. ASSUME NEW c \in Companies, CalcAnnualTurnovers(c) PROVE VatShape'
  <2>1. IsTask(task') /\ task'.date \in Nat \ {0}
    BY <1>5, AfterCompanyTyped DEF CalcAnnualTurnovers
  <2>2. CalcAnnualTurnover(c) \in Nat \cup {NoRecord}
    <3>1. /\ country \in CountryConfigs
          /\ \A x \in Payments : payments[x] # NoRecord => payments[x].day \in Nat
      BY VatAssumption DEF VatShape, VatTypeOK
    <3> QED BY <1>0, <3>1, TurnoverIsOfTheYear, TurnoverIsNat
  <2>3. PICK amount : amount = CalcAnnualTurnover(c)
    OBVIOUS
  <2>4. /\ turnovers' \in [Companies -> Nat \cup {NoRecord}]
        /\ turnoverCache' \in [Companies -> Nat \cup {NoRecord}]
        /\ vatFailures' \in 0 .. MaxVatFailures
    <3>1. CASE amount = NoRecord
      BY <1>5, <2>3, <3>1 DEF CalcAnnualTurnovers, VatShape, VatTypeOK
    <3>2. CASE amount # NoRecord
      <4>1. StoreTurnover(c, amount)
        BY <1>5, <2>3, <3>2 DEF CalcAnnualTurnovers
      <4> QED BY <2>2, <2>3, <4>1, VatAssumption DEF StoreTurnover, VatShape, VatTypeOK
    <3> QED BY <3>1, <3>2
  <2>5. UNCHANGED <<country, day, payments, paybacks, bankFees, vatReports, reported>>
    BY <1>5 DEF CalcAnnualTurnovers
  <2> QED BY <2>1, <2>4, <2>5 DEF VatShape, VatTypeOK, IsTask
<1>6. ASSUME NEW c \in Companies, ProcessVatReportForPeriod(c) PROVE VatShape'
  <2>1. IsTask(task') /\ task'.date \in Nat \ {0}
    BY <1>6, AfterCompanyTyped DEF ProcessVatReportForPeriod
  <2>2. PICK p : p = GetVatReportTime(country.period, task.date)
    OBVIOUS
  <2>3. p.from \in Int /\ p.to \in Int
    BY <1>0, <1>6, <2>2, PeriodTyped DEF ProcessVatReportForPeriod, VatShape
  <2>4. PICK j : j = NewVatReport(c, p)
    OBVIOUS
  <2>5. vatReports' \in [VatReports -> VatReportDoc \cup {NoRecord}]
    <3>1. CASE GetTurnover(c) = NoRecord
      BY <1>6, <3>1 DEF ProcessVatReportForPeriod, VatShape, VatTypeOK
    <3>2. CASE GetTurnover(c) # NoRecord
      <4>1. j \in VatReportDoc
        BY <2>3, <2>4, <3>2, NewReportTyped
      <4>2. \E v \in VatReports : vatReports' = [vatReports EXCEPT ![v] = j]
        BY <1>6, <2>2, <2>4, <3>2 DEF ProcessVatReportForPeriod, StoreReport
      <4> QED BY <4>1, <4>2 DEF VatShape, VatTypeOK
    <3> QED BY <3>1, <3>2
  <2>6. UNCHANGED <<country, day, payments, paybacks, bankFees, turnovers, turnoverCache,
                    reported, vatFailures>>
    BY <1>6 DEF ProcessVatReportForPeriod
  <2> QED BY <2>1, <2>5, <2>6 DEF VatShape, VatTypeOK, IsTask
<1>7. ASSUME ReadVatReports PROVE VatShape'
  <2>1. PICK l : l = {<<v, vatReports[v]>> : v \in GetByStatus({"threshold", "need_to_pay"})}
    OBVIOUS
  <2>2. l \subseteq VatReports \X VatReportDoc
    BY <2>1 DEF GetByStatus, VatShape, VatTypeOK
  <2>3. task' = [task EXCEPT !.pc = "change", !.list = l]
    BY <1>7, <2>1 DEF ReadVatReports
  <2>4. IsTask(task') /\ task'.date = task.date
    BY <1>0, <2>2, <2>3 DEF IsTask
  <2> QED BY <1>7, <2>4 DEF ReadVatReports, VatShape, VatTypeOK, IsTask
<1>8. ASSUME NEW f \in task.list, ChangeVatReport(f[1], f[2]) PROVE VatShape'
  <2>1. PICK v, j : v = f[1] /\ j = f[2] /\ v \in VatReports /\ j \in VatReportDoc
    BY <1>0 DEF IsTask
  <2>2. PICK st : st = StatusOfReport(j)
    OBVIOUS
  <2>3. st \in VatStatuses
    BY <1>0, <2>1, <2>2 DEF StatusOfReport, VatStatuses
  <2>4. PICK u : u = [j EXCEPT !.status = st]
    OBVIOUS
  <2>5. u \in VatReportDoc
    BY <1>0, <2>1, <2>3, <2>4
  <2>6. vatReports' = vatReports \/ vatReports' = [vatReports EXCEPT ![v] = u]
    BY <1>8, <2>1, <2>2, <2>4 DEF ChangeVatReport, StoreReport
  <2>7. task' = [task EXCEPT !.list = @ \ {<<v, j>>}]
    BY <1>8, <2>1 DEF ChangeVatReport
  <2>8. IsTask(task') /\ task'.date = task.date /\ task'.pc = task.pc
    BY <1>0, <2>7 DEF IsTask
  <2> QED BY <1>8, <2>1, <2>5, <2>6, <2>8 DEF ChangeVatReport, VatShape, VatTypeOK, IsTask
<1>9. ASSUME EndTask PROVE VatShape'
  BY <1>9, <1>n DEF EndTask, VatShape, VatTypeOK, IsTask
<1>10. ASSUME FailTask PROVE VatShape'
  BY <1>10, <1>n, VatAssumption DEF FailTask, VatShape, VatTypeOK, IsTask
<1>11. ASSUME NEW v \in VatReports, NEW status \in VatStatuses, UpdateVatReportStatus(v, status)
       PROVE  VatShape'
  <2>1. vatReports[v] \in VatReportDoc
    BY <1>11 DEF UpdateVatReportStatus, VatShape, VatTypeOK
  <2>2. PICK u : u = [vatReports[v] EXCEPT !.status = status]
    OBVIOUS
  <2>3. u \in VatReportDoc
    BY <1>0, <2>1, <2>2
  <2>4. vatReports' = [vatReports EXCEPT ![v] = u]
    BY <1>11, <2>2 DEF UpdateVatReportStatus, StoreReport
  <2> QED BY <1>11, <2>3, <2>4 DEF UpdateVatReportStatus, VatShape, VatTypeOK, IsTask
<1> QED BY <1>1, <1>2, <1>3, <1>4, <1>5, <1>6, <1>7, <1>8, <1>9, <1>10, <1>11, Zenon DEF VatNext

LEMMA VatShapeStarts == VatInit => VatShape
BY VatAssumption DEF VatInit, VatShape, VatTypeOK, NoTask

LEMMA VatShapeStays == VatShape /\ UNCHANGED vatVars => VatShape'
BY DEF VatShape, VatTypeOK, vatVars

\* The country's configuration, payments, turnovers, reports and the task keep their shape, for
\* runs of the task for any day: what is summed into turnovers and reports are numbers
\* (calcAnnualTurnover, processVatReportForPeriod).
THEOREM VatTypeCorrect == VatSpec => []VatTypeOK
<1>1. VatShape /\ [VatNext]_vatVars => VatShape'
  BY VatShapeSteps, VatShapeStays
<1>2. VatShape => VatTypeOK
  BY DEF VatShape
<1> QED BY <1>1, <1>2, VatShapeStarts, PTL DEF VatSpec

-----------------------------------------------------------------------------
(* The back office: a behaviour has steps of the users or of the VAT       *)
(* reports, and where the VAT reports take them there are no users yet.    *)

LEMMA NobodyIsTyped == NoUsers => UsersTypeInv
<1> SUFFICES ASSUME NoUsers PROVE UsersTypeInv
  OBVIOUS
<1>1. r \in [Requests -> Work] /\ \A p \in Requests : r[p] = Idle
  BY WorksAre DEF NoUsers
<1>2. \A p \in Requests : Prepared(r[p]) /\ (r[p] # Idle => r[p].todo # <<>>)
  BY <1>1, WorksAre
<1>3. /\ registered \in BOOLEAN /\ letters \subseteq Users
      /\ roles \in [RoleIds -> RoleDoc \cup {Absent, Gone}]
      /\ grants \subseteq Scopes \X Users \X (RolesOf(Merchant) \cup RolesOf(System))
      /\ profiles \in [Users -> ProfileDoc \cup {Absent}]
      /\ invites \subseteq [scope : Scopes, email : Users, id : RoleIds]
  BY DEF NoUsers
<1>4. overlaps \in Nat /\ userFailures \in Nat /\ overlaps + userFailures <= MaxTroubles
  BY UsersAssumption DEF NoUsers, UsersAssumption
<1> QED
  BY <1>1, <1>2, <1>3, <1>4, Zenon DEF UsersTypeInv

\* Every step of the back office is a step of the users and one of the VAT reports, or leaves
\* them as they are.
LEMMA BackOfficeSteps ==
  [MCNext]_mcVars => [UsersNext]_userVars /\ [VatNext]_vatVars
BY DEF MCNext, mcVars

\* Users, roles, permissions, payments, turnovers, VAT reports and what requests and the task
\* hold of them keep their shape, whoever takes the steps.
THEOREM BackOfficeTypesCorrect == MCSpec => []BackOfficeTypesOK
<1>1. MCInit => UsersTypeInv /\ VatShape
  BY UsersTypesStart, NobodyIsTyped, VatShapeStarts DEF MCInit
<1>2. UsersTypeInv /\ VatShape /\ [MCNext]_mcVars => (UsersTypeInv /\ VatShape)'
  BY BackOfficeSteps, UsersTypesStep, VatShapeSteps, VatShapeStays
<1>3. UsersTypeInv /\ VatShape => BackOfficeTypesOK
  BY UsersTyped DEF VatShape, BackOfficeTypesOK
<1> QED
  BY <1>1, <1>2, <1>3, PTL DEF MCSpec
=============================================================================
