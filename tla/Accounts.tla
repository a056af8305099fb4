-------------------------------- MODULE Accounts --------------------------------
(***************************************************************************)
(* Accounts (internal/server/auth.go, users.go, account.go, invites.go,    *)
(* tokens.go, sshkeys.go, ui_auth.go and ui_users.go, store/users.go,      *)
(* tokens.go, invites.go and members.go): who may sign in, who may write   *)
(* to a project, and what belongs to whom.                                 *)
(*                                                                         *)
(* Every statement is one transaction, but a request is several: it reads  *)
(* the account of its token and acts on what it read.  Rows of users have  *)
(* no AUTOINCREMENT: the id of the newest account is given again once that *)
(* account is deleted.  The API and the pages differ in what they answer,  *)
(* not in what they do.  People are named by their first email address and *)
(* the password they would choose.                                         *)
(***************************************************************************)
EXTENDS Naturals, FiniteSetsExt

CONSTANTS
    People,       \* email addresses, passwords and keys
    Clients,      \* requests under way at a time
    MaxAccounts,  \* bound: accounts ever made
    MaxRequests,  \* bound: requests
    AccountFaults \* a subset of {"mark", "crash"}, one of them once

ASSUME AccountAssumption ==
    /\ IsFiniteSet(People) /\ People # {} /\ IsFiniteSet(Clients)
    /\ MaxAccounts \in Nat \ {0, 1} /\ MaxRequests \in Nat
    /\ AccountFaults \subseteq {"mark", "crash"}

VARIABLES
    users,      \* rows
    api_tokens, \* rows, of sessions too
    ssh_keys,   \* rows
    members,    \* rows of project_members, of one project
    invites,    \* rows
    shown,      \* accounts that a list has shown
    request,    \* the requests
    acctPast    \* history, see NoHistory

accountVars == <<users, api_tokens, ssh_keys, members, invites, shown, request, acctPast>>

Roles       == {"admin", "member"}
MemberRoles == {"member", "viewer"}
Accounts    == 1 .. MaxAccounts

\* acct: history: the how manieth account it is.
User   == [id : Accounts, email : People, role : Roles, secret : People, acct : Accounts]
NoUser == [id |-> 0, email |-> "", role |-> "", secret |-> "", acct |-> 0]

\* acct, here and below: history: whose it was meant to be.
Token  == [n : 1 .. MaxRequests + 2, uid : Accounts, acct : Accounts]
Key    == [key : People, uid : Accounts, acct : Accounts]
Member == [uid : Accounts, role : MemberRoles, acct : Accounts]
Invite == [n : 1 .. MaxRequests, role : Roles, used : BOOLEAN]

\* me: the account read.  target: the account looked up.  proved: whose password.  could:
\* history: it might write at some moment of the request.  out: history: it was taken from
\* the project meanwhile.
Idle == [pc |-> "idle", me |-> NoUser, target |-> NoUser, proved |-> 0, invite |-> 0,
         could |-> FALSE, out |-> FALSE]

RequestPCs == {"idle", "mint", "asked", "password", "email", "join", "leave", "gate",
               "write", "register", "burn"}

\* crossed: accounts deleted while a request was about them.  alone: an admin was deleted by
\* one who was deleted meanwhile.  guests: accounts made, by invite.  met: invites that two
\* requests were at together.  moved: accounts whose address changed while another request
\* was about them.  slips: accounts whose own change needed
\* another's password.
NoHistory == [accounts |-> 1, requests |-> 0, faults |-> {}, crossed |-> {}, alone |-> FALSE,
              guests |-> [i \in 1 .. MaxRequests |-> 0], met |-> {}, moved |-> {}, slips |-> {}]

\* bootstrapAdmin.
Founder == CHOOSE p \in People : TRUE
Root(acct) == [id |-> 1, email |-> Founder, role |-> "admin", secret |-> Founder, acct |-> acct]

\* The first admin is there and signed in, has made another account or not, and has the
\* list of accounts open.
AccountInit ==
    /\ \/ users = {Root(1)} /\ acctPast = NoHistory /\ api_tokens = {[n |-> 1, uid |-> 1, acct |-> 1]}
       \/ \E p \in People \ {Founder}, r \in Roles :
              /\ users = {Root(1), [id |-> 2, email |-> p, role |-> r, secret |-> p, acct |-> 2]}
              /\ acctPast = [NoHistory EXCEPT !.accounts = 2]
              /\ api_tokens = {[n |-> i, uid |-> i, acct |-> i] : i \in 1 .. 2}
    /\ ssh_keys = {} /\ invites = {}
    /\ members \in {{}} \cup {{[uid |-> 2, role |-> r, acct |-> 2]} :
                                  r \in {s \in MemberRoles : \E u \in users : u.role = "member"}}
    /\ shown = {[id |-> u.id, acct |-> u.acct] : u \in users}
    /\ request = [c \in Clients |-> Idle]

--------------------------------
(***************************************************************************)
(* The tables.                                                             *)
(***************************************************************************)

WithId(id)   == {u \in users : u.id = id}
WithEmail(e) == {u \in users : u.email = e}
RoleOf(id)   == {m.role : m \in {n \in members : n.uid = id}}
Writer(u)    == u.role = "admin" \/ "member" \in RoleOf(u.id)

\* Is a request other than c's about that account?
Held(acct, c) == \E d \in Clients \ {c} : acct \in {request[d].me.acct, request[d].target.acct}

\* CreateUser: SQLite's next id.  Its address must be free.
NewUser(e, role) ==
    [id |-> Max({u.id : u \in users} \cup {0}) + 1, email |-> e, role |-> role, secret |-> e,
     acct |-> acctPast.accounts + 1]

MayCreate(e) == WithEmail(e) = {} /\ acctPast.accounts < MaxAccounts

\* Mutant: no foreign keys.
DeleteUserOnly(id) ==
    /\ users' = users \ WithId(id) /\ UNCHANGED <<api_tokens, ssh_keys, members>>

\* DeleteUser: what refers to the account goes with it.
DeleteUser(id) ==
    /\ users' = users \ WithId(id)
    /\ api_tokens' = {t \in api_tokens : t.uid # id}
    /\ ssh_keys' = {k \in ssh_keys : k.uid # id}
    /\ members' = {m \in members : m.uid # id}

Update(id, u) == users' = (users \ WithId(id)) \cup {u}

Done(c)       == request' = [request EXCEPT ![c] = Idle]
Goes(c, pc)   == request' = [request EXCEPT ![c].pc = pc]
Counted       == /\ acctPast.requests < MaxRequests
                 /\ acctPast' = [acctPast EXCEPT !.requests = @ + 1]

--------------------------------
(***************************************************************************)
(* Signing in.                                                             *)
(***************************************************************************)

\* Authenticate, for handleLogin and handleUILogin.
Login(c) ==
    /\ request[c].pc = "idle" /\ Counted
    /\ \E u \in users :
           request' = [request EXCEPT ![c] = [Idle EXCEPT !.pc = "mint", !.me = u]]
    /\ UNCHANGED <<users, api_tokens, ssh_keys, members, invites, shown>>

\* createToken: the account may be gone, or another have its id.
CreateToken(c) ==
    /\ request[c].pc = "mint"
    /\ api_tokens' = IF WithId(request[c].me.id) = {} THEN api_tokens
                     ELSE api_tokens \cup
                              {[n |-> Max({t.n : t \in api_tokens} \cup {0}) + 1,
                                uid |-> request[c].me.id, acct |-> request[c].me.acct]}
    /\ Done(c)
    /\ UNCHANGED <<users, ssh_keys, members, invites, shown, acctPast>>

\* UserForToken, for authed and uiUser.
Authed(c) ==
    /\ request[c].pc = "idle" /\ Counted
    /\ \E t \in api_tokens, u \in users :
           /\ u.id = t.uid
           /\ request' = [request EXCEPT ![c] =
                  [Idle EXCEPT !.pc = "asked", !.me = u, !.could = Writer(u)]]
    /\ UNCHANGED <<users, api_tokens, ssh_keys, members, invites, shown>>

Asked(c) == request[c].pc = "asked"

\* adminOnly, uiAdmin: the role is the one that was read.
AdminAsked(c) == Asked(c) /\ request[c].me.role = "admin"

--------------------------------
(***************************************************************************)
(* What admins do.                                                         *)
(***************************************************************************)

\* handleListUsers, handleUIUsers.
ListUsers(c) ==
    /\ AdminAsked(c) /\ Done(c)
    /\ shown' = shown \cup {[id |-> u.id, acct |-> u.acct] : u \in users}
    /\ UNCHANGED <<users, api_tokens, ssh_keys, members, invites, acctPast>>

CreateUser(c) ==
    /\ AdminAsked(c) /\ Done(c)
    /\ \E e \in People, r \in Roles :
           /\ MayCreate(e) /\ users' = users \cup {NewUser(e, r)}
           /\ acctPast' = [acctPast EXCEPT !.accounts = @ + 1]
    /\ UNCHANGED <<api_tokens, ssh_keys, members, invites, shown>>

\* An admin may delete every account but the own one.
MayDelete(c, id) == id # request[c].me.id

\* handleDeleteUser, handleUIUserDelete: by the id that a list has shown.
DeletesUser(c) ==
    /\ AdminAsked(c) /\ Done(c)
    /\ \E s \in shown, u \in users :
           /\ u.id = s.id /\ MayDelete(c, s.id) /\ DeleteUser(s.id)
           /\ acctPast' = [acctPast EXCEPT
                  !.crossed = IF Held(u.acct, c) THEN @ \cup {u.acct} ELSE @,
                  !.alone = @ \/ request[c].me.acct \notin {v.acct : v \in users}]
    /\ UNCHANGED <<invites, shown>>

\* handleAdminSetPassword, handleUIUserPassword.  Its tokens stay.
SetsPassword(c) ==
    /\ AdminAsked(c) /\ Done(c)
    /\ \E s \in shown, u \in users, p \in People :
           u.id = s.id /\ Update(u.id, [u EXCEPT !.secret = p])
    /\ UNCHANGED <<api_tokens, ssh_keys, members, invites, shown, acctPast>>

\* handleCreateInvite, handleUIInviteCreate.
CreateInvite(c) ==
    /\ AdminAsked(c) /\ Done(c)
    /\ \E r \in Roles :
           LET known == {i.n : i \in invites} \cup
                           {i \in 1 .. MaxRequests : acctPast.guests[i] > 0}
               n     == Max(known \cup {0}) + 1
           IN invites' = invites \cup {[n |-> n, role |-> r, used |-> FALSE]}
    /\ UNCHANGED <<users, api_tokens, ssh_keys, members, shown, acctPast>>

\* handleRevokeInvite, handleUIInviteRevoke.
RevokeInvite(c) ==
    /\ AdminAsked(c) /\ Done(c)
    /\ \E i \in invites :
           /\ invites' = invites \ {i}
           /\ acctPast' = [acctPast EXCEPT
                  !.guests[i.n] = Max({@, 1}),
                  !.met = IF \E d \in Clients : request[d].invite = i.n
                          THEN @ \cup {i.n} ELSE @]
    /\ UNCHANGED <<users, api_tokens, ssh_keys, members, shown>>

\* GetUserByEmail, for handleAddMember and handleRemoveMember.
FindsMember(c) ==
    /\ AdminAsked(c)
    /\ \E u \in users, pc \in {"join", "leave"} :
           request' = [request EXCEPT ![c].pc = pc, ![c].target = u]
    /\ UNCHANGED <<users, api_tokens, ssh_keys, members, invites, shown, acctPast>>

\* AddMember: another role replaces the one that is there.
AddMember(c) ==
    /\ request[c].pc = "join"
    /\ LET uid == request[c].target.id IN
       \/ WithId(uid) = {} /\ Done(c) /\ UNCHANGED members
       \/ \E r \in MemberRoles :
              /\ WithId(uid) # {}
              /\ members' = {m \in members : m.uid # uid} \cup
                     {[uid |-> uid, role |-> r, acct |-> request[c].target.acct]}
              /\ request' = [d \in Clients |->
                     IF d = c THEN Idle
                     ELSE IF request[d].me.id = uid
                     THEN [request[d] EXCEPT !.could = @ \/ r = "member"] ELSE request[d]]
    /\ UNCHANGED <<users, api_tokens, ssh_keys, invites, shown, acctPast>>

RemoveMember(c) ==
    /\ request[c].pc = "leave"
    /\ LET uid == request[c].target.id IN
       /\ members' = {m \in members : m.uid # uid}
       /\ request' = [d \in Clients |->
              IF d = c THEN Idle
              ELSE IF request[d].me.id = uid THEN [request[d] EXCEPT !.out = TRUE]
              ELSE request[d]]
    /\ UNCHANGED <<users, api_tokens, ssh_keys, invites, shown, acctPast>>

--------------------------------
(***************************************************************************)
(* What everybody does.                                                    *)
(***************************************************************************)

\* handleChangePassword, handleChangeEmail and their pages: the old password is checked
\* against the account that has the address now.
Authenticate(c) ==
    /\ Asked(c)
    /\ \E u \in WithEmail(request[c].me.email), pc \in {"password", "email"} :
           request' = [request EXCEPT ![c].pc = pc, ![c].proved = u.acct]
    /\ UNCHANGED <<users, api_tokens, ssh_keys, members, invites, shown, acctPast>>

\* history: the row that is changed is not the one whose password was proved.
Slips(c, u) == IF u.acct = request[c].proved THEN acctPast.slips
               ELSE acctPast.slips \cup {request[c].me.acct}

\* UpdatePassword.  Sessions that were opened with the old one stay.
ChangePassword(c) ==
    /\ request[c].pc = "password" /\ Done(c)
    /\ \/ WithId(request[c].me.id) = {} /\ UNCHANGED <<users, acctPast>>
       \/ \E u \in WithId(request[c].me.id), p \in People :
              /\ Update(u.id, [u EXCEPT !.secret = p])
              /\ acctPast' = [acctPast EXCEPT !.slips = Slips(c, u)]
    /\ UNCHANGED <<api_tokens, ssh_keys, members, invites, shown>>

\* UpdateEmail.
ChangeEmail(c) ==
    /\ request[c].pc = "email" /\ Done(c)
    /\ \/ WithId(request[c].me.id) = {} /\ UNCHANGED <<users, acctPast>>
       \/ \E u \in WithId(request[c].me.id), e \in People :
              IF WithEmail(e) \subseteq {u}
              THEN /\ Update(u.id, [u EXCEPT !.email = e])
                   /\ acctPast' = [acctPast EXCEPT !.slips = Slips(c, u),
                          !.moved = IF Held(u.acct, c) THEN @ \cup {u.acct} ELSE @]
              ELSE UNCHANGED <<users, acctPast>>
    /\ UNCHANGED <<api_tokens, ssh_keys, members, invites, shown>>

\* handleRevokeToken, handleUITokenRevoke: only the own ones.
RevokeToken(c) ==
    /\ Asked(c) /\ Done(c)
    /\ \E t \in api_tokens : t.uid = request[c].me.id /\ api_tokens' = api_tokens \ {t}
    /\ UNCHANGED <<users, ssh_keys, members, invites, shown, acctPast>>

\* handleAddSSHKey, handleUISSHKeyAdd: a key is registered once.
AddSSHKey(c) ==
    /\ Asked(c) /\ Done(c)
    /\ \E k \in People :
           /\ \A other \in ssh_keys : other.key # k
           /\ ssh_keys' = IF WithId(request[c].me.id) = {} THEN ssh_keys
                          ELSE ssh_keys \cup {[key |-> k, uid |-> request[c].me.id,
                                               acct |-> request[c].me.acct]}
    /\ UNCHANGED <<users, api_tokens, members, invites, shown, acctPast>>

\* handleDeleteSSHKey, handleUISSHKeyDelete.
DeleteSSHKey(c) ==
    /\ Asked(c) /\ Done(c)
    /\ \E k \in ssh_keys : k.uid = request[c].me.id /\ ssh_keys' = ssh_keys \ {k}
    /\ UNCHANGED <<users, api_tokens, members, invites, shown, acctPast>>

\* requireProject, uiProject: an admin passes, and a member.
RequireProject(c) ==
    /\ Asked(c)
    /\ IF request[c].me.role = "admin" THEN Goes(c, "write")
       ELSE IF RoleOf(request[c].me.id) # {} THEN Goes(c, "gate") ELSE Done(c)
    /\ UNCHANGED <<users, api_tokens, ssh_keys, members, invites, shown, acctPast>>

ViewersRefused(c) == "viewer" \in RoleOf(request[c].me.id)

\* requireProjectWrite, uiProjectWrite: who is no viewer passes.
RequireProjectWrite(c) ==
    /\ request[c].pc = "gate"
    /\ IF ViewersRefused(c) THEN Done(c) ELSE Goes(c, "write")
    /\ UNCHANGED <<users, api_tokens, ssh_keys, members, invites, shown, acctPast>>

Writes(c) ==
    /\ request[c].pc = "write" /\ Done(c)
    /\ UNCHANGED <<users, api_tokens, ssh_keys, members, invites, shown, acctPast>>

--------------------------------
(***************************************************************************)
(* handleUIRegister.                                                       *)
(***************************************************************************)

\* GetValidInvite.
GetValidInvite(c) ==
    /\ request[c].pc = "idle" /\ acctPast.requests < MaxRequests
    /\ \E i \in invites :
           /\ ~ i.used
           /\ request' = [request EXCEPT ![c] = [Idle EXCEPT !.pc = "register", !.invite = i.n,
                                                   !.me.role = i.role]]
           /\ acctPast' = [acctPast EXCEPT
                  !.requests = @ + 1,
                  !.met = IF \E d \in Clients : request[d].invite = i.n
                          THEN @ \cup {i.n} ELSE @]
    /\ UNCHANGED <<users, api_tokens, ssh_keys, members, invites, shown>>

\* The account has the role of the invite.
Registers(c) ==
    /\ request[c].pc = "register"
    /\ \/ /\ Done(c) /\ UNCHANGED <<users, acctPast>> \* refused: the invite is left as it is
       \/ \E e \in People :
              LET u == NewUser(e, request[c].me.role) IN
              /\ MayCreate(e) /\ users' = users \cup {u}
              /\ request' = [request EXCEPT ![c].pc = "burn", ![c].me = u]
              /\ acctPast' = [acctPast EXCEPT !.accounts = @ + 1,
                                                !.guests[request[c].invite] = @ + 1]
    /\ UNCHANGED <<api_tokens, ssh_keys, members, invites, shown>>

Burnt(i) == [i EXCEPT !.used = TRUE]

\* MarkInviteUsed: a failure is only logged.
MarkInviteUsed(c) ==
    /\ request[c].pc = "burn" /\ Goes(c, "mint")
    /\ \/ /\ invites' = {IF i.n = request[c].invite THEN Burnt(i) ELSE i : i \in invites}
          /\ UNCHANGED acctPast
       \/ /\ "mark" \in AccountFaults /\ acctPast.faults = {}
          /\ acctPast' = [acctPast EXCEPT !.faults = {"mark"}] /\ UNCHANGED invites
    /\ UNCHANGED <<users, api_tokens, ssh_keys, members, shown>>

\* The server dies; serve makes an admin again if there is no account at all.
ServeAgain ==
    /\ "crash" \in AccountFaults /\ acctPast.faults = {}
    /\ request' = [c \in Clients |-> Idle]
    /\ LET founds == users = {} /\ acctPast.accounts < MaxAccounts IN
       /\ users' = IF founds THEN {Root(acctPast.accounts + 1)} ELSE users
       /\ acctPast' = [acctPast EXCEPT !.faults = {"crash"},
              !.accounts = IF founds THEN @ + 1 ELSE @, !.alone = @ /\ ~ founds]
    /\ UNCHANGED <<api_tokens, ssh_keys, members, invites, shown>>

ClientStep(c) ==
    \/ Login(c) \/ CreateToken(c) \/ Authed(c)
    \/ ListUsers(c) \/ CreateUser(c) \/ DeletesUser(c) \/ SetsPassword(c)
    \/ CreateInvite(c) \/ RevokeInvite(c)
    \/ FindsMember(c) \/ AddMember(c) \/ RemoveMember(c)
    \/ Authenticate(c) \/ ChangePassword(c) \/ ChangeEmail(c)
    \/ RevokeToken(c) \/ AddSSHKey(c) \/ DeleteSSHKey(c)
    \/ RequireProject(c) \/ RequireProjectWrite(c) \/ Writes(c)
    \/ GetValidInvite(c) \/ Registers(c) \/ MarkInviteUsed(c)

AccountNext == (\E c \in Clients : ClientStep(c)) \/ ServeAgain

AccountSpec == AccountInit /\ [][AccountNext]_accountVars

--------------------------------
(***************************************************************************)
(* Properties.                                                             *)
(***************************************************************************)

\* Every variable has the shape its comment gives, and the UNIQUE columns are
\* (store/schema.sql).
AccountTypeOK ==
    /\ users \subseteq User /\ api_tokens \subseteq Token /\ ssh_keys \subseteq Key
    /\ members \subseteq Member /\ invites \subseteq Invite
    /\ shown \subseteq [id : Accounts, acct : Accounts]
    /\ \A u, v \in users : u.id = v.id \/ u.email = v.email => u = v
    /\ \A k, l \in ssh_keys : k.key = l.key => k = l
    /\ \A m, n \in members : m.uid = n.uid => m = n
    /\ \A c \in Clients : request[c].pc \in RequestPCs

\* Whoever deletes whom, an admin remains, unless two deleted each other at once.
AdminRemains == (\E u \in users : u.role = "admin") \/ acctPast.alone

\* Tokens, keys and memberships are of the account they were made for, although ids are
\* given again, unless it was deleted while a request about it was under way.
OwnersMatch ==
    \A x \in api_tokens \cup ssh_keys \cup members :
        \E u \in users : u.id = x.uid /\ (u.acct = x.acct \/ x.acct \in acctPast.crossed)

\* An invite makes one account, and none once it was revoked, unless two requests were at
\* it together or it could not be marked, the server having died or not.
InvitesOnce ==
    \A i \in 1 .. MaxRequests :
        acctPast.guests[i] > 1 => i \in acctPast.met \/ acctPast.faults # {}

\* Who writes to a project could at some moment of the request, but for a viewer that was
\* taken from the project, or whose account was deleted, between the two reads of the gate.
WritersCould ==
    \A c \in Clients :
        request[c].pc = "write" =>
            request[c].could \/ request[c].out \/ request[c].me.acct \in acctPast.crossed

\* Own changes need the own password, unless the account was deleted, or its address
\* changed and went to another, while the request was under way.
ChangesProved == acctPast.slips \subseteq acctPast.crossed \cup acctPast.moved

\* Accounts, and what belongs to them, are as the requests meant (auth.go, users.go,
\* ui_auth.go, store/users.go).
AccountsWhole == AdminRemains /\ OwnersMatch /\ InvitesOnce /\ WritersCould /\ ChangesProved

================================
