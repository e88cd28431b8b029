----------------------------- MODULE Membership -----------------------------
(***************************************************************************)
(* Accounts, teams and invitations: internal/usecase/auth/auth.go          *)
(* (Register) and internal/usecase/team/team.go (Create, Invite) over the  *)
(* repositories of users and teams, for any number of concurrent requests. *)
(*                                                                         *)
(* Invite reads the inviter's role, finds the invited account, inserts the *)
(* membership and sends an e-mail, without a transaction around the four;  *)
(* Create inserts a team and its owner in one transaction.  What makes     *)
(* concurrent requests agree is in the schema: the unique key of users     *)
(* (email), the primary key (team_id, user_id) of team_members, and that   *)
(* no statement deletes a row or changes a role.                           *)
(*                                                                         *)
(* Abstracted: names and passwords; texts that TrimSpace and ToLower make  *)
(* equal are one e-mail address, for Register and Invite alike.  Requests  *)
(* rejected before their first statement do not appear.                    *)
(***************************************************************************)
EXTENDS Naturals

CONSTANTS
    Requests,   \* slots in which HTTP requests are served, of any replica
    Users,      \* the account ids there is room for
    Emails,
    Teams,      \* the team ids there is room for
    NoRow,      \* an id without a row
    Faults      \* subset of FaultKinds

(***************************************************************************)
(*  "db"       a statement or a COMMIT fails                               *)
(*  "unknown"  a statement or COMMIT is executed, its answer is lost       *)
(*  "mail"     the invitation is not sent: the mail service or its breaker *)
(*  "crash"    the processes stop                                          *)
(***************************************************************************)
FaultKinds == {"db", "unknown", "mail", "crash"}

ASSUME FaultAssumption == Faults \subseteq FaultKinds
ASSUME NoRowAssumption == NoRow \notin Users /\ NoRow \notin Emails

VARIABLES
    email,      \* [Users -> Emails \cup {NoRow}], the committed rows of users
    creator,    \* [Teams -> Users \cup {NoRow}], teams: created_by
    role,       \* [Teams -> [Users -> Roles \cup {"none"}]], team_members
    inviter,    \* [Teams -> [Users -> Users \cup {NoRow}]], on whose request
                \* a membership was inserted (in no table)
    mails,      \* [Teams -> [Users -> Nat]], invitations sent
    pc,         \* where each request is
    op,         \* "register", "create" or "invite"
    actor,      \* the user its token names
    address,    \* the e-mail address in its body
    team,       \* the team it is about
    found,      \* the account it registered or invites
    reply       \* the outcome sent to the client

tables == <<email, creator, role, inviter>>
args == <<op, actor, address>>
vars == <<email, creator, role, inviter, mails, pc, op, actor, address, team,
          found, reply>>

\* No statement gives anyone the role "admin", which the schema admits.
Roles == {"owner", "admin", "member"}

Stages == {"idle", "insert_user", "insert_team", "insert_owner", "commit",
           "find_team", "find_user", "add", "notify", "answered"}

Replies == {"none", "ok", "email_exists", "forbidden", "user_not_found",
            "already_member", "error"}

Init ==
    /\ email = [u \in Users |-> NoRow]
    /\ creator = [t \in Teams |-> NoRow]
    /\ role = [t \in Teams |-> [u \in Users |-> "none"]]
    /\ inviter = [t \in Teams |-> [u \in Users |-> NoRow]]
    /\ mails = [t \in Teams |-> [u \in Users |-> 0]]
    /\ pc = [r \in Requests |-> "idle"]
    /\ op = [r \in Requests |-> "register"]
    /\ actor = [r \in Requests |-> NoRow]
    /\ address = [r \in Requests |-> NoRow]
    /\ team = [r \in Requests |-> NoRow]
    /\ found = [r \in Requests |-> NoRow]
    /\ reply = [r \in Requests |-> "none"]

Finish(r, outcome) ==
    /\ pc' = [pc EXCEPT ![r] = "answered"]
    /\ reply' = [reply EXCEPT ![r] = outcome]

Goto(r, stage) ==
    /\ pc' = [pc EXCEPT ![r] = stage]
    /\ UNCHANGED reply

\* What follows a statement that was executed: the next stage, or the error
\* of a lost answer.
Executed(r, stage) ==
    \/ Goto(r, stage)
    \/ "unknown" \in Faults /\ Finish(r, "error")

ExecutedLast(r) ==
    \/ Finish(r, "ok")
    \/ "unknown" \in Faults /\ Finish(r, "error")

\* A request arrives: its operation, the user its token names, its body.
Arrive(r, operation, u, e, t, stage) ==
    /\ pc[r] = "idle"
    /\ op' = [op EXCEPT ![r] = operation]
    /\ actor' = [actor EXCEPT ![r] = u]
    /\ address' = [address EXCEPT ![r] = e]
    /\ team' = [team EXCEPT ![r] = t]
    /\ Goto(r, stage)
    /\ UNCHANGED <<tables, mails, found>>
-----------------------------------------------------------------------------
StartRegister(r, e) == Arrive(r, "register", NoRow, e, NoRow, "insert_user")

\* UserRepository.Create: the unique key decides between two registrations.
InsertUser(r) ==
    /\ pc[r] = "insert_user"
    /\ IF \E u \in Users : email[u] = address[r]
       THEN Finish(r, "email_exists") /\ UNCHANGED <<email, found>>
       ELSE \E u \in Users :
              /\ email[u] = NoRow
              /\ email' = [email EXCEPT ![u] = address[r]]
              /\ found' = [found EXCEPT ![r] = u]
              /\ ExecutedLast(r)
    /\ UNCHANGED <<creator, role, inviter, mails, args, team>>
-----------------------------------------------------------------------------
StartCreateTeam(r, u) == Arrive(r, "create", u, NoRow, NoRow, "insert_team")

\* Ids without a row that no open transaction has taken.
FreeTeam(t) ==
    /\ creator[t] = NoRow
    /\ \A q \in Requests : pc[q] \in {"insert_owner", "commit"} => team[q] # t

\* Mutant: the team is inserted through r.db, outside the transaction.
InsertTeam_OutsideTx(r) ==
    /\ pc[r] = "insert_team"
    /\ \E t \in Teams :
         /\ FreeTeam(t)
         /\ creator' = [creator EXCEPT ![t] = actor[r]]
         /\ team' = [team EXCEPT ![r] = t]
    /\ Goto(r, "insert_owner")
    /\ UNCHANGED <<email, role, inviter, mails, args, found>>

\* BeginTx and INSERT INTO teams, seen by this transaction alone.
InsertTeam(r) ==
    /\ pc[r] = "insert_team"
    /\ \E t \in Teams : FreeTeam(t) /\ team' = [team EXCEPT ![r] = t]
    /\ Goto(r, "insert_owner")
    /\ UNCHANGED <<tables, mails, args, found>>

\* INSERT INTO team_members, seen by this transaction alone.
InsertOwner(r) ==
    /\ pc[r] = "insert_owner"
    /\ Goto(r, "commit")
    /\ UNCHANGED <<tables, mails, args, team, found>>

\* Mutant: the error of Commit is not looked at.
CommitTeam_ErrorIgnored(r) ==
    /\ pc[r] = "commit"
    /\ \/ /\ creator' = [creator EXCEPT ![team[r]] = actor[r]]
          /\ role' = [role EXCEPT ![team[r]][actor[r]] = "owner"]
       \/ "db" \in Faults /\ UNCHANGED <<creator, role>>
    /\ Finish(r, "ok")
    /\ UNCHANGED <<email, inviter, mails, args, team, found>>

CommitTeam(r) ==
    /\ pc[r] = "commit"
    /\ creator' = [creator EXCEPT ![team[r]] = actor[r]]
    /\ role' = [role EXCEPT ![team[r]][actor[r]] = "owner"]
    /\ ExecutedLast(r)
    /\ UNCHANGED <<email, inviter, mails, args, team, found>>
-----------------------------------------------------------------------------
StartInvite(r, u, t, e) == Arrive(r, "invite", u, e, t, "find_team")

\* Mutant: every member may invite.
FindForMember_AnyRole(r) ==
    /\ pc[r] = "find_team"
    /\ IF role[team[r]][actor[r]] \in Roles
       THEN Goto(r, "find_user") ELSE Finish(r, "forbidden")
    /\ UNCHANGED <<tables, mails, args, team, found>>

\* FindForMember, and the check of the role it returns.
FindForMember(r) ==
    /\ pc[r] = "find_team"
    /\ IF role[team[r]][actor[r]] \in {"owner", "admin"}
       THEN Goto(r, "find_user") ELSE Finish(r, "forbidden")
    /\ UNCHANGED <<tables, mails, args, team, found>>

FindByEmail(r) ==
    /\ pc[r] = "find_user"
    /\ \/ \E u \in Users :
            /\ email[u] = address[r]
            /\ found' = [found EXCEPT ![r] = u]
            /\ Goto(r, "add")
       \/ /\ \A u \in Users : email[u] # address[r]
          /\ Finish(r, "user_not_found")
          /\ UNCHANGED found
    /\ UNCHANGED <<tables, mails, args, team>>

\* Mutant: INSERT ... ON DUPLICATE KEY UPDATE role.
AddMember_Upsert(r) ==
    /\ pc[r] = "add"
    /\ role' = [role EXCEPT ![team[r]][found[r]] = "member"]
    /\ inviter' = [inviter EXCEPT ![team[r]][found[r]] = actor[r]]
    /\ Executed(r, "notify")
    /\ UNCHANGED <<email, creator, mails, args, team, found>>

\* Mutant: a duplicate key is taken for a success.
AddMember_DuplicateIgnored(r) ==
    /\ pc[r] = "add"
    /\ IF role[team[r]][found[r]] # "none"
       THEN Goto(r, "notify") /\ UNCHANGED <<role, inviter>>
       ELSE /\ role' = [role EXCEPT ![team[r]][found[r]] = "member"]
            /\ inviter' = [inviter EXCEPT ![team[r]][found[r]] = actor[r]]
            /\ Executed(r, "notify")
    /\ UNCHANGED <<email, creator, mails, args, team, found>>

\* The primary key decides between two invitations of one user.
AddMember(r) ==
    /\ pc[r] = "add"
    /\ IF role[team[r]][found[r]] # "none"
       THEN Finish(r, "already_member") /\ UNCHANGED <<role, inviter>>
       ELSE /\ role' = [role EXCEPT ![team[r]][found[r]] = "member"]
            /\ inviter' = [inviter EXCEPT ![team[r]][found[r]] = actor[r]]
            /\ Executed(r, "notify")
    /\ UNCHANGED <<email, creator, mails, args, team, found>>

\* SendInvitation, tried once; Invite logs its error and succeeds.
SendInvitation(r) ==
    /\ pc[r] = "notify"
    /\ \/ mails' = [mails EXCEPT ![team[r]][found[r]] = @ + 1]
       \/ "mail" \in Faults /\ UNCHANGED mails
    /\ Finish(r, "ok")
    /\ UNCHANGED <<tables, args, team, found>>
-----------------------------------------------------------------------------
\* A statement or COMMIT fails; an open transaction is rolled back.
Fail(r) ==
    /\ "db" \in Faults
    /\ pc[r] \notin {"idle", "notify", "answered"}
    /\ Finish(r, "error")
    /\ UNCHANGED <<tables, mails, args, team, found>>

\* The slot is free again.
Return(r) ==
    /\ pc[r] = "answered"
    /\ pc' = [pc EXCEPT ![r] = "idle"]
    /\ op' = [op EXCEPT ![r] = "register"]
    /\ actor' = [actor EXCEPT ![r] = NoRow]
    /\ address' = [address EXCEPT ![r] = NoRow]
    /\ team' = [team EXCEPT ![r] = NoRow]
    /\ found' = [found EXCEPT ![r] = NoRow]
    /\ reply' = [reply EXCEPT ![r] = "none"]
    /\ UNCHANGED <<tables, mails>>

Crash ==
    /\ "crash" \in Faults
    /\ pc' = [r \in Requests |-> "idle"]
    /\ op' = [r \in Requests |-> "register"]
    /\ actor' = [r \in Requests |-> NoRow]
    /\ address' = [r \in Requests |-> NoRow]
    /\ team' = [r \in Requests |-> NoRow]
    /\ found' = [r \in Requests |-> NoRow]
    /\ reply' = [r \in Requests |-> "none"]
    /\ UNCHANGED <<tables, mails>>

Step(r) ==
    \/ InsertUser(r)
    \/ InsertTeam(r) \/ InsertOwner(r) \/ CommitTeam(r)
    \/ FindForMember(r) \/ FindByEmail(r) \/ AddMember(r) \/ SendInvitation(r)
    \/ Fail(r) \/ Return(r)

\* A token names an account that exists: accounts are not deleted.
Next ==
    \/ \E r \in Requests :
         \/ \E e \in Emails : StartRegister(r, e)
         \/ \E u \in {v \in Users : email[v] # NoRow} :
              \/ StartCreateTeam(r, u)
              \/ \E t \in Teams, e \in Emails : StartInvite(r, u, t, e)
         \/ Step(r)
    \/ Crash

Spec == Init /\ [][Next]_vars
-----------------------------------------------------------------------------
TypeOK ==
    /\ email \in [Users -> Emails \cup {NoRow}]
    /\ creator \in [Teams -> Users \cup {NoRow}]
    /\ role \in [Teams -> [Users -> Roles \cup {"none"}]]
    /\ inviter \in [Teams -> [Users -> Users \cup {NoRow}]]
    /\ mails \in [Teams -> [Users -> Nat]]
    /\ pc \in [Requests -> Stages]
    /\ op \in [Requests -> {"register", "create", "invite"}]
    /\ actor \in [Requests -> Users \cup {NoRow}]
    /\ address \in [Requests -> Emails \cup {NoRow}]
    /\ team \in [Requests -> Teams \cup {NoRow}]
    /\ found \in [Requests -> Users \cup {NoRow}]
    /\ reply \in [Requests -> Replies]
    /\ \A r \in Requests : pc[r] \in {"add", "notify"} => found[r] \in Users

(***************************************************************************)
(* A team has one owner, the user who created it, from the moment it       *)
(* exists: a creation that stops half-way leaves neither a team without an *)
(* owner nor an owner without a team, and no invitation adds or removes    *)
(* one.                                                                    *)
(***************************************************************************)
SoleOwner ==
    \A t \in Teams :
        {u \in Users : role[t][u] = "owner"} = {creator[t]} \ {NoRow}

(***************************************************************************)
(* A role, once given, stays: inviting somebody who is in the team already *)
(* (its owner, oneself, a member invited at the same time) changes         *)
(* nothing.                                                                *)
(***************************************************************************)
RolesNeverChange ==
    [][\A t \in Teams, u \in Users :
          role[t][u] # "none" => role'[t][u] = role[t][u]]_vars

(***************************************************************************)
(* However many requests invite the same user at the same time, and        *)
(* whatever is retried after a lost answer, the user gets at most one      *)
(* e-mail about a team, and none about a team without being a member.      *)
(***************************************************************************)
InvitedOnce ==
    \A t \in Teams, u \in Users :
        /\ mails[t][u] <= 1
        /\ mails[t][u] > 0 => role[t][u] = "member"

(***************************************************************************)
(* Every member of a team was brought in by the user who created it: a     *)
(* member's own invitations are refused, though the role is read two       *)
(* statements before it is used.                                           *)
(***************************************************************************)
OnlyTheCreatorInvites ==
    \A t \in Teams, u \in Users :
        role[t][u] = "member" => inviter[t][u] = creator[t] /\ creator[t] # u

(***************************************************************************)
(* What a client is told is so: a registered address has one account, the  *)
(* one reported; a created team has its owner; an invited user and one     *)
(* said to be a member are members; nothing another request does takes     *)
(* that away.                                                              *)
(***************************************************************************)
RepliesAreTrue ==
    \A r \in Requests :
        /\ reply[r] = "ok" /\ op[r] = "register" =>
             {u \in Users : email[u] = address[r]} = {found[r]}
        /\ reply[r] = "email_exists" => \E u \in Users : email[u] = address[r]
        /\ reply[r] = "ok" /\ op[r] = "create" => role[team[r]][actor[r]] = "owner"
        /\ reply[r] = "ok" /\ op[r] = "invite" =>
             /\ email[found[r]] = address[r]
             /\ role[team[r]][found[r]] = "member"
        /\ reply[r] = "already_member" => role[team[r]][found[r]] # "none"
=============================================================================
