-------------------------- MODULE MembershipProofs --------------------------
(***************************************************************************)
(* What Membership guarantees for every number of requests, accounts,      *)
(* addresses and teams, under every fault.                                 *)
(***************************************************************************)
EXTENDS Membership, TLAPS

Creating(r) == pc[r] \in {"insert_team", "insert_owner", "commit"}
HasTeam(r) == pc[r] \in {"insert_owner", "commit"}
Inviting(r) == pc[r] \in {"find_team", "find_user", "add", "notify"}
MayInvite(r) == pc[r] \in {"find_user", "add", "notify"}

(***************************************************************************)
(* What a request has in hand where it is.                                 *)
(***************************************************************************)
InHand ==
    \A r \in Requests :
        /\ pc[r] = "insert_user" => op[r] = "register" /\ address[r] \in Emails
        /\ Creating(r) => op[r] = "create" /\ actor[r] \in Users
        /\ HasTeam(r) => team[r] \in Teams
        /\ Inviting(r) => /\ op[r] = "invite" /\ actor[r] \in Users
                          /\ team[r] \in Teams /\ address[r] \in Emails
        /\ pc[r] # "answered" => reply[r] = "none"

Typed == TypeOK /\ InHand

(***************************************************************************)
(* Ownership: a team without a row has nobody in it; the owner of a team   *)
(* with a row is its creator; a member was invited by the creator; two     *)
(* transactions never create the same team; whoever passed the role check  *)
(* is the creator, for nobody is an admin.                                 *)
(***************************************************************************)
Ownership ==
    /\ \A t \in Teams, u \in Users :
         /\ role[t][u] # "admin"
         /\ role[t][u] = "owner" => creator[t] = u
         /\ creator[t] = u => role[t][u] = "owner"
         /\ creator[t] = NoRow => role[t][u] = "none"
         /\ role[t][u] = "member" => inviter[t][u] = creator[t]
    /\ \A r \in Requests : HasTeam(r) => creator[team[r]] = NoRow
    /\ \A r, q \in Requests :
         HasTeam(r) /\ HasTeam(q) /\ team[r] = team[q] => r = q
    /\ \A r \in Requests : MayInvite(r) => creator[team[r]] = actor[r]

(***************************************************************************)
(* Mails: one request at most is about to write to a member, and only to   *)
(* one nobody has written to.                                              *)
(***************************************************************************)
Mailing ==
    /\ InvitedOnce
    /\ \A r \in Requests :
         pc[r] = "notify" => /\ role[team[r]][found[r]] = "member"
                             /\ mails[team[r]][found[r]] = 0
    /\ \A r, q \in Requests :
         /\ pc[r] = "notify" /\ pc[q] = "notify"
         /\ team[r] = team[q] /\ found[r] = found[q]
         => r = q

(***************************************************************************)
(* Answers: an address has one account; the account an invitation found is *)
(* the one of the address; every answer given is true and stays true.      *)
(***************************************************************************)
OneAccount ==
    \A u, v \in Users : email[u] # NoRow /\ email[u] = email[v] => u = v

Answer(r) ==
    /\ reply[r] = "ok" /\ op[r] = "register" =>
         found[r] \in Users /\ address[r] \in Emails /\ email[found[r]] = address[r]
    /\ reply[r] = "email_exists" => \E u \in Users : email[u] = address[r]
                                                     /\ address[r] \in Emails
    /\ reply[r] = "ok" /\ op[r] = "create" =>
         /\ team[r] \in Teams /\ actor[r] \in Users
         /\ role[team[r]][actor[r]] = "owner"
    /\ reply[r] = "ok" /\ op[r] = "invite" =>
         /\ team[r] \in Teams /\ found[r] \in Users /\ address[r] \in Emails
         /\ email[found[r]] = address[r]
         /\ role[team[r]][found[r]] = "member"
    /\ reply[r] = "already_member" =>
         /\ team[r] \in Teams /\ found[r] \in Users
         /\ role[team[r]][found[r]] # "none"

Answering ==
    /\ OneAccount
    /\ \A r \in Requests : pc[r] \in {"add", "notify"} => email[found[r]] = address[r]
    /\ \A r \in Requests : Answer(r)

LEMMA TypeInit == Init => Typed
BY NoRowAssumption DEF Init, Typed, TypeOK, InHand, Stages, Replies, Creating, HasTeam, Inviting

\* What AddMember does to the membership it inserts, point by point.
Joined(r) ==
    /\ team[r] \in Teams /\ found[r] \in Users /\ actor[r] \in Users /\ op[r] = "invite"
    /\ role' \in [Teams -> [Users -> Roles \cup {"none"}]]
    /\ inviter' \in [Teams -> [Users -> Users \cup {NoRow}]]
    /\ \A t \in Teams, u \in Users :
         /\ role'[t][u] = IF t = team[r] /\ u = found[r] THEN "member" ELSE role[t][u]
         /\ inviter'[t][u] = IF t = team[r] /\ u = found[r] THEN actor[r] ELSE inviter[t][u]
    /\ pc[r] = "add"
    /\ Executed(r, "notify")
    /\ UNCHANGED <<email, creator, mails, args, team, found>>

LEMMA Added ==
    ASSUME TypeOK, InHand, NEW r \in Requests, AddMember(r),
           role[team[r]][found[r]] = "none"
    PROVE  Joined(r)
<1>1. team[r] \in Teams /\ found[r] \in Users /\ actor[r] \in Users /\ op[r] = "invite"
  BY DEF TypeOK, InHand, AddMember, Inviting
<1>2. /\ role' = [role EXCEPT ![team[r]][found[r]] = "member"]
      /\ inviter' = [inviter EXCEPT ![team[r]][found[r]] = actor[r]]
      /\ Executed(r, "notify") /\ pc[r] = "add"
      /\ UNCHANGED <<email, creator, mails, args, team, found>>
  BY DEF AddMember
<1>3. /\ role' \in [Teams -> [Users -> Roles \cup {"none"}]]
      /\ inviter' \in [Teams -> [Users -> Users \cup {NoRow}]]
      /\ \A t \in Teams, u \in Users :
           /\ role'[t][u] = IF t = team[r] /\ u = found[r] THEN "member" ELSE role[t][u]
           /\ inviter'[t][u] = IF t = team[r] /\ u = found[r] THEN actor[r] ELSE inviter[t][u]
  BY <1>1, <1>2 DEF TypeOK, Roles
<1> QED
  BY <1>1, <1>2, <1>3 DEF Joined

\* A request that answers and changes nothing else.
LEMMA Answered ==
    ASSUME Typed, NEW r \in Requests, NEW x \in Replies, Finish(r, x),
           UNCHANGED <<tables, mails, args, team, found>>
    PROVE  Typed'
<1>1. /\ pc' = [pc EXCEPT ![r] = "answered"] /\ reply' = [reply EXCEPT ![r] = x]
      /\ UNCHANGED <<tables, mails, args, team, found>>
  BY DEF Finish
<1>2. TypeOK'
  BY <1>1 DEF Typed, TypeOK, Stages, tables, args
<1>3. \A q \in Requests : /\ q # r => pc'[q] = pc[q] /\ reply'[q] = reply[q]
                         /\ pc'[r] = "answered"
  BY <1>1 DEF Typed, TypeOK
<1>4. InHand'
  BY <1>1, <1>3 DEF Typed, InHand, Creating, HasTeam, Inviting, args
<1> QED
  BY <1>2, <1>4 DEF Typed

LEMMA TypeStep == Typed /\ [Next]_vars => Typed'
<1> SUFFICES ASSUME Typed, [Next]_vars PROVE Typed'
  OBVIOUS
<1> USE DEF Typed, TypeOK, InHand, Creating, HasTeam, Inviting, Stages, Replies, Roles
<1>1. ASSUME NEW r \in Requests, NEW e \in Emails, StartRegister(r, e)
      PROVE  Typed'
  BY <1>1 DEF StartRegister, Arrive, Goto, tables
<1>2. ASSUME NEW r \in Requests, NEW u \in Users, StartCreateTeam(r, u)
      PROVE  Typed'
  BY <1>2 DEF StartCreateTeam, Arrive, Goto, tables
<1>3. ASSUME NEW r \in Requests, NEW u \in Users, NEW t \in Teams, NEW e \in Emails,
             StartInvite(r, u, t, e)
      PROVE  Typed'
  BY <1>3 DEF StartInvite, Arrive, Goto, tables
<1>4. ASSUME NEW r \in Requests, InsertUser(r)
      PROVE  Typed'
  <2>1. CASE \E u \in Users : email[u] = address[r]
    <3>1. Finish(r, "email_exists") /\ UNCHANGED <<tables, mails, args, team, found>>
      BY <1>4, <2>1 DEF InsertUser, tables
    <3> QED
      BY <3>1, Answered
  <2>2. CASE ~\E u \in Users : email[u] = address[r]
    <3>1. PICK u \in Users : /\ email[u] = NoRow
                            /\ email' = [email EXCEPT ![u] = address[r]]
                            /\ found' = [found EXCEPT ![r] = u]
                            /\ ExecutedLast(r)
      BY <1>4, <2>2 DEF InsertUser
    <3>2. TypeOK'
      <4>1. email' \in [Users -> Emails \cup {NoRow}] /\ found' \in [Requests -> Users \cup {NoRow}]
        BY <1>4, <3>1 DEF InsertUser
      <4>2. \A q \in Requests : pc'[q] \in {"add", "notify"} => found'[q] \in Users
        BY <1>4, <3>1 DEF InsertUser, ExecutedLast, Finish
      <4>3. pc' \in [Requests -> Stages] /\ reply' \in [Requests -> Replies]
        BY <1>4, <3>1 DEF ExecutedLast, Finish
      <4> QED
        BY <1>4, <2>2, <4>1, <4>2, <4>3 DEF InsertUser, args
    <3>3. InHand'
      BY <1>4, <2>2, <3>1 DEF InsertUser, ExecutedLast, Finish, args
    <3> QED
      BY <3>2, <3>3
  <2> QED
    BY <2>1, <2>2
<1>5. ASSUME NEW r \in Requests, InsertTeam(r)
      PROVE  Typed'
  BY <1>5 DEF InsertTeam, FreeTeam, Goto, tables, args
<1>6. ASSUME NEW r \in Requests, InsertOwner(r)
      PROVE  Typed'
  BY <1>6 DEF InsertOwner, Goto, tables, args
<1>7. ASSUME NEW r \in Requests, CommitTeam(r)
      PROVE  Typed'
  <2>1. /\ pc' = [pc EXCEPT ![r] = "answered"]
        /\ reply' \in [Requests -> Replies]
        /\ \A q \in Requests \ {r} : reply'[q] = reply[q]
    BY <1>7 DEF CommitTeam, ExecutedLast, Finish
  <2>2. /\ creator' = [creator EXCEPT ![team[r]] = actor[r]]
        /\ role' = [role EXCEPT ![team[r]][actor[r]] = "owner"]
        /\ team[r] \in Teams /\ actor[r] \in Users
        /\ UNCHANGED <<email, inviter, mails, args, team, found>>
    BY <1>7 DEF CommitTeam
  <2>3. TypeOK'
    BY <2>1, <2>2 DEF args
  <2>4. InHand'
    BY <2>1, <2>2 DEF args
  <2> QED
    BY <2>3, <2>4
<1>8. ASSUME NEW r \in Requests, FindForMember(r)
      PROVE  Typed'
  <2>1. CASE role[team[r]][actor[r]] \in {"owner", "admin"}
    BY <1>8, <2>1 DEF FindForMember, Goto, tables, args
  <2>2. CASE role[team[r]][actor[r]] \notin {"owner", "admin"}
    BY <1>8, <2>2, Answered DEF FindForMember
  <2> QED
    BY <2>1, <2>2
<1>9. ASSUME NEW r \in Requests, FindByEmail(r)
      PROVE  Typed'
  <2>1. ASSUME NEW u \in Users, email[u] = address[r],
               found' = [found EXCEPT ![r] = u], Goto(r, "add")
        PROVE  Typed'
    BY <1>9, <2>1 DEF FindByEmail, Goto, tables, args
  <2>2. CASE Finish(r, "user_not_found") /\ UNCHANGED found
    BY <1>9, <2>2, Answered DEF FindByEmail
  <2> QED
    BY <1>9, <2>1, <2>2 DEF FindByEmail
<1>10. ASSUME NEW r \in Requests, AddMember(r)
      PROVE  Typed'
  <2>1. CASE role[team[r]][found[r]] # "none"
    <3>1. Finish(r, "already_member") /\ UNCHANGED <<tables, mails, args, team, found>>
      BY <1>10, <2>1 DEF AddMember, tables
    <3> QED
      BY <3>1, Answered
  <2>2. CASE role[team[r]][found[r]] = "none"
    <3>1. Joined(r)
      BY <1>10, <2>2, Added DEF Typed
    <3>2. CASE Goto(r, "notify")
      BY <2>2, <3>1, <3>2 DEF Joined, Goto, args
    <3>3. CASE Finish(r, "error")
      BY <2>2, <3>1, <3>3 DEF Joined, Finish, args
    <3> QED
      BY <3>1, <3>2, <3>3 DEF Joined, Executed
  <2> QED
    BY <2>1, <2>2
<1>11. ASSUME NEW r \in Requests, SendInvitation(r)
      PROVE  Typed'
  <2>1. CASE mails' = [mails EXCEPT ![team[r]][found[r]] = @ + 1]
    BY <1>11, <2>1 DEF SendInvitation, Finish, tables, args
  <2>2. CASE UNCHANGED mails
    BY <1>11, <2>2 DEF SendInvitation, Finish, tables, args
  <2> QED
    BY <1>11, <2>1, <2>2 DEF SendInvitation
<1>12. ASSUME NEW r \in Requests, Fail(r)
      PROVE  Typed'
  BY <1>12, Answered DEF Fail
<1>13. ASSUME NEW r \in Requests, Return(r)
      PROVE  Typed'
  BY <1>13 DEF Return, tables
<1>14. CASE Crash
  BY <1>14 DEF Crash, tables
<1>15. CASE UNCHANGED vars
  BY <1>15 DEF vars
<1> QED
  BY <1>1, <1>2, <1>3, <1>4, <1>5, <1>6, <1>7, <1>8, <1>9, <1>10,
     <1>11, <1>12, <1>13, <1>14, <1>15
     DEF Next, Step

LEMMA OwnershipInit == Init => Ownership
BY NoRowAssumption DEF Init, Ownership, HasTeam, MayInvite

LEMMA OwnershipStep == Typed /\ Ownership /\ [Next]_vars => Ownership'
<1> SUFFICES ASSUME Typed, Ownership, [Next]_vars PROVE Ownership'
  OBVIOUS
<1> USE DEF Typed, TypeOK, InHand, Ownership, Creating, HasTeam, Inviting, MayInvite, Roles
<1>1. ASSUME NEW r \in Requests, NEW e \in Emails, StartRegister(r, e)
      PROVE  Ownership'
  BY <1>1 DEF StartRegister, Arrive, Goto, tables
<1>2. ASSUME NEW r \in Requests, NEW u \in Users, StartCreateTeam(r, u)
      PROVE  Ownership'
  BY <1>2 DEF StartCreateTeam, Arrive, Goto, tables
<1>3. ASSUME NEW r \in Requests, NEW u \in Users, NEW t \in Teams, NEW e \in Emails,
             StartInvite(r, u, t, e)
      PROVE  Ownership'
  BY <1>3 DEF StartInvite, Arrive, Goto, tables
<1>4. ASSUME NEW r \in Requests, InsertUser(r)
      PROVE  Ownership'
  BY <1>4 DEF InsertUser, ExecutedLast, Finish, args
<1>5. ASSUME NEW r \in Requests, InsertTeam(r)
      PROVE  Ownership'
  BY <1>5 DEF InsertTeam, FreeTeam, Goto, tables, args
<1>6. ASSUME NEW r \in Requests, InsertOwner(r)
      PROVE  Ownership'
  BY <1>6 DEF InsertOwner, Goto, tables, args
<1>7. ASSUME NEW r \in Requests, CommitTeam(r)
      PROVE  Ownership'
  BY <1>7 DEF CommitTeam, ExecutedLast, Finish, args
<1>8. ASSUME NEW r \in Requests, FindForMember(r)
      PROVE  Ownership'
  <2>1. CASE role[team[r]][actor[r]] \in {"owner", "admin"}
    BY <1>8, <2>1 DEF FindForMember, Goto, tables, args
  <2>2. CASE role[team[r]][actor[r]] \notin {"owner", "admin"}
    <3>1. /\ pc' = [pc EXCEPT ![r] = "answered"] /\ pc[r] = "find_team"
          /\ UNCHANGED <<role, creator, inviter, team, actor>>
      BY <1>8, <2>2 DEF FindForMember, Finish, tables, args
    <3> QED
      BY <3>1
  <2> QED
    BY <2>1, <2>2
<1>9. ASSUME NEW r \in Requests, FindByEmail(r)
      PROVE  Ownership'
  <2>1. ASSUME NEW u \in Users, email[u] = address[r],
               found' = [found EXCEPT ![r] = u], Goto(r, "add")
        PROVE  Ownership'
    BY <1>9, <2>1 DEF FindByEmail, Goto, tables, args
  <2>2. CASE Finish(r, "user_not_found") /\ UNCHANGED found
    BY <1>9, <2>2 DEF FindByEmail, Finish, tables, args
  <2> QED
    BY <1>9, <2>1, <2>2 DEF FindByEmail
<1>10. ASSUME NEW r \in Requests, AddMember(r)
      PROVE  Ownership'
  <2>1. CASE role[team[r]][found[r]] # "none"
    BY <1>10, <2>1 DEF AddMember, Finish, args
  <2>2. CASE role[team[r]][found[r]] = "none"
    <3>1. Joined(r)
      BY <1>10, <2>2, Added DEF Typed
    <3>2. CASE Goto(r, "notify")
      BY <2>2, <3>1, <3>2 DEF Joined, Goto, args
    <3>3. CASE Finish(r, "error")
      <4>1. /\ pc' = [pc EXCEPT ![r] = "answered"] /\ UNCHANGED <<creator, actor, team>>
            /\ \A t \in Teams, u \in Users :
                 /\ role'[t][u] = IF t = team[r] /\ u = found[r] THEN "member" ELSE role[t][u]
                 /\ inviter'[t][u] = IF t = team[r] /\ u = found[r] THEN actor[r]
                                                                ELSE inviter[t][u]
            /\ pc[r] = "add" /\ creator[team[r]] = actor[r] /\ actor[r] \in Users
        BY <3>1, <3>3 DEF Joined, Finish, args
      <4> QED
        BY <2>2, <4>1, NoRowAssumption
    <3> QED
      BY <3>1, <3>2, <3>3 DEF Joined, Executed
  <2> QED
    BY <2>1, <2>2
<1>11. ASSUME NEW r \in Requests, SendInvitation(r)
      PROVE  Ownership'
  BY <1>11 DEF SendInvitation, Finish, tables, args
<1>12. ASSUME NEW r \in Requests, Fail(r)
      PROVE  Ownership'
  BY <1>12 DEF Fail, Finish, tables, args
<1>13. ASSUME NEW r \in Requests, Return(r)
      PROVE  Ownership'
  BY <1>13 DEF Return, tables
<1>14. CASE Crash
  BY <1>14 DEF Crash, tables
<1>15. CASE UNCHANGED vars
  BY <1>15 DEF vars
<1> QED
  BY <1>1, <1>2, <1>3, <1>4, <1>5, <1>6, <1>7, <1>8, <1>9, <1>10,
     <1>11, <1>12, <1>13, <1>14, <1>15
     DEF Next, Step

LEMMA MailingInit == Init => Mailing
BY DEF Init, Mailing, InvitedOnce

LEMMA MailingStep == Typed /\ Ownership /\ Mailing /\ [Next]_vars => Mailing'
<1> SUFFICES ASSUME Typed, Ownership, Mailing, [Next]_vars PROVE Mailing'
  OBVIOUS
<1> USE DEF Typed, TypeOK, InHand, Ownership, Creating, HasTeam, Inviting, MayInvite,
            Roles, Mailing, InvitedOnce
<1>1. ASSUME NEW r \in Requests, NEW e \in Emails, StartRegister(r, e)
      PROVE  Mailing'
  BY <1>1 DEF StartRegister, Arrive, Goto, tables
<1>2. ASSUME NEW r \in Requests, NEW u \in Users, StartCreateTeam(r, u)
      PROVE  Mailing'
  BY <1>2 DEF StartCreateTeam, Arrive, Goto, tables
<1>3. ASSUME NEW r \in Requests, NEW u \in Users, NEW t \in Teams, NEW e \in Emails,
             StartInvite(r, u, t, e)
      PROVE  Mailing'
  BY <1>3 DEF StartInvite, Arrive, Goto, tables
<1>4. ASSUME NEW r \in Requests, InsertUser(r)
      PROVE  Mailing'
  <2>1. CASE \E u \in Users : email[u] = address[r]
    <3>1. /\ pc' = [pc EXCEPT ![r] = "answered"] /\ pc[r] = "insert_user"
          /\ UNCHANGED <<role, inviter, mails, team, found>>
      BY <1>4, <2>1 DEF InsertUser, Finish, args
    <3> QED
      BY <3>1
  <2>2. CASE ~\E u \in Users : email[u] = address[r]
    <3>1. PICK u \in Users : /\ email[u] = NoRow
                            /\ email' = [email EXCEPT ![u] = address[r]]
                            /\ found' = [found EXCEPT ![r] = u]
                            /\ ExecutedLast(r)
      BY <1>4, <2>2 DEF InsertUser
    <3> QED
      BY <1>4, <2>2, <3>1 DEF InsertUser, ExecutedLast, Finish, args
  <2> QED
    BY <2>1, <2>2
<1>5. ASSUME NEW r \in Requests, InsertTeam(r)
      PROVE  Mailing'
  BY <1>5 DEF InsertTeam, FreeTeam, Goto, tables, args
<1>6. ASSUME NEW r \in Requests, InsertOwner(r)
      PROVE  Mailing'
  BY <1>6 DEF InsertOwner, Goto, tables, args
<1>7. ASSUME NEW r \in Requests, CommitTeam(r)
      PROVE  Mailing'
  BY <1>7 DEF CommitTeam, ExecutedLast, Finish, args
<1>8. ASSUME NEW r \in Requests, FindForMember(r)
      PROVE  Mailing'
  <2>1. CASE role[team[r]][actor[r]] \in {"owner", "admin"}
    BY <1>8, <2>1 DEF FindForMember, Goto, tables, args
  <2>2. CASE role[team[r]][actor[r]] \notin {"owner", "admin"}
    BY <1>8, <2>2 DEF FindForMember, Finish, tables, args
  <2> QED
    BY <2>1, <2>2
<1>9. ASSUME NEW r \in Requests, FindByEmail(r)
      PROVE  Mailing'
  <2>1. ASSUME NEW u \in Users, email[u] = address[r],
               found' = [found EXCEPT ![r] = u], Goto(r, "add")
        PROVE  Mailing'
    BY <1>9, <2>1 DEF FindByEmail, Goto, tables, args
  <2>2. CASE Finish(r, "user_not_found") /\ UNCHANGED found
    BY <1>9, <2>2 DEF FindByEmail, Finish, tables, args
  <2> QED
    BY <1>9, <2>1, <2>2 DEF FindByEmail
<1>10. ASSUME NEW r \in Requests, AddMember(r)
      PROVE  Mailing'
  <2>1. CASE role[team[r]][found[r]] # "none"
    BY <1>10, <2>1 DEF AddMember, Finish, args
  <2>2. CASE role[team[r]][found[r]] = "none"
    <3>1. Joined(r)
      BY <1>10, <2>2, Added DEF Typed
    <3>2. CASE Goto(r, "notify")
      BY <2>2, <3>1, <3>2 DEF Joined, Goto, args
    <3>3. CASE Finish(r, "error")
      BY <2>2, <3>1, <3>3 DEF Joined, Finish, args
    <3> QED
      BY <3>1, <3>2, <3>3 DEF Joined, Executed
  <2> QED
    BY <2>1, <2>2
<1>11. ASSUME NEW r \in Requests, SendInvitation(r)
      PROVE  Mailing'
  <2>1. CASE mails' = [mails EXCEPT ![team[r]][found[r]] = @ + 1]
    BY <1>11, <2>1 DEF SendInvitation, Finish, tables, args
  <2>2. CASE UNCHANGED mails
    BY <1>11, <2>2 DEF SendInvitation, Finish, tables, args
  <2> QED
    BY <1>11, <2>1, <2>2 DEF SendInvitation
<1>12. ASSUME NEW r \in Requests, Fail(r)
      PROVE  Mailing'
  BY <1>12 DEF Fail, Finish, tables, args
<1>13. ASSUME NEW r \in Requests, Return(r)
      PROVE  Mailing'
  BY <1>13 DEF Return, tables
<1>14. CASE Crash
  BY <1>14 DEF Crash, tables
<1>15. CASE UNCHANGED vars
  BY <1>15 DEF vars
<1> QED
  BY <1>1, <1>2, <1>3, <1>4, <1>5, <1>6, <1>7, <1>8, <1>9, <1>10,
     <1>11, <1>12, <1>13, <1>14, <1>15
     DEF Next, Step

LEMMA AnsweringInit == Init => Answering
BY DEF Init, Answering, OneAccount, Answer

\* An answer given stays true when roles are only added.
LEMMA AnswerStays ==
    ASSUME NEW q \in Requests, Answer(q),
           reply'[q] = reply[q], op'[q] = op[q], team'[q] = team[q],
           actor'[q] = actor[q], found'[q] = found[q], address'[q] = address[q],
           email' = email,
           \A t \in Teams, u \in Users : role[t][u] # "none" => role'[t][u] = role[t][u]
    PROVE  Answer(q)'
BY DEF Answer

LEMMA AnsweringStep == Typed /\ Ownership /\ Mailing /\ Answering /\ [Next]_vars => Answering'
<1> SUFFICES ASSUME Typed, Ownership, Mailing, Answering, [Next]_vars PROVE Answering'
  OBVIOUS
<1> USE DEF Typed, TypeOK, InHand, Ownership, Creating, HasTeam, Inviting, MayInvite,
            Roles, Mailing, Answering, OneAccount, Answer
<1>1. ASSUME NEW r \in Requests, NEW e \in Emails, StartRegister(r, e)
      PROVE  Answering'
  BY <1>1 DEF StartRegister, Arrive, Goto, tables
<1>2. ASSUME NEW r \in Requests, NEW u \in Users, StartCreateTeam(r, u)
      PROVE  Answering'
  BY <1>2 DEF StartCreateTeam, Arrive, Goto, tables
<1>3. ASSUME NEW r \in Requests, NEW u \in Users, NEW t \in Teams, NEW e \in Emails,
             StartInvite(r, u, t, e)
      PROVE  Answering'
  BY <1>3 DEF StartInvite, Arrive, Goto, tables
<1>4. ASSUME NEW r \in Requests, InsertUser(r)
      PROVE  Answering'
  <2>1. CASE \E u \in Users : email[u] = address[r]
    BY <1>4, <2>1 DEF InsertUser, Finish, args
  <2>2. CASE ~\E u \in Users : email[u] = address[r]
    <3>1. PICK u \in Users : /\ email[u] = NoRow
                            /\ email' = [email EXCEPT ![u] = address[r]]
                            /\ found' = [found EXCEPT ![r] = u]
                            /\ ExecutedLast(r)
      BY <1>4, <2>2 DEF InsertUser
    <3> QED
      BY <1>4, <2>2, <3>1, NoRowAssumption DEF InsertUser, ExecutedLast, Finish, args
  <2> QED
    BY <2>1, <2>2
<1>5. ASSUME NEW r \in Requests, InsertTeam(r)
      PROVE  Answering'
  BY <1>5 DEF InsertTeam, FreeTeam, Goto, tables, args
<1>6. ASSUME NEW r \in Requests, InsertOwner(r)
      PROVE  Answering'
  BY <1>6 DEF InsertOwner, Goto, tables, args
<1>7. ASSUME NEW r \in Requests, CommitTeam(r)
      PROVE  Answering'
  BY <1>7 DEF CommitTeam, ExecutedLast, Finish, args
<1>8. ASSUME NEW r \in Requests, FindForMember(r)
      PROVE  Answering'
  BY <1>8 DEF FindForMember, Goto, Finish, tables, args
<1>9. ASSUME NEW r \in Requests, FindByEmail(r)
      PROVE  Answering'
  <2>1. ASSUME NEW u \in Users, email[u] = address[r],
               found' = [found EXCEPT ![r] = u], Goto(r, "add")
        PROVE  Answering'
    BY <1>9, <2>1 DEF FindByEmail, Goto, tables, args
  <2>2. CASE Finish(r, "user_not_found") /\ UNCHANGED found
    BY <1>9, <2>2 DEF FindByEmail, Finish, tables, args
  <2> QED
    BY <1>9, <2>1, <2>2 DEF FindByEmail
<1>10. ASSUME NEW r \in Requests, AddMember(r)
      PROVE  Answering'
  <2>1. CASE role[team[r]][found[r]] # "none"
    BY <1>10, <2>1 DEF AddMember, Finish, args
  <2>2. CASE role[team[r]][found[r]] = "none"
    <3>1. Joined(r)
      BY <1>10, <2>2, Added DEF Typed
    <3>2. CASE Goto(r, "notify")
      <4>1. OneAccount'
        BY <3>1 DEF Joined
      <4>2. \A q \in Requests : pc'[q] \in {"add", "notify"} => email'[found'[q]] = address'[q]
        BY <3>1, <3>2 DEF Joined, Goto, args
      <4>3. ASSUME NEW q \in Requests PROVE Answer(q)'
        <5>1. /\ reply'[q] = reply[q] /\ op'[q] = op[q] /\ team'[q] = team[q]
              /\ actor'[q] = actor[q] /\ found'[q] = found[q]
              /\ address'[q] = address[q] /\ email' = email
          BY <3>1, <3>2 DEF Joined, Goto, args
        <5>2. \A t \in Teams, u \in Users :
                role[t][u] # "none" => role'[t][u] = role[t][u]
          BY <2>2, <3>1 DEF Joined
        <5> QED
          BY <5>1, <5>2, AnswerStays
      <4> QED
        BY <4>1, <4>2, <4>3
    <3>3. CASE Finish(r, "error")
      BY <2>2, <3>1, <3>3 DEF Joined, Finish, args
    <3> QED
      BY <3>1, <3>2, <3>3 DEF Joined, Executed
  <2> QED
    BY <2>1, <2>2
<1>11. ASSUME NEW r \in Requests, SendInvitation(r)
      PROVE  Answering'
  BY <1>11 DEF SendInvitation, Finish, tables, args
<1>12. ASSUME NEW r \in Requests, Fail(r)
      PROVE  Answering'
  BY <1>12 DEF Fail, Finish, tables, args
<1>13. ASSUME NEW r \in Requests, Return(r)
      PROVE  Answering'
  BY <1>13 DEF Return, tables
<1>14. CASE Crash
  BY <1>14 DEF Crash, tables
<1>15. CASE UNCHANGED vars
  BY <1>15 DEF vars
<1> QED
  BY <1>1, <1>2, <1>3, <1>4, <1>5, <1>6, <1>7, <1>8, <1>9, <1>10,
     <1>11, <1>12, <1>13, <1>14, <1>15
     DEF Next, Step

\* Only AddMember and CommitTeam write a role, each where there was none.
LEMMA RolesStep ==
    ASSUME Typed, Ownership, [Next]_vars, NEW t \in Teams, NEW u \in Users,
           role[t][u] # "none"
    PROVE  role'[t][u] = role[t][u]
<1>1. ASSUME NEW r \in Requests, AddMember(r)
      PROVE  role'[t][u] = role[t][u]
  <2>1. CASE role[team[r]][found[r]] # "none"
    BY <1>1, <2>1 DEF AddMember
  <2>2. CASE role[team[r]][found[r]] = "none"
    BY <1>1, <2>2, Added DEF Typed, Joined
  <2> QED
    BY <2>1, <2>2
<1>2. ASSUME NEW r \in Requests, CommitTeam(r)
      PROVE  role'[t][u] = role[t][u]
  <2>1. team[r] \in Teams /\ actor[r] \in Users /\ role[team[r]][actor[r]] = "none"
    BY <1>2 DEF CommitTeam, Typed, InHand, Ownership, HasTeam, Creating
  <2>2. role' = [role EXCEPT ![team[r]][actor[r]] = "owner"]
    BY <1>2 DEF CommitTeam
  <2> QED
    BY <2>1, <2>2 DEF Typed, TypeOK
<1>3. CASE UNCHANGED role
  BY <1>3
<1> QED
  BY <1>1, <1>2, <1>3
     DEF Next, Step, vars, tables, StartRegister, StartCreateTeam, StartInvite, Arrive,
         InsertUser, InsertTeam, InsertOwner, FindForMember, FindByEmail,
         SendInvitation, Fail, Return, Crash

(***************************************************************************)
(* The four parts of the inductive invariant hold in every reachable state *)
(* of Membership.                                                          *)
(***************************************************************************)
THEOREM Invariance == Spec => [](Typed /\ Ownership /\ Mailing /\ Answering)
<1>1. Init => Typed /\ Ownership /\ Mailing /\ Answering
  BY TypeInit, OwnershipInit, MailingInit, AnsweringInit
<1>2. Typed /\ Ownership /\ Mailing /\ Answering /\ [Next]_vars
        => (Typed /\ Ownership /\ Mailing /\ Answering)'
  BY TypeStep, OwnershipStep, MailingStep, AnsweringStep
<1> QED
  BY <1>1, <1>2, PTL DEF Spec

(***************************************************************************)
(* Every variable of Membership keeps its type, and a request that is      *)
(* about to add or notify somebody has found an account.                   *)
(***************************************************************************)
THEOREM TypeCorrect == Spec => []TypeOK
<1>1. Typed => TypeOK
  BY DEF Typed
<1> QED
  BY <1>1, Invariance, PTL

(***************************************************************************)
(* CreateWithOwner and Invite leave every team with its creator as its     *)
(* only owner, in every interleaving and under every fault.                *)
(***************************************************************************)
THEOREM OneOwner == Spec => []SoleOwner
<1>1. Typed /\ Ownership => SoleOwner
  <2> SUFFICES ASSUME Typed, Ownership, NEW t \in Teams
               PROVE  {u \in Users : role[t][u] = "owner"} = {creator[t]} \ {NoRow}
    BY DEF SoleOwner
  <2>1. creator[t] \in Users \cup {NoRow}
    BY DEF Typed, TypeOK
  <2>2. \A u \in Users : role[t][u] = "owner" <=> creator[t] = u
    BY DEF Ownership
  <2> QED
    BY <2>1, <2>2, NoRowAssumption
<1> QED
  BY <1>1, Invariance, PTL

(***************************************************************************)
(* No request changes or removes a role somebody has.                      *)
(***************************************************************************)
THEOREM RolesStay == Spec => RolesNeverChange
<1>1. Typed /\ Ownership /\ [Next]_vars =>
        [\A t \in Teams, u \in Users :
            role[t][u] # "none" => role'[t][u] = role[t][u]]_vars
  BY RolesStep
<1> QED
  BY <1>1, Invariance, PTL DEF Spec, RolesNeverChange

(***************************************************************************)
(* Any number of concurrent invitations of one user into one team send at  *)
(* most one e-mail, to a member.                                           *)
(***************************************************************************)
THEOREM OneMail == Spec => []InvitedOnce
<1>1. Mailing => InvitedOnce
  BY DEF Mailing
<1> QED
  BY <1>1, Invariance, PTL

(***************************************************************************)
(* Every member who is not the creator of the team was invited by the      *)
(* creator.                                                                *)
(***************************************************************************)
THEOREM CreatorInvites == Spec => []OnlyTheCreatorInvites
<1>1. Typed /\ Ownership => OnlyTheCreatorInvites
  BY DEF Ownership, OnlyTheCreatorInvites
<1> QED
  BY <1>1, Invariance, PTL

(***************************************************************************)
(* What clients are told of accounts, teams and members is true when they  *)
(* are told, and stays true until the answer is delivered.                 *)
(***************************************************************************)
THEOREM TrueReplies == Spec => []RepliesAreTrue
<1>1. Typed /\ Answering => RepliesAreTrue
  <2> SUFFICES ASSUME Typed, Answering, NEW r \in Requests
               PROVE  /\ reply[r] = "ok" /\ op[r] = "register" =>
                           {u \in Users : email[u] = address[r]} = {found[r]}
                      /\ Answer(r)
    BY DEF RepliesAreTrue, Answering, Answer
  <2>1. Answer(r)
    BY DEF Answering
  <2>2. ASSUME reply[r] = "ok", op[r] = "register"
        PROVE  {u \in Users : email[u] = address[r]} = {found[r]}
    BY <2>1, <2>2, NoRowAssumption DEF Answer, Answering, OneAccount
  <2> QED
    BY <2>1, <2>2
<1> QED
  BY <1>1, Invariance, PTL
=============================================================================
