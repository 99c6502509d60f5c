------------------------------ MODULE Accounts ------------------------------
(***************************************************************************)
(* How accounts come about: self-registration, creation and change of the  *)
(* address by an admin, invitations (api/auth.py, api/users.py) and OAuth  *)
(* sign-ins (api/oauth.py).  An account is found by a hash of its address; *)
(* rows of before the key was configured carry a legacy hash until their   *)
(* owner signs in.  Each request checks first and writes later; what keeps *)
(* two requests apart is the unique email_hash, the unique open invitation *)
(* of an address and the row lock of an invitation (models.py).            *)
(***************************************************************************)
EXTENDS Integers, FiniteSets

CONSTANTS Persons,          \* addresses
          Rows,             \* rows of users
          Invites,          \* rows of user_invites
          Callers,
          MaxForms          \* bound: requests

ASSUME AccountsAssumption == Persons # {} /\ "none" \notin Rows \cup Invites

VARIABLES users,            \* [email, hash, by, password]: by is the invitation it came from
          invites,          \* [email, used, expired]
          links,            \* oauth_accounts: each row's person at the provider and user
          caller,           \* [at, e, row, invite]
          forms

accountVars == <<users, invites, links, caller, forms>>

NoUser == [email |-> "none", hash |-> "none", by |-> "none", password |-> FALSE]
NoInvite == [email |-> "none", used |-> FALSE, expired |-> FALSE]
NoCaller == [at |-> "idle", e |-> "none", row |-> "none", invite |-> "none"]

Taken == {u \in Rows : users[u] # NoUser}
Found(e, hashes) == {u \in Taken : users[u].email = e /\ users[u].hash \in hashes}

\* At most one legacy row to begin with.
AccountsInit ==
    /\ LET first == CHOOSE u \in Rows : TRUE
           old == [email |-> CHOOSE e \in Persons : TRUE, hash |-> "legacy", by |-> "none", password |-> TRUE]
       IN users \in {[u \in Rows |-> NoUser], [u \in Rows |-> IF u = first THEN old ELSE NoUser]}
    /\ invites = [i \in Invites |-> NoInvite] /\ links = {}
    /\ caller = [c \in Callers |-> NoCaller] /\ forms = 0

Form(c) == caller[c].at = "idle" /\ forms < MaxForms /\ forms' = forms + 1
Wait(c, f) == caller' = [caller EXCEPT ![c] = f]
Asks(c, at, e) == Wait(c, [NoCaller EXCEPT !.at = at, !.e = e])
\* Slip: the hash is indexed, but the index is not unique.
OnlyIndexed(e, u) == TRUE

\* Else an IntegrityError of the unique email_hash: nothing is written.
Unique(e, u) == Found(e, {"keyed"}) \ {u} = {}
NewRow == CHOOSE u \in Rows : u \notin Taken
Add(row) == Taken # Rows /\ users' = [users EXCEPT ![NewRow] = row]
Row(e, by, password) == [email |-> e, hash |-> "keyed", by |-> by, password |-> password]

(************************ registration *************************************)
\* scalar_one_or_none: several rows are an error as well as one is a refusal.
Register(c, e) ==
    /\ Form(c) /\ Found(e, {"keyed", "legacy"}) = {}
    /\ Asks(c, "insert", e)
    /\ UNCHANGED <<users, invites, links>>

\* Only the keyed hash is looked for.
CreateUser(c, e) ==
    /\ Form(c) /\ Found(e, {"keyed"}) = {}
    /\ Asks(c, "insert", e)
    /\ UNCHANGED <<users, invites, links>>

InsertUser(c) ==
    /\ caller[c].at = "insert"
    /\ IF Unique(caller[c].e, "none") THEN Add(Row(caller[c].e, "none", TRUE)) ELSE UNCHANGED users
    /\ Wait(c, NoCaller)
    /\ UNCHANGED <<invites, links, forms>>

\* An admin changes the address of an account.
UpdateUser(c, u, e) ==
    /\ Form(c) /\ u \in Taken /\ Found(e, {"keyed"}) \ {u} = {}
    /\ Wait(c, [NoCaller EXCEPT !.at = "update", !.e = e, !.row = u])
    /\ UNCHANGED <<users, invites, links>>

Readdressed(u, e) == [users[u] EXCEPT !.email = e, !.hash = "keyed"]

WriteUser(c) ==
    /\ caller[c].at = "update"
    /\ LET u == caller[c].row
       IN users' = IF Unique(caller[c].e, u) THEN [users EXCEPT ![u] = Readdressed(u, caller[c].e)] ELSE users
    /\ Wait(c, NoCaller)
    /\ UNCHANGED <<invites, links, forms>>

\* A sign-in finds a row by its legacy hash and writes the keyed one.
HealHash(u) ==
    /\ u \in Taken /\ users[u].hash = "legacy" /\ Unique(users[u].email, u)
    /\ users' = [users EXCEPT ![u].hash = "keyed"]
    /\ UNCHANGED <<invites, links, caller, forms>>

(************************ invitations **************************************)
Open(e) == {i \in Invites : invites[i].email = e /\ ~invites[i].used}

InviteUser(c, e) ==
    /\ Form(c) /\ Found(e, {"keyed"}) = {}
    /\ \A i \in Open(e) : invites[i].expired
    /\ Asks(c, "invite", e)
    /\ UNCHANGED <<users, invites, links>>

\* The unique index knows only whether an invitation is used, not that it expired.
InsertInvite(c) ==
    /\ caller[c].at = "invite"
    /\ IF Open(caller[c].e) # {} THEN UNCHANGED invites
       ELSE /\ \E i \in Invites : invites[i] = NoInvite
            /\ LET i == CHOOSE i \in Invites : invites[i] = NoInvite
               IN invites' = [invites EXCEPT ![i] = [NoInvite EXCEPT !.email = caller[c].e]]
    /\ Wait(c, NoCaller)
    /\ UNCHANGED <<users, links, forms>>

InviteExpires(i) ==
    /\ invites[i] # NoInvite /\ ~invites[i].used /\ ~invites[i].expired
    /\ invites' = [invites EXCEPT ![i].expired = TRUE]
    /\ UNCHANGED <<users, links, caller, forms>>

\* SELECT ... FOR UPDATE: another acceptance waits, then reads the row again.
RowLocked(i) == \A c \in Callers : caller[c].invite # i

AcceptInvite(c, i) ==
    /\ Form(c) /\ RowLocked(i)
    /\ invites[i] # NoInvite /\ ~invites[i].used /\ ~invites[i].expired
    /\ Wait(c, [NoCaller EXCEPT !.at = "accept", !.e = invites[i].email, !.invite = i])
    /\ UNCHANGED <<users, invites, links>>

\* Account and use are one transaction.
CommitInvite(c) ==
    /\ caller[c].at = "accept"
    /\ LET i == caller[c].invite
       IN IF Unique(caller[c].e, "none")
          THEN Add(Row(caller[c].e, i, TRUE)) /\ invites' = [invites EXCEPT ![i].used = TRUE]
          ELSE UNCHANGED <<users, invites>>
    /\ Wait(c, NoCaller)
    /\ UNCHANGED <<links, forms>>

(************************ OAuth ********************************************)
LinksOf(e) == {l \in links : l.person = e}

\* The account is linked already, found by its address, or missing.
OAuthCallback(c, e) ==
    /\ Form(c) /\ LinksOf(e) = {}
    /\ LET hit == Found(e, {"keyed"})
       IN IF hit = {} THEN Asks(c, "oauth", e)
          ELSE \E u \in hit : Wait(c, [NoCaller EXCEPT !.at = "link", !.e = e, !.row = u])
    /\ UNCHANGED <<users, invites, links>>

LinkRow(e, u) == [person |-> e, user |-> u, n |-> Cardinality(LinksOf(e))]

LinkExisting(c) ==
    /\ caller[c].at = "link"
    /\ links' = links \cup {LinkRow(caller[c].e, caller[c].row)}
    /\ Wait(c, NoCaller)
    /\ UNCHANGED <<users, invites, forms>>

\* Account, without a password, and link are one transaction.
OAuthUser(c) ==
    /\ caller[c].at = "oauth"
    /\ IF Unique(caller[c].e, "none")
       THEN Add(Row(caller[c].e, "none", FALSE)) /\ links' = links \cup {LinkRow(caller[c].e, NewRow)}
       ELSE UNCHANGED <<users, links>>
    /\ Wait(c, NoCaller)
    /\ UNCHANGED <<invites, forms>>

\* Two links of one person are an error; without a password the link must stay.
Unlink(c, l) ==
    /\ Form(c) /\ l \in links /\ Cardinality({x \in links : x.user = l.user}) = 1
    /\ users[l.user].password
    /\ links' = links \ {l}
    /\ UNCHANGED <<users, invites, caller>>

\* A password is set through the link that forgot-password sends.
ResetPassword(u) ==
    /\ u \in Taken /\ ~users[u].password
    /\ users' = [users EXCEPT ![u].password = TRUE]
    /\ UNCHANGED <<invites, links, caller, forms>>

CallerDies(c) == /\ caller[c].at # "idle" /\ Wait(c, NoCaller)
                 /\ UNCHANGED <<users, invites, links, forms>>

AccountsNext ==
    \/ \E c \in Callers :
          \/ \E e \in Persons : Register(c, e) \/ CreateUser(c, e) \/ InviteUser(c, e) \/ OAuthCallback(c, e)
                                \/ \E u \in Rows : UpdateUser(c, u, e)
          \/ \E i \in Invites : AcceptInvite(c, i)
          \/ \E l \in links : Unlink(c, l)
          \/ InsertUser(c) \/ WriteUser(c) \/ InsertInvite(c) \/ CommitInvite(c)
          \/ LinkExisting(c) \/ OAuthUser(c) \/ CallerDies(c)
    \/ \E u \in Rows : HealHash(u) \/ ResetPassword(u)
    \/ \E i \in Invites : InviteExpires(i)

AccountsSpec == AccountsInit /\ [][AccountsNext]_accountVars

(************************ properties ***************************************)
\* Two accounts share an address only when one of them still carries a legacy hash,
\* which only registration looks for (api/auth.py:136, api/users.py:104, 168).
OneKeyedAccountPerAddress ==
    \A u, v \in Taken : u # v /\ users[u].email = users[v].email
        => "legacy" \in {users[u].hash, users[v].hash}

\* An invitation becomes one account, whatever happens to the address of that account
\* before a second acceptance, and is used when there is one (api/auth.py:888-915).
InviteOnce ==
    \A i \in Invites : LET of == {u \in Taken : users[u].by = i}
                       IN Cardinality(of) <= 1 /\ (of # {} <=> invites[i].used)

\* Every account has a way to sign in, a password or a link, although the two are
\* written and removed by different requests (api/oauth.py:199, 296).
EverybodyCanSignIn ==
    \A u \in Taken : users[u].password \/ \E l \in links : l.user = u

\* The five ways to an account lead to one each (api/auth.py, api/oauth.py, api/users.py).
AccountsHold == OneKeyedAccountPerAddress /\ InviteOnce /\ EverybodyCanSignIn
=============================================================================
