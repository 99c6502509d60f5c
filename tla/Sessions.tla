------------------------------ MODULE Sessions ------------------------------
(***************************************************************************)
(* One account and its sign-ins: the lockout after wrong passwords         *)
(* (api/auth.py), refresh tokens and their rotation (api/auth.py,          *)
(* auth/dependencies.py), the sessions in Redis with the index of each     *)
(* user (auth/sessions.py), and everything that ends them (api/auth.py,    *)
(* api/users.py).  Requests run in several processes, one call to the      *)
(* database or to Redis at a time.  A sign-in creates a session and a      *)
(* refresh token: both carry the same identifier here.                     *)
(***************************************************************************)
EXTENDS Integers, FiniteSets

CONSTANTS Sids,             \* sign-ins that can happen
          AuthRequests,
          MaxFailedLogins,
          UseMfa,
          MaxAuthCalls,     \* bound: requests
          MaxAuthFaults     \* bound: processes killed inside a request, sessions that expire

ASSUME SessionsAssumption == /\ MaxFailedLogins \in Nat \ {0}
                             /\ Sids # {} /\ {"none", "unused"} \cap Sids = {}
                             /\ "none" \notin AuthRequests

VARIABLES account,    \* [active, failed, lock]: lock is "none", "past" or "future"
          token,      \* refresh_tokens: "none", "live" or "revoked"
          session,    \* keys session:*
          index,      \* the set user_sessions:* of the account
          request,    \* [at, op, k, failed, lock, left, was]
          parent,     \* history: the token each one replaced, "none" for a sign-in
          raced,      \* history: tokens validated while another request was replacing them
          cut,        \* history: sessions taken out of the index by who destroys them
          wrong,      \* history: wrong passwords that the counter may show
          calls, authFaults

authVars == <<account, token, session, index, request, parent, raced, cut, wrong, calls, authFaults>>

NoRequest == [at |-> "idle", op |-> "none", k |-> "none", failed |-> 0, lock |-> "none",
              left |-> {}, was |-> [sessions |-> {}, tokens |-> {}]]

FirstSid == CHOOSE k \in Sids : TRUE

\* Somebody is signed in.
AuthInit ==
    /\ account = [active |-> TRUE, failed |-> 0, lock |-> "none"]
    /\ token = [k \in Sids |-> IF k = FirstSid THEN "live" ELSE "none"]
    /\ parent = [k \in Sids |-> IF k = FirstSid THEN "none" ELSE "unused"]
    /\ session = {FirstSid} /\ index = {FirstSid} /\ raced = {} /\ cut = {}
    /\ request = [r \in AuthRequests |-> NoRequest]
    /\ wrong = 0 /\ calls = 0 /\ authFaults = 0

Live == {k \in Sids : token[k] = "live"}
Unused == {k \in Sids : parent[k] = "unused"}
Step(r, f) == request' = [request EXCEPT ![r] = f]
To(r, at) == [request[r] EXCEPT !.at = at]
Called(r) == request[r].at = "idle" /\ calls < MaxAuthCalls /\ calls' = calls + 1

\* Who presents an access token and the identifier of a session.
GetCurrentUser(k) == account.active /\ account.lock # "future" /\ k \in session

(************************ signing in ***************************************)
\* The account is loaded: what is written later is computed from this.
LoginRead(r) ==
    /\ Called(r) /\ account.lock # "future"
    /\ \E at \in {"wrong", "right"} :
          Step(r, [NoRequest EXCEPT !.at = at, !.failed = account.failed, !.lock = account.lock])
    /\ UNCHANGED <<account, token, session, index, parent, raced, cut, wrong, authFaults>>

Locks(failed) == failed >= MaxFailedLogins

LoginWrong(r) ==
    /\ request[r].at = "wrong"
    /\ LET n == request[r].failed + 1
       IN account' = [account EXCEPT !.failed = n, !.lock = IF Locks(n) THEN "future" ELSE @]
    /\ wrong' = wrong + 1
    /\ Step(r, NoRequest)
    /\ UNCHANGED <<token, session, index, parent, raced, cut, calls, authFaults>>

\* Only what differs from the loaded row is written.
ResetCounter(r) == IF request[r].failed = 0 THEN account.failed ELSE 0

MaxSnap(r) ==
    LET seen == {0} \cup {request[q].failed : q \in {p \in AuthRequests \ {r} : request[p].at = "wrong"}}
    IN CHOOSE n \in seen : \A m \in seen : m <= n

LoginRight(r) ==
    /\ request[r].at = "right"
    /\ account' = [account EXCEPT !.failed = ResetCounter(r),
                                  !.lock = IF request[r].lock = "none" THEN @ ELSE "none"]
    /\ wrong' = IF request[r].failed = 0 THEN wrong ELSE MaxSnap(r)
    /\ Step(r, [NoRequest EXCEPT !.at = IF UseMfa THEN "mfa" ELSE "issue"])
    /\ UNCHANGED <<token, session, index, parent, raced, cut, calls, authFaults>>

\* Which code it is, the authenticator's or a backup code, is left out.
VerifyMfa(r) ==
    /\ request[r].at = "mfa"
    /\ \/ Step(r, NoRequest)
       \/ account.active /\ account.lock # "future" /\ Step(r, To(r, "issue"))
    /\ UNCHANGED <<account, token, session, index, parent, raced, cut, wrong, calls, authFaults>>

\* Slip: the session is not listed under its user.
Unlisted(k) == index

\* SETEX and SADD in one transaction.
Listed(k) == index \cup {k}

CreateSession(r) ==
    /\ request[r].at = "issue"
    /\ Unused # {}
    /\ LET k == CHOOSE k \in Unused : TRUE
       IN /\ session' = session \cup {k} /\ index' = Listed(k)
          /\ parent' = [parent EXCEPT ![k] = request[r].k]
          /\ Step(r, [To(r, "commit") EXCEPT !.k = k])
    /\ UNCHANGED <<account, token, raced, cut, wrong, calls, authFaults>>

CommitTokens(r) ==
    /\ request[r].at = "commit"
    /\ token' = [token EXCEPT ![request[r].k] = "live"]
    /\ Step(r, NoRequest)
    /\ UNCHANGED <<account, session, index, parent, raced, cut, wrong, calls, authFaults>>

(************************ rotation *****************************************)
RevokeEach(ks) == token' = [k \in Sids |-> IF k \in ks /\ token[k] = "live" THEN "revoked" ELSE token[k]]

FindsToken(k) == token[k] = "live"

\* An unknown or revoked token ends them all.
ValidateRefreshToken(r, k) ==
    /\ Called(r) /\ token[k] # "none"
    /\ IF ~FindsToken(k)
       THEN RevokeEach(Sids) /\ UNCHANGED <<request, raced>>
       ELSE /\ account.active /\ account.lock # "future"
            /\ Step(r, [NoRequest EXCEPT !.at = "rotate", !.k = k])
            /\ raced' = IF \E q \in AuthRequests : request[q].at = "rotate" /\ request[q].k = k
                        THEN raced \cup {k} ELSE raced
            /\ UNCHANGED token
    /\ UNCHANGED <<account, session, index, parent, cut, wrong, authFaults>>

Rotate(r) ==
    /\ request[r].at = "rotate"
    /\ RevokeEach({request[r].k})
    /\ Step(r, To(r, "issue"))
    /\ UNCHANGED <<account, session, index, parent, raced, cut, wrong, calls, authFaults>>

(************************ ending sessions **********************************)
\* One session is ended: by its owner, who logs out or revokes it, or by an admin.
EndOne(r, k) ==
    /\ Called(r)
    /\ \E op \in {"logout", "revoke", "admin"} :
          /\ op = "admin" \/ GetCurrentUser(k)
          /\ Step(r, [NoRequest EXCEPT !.at = "get", !.op = op, !.k = k])
    /\ k \in session \/ token[k] # "none"
    /\ UNCHANGED <<account, token, session, index, parent, raced, cut, wrong, authFaults>>

\* All are ended: logout-all keeps the session k it comes from.  That the link of a
\* reset was sent and has not expired is left out.
EndAll(r) ==
    /\ Called(r)
    /\ \E op \in {"logout_all", "force", "deactivate", "reset"}, k \in Sids \cup {"none"} :
          /\ (op = "logout_all") = (k # "none")
          /\ op = "logout_all" => GetCurrentUser(k)
          /\ op = "reset" => account.active
          /\ Step(r, [NoRequest EXCEPT !.at = "members", !.op = "all", !.k = k,
                          !.was = [sessions |-> session \ {k}, tokens |-> Live]])
          /\ account' = CASE op = "deactivate" -> [account EXCEPT !.active = FALSE]
                          [] op = "reset" -> [account EXCEPT !.failed = 0, !.lock = "none"]
                          [] OTHER -> account
          /\ wrong' = IF op = "reset" THEN MaxSnap(r) ELSE wrong
    /\ UNCHANGED <<token, session, index, parent, raced, cut, authFaults>>

Members(r) ==
    /\ request[r].at = "members"
    /\ Step(r, [To(r, "each") EXCEPT !.left = index \ {request[r].k}, !.k = "none"])
    /\ UNCHANGED <<account, token, session, index, parent, raced, cut, wrong, calls, authFaults>>

EachSession(r) ==
    /\ request[r].at = "each"
    /\ IF request[r].left = {} THEN Step(r, To(r, "revoke"))
       ELSE \E k \in request[r].left :
               Step(r, [To(r, "get") EXCEPT !.k = k, !.left = @ \ {k}])
    /\ UNCHANGED <<account, token, session, index, parent, raced, cut, wrong, calls, authFaults>>

\* destroy_session: GET, SREM if it was there, DELETE.
DestroyGet(r) ==
    /\ request[r].at = "get"
    /\ Step(r, To(r, IF request[r].k \in session THEN "srem" ELSE "delete"))
    /\ UNCHANGED <<account, token, session, index, parent, raced, cut, wrong, calls, authFaults>>

DestroySrem(r) ==
    /\ request[r].at = "srem"
    /\ index' = index \ {request[r].k} /\ cut' = cut \cup {request[r].k}
    /\ Step(r, To(r, "delete"))
    /\ UNCHANGED <<account, token, session, parent, raced, wrong, calls, authFaults>>

AfterDestroy(r) == CASE request[r].op \in {"logout", "revoke"} -> To(r, "revoke")
                     [] request[r].op = "admin" -> NoRequest
                     [] OTHER -> [To(r, "each") EXCEPT !.k = "none"]

DestroyDelete(r) ==
    /\ request[r].at = "delete"
    /\ session' = session \ {request[r].k} /\ cut' = cut \ {request[r].k}
    /\ Step(r, AfterDestroy(r))
    /\ UNCHANGED <<account, token, index, parent, raced, wrong, calls, authFaults>>

\* A logout revokes the token of its cookie, everything else every token of the user.
RevokeTokens(r) ==
    /\ request[r].at = "revoke"
    /\ RevokeEach(IF request[r].op = "logout" THEN {request[r].k} ELSE Sids)
    /\ Step(r, IF request[r].op \in {"logout", "revoke"} THEN NoRequest
               ELSE To(r, "ended"))
    /\ UNCHANGED <<account, session, index, parent, raced, cut, wrong, calls, authFaults>>

Answered(r) ==
    /\ request[r].at = "ended" /\ Step(r, NoRequest)
    /\ UNCHANGED <<account, token, session, index, parent, raced, cut, wrong, calls, authFaults>>

\* Listing takes what has expired out of the index.
ListSessions(r) ==
    /\ Called(r) /\ account.active /\ account.lock # "future"
    /\ index' = index \cap session
    /\ UNCHANGED <<account, token, session, request, parent, raced, cut, wrong, authFaults>>

(************************ the account **************************************)
ReactivateUser == /\ ~account.active
                  /\ account' = [account EXCEPT !.active = TRUE, !.failed = 0, !.lock = "none"]
                  /\ wrong' = MaxSnap("none")
                  /\ UNCHANGED <<token, session, index, request, parent, raced, cut, calls, authFaults>>

LockPasses == /\ account.lock = "future" /\ account' = [account EXCEPT !.lock = "past"]
              /\ UNCHANGED <<token, session, index, request, parent, raced, cut, wrong, calls, authFaults>>

\* The time to live of a session ends: no request prolongs it.
SessionExpires(k) == /\ k \in session /\ session' = session \ {k} /\ cut' = cut \ {k}
                     /\ authFaults < MaxAuthFaults /\ authFaults' = authFaults + 1
                     /\ UNCHANGED <<account, token, index, request, parent, raced, wrong, calls>>

RequestDies(r) == /\ request[r].at \notin {"idle", "ended"} /\ authFaults < MaxAuthFaults /\ authFaults' = authFaults + 1
                  /\ Step(r, NoRequest)
                  /\ UNCHANGED <<account, token, session, index, parent, raced, cut, wrong, calls>>

LoginStep(r) == LoginRead(r) \/ LoginWrong(r) \/ LoginRight(r) \/ VerifyMfa(r)
                \/ CreateSession(r) \/ CommitTokens(r)
RotationStep(r) == (\E k \in Sids : ValidateRefreshToken(r, k)) \/ Rotate(r)
EndingStep(r) == (\E k \in Sids : EndOne(r, k)) \/ EndAll(r) \/ Members(r) \/ EachSession(r)
                 \/ DestroyGet(r) \/ DestroySrem(r) \/ DestroyDelete(r) \/ RevokeTokens(r)
                 \/ Answered(r) \/ ListSessions(r)
AccountStep == ReactivateUser \/ LockPasses

AuthNext == \/ \E r \in AuthRequests : LoginStep(r) \/ RotationStep(r) \/ EndingStep(r) \/ RequestDies(r)
            \/ AccountStep \/ \E k \in Sids : SessionExpires(k)

AuthSpec == AuthInit /\ [][AuthNext]_authVars

(************************ properties ***************************************)
\* When logout-all, a forced logout, a deactivation or a reset has answered, every
\* refresh token of its beginning is revoked and every session of its beginning is
\* gone, except one that another request had already taken out of the index to
\* destroy it (auth/sessions.py destroy_all_user_sessions goes by the index alone).
EndedIsGone ==
    \A r \in AuthRequests : request[r].at = "ended" =>
        /\ request[r].was.sessions \cap session \subseteq cut
        /\ request[r].was.tokens \cap Live = {}

\* The count of wrong passwords, which locks the account at five, never exceeds those
\* that no successful sign-in came after, although requests add to a count they read
\* before and a success writes its zero only over what it read (api/auth.py:251, 280).
NoFalseLockout == account.failed <= wrong

\* A refresh token is replaced once, except when two requests validated it before
\* either revoked it (api/auth.py refresh, validate_refresh_token).
RotationIsLinear ==
    \A k \in Sids : k \in raced \/ Cardinality({c \in Sids : parent[c] = k}) <= 1

\* Who is signed out stays out, and who is not is not locked out (api/auth.py).
SessionsHold == EndedIsGone /\ NoFalseLockout /\ RotationIsLinear
=============================================================================
