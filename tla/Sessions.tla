------------------------------ MODULE Sessions ------------------------------
(***************************************************************************)
(* Signing in and out, and what every request does first (routes/auth,     *)
(* oauth, security, deps, storage/accounts, handlers/sessions). One        *)
(* browser, whose tabs share its cookie; an account that may be signed in  *)
(* elsewhere; an operator who deactivates accounts and revokes sessions.   *)
(*                                                                         *)
(* A request is one transaction. It looks its session up, does its work,   *)
(* is answered, and commits after that: a dependency that yields, as       *)
(* db_conn does, is left once the response is sent. So the browser may act *)
(* on an answer before what was written is there, or when it never will be.*)
(***************************************************************************)
EXTENDS Naturals

CONSTANTS
  Identities,  \* Google's `sub`
  Addresses,   \* email addresses, which change hands
  Accounts,    \* ids of users rows
  Tokens,      \* session tokens; a session's csrf_token is minted with it
  Presses,     \* requests in progress
  Ttl,         \* session_ttl
  TouchAfter,  \* session_touch_after
  MaxTime,     \* bound: the clock
  None

VARIABLES
  clock,
  user,     \* the users rows
  session,  \* the sessions rows, by token_hash
  cookie,   \* the browser's session cookie and when the browser drops it
  pages,    \* the sessions whose forms are open in a tab
  request,  \* the requests in progress
  owner,    \* history: who signed in with each token
  used,     \* history: when a request that found each session at its commit last used it
  ended,    \* history: sessions signed out of or revoked
  misfiled  \* history: whether a form was saved for another than whose page it was on

histories    == <<owner, used, ended, misfiled>>
sessionsVars == <<clock, user, session, cookie, pages, request, histories>>

Times == 0..MaxTime
Users == [sub: Identities, email: Addresses, active: BOOLEAN]
Rows  == [user: Accounts, seen: Times, expires: 0..(MaxTime + Ttl)]
Kinds == {"sign_in", "page", "form", "logout"}
Idle  == [at |-> "none", kind |-> None, now |-> 0, who |-> None, account |-> None,
          token |-> None, touches |-> FALSE, page |-> None]

SessionsTypeOK ==
  /\ clock \in Times
  /\ user \in [Accounts -> Users \union {None}]
  /\ session \in [Tokens -> Rows \union {None}]
  /\ cookie \in [token: Tokens, until: 0..(MaxTime + Ttl)] \union {None}
  /\ pages \subseteq Tokens
  /\ \A r \in Presses : /\ request[r].at \in {"none", "read", "looked", "answered"}
                        /\ request[r].kind \in Kinds \union {None}
                        /\ request[r].account \in Accounts \union {None}
                        /\ request[r].token \in Tokens \union {None}

\* None is nothing else; times are whole.
ASSUME SessionsAssumption ==
  /\ Ttl \in Nat /\ TouchAfter \in Nat /\ MaxTime \in Nat
  /\ None \notin Identities \union Addresses \union Accounts \union Tokens \union Times
  /\ None \notin Users /\ None \notin Rows /\ None \notin Kinds
  /\ None \notin [token: Tokens, until: Nat]
  /\ None \notin [sub: Identities, email: Addresses]

SessionsInit ==
  /\ clock = 0
  /\ user = [a \in Accounts |-> None]
  /\ session = [t \in Tokens |-> None]
  /\ cookie = None
  /\ pages = {}
  /\ request = [r \in Presses |-> Idle]
  /\ owner = [t \in Tokens |-> None]
  /\ used = [t \in Tokens |-> None]
  /\ ended = {}
  /\ misfiled = FALSE

\* Rows a request has written and not committed: another that writes them waits.
Holds(r)  == request[r].at = "answered"
Locked(t) == \E r \in Presses : Holds(r) /\ request[r].token = t
                                /\ (request[r].touches \/ request[r].kind = "logout")

----------------------------------------------------------------------------
(* Signing in.                                                             *)

\* What Google says of who came back, or no sign-in.
Claims == [sub: Identities \union {None}, email: Addresses \union {None}, verified: BOOLEAN]

IdentityFromClaims(claims) ==
  IF claims.sub = None \/ claims.email = None \/ ~claims.verified THEN None
  ELSE [sub |-> claims.sub, email |-> claims.email]

\* Mutant: an account is found by the address it shows.
FoundByEmail(who) == {a \in Accounts : user[a] # None /\ user[a].email = who.email}

\* By `sub` and nothing else.
Found(who) == {a \in Accounts : user[a] # None /\ user[a].sub = who.sub}

\* The callback comes back, and the account is looked for.
GoogleCallback(r, claims) ==
  LET who == IdentityFromClaims(claims)
  IN /\ request[r].at = "none" /\ who # None
     /\ request' = [request EXCEPT ![r] =
          [Idle EXCEPT !.at = "read", !.kind = "sign_in", !.now = clock, !.who = who,
                       !.account = IF Found(who) = {} THEN None
                                   ELSE CHOOSE a \in Found(who) : TRUE]]
     /\ UNCHANGED <<clock, user, session, cookie, pages, histories>>

\* Of two first sign-ins of one identity both find no account; the second insert
\* waits for the first, then fails.
Unused(a)      == user[a] = None /\ \A s \in Presses : Holds(s) => request[s].account # a
Inserting(who) == \E s \in Presses : /\ Holds(s) /\ request[s].kind = "sign_in"
                                     /\ request[s].who.sub = who.sub
                                     /\ user[request[s].account] = None

\* A session of the account with a token never used; the answer sets the cookie.
Create(r, a) ==
  \E t \in Tokens :
    /\ owner[t] = None
    /\ owner' = [owner EXCEPT ![t] = request[r].who.sub]
    /\ request' = [request EXCEPT ![r] = [@ EXCEPT !.at = "answered", !.account = a, !.token = t]]
    /\ cookie' = [token |-> t, until |-> clock + Ttl]

\* Insert or update; a deactivated account is shown the sign-in page again.
UpsertGoogleUser(r) ==
  LET q == request[r]
  IN /\ q.at = "read"
     /\ \/ q.account # None /\ user[q.account].active /\ Create(r, q.account)
        \/ /\ q.account # None /\ ~user[q.account].active
           /\ request' = [request EXCEPT ![r].at = "answered"]
           /\ UNCHANGED <<owner, cookie>>
        \/ /\ q.account = None /\ ~Inserting(q.who) /\ Found(q.who) = {}
           /\ \E a \in Accounts : Unused(a) /\ Create(r, a)
        \/ /\ q.account = None /\ Found(q.who) # {}
           /\ request' = [request EXCEPT ![r] = Idle]
           /\ UNCHANGED <<owner, cookie>>
     /\ UNCHANGED <<clock, user, session, pages, used, ended, misfiled>>

----------------------------------------------------------------------------
(* Every other request.                                                    *)

\* lookup: there, not expired, and of an account that is active.
Live(t) == session[t] # None /\ session[t].expires > clock /\ user[session[t].user].active

\* optional_session: a page asked for, or a form of an open page sent; with no live
\* session the answer is the sign-in page, and nothing is written.
OptionalSession(r, kind, page) ==
  /\ request[r].at = "none"
  /\ cookie # None
  /\ clock < cookie.until /\ Live(cookie.token)
  /\ request' = [request EXCEPT ![r] =
       [Idle EXCEPT !.at = "looked", !.kind = kind, !.now = clock, !.page = page,
                    !.account = session[cookie.token].user, !.token = cookie.token,
                    !.touches = clock >= session[cookie.token].seen + TouchAfter]]
  /\ UNCHANGED <<clock, user, session, cookie, pages, histories>>

\* Mutant: any token of the account's will do.
CsrfOfAccount(q) == q.page # None /\ owner[q.page] # None

\* The token in the form is that of the session the cookie resolved to.
CsrfOk(q) == q.page = q.token

\* The work, and the answer, with the cookie cleared by a sign-out.
Handle(r) ==
  LET q == request[r]
      accepted == q.kind = "page" \/ CsrfOk(q)
  IN /\ q.at = "looked"
     /\ q.touches \/ q.kind = "logout" => ~Locked(q.token)
     /\ request' = [request EXCEPT ![r] = IF accepted THEN [q EXCEPT !.at = "answered"] ELSE Idle]
     /\ cookie' = IF accepted /\ q.kind = "logout" THEN None ELSE cookie
     /\ pages' = IF q.kind = "page" THEN pages \union {q.token} ELSE pages
     /\ UNCHANGED <<clock, user, session, histories>>

\* Mutant: a session seen again is not a session prolonged.
SeenOnly(row, now) == [row EXCEPT !.seen = now]

\* touch: the expiry rolls forward.
Touched(row, now) == [row EXCEPT !.seen = now, !.expires = now + Ttl]

SignInCommits(q) ==
  /\ user' = [user EXCEPT ![q.account] =
       IF @ = None THEN [sub |-> q.who.sub, email |-> q.who.email, active |-> TRUE]
       ELSE [@ EXCEPT !.email = q.who.email]]
  /\ session' = IF q.token = None THEN session
                ELSE [session EXCEPT ![q.token] =
                        [user |-> q.account, seen |-> q.now, expires |-> q.now + Ttl]]
  /\ UNCHANGED <<ended, misfiled>>

\* A row deleted since it was looked up is not written again.
OtherCommits(q) ==
  /\ session' = [session EXCEPT ![q.token] =
       IF q.kind = "logout" \/ @ = None THEN None
       ELSE IF q.touches THEN Touched(@, q.now) ELSE @]
  /\ ended' = IF q.kind = "logout" THEN ended \union {q.token} ELSE ended
  /\ misfiled' = (misfiled \/ (q.kind = "form" /\ owner[q.page] # user[q.account].sub))
  /\ UNCHANGED user

Commit(r) ==
  LET q == request[r]
  IN /\ q.at = "answered"
     /\ IF q.kind = "sign_in" THEN SignInCommits(q) ELSE OtherCommits(q)
     /\ used' = IF q.token = None \/ session'[q.token] = None THEN used
                ELSE [used EXCEPT ![q.token] = IF @ = None \/ @ < q.now THEN q.now ELSE @]
     /\ request' = [request EXCEPT ![r] = Idle]
     /\ UNCHANGED <<clock, cookie, pages, owner>>

\* The connection or the process goes: what it wrote is rolled back, answered or not.
Lost(r) ==
  /\ request[r].at # "none"
  /\ request' = [request EXCEPT ![r] = Idle]
  /\ UNCHANGED <<clock, user, session, cookie, pages, histories>>

----------------------------------------------------------------------------
(* The worker, the operator, time.                                         *)

Expired == {t \in Tokens : session[t] # None /\ session[t].expires <= clock}

DeleteSessions(S) == session' = [t \in Tokens |-> IF t \in S THEN None ELSE session[t]]

PurgeExpired ==
  /\ Expired # {} /\ \A t \in Expired : ~Locked(t)
  /\ DeleteSessions(Expired)
  /\ UNCHANGED <<clock, user, cookie, pages, request, histories>>

\* Every session of an account, by hand: nothing calls delete_for_user.
DeleteForUser(a) ==
  LET mine == {t \in Tokens : session[t] # None /\ session[t].user = a}
  IN /\ mine # {} /\ \A t \in mine : ~Locked(t)
     /\ DeleteSessions(mine)
     /\ ended' = ended \union mine
     /\ UNCHANGED <<clock, user, cookie, pages, request, owner, used, misfiled>>

Deactivate(a) ==
  /\ user[a] # None /\ user[a].active
  /\ user' = [user EXCEPT ![a].active = FALSE]
  /\ UNCHANGED <<clock, session, cookie, pages, request, histories>>

\* Bound: no request takes longer than session_touch_after, five minutes.
Tick ==
  /\ clock < MaxTime
  /\ \A r \in Presses : request[r].at # "none" => clock < request[r].now + TouchAfter
  /\ clock' = clock + 1
  /\ UNCHANGED <<user, session, cookie, pages, request, histories>>

SessionsNext ==
  \/ \E r \in Presses :
       \/ \E claims \in Claims : GoogleCallback(r, claims)
       \/ OptionalSession(r, "page", None)
       \/ \E kind \in {"form", "logout"}, page \in pages : OptionalSession(r, kind, page)
       \/ UpsertGoogleUser(r) \/ Handle(r) \/ Commit(r) \/ Lost(r)
  \/ \E a \in Accounts : DeleteForUser(a) \/ Deactivate(a)
  \/ PurgeExpired \/ Tick

SessionsSpec == SessionsInit /\ [][SessionsNext]_sessionsVars

----------------------------------------------------------------------------
\* One account for each identity, and every session is of the account of who signed
\* in, whatever address it shows and whoever signs in at the same time.
SignedInAsWhoCame ==
  /\ \A a, b \in Accounts :
       user[a] # None /\ user[b] # None /\ user[a].sub = user[b].sub => a = b
  /\ \A t \in Tokens : session[t] # None =>
       /\ user[session[t].user] # None
       /\ user[session[t].user].sub = owner[t]

\* A session signed out of or revoked does not come back, though requests that
\* looked it up before are still to write.
EndedStaysEnded == \A t \in ended : session[t] = None

\* One that was used within session_ttl, less session_touch_after, is still there,
\* whatever order the requests that prolonged it commit in and whenever the purge runs.
UsedIsKept ==
  \A t \in Tokens \ ended :
    used[t] # None /\ clock + TouchAfter < used[t] + Ttl =>
      session[t] # None /\ session[t].expires > clock

\* A form is saved for whoever's page it was on, though another account has signed
\* in from another tab since.
FormsGoHome == ~misfiled

\* By hand (see the README): who holds the cookie of a session not ended is signed in.
\* The answer that sets it goes out before the row is committed.
CookieIsOfASession ==
  cookie # None /\ clock < cookie.until /\ cookie.token \notin ended =>
    session[cookie.token] # None

\* By hand (see the README): "rolling: extended by `touch` on use" (tables.py). The
\* row is; the browser drops the cookie session_ttl after the sign-in.
StaysSignedIn ==
  \A t \in Tokens \ ended :
    used[t] # None /\ clock + TouchAfter < used[t] + Ttl /\ cookie # None /\ cookie.token = t =>
      clock < cookie.until
=============================================================================
