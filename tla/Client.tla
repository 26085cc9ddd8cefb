------------------------------- MODULE Client -------------------------------
(***************************************************************************)
(* One browser of the owner, an unreliable network and the server: how the *)
(* movement and transfer forms of frontend/app/components/accounts.tsx     *)
(* make, keep and drop the key of a mutation, with the hook of             *)
(* frontend/app/hooks/use-idempotent-mutation.ts, and how a session begins *)
(* and ends (internal/auth/service.go).  The forms of credit-card.tsx,     *)
(* whose retry looks at no outcome (125, 256, 300), are not covered.       *)
(*                                                                         *)
(* A form stands for one movement that its user means to post once.  What  *)
(* the server does with a key is LedgerSessions: here it claims the key    *)
(* and inserts the row in one step.                                        *)
(***************************************************************************)
EXTENDS Integers, FiniteSets

CONSTANTS
  Forms,        \* movement and transfer forms of the accounts view, each for one movement
  Tokens,       \* values of the session cookie
  MaxKeys,      \* bound on the keys that a form makes
  MaxAttempts,  \* bound on the requests of one key
  MaxUnderWay,  \* bound on the requests that the page or the server has not finished
  NoKey,        \* no mutation is pending
  NoToken,      \* there is no session cookie
  NoAttempt     \* nothing is being submitted

ASSUME BoundAssumption == {MaxKeys, MaxAttempts, MaxUnderWay} \subseteq Nat

ASSUME NullAssumption ==
  /\ NoToken \notin Tokens /\ "logout" \notin Forms
  /\ NoKey \notin Forms \X (1..MaxKeys)
  /\ NoAttempt \notin [form : Forms \cup {"logout"}, key : (Forms \X (1..MaxKeys)) \cup {NoKey}, n : Nat]

VARIABLES
  user,         \* the page shows somebody signed in
  cookie,       \* session cookie of the browser
  shown,        \* the forms are mounted
  pending,      \* key that a form keeps for a retry
  sending,      \* attempt that a mounted form waits for
  made,         \* number of keys that a form has made
  told,         \* the user of a form saw it succeed
  open,         \* attempts whose fetch the page has not settled
  requests,     \* requests under way
  answers,      \* answers under way
  sessions,     \* auth_sessions
  expired,      \* tokens whose expires_at has passed
  admitted,     \* requests that were authenticated and not served yet
  rows,         \* keys claimed with their rows
  dropped,      \* keys that their forms gave up before they saw them succeed
  ended         \* tokens that were logged out

page == <<user, shown, pending, sending, made, told, open, dropped>>
network == <<requests, answers>>
server == <<sessions, expired, admitted, rows, ended>>
vars == <<page, cookie, network, server>>

-----------------------------------------------------------------------------
(* The page *)

Keys == Forms \X (1..MaxKeys)

IsSending(f) == sending[f] # NoAttempt

UnderWay == open \cup {r.attempt : r \in requests \cup admitted}

\* fetch, with the cookie of now.
Fetch(a) ==
  /\ Cardinality(UnderWay) < MaxUnderWay
  /\ requests' = requests \cup {[attempt |-> a, token |-> cookie]}
  /\ open' = open \cup {a}
  /\ UNCHANGED answers

\* Attempts are numbered to tell the requests of one key apart.
Attempt(f, key, n) == [form |-> f, key |-> key, n |-> n]

Fresh(a) == a \notin UnderWay

\* attempt(): a form submits a key and waits.
Send(f, key, n) ==
  LET a == Attempt(f, key, n) IN
  /\ user /\ shown
  /\ ~ IsSending(f)
  /\ sending' = [sending EXCEPT ![f] = a]
  /\ Fetch(a)
  /\ UNCHANGED <<user, cookie, shown, told, dropped, server>>

\* submit(): a new key.
Submit(f) ==
  /\ pending[f] = NoKey /\ ~ told[f] /\ made[f] < MaxKeys
  /\ made' = [made EXCEPT ![f] = @ + 1]
  /\ Send(f, <<f, made[f] + 1>>, 1)
  /\ UNCHANGED pending

\* Mutant: a retry is a new submission.
RetryWithNewKey(f, n) ==
  /\ pending[f] # NoKey /\ n \in 1..MaxAttempts /\ made[f] < MaxKeys
  /\ made' = [made EXCEPT ![f] = @ + 1]
  /\ Send(f, <<f, made[f] + 1>>, 1)
  /\ UNCHANGED pending

\* retry(): the key that is pending, in its n-th attempt.
Retry(f, n) ==
  /\ pending[f] # NoKey /\ n \in 2..MaxAttempts
  /\ Fresh(Attempt(f, pending[f], n))
  /\ Send(f, pending[f], n)
  /\ UNCHANGED <<pending, made>>

\* Keys that the forms still know.
Kept == ({pending[f] : f \in Forms} \cup {sending[f].key : f \in {g \in Forms : IsSending(g)}}) \ {NoKey}

\* The forms are unmounted, with what they know; their fetches go on.
Unmount ==
  /\ pending' = [f \in Forms |-> NoKey]
  /\ sending' = [f \in Forms |-> NoAttempt]
  /\ dropped' = dropped \cup Kept

\* The user turns to the dashboard or another account, and back.
SwitchView ==
  /\ user
  /\ shown' = ~ shown
  /\ IF shown THEN Unmount ELSE UNCHANGED <<pending, sending, dropped>>
  /\ UNCHANGED <<user, cookie, made, told, open, network, server>>

Logout ==
  /\ user
  /\ Attempt("logout", NoKey, 1) \notin open
  /\ Fetch(Attempt("logout", NoKey, 1))
  /\ UNCHANGED <<user, cookie, shown, pending, sending, made, told, dropped, server>>

\* The page goes to the login form.
ShowLogin == user' = FALSE /\ shown' = FALSE /\ Unmount

\* The page of a settled fetch: only a form that is still mounted learns of it.
Settled(a) == open' = open \ {a}

FormKnows(a) == a.form \in Forms /\ sending[a.form] = a

\* A form gives its key up: the answer was an error.
GiveUp(a) ==
  IF FormKnows(a)
    THEN /\ sending' = [sending EXCEPT ![a.form] = NoAttempt]
         /\ pending' = [pending EXCEPT ![a.form] = NoKey]
         /\ dropped' = dropped \cup {a.key}
    ELSE UNCHANGED <<sending, pending, dropped>>

\* A form keeps its key: fetch failed.
Keep(a) ==
  IF FormKnows(a)
    THEN /\ sending' = [sending EXCEPT ![a.form] = NoAttempt]
         /\ pending' = [pending EXCEPT ![a.form] = a.key]
         /\ UNCHANGED dropped
    ELSE UNCHANGED <<sending, pending, dropped>>

\* Success reloads the accounts, which unmounts every form for a while.
Succeed(a) ==
  /\ told' = [f \in Forms |-> told[f] \/ sending[f] = a]
  /\ pending' = [f \in Forms |-> NoKey]
  /\ sending' = [f \in Forms |-> NoAttempt]
  /\ dropped' = dropped \cup (Kept \ {sending[f].key : f \in {g \in Forms : sending[g] = a}})

Deliver(x) ==
  /\ answers' = answers \ {x}
  /\ Settled(x.attempt)
  /\ CASE x.kind = "posted" ->
            Succeed(x.attempt) /\ UNCHANGED <<user, shown, cookie>>
       [] x.kind = "error" ->
            GiveUp(x.attempt) /\ UNCHANGED <<user, shown, told, cookie>>
       [] x.kind = "unauthorized" ->
            ShowLogin /\ UNCHANGED <<told, cookie>>
       [] x.kind = "logged_out" ->
            ShowLogin /\ cookie' = NoToken /\ UNCHANGED told
  /\ UNCHANGED <<made, requests, server>>

\* A fetch fails: whether its request arrived, was served or is still under
\* way, nobody knows.  A logout that fails ends at the login form too.
Disconnect(a) ==
  /\ Settled(a)
  /\ \E lost \in SUBSET {r \in requests : r.attempt = a} : requests' = requests \ lost
  /\ answers' = {x \in answers : x.attempt # a}
  /\ IF a.form = "logout" THEN ShowLogin
     ELSE Keep(a) /\ UNCHANGED <<user, shown>>
  /\ UNCHANGED <<cookie, made, told, server>>

\* The page's own reads (the accounts, a balance) find that the session is over.
ReadRefused ==
  /\ user /\ cookie \notin sessions \ expired
  /\ ShowLogin
  /\ UNCHANGED <<cookie, made, told, open, network, server>>

\* The page is loaded again: me() tells whether the cookie is that of a session.
Reload ==
  /\ user' = (cookie \in sessions \ expired)
  /\ shown' = FALSE
  /\ Unmount
  /\ open' = {}
  /\ answers' = {}
  /\ UNCHANGED <<cookie, made, told, requests, server>>

\* The login form posts, and the answer brings a new cookie unless it is lost.
Login(token) ==
  /\ ~ user
  /\ token \notin sessions \cup expired \cup ended
  /\ sessions' = sessions \cup {token}
  /\ \/ cookie' = token /\ user' = TRUE
     \/ UNCHANGED <<cookie, user>>
  /\ UNCHANGED <<shown, pending, sending, made, told, open, dropped, network, expired, admitted, rows, ended>>

-----------------------------------------------------------------------------
(* The server *)

\* An answer to a fetch that the page has settled goes nowhere.
AnswerWith(a, kind) ==
  answers' = IF a \in open THEN answers \cup {[attempt |-> a, kind |-> kind]} ELSE answers

\* FindOwnerBySession
IsAuthenticated(token) == token \in sessions \ expired

Authorize(r) ==
  /\ r.attempt.form \in Forms
  /\ requests' = requests \ {r}
  /\ IF IsAuthenticated(r.token)
       THEN admitted' = admitted \cup {r} /\ UNCHANGED answers
       ELSE AnswerWith(r.attempt, "unauthorized") /\ UNCHANGED admitted
  /\ UNCHANGED <<page, cookie, sessions, expired, rows, ended>>

\* The service posts the row or finds that the key has one; it refuses or
\* fails, and a failure may come after the commit.  A key that has a row is
\* never refused, but finding it may fail.
Serve(r) ==
  /\ admitted' = admitted \ {r}
  /\ \E commits \in BOOLEAN, kind \in {"posted", "error"} :
       /\ kind = "posted" => commits
       /\ rows' = IF commits THEN rows \cup {r.attempt.key} ELSE rows
       /\ AnswerWith(r.attempt, kind)
  /\ UNCHANGED <<page, cookie, requests, sessions, expired, ended>>

\* Mutant: only the browser's cookie ends.
ForgetCookie(token) == IF token \in sessions THEN sessions ELSE sessions \ {token}

DeleteSession(token) == sessions \ {token}

\* Logout deletes the session of its cookie, and answers without one too; when
\* it fails the page does what it does when the answer is lost (Disconnect).
ServeLogout(r) ==
  /\ r.attempt.form = "logout"
  /\ requests' = requests \ {r}
  /\ sessions' = DeleteSession(r.token)
  /\ ended' = ended \cup ({r.token} \ {NoToken})
  /\ AnswerWith(r.attempt, "logged_out")
  /\ UNCHANGED <<page, cookie, expired, admitted, rows>>

\* A session's time is over.  Whether the browser drops its cookie makes no
\* difference: a request without one is refused like a request with this one.
Expire(token) ==
  /\ token \in sessions \ expired
  /\ expired' = expired \cup {token}
  /\ UNCHANGED <<page, cookie, network, sessions, admitted, rows, ended>>

-----------------------------------------------------------------------------
(* Specification *)

Init ==
  /\ user = FALSE /\ cookie = NoToken /\ shown = FALSE
  /\ pending = [f \in Forms |-> NoKey]
  /\ sending = [f \in Forms |-> NoAttempt]
  /\ made = [f \in Forms |-> 0]
  /\ told = [f \in Forms |-> FALSE]
  /\ open = {} /\ requests = {} /\ answers = {}
  /\ sessions = {} /\ expired = {} /\ admitted = {} /\ rows = {}
  /\ dropped = {} /\ ended = {}

Next ==
  \/ \E f \in Forms : Submit(f)
  \/ \E f \in Forms, n \in 2..MaxAttempts : Retry(f, n)
  \/ SwitchView \/ Logout \/ Reload \/ ReadRefused
  \/ \E x \in answers : Deliver(x)
  \/ \E a \in open : Disconnect(a)
  \/ \E token \in Tokens : Login(token) \/ Expire(token)
  \/ \E r \in requests : Authorize(r) \/ ServeLogout(r)
  \/ \E r \in admitted : Serve(r)

Spec == Init /\ [][Next]_vars

-----------------------------------------------------------------------------
(* Properties *)

\* However requests and answers are lost, delayed and retried, a movement is
\* posted under a second key only after its form gave the first one up, because
\* of an error or because it was unmounted; a form that succeeded has posted
\* (frontend/lib/api.ts:151, "You can safely retry this pending action.").
SubmissionsPostOnce ==
  /\ \A k, l \in rows : k[1] = l[1] /\ k[2] < l[2] => k \in dropped
  /\ \A f \in Forms : told[f] => \E k \in rows : k[1] = f
  /\ \A k \in rows \ dropped : k \in Kept \/ told[k[1]]

\* A request is authenticated neither by a session that a logout ended, nor
\* after its time, whatever cookie it carried when it was sent.
SessionsEnd ==
  [][\A r \in admitted' \ admitted : r.token \in Tokens \ (ended \cup expired)]_vars

=============================================================================
