----------------------------- MODULE ClientProofs -----------------------------
(***************************************************************************)
(* Theorems of Client, for every set of forms and tokens and every bound.  *)
(*                                                                         *)
(* Which rows there are depends on requests that may be served long after  *)
(* their form forgot them.  What ties them to the form is the last key     *)
(* that it made: all earlier ones were dropped, the last is kept, dropped  *)
(* or seen to succeed (KeysAreAccountedFor), and a request or an answer,   *)
(* however late, is about a key that was made (MessagesAreKnown).          *)
(***************************************************************************)
EXTENDS Client, TLAPS

\* The key that a form made last.
LastKey(f) == <<f, made[f]>>

MadeKeys == {k \in Keys : k[2] <= made[k[1]]}

Types ==
  /\ made \in [Forms -> 0..MaxKeys]
  /\ pending \in [Forms -> Keys \cup {NoKey}]
  /\ told \in [Forms -> BOOLEAN]
  /\ DOMAIN sending = Forms
  /\ rows \subseteq MadeKeys

Logouts == {Attempt("logout", NoKey, 1)}

\* An attempt of a form submits one of its keys.
Attempts == {Attempt(k[1], k, n) : k \in MadeKeys, n \in Nat}

\* A form retries and waits for its last key alone.
FormsKeepTheLastKey ==
  \A f \in Forms :
    /\ pending[f] # NoKey => pending[f] = LastKey(f)
    /\ IsSending(f) => sending[f] \in Attempts /\ sending[f].key = LastKey(f)

\* What a form submitted before, it gave up; what it submitted last, it knows
\* or gave up, unless it succeeded.
KeysAreAccountedFor ==
  \A f \in Forms :
    /\ \A n \in 1..MaxKeys : n < made[f] => <<f, n>> \in dropped
    /\ made[f] > 0 => \/ LastKey(f) \in dropped
                      \/ told[f]
                      \/ pending[f] = LastKey(f)
                      \/ IsSending(f) /\ sending[f].key = LastKey(f)

AnswerKinds == {"posted", "error", "unauthorized", "logged_out"}

MessagesAreKnown ==
  /\ open \subseteq Attempts \cup Logouts
  /\ \A r \in requests : r.attempt \in Attempts \cup Logouts
  /\ \A r \in admitted : r.attempt \in Attempts
  /\ \A x \in answers : /\ x.kind \in AnswerKinds
                        /\ x.attempt \in Attempts \cup Logouts
                        /\ x.kind = "posted" => x.attempt \in Attempts /\ x.attempt.key \in rows

SuccessesHaveRows == \A f \in Forms : told[f] => \E k \in rows : k[1] = f

\* A session that was logged out is no session again.
EndedSessionsStayEnded == sessions \subseteq Tokens \ ended

IInv ==
  /\ Types
  /\ FormsKeepTheLastKey
  /\ KeysAreAccountedFor
  /\ MessagesAreKnown
  /\ SuccessesHaveRows
  /\ EndedSessionsStayEnded

-----------------------------------------------------------------------------
(* Attempts *)

LEMMA AttemptsAre ==
  /\ \A a \in Attempts : /\ a.form \in Forms /\ a.key \in MadeKeys /\ a.key[1] = a.form
                         /\ a # NoAttempt /\ a.form # "logout" /\ a.key \in Keys /\ a.key # NoKey
  /\ \A a \in Logouts : a.form = "logout"
<1>1. ASSUME NEW k \in MadeKeys, NEW n \in Nat
      PROVE  LET a == Attempt(k[1], k, n) IN
             /\ a.form \in Forms /\ a.key \in MadeKeys /\ a.key[1] = a.form
             /\ a # NoAttempt /\ a.form # "logout" /\ a.key \in Keys /\ a.key # NoKey
  BY NullAssumption DEF Attempt, MadeKeys, Keys
<1>2. Attempt("logout", NoKey, 1).form = "logout"
  BY DEF Attempt
<1> QED
  BY <1>1, <1>2 DEF Attempts, Logouts

\* A form in Forms that has made a key attempts it.
LEMMA LastKeyIsMade ==
  ASSUME Types, NEW f \in Forms, made[f] > 0, NEW n \in Nat
  PROVE  LastKey(f) \in MadeKeys /\ Attempt(f, LastKey(f), n) \in Attempts
<1>1. LastKey(f) \in MadeKeys /\ LastKey(f)[1] = f
  BY DEF LastKey, MadeKeys, Keys, Types
<1> QED
  BY <1>1 DEF Attempts

\* Keys that were made stay made.
LEMMA AttemptsGrow ==
  ASSUME Types, Types', \A f \in Forms : made[f] <= made'[f]
  PROVE  MadeKeys \subseteq MadeKeys' /\ Attempts \subseteq Attempts'
<1>1. ASSUME NEW k \in MadeKeys PROVE k \in MadeKeys'
  <2>1. k \in Keys /\ k[1] \in Forms /\ k[2] \in 1..MaxKeys /\ k[2] <= made[k[1]]
    BY DEF MadeKeys, Keys
  <2>2. made[k[1]] \in Nat /\ made'[k[1]] \in Nat /\ made[k[1]] <= made'[k[1]]
    BY <2>1, BoundAssumption DEF Types
  <2> QED
    BY <2>1, <2>2, BoundAssumption DEF MadeKeys, Keys
<1> QED
  BY <1>1 DEF Attempts

LEMMA AttemptsUnchanged ==
  ASSUME UNCHANGED made
  PROVE  MadeKeys' = MadeKeys /\ Attempts' = Attempts
BY DEF MadeKeys, Attempts

LEMMA FormsUnchanged ==
  ASSUME FormsKeepTheLastKey, KeysAreAccountedFor, UNCHANGED <<pending, sending, made, told, dropped>>
  PROVE  FormsKeepTheLastKey' /\ KeysAreAccountedFor'
BY AttemptsUnchanged DEF FormsKeepTheLastKey, KeysAreAccountedFor, LastKey, IsSending

\* What forms know is dropped when they are unmounted.
LEMMA UnmountKeepsForms ==
  ASSUME IInv, Unmount, UNCHANGED <<made, told, rows>>
  PROVE  FormsKeepTheLastKey' /\ KeysAreAccountedFor' /\ Types'
<1>1. \A f \in Forms : /\ pending[f] # NoKey => pending[f] \in dropped'
                       /\ IsSending(f) => sending[f].key \in dropped'
  <2>1. \A f \in Forms : /\ pending[f] # NoKey => pending[f] \in Kept
                         /\ IsSending(f) => sending[f].key \in Kept
    BY AttemptsAre DEF Kept, IInv, FormsKeepTheLastKey
  <2> QED
    BY <2>1 DEF Unmount
<1>2. \A f \in Forms : pending'[f] = NoKey /\ ~ IsSending(f)'
  BY DEF Unmount, IsSending
<1>3. ASSUME NEW f \in Forms, made[f] > 0
      PROVE  LastKey(f) \in dropped' \/ told[f]
  <2>1. pending[f] = LastKey(f) => pending[f] # NoKey
    BY <1>3, NullAssumption, BoundAssumption DEF LastKey, IInv, Types
  <2> QED
    BY <1>1, <1>3, <2>1 DEF IInv, KeysAreAccountedFor, Unmount
<1>4. dropped \subseteq dropped'
  BY DEF Unmount
<1>5. Types'
  BY AttemptsUnchanged DEF IInv, Types, Unmount
<1> QED
  BY <1>2, <1>3, <1>4, <1>5 DEF IInv, KeysAreAccountedFor, FormsKeepTheLastKey, LastKey
-----------------------------------------------------------------------------
(* The page *)

LEMMA InitIInv == Init => IInv
<1> SUFFICES ASSUME Init PROVE IInv
  OBVIOUS
<1> QED
  BY BoundAssumption DEF Init, IInv, Types, FormsKeepTheLastKey, KeysAreAccountedFor, MessagesAreKnown,
     SuccessesHaveRows, EndedSessionsStayEnded, IsSending

\* What forms send when they submit or retry.
LEMMA SentIsKnown ==
  ASSUME IInv, Types', MadeKeys \subseteq MadeKeys', Attempts \subseteq Attempts',
         NEW a \in Attempts' \cup Logouts, Fetch(a), UNCHANGED <<admitted, rows>>
  PROVE  MessagesAreKnown'
<1>1. \A r \in requests' : r \in requests \/ r.attempt = a
  BY DEF Fetch
<1>2. Logouts' = Logouts
  BY DEF Logouts
<1>3. \A r \in requests' : r.attempt \in (Attempts \cup Logouts)'
  BY <1>1, <1>2 DEF IInv, MessagesAreKnown
<1>4. UNCHANGED answers /\ open' \subseteq (Attempts \cup Logouts)'
  BY <1>2 DEF Fetch, IInv, MessagesAreKnown
<1>5. \A r \in admitted' : r.attempt \in Attempts'
  BY DEF IInv, MessagesAreKnown
<1>6. \A x \in answers' : /\ x.kind \in AnswerKinds
                          /\ x.attempt \in (Attempts \cup Logouts)'
                          /\ x.kind = "posted" => x.attempt \in Attempts' /\ x.attempt.key \in rows'
  BY <1>2, <1>4 DEF IInv, MessagesAreKnown
<1> QED
  BY <1>3, <1>4, <1>5, <1>6 DEF MessagesAreKnown, AnswerKinds

LEMMA ServerUnchanged ==
  ASSUME IInv, UNCHANGED <<told, rows, sessions, ended>>
  PROVE  SuccessesHaveRows' /\ EndedSessionsStayEnded'
BY DEF IInv, SuccessesHaveRows, EndedSessionsStayEnded

LEMMA SubmitPreserves ==
  ASSUME IInv, NEW f \in Forms, Submit(f)
  PROVE  IInv'
<1> DEFINE key == <<f, made[f] + 1>>
           a == Attempt(f, key, 1)
<1>1. /\ pending[f] = NoKey /\ ~ told[f] /\ made[f] < MaxKeys /\ ~ IsSending(f)
      /\ made' = [made EXCEPT ![f] = @ + 1]
      /\ sending' = [sending EXCEPT ![f] = a]
      /\ Fetch(a)
      /\ UNCHANGED <<pending, told, dropped, admitted, rows, sessions, ended>>
  BY DEF Submit, Send, server
<1>2. made \in [Forms -> 0..MaxKeys] /\ made[f] \in Nat /\ MaxKeys \in Nat
  BY BoundAssumption DEF IInv, Types
<1>3. made' \in [Forms -> 0..MaxKeys] /\ \A g \in Forms : made[g] <= made'[g]
  <2>1. made[f] + 1 \in 0..MaxKeys
    BY <1>1, <1>2
  <2> QED
    BY <1>1, <1>2, <2>1
<1>4. MadeKeys \subseteq MadeKeys'
  <2>1. ASSUME NEW k \in MadeKeys PROVE k \in MadeKeys'
    <3>1. k \in Keys /\ k[1] \in Forms /\ k[2] \in Nat /\ k[2] <= made[k[1]]
      BY DEF MadeKeys, Keys
    <3>2. made[k[1]] \in Nat /\ made'[k[1]] \in Nat
      BY <1>2, <1>3, <3>1
    <3> QED
      BY <1>3, <3>1, <3>2 DEF MadeKeys
  <2> QED
    BY <2>1
<1>5. Types'
  BY <1>1, <1>3, <1>4 DEF IInv, Types
<1>6. Attempts \subseteq Attempts'
  BY <1>3, <1>5, AttemptsGrow DEF IInv
<1>7. made'[f] = made[f] + 1 /\ \A g \in Forms \ {f} : made'[g] = made[g]
  BY <1>1, <1>2
<1>8. key = LastKey(f)' /\ key[1] = f
  BY <1>7 DEF LastKey
<1>9. a \in Attempts'
  <2>1. key \in MadeKeys'
    BY <1>1, <1>2, <1>7 DEF MadeKeys, Keys
  <2> QED
    BY <1>8, <2>1 DEF Attempts
<1>10. a.key = key /\ a # NoAttempt
  BY <1>9, AttemptsAre, NullAssumption, <1>1, <1>2 DEF Attempt, Keys
<1>11. MessagesAreKnown'
  BY <1>1, <1>4, <1>5, <1>6, <1>9, SentIsKnown
<1>12. FormsKeepTheLastKey'
  <2>1. ASSUME NEW g \in Forms \ {f}
        PROVE  /\ pending[g] # NoKey => pending[g] = LastKey(g)'
               /\ sending'[g] # NoAttempt => sending'[g] \in Attempts' /\ sending'[g].key = LastKey(g)'
    BY <1>1, <1>6, <1>7 DEF IInv, FormsKeepTheLastKey, LastKey, IsSending
  <2>2. sending'[f] = a
    BY <1>1 DEF IInv, Types
  <2> QED
    BY <1>1, <1>8, <1>9, <1>10, <2>1, <2>2 DEF FormsKeepTheLastKey, IsSending
<1>13. KeysAreAccountedFor'
  <2>1. ASSUME NEW g \in Forms \ {f}
        PROVE  /\ \A n \in 1..MaxKeys : n < made'[g] => <<g, n>> \in dropped
               /\ made'[g] > 0 => \/ LastKey(g)' \in dropped
                                  \/ told[g]
                                  \/ pending[g] = LastKey(g)'
                                  \/ sending'[g] # NoAttempt /\ sending'[g].key = LastKey(g)'
    BY <1>1, <1>7 DEF IInv, KeysAreAccountedFor, LastKey, IsSending
  <2>2. sending'[f] = a
    BY <1>1 DEF IInv, Types
  <2>3. ASSUME NEW n \in 1..MaxKeys, n < made'[f]
        PROVE  <<f, n>> \in dropped
    <3>1. CASE n < made[f]
      BY <3>1 DEF IInv, KeysAreAccountedFor
    <3>2. CASE n = made[f]
      <4>1. LastKey(f) # NoKey
        BY <3>2, NullAssumption DEF LastKey
      <4> QED
        BY <1>1, <1>2, <3>2, <4>1 DEF IInv, KeysAreAccountedFor, LastKey
    <3> QED
      BY <1>2, <1>7, <2>3, <3>1, <3>2
  <2> QED
    BY <1>1, <1>8, <1>10, <2>1, <2>2, <2>3 DEF KeysAreAccountedFor, IsSending
<1> QED
  BY <1>1, <1>5, <1>11, <1>12, <1>13, ServerUnchanged DEF IInv

LEMMA RetryPreserves ==
  ASSUME IInv, NEW f \in Forms, NEW n \in 2..MaxAttempts, Retry(f, n)
  PROVE  IInv'
<1> DEFINE a == Attempt(f, pending[f], n)
<1>1. /\ pending[f] # NoKey /\ ~ IsSending(f)
      /\ sending' = [sending EXCEPT ![f] = a]
      /\ Fetch(a)
      /\ UNCHANGED <<made, pending, told, dropped, admitted, rows, sessions, ended>>
  BY DEF Retry, Send, server
<1>2. pending[f] = LastKey(f) /\ pending[f] \in Keys
  BY <1>1 DEF IInv, Types, FormsKeepTheLastKey
<1>3. made[f] \in Nat /\ made[f] > 0
  BY <1>2, BoundAssumption DEF IInv, Types, LastKey, Keys
<1>4. n \in Nat
  BY BoundAssumption
<1>5. a \in Attempts /\ a.key = LastKey(f) /\ a # NoAttempt
  BY <1>2, <1>3, <1>4, LastKeyIsMade, AttemptsAre DEF IInv, Attempt
<1>6. Types' /\ Attempts' = Attempts /\ MadeKeys' = MadeKeys
  BY <1>1, AttemptsUnchanged DEF IInv, Types
<1>7. MessagesAreKnown'
  BY <1>1, <1>5, <1>6, SentIsKnown
<1>8. \A g \in Forms : sending'[g] = IF g = f THEN a ELSE sending[g]
  BY <1>1 DEF IInv, Types
<1>9. FormsKeepTheLastKey'
  BY <1>1, <1>2, <1>5, <1>6, <1>8 DEF IInv, FormsKeepTheLastKey, LastKey, IsSending
<1>10. KeysAreAccountedFor'
  BY <1>1, <1>2, <1>8 DEF IInv, KeysAreAccountedFor, LastKey, IsSending
<1> QED
  BY <1>1, <1>6, <1>7, <1>9, <1>10, ServerUnchanged DEF IInv

\* What the server and the network know, when the page alone changes.
LEMMA NothingIsSent ==
  ASSUME IInv, UNCHANGED <<made, rows, admitted, told, sessions, ended>>,
         requests' \subseteq requests, answers' \subseteq answers, open' \subseteq open
  PROVE  MessagesAreKnown' /\ SuccessesHaveRows' /\ EndedSessionsStayEnded'
BY AttemptsUnchanged, ServerUnchanged DEF IInv, MessagesAreKnown, Logouts

LEMMA TurnPreserves ==
  ASSUME IInv, SwitchView \/ Reload \/ ReadRefused
  PROVE  IInv'
<1>1. /\ UNCHANGED <<made, rows, admitted, told, sessions, ended>>
      /\ requests' = requests /\ answers' \subseteq answers
      /\ open' \subseteq open
  BY DEF SwitchView, Reload, ReadRefused, network, server
<1>2. Unmount \/ UNCHANGED <<pending, sending, made, told, dropped>>
  BY <1>1 DEF SwitchView, Reload, ReadRefused, ShowLogin
<1>3. Types' /\ FormsKeepTheLastKey' /\ KeysAreAccountedFor'
  <2>1. CASE Unmount
    BY <1>1, <2>1, UnmountKeepsForms
  <2>2. CASE UNCHANGED <<pending, sending, made, told, dropped>>
    BY <1>1, <2>2, FormsUnchanged, AttemptsUnchanged DEF IInv, Types
  <2> QED
    BY <1>2, <2>1, <2>2
<1> QED
  BY <1>1, <1>3, NothingIsSent DEF IInv

LEMMA LogoutPreserves ==
  ASSUME IInv, Logout
  PROVE  IInv'
<1> DEFINE a == Attempt("logout", NoKey, 1)
<1>1. Fetch(a) /\ UNCHANGED <<pending, sending, made, told, dropped, admitted, rows, sessions, ended>>
  BY DEF Logout, server
<1>2. Types' /\ Attempts' = Attempts /\ MadeKeys' = MadeKeys
  BY <1>1, AttemptsUnchanged DEF IInv, Types
<1>3. MessagesAreKnown'
  BY <1>1, <1>2, SentIsKnown DEF Logouts
<1> QED
  BY <1>1, <1>2, <1>3, FormsUnchanged, ServerUnchanged DEF IInv

\* A form that is still mounted learns of the end of an attempt of its own.
LEMMA FormKnowsItsKey ==
  ASSUME IInv, NEW a \in Attempts \cup Logouts, FormKnows(a)
  PROVE  a \in Attempts /\ a.form \in Forms /\ IsSending(a.form) /\ a.key = LastKey(a.form) /\ a.key \in Keys
<1>1. a \in Attempts /\ a.form \in Forms /\ sending[a.form] = a
  BY NullAssumption, AttemptsAre DEF FormKnows
<1> QED
  BY <1>1, AttemptsAre DEF IInv, FormsKeepTheLastKey, IsSending

\* It keeps or drops its key.
LEMMA OneFormSettles ==
  ASSUME IInv, NEW a \in Attempts \cup Logouts, FormKnows(a), NEW known \in {NoKey, a.key},
         sending' = [sending EXCEPT ![a.form] = NoAttempt],
         pending' = [pending EXCEPT ![a.form] = known],
         dropped \subseteq dropped', known = NoKey => a.key \in dropped',
         UNCHANGED <<made, told, rows>>
  PROVE  Types' /\ FormsKeepTheLastKey' /\ KeysAreAccountedFor'
<1> DEFINE f == a.form
<1>1. f \in Forms /\ IsSending(f) /\ a.key = LastKey(f) /\ a.key \in Keys
  BY FormKnowsItsKey
<1>2. \A g \in Forms : /\ pending'[g] = IF g = f THEN known ELSE pending[g]
                       /\ sending'[g] = IF g = f THEN NoAttempt ELSE sending[g]
  BY DEF IInv, Types
<1>3. Types'
  BY <1>1, AttemptsUnchanged DEF IInv, Types
<1>4. FormsKeepTheLastKey'
  BY <1>1, <1>2, AttemptsUnchanged DEF IInv, FormsKeepTheLastKey, LastKey, IsSending
<1>5. KeysAreAccountedFor'
  BY <1>1, <1>2 DEF IInv, KeysAreAccountedFor, LastKey, IsSending
<1> QED
  BY <1>3, <1>4, <1>5

LEMMA SettledFormsAre ==
  ASSUME IInv, NEW a \in Attempts \cup Logouts, GiveUp(a) \/ Keep(a), UNCHANGED <<made, told, rows>>
  PROVE  Types' /\ FormsKeepTheLastKey' /\ KeysAreAccountedFor'
<1>1. CASE ~ FormKnows(a)
  <2>1. UNCHANGED <<pending, sending, dropped>>
    BY <1>1 DEF GiveUp, Keep
  <2> QED
    BY <2>1, FormsUnchanged, AttemptsUnchanged DEF IInv, Types
<1>2. CASE FormKnows(a) /\ GiveUp(a)
  <2>1. /\ sending' = [sending EXCEPT ![a.form] = NoAttempt]
        /\ pending' = [pending EXCEPT ![a.form] = NoKey]
        /\ dropped' = dropped \cup {a.key}
    BY <1>2 DEF GiveUp
  <2> QED
    BY <1>2, <2>1, OneFormSettles
<1>3. CASE FormKnows(a) /\ Keep(a)
  <2>1. /\ sending' = [sending EXCEPT ![a.form] = NoAttempt]
        /\ pending' = [pending EXCEPT ![a.form] = a.key]
        /\ dropped' = dropped
    BY <1>3 DEF Keep
  <2>2. a.key # NoKey
    BY <1>3, FormKnowsItsKey, NullAssumption DEF Keys
  <2> QED
    BY <1>3, <2>1, <2>2, OneFormSettles
<1> QED
  BY <1>1, <1>2, <1>3

\* One form succeeded, all are unmounted: the last key of every other is dropped.
LEMMA SucceededFormsAre ==
  ASSUME IInv, NEW a \in Attempts, a.key \in rows, Succeed(a), UNCHANGED <<made, rows>>
  PROVE  Types' /\ FormsKeepTheLastKey' /\ KeysAreAccountedFor' /\ SuccessesHaveRows'
<1>1. \A f \in Forms : sending[f] = a => IsSending(f) /\ f = a.form /\ a.key = LastKey(f) /\ a.key[1] = f
  BY AttemptsAre DEF IInv, FormsKeepTheLastKey, IsSending, LastKey
<1>2. \A f \in Forms : told'[f] = (told[f] \/ sending[f] = a)
  BY DEF Succeed
<1>3. Types'
  BY AttemptsUnchanged DEF IInv, Types, Succeed
<1>4. FormsKeepTheLastKey'
  BY DEF FormsKeepTheLastKey, IsSending, Succeed
<1>5. SuccessesHaveRows'
  BY <1>1, <1>2 DEF IInv, SuccessesHaveRows
<1>6. ASSUME NEW f \in Forms, made[f] > 0
      PROVE  LastKey(f) \in dropped' \/ told'[f]
  <2>1. CASE LastKey(f) \in dropped \/ told[f] \/ sending[f] = a
    BY <1>2, <2>1 DEF Succeed
  <2>2. CASE /\ sending[f] # a
             /\ pending[f] = LastKey(f) \/ (IsSending(f) /\ sending[f].key = LastKey(f))
    <3>1. LastKey(f) # NoKey
      BY <1>6, NullAssumption DEF LastKey, IInv, Types
    <3>2. LastKey(f) \in Kept
      BY <2>2, <3>1 DEF Kept
    <3>3. ASSUME NEW g \in Forms, sending[g] = a
          PROVE  sending[g].key # LastKey(f)
      BY <1>1, <2>2, <3>3 DEF LastKey
    <3> QED
      BY <3>2, <3>3 DEF Succeed
  <2> QED
    BY <1>6, <2>1, <2>2 DEF IInv, KeysAreAccountedFor
<1>7. KeysAreAccountedFor'
  <2>1. dropped \subseteq dropped'
    BY DEF Succeed
  <2> QED
    BY <1>6, <2>1 DEF IInv, KeysAreAccountedFor, LastKey
<1> QED
  BY <1>3, <1>4, <1>5, <1>7

LEMMA DeliverPreserves ==
  ASSUME IInv, NEW x \in answers, Deliver(x)
  PROVE  IInv'
<1>1. /\ UNCHANGED <<made, requests, admitted, rows, sessions, ended>>
      /\ answers' \subseteq answers /\ open' \subseteq open
  BY DEF Deliver, Settled, server
<1>2. /\ x.kind \in AnswerKinds /\ x.attempt \in Attempts \cup Logouts
      /\ x.kind = "posted" => x.attempt \in Attempts /\ x.attempt.key \in rows
  BY DEF IInv, MessagesAreKnown
<1>3. CASE x.kind = "posted"
  <2>1. Succeed(x.attempt)
    BY <1>3 DEF Deliver
  <2>2. Types' /\ FormsKeepTheLastKey' /\ KeysAreAccountedFor' /\ SuccessesHaveRows'
    BY <1>1, <1>2, <1>3, <2>1, SucceededFormsAre
  <2>3. MessagesAreKnown' /\ EndedSessionsStayEnded'
    BY <1>1, AttemptsUnchanged DEF IInv, MessagesAreKnown, Logouts, EndedSessionsStayEnded
  <2> QED
    BY <2>2, <2>3 DEF IInv
<1>4. CASE x.kind = "error"
  <2>1. GiveUp(x.attempt) /\ UNCHANGED told
    BY <1>4 DEF Deliver
  <2>2. Types' /\ FormsKeepTheLastKey' /\ KeysAreAccountedFor'
    BY <1>1, <1>2, <2>1, SettledFormsAre
  <2> QED
    BY <1>1, <2>1, <2>2, NothingIsSent DEF IInv
<1>5. CASE x.kind \in {"unauthorized", "logged_out"}
  <2>1. Unmount /\ UNCHANGED told
    BY <1>5 DEF Deliver, ShowLogin
  <2>2. Types' /\ FormsKeepTheLastKey' /\ KeysAreAccountedFor'
    BY <1>1, <2>1, UnmountKeepsForms
  <2> QED
    BY <1>1, <2>1, <2>2, NothingIsSent DEF IInv
<1> QED
  BY <1>2, <1>3, <1>4, <1>5 DEF AnswerKinds

LEMMA DisconnectPreserves ==
  ASSUME IInv, NEW a \in open, Disconnect(a)
  PROVE  IInv'
<1>1. /\ UNCHANGED <<made, told, admitted, rows, sessions, ended>>
      /\ requests' \subseteq requests /\ answers' \subseteq answers /\ open' \subseteq open
  BY DEF Disconnect, Settled, server
<1>2. a \in Attempts \cup Logouts
  BY DEF IInv, MessagesAreKnown
<1>3. Unmount \/ Keep(a)
  BY DEF Disconnect, ShowLogin
<1>4. Types' /\ FormsKeepTheLastKey' /\ KeysAreAccountedFor'
  BY <1>1, <1>2, <1>3, UnmountKeepsForms, SettledFormsAre
<1> QED
  BY <1>1, <1>4, NothingIsSent DEF IInv

LEMMA LoginPreserves ==
  ASSUME IInv, NEW token \in Tokens, Login(token)
  PROVE  IInv'
<1>1. /\ UNCHANGED <<made, told, pending, sending, dropped, open, requests, answers, admitted, rows, ended>>
      /\ sessions' = sessions \cup {token} /\ token \notin ended
  BY DEF Login, network
<1> QED
  BY <1>1, FormsUnchanged, AttemptsUnchanged
     DEF IInv, Types, MessagesAreKnown, Logouts, SuccessesHaveRows, EndedSessionsStayEnded

-----------------------------------------------------------------------------
(* The server *)

LEMMA AnswersAreKnown ==
  ASSUME IInv, NEW a \in Attempts \cup Logouts, NEW kind \in AnswerKinds, AnswerWith(a, kind),
         UNCHANGED made, rows \subseteq rows', kind = "posted" => a \in Attempts /\ a.key \in rows',
         requests' \subseteq requests, admitted' \subseteq admitted \cup {r \in requests : r.attempt.form \in Forms},
         UNCHANGED open
  PROVE  MessagesAreKnown'
<1>1. Attempts' = Attempts /\ Logouts' = Logouts
  BY AttemptsUnchanged DEF Logouts
<1>2. \A x \in answers' : x \in answers \/ x = [attempt |-> a, kind |-> kind]
  BY DEF AnswerWith
<1>3. \A r \in admitted' : r.attempt \in Attempts
  BY NullAssumption, AttemptsAre DEF IInv, MessagesAreKnown
<1> QED
  BY <1>1, <1>2, <1>3 DEF IInv, MessagesAreKnown, AnswerKinds

LEMMA AuthorizePreserves ==
  ASSUME IInv, NEW r \in requests, Authorize(r)
  PROVE  IInv'
<1>1. /\ UNCHANGED <<made, told, pending, sending, dropped, open, rows, sessions, ended>>
      /\ requests' \subseteq requests /\ r.attempt.form \in Forms
      /\ \/ admitted' = admitted \cup {r} /\ UNCHANGED answers
         \/ AnswerWith(r.attempt, "unauthorized") /\ UNCHANGED admitted
  BY DEF Authorize, page
<1>2. r.attempt \in Attempts
  BY <1>1, NullAssumption, AttemptsAre DEF IInv, MessagesAreKnown
<1>3. MessagesAreKnown'
  <2>1. CASE admitted' = admitted \cup {r} /\ UNCHANGED answers
    BY <1>1, <1>2, <2>1, AttemptsUnchanged DEF IInv, MessagesAreKnown, Logouts
  <2>2. CASE AnswerWith(r.attempt, "unauthorized") /\ UNCHANGED admitted
    BY <1>1, <1>2, <2>2, AnswersAreKnown DEF AnswerKinds
  <2> QED
    BY <1>1, <2>1, <2>2
<1> QED
  BY <1>1, <1>3, FormsUnchanged, ServerUnchanged, AttemptsUnchanged DEF IInv, Types

LEMMA ServePreserves ==
  ASSUME IInv, NEW r \in admitted, Serve(r)
  PROVE  IInv'
<1>1. PICK commits \in BOOLEAN, kind \in {"posted", "error"} :
        /\ kind = "posted" => commits
        /\ rows' = IF commits THEN rows \cup {r.attempt.key} ELSE rows
        /\ AnswerWith(r.attempt, kind)
  BY DEF Serve
<1>2. /\ UNCHANGED <<made, told, pending, sending, dropped, open, requests, sessions, ended>>
      /\ admitted' \subseteq admitted
  BY DEF Serve, page
<1>3. r.attempt \in Attempts /\ r.attempt.key \in MadeKeys
  BY AttemptsAre DEF IInv, MessagesAreKnown
<1>4. rows \subseteq rows' /\ rows' \subseteq rows \cup {r.attempt.key}
      /\ (kind = "posted" => r.attempt.key \in rows')
  BY <1>1
<1>5. MessagesAreKnown'
  BY <1>1, <1>2, <1>3, <1>4, AnswersAreKnown DEF AnswerKinds
<1>6. Types' /\ SuccessesHaveRows' /\ EndedSessionsStayEnded'
  BY <1>2, <1>3, <1>4, AttemptsUnchanged DEF IInv, Types, SuccessesHaveRows, EndedSessionsStayEnded
<1> QED
  BY <1>2, <1>5, <1>6, FormsUnchanged DEF IInv

LEMMA ServeLogoutPreserves ==
  ASSUME IInv, NEW r \in requests, ServeLogout(r)
  PROVE  IInv'
<1>1. /\ UNCHANGED <<made, told, pending, sending, dropped, open, admitted, rows>>
      /\ requests' \subseteq requests /\ AnswerWith(r.attempt, "logged_out")
      /\ sessions' = sessions \ {r.token} /\ ended' = ended \cup ({r.token} \ {NoToken})
  BY DEF ServeLogout, page, DeleteSession
<1>2. r.attempt \in Attempts \cup Logouts
  BY DEF IInv, MessagesAreKnown
<1>3. MessagesAreKnown'
  BY <1>1, <1>2, AnswersAreKnown DEF AnswerKinds
<1>4. Types' /\ SuccessesHaveRows' /\ EndedSessionsStayEnded'
  BY <1>1, AttemptsUnchanged DEF IInv, Types, SuccessesHaveRows, EndedSessionsStayEnded
<1> QED
  BY <1>1, <1>3, <1>4, FormsUnchanged DEF IInv

LEMMA UnchangedPreserves ==
  ASSUME IInv, UNCHANGED vars \/ \E token \in Tokens : Expire(token)
  PROVE  IInv'
<1>1. UNCHANGED <<made, told, pending, sending, dropped, open, requests, answers, admitted, rows, sessions, ended>>
  BY DEF vars, page, network, server, Expire
<1> QED
  BY <1>1, FormsUnchanged, AttemptsUnchanged, ServerUnchanged DEF IInv, Types, MessagesAreKnown, Logouts

LEMMA NextPreservesIInv == IInv /\ [Next]_vars => IInv'
<1> SUFFICES ASSUME IInv, [Next]_vars PROVE IInv'
  OBVIOUS
<1>1. CASE \E f \in Forms : Submit(f)
  BY <1>1, SubmitPreserves
<1>2. CASE \E f \in Forms, n \in 2..MaxAttempts : Retry(f, n)
  BY <1>2, RetryPreserves
<1>3. CASE SwitchView \/ Reload \/ ReadRefused
  BY <1>3, TurnPreserves
<1>4. CASE Logout
  BY <1>4, LogoutPreserves
<1>5. CASE \E x \in answers : Deliver(x)
  BY <1>5, DeliverPreserves
<1>6. CASE \E a \in open : Disconnect(a)
  BY <1>6, DisconnectPreserves
<1>7. CASE \E token \in Tokens : Login(token)
  BY <1>7, LoginPreserves
<1>8. CASE \E r \in requests : Authorize(r) \/ ServeLogout(r)
  BY <1>8, AuthorizePreserves, ServeLogoutPreserves
<1>9. CASE \E r \in admitted : Serve(r)
  BY <1>9, ServePreserves
<1>10. CASE UNCHANGED vars \/ \E token \in Tokens : Expire(token)
  BY <1>10, UnchangedPreserves
<1> QED
  BY <1>1, <1>2, <1>3, <1>4, <1>5, <1>6, <1>7, <1>8, <1>9, <1>10 DEF Next

-----------------------------------------------------------------------------
(* Theorems *)

\* Whatever is lost, late or retried, a movement is posted under a second key
\* only after its form gave the first one up, and a form that saw success has
\* posted (use-idempotent-mutation.ts and the service's claim of the key).
THEOREM ClientSubmissionsPostOnce == Spec => []SubmissionsPostOnce
<1>1. IInv => SubmissionsPostOnce
  <2> SUFFICES ASSUME IInv PROVE SubmissionsPostOnce
    OBVIOUS
  <2>1. ASSUME NEW k \in rows
        PROVE  /\ k[1] \in Forms /\ k[2] \in 1..MaxKeys /\ k = <<k[1], k[2]>>
               /\ k[2] <= made[k[1]] /\ made[k[1]] \in 1..MaxKeys
    BY BoundAssumption DEF IInv, Types, MadeKeys, Keys
  <2>2. ASSUME NEW k \in rows, NEW l \in rows, k[1] = l[1], k[2] < l[2]
        PROVE  k \in dropped
    <3>1. k[2] < made[k[1]]
      BY <2>1, <2>2
    <3> QED
      BY <2>1, <3>1 DEF IInv, KeysAreAccountedFor
  <2>3. ASSUME NEW k \in rows \ dropped
        PROVE  k \in Kept \/ told[k[1]]
    <3> DEFINE f == k[1]
    <3>1. k = LastKey(f)
      <4>1. ~ (k[2] < made[f])
        BY <2>1 DEF IInv, KeysAreAccountedFor
      <4> QED
        BY <2>1, <4>1 DEF LastKey
    <3>2. k # NoKey
      BY NullAssumption, <2>1
    <3>3. told[f] \/ pending[f] = k \/ (IsSending(f) /\ sending[f].key = k)
      BY <2>1, <3>1 DEF IInv, KeysAreAccountedFor
    <3> QED
      BY <2>1, <3>2, <3>3 DEF Kept
  <2>4. \A f \in Forms : told[f] => \E k \in rows : k[1] = f
    BY DEF IInv, SuccessesHaveRows
  <2> QED
    BY <2>2, <2>3, <2>4 DEF SubmissionsPostOnce
<1> QED
  BY <1>1, InitIInv, NextPreservesIInv, PTL DEF Spec

\* No request is authenticated by a session that was logged out or is over,
\* whatever cookie it was sent with (FindOwnerBySession, DeleteSession).
THEOREM ClientSessionsEnd == Spec => SessionsEnd
<1> DEFINE Live == \A r \in admitted' \ admitted : r.token \in Tokens \ (ended \cup expired)
<1>1. IInv /\ [Next]_vars => [Live]_vars
  <2> SUFFICES ASSUME IInv, Next PROVE Live
    OBVIOUS
  <2>1. CASE \E r \in requests : Authorize(r)
    <3>1. PICK q \in requests : Authorize(q)
      BY <2>1
    <3>2. \A r \in admitted' \ admitted : r = q /\ IsAuthenticated(q.token)
      BY <3>1 DEF Authorize
    <3> QED
      BY <3>2 DEF IsAuthenticated, IInv, EndedSessionsStayEnded
  <2>2. CASE ~ \E r \in requests : Authorize(r)
    <3>1. admitted' \subseteq admitted
      BY <2>2 DEF Next, Submit, Retry, Send, SwitchView, Logout, Reload, ReadRefused, Deliver, Disconnect,
         Login, Expire, ServeLogout, Serve, server
    <3> QED
      BY <3>1
  <2> QED
    BY <2>1, <2>2
<1> QED
  BY <1>1, InitIInv, NextPreservesIInv, PTL DEF Spec, SessionsEnd

=============================================================================
