------------------------------ MODULE Sessions ------------------------------
(***************************************************************************)
(* The refresh tokens of the auth service.  A login stores a session with  *)
(* a token that nobody can guess; a refresh finds the session, deletes it  *)
(* and stores another one with a new token, in three statements without a  *)
(* transaction; logging out deletes one session or all those of the user.  *)
(* The token that registering returns has no session.                      *)
(*                                                                         *)
(* Users are active and stay (no operation changes that); passwords,       *)
(* access tokens and profiles are left out.                                *)
(***************************************************************************)
EXTENDS Integers, FiniteSets, Sequences

CONSTANTS
  User,
  Call,          \* refreshes and logouts that are served at once
  MaxTokens,     \* bound on refresh tokens issued
  MaxLostDeletes \* bound on deletes that fail in a refresh

ASSUME TokenAssumption == MaxTokens \in Nat /\ MaxLostDeletes \in Nat

VARIABLES
  registered,   \* users with a row
  issued,       \* the tokens in the order they were issued: whose, from which login
  sessions,     \* stored tokens
  overdue,      \* stored tokens that have expired
  serving,      \* what each call is doing
  loggedOut,    \* logins whose user was told to be logged out
  disturbed,    \* logins with two calls at once, or a delete that failed
  lostDeletes

sessionVars == <<registered, issued, sessions, overdue, serving, loggedOut, disturbed, lostDeletes>>

Token == 1..MaxTokens
Free == [at |-> "free"]
Busy == [at : {"delete", "create", "logout"}, token : Token]

SessionsTypeOK ==
  /\ registered \subseteq User
  /\ issued \in Seq([user : User, login : Token]) /\ Len(issued) <= MaxTokens
  /\ overdue \subseteq sessions /\ sessions \subseteq 1..Len(issued)
  /\ serving \in [Call -> Busy \union {Free}]
  /\ loggedOut \subseteq Token /\ disturbed \subseteq Token
  /\ lostDeletes \in 0..MaxLostDeletes

SessionsInit ==
  /\ registered = {}
  /\ issued = <<>>
  /\ sessions = {} /\ overdue = {}
  /\ serving = [c \in Call |-> Free]
  /\ loggedOut = {} /\ disturbed = {}
  /\ lostDeletes = 0

LoginOf(t) == issued[t].login
\* Logins with a call between two of its statements.
InFlight == {LoginOf(serving[c].token) : c \in {d \in Call : serving[d] # Free}}

\* A new pair of tokens; a login is named by its first token.
Issue(u, login) ==
  /\ Len(issued) < MaxTokens
  /\ issued' = Append(issued, [user |-> u, login |-> login])
Fresh == Len(issued) + 1

Register(u) ==
  /\ u \notin registered
  /\ registered' = registered \union {u}
  /\ Issue(u, Fresh)
  /\ UNCHANGED <<sessions, overdue, serving, loggedOut, disturbed, lostDeletes>>

Login(u) ==
  /\ u \in registered
  /\ Issue(u, Fresh)
  /\ sessions' = sessions \union {Fresh}
  /\ UNCHANGED <<registered, overdue, serving, loggedOut, disturbed, lostDeletes>>

\* A refresh or a logout looks for a session that has not expired; without one it
\* ends at once.
Find(c, t, next) ==
  /\ serving[c] = Free
  /\ t \in sessions \ overdue
  /\ serving' = [serving EXCEPT ![c] = [at |-> next, token |-> t]]
  /\ disturbed' = disturbed \union ({LoginOf(t)} \intersect InFlight)
  /\ UNCHANGED <<registered, issued, sessions, overdue, loggedOut, lostDeletes>>

Unstore(gone) == sessions' = sessions \ gone /\ overdue' = overdue \ gone

\* Mutant: the session that was refreshed stays.
RefreshKeepsOld(c) ==
  /\ serving[c].at = "delete"
  /\ serving' = [serving EXCEPT ![c].at = "create"]
  /\ UNCHANGED <<registered, issued, sessions, overdue, loggedOut, disturbed, lostDeletes>>

\* The old session goes first; that it could not be deleted is ignored.
RefreshDelete(c) ==
  /\ serving[c].at = "delete"
  /\ serving' = [serving EXCEPT ![c].at = "create"]
  /\ \/ Unstore({serving[c].token}) /\ UNCHANGED <<disturbed, lostDeletes>>
     \/ /\ lostDeletes < MaxLostDeletes
        /\ lostDeletes' = lostDeletes + 1
        /\ disturbed' = disturbed \union {LoginOf(serving[c].token)}
        /\ UNCHANGED <<sessions, overdue>>
  /\ UNCHANGED <<registered, issued, loggedOut>>

RefreshCreate(c) ==
  /\ serving[c].at = "create"
  /\ Issue(issued[serving[c].token].user, LoginOf(serving[c].token))
  /\ sessions' = sessions \union {Fresh}
  /\ serving' = [serving EXCEPT ![c] = Free]
  /\ UNCHANGED <<registered, overdue, loggedOut, disturbed, lostDeletes>>

Logout(c) ==
  /\ serving[c].at = "logout"
  /\ Unstore({serving[c].token})
  /\ loggedOut' = loggedOut \union {LoginOf(serving[c].token)}
  /\ serving' = [serving EXCEPT ![c] = Free]
  /\ UNCHANGED <<registered, issued, disturbed, lostDeletes>>

TokensOf(u) == {t \in 1..Len(issued) : issued[t].user = u}

LogoutAll(u) ==
  /\ u \in registered
  /\ Unstore(TokensOf(u))
  /\ loggedOut' = loggedOut \union {LoginOf(t) : t \in TokensOf(u)}
  /\ disturbed' = disturbed \union ({LoginOf(t) : t \in TokensOf(u)} \intersect InFlight)
  /\ UNCHANGED <<registered, issued, serving, lostDeletes>>

\* A statement fails or the service stops: the call ends where it is.
CallEnds(c) ==
  /\ serving[c] # Free
  /\ serving' = [serving EXCEPT ![c] = Free]
  /\ UNCHANGED <<registered, issued, sessions, overdue, loggedOut, disturbed, lostDeletes>>

\* An expired session stays in the table: nobody calls DeleteExpired.
SessionExpires(t) ==
  /\ t \in sessions \ overdue
  /\ overdue' = overdue \union {t}
  /\ UNCHANGED <<registered, issued, sessions, serving, loggedOut, disturbed, lostDeletes>>

SessionsNext ==
  \/ \E u \in User : Register(u) \/ Login(u) \/ LogoutAll(u)
  \/ \E c \in Call :
       \/ \E t \in Token : Find(c, t, "delete") \/ Find(c, t, "logout")
       \/ RefreshDelete(c) \/ RefreshCreate(c) \/ Logout(c) \/ CallEnds(c)
  \/ \E t \in Token : SessionExpires(t)

SessionsSpec == SessionsInit /\ [][SessionsNext]_sessionVars

(***************************************************************************)
(* Properties                                                              *)
(***************************************************************************)
\* However often a login is refreshed, with calls cut off between any two
\* statements, it has one session at most and none once its user was told to be
\* logged out, unless two calls of that login overlapped or a delete failed.
OneSessionPerLogin ==
  \A t \in sessions : LoginOf(t) \notin disturbed =>
    /\ LoginOf(t) \notin loggedOut
    /\ \A s \in sessions : LoginOf(s) = LoginOf(t) => s = t
=============================================================================
