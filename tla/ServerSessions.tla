--------------------------- MODULE ServerSessions ---------------------------
(***************************************************************************)
(* The sessions of an OPC UA server: who each of them acts for, and the    *)
(* lock on the configuration they share.  The lock is held under a token,  *)
(* by default the id of the session, for a time; with it goes a password   *)
(* that stops the acquisition from being controlled.  The server itself    *)
(* sets and clears the password with the null id.                          *)
(***************************************************************************)
EXTENDS Integers, FiniteSets

CONSTANTS
  SessionIds,
  Tokens,       \* ids for a lock that is shared between sessions
  LockUsers,    \* the users a provider of identities knows
  Anonymous,    \* the user of a session without a name
  Passwords,
  MaxTimeout,   \* the longest time a lock is taken for
  NoId          \* the null id, no user, no password

ASSUME ServerSessionsAssumption ==
  /\ MaxTimeout \in Nat
  /\ NoId \notin SessionIds \cup Tokens \cup LockUsers \cup Passwords

VARIABLES
  user,        \* session -> the user of its context, NoId without one
  identified,  \* session -> users it has identified itself as since it was created
  allowsAnonymous, \* what the authentication provider allows
  token,       \* session -> its configurationLockTokenId
  holder,      \* OpcUaServerLock::configurationControlLockSessionId
  timeLeft,    \* what is left of configurationControlLockValidTo
  password,
  lastAsked        \* who asked last for a change of the password, and with which

sessionVars == <<user, identified, allowsAnonymous, token, holder, timeLeft, password, lastAsked>>
lockVars == <<holder, timeLeft, password, lastAsked>>

Active == timeLeft > 0
OpenSessions == {s \in SessionIds : user[s] # NoId}

\* The server itself acts under the null id.
Actors == OpenSessions \cup {NoId}

\* getConfigurationLockTokenId()
TokenOf(s) == IF s # NoId /\ token[s] # NoId THEN token[s] ELSE s

HasLock(id) == id = holder /\ Active

\* Mutant of HasAccess: a lock whose holder comes back is anybody's.
HasAccessByHolder(id) == HasLock(id) \/ ~Active \/ holder \in Tokens

HasAccess(id) == HasLock(id) \/ ~Active
CanEditPassword(id) == HasLock(id) \/ ~Active
Locked == password # NoId
CanControlAcq(s) == ~Locked /\ HasAccess(TokenOf(s))

-----------------------------------------------------------------------------
(* Sessions *)

ServerSessionsInit ==
  /\ user = [s \in SessionIds |-> NoId]
  /\ identified = [s \in SessionIds |-> {}]
  /\ allowsAnonymous \in BOOLEAN
  /\ token = [s \in SessionIds |-> NoId]
  /\ holder = NoId /\ timeLeft = 0 /\ password = NoId
  /\ lastAsked = [by |-> NoId, with |-> NoId]

\* validateIdentityToken(): a name the provider knows, or none where it allows that.
Authenticates(u) == u \in LockUsers \/ (u = Anonymous /\ allowsAnonymous)

\* createSession(): a context that is there is kept, with its user.
SessionUser(s, u) == IF user[s] = NoId THEN u ELSE user[s]

\* activateSession(), with an identity that is accepted.
Activate(s, u) ==
  /\ Authenticates(u)
  /\ user' = [user EXCEPT ![s] = SessionUser(s, u)]
  /\ identified' = [identified EXCEPT ![s] = @ \cup {u}]
  /\ UNCHANGED <<allowsAnonymous, token, lockVars>>

SetToken(s, t) ==
  /\ s \in OpenSessions
  /\ token' = [token EXCEPT ![s] = t]
  /\ UNCHANGED <<user, identified, allowsAnonymous, lockVars>>

-----------------------------------------------------------------------------
(* The lock *)

\* lockConfigurationControl()
LockControl(s, timeout) ==
  /\ s \in OpenSessions /\ HasAccess(TokenOf(s))
  /\ holder' = TokenOf(s)
  /\ timeLeft' = timeout
  /\ UNCHANGED <<user, identified, allowsAnonymous, token, password, lastAsked>>

\* refuseConfigurationControlLock(): the holder's lock ends a second ago.
Refused(id) == timeLeft' = IF id = holder THEN 0 ELSE timeLeft

RefuseControl(s) ==
  /\ s \in OpenSessions
  /\ Refused(TokenOf(s))
  /\ UNCHANGED <<user, identified, allowsAnonymous, token, holder, password, lastAsked>>

\* closeSession() gives back the lock of the session's id, not of its token.
ClosesLock(s) == Refused(s)

DropsContext(s) == user' = [user EXCEPT ![s] = NoId]

Close(s) ==
  /\ s \in OpenSessions
  /\ ClosesLock(s) /\ DropsContext(s)
  /\ identified' = [identified EXCEPT ![s] = {}]
  /\ token' = [token EXCEPT ![s] = NoId]
  /\ UNCHANGED <<allowsAnonymous, holder, password, lastAsked>>

Tick ==
  /\ Active /\ timeLeft' = timeLeft - 1
  /\ UNCHANGED <<user, identified, allowsAnonymous, token, holder, password, lastAsked>>

\* passwordLock(), of a session or of the server
PasswordLock(s, p) ==
  /\ s \in Actors /\ CanEditPassword(TokenOf(s)) /\ ~Locked
  /\ password' = p
  /\ lastAsked' = [by |-> s, with |-> p]
  /\ UNCHANGED <<user, identified, allowsAnonymous, token, holder, timeLeft>>

Unlocks(s, p) == CanEditPassword(TokenOf(s)) /\ (Locked => password = p)

\* passwordUnlock()
PasswordUnlock(s, p) ==
  /\ s \in Actors /\ Unlocks(s, p)
  /\ password' = NoId
  /\ lastAsked' = [by |-> s, with |-> p]
  /\ UNCHANGED <<user, identified, allowsAnonymous, token, holder, timeLeft>>

ServerSessionsNext ==
  \/ \E s \in SessionIds :
       \/ \E u \in LockUsers \cup {Anonymous} : Activate(s, u)
       \/ \E t \in Tokens : SetToken(s, t)
       \/ \E timeout \in 0..MaxTimeout : LockControl(s, timeout)
       \/ RefuseControl(s)
       \/ Close(s)
  \/ Tick
  \/ \E s \in Actors, p \in Passwords : PasswordLock(s, p) \/ PasswordUnlock(s, p)

ServerSessionsSpec == ServerSessionsInit /\ [][ServerSessionsNext]_sessionVars

-----------------------------------------------------------------------------
(* Properties *)

ServerSessionsTypeOK ==
  /\ \A s \in SessionIds : user[s] \in LockUsers \cup {Anonymous, NoId} /\ token[s] \in Tokens \cup {NoId}
  /\ holder \in SessionIds \cup Tokens \cup {NoId}
  /\ timeLeft \in 0..MaxTimeout /\ password \in Passwords \cup {NoId}

\* A session acts for somebody it has identified itself as, whatever identity it
\* comes back with: createSession() keeps the context of the first activation.
UserIsIdentified ==
  \A s \in OpenSessions : user[s] \in identified[s]

\* A lock does not outlive its session unless it was taken under a token: then
\* it stays until its time is over, with nobody to give it back if no session
\* has the token.  (closeSession() frees the lock of the session's id only.)
LockHasASession ==
  Active => holder \in OpenSessions \cup Tokens

\* The lock passes from one holder to another only when its time is over or the
\* first has given it back; nobody else takes it or shortens it.
LockIsNotTaken ==
  [][Active /\ (holder' # holder \/ timeLeft' < timeLeft - 1) =>
       \/ holder' = holder /\ \E s \in OpenSessions : holder \in {TokenOf(s), s}]_sessionVars

\* A password goes only when somebody gives it, and while a lock is held neither
\* comes nor goes but through a session of the holder: what the holder has locked
\* stays locked against everybody else, the server itself included.
PasswordIsKept ==
  [][password' # password =>
       /\ password' = NoId => lastAsked'.with = password
       /\ password # NoId => password' = NoId
       /\ Active => lastAsked'.by # NoId /\ TokenOf(lastAsked'.by) = holder]_sessionVars
=============================================================================
