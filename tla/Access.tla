------------------------------- MODULE Access -------------------------------
(***************************************************************************)
(* Administrator sign-in: internal/auth (the credential, opaque sessions,  *)
(* OIDC transactions) and the handlers of internal/server that drive it    *)
(* (login, logout, oidcLogin, oidcCallback).  Several server processes may *)
(* share the database while one replaces the other.                        *)
(*                                                                         *)
(* A transaction is one step (BEGIN IMMEDIATE); bcrypt, discovery and the  *)
(* exchange with the provider are steps of their own.  State, nonce, PKCE  *)
(* verifier and browser binding of a sign-in are drawn together, so one    *)
(* number stands for the four; a session token stands for itself, its hash *)
(* and its CSRF token.  The rate limiter's refusals are in module Limiter. *)
(***************************************************************************)
EXTENDS Integers, FiniteSets

CONSTANTS
    Nil,            \* no cookie, no credential
    Server,         \* server processes
    Browser,
    Request,        \* goroutines serving requests
    Password,       \* passwords a process may be configured with
    Modes,          \* what each process may be configured with: sets of [pw, oidc]
    LoginSlots,     \* capacity of loginSlots
    OIDCSlots,      \* capacity of oidcSlots
    TxCap,          \* the 512 of Begin: rows in the table and in one delete
    MaxToken,       \* bound: session tokens ever drawn
    MaxFlow,        \* bound: sign-ins ever begun
    MaxStarts       \* bound: process starts

ASSUME AccessAssumption ==
    /\ Nil \notin Browser /\ Nil \notin Request /\ Nil \notin Password
    /\ Nil \notin 1..MaxFlow /\ Nil \notin {"live", "expired"}
    /\ \A s \in Server : Modes[s] \subseteq [pw : Password \cup {Nil}, oidc : BOOLEAN]
    /\ LoginSlots \in Nat \ {0} /\ OIDCSlots \in Nat \ {0} /\ TxCap \in Nat \ {0}
    /\ MaxToken \in Nat /\ MaxFlow \in Nat /\ MaxStarts \in Nat

Token == 1..MaxToken
Flow == 1..MaxFlow
Hash == [pw : Password, salt : 1..MaxStarts]

VARIABLES
    credential,     \* admin_credential: a bcrypt hash or Nil
    sessions,       \* admin_sessions: token -> row; Nil when there is none
    flows,          \* oidc_transactions: "live", "expired" or Nil
    lastToken, lastFlow, starts,
    proc,           \* the memory of each process
    cookies,        \* of each browser: the session and the binding
    pc, req,        \* of each request
    starter,        \* history: the browser each sign-in was begun for
    made            \* history: the sessions that sign-ins produced

dbVars == <<credential, sessions, flows>>
drawn == <<lastToken, lastFlow>>
accessVars == <<dbVars, drawn, starts, proc, cookies, pc, req, starter, made>>

Down == [up |-> FALSE, hash |-> Nil, oidc |-> FALSE, provider |-> FALSE, mu |-> Nil,
         logins |-> 0, signins |-> 0]
NoReq == [op |-> "none", server |-> Nil, browser |-> Nil, pw |-> Nil, previous |-> Nil,
          binding |-> Nil, flow |-> Nil, code |-> Nil, token |-> Nil, new |-> Nil, ok |-> FALSE]

AccessInit ==
    /\ credential = Nil
    /\ sessions = [t \in Token |-> Nil]
    /\ flows = [f \in Flow |-> Nil]
    /\ lastToken = 0 /\ lastFlow = 0 /\ starts = 0
    /\ proc = [s \in Server |-> Down]
    /\ cookies = [b \in Browser |-> [session |-> Nil, binding |-> Nil]]
    /\ pc = [r \in Request |-> "idle"]
    /\ req = [r \in Request |-> NoReq]
    /\ starter = [f \in Flow |-> Nil]
    /\ made = {}

(* --------------------------- the processes ---------------------------- *)

\* Mutant: a changed password leaves the sessions alone.
RevokedNone(changed) == sessions

\* initialize: DELETE FROM admin_sessions together with the new hash.
Revoked(changed) == IF changed THEN [t \in Token |-> Nil] ELSE sessions

\* server.New: NewSessionOnly leaves the credential alone; initialize keeps a
\* hash that matches and otherwise stores a new one, whose salt is fresh.
Start(s, mode) ==
    /\ ~proc[s].up /\ starts < MaxStarts
    /\ starts' = starts + 1
    /\ LET changed == mode.pw # Nil /\ (credential = Nil \/ credential.pw # mode.pw)
           hash == IF changed THEN [pw |-> mode.pw, salt |-> starts + 1] ELSE credential
       IN /\ credential' = hash
          /\ sessions' = Revoked(changed)
          /\ proc' = [proc EXCEPT ![s] = [Down EXCEPT !.up = TRUE, !.oidc = mode.oidc,
                                             !.hash = IF mode.pw = Nil THEN Nil ELSE hash]]
    /\ UNCHANGED <<flows, drawn, cookies, pc, req, starter, made>>

\* The process ends, with everything in it.
Stop(s) ==
    /\ proc[s].up
    /\ proc' = [proc EXCEPT ![s] = Down]
    /\ pc' = [r \in Request |-> IF req[r].server = s THEN "idle" ELSE pc[r]]
    /\ req' = [r \in Request |-> IF req[r].server = s THEN NoReq ELSE req[r]]
    /\ UNCHANGED <<dbVars, drawn, starts, cookies, starter, made>>

SessionEnds(t) ==
    /\ sessions[t] # Nil /\ ~sessions[t].expired
    /\ sessions' = [sessions EXCEPT ![t].expired = TRUE]
    /\ UNCHANGED <<credential, flows, drawn, starts, proc, cookies, pc, req, starter, made>>

FlowEnds(f) ==
    /\ flows[f] = "live"
    /\ flows' = [flows EXCEPT ![f] = "expired"]
    /\ UNCHANGED <<credential, sessions, drawn, starts, proc, cookies, pc, req, starter, made>>

(* ----------------------------- plumbing ------------------------------- *)

\* The request goes on to label l, remembering what it found out.
Goto(r, l) == pc' = [pc EXCEPT ![r] = l] /\ UNCHANGED req
Learn(r, l, new) == pc' = [pc EXCEPT ![r] = l] /\ req' = [req EXCEPT ![r] = new]
Mem(r) == proc[req[r].server]

\* A request of browser b reaches process s with the cookies b has now.
Enter(r, s, b, op, l, fields) ==
    /\ pc[r] = "idle" /\ proc[s].up
    /\ Learn(r, l, [fields EXCEPT !.op = op, !.server = s, !.browser = b,
                                  !.previous = cookies[b].session,
                                  !.binding = cookies[b].binding])

(* ---------------------------- password login -------------------------- *)

\* login: disabled, or one of the slots, or 429 at once.
LoginBegin(r, s, b, w) ==
    /\ proc[s].hash # Nil
    /\ proc[s].logins < LoginSlots
    /\ Enter(r, s, b, "login", "compare", [NoReq EXCEPT !.pw = w])
    /\ proc' = [proc EXCEPT ![s].logins = @ + 1]
    /\ UNCHANGED <<dbVars, drawn, starts, cookies, starter, made>>

\* Manager.Login: bcrypt against the hash this process remembers.
LoginCompare(r) ==
    /\ pc[r] = "compare"
    /\ Goto(r, IF Mem(r).hash.pw = req[r].pw THEN "insert" ELSE "answer")
    /\ UNCHANGED <<dbVars, drawn, starts, proc, cookies, starter, made>>

\* Mutant: the insert does not look at the credential again.
MayInsertAlways(r) == TRUE

\* INSERT ... SELECT ... WHERE ?=0 OR EXISTS(... password_hash = mine)
MayInsert(r) == req[r].op = "callback" \/ credential = Mem(r).hash

\* createSession in one transaction: expired rows and the previous session go,
\* the new row comes; when it may not come, or anything fails, nothing happens.
CreateSession(r) ==
    LET t == lastToken + 1
        row == [how |-> req[r].op, hash |-> Mem(r).hash, expired |-> FALSE]
    IN
    /\ pc[r] = "insert"
    /\ \/ /\ MayInsert(r) /\ t \in Token
          /\ sessions' = [u \in Token |->
                IF u = t THEN row
                ELSE IF sessions[u] = Nil \/ sessions[u].expired \/ u = req[r].previous THEN Nil
                ELSE sessions[u]]
          /\ lastToken' = t
          /\ made' = IF req[r].op = "callback"
                     THEN made \cup {[flow |-> req[r].flow, browser |-> req[r].browser, token |-> t]}
                     ELSE made
          /\ Learn(r, "answer", [req[r] EXCEPT !.token = t, !.ok = TRUE])
       \/ Goto(r, "answer") /\ UNCHANGED <<sessions, lastToken, made>>
    /\ UNCHANGED <<credential, flows, lastFlow, starts, proc, cookies, starter>>

(* ------------------------------- OIDC --------------------------------- *)

\* oidcRoute: one of the slots or a failure at once, which also takes the
\* binding cookie away (OIDCBusy).
OIDCBegin(r, s, b, op, l, f, code) ==
    /\ proc[s].oidc /\ proc[s].signins < OIDCSlots
    /\ Enter(r, s, b, op, l, [NoReq EXCEPT !.flow = f, !.code = code])
    /\ proc' = [proc EXCEPT ![s].signins = @ + 1]
    /\ UNCHANGED <<dbVars, drawn, starts, cookies, starter, made>>

\* A callback URL may carry any state and any code that were ever issued.
OIDCEnter(r, s, b) ==
    \/ OIDCBegin(r, s, b, "signin", "discover", Nil, Nil)
    \/ \E f, code \in 1..lastFlow : OIDCBegin(r, s, b, "callback", "consume", f, code)

OIDCBusy(s, b) ==
    /\ proc[s].up /\ proc[s].oidc /\ proc[s].signins >= OIDCSlots
    /\ cookies' = [cookies EXCEPT ![b].binding = Nil]
    /\ UNCHANGED <<dbVars, drawn, starts, proc, pc, req, starter, made>>

\* What discover is followed by in Begin and in Complete.
AfterDiscover(r) == IF req[r].op = "signin" THEN "begin" ELSE "exchange"

\* discover takes mu, finds the provider cached, or asks for it under mu.
DiscoverLock(r) ==
    LET s == req[r].server IN
    /\ pc[r] = "discover" /\ proc[s].mu = Nil
    /\ \/ proc[s].provider /\ Goto(r, AfterDiscover(r)) /\ UNCHANGED proc
       \/ ~proc[s].provider /\ Goto(r, "fetch") /\ proc' = [proc EXCEPT ![s].mu = r]
    /\ UNCHANGED <<dbVars, drawn, starts, cookies, starter, made>>

\* Mutant: a failed discovery leaves mu locked.
MuAfter(r, found) == IF found THEN Nil ELSE r

\* The deferred unlock.
MuAfterFetch(r, found) == Nil

\* Only a discovery that succeeded is cached.
DiscoverFetch(r) ==
    /\ pc[r] = "fetch"
    /\ \E found \in BOOLEAN :
         /\ proc' = [proc EXCEPT ![req[r].server] =
                       [@ EXCEPT !.mu = MuAfterFetch(r, found), !.provider = found]]
         /\ Goto(r, IF found THEN AfterDiscover(r) ELSE "answer")
    /\ UNCHANGED <<dbVars, drawn, starts, cookies, starter, made>>

\* Mutant: expired rows are left to their callbacks.
ReclaimedNone == {}

\* The expired rows that one Begin deletes: up to TxCap, and there never are more.
Reclaimed == {f \in Flow : flows[f] = "expired"}

\* Begin in one transaction: expired rows and this browser's old one go; then
\* either the table is full and nothing happens, or the new row comes.
Begin(r) ==
    LET f == lastFlow + 1
        kept == [g \in Flow |-> IF g \in Reclaimed \/ g = req[r].binding THEN Nil ELSE flows[g]]
    IN
    /\ pc[r] = "begin"
    /\ \/ /\ Cardinality({g \in Flow : kept[g] # Nil}) < TxCap /\ f \in Flow
          /\ flows' = [kept EXCEPT ![f] = "live"]
          /\ lastFlow' = f
          /\ starter' = [starter EXCEPT ![f] = req[r].browser]
          /\ Learn(r, "answer", [req[r] EXCEPT !.new = f, !.ok = TRUE])
       \/ /\ Cardinality({g \in Flow : kept[g] # Nil}) >= TxCap
          /\ Goto(r, "full")
          /\ UNCHANGED <<flows, lastFlow, starter>>
       \/ Goto(r, "answer") /\ UNCHANGED <<flows, lastFlow, starter>>
    /\ UNCHANGED <<credential, sessions, lastToken, starts, proc, cookies, made>>

\* Mutant: the transaction is read and left in the table.
ConsumedNot(f) == flows

\* DELETE ... RETURNING
Consumed(f) == [flows EXCEPT ![f] = Nil]

\* Mutant: the browser's cookie is not compared.
MatchesAny(r) == flows[req[r].flow] = "live"

\* WHERE state_hash=? AND browser_hash=? AND expires_at>?
Matches(r) == flows[req[r].flow] = "live" /\ req[r].binding = req[r].flow

\* oidcCallback refuses a malformed query; then the first statement of Complete.
\* A provider error or an absent code is found out after the row is gone.
Consume(r) ==
    /\ pc[r] = "consume"
    /\ \/ /\ Matches(r)
          /\ flows' = Consumed(req[r].flow)
          /\ Goto(r, "discover") \/ Goto(r, "answer")
       \/ Goto(r, "answer") /\ UNCHANGED flows
    /\ UNCHANGED <<credential, sessions, drawn, starts, proc, cookies, starter, made>>

\* Exchange and Verify: the code was issued for this verifier and nonce, and
\* the subject or a group is allowed; or it fails for any other reason.
Exchange(r) ==
    /\ pc[r] = "exchange"
    /\ \/ req[r].code = req[r].flow /\ Goto(r, "insert")
       \/ Goto(r, "answer")
    /\ UNCHANGED <<dbVars, drawn, starts, proc, cookies, starter, made>>

(* ------------------------- answers and logout ------------------------- *)

\* The deferred receive from the slot channel.
Released(r) == [Mem(r) EXCEPT !.logins = @ - (IF req[r].op = "login" THEN 1 ELSE 0),
                              !.signins = @ - (IF req[r].op = "login" THEN 0 ELSE 1)]

\* The cookies that the response sets: oidcFailure and a finished callback clear
\* the binding, oidcLogin replaces it, a session replaces the session cookie.
AnswerCookies(r, old) ==
    [session |-> IF req[r].token # Nil THEN req[r].token ELSE old.session,
     binding |-> IF req[r].op = "login" THEN old.binding ELSE req[r].new]

\* The response is written and the handler returns; it may never arrive.
Answer(r) ==
    /\ pc[r] \in {"answer", "full"}
    /\ proc' = [proc EXCEPT ![req[r].server] = Released(r)]
    /\ \/ cookies' = [cookies EXCEPT ![req[r].browser] = AnswerCookies(r, @)]
       \/ UNCHANGED cookies
    /\ Learn(r, "idle", NoReq)
    /\ UNCHANGED <<dbVars, drawn, starts, starter, made>>

\* protected(logout): the cookie names a session that is alive, whose CSRF token
\* the page knows.  One lookup and one delete, then the cookie goes.
Logout(r, s, b) ==
    /\ Enter(r, s, b, "logout", "delete", NoReq)
    /\ cookies[b].session # Nil
    /\ sessions[cookies[b].session] # Nil /\ ~sessions[cookies[b].session].expired
    /\ UNCHANGED <<dbVars, drawn, starts, proc, cookies, starter, made>>

LogoutDelete(r) ==
    /\ pc[r] = "delete"
    /\ \/ /\ sessions' = [sessions EXCEPT ![req[r].previous] = Nil]
          /\ \/ cookies' = [cookies EXCEPT ![req[r].browser].session = Nil]
             \/ UNCHANGED cookies
       \/ UNCHANGED <<sessions, cookies>>
    /\ Learn(r, "idle", NoReq)
    /\ UNCHANGED <<credential, flows, drawn, starts, proc, starter, made>>

-----------------------------------------------------------------------------
Work(r) ==
    \/ LoginCompare(r) \/ CreateSession(r)
    \/ DiscoverLock(r) \/ DiscoverFetch(r) \/ Begin(r) \/ Consume(r) \/ Exchange(r)
    \/ Answer(r) \/ LogoutDelete(r)

\* What happens around password sign-in, and around OIDC sign-in.
PasswordStep ==
    \/ \E s \in Server : Stop(s) \/ \E m \in Modes[s] : Start(s, m)
    \/ \E t \in Token : SessionEnds(t)
    \/ \E r \in Request, s \in Server, b \in Browser :
         Logout(r, s, b) \/ \E w \in Password : LoginBegin(r, s, b, w)
    \/ \E r \in Request : Work(r)

OIDCStep ==
    \/ \E s \in Server : Stop(s) \/ \E m \in Modes[s] : m.oidc /\ Start(s, m)
    \/ \E f \in Flow : FlowEnds(f)
    \/ \E r \in Request, s \in Server, b \in Browser : OIDCEnter(r, s, b)
    \/ \E s \in Server, b \in Browser : OIDCBusy(s, b)
    \/ \E r \in Request : Work(r)

AccessNext == PasswordStep \/ OIDCStep

\* bcrypt ends, the HTTP client gives up after ten seconds and the route after
\* twenty, and a mutex is handed over: a request that can go on does.
AccessFairness == \A r \in Request : SF_accessVars(Work(r))

AccessSpec == AccessInit /\ [][AccessNext]_accessVars /\ AccessFairness

-----------------------------------------------------------------------------
(* Properties *)

\* docs/oidc.md: a real password rotation revokes all sessions and prevents an
\* old password manager from creating a new one.  Every password session in the
\* table was made under the credential that is in force now, whichever of the
\* overlapping processes made it.
PasswordSessionsCurrent ==
    \A t \in Token :
        sessions[t] # Nil /\ sessions[t].how = "login" => sessions[t].hash = credential

\* A sign-in gives at most one session, however often its callback is called
\* and by how many processes, and only to the browser that began it.
OneSessionPerFlow ==
    /\ \A x, y \in made : x.flow = y.flow => x = y
    /\ \A x \in made : x.browser = starter[x.flow]

\* Begin refuses for want of room only while TxCap sign-ins of other browsers
\* could still be finished; abandoned ones never block it.
RefusedOnlyWhenFull ==
    [][\A r \in Request : pc[r] = "begin" /\ pc'[r] = "full" =>
         Cardinality({f \in Flow : flows[f] = "live" /\ f # req[r].binding}) >= TxCap]_accessVars

\* Whoever takes a slot or the discovery mutex gives it back: every request
\* ends, and a process that turns sign-ins away takes one again.
SlotsComeBack ==
    /\ \A r \in Request : pc[r] # "idle" ~> pc[r] = "idle"
    /\ \A s \in Server : proc[s].signins = OIDCSlots ~> proc[s].signins < OIDCSlots

=============================================================================
