---------------------------- MODULE AccessProofs ----------------------------
(***************************************************************************)
(* Proofs about administrator sign-in (Access): the password sessions in   *)
(* the table belong to the credential in force, a sign-in ends in at most  *)
(* one session and only for the browser that began it, and Begin refuses   *)
(* only for sign-ins that could still be finished.                         *)
(***************************************************************************)
EXTENDS Access, TLAPS

(* ------------------------------- types -------------------------------- *)

Row == [how : {"none", "login", "signin", "callback", "logout"}, hash : Hash \cup {Nil},
        expired : BOOLEAN]
Process == [up : BOOLEAN, hash : Hash \cup {Nil}, oidc : BOOLEAN, provider : BOOLEAN,
            mu : Request \cup {Nil}, logins : Int, signins : Int]
ReqState == [op : {"none", "login", "signin", "callback", "logout"},
             server : Server \cup {Nil}, browser : Browser \cup {Nil},
             pw : Password \cup {Nil}, previous : Token \cup {Nil},
             binding : Flow \cup {Nil}, flow : Flow \cup {Nil}, code : Flow \cup {Nil},
             token : Token \cup {Nil}, new : Flow \cup {Nil}, ok : BOOLEAN]
Label == {"idle", "compare", "insert", "discover", "fetch", "begin", "consume", "exchange",
          "answer", "full", "delete"}

\* The database, and what the processes and the browsers hold.
StoreOK ==
    /\ credential \in Hash \cup {Nil}
    /\ sessions \in [Token -> Row \cup {Nil}]
    /\ flows \in [Flow -> {"live", "expired", Nil}]
    /\ lastToken \in 0..MaxToken /\ lastFlow \in 0..MaxFlow /\ starts \in 0..MaxStarts
    /\ proc \in [Server -> Process]
    /\ cookies \in [Browser -> [session : Token \cup {Nil}, binding : Flow \cup {Nil}]]
    /\ starter \in [Flow -> Browser \cup {Nil}]
    /\ made \subseteq [flow : Flow, browser : Browser, token : Token]

\* The handlers that come to a label.
Fits(l, op) ==
    /\ l = "compare" => op = "login"
    /\ l = "insert" => op \in {"login", "callback"}
    /\ l \in {"discover", "fetch"} => op \in {"signin", "callback"}
    /\ l = "begin" => op = "signin"
    /\ l \in {"consume", "exchange"} => op = "callback"

\* A request that is served has a process and a browser, and a callback names a
\* sign-in that was begun.
ServedAs(q, l, last) ==
    /\ l # "idle" => q.server \in Server /\ q.browser \in Browser
    /\ Fits(l, q.op)
    /\ q.op = "callback" => q.flow \in 1..last
ServedOK(r) == ServedAs(req[r], pc[r], lastFlow)

RequestsOK ==
    /\ pc \in [Request -> Label]
    /\ req \in [Request -> ReqState]
    /\ \A r \in Request : ServedOK(r)

AccessTypeOK == StoreOK /\ RequestsOK

LEMMA NoReqFacts ==
    /\ NoReq \in ReqState /\ NoReq.op = "none" /\ NoReq.flow = Nil /\ NoReq.new = Nil
    /\ NoReq.binding = Nil /\ NoReq.token = Nil
BY DEF NoReq, ReqState

LEMMA AccessTypeStart == AccessInit => AccessTypeOK
<1> SUFFICES ASSUME AccessInit PROVE AccessTypeOK
  OBVIOUS
<1>1. Down \in Process
  BY DEF Down, Process
<1>2. StoreOK
  BY <1>1, AccessAssumption DEF AccessInit, StoreOK
<1>3. RequestsOK
  BY NoReqFacts DEF AccessInit, RequestsOK, ServedOK, ServedAs, Fits, Label
<1> QED
  BY <1>2, <1>3 DEF AccessTypeOK

\* A request reaches its handler: what it carries then.
LEMMA EnterFacts ==
    ASSUME AccessTypeOK, NEW r \in Request, NEW s \in Server, NEW b \in Browser,
           NEW op \in {"login", "signin", "callback", "logout"}, NEW l, NEW fields \in ReqState,
           Enter(r, s, b, op, l, fields)
    PROVE  /\ pc[r] = "idle" /\ pc' = [pc EXCEPT ![r] = l]
           /\ \A q \in Request : q # r => req'[q] = req[q]
           /\ req' \in [Request -> ReqState]
           /\ req'[r].op = op /\ req'[r].server = s /\ req'[r].browser = b
           /\ req'[r].previous = cookies[b].session /\ req'[r].binding = cookies[b].binding
           /\ req'[r].flow = fields.flow /\ req'[r].new = fields.new /\ req'[r].token = fields.token
<1> DEFINE e == [fields EXCEPT !.op = op, !.server = s, !.browser = b,
                               !.previous = cookies[b].session, !.binding = cookies[b].binding]
<1>1. cookies[b].session \in Token \cup {Nil} /\ cookies[b].binding \in Flow \cup {Nil}
  BY DEF AccessTypeOK, StoreOK
<1>2. /\ e \in ReqState /\ e.op = op /\ e.server = s /\ e.browser = b
      /\ e.previous = cookies[b].session /\ e.binding = cookies[b].binding
      /\ e.flow = fields.flow /\ e.new = fields.new /\ e.token = fields.token
  <2> DEFINE c == [fields EXCEPT !.op = op, !.server = s, !.browser = b]
             d == [c EXCEPT !.previous = cookies[b].session]
  <2>1. c \in ReqState
    BY DEF ReqState
  <2>2. e = [d EXCEPT !.binding = cookies[b].binding]
    OBVIOUS
  <2> HIDE DEF c
  <2>3. d \in ReqState
    BY <1>1, <2>1 DEF ReqState
  <2> HIDE DEF d
  <2>4. e \in ReqState
    BY <1>1, <2>2, <2>3 DEF ReqState
  <2>5. e.op = op /\ e.server = s /\ e.browser = b /\ e.previous = cookies[b].session
    BY DEF ReqState
  <2>6. /\ e.binding = cookies[b].binding
        /\ e.flow = fields.flow /\ e.new = fields.new /\ e.token = fields.token
    BY DEF ReqState
  <2> QED
    BY <2>4, <2>5, <2>6
<1>3. pc[r] = "idle" /\ pc' = [pc EXCEPT ![r] = l] /\ req' = [req EXCEPT ![r] = e]
  BY DEF Enter, Learn
<1> HIDE DEF e
<1> QED
  BY <1>2, <1>3 DEF AccessTypeOK, RequestsOK

\* A request that goes on, and one that starts or learns something, is served
\* as before.
LEMMA LearnKeeps ==
    ASSUME AccessTypeOK, NEW r \in Request, NEW l \in Label, NEW q \in ReqState,
           pc' = [pc EXCEPT ![r] = l], req' = [req EXCEPT ![r] = q],
           lastFlow' \in Int, lastFlow' >= lastFlow, ServedAs(q, l, lastFlow')
    PROVE  RequestsOK'
<1>1. pc' \in [Request -> Label] /\ req' \in [Request -> ReqState]
  BY DEF AccessTypeOK, RequestsOK
<1>2. ASSUME NEW k \in Request PROVE ServedOK(k)'
  <2>1. CASE k = r
    <3>1. pc'[k] = l /\ req'[k] = q
      BY <2>1 DEF AccessTypeOK, RequestsOK
    <3> QED
      BY <3>1 DEF ServedOK, ServedAs
  <2>2. CASE k # r
    <3>1. pc'[k] = pc[k] /\ req'[k] = req[k] /\ ServedOK(k) /\ lastFlow \in Int
      BY <2>2 DEF AccessTypeOK, RequestsOK, StoreOK
    <3> QED
      BY <3>1 DEF ServedOK, ServedAs
  <2> QED
    BY <2>1, <2>2
<1> QED
  BY <1>1, <1>2 DEF RequestsOK

LEMMA GotoKeeps ==
    ASSUME AccessTypeOK, NEW r \in Request, NEW l \in Label, Goto(r, l), pc[r] # "idle",
           Fits(l, req[r].op), lastFlow' = lastFlow
    PROVE  RequestsOK'
<1>1. /\ req[r] \in ReqState /\ ServedOK(r) /\ lastFlow \in Int /\ req' = [req EXCEPT ![r] = req[r]]
      /\ pc' = [pc EXCEPT ![r] = l]
  BY DEF AccessTypeOK, RequestsOK, StoreOK, Goto
<1>2. ServedAs(req[r], l, lastFlow')
  <2>1. ServedAs(req[r], pc[r], lastFlow)
    BY <1>1 DEF ServedOK
  <2> QED
    BY <2>1 DEF ServedAs
<1> DEFINE q == req[r]
<1>3. /\ q \in ReqState /\ ServedAs(q, l, lastFlow') /\ pc' = [pc EXCEPT ![r] = l]
      /\ req' = [req EXCEPT ![r] = q] /\ lastFlow' \in Int /\ lastFlow' >= lastFlow
  BY <1>1, <1>2
<1> HIDE DEF q
<1> QED
  BY <1>3, LearnKeeps

LEMMA EnterKeeps ==
    ASSUME AccessTypeOK, NEW r \in Request, NEW s \in Server, NEW b \in Browser,
           NEW op \in {"login", "signin", "callback", "logout"}, NEW l \in Label,
           NEW fields \in ReqState, Enter(r, s, b, op, l, fields), Fits(l, op),
           lastFlow' = lastFlow, op = "callback" => fields.flow \in 1..lastFlow
    PROVE  RequestsOK'
<1>1. /\ pc' = [pc EXCEPT ![r] = l] /\ req' = [req EXCEPT ![r] = req'[r]]
      /\ req'[r] \in ReqState /\ req'[r].op = op /\ req'[r].server = s /\ req'[r].browser = b
      /\ req'[r].flow = fields.flow /\ lastFlow \in Int
  <2>1. req \in [Request -> ReqState] /\ lastFlow \in Int
    BY DEF AccessTypeOK, RequestsOK, StoreOK
  <2> QED
    BY <2>1, EnterFacts
<1>2. ServedAs(req'[r], l, lastFlow')
  BY <1>1 DEF ServedAs
<1> DEFINE q == req'[r]
<1>3. /\ q \in ReqState /\ ServedAs(q, l, lastFlow') /\ pc' = [pc EXCEPT ![r] = l]
      /\ req' = [req EXCEPT ![r] = q] /\ lastFlow' \in Int /\ lastFlow' >= lastFlow
  BY <1>1, <1>2
<1> HIDE DEF q
<1> QED
  BY <1>3, LearnKeeps

LEMMA StartTypes ==
    ASSUME AccessTypeOK, NEW s \in Server, NEW mode \in Modes[s], Start(s, mode)
    PROVE  AccessTypeOK'
<1> DEFINE changed == mode.pw # Nil /\ (credential = Nil \/ credential.pw # mode.pw)
           hash == IF changed THEN [pw |-> mode.pw, salt |-> starts + 1] ELSE credential
           p == [Down EXCEPT !.up = TRUE, !.oidc = mode.oidc,
                             !.hash = IF mode.pw = Nil THEN Nil ELSE hash]
<1>1. /\ credential' = hash /\ sessions' = Revoked(changed) /\ proc' = [proc EXCEPT ![s] = p]
      /\ starts' = starts + 1 /\ starts < MaxStarts
      /\ UNCHANGED <<flows, drawn, cookies, pc, req, starter, made>>
  BY Zenon DEF Start
<1>2. mode \in [pw : Password \cup {Nil}, oidc : BOOLEAN] /\ starts \in 0..MaxStarts /\ MaxStarts \in Nat
  BY AccessAssumption DEF AccessTypeOK, StoreOK
<1>3. hash \in Hash \cup {Nil}
  BY <1>1, <1>2 DEF AccessTypeOK, StoreOK, Hash
<1> HIDE DEF hash
<1>4. p \in Process
  <2>1. (IF mode.pw = Nil THEN Nil ELSE hash) \in Hash \cup {Nil} /\ mode.oidc \in BOOLEAN
    BY <1>2, <1>3
  <2> DEFINE h == IF mode.pw = Nil THEN Nil ELSE hash
             o == mode.oidc
             c == [Down EXCEPT !.up = TRUE]
             d == [c EXCEPT !.oidc = o]
  <2>2. p = [d EXCEPT !.hash = h] /\ h \in Hash \cup {Nil} /\ o \in BOOLEAN
    BY <2>1
  <2> HIDE DEF p, h, o
  <2>3. Down \in Process
    BY DEF Down, Process
  <2>4. c \in Process
    BY <2>3 DEF Process
  <2> HIDE DEF c
  <2>5. d \in Process
    BY <2>2, <2>4 DEF Process
  <2> HIDE DEF d
  <2> QED
    BY <2>2, <2>5 DEF Process
<1> HIDE DEF p, changed
<1>5. sessions' \in [Token -> Row \cup {Nil}]
  BY <1>1 DEF Revoked, AccessTypeOK, StoreOK
<1>6. StoreOK'
  BY <1>1, <1>2, <1>3, <1>4, <1>5 DEF AccessTypeOK, StoreOK, drawn
<1>7. RequestsOK'
  BY <1>1 DEF AccessTypeOK, RequestsOK, ServedOK, ServedAs, drawn
<1> QED
  BY <1>6, <1>7 DEF AccessTypeOK

LEMMA StopTypes ==
    ASSUME AccessTypeOK, NEW s \in Server, Stop(s)
    PROVE  AccessTypeOK'
<1>1. StoreOK'
  <2>1. Down \in Process
    BY DEF Down, Process
  <2> QED
    BY <2>1 DEF Stop, AccessTypeOK, StoreOK, drawn, dbVars
<1>2. pc' \in [Request -> Label] /\ req' \in [Request -> ReqState] /\ lastFlow' = lastFlow
  BY NoReqFacts DEF Stop, AccessTypeOK, RequestsOK, Label, drawn
<1>3. ASSUME NEW r \in Request PROVE ServedOK(r)'
  <2>1. ServedOK(r)
    BY DEF AccessTypeOK, RequestsOK
  <2>2. CASE req[r].server = s
    <3>1. pc'[r] = "idle" /\ req'[r] = NoReq
      BY <2>2 DEF Stop
    <3> QED
      BY <3>1, NoReqFacts DEF ServedOK, ServedAs, Fits
  <2>3. CASE req[r].server # s
    <3>1. pc'[r] = pc[r] /\ req'[r] = req[r]
      BY <2>3 DEF Stop
    <3> QED
      BY <1>2, <2>1, <3>1 DEF ServedOK, ServedAs
  <2> QED
    BY <2>2, <2>3
<1> QED
  BY <1>1, <1>2, <1>3 DEF AccessTypeOK, RequestsOK

LEMMA EndsTypes ==
    ASSUME AccessTypeOK,
           (\E t \in Token : SessionEnds(t)) \/ (\E f \in Flow : FlowEnds(f))
           \/ (\E s \in Server, b \in Browser : OIDCBusy(s, b))
    PROVE  AccessTypeOK'
<1>1. ASSUME NEW t \in Token, SessionEnds(t) PROVE AccessTypeOK'
  <2>1. sessions[t] \in Row
    BY <1>1 DEF SessionEnds, AccessTypeOK, StoreOK
  <2>2. [sessions[t] EXCEPT !.expired = TRUE] \in Row
    BY <2>1 DEF Row
  <2>3. sessions' \in [Token -> Row \cup {Nil}]
    BY <1>1, <2>2 DEF SessionEnds, AccessTypeOK, StoreOK
  <2> QED
    BY <1>1, <2>3 DEF SessionEnds, AccessTypeOK, StoreOK, RequestsOK, ServedOK, ServedAs, drawn
<1>2. ASSUME NEW f \in Flow, FlowEnds(f) PROVE AccessTypeOK'
  BY <1>2 DEF FlowEnds, AccessTypeOK, StoreOK, RequestsOK, ServedOK, ServedAs, drawn
<1>3. ASSUME NEW s \in Server, NEW b \in Browser, OIDCBusy(s, b) PROVE AccessTypeOK'
  <2>1. cookies' \in [Browser -> [session : Token \cup {Nil}, binding : Flow \cup {Nil}]]
    BY <1>3 DEF OIDCBusy, AccessTypeOK, StoreOK
  <2> QED
    BY <1>3, <2>1 DEF OIDCBusy, AccessTypeOK, StoreOK, RequestsOK, ServedOK, ServedAs, drawn, dbVars
<1> QED
  BY <1>1, <1>2, <1>3

\* The steps by which a request arrives.
LEMMA ArrivalTypes ==
    ASSUME AccessTypeOK, NEW r \in Request, NEW s \in Server, NEW b \in Browser,
           Logout(r, s, b) \/ (\E w \in Password : LoginBegin(r, s, b, w)) \/ OIDCEnter(r, s, b)
    PROVE  AccessTypeOK'
<1>1. CASE Logout(r, s, b)
  <2>1. RequestsOK'
    BY <1>1, EnterKeeps, NoReqFacts DEF Logout, drawn, Label, Fits
  <2> QED
    BY <1>1, <2>1 DEF Logout, AccessTypeOK, StoreOK, drawn, dbVars
<1>2. ASSUME NEW w \in Password, LoginBegin(r, s, b, w) PROVE AccessTypeOK'
  <2> DEFINE fields == [NoReq EXCEPT !.pw = w]
  <2>1. fields \in ReqState
    BY NoReqFacts DEF ReqState
  <2>2. /\ Enter(r, s, b, "login", "compare", fields)
        /\ proc' = [proc EXCEPT ![s].logins = @ + 1]
        /\ UNCHANGED <<dbVars, drawn, starts, cookies, starter, made>>
    BY <1>2 DEF LoginBegin
  <2> HIDE DEF fields
  <2>3. RequestsOK'
    BY <2>1, <2>2, EnterKeeps DEF drawn, Label, Fits
  <2>4. proc' \in [Server -> Process]
    <3>1. proc[s] \in Process
      BY DEF AccessTypeOK, StoreOK
    <3>2. [proc[s] EXCEPT !.logins = @ + 1] \in Process
      BY <3>1 DEF Process
    <3> QED
      BY <2>2, <3>2 DEF AccessTypeOK, StoreOK
  <2> QED
    BY <2>2, <2>3, <2>4 DEF AccessTypeOK, StoreOK, drawn, dbVars
<1>3. ASSUME NEW op \in {"signin", "callback"}, NEW l \in Label, Fits(l, op),
             NEW f \in Flow \cup {Nil}, NEW code \in Flow \cup {Nil},
             op = "callback" => f \in 1..lastFlow,
             OIDCBegin(r, s, b, op, l, f, code)
      PROVE  AccessTypeOK'
  <2> DEFINE fields == [NoReq EXCEPT !.flow = f, !.code = code]
  <2>1. fields \in ReqState /\ fields.flow = f
    BY NoReqFacts DEF ReqState
  <2>2. /\ Enter(r, s, b, op, l, fields)
        /\ proc' = [proc EXCEPT ![s].signins = @ + 1]
        /\ UNCHANGED <<dbVars, drawn, starts, cookies, starter, made>>
    BY <1>3 DEF OIDCBegin
  <2> HIDE DEF fields
  <2>3. RequestsOK'
    BY <1>3, <2>1, <2>2, EnterKeeps DEF drawn
  <2>4. proc' \in [Server -> Process]
    <3>1. proc[s] \in Process
      BY DEF AccessTypeOK, StoreOK
    <3>2. [proc[s] EXCEPT !.signins = @ + 1] \in Process
      BY <3>1 DEF Process
    <3> QED
      BY <2>2, <3>2 DEF AccessTypeOK, StoreOK
  <2> QED
    BY <2>2, <2>3, <2>4 DEF AccessTypeOK, StoreOK, drawn, dbVars
<1>4. CASE OIDCEnter(r, s, b)
  <2>1. CASE OIDCBegin(r, s, b, "signin", "discover", Nil, Nil)
    BY <1>3, <2>1 DEF Fits, Label
  <2>2. ASSUME NEW f \in 1..lastFlow, NEW code \in 1..lastFlow,
               OIDCBegin(r, s, b, "callback", "consume", f, code)
        PROVE  AccessTypeOK'
    <3>1. f \in Flow /\ code \in Flow
      BY AccessAssumption DEF AccessTypeOK, StoreOK, Flow
    <3> QED
      BY <1>3, <2>2, <3>1 DEF Fits, Label
  <2> QED
    BY <1>4, <2>1, <2>2 DEF OIDCEnter
<1> QED
  BY <1>1, <1>2, <1>4

\* The steps of a password login and of the insert.
LEMMA InsertTypes ==
    ASSUME AccessTypeOK, NEW r \in Request, LoginCompare(r) \/ CreateSession(r)
    PROVE  AccessTypeOK'
<1>0. /\ req[r] \in ReqState /\ ServedOK(r) /\ Token \subseteq Nat
      /\ sessions \in [Token -> Row \cup {Nil}] /\ made \subseteq [flow : Flow, browser : Browser, token : Token]
      /\ lastFlow \in 0..MaxFlow /\ MaxFlow \in Nat
  BY AccessAssumption DEF AccessTypeOK, RequestsOK, StoreOK, Token
<1>1. CASE LoginCompare(r)
  <2>1. RequestsOK'
    BY <1>0, <1>1, GotoKeeps DEF LoginCompare, ServedOK, ServedAs, Fits, Label, drawn
  <2> QED
    BY <1>1, <2>1 DEF LoginCompare, AccessTypeOK, StoreOK, drawn, dbVars
<1>2. CASE CreateSession(r)
  <2> DEFINE t == lastToken + 1
             row == [how |-> req[r].op, hash |-> Mem(r).hash, expired |-> FALSE]
             q == [req[r] EXCEPT !.token = t, !.ok = TRUE]
  <2>0. pc[r] = "insert" /\ UNCHANGED <<credential, flows, lastFlow, starts, proc, cookies, starter>>
    BY <1>2 DEF CreateSession
  <2>1. CASE Goto(r, "answer") /\ UNCHANGED <<sessions, lastToken, made>>
    <3>1. RequestsOK'
      BY <2>0, <2>1, GotoKeeps DEF Fits, Label
    <3> QED
      BY <2>0, <2>1, <3>1 DEF AccessTypeOK, StoreOK
  <2>2. ASSUME t \in Token,
               sessions' = [u \in Token |->
                   IF u = t THEN row
                   ELSE IF sessions[u] = Nil \/ sessions[u].expired \/ u = req[r].previous THEN Nil
                   ELSE sessions[u]],
               lastToken' = t,
               made' = IF req[r].op = "callback"
                     THEN made \cup {[flow |-> req[r].flow, browser |-> req[r].browser, token |-> t]}
                     ELSE made,
               Learn(r, "answer", q)
        PROVE  AccessTypeOK'
    <3>1. req[r].server \in Server /\ req[r].browser \in Browser
      BY <1>0, <2>0 DEF ServedOK, ServedAs
    <3>2. row \in Row
      <4>1. Mem(r).hash \in Hash \cup {Nil}
        BY <3>1 DEF Mem, AccessTypeOK, StoreOK, Process
      <4> QED
        BY <1>0, <4>1 DEF Row, ReqState
    <3> HIDE DEF row
    <3>3. sessions' \in [Token -> Row \cup {Nil}]
      BY <1>0, <2>2, <3>2
    <3>4. made' \subseteq [flow : Flow, browser : Browser, token : Token]
      BY <1>0, <2>2, <3>1 DEF ServedOK, ServedAs, Flow
    <3>5. q \in ReqState /\ q.op = req[r].op /\ q.server = req[r].server /\ q.browser = req[r].browser
          /\ q.flow = req[r].flow
      BY <1>0, <2>2 DEF ReqState
    <3> HIDE DEF q
    <3>6. RequestsOK'
      <4>1. ServedAs(q, "answer", lastFlow') /\ lastFlow' \in Int /\ lastFlow' >= lastFlow
            /\ "answer" \in Label
        BY <1>0, <2>0, <3>1, <3>5 DEF ServedOK, ServedAs, Fits, Label
      <4> QED
        BY <1>0, <2>2, <3>5, <4>1, LearnKeeps DEF Learn
    <3>7. lastToken' \in 0..MaxToken
      BY <2>2, AccessAssumption DEF Token
    <3> QED
      BY <2>0, <3>3, <3>4, <3>6, <3>7 DEF AccessTypeOK, StoreOK
  <2> QED
    BY <1>2, <2>1, <2>2 DEF CreateSession
<1> QED
  BY <1>1, <1>2

\* The steps of a sign-in between its arrival and the insert.
LEMMA SignInTypes ==
    ASSUME AccessTypeOK, NEW r \in Request,
           DiscoverLock(r) \/ DiscoverFetch(r) \/ Begin(r) \/ Consume(r) \/ Exchange(r)
    PROVE  AccessTypeOK'
<1>0. /\ req[r] \in ReqState /\ ServedOK(r) /\ proc \in [Server -> Process]
      /\ flows \in [Flow -> {"live", "expired", Nil}] /\ starter \in [Flow -> Browser \cup {Nil}]
      /\ lastFlow \in 0..MaxFlow /\ MaxFlow \in Nat /\ r \in Request
  BY AccessAssumption DEF AccessTypeOK, RequestsOK, StoreOK
<1>1. CASE DiscoverLock(r)
  <2>1. pc[r] = "discover" /\ UNCHANGED <<dbVars, drawn, starts, cookies, starter, made>>
    BY <1>1 DEF DiscoverLock
  <2>2. req[r].server \in Server /\ req[r].op \in {"signin", "callback"}
    BY <1>0, <2>1 DEF ServedOK, ServedAs, Fits
  <2>3. RequestsOK'
    <3>1. CASE Goto(r, AfterDiscover(r))
      BY <2>1, <2>2, <3>1, GotoKeeps DEF AfterDiscover, Fits, Label, drawn
    <3>2. CASE Goto(r, "fetch")
      BY <2>1, <2>2, <3>2, GotoKeeps DEF Fits, Label, drawn
    <3> QED
      BY <1>1, <3>1, <3>2 DEF DiscoverLock
  <2>4. proc' \in [Server -> Process]
    <3>1. [proc[req[r].server] EXCEPT !.mu = r] \in Process
      BY <1>0, <2>2 DEF Process
    <3> QED
      BY <1>0, <1>1, <3>1 DEF DiscoverLock
  <2> QED
    BY <2>1, <2>3, <2>4 DEF AccessTypeOK, StoreOK, dbVars, drawn
<1>2. CASE DiscoverFetch(r)
  <2>1. pc[r] = "fetch" /\ UNCHANGED <<dbVars, drawn, starts, cookies, starter, made>>
    BY <1>2 DEF DiscoverFetch
  <2>2. req[r].server \in Server /\ req[r].op \in {"signin", "callback"}
    BY <1>0, <2>1 DEF ServedOK, ServedAs, Fits
  <2>3. PICK found \in BOOLEAN :
         /\ proc' = [proc EXCEPT ![req[r].server] =
                       [@ EXCEPT !.mu = MuAfterFetch(r, found), !.provider = found]]
         /\ Goto(r, IF found THEN AfterDiscover(r) ELSE "answer")
    BY <1>2 DEF DiscoverFetch
  <2>4. RequestsOK'
    BY <2>1, <2>2, <2>3, GotoKeeps DEF AfterDiscover, Fits, Label, drawn
  <2>5. proc' \in [Server -> Process]
    <3> DEFINE old == proc[req[r].server]
               free == [old EXCEPT !.mu = Nil]
    <3>1. old \in Process
      BY <1>0, <2>2
    <3>2. proc' = [proc EXCEPT ![req[r].server] = [free EXCEPT !.provider = found]]
      BY <2>3 DEF MuAfterFetch
    <3> HIDE DEF old
    <3>3. free \in Process
      BY <3>1 DEF Process
    <3> HIDE DEF free
    <3>4. [free EXCEPT !.provider = found] \in Process
      BY <2>3, <3>3 DEF Process
    <3> QED
      BY <1>0, <3>2, <3>4
  <2> QED
    BY <2>1, <2>4, <2>5 DEF AccessTypeOK, StoreOK, dbVars, drawn
<1>3. CASE Begin(r)
  <2> DEFINE f == lastFlow + 1
             kept == [g \in Flow |-> IF g \in Reclaimed \/ g = req[r].binding THEN Nil ELSE flows[g]]
             q == [req[r] EXCEPT !.new = f, !.ok = TRUE]
  <2>1. pc[r] = "begin" /\ UNCHANGED <<credential, sessions, lastToken, starts, proc, cookies, made>>
    BY <1>3 DEF Begin
  <2>2. kept \in [Flow -> {"live", "expired", Nil}]
    BY <1>0
  <2>3. ASSUME f \in Flow, flows' = [kept EXCEPT ![f] = "live"], lastFlow' = f,
               starter' = [starter EXCEPT ![f] = req[r].browser], Learn(r, "answer", q)
        PROVE  AccessTypeOK'
    <3> HIDE DEF kept
    <3>1. flows' \in [Flow -> {"live", "expired", Nil}] /\ lastFlow' \in 0..MaxFlow
      BY <2>2, <2>3, AccessAssumption DEF Flow
    <3>2. starter' \in [Flow -> Browser \cup {Nil}]
      BY <1>0, <2>1, <2>3 DEF ServedOK, ServedAs
    <3>3. q \in ReqState /\ q.op = req[r].op /\ q.server = req[r].server /\ q.browser = req[r].browser
          /\ q.flow = req[r].flow
      BY <1>0, <2>3 DEF ReqState
    <3> HIDE DEF q
    <3>4. RequestsOK'
      <4>1. ServedAs(q, "answer", lastFlow') /\ lastFlow' \in Int /\ lastFlow' >= lastFlow
            /\ "answer" \in Label
        BY <1>0, <2>1, <2>3, <3>3 DEF ServedOK, ServedAs, Fits, Label
      <4> QED
        BY <1>0, <2>3, <3>3, <4>1, LearnKeeps DEF Learn
    <3> QED
      BY <2>1, <3>1, <3>2, <3>4 DEF AccessTypeOK, StoreOK
  <2>4. ASSUME NEW l \in {"full", "answer"}, Goto(r, l), UNCHANGED <<flows, lastFlow, starter>>
        PROVE  AccessTypeOK'
    <3>1. RequestsOK'
      BY <2>1, <2>4, GotoKeeps DEF Fits, Label
    <3> QED
      BY <2>1, <2>4, <3>1 DEF AccessTypeOK, StoreOK
  <2> QED
    BY <1>3, <2>3, <2>4 DEF Begin
<1>4. CASE Consume(r)
  <2>1. /\ pc[r] = "consume" /\ req[r].op = "callback"
        /\ UNCHANGED <<credential, sessions, drawn, starts, proc, cookies, starter, made>>
        /\ flows' \in {flows, Consumed(req[r].flow)}
        /\ Goto(r, "discover") \/ Goto(r, "answer")
    BY <1>0, <1>4 DEF Consume, ServedOK, ServedAs, Fits
  <2>2. flows' \in [Flow -> {"live", "expired", Nil}]
    BY <1>0, <2>1 DEF Consumed
  <2>3. RequestsOK'
    BY <2>1, GotoKeeps DEF Fits, Label, drawn
  <2> QED
    BY <2>1, <2>2, <2>3 DEF AccessTypeOK, StoreOK, drawn
<1>5. CASE Exchange(r)
  <2>1. /\ pc[r] = "exchange" /\ req[r].op = "callback"
        /\ UNCHANGED <<dbVars, drawn, starts, proc, cookies, starter, made>>
        /\ Goto(r, "insert") \/ Goto(r, "answer")
    BY <1>0, <1>5 DEF Exchange, ServedOK, ServedAs, Fits
  <2>2. RequestsOK'
    BY <2>1, GotoKeeps DEF Fits, Label, drawn
  <2> QED
    BY <2>1, <2>2 DEF AccessTypeOK, StoreOK, drawn, dbVars
<1> QED
  BY <1>1, <1>2, <1>3, <1>4, <1>5

\* The steps that end a request.
LEMMA AnswerTypes ==
    ASSUME AccessTypeOK, NEW r \in Request, Answer(r) \/ LogoutDelete(r)
    PROVE  AccessTypeOK'
<1>0. /\ req[r] \in ReqState /\ ServedOK(r) /\ proc \in [Server -> Process]
      /\ cookies \in [Browser -> [session : Token \cup {Nil}, binding : Flow \cup {Nil}]]
      /\ sessions \in [Token -> Row \cup {Nil}] /\ lastFlow \in Int
  BY DEF AccessTypeOK, RequestsOK, StoreOK
<1>1. ASSUME Learn(r, "idle", NoReq), lastFlow' = lastFlow PROVE RequestsOK'
  <2>1. ServedAs(NoReq, "idle", lastFlow') /\ lastFlow' >= lastFlow /\ "idle" \in Label
    BY <1>0, <1>1, NoReqFacts DEF ServedAs, Fits, Label
  <2> QED
    BY <1>0, <1>1, <2>1, LearnKeeps, NoReqFacts DEF Learn
<1>2. CASE Answer(r)
  <2>1. req[r].server \in Server /\ req[r].browser \in Browser
    BY <1>0, <1>2 DEF Answer, ServedOK, ServedAs
  <2>2. proc' \in [Server -> Process]
    <3>1. Released(r) \in Process
      <4>1. Mem(r) \in Process
        BY <1>0, <2>1 DEF Mem
      <4>2. Mem(r).logins \in Int /\ Mem(r).signins \in Int
        BY <4>1 DEF Process
      <4> DEFINE m == Mem(r)
                 n == IF req[r].op = "login" THEN 1 ELSE 0
                 c == [m EXCEPT !.logins = @ - n]
      <4>3. Released(r) = [c EXCEPT !.signins = @ - (IF req[r].op = "login" THEN 0 ELSE 1)]
        BY DEF Released
      <4>4. n \in Int /\ (IF req[r].op = "login" THEN 0 ELSE 1) \in Int
        OBVIOUS
      <4> HIDE DEF m, n
      <4>5. c \in Process
        BY <4>1, <4>2, <4>4 DEF Process, m
      <4> HIDE DEF c
      <4> QED
        BY <4>3, <4>4, <4>5 DEF Process
    <3> QED
      BY <1>0, <1>2, <2>1, <3>1 DEF Answer
  <2>3. cookies' \in [Browser -> [session : Token \cup {Nil}, binding : Flow \cup {Nil}]]
    <3>1. AnswerCookies(r, cookies[req[r].browser]) \in [session : Token \cup {Nil}, binding : Flow \cup {Nil}]
      BY <1>0, <2>1 DEF AnswerCookies, ReqState
    <3> QED
      BY <1>0, <1>2, <2>1, <3>1 DEF Answer
  <2> QED
    BY <1>1, <1>2, <2>2, <2>3 DEF Answer, AccessTypeOK, StoreOK, drawn, dbVars
<1>3. CASE LogoutDelete(r)
  <2>1. sessions' \in [Token -> Row \cup {Nil}]
    BY <1>0, <1>3 DEF LogoutDelete
  <2>2. cookies' \in [Browser -> [session : Token \cup {Nil}, binding : Flow \cup {Nil}]]
    BY <1>0, <1>3 DEF LogoutDelete
  <2> QED
    BY <1>1, <1>3, <2>1, <2>2 DEF LogoutDelete, AccessTypeOK, StoreOK, drawn
<1> QED
  BY <1>2, <1>3

LEMMA AccessTypeStep == AccessTypeOK /\ [AccessNext]_accessVars => AccessTypeOK'
<1> SUFFICES ASSUME AccessTypeOK, [AccessNext]_accessVars PROVE AccessTypeOK'
  OBVIOUS
<1>1. ASSUME NEW r \in Request, Work(r) PROVE AccessTypeOK'
  BY <1>1, InsertTypes, SignInTypes, AnswerTypes DEF Work
<1>2. CASE UNCHANGED accessVars
  BY <1>2 DEF accessVars, dbVars, drawn, AccessTypeOK, StoreOK, RequestsOK, ServedOK, ServedAs
<1> QED
  BY <1>1, <1>2, StartTypes, StopTypes, EndsTypes, ArrivalTypes
     DEF AccessNext, PasswordStep, OIDCStep

THEOREM AccessTypes == AccessSpec => []AccessTypeOK
BY AccessTypeStart, AccessTypeStep, PTL DEF AccessSpec

(* ------------------------- password sessions -------------------------- *)

\* Only initialize changes the credential, and it empties the table with the
\* same transaction; only the guarded insert adds to the table.
LEMMA PasswordStepKeeps ==
    AccessTypeOK /\ PasswordSessionsCurrent /\ [AccessNext]_accessVars => PasswordSessionsCurrent'
<1> SUFFICES ASSUME AccessTypeOK, PasswordSessionsCurrent, [AccessNext]_accessVars
             PROVE  PasswordSessionsCurrent'
  OBVIOUS
<1>0. sessions \in [Token -> Row \cup {Nil}]
  BY DEF AccessTypeOK, StoreOK
<1>1. CASE UNCHANGED <<credential, sessions>>
  BY <1>1 DEF PasswordSessionsCurrent
<1>2. ASSUME NEW s \in Server, NEW m \in Modes[s], Start(s, m) PROVE PasswordSessionsCurrent'
  <2> DEFINE changed == m.pw # Nil /\ (credential = Nil \/ credential.pw # m.pw)
  <2>1. /\ credential' = IF changed THEN [pw |-> m.pw, salt |-> starts + 1] ELSE credential
        /\ sessions' = Revoked(changed)
    BY <1>2, Zenon DEF Start
  <2> HIDE DEF changed
  <2> QED
    BY <2>1 DEF Revoked, PasswordSessionsCurrent
<1>3. ASSUME NEW t \in Token, SessionEnds(t) PROVE PasswordSessionsCurrent'
  <2>1. sessions[t] # Nil /\ sessions[t] \in Row /\ credential' = credential
        /\ sessions' = [sessions EXCEPT ![t] = [sessions[t] EXCEPT !.expired = TRUE]]
    BY <1>0, <1>3 DEF SessionEnds
  <2> DEFINE old == sessions[t]
  <2>2. [old EXCEPT !.expired = TRUE].how = old.how /\ [old EXCEPT !.expired = TRUE].hash = old.hash
    BY <2>1 DEF Row
  <2> QED
    BY <1>0, <2>1, <2>2 DEF PasswordSessionsCurrent
<1>4. ASSUME NEW r \in Request, LogoutDelete(r) PROVE PasswordSessionsCurrent'
  BY <1>0, <1>4 DEF LogoutDelete, PasswordSessionsCurrent
<1>5. ASSUME NEW r \in Request, CreateSession(r) PROVE PasswordSessionsCurrent'
  <2> DEFINE t == lastToken + 1
             row == [how |-> req[r].op, hash |-> Mem(r).hash, expired |-> FALSE]
  <2>1. CASE UNCHANGED sessions
    BY <1>5, <2>1 DEF CreateSession, PasswordSessionsCurrent
  <2>2. ASSUME MayInsert(r),
               sessions' = [u \in Token |->
                   IF u = t THEN row
                   ELSE IF sessions[u] = Nil \/ sessions[u].expired \/ u = req[r].previous THEN Nil
                   ELSE sessions[u]]
        PROVE  PasswordSessionsCurrent'
    <3>1. row.how = "login" => row.hash = credential
      BY <2>2 DEF MayInsert
    <3>2. credential' = credential
      BY <1>5 DEF CreateSession
    <3> HIDE DEF row
    <3> QED
      BY <2>2, <3>1, <3>2 DEF PasswordSessionsCurrent
  <2> QED
    BY <1>5, <2>1, <2>2 DEF CreateSession
<1>6. ASSUME NEW r \in Request, Work(r) PROVE PasswordSessionsCurrent'
  <2>1. ASSUME LoginCompare(r) \/ DiscoverLock(r) \/ DiscoverFetch(r) \/ Exchange(r) \/ Answer(r)
        PROVE  UNCHANGED <<credential, sessions>>
    BY <2>1 DEF LoginCompare, DiscoverLock, DiscoverFetch, Exchange, Answer, dbVars
  <2>2. ASSUME Begin(r) \/ Consume(r)
        PROVE  UNCHANGED <<credential, sessions>>
    BY <2>2 DEF Begin, Consume
  <2> QED
    BY <1>1, <1>4, <1>5, <1>6, <2>1, <2>2 DEF Work
<1>7. ASSUME NEW s \in Server, Stop(s) PROVE UNCHANGED <<credential, sessions>>
  BY <1>7 DEF Stop, dbVars
<1>8. ASSUME NEW f \in Flow, FlowEnds(f) PROVE UNCHANGED <<credential, sessions>>
  BY <1>8 DEF FlowEnds
<1>9. ASSUME NEW r \in Request, NEW s \in Server, NEW b \in Browser,
             Logout(r, s, b) \/ (\E w \in Password : LoginBegin(r, s, b, w)) \/ OIDCEnter(r, s, b)
      PROVE  UNCHANGED <<credential, sessions>>
  BY <1>9 DEF Logout, LoginBegin, OIDCEnter, OIDCBegin, dbVars
<1>10. ASSUME NEW s \in Server, NEW b \in Browser, OIDCBusy(s, b)
       PROVE  UNCHANGED <<credential, sessions>>
  BY <1>10 DEF OIDCBusy, dbVars
<1>11. CASE UNCHANGED accessVars
  BY <1>1, <1>11 DEF accessVars, dbVars
<1> QED
  BY <1>1, <1>2, <1>3, <1>6, <1>7, <1>8, <1>9, <1>10, <1>11 DEF AccessNext, PasswordStep, OIDCStep

\* A changed password revokes every password session, and a process that still
\* remembers the old hash cannot add one: whatever the processes, the requests
\* and the moments at which they start, stop and insert.
THEOREM SessionsFollowCredential == AccessSpec => []PasswordSessionsCurrent
<1>1. AccessInit => PasswordSessionsCurrent
  BY DEF AccessInit, PasswordSessionsCurrent
<1> QED
  BY <1>1, PasswordStepKeeps, AccessTypes, PTL DEF AccessSpec

(* --------------------------- OIDC sign-ins ---------------------------- *)

\* A callback that took its row out of the table and has not been answered.
Holds(r) == req[r].op = "callback" /\ pc[r] \in {"discover", "fetch", "exchange", "insert"}

\* What a browser or a request knows of a sign-in is of one begun for it.
BegunFor(f, b) == f # Nil => f \in 1..lastFlow /\ starter[f] = b

Bound ==
    /\ \A b \in Browser : BegunFor(cookies[b].binding, b)
    /\ \A r \in Request : pc[r] # "idle" =>
         BegunFor(req[r].binding, req[r].browser) /\ BegunFor(req[r].new, req[r].browser)

\* A row that was taken out or not yet made is not in the table; the one who
\* took it is alone with it, and no session was made for it so far.
TakenOnce ==
    /\ \A f \in Flow : f > lastFlow => flows[f] = Nil
    /\ \A r \in Request : Holds(r) =>
         /\ req[r].binding = req[r].flow /\ flows[req[r].flow] = Nil
         /\ \A x \in made : x.flow # req[r].flow
         /\ \A q \in Request : Holds(q) /\ req[q].flow = req[r].flow => q = r

\* A session that was made belongs to a row that is gone.
MadeOnce ==
    /\ \A x \in made : x.flow \in 1..lastFlow /\ flows[x.flow] = Nil /\ starter[x.flow] = x.browser
    /\ \A x, y \in made : x.flow = y.flow => x = y

FlowInv == Bound /\ TakenOnce /\ MadeOnce

LEMMA FlowStart == AccessInit => FlowInv
BY NoReqFacts DEF AccessInit, FlowInv, Bound, BegunFor, TakenOnce, MadeOnce, Holds

\* A step that only moves one request, without giving it a row of the table.
LEMMA QuietKeeps ==
    ASSUME AccessTypeOK, FlowInv, NEW r \in Request,
           UNCHANGED <<flows, lastFlow, starter, made>>,
           \A q \in Request : q # r => pc'[q] = pc[q] /\ req'[q] = req[q],
           \A b \in Browser : BegunFor(cookies'[b].binding, b),
           pc'[r] # "idle" =>
               BegunFor(req'[r].binding, req'[r].browser) /\ BegunFor(req'[r].new, req'[r].browser),
           Holds(r)' => Holds(r) /\ req'[r].flow = req[r].flow /\ req'[r].binding = req[r].binding
    PROVE  FlowInv'
<1>1. \A f, b : BegunFor(f, b)' = BegunFor(f, b)
  BY DEF BegunFor
<1>2. Bound'
  BY DEF Bound, FlowInv, BegunFor
<1>3. \A q \in Request : Holds(q)' => Holds(q) /\ req'[q].flow = req[q].flow /\ req'[q].binding = req[q].binding
  BY DEF Holds
<1>4. TakenOnce'
  BY <1>3 DEF TakenOnce, FlowInv
<1>5. MadeOnce'
  BY DEF MadeOnce, FlowInv
<1> QED
  BY <1>2, <1>4, <1>5 DEF FlowInv

\* Goto, by a request that does not come to hold a row.
LEMMA GotoQuiet ==
    ASSUME AccessTypeOK, FlowInv, NEW r \in Request, NEW l, Goto(r, l), pc[r] # "idle",
           UNCHANGED <<flows, lastFlow, starter, made, cookies>>,
           l \in {"discover", "fetch", "exchange", "insert"} /\ req[r].op = "callback" => Holds(r)
    PROVE  FlowInv'
<1>1. /\ req' = req /\ pc'[r] = l /\ \A q \in Request : q # r => pc'[q] = pc[q]
  BY DEF Goto, AccessTypeOK, RequestsOK
<1>2. Holds(r)' => Holds(r)
  BY <1>1 DEF Holds
<1> QED
  BY <1>1, <1>2, QuietKeeps DEF FlowInv, Bound

\* A request that arrives knows what its browser's cookie knows.
LEMMA EnterQuiet ==
    ASSUME AccessTypeOK, FlowInv, NEW r \in Request, NEW s \in Server, NEW b \in Browser,
           NEW op \in {"login", "signin", "callback", "logout"}, NEW l, NEW fields \in ReqState,
           Enter(r, s, b, op, l, fields), fields.new = Nil,
           UNCHANGED <<flows, lastFlow, starter, made, cookies>>,
           l \in {"discover", "fetch", "exchange", "insert"} => op # "callback"
    PROVE  FlowInv'
<1>1. /\ pc'[r] = l /\ \A q \in Request : q # r => pc'[q] = pc[q] /\ req'[q] = req[q]
      /\ req'[r].op = op /\ req'[r].browser = b /\ req'[r].binding = cookies[b].binding
      /\ req'[r].new = Nil
  <2>1. pc \in [Request -> Label]
    BY DEF AccessTypeOK, RequestsOK
  <2> QED
    BY <2>1, EnterFacts
<1>2. ~Holds(r)'
  BY <1>1 DEF Holds
<1>3. BegunFor(cookies[b].binding, b) /\ BegunFor(Nil, b)
  BY DEF FlowInv, Bound, BegunFor
<1> QED
  BY <1>1, <1>2, <1>3, QuietKeeps DEF FlowInv, Bound

LEMMA FlowUnchanged ==
    ASSUME FlowInv, UNCHANGED <<flows, lastFlow, starter, made, cookies, pc, req>>
    PROVE  FlowInv'
BY DEF FlowInv, Bound, BegunFor, TakenOnce, MadeOnce, Holds

\* What happens around the requests.
LEMMA SurroundingsKeepFlows ==
    ASSUME AccessTypeOK, FlowInv,
           \/ \E s \in Server : Stop(s) \/ \E m \in Modes[s] : Start(s, m)
           \/ \E t \in Token : SessionEnds(t)
           \/ \E f \in Flow : FlowEnds(f)
           \/ \E s \in Server, b \in Browser : OIDCBusy(s, b)
    PROVE  FlowInv'
<1>1. ASSUME NEW s \in Server, NEW m \in Modes[s], Start(s, m) PROVE FlowInv'
  BY <1>1, FlowUnchanged DEF Start, drawn
<1>2. ASSUME NEW t \in Token, SessionEnds(t) PROVE FlowInv'
  BY <1>2, FlowUnchanged DEF SessionEnds, drawn
<1>3. ASSUME NEW s \in Server, Stop(s) PROVE FlowInv'
  <2>1. UNCHANGED <<flows, lastFlow, starter, made, cookies>>
    BY <1>3 DEF Stop, dbVars, drawn
  <2>2. \A r \in Request : \/ pc'[r] = pc[r] /\ req'[r] = req[r]
                           \/ pc'[r] = "idle" /\ ~Holds(r)'
    BY <1>3 DEF Stop, Holds
  <2>3. \A r \in Request : Holds(r)' => Holds(r) /\ req'[r] = req[r]
    BY <2>2 DEF Holds
  <2>4. Bound'
    BY <2>1, <2>2 DEF FlowInv, Bound, BegunFor
  <2>5. TakenOnce'
    BY <2>1, <2>3 DEF FlowInv, TakenOnce
  <2> QED
    BY <2>1, <2>4, <2>5 DEF FlowInv, MadeOnce
<1>4. ASSUME NEW f \in Flow, FlowEnds(f) PROVE FlowInv'
  <2>1. /\ flows \in [Flow -> {"live", "expired", Nil}]
        /\ flows' = [flows EXCEPT ![f] = "expired"] /\ flows[f] # Nil
        /\ UNCHANGED <<lastFlow, starter, made, cookies, pc, req>>
    BY <1>4, AccessAssumption DEF FlowEnds, drawn, AccessTypeOK, StoreOK
  <2>2. \A g \in Flow : flows[g] = Nil => flows'[g] = Nil
    BY <2>1
  <2>3. \A r \in Request : Holds(r) => req[r].flow \in Flow
    BY AccessAssumption DEF AccessTypeOK, StoreOK, RequestsOK, ServedOK, ServedAs, Holds, Flow
  <2>4. \A x \in made : x.flow \in Flow
    BY DEF AccessTypeOK, StoreOK
  <2>5. Bound'
    BY <2>1 DEF FlowInv, Bound, BegunFor
  <2>6. TakenOnce'
    BY <2>1, <2>2, <2>3 DEF FlowInv, TakenOnce, Holds
  <2>7. MadeOnce'
    BY <2>1, <2>2, <2>4 DEF FlowInv, MadeOnce
  <2> QED
    BY <2>5, <2>6, <2>7 DEF FlowInv
<1>5. ASSUME NEW s \in Server, NEW b \in Browser, OIDCBusy(s, b) PROVE FlowInv'
  <2>1. /\ cookies' = [cookies EXCEPT ![b].binding = Nil]
        /\ UNCHANGED <<flows, lastFlow, starter, made, pc, req>>
    BY <1>5 DEF OIDCBusy, dbVars, drawn
  <2>2. \A c \in Browser : cookies'[c].binding \in {cookies[c].binding, Nil}
    BY <2>1 DEF AccessTypeOK, StoreOK
  <2>3. Bound'
    BY <2>1, <2>2 DEF FlowInv, Bound, BegunFor
  <2> QED
    BY <2>1, <2>3 DEF FlowInv, TakenOnce, MadeOnce, Holds
<1> QED
  BY <1>1, <1>2, <1>3, <1>4, <1>5

LEMMA ArrivalsKeepFlows ==
    ASSUME AccessTypeOK, FlowInv, NEW r \in Request, NEW s \in Server, NEW b \in Browser,
           Logout(r, s, b) \/ (\E w \in Password : LoginBegin(r, s, b, w)) \/ OIDCEnter(r, s, b)
    PROVE  FlowInv'
<1>1. CASE Logout(r, s, b)
  BY <1>1, EnterQuiet, NoReqFacts DEF Logout, dbVars, drawn
<1>2. ASSUME NEW w \in Password, LoginBegin(r, s, b, w) PROVE FlowInv'
  <2>1. [NoReq EXCEPT !.pw = w] \in ReqState /\ [NoReq EXCEPT !.pw = w].new = Nil
    BY NoReqFacts DEF ReqState
  <2> QED
    BY <1>2, <2>1, EnterQuiet DEF LoginBegin, dbVars, drawn
<1>3. ASSUME NEW f \in Flow \cup {Nil}, NEW code \in Flow \cup {Nil},
             NEW op \in {"signin", "callback"}, NEW l \in {"discover", "consume"},
             l = "discover" => op = "signin", OIDCBegin(r, s, b, op, l, f, code)
      PROVE  FlowInv'
  <2>1. /\ [NoReq EXCEPT !.flow = f, !.code = code] \in ReqState
        /\ [NoReq EXCEPT !.flow = f, !.code = code].new = Nil
    BY NoReqFacts DEF ReqState
  <2> QED
    BY <1>3, <2>1, EnterQuiet DEF OIDCBegin, dbVars, drawn
<1>4. \A f \in 1..lastFlow : f \in Flow
  BY AccessAssumption DEF AccessTypeOK, StoreOK, Flow
<1> QED
  BY <1>1, <1>2, <1>3, <1>4 DEF OIDCEnter

\* The steps of a request that leave the table of sign-ins alone.
LEMMA QuietWorkKeepsFlows ==
    ASSUME AccessTypeOK, FlowInv, NEW r \in Request,
           LoginCompare(r) \/ DiscoverLock(r) \/ DiscoverFetch(r) \/ Exchange(r)
    PROVE  FlowInv'
<1>1. PICK l \in Label : Goto(r, l)
  BY DEF LoginCompare, DiscoverLock, DiscoverFetch, Exchange, AfterDiscover, Label
<1>2. /\ UNCHANGED <<flows, lastFlow, starter, made, cookies>>
      /\ pc[r] \in {"compare", "discover", "fetch", "exchange"}
  BY DEF LoginCompare, DiscoverLock, DiscoverFetch, Exchange, dbVars, drawn
<1>3. req[r].op = "callback" => Holds(r)
  BY <1>2 DEF Holds, AccessTypeOK, RequestsOK, ServedOK, ServedAs, Fits
<1> QED
  BY <1>1, <1>2, <1>3, GotoQuiet

\* The insert: the callback that held the row becomes the one session made.
LEMMA CreateSessionKeepsFlows ==
    ASSUME AccessTypeOK, FlowInv, NEW r \in Request, CreateSession(r)
    PROVE  FlowInv'
<1> DEFINE t == lastToken + 1
           q == [req[r] EXCEPT !.token = t, !.ok = TRUE]
           x == [flow |-> req[r].flow, browser |-> req[r].browser, token |-> t]
<1>0. /\ pc[r] = "insert" /\ UNCHANGED <<flows, lastFlow, cookies, starter>>
      /\ req[r] \in ReqState /\ ServedOK(r)
      /\ pc \in [Request -> Label] /\ req \in [Request -> ReqState]
  BY DEF CreateSession, AccessTypeOK, RequestsOK
<1>1. CASE Goto(r, "answer") /\ made' = made
  BY <1>0, <1>1, GotoQuiet
<1>2. ASSUME made' = IF req[r].op = "callback" THEN made \cup {x} ELSE made, Learn(r, "answer", q),
             t \in Token
      PROVE  FlowInv'
  <2>1. /\ q \in ReqState /\ q.binding = req[r].binding /\ q.new = req[r].new
        /\ q.browser = req[r].browser
    BY <1>0, <1>2 DEF ReqState
  <2> HIDE DEF q
  <2>2. /\ pc'[r] = "answer" /\ req'[r] = q
        /\ \A k \in Request : k # r => pc'[k] = pc[k] /\ req'[k] = req[k]
    BY <1>0, <1>2 DEF Learn
  <2>3. CASE req[r].op # "callback"
    <3>1. ~Holds(r)'
      BY <2>2 DEF Holds
    <3>2. BegunFor(req[r].binding, req[r].browser) /\ BegunFor(req[r].new, req[r].browser)
      BY <1>0 DEF FlowInv, Bound
    <3> QED
      BY <1>0, <1>2, <2>1, <2>2, <2>3, <3>1, <3>2, QuietKeeps DEF FlowInv, Bound
  <2>4. CASE req[r].op = "callback"
    <3>1. /\ Holds(r) /\ made' = made \cup {x} /\ req[r].flow \in 1..lastFlow
          /\ req[r].binding = req[r].flow /\ flows[req[r].flow] = Nil
          /\ starter[req[r].flow] = req[r].browser
          /\ \A y \in made : y.flow # req[r].flow
      <4>1. Holds(r) /\ made' = made \cup {x} /\ req[r].flow \in 1..lastFlow
        BY <1>0, <1>2, <2>4 DEF Holds, ServedOK, ServedAs
      <4>2. req[r].flow # Nil
        <5>1. \A n \in 1..lastFlow : n \in 1..MaxFlow
          BY AccessAssumption DEF AccessTypeOK, StoreOK
        <5> QED
          BY <4>1, <5>1, AccessAssumption
      <4> QED
        BY <1>0, <4>1, <4>2 DEF FlowInv, Bound, TakenOnce, BegunFor
    <3>2. x.flow = req[r].flow /\ x.browser = req[r].browser
      OBVIOUS
    <3> HIDE DEF x
    <3>3. \A k \in Request : Holds(k)' =>
              /\ Holds(k) /\ req'[k] = req[k] /\ req[k].flow # req[r].flow
      BY <2>2, <3>1 DEF Holds, FlowInv, TakenOnce
    <3>4. Bound'
      BY <1>0, <2>1, <2>2 DEF FlowInv, Bound, BegunFor
    <3>5. TakenOnce'
      BY <1>0, <3>1, <3>2, <3>3 DEF FlowInv, TakenOnce
    <3>6. MadeOnce'
      BY <1>0, <3>1, <3>2 DEF FlowInv, MadeOnce
    <3> QED
      BY <3>4, <3>5, <3>6 DEF FlowInv
  <2> QED
    BY <2>3, <2>4
<1> QED
  BY <1>1, <1>2 DEF CreateSession

\* Begin: the row it makes has a number nobody has seen.
LEMMA BeginKeepsFlows ==
    ASSUME AccessTypeOK, FlowInv, NEW r \in Request, Begin(r)
    PROVE  FlowInv'
<1> DEFINE f == lastFlow + 1
           kept == [g \in Flow |-> IF g \in Reclaimed \/ g = req[r].binding THEN Nil ELSE flows[g]]
           q == [req[r] EXCEPT !.new = f, !.ok = TRUE]
<1>0. /\ pc[r] = "begin" /\ UNCHANGED <<cookies, made>>
      /\ req[r] \in ReqState /\ ServedOK(r) /\ req[r].op = "signin" /\ req[r].browser \in Browser
      /\ pc \in [Request -> Label] /\ req \in [Request -> ReqState]
      /\ flows \in [Flow -> {"live", "expired", Nil}] /\ starter \in [Flow -> Browser \cup {Nil}]
      /\ lastFlow \in Nat /\ f \in Nat
  BY AccessAssumption DEF Begin, AccessTypeOK, RequestsOK, StoreOK, ServedOK, ServedAs, Fits
<1>1. ASSUME NEW l \in {"full", "answer"}, Goto(r, l), UNCHANGED <<flows, lastFlow, starter>>
      PROVE  FlowInv'
  BY <1>0, <1>1, GotoQuiet
<1>2. ASSUME f \in Flow, flows' = [kept EXCEPT ![f] = "live"], lastFlow' = f,
             starter' = [starter EXCEPT ![f] = req[r].browser], Learn(r, "answer", q)
      PROVE  FlowInv'
  <2>1. /\ q \in ReqState /\ q.binding = req[r].binding /\ q.new = f /\ q.browser = req[r].browser
    BY <1>0, <1>2 DEF ReqState
  <2> HIDE DEF q
  <2>2. /\ pc'[r] = "answer" /\ req'[r] = q
        /\ \A k \in Request : k # r => pc'[k] = pc[k] /\ req'[k] = req[k]
    BY <1>0, <1>2 DEF Learn
  <2>3. \A g \in Flow : g # f => (flows[g] = Nil => flows'[g] = Nil) /\ starter'[g] = starter[g]
    BY <1>0, <1>2
  <2>4. starter'[f] = req[r].browser /\ lastFlow' = lastFlow + 1
    BY <1>0, <1>2
  <2>5. \A g \in 1..lastFlow : g \in Flow /\ g # f /\ g \in 1..lastFlow'
    BY <1>0, <1>2, AccessAssumption DEF Flow
  <2>6. f \in 1..lastFlow' /\ \A g \in Flow : g > lastFlow' => g # f /\ g > lastFlow
    BY <1>0, <1>2 DEF Flow
  <2> HIDE DEF f, kept
  <2>7. \A g, b : BegunFor(g, b) => BegunFor(g, b)'
    BY <2>3, <2>5 DEF BegunFor
  <2>8. Bound'
    <3>1. ASSUME NEW b \in Browser PROVE BegunFor(cookies[b].binding, b)'
      BY <1>0, <2>7 DEF FlowInv, Bound, BegunFor
    <3>2. ASSUME NEW k \in Request, pc'[k] # "idle"
          PROVE  /\ req'[k].binding # Nil => /\ req'[k].binding \in 1..lastFlow'
                                             /\ starter'[req'[k].binding] = req'[k].browser
                 /\ req'[k].new # Nil => /\ req'[k].new \in 1..lastFlow'
                                         /\ starter'[req'[k].new] = req'[k].browser
      <4>1. pc[k] # "idle" /\ req'[k].binding = req[k].binding /\ req'[k].browser = req[k].browser
        BY <1>0, <2>1, <2>2, <3>2
      <4>2. /\ BegunFor(req[k].binding, req[k].browser) /\ BegunFor(req[k].new, req[k].browser)
        BY <4>1 DEF FlowInv, Bound
      <4>3. k # r => req'[k].new = req[k].new
        BY <2>2
      <4> QED
        BY <2>1, <2>2, <2>4, <2>6, <2>7, <4>1, <4>2, <4>3 DEF BegunFor
    <3> QED
      BY <3>1, <3>2 DEF Bound, BegunFor
  <2>9. TakenOnce'
    <3>1. \A k \in Request : Holds(k)' => Holds(k) /\ req'[k] = req[k] /\ req[k].flow \in 1..lastFlow
      BY <2>2 DEF Holds, AccessTypeOK, RequestsOK, ServedOK, ServedAs
    <3> QED
      BY <1>0, <2>3, <2>5, <2>6, <3>1 DEF FlowInv, TakenOnce
  <2>10. MadeOnce'
    BY <1>0, <2>3, <2>5 DEF FlowInv, MadeOnce
  <2> QED
    BY <2>8, <2>9, <2>10 DEF FlowInv
<1> QED
  BY <1>1, <1>2 DEF Begin

\* DELETE ... RETURNING: whoever finds the row is the one who holds it now.
LEMMA ConsumeKeepsFlows ==
    ASSUME AccessTypeOK, FlowInv, NEW r \in Request, Consume(r)
    PROVE  FlowInv'
<1>0. /\ pc[r] = "consume" /\ UNCHANGED <<lastFlow, starter, cookies, made>>
      /\ req[r].op = "callback" /\ req[r].flow \in 1..lastFlow
      /\ flows \in [Flow -> {"live", "expired", Nil}] /\ pc \in [Request -> Label]
  BY DEF Consume, AccessTypeOK, RequestsOK, StoreOK, ServedOK, ServedAs, Fits, drawn
<1>1. CASE Goto(r, "answer") /\ flows' = flows
  BY <1>0, <1>1, GotoQuiet
<1>2. ASSUME Matches(r), flows' = Consumed(req[r].flow), NEW l \in {"discover", "answer"}, Goto(r, l)
      PROVE  FlowInv'
  <2>1. req[r].flow \in Flow
    BY <1>0, AccessAssumption DEF AccessTypeOK, StoreOK, Flow
  <2>2. /\ flows[req[r].flow] # Nil /\ req[r].binding = req[r].flow /\ flows'[req[r].flow] = Nil
        /\ \A g \in Flow : flows[g] = Nil => flows'[g] = Nil
    BY <1>0, <1>2, <2>1, AccessAssumption DEF Matches, Consumed
  <2>3. req' = req /\ pc'[r] = l /\ \A k \in Request : k # r => pc'[k] = pc[k]
    BY <1>0, <1>2 DEF Goto
  <2>4. \A k \in Request : Holds(k)' => k = r \/ Holds(k)
    BY <2>3 DEF Holds
  <2>5. \A k \in Request : Holds(k) => req[k].flow # req[r].flow /\ req[k].flow \in Flow
    <3>1. \A n \in 1..lastFlow : n \in Flow
      BY AccessAssumption DEF AccessTypeOK, StoreOK, Flow
    <3> QED
      BY <2>2, <3>1 DEF FlowInv, TakenOnce, Holds, AccessTypeOK, RequestsOK, ServedOK, ServedAs
  <2>6. \A x \in made : x.flow # req[r].flow /\ x.flow \in Flow
    BY <2>2 DEF FlowInv, MadeOnce, AccessTypeOK, StoreOK
  <2>7. Bound'
    BY <1>0, <2>3 DEF FlowInv, Bound, BegunFor
  <2>8. TakenOnce'
    BY <1>0, <2>2, <2>3, <2>4, <2>5, <2>6 DEF FlowInv, TakenOnce
  <2>9. MadeOnce'
    BY <1>0, <2>2, <2>6 DEF FlowInv, MadeOnce
  <2> QED
    BY <2>7, <2>8, <2>9 DEF FlowInv
<1> QED
  BY <1>1, <1>2 DEF Consume

\* The answer hands the browser what its own request found out.
LEMMA AnswerKeepsFlows ==
    ASSUME AccessTypeOK, FlowInv, NEW r \in Request, Answer(r) \/ LogoutDelete(r)
    PROVE  FlowInv'
<1>0. /\ pc[r] # "idle" /\ UNCHANGED <<flows, lastFlow, starter, made>>
      /\ Learn(r, "idle", NoReq)
      /\ pc \in [Request -> Label] /\ req \in [Request -> ReqState] /\ ServedOK(r)
      /\ cookies \in [Browser -> [session : Token \cup {Nil}, binding : Flow \cup {Nil}]]
  BY DEF Answer, LogoutDelete, dbVars, drawn, AccessTypeOK, StoreOK, RequestsOK
<1>1. /\ pc'[r] = "idle" /\ \A q \in Request : q # r => pc'[q] = pc[q] /\ req'[q] = req[q]
  BY <1>0 DEF Learn
<1>2. ~Holds(r)'
  BY <1>1 DEF Holds
<1>3. req[r].browser \in Browser /\ BegunFor(req[r].new, req[r].browser)
  BY <1>0 DEF ServedOK, ServedAs, FlowInv, Bound
<1>4. ASSUME NEW b \in Browser PROVE BegunFor(cookies'[b].binding, b)
  <2>1. BegunFor(cookies[b].binding, b)
    BY DEF FlowInv, Bound
  <2>2. \/ cookies'[b].binding = cookies[b].binding
        \/ b = req[r].browser /\ cookies'[b].binding = req[r].new
    <3>1. CASE Answer(r)
      <4>1. AnswerCookies(r, cookies[b]).binding \in {cookies[b].binding, req[r].new}
        BY DEF AnswerCookies
      <4> QED
        BY <1>0, <1>3, <3>1, <4>1 DEF Answer
    <3>2. CASE LogoutDelete(r)
      BY <1>0, <1>3, <3>2 DEF LogoutDelete
    <3> QED
      BY <3>1, <3>2
  <2> QED
    BY <1>3, <2>1, <2>2
<1> QED
  BY <1>0, <1>1, <1>2, <1>4, QuietKeeps

LEMMA FlowStep == AccessTypeOK /\ FlowInv /\ [AccessNext]_accessVars => FlowInv'
<1> SUFFICES ASSUME AccessTypeOK, FlowInv, [AccessNext]_accessVars PROVE FlowInv'
  OBVIOUS
<1>1. ASSUME NEW r \in Request, Work(r) PROVE FlowInv'
  BY <1>1, QuietWorkKeepsFlows, CreateSessionKeepsFlows, BeginKeepsFlows, ConsumeKeepsFlows,
     AnswerKeepsFlows DEF Work
<1>2. CASE UNCHANGED accessVars
  BY <1>2, FlowUnchanged DEF accessVars, dbVars, drawn
<1> QED
  BY <1>1, <1>2, SurroundingsKeepFlows, ArrivalsKeepFlows DEF AccessNext, PasswordStep, OIDCStep

\* However often the callback of a sign-in is called, by whichever browser and
\* on however many processes, it ends in at most one session, and that is the
\* session of the browser that began it.
THEOREM SignInOnce == AccessSpec => []OneSessionPerFlow
<1>1. FlowInv => OneSessionPerFlow
  BY DEF FlowInv, MadeOnce, OneSessionPerFlow
<1> QED
  BY <1>1, FlowStart, FlowStep, AccessTypes, PTL DEF AccessSpec

\* The only step that turns a sign-in away for want of room is the second
\* branch of Begin, and what Begin counts are the live rows of other browsers.
LEMMA FullMeansLive ==
    ASSUME AccessTypeOK, NEW r \in Request, Begin(r), pc'[r] = "full"
    PROVE  Cardinality({f \in Flow : flows[f] = "live" /\ f # req[r].binding}) >= TxCap
<1> DEFINE kept == [g \in Flow |-> IF g \in Reclaimed \/ g = req[r].binding THEN Nil ELSE flows[g]]
<1>1. \A l : pc' = [pc EXCEPT ![r] = l] => pc'[r] = l
  BY DEF AccessTypeOK, RequestsOK
<1>2. Cardinality({g \in Flow : kept[g] # Nil}) >= TxCap
  BY <1>1, Zenon DEF Begin, Goto, Learn
<1>3. {g \in Flow : kept[g] # Nil} = {f \in Flow : flows[f] = "live" /\ f # req[r].binding}
  BY AccessAssumption DEF Reclaimed, AccessTypeOK, StoreOK
<1> HIDE DEF kept
<1> QED
  BY <1>2, <1>3

LEMMA OnlyBeginRefuses ==
    ASSUME AccessTypeOK, [AccessNext]_accessVars, NEW r \in Request,
           pc[r] = "begin", pc'[r] = "full"
    PROVE  Begin(r)
<1>0. pc \in [Request -> Label]
  BY DEF AccessTypeOK, RequestsOK
<1>1. pc' # pc
  OBVIOUS
<1>2. ASSUME NEW k \in Request, NEW l, pc' = [pc EXCEPT ![k] = l] PROVE k = r /\ l = "full"
  BY <1>0, <1>2
<1>3. \A s \in Server : ~Stop(s) /\ \A m \in Modes[s] : ~Start(s, m)
  BY <1>0, <1>1 DEF Stop, Start
<1>4. /\ \A t \in Token : ~SessionEnds(t)
      /\ \A f \in Flow : ~FlowEnds(f)
      /\ \A s \in Server, b \in Browser : ~OIDCBusy(s, b)
  BY <1>1 DEF SessionEnds, FlowEnds, OIDCBusy
<1>5. ASSUME NEW k \in Request, NEW s \in Server, NEW b \in Browser
      PROVE  /\ ~Logout(k, s, b) /\ ~OIDCEnter(k, s, b)
             /\ \A w \in Password : ~LoginBegin(k, s, b, w)
  <2>1. ASSUME NEW op, NEW l, NEW fields, Enter(k, s, b, op, l, fields) PROVE l = "full"
    BY <1>2, <2>1 DEF Enter, Learn
  <2> QED
    BY <2>1 DEF Logout, OIDCEnter, OIDCBegin, LoginBegin
<1>6. ASSUME NEW k \in Request, Work(k) PROVE Begin(r)
  <2>1. ASSUME NEW l, Goto(k, l) PROVE l = "full" /\ k = r
    BY <1>2, <2>1 DEF Goto
  <2>2. ASSUME NEW l, NEW new, Learn(k, l, new) PROVE l = "full" /\ k = r
    BY <1>2, <2>2 DEF Learn
  <2>3. ~LoginCompare(k)
    BY <2>1 DEF LoginCompare
  <2>4. ~CreateSession(k)
    BY <2>1, <2>2 DEF CreateSession
  <2>5. ~DiscoverLock(k) /\ ~DiscoverFetch(k)
    BY <2>1 DEF DiscoverLock, DiscoverFetch, AfterDiscover
  <2>6. ~Consume(k) /\ ~Exchange(k)
    BY <2>1 DEF Consume, Exchange
  <2>7. ~Answer(k) /\ ~LogoutDelete(k)
    BY <2>2 DEF Answer, LogoutDelete
  <2>8. Begin(k) => k = r
    BY <2>1, <2>2 DEF Begin
  <2> QED
    BY <1>6, <2>3, <2>4, <2>5, <2>6, <2>7, <2>8 DEF Work
<1> QED
  BY <1>1, <1>3, <1>4, <1>5, <1>6 DEF AccessNext, PasswordStep, OIDCStep, accessVars

\* Abandoned sign-ins never block Begin: it refuses only while TxCap sign-ins of
\* other browsers could still be finished.
THEOREM BeginRefusesOnlyWhenFull == AccessSpec => RefusedOnlyWhenFull
<1>1. AccessTypeOK /\ [AccessNext]_accessVars =>
        [\A r \in Request : pc[r] = "begin" /\ pc'[r] = "full" =>
           Cardinality({f \in Flow : flows[f] = "live" /\ f # req[r].binding}) >= TxCap]_accessVars
  BY OnlyBeginRefuses, FullMeansLive
<1> QED
  BY <1>1, AccessTypes, PTL DEF AccessSpec, RefusedOnlyWhenFull

=============================================================================
