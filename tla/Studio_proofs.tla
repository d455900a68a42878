--------------------------- MODULE Studio_proofs ---------------------------
(* Proofs about authentication: the logins and sessions of Sessions for     *)
(* every set of tabs, number of logins and lifetime, then the cached keys   *)
(* of the identity provider (SigningKeys) for every set of keys, lifetime   *)
(* and cooldown; and about the studio, which puts both beside the review    *)
(* workflow, whose own proofs are in ReviewWorkflow_proofs.                 *)
EXTENDS MCStudio, ReviewWorkflow_proofs

\* From the callback that spends a flow to the one place that writes its session.
Acting == {"exchange", "profile", "replace", "create"}

\* The flow was spent and no request will write its session any more.
Over(f) == f \in spent /\ \A t \in Tabs : tabs[t].pc \in Acting => tabs[t].flow # f

\* What a request relies on at the step it has come to.
Carries(tab) ==
  /\ tab.session # None => Over(tab.session)
  /\ tab.pc = "check" => tab.state # None
  /\ tab.pc \in {"login", "spend"} => tab.flow \in Flows
  /\ tab.pc \in Acting => tab.flow \in spent
  /\ tab.pc = "exchange" => exchanged[tab.flow] = 0
  /\ tab.pc \in {"profile", "replace", "create"} => tab.expires <= tokens[tab.flow]
  /\ tab.pc = "create" /\ tab.session # None => sessions[tab.session] = 0
  /\ tab.pc = "revoke" => tab.session # None
  /\ tab.pc = "answer" /\ tab.answer = "replaced" =>
       /\ tab.flow \in Flows /\ Over(tab.flow)
       /\ tab.session # None => sessions[tab.session] = 0
  /\ tab.pc = "answer" /\ tab.answer = "left" => tab.session # None /\ sessions[tab.session] = 0

\* One request acts on a flow, since one callback spends it.
OneActs ==
  \A t, u \in Tabs : t # u /\ tabs[t].pc \in Acting /\ tabs[u].pc \in Acting
    => tabs[t].flow # tabs[u].flow

\* Rows and cookies are of flows whose session is written; logouts stay final.
WrittenIsOver ==
  /\ \A f \in Flows : sessions[f] # 0 => Over(f)
  /\ jar.session # None => Over(jar.session)
  /\ \A f \in left : Over(f) /\ sessions[f] = 0

Unspent == \A f \in Flows : f \notin spent => exchanged[f] = 0

LoginInv ==
  /\ LoginTypeOK /\ FlowSpentOnce /\ SessionEndsWithToken
  /\ Unspent /\ OneActs /\ WrittenIsOver
  /\ \A t \in Tabs : Carries(tabs[t])

\* What the steps of a request in tab t may do to what others rely on.
Moves(t) ==
  /\ clock' = clock /\ flows' \in [Flows -> Nat]
  /\ tabs' \in [Tabs -> Tab]
  /\ \A u \in Tabs \ {t} : tabs'[u] = tabs[u]
  /\ spent \subseteq spent' /\ spent' \subseteq Flows
  /\ tabs'[t].pc \in Acting =>
       \/ tabs[t].pc \in Acting /\ tabs'[t].flow = tabs[t].flow
       \/ tabs'[t].flow \in spent' \ spent
  /\ sessions' \in [Flows -> Nat]
  /\ \A f \in Flows :
       \/ sessions'[f] \in {sessions[f], 0}
       \/ /\ tabs[t].pc = "create" /\ tabs'[t].pc \notin Acting
          /\ f = tabs[t].flow /\ sessions'[f] <= tokens[f]
  /\ exchanged' \in [Flows -> Nat] /\ tokens' \in [Flows -> Nat]
  /\ \A f \in Flows :
       \/ exchanged'[f] = exchanged[f] /\ tokens'[f] = tokens[f]
       \/ /\ tabs[t].pc = "exchange" /\ tabs'[t].pc # "exchange"
          /\ f = tabs[t].flow /\ exchanged'[f] = exchanged[f] + 1
          /\ tokens'[f] # tokens[f] => tabs[t].pc = "exchange"

----------------------------------------------------------------------------
\* Flows are numbers, and no number is None.
LEMMA FlowsAreNumbers ==
  ASSUME LoginParameters
  PROVE  /\ MaxFlows \in Nat /\ Flows \subseteq Nat /\ None \notin Flows
         /\ FlowLife \in Nat /\ SessionLife \in Nat /\ TokenLives \subseteq Nat
BY DEF LoginParameters, Flows

\* Such steps leave a flow over that was over, and its session revoked.
LEMMA OverStays ==
  ASSUME LoginInv, NEW t \in Tabs, Moves(t), NEW f \in Flows, Over(f)
  PROVE  /\ Over(f)'
         /\ sessions[f] = 0 => sessions'[f] = 0
<1>1. f \in spent /\ \A u \in Tabs : tabs[u].pc \in Acting => tabs[u].flow # f
  BY DEF Over
<1>2. tabs[t].pc = "create" => tabs[t].flow # f
  BY <1>1 DEF Acting
<1>3. sessions'[f] \in {sessions[f], 0}
  BY <1>2 DEF Moves
<1>4. tabs'[t].pc \in Acting => tabs'[t].flow # f
  BY <1>1 DEF Moves
<1>5. \A u \in Tabs : tabs'[u].pc \in Acting => tabs'[u].flow # f
  BY <1>1, <1>4 DEF Moves
<1>6. f \in spent'
  BY <1>1 DEF Moves
<1> QED
  BY <1>3, <1>5, <1>6 DEF Over

\* They leave alone what the requests of other tabs rely on ...
LEMMA OthersCarry ==
  ASSUME LoginParameters, LoginInv, NEW t \in Tabs, Moves(t), NEW u \in Tabs, u # t
  PROVE  Carries(tabs[u])'
<1>1. PICK tab \in Tab : tab = tabs[u] /\ tab = tabs'[u] /\ Carries(tab)
  BY DEF LoginInv, LoginTypeOK, Moves
<1>2. tab.session \in Flows \cup {None} /\ tab.flow \in Flows \cup {None} /\ None \notin Flows
  BY <1>1, FlowsAreNumbers DEF Tab, Cookie
<1>3. ASSUME tab.session # None
      PROVE  Over(tab.session)' /\ (sessions[tab.session] = 0 => sessions'[tab.session] = 0)
  BY <1>1, <1>2, <1>3, OverStays DEF Carries
<1>4. ASSUME tab.flow \in Flows, Over(tab.flow)
      PROVE  Over(tab.flow)'
  BY <1>4, OverStays
<1>5. ASSUME tab.pc \in Acting
      PROVE  tab.flow \in spent'
  BY <1>1, <1>5 DEF Carries, Moves
<1>6. ASSUME tab.pc \in Acting
      PROVE  exchanged'[tab.flow] = exchanged[tab.flow] /\ tokens'[tab.flow] = tokens[tab.flow]
  <2>1. tab.flow \in Flows
    BY <1>1, <1>6 DEF Carries, LoginInv, LoginTypeOK
  <2>2. tabs[t].pc = "exchange" => tabs[t].flow # tab.flow
    BY <1>1, <1>6 DEF LoginInv, OneActs, Acting
  <2> QED
    BY <2>1, <2>2 DEF Moves
<1>7. tab.pc \in {"profile", "replace", "create"} => tab.pc \in Acting
  BY DEF Acting
<1>8. tab.pc = "exchange" \/ tab.pc = "create" => tab.pc \in Acting
  BY DEF Acting
<1>9. Carries(tab)'
  BY <1>1, <1>2, <1>3, <1>4, <1>5, <1>6, <1>7, <1>8 DEF Carries
<1> QED
  BY <1>1, <1>9

\* ... so that the invariant is kept if the tab's own request can rely on what
\* it needs next, and the cookies and the logouts are of flows that are over.
LEMMA MovesKeep ==
  ASSUME LoginParameters, LoginInv, NEW t \in Tabs, Moves(t), Carries(tabs[t])',
         jar' \in Jar, jar'.session # None => Over(jar.session)',
         left' \subseteq Flows,
         \A f \in left' \ left : Over(f) /\ sessions[f] = 0
  PROVE  LoginInv'
<1>1. LoginTypeOK'
  BY DEF LoginInv, LoginTypeOK, Moves
<1>2. \A u \in Tabs : Carries(tabs[u])'
  <2>1. ASSUME NEW u \in Tabs PROVE Carries(tabs[u])'
    BY <2>1, OthersCarry
  <2> QED
    BY <2>1
<1>3. tabs[t].pc = "exchange" => tabs[t].flow \in spent /\ exchanged[tabs[t].flow] = 0
  BY DEF LoginInv, Carries, Acting
<1>4. FlowSpentOnce'
  <2>1. \A f \in Flows : exchanged[f] <= 1 /\ exchanged[f] \in Nat
    BY DEF LoginInv, LoginTypeOK, FlowSpentOnce
  <2> QED
    BY <1>3, <2>1 DEF FlowSpentOnce, Moves
<1>5. Unspent'
  BY <1>3 DEF LoginInv, Unspent, Moves
<1>6. OneActs'
  <2>1. ASSUME NEW u \in Tabs, u # t, tabs'[u].pc \in Acting, tabs'[t].pc \in Acting
        PROVE  tabs'[u].flow # tabs'[t].flow
    <3>1. tabs'[u] = tabs[u] /\ tabs[u].flow \in spent
      BY <2>1 DEF LoginInv, Carries, Moves
    <3>2. tabs[t].pc \in Acting => tabs[u].flow # tabs[t].flow
      BY <2>1, <3>1 DEF LoginInv, OneActs
    <3> QED
      BY <2>1, <3>1, <3>2 DEF Moves
  <2>2. \A u, v \in Tabs : u # t /\ v # t => tabs'[u] = tabs[u] /\ tabs'[v] = tabs[v]
    BY DEF Moves
  <2> QED
    BY <2>1, <2>2 DEF LoginInv, OneActs
<1>7. ASSUME NEW f \in Flows
      PROVE  sessions'[f] <= tokens'[f] /\ (sessions'[f] # 0 => Over(f)')
  <2>1. /\ sessions[f] \in Nat /\ tokens[f] \in Nat /\ tokens'[f] \in Nat
        /\ sessions[f] <= tokens[f]
        /\ sessions[f] # 0 => Over(f)
    BY DEF LoginInv, LoginTypeOK, SessionEndsWithToken, WrittenIsOver, Moves
  <2>2. CASE sessions'[f] \in {sessions[f], 0}
    <3>1. tabs[t].pc = "exchange" /\ f = tabs[t].flow => ~Over(f)
      BY DEF Over, Acting
    <3>2. sessions'[f] # 0 => tokens'[f] = tokens[f]
      BY <2>1, <2>2, <3>1 DEF Moves
    <3> QED
      BY <2>1, <2>2, <3>2, OverStays
  <2>3. CASE /\ tabs[t].pc = "create" /\ tabs'[t].pc \notin Acting
             /\ f = tabs[t].flow /\ sessions'[f] <= tokens[f]
    <3>1. tokens'[f] = tokens[f]
      BY <2>3 DEF Moves
    <3>2. tabs[t].pc \in Acting /\ f \in spent'
      BY <2>3 DEF LoginInv, Carries, Acting, Moves
    <3>3. \A u \in Tabs : tabs'[u].pc \in Acting => tabs'[u].flow # f
      BY <2>3, <3>2 DEF LoginInv, OneActs, Moves
    <3> QED
      BY <2>3, <3>1, <3>2, <3>3 DEF Over
  <2> QED
    BY <2>2, <2>3 DEF Moves
<1>8. SessionEndsWithToken'
  BY <1>7 DEF SessionEndsWithToken
<1>9. ASSUME NEW f \in left'
      PROVE  Over(f)' /\ sessions'[f] = 0
  <2>1. f \in Flows /\ Over(f) /\ sessions[f] = 0
    BY DEF LoginInv, WrittenIsOver, LoginTypeOK
  <2> QED
    BY <2>1, OverStays
<1>10. WrittenIsOver'
  BY <1>7, <1>9 DEF WrittenIsOver
<1> QED
  BY <1>1, <1>2, <1>4, <1>5, <1>6, <1>8, <1>10 DEF LoginInv

\* What an answer leaves of the request.
LEMMA AnswerKeeps ==
  ASSUME LoginTypeOK, NEW t \in Tabs,
         NEW answer \in {"failed", "replaced", "expired", "left"}, Answer(t, answer)
  PROVE  /\ tabs' \in [Tabs -> Tab]
         /\ \A u \in Tabs \ {t} : tabs'[u] = tabs[u]
         /\ tabs'[t].pc = "answer" /\ tabs'[t].answer = answer
         /\ answer = "replaced" => tabs'[t].flow = tabs[t].flow
         /\ answer \in {"replaced", "left"} => tabs'[t].session = tabs[t].session
         /\ answer \in {"failed", "expired"} => tabs'[t].session = None
<1> DEFINE new == [Rest(tabs[t]) EXCEPT !.pc = "answer", !.answer = answer,
                     !.flow = IF answer = "replaced" THEN tabs[t].flow ELSE None,
                     !.session = IF answer \in {"replaced", "left"} THEN tabs[t].session ELSE None]
<1>1. tabs' = [tabs EXCEPT ![t] = new]
  BY DEF Answer
<1>2. tabs \in [Tabs -> Tab] /\ tabs[t] \in Tab
  BY DEF LoginTypeOK
<1>3. /\ new \in Tab /\ new.pc = "answer" /\ new.answer = answer
      /\ new.flow = IF answer = "replaced" THEN tabs[t].flow ELSE None
      /\ new.session = IF answer \in {"replaced", "left"} THEN tabs[t].session ELSE None
  <2> DEFINE flow == IF answer = "replaced" THEN tabs[t].flow ELSE None
             session == IF answer \in {"replaced", "left"} THEN tabs[t].session ELSE None
  <2>1. Rest(tabs[t]) \in Tab
    BY <1>2 DEF Rest, Tab, Cookie
  <2>2. flow \in Cookie /\ session \in Cookie
    BY <1>2 DEF Tab, Cookie
  <2>3. new = [Rest(tabs[t]) EXCEPT !.pc = "answer", !.answer = answer, !.flow = flow, !.session = session]
    OBVIOUS
  <2> HIDE DEF flow, session, new
  <2>4. new \in Tab /\ new.pc = "answer" /\ new.answer = answer /\ new.flow = flow /\ new.session = session
    BY <2>1, <2>2, <2>3 DEF Tab
  <2> QED
    BY <2>4 DEF flow, session
<1>4. tabs'[t] = new
  BY <1>1, <1>2
<1> HIDE DEF new
<1> QED
  BY <1>1, <1>2, <1>3, <1>4

\* A tab at rest carries nothing.
LEMMA Rested ==
  ASSUME LoginTypeOK, NEW t \in Tabs, NEW tab \in Tab,
         tab.session = None, tab.pc = "idle", tabs' = [tabs EXCEPT ![t] = tab]
  PROVE  /\ tabs' \in [Tabs -> Tab] /\ tabs'[t] = tab
         /\ \A u \in Tabs \ {t} : tabs'[u] = tabs[u]
         /\ Carries(tabs[t])'
<1>1. /\ tabs' \in [Tabs -> Tab] /\ tabs'[t] = tab
      /\ \A u \in Tabs \ {t} : tabs'[u] = tabs[u]
  BY DEF LoginTypeOK
<1> QED
  BY <1>1 DEF Carries, Acting

\* A request goes on to its next step with all it has.
LEMMA WentOn ==
  ASSUME LoginTypeOK, NEW t \in Tabs, NEW pc, Goto(t, pc),
         pc \in {"spend", "exchange", "create", "revoke"}
  PROVE  /\ tabs' \in [Tabs -> Tab]
         /\ \A u \in Tabs \ {t} : tabs'[u] = tabs[u]
         /\ tabs'[t] = [tabs[t] EXCEPT !.pc = pc]
         /\ tabs[t] \in Tab
BY DEF LoginTypeOK, Goto, Tab

----------------------------------------------------------------------------
\* A step that leaves the cookies and the logouts alone.
LEMMA RequestKeeps ==
  ASSUME LoginParameters, LoginInv, NEW t \in Tabs, Moves(t), Carries(tabs[t])', UNCHANGED <<jar, left>>
  PROVE  LoginInv'
<1>1. PICK token \in Cookie : token = jar.session /\ token = jar'.session
  BY DEF LoginInv, LoginTypeOK, Jar
<1>2. token # None => Over(token)'
  <2>1. token # None => token \in Flows /\ Over(token)
    BY <1>1 DEF LoginInv, WrittenIsOver, Cookie
  <2> QED
    BY <2>1, OverStays
<1>3. jar'.session # None => Over(jar.session)'
  BY <1>1, <1>2
<1> QED
  BY <1>3, MovesKeep DEF LoginInv, LoginTypeOK

\* The session a request came with is over, and stays so.
LEMMA SessionStays ==
  ASSUME LoginInv, NEW t \in Tabs, Moves(t), tabs'[t].session = tabs[t].session, tabs[t].session # None
  PROVE  /\ tabs[t].session \in Flows /\ Over(tabs[t].session)'
         /\ sessions[tabs[t].session] = 0 => sessions'[tabs[t].session] = 0
<1>1. PICK token \in Flows : token = tabs[t].session /\ token = tabs'[t].session /\ Over(token)
  BY DEF LoginInv, LoginTypeOK, Tab, Cookie, Carries
<1>2. Over(token)' /\ (sessions[token] = 0 => sessions'[token] = 0)
  BY <1>1, OverStays
<1> QED
  BY <1>1, <1>2

\* An answer that leaves the request no session and no flow relies on nothing.
LEMMA FailedCarries ==
  ASSUME LoginTypeOK, NEW t \in Tabs, NEW answer \in {"failed", "expired"}, Answer(t, answer)
  PROVE  Carries(tabs[t])'
<1>1. tabs'[t].pc = "answer" /\ tabs'[t].answer \in {"failed", "expired"} /\ tabs'[t].session = None
  BY AnswerKeeps
<1> QED
  BY <1>1 DEF Carries, Acting

\* A step of a callback or a logout that fails: what it did to the store is a
\* step like others, and the answer relies on nothing.
LEMMA FailedKeeps ==
  ASSUME LoginParameters, LoginInv, NEW t \in Tabs, NEW answer \in {"failed", "expired"}, Answer(t, answer),
         UNCHANGED <<clock, flows, jar, left>>,
         spent \subseteq spent', spent' \subseteq Flows, sessions' \in [Flows -> Nat],
         \A f \in Flows :
           \/ sessions'[f] \in {sessions[f], 0}
           \/ tabs[t].pc = "create" /\ f = tabs[t].flow /\ sessions'[f] <= tokens[f],
         exchanged' \in [Flows -> Nat], tokens' = tokens,
         \A f \in Flows :
           \/ exchanged'[f] = exchanged[f]
           \/ tabs[t].pc = "exchange" /\ f = tabs[t].flow /\ exchanged'[f] = exchanged[f] + 1
  PROVE  LoginInv'
<1>1. LoginTypeOK
  BY DEF LoginInv
<1>2. /\ tabs' \in [Tabs -> Tab]
      /\ \A u \in Tabs \ {t} : tabs'[u] = tabs[u]
      /\ tabs'[t].pc = "answer"
  BY <1>1, AnswerKeeps
<1>3. Moves(t)
  BY <1>1, <1>2 DEF Moves, LoginTypeOK, Acting
<1>4. Carries(tabs[t])'
  BY <1>1, FailedCarries
<1> QED
  BY <1>3, <1>4, RequestKeeps

\* A request that ends with nothing to say to the browser.
LEMMA DropKeeps ==
  ASSUME LoginParameters, LoginInv, NEW t \in Tabs, Drop(t),
         UNCHANGED <<clock, flows, jar, left, spent, exchanged, tokens>>,
         sessions' \in [Flows -> Nat], \A f \in Flows : sessions'[f] \in {sessions[f], 0}
  PROVE  LoginInv'
<1>1. /\ LoginTypeOK
      /\ Rest(tabs[t]) \in Tab /\ Rest(tabs[t]).session = None /\ Rest(tabs[t]).pc = "idle"
  BY DEF LoginInv, LoginTypeOK, Rest, Tab, Cookie
<1>2. tabs' = [tabs EXCEPT ![t] = Rest(tabs[t])]
  BY DEF Drop
<1>3. /\ tabs' \in [Tabs -> Tab] /\ tabs'[t] = Rest(tabs[t])
      /\ \A u \in Tabs \ {t} : tabs'[u] = tabs[u]
      /\ Carries(tabs[t])'
  BY <1>1, <1>2, Rested
<1>4. Moves(t)
  BY <1>1, <1>3 DEF Moves, LoginTypeOK, Acting
<1> QED
  BY <1>3, <1>4, RequestKeeps

\* The steps of a callback.
LEMMA CheckFlowKeeps ==
  ASSUME LoginParameters, LoginInv, NEW t \in Tabs, CheckFlow(t)
  PROVE  LoginInv'
<1>1. LoginTypeOK /\ Carries(tabs[t]) /\ tabs[t] \in Tab /\ tabs[t].pc = "check"
  BY DEF LoginInv, LoginTypeOK, CheckFlow
<1>2. UNCHANGED <<clock, jar, flows, spent, sessions, exchanged, tokens, left>>
  BY DEF CheckFlow, store, history
<1>3. CASE tabs[t].flow = tabs[t].state /\ Goto(t, "spend")
  <2>1. /\ tabs' \in [Tabs -> Tab]
        /\ \A u \in Tabs \ {t} : tabs'[u] = tabs[u]
        /\ tabs'[t] = [tabs[t] EXCEPT !.pc = "spend"]
    BY <1>1, <1>3, WentOn
  <2>2. Moves(t)
    BY <1>1, <1>2, <2>1 DEF Moves, LoginTypeOK, Acting, Tab
  <2>3. tabs[t].flow \in Flows
    BY <1>1, <1>3 DEF Carries, Tab, Cookie
  <2>4. tabs'[t].session = tabs[t].session /\ tabs'[t].flow = tabs[t].flow /\ tabs'[t].pc = "spend"
    BY <1>1, <2>1 DEF Tab
  <2>5. Carries(tabs[t])'
    BY <2>2, <2>3, <2>4, SessionStays DEF Carries, Acting
  <2> QED
    BY <1>2, <2>2, <2>5, RequestKeeps
<1>4. CASE Answer(t, "failed")
  BY <1>1, <1>2, <1>4, FailedKeeps DEF LoginTypeOK
<1> QED
  BY <1>3, <1>4 DEF CheckFlow

LEMMA SpendFlowKeeps ==
  ASSUME LoginParameters, LoginInv, NEW t \in Tabs, SpendFlow(t)
  PROVE  LoginInv'
<1>1. /\ LoginTypeOK /\ Carries(tabs[t]) /\ tabs[t] \in Tab /\ tabs[t].pc = "spend"
      /\ tabs[t].flow \in Flows /\ spent' = spent \cup {tabs[t].flow}
  BY DEF LoginInv, LoginTypeOK, SpendFlow, Carries
<1>2. UNCHANGED <<clock, jar, flows, sessions, exchanged, tokens, left>>
  BY DEF SpendFlow, history
<1>3. CASE tabs[t].flow \notin spent /\ Goto(t, "exchange")
  <2>1. /\ tabs' \in [Tabs -> Tab]
        /\ \A u \in Tabs \ {t} : tabs'[u] = tabs[u]
        /\ tabs'[t] = [tabs[t] EXCEPT !.pc = "exchange"]
    BY <1>1, <1>3, WentOn
  <2>2. tabs'[t].session = tabs[t].session /\ tabs'[t].flow = tabs[t].flow /\ tabs'[t].pc = "exchange"
    BY <1>1, <2>1 DEF Tab
  <2>3. Moves(t)
    BY <1>1, <1>2, <1>3, <2>1, <2>2 DEF Moves, LoginTypeOK
  <2>4. exchanged[tabs[t].flow] = 0
    BY <1>1, <1>3 DEF LoginInv, Unspent
  <2>5. Carries(tabs[t])'
    BY <1>1, <1>2, <2>2, <2>3, <2>4, SessionStays DEF Carries, Acting
  <2> QED
    BY <1>2, <2>3, <2>5, RequestKeeps
<1>4. CASE Answer(t, "failed")
  BY <1>1, <1>2, <1>4, FailedKeeps DEF LoginTypeOK
<1> QED
  BY <1>3, <1>4 DEF SpendFlow

LEMMA ExchangeKeeps ==
  ASSUME LoginParameters, LoginInv, NEW t \in Tabs, Exchange(t)
  PROVE  LoginInv'
<1> DEFINE flow == tabs[t].flow
<1>1. /\ LoginTypeOK /\ Carries(tabs[t]) /\ tabs[t] \in Tab /\ tabs[t].pc = "exchange"
      /\ flow \in Flows /\ flow \in spent
      /\ exchanged' = [exchanged EXCEPT ![flow] = @ + 1]
  BY DEF LoginInv, LoginTypeOK, Exchange, Carries, Acting
<1>2. UNCHANGED <<clock, jar, flows, spent, sessions, left>>
  BY DEF Exchange, store
<1>3. /\ exchanged' \in [Flows -> Nat]
      /\ \A f \in Flows : exchanged'[f] = IF f = flow THEN exchanged[f] + 1 ELSE exchanged[f]
  BY <1>1 DEF LoginTypeOK
<1>4. CASE Answer(t, "failed") /\ UNCHANGED tokens
  BY <1>1, <1>2, <1>3, <1>4, FailedKeeps DEF LoginTypeOK
<1>5. ASSUME NEW life \in TokenLives, tokens' = [tokens EXCEPT ![flow] = clock + life],
             tabs' = [tabs EXCEPT ![t].pc = "profile", ![t].expires = clock + life]
      PROVE  LoginInv'
  <2>1. clock + life \in Nat
    BY FlowsAreNumbers, <1>1 DEF LoginTypeOK
  <2>2. /\ tokens' \in [Flows -> Nat] /\ tokens'[flow] = clock + life
        /\ \A f \in Flows : f # flow => tokens'[f] = tokens[f]
    BY <1>1, <1>5, <2>1 DEF LoginTypeOK
  <2>3. /\ tabs' \in [Tabs -> Tab]
        /\ \A u \in Tabs \ {t} : tabs'[u] = tabs[u]
        /\ tabs'[t] = [tabs[t] EXCEPT !.pc = "profile", !.expires = clock + life]
    BY <1>1, <1>5, <2>1 DEF LoginTypeOK, Tab
  <2>4. /\ tabs'[t].session = tabs[t].session /\ tabs'[t].flow = tabs[t].flow
        /\ tabs'[t].pc = "profile" /\ tabs'[t].expires = clock + life
    BY <1>1, <2>3 DEF Tab
  <2>5. Moves(t)
    BY <1>1, <1>2, <1>3, <2>2, <2>3, <2>4 DEF Moves, LoginTypeOK, Acting
  <2>6. Carries(tabs[t])'
    BY <1>1, <1>2, <2>1, <2>2, <2>4, <2>5, SessionStays DEF Carries, Acting
  <2> QED
    BY <1>2, <2>5, <2>6, RequestKeeps
<1> QED
  BY <1>4, <1>5 DEF Exchange

\* The session never gets longer than the token lasts.
LEMMA ExpiryWithinToken ==
  ASSUME LoginParameters, clock \in Nat, NEW token \in Nat
  PROVE  Expiry(token) \in Nat /\ Expiry(token) <= token
BY FlowsAreNumbers DEF Expiry

LEMMA EnrichKeeps ==
  ASSUME LoginParameters, LoginInv, NEW t \in Tabs, Enrich(t)
  PROVE  LoginInv'
<1> DEFINE expires == Expiry(tabs[t].expires)
<1>1. /\ LoginTypeOK /\ Carries(tabs[t]) /\ tabs[t] \in Tab /\ tabs[t].pc = "profile"
      /\ tabs[t].flow \in spent /\ tabs[t].flow \in Flows
      /\ tabs' = [tabs EXCEPT ![t].pc = "replace", ![t].expires = expires]
  BY DEF LoginInv, LoginTypeOK, Enrich, Carries, Acting
<1>2. UNCHANGED <<clock, jar, flows, spent, sessions, exchanged, tokens, left>>
  BY DEF Enrich, store, history
<1>3. expires \in Nat /\ expires <= tabs[t].expires /\ tabs[t].expires \in Nat
  BY <1>1, ExpiryWithinToken DEF LoginTypeOK, Tab
<1>4. expires <= tokens[tabs[t].flow]
  <2>1. tabs[t].expires <= tokens[tabs[t].flow] /\ tokens[tabs[t].flow] \in Nat
    BY <1>1 DEF Carries, LoginTypeOK
  <2> QED
    BY <1>3, <2>1
<1> HIDE DEF expires
<1>5. /\ tabs' \in [Tabs -> Tab]
      /\ \A u \in Tabs \ {t} : tabs'[u] = tabs[u]
      /\ tabs'[t] = [tabs[t] EXCEPT !.pc = "replace", !.expires = expires]
  BY <1>1, <1>3 DEF LoginTypeOK, Tab
<1>6. /\ tabs'[t].session = tabs[t].session /\ tabs'[t].flow = tabs[t].flow
      /\ tabs'[t].pc = "replace" /\ tabs'[t].expires = expires
  BY <1>1, <1>5 DEF Tab
<1>7. Moves(t)
  BY <1>1, <1>2, <1>5, <1>6 DEF Moves, LoginTypeOK, Acting
<1>8. Carries(tabs[t])'
  <2>1. tabs'[t].session # None => Over(tabs[t].session)'
    BY <1>6, <1>7, SessionStays
  <2>2. tabs'[t].expires <= tokens'[tabs'[t].flow] /\ tabs'[t].flow \in spent'
    BY <1>1, <1>2, <1>4, <1>6
  <2> QED
    BY <1>6, <2>1, <2>2 DEF Carries
<1> QED
  BY <1>2, <1>7, <1>8, RequestKeeps

\* A revoked row is gone, and no other row changes.
LEMMA RemovedRows ==
  ASSUME LoginTypeOK, NEW token \in Cookie
  PROVE  /\ Removed(token) \in [Flows -> Nat]
         /\ \A f \in Flows : Removed(token)[f] \in {sessions[f], 0}
         /\ token \in Flows /\ token # None => Removed(token)[token] = 0
BY DEF Removed, LoginTypeOK

LEMMA ReplaceSessionKeeps ==
  ASSUME LoginParameters, LoginInv, NEW t \in Tabs, ReplaceSession(t)
  PROVE  LoginInv'
<1>1. /\ LoginTypeOK /\ Carries(tabs[t]) /\ tabs[t] \in Tab /\ tabs[t].pc = "replace"
      /\ tabs[t].flow \in spent /\ tabs[t].flow \in Flows
      /\ sessions' = Removed(tabs[t].session)
  BY DEF LoginInv, LoginTypeOK, ReplaceSession, Carries, Acting
<1>2. UNCHANGED <<clock, jar, flows, spent, exchanged, tokens, left>>
  BY DEF ReplaceSession, history
<1>3. /\ tabs' \in [Tabs -> Tab]
      /\ \A u \in Tabs \ {t} : tabs'[u] = tabs[u]
      /\ tabs'[t] = [tabs[t] EXCEPT !.pc = "create"]
  BY <1>1, WentOn DEF ReplaceSession
<1>4. /\ tabs'[t].session = tabs[t].session /\ tabs'[t].flow = tabs[t].flow
      /\ tabs'[t].pc = "create" /\ tabs'[t].expires = tabs[t].expires
  BY <1>1, <1>3 DEF Tab
<1>5. tabs[t].session \in Cookie
  BY <1>1 DEF Tab
<1>6. Moves(t)
  BY <1>1, <1>2, <1>3, <1>4, <1>5, RemovedRows DEF Moves, LoginTypeOK, Acting
<1>7. tabs[t].session # None => sessions'[tabs[t].session] = 0
  BY <1>1, <1>5, RemovedRows DEF Cookie
<1>8. Carries(tabs[t])'
  <2>1. tabs'[t].session # None => Over(tabs[t].session)' /\ sessions'[tabs'[t].session] = 0
    BY <1>4, <1>6, <1>7, SessionStays
  <2>2. tabs'[t].expires <= tokens'[tabs'[t].flow] /\ tabs'[t].flow \in spent'
    BY <1>1, <1>2, <1>4 DEF Carries
  <2> QED
    BY <1>4, <2>1, <2>2 DEF Carries
<1> QED
  BY <1>2, <1>6, <1>8, RequestKeeps

LEMMA CreateSessionKeeps ==
  ASSUME LoginParameters, LoginInv, NEW t \in Tabs, CreateSession(t)
  PROVE  LoginInv'
<1>1. /\ LoginTypeOK /\ Carries(tabs[t]) /\ tabs[t] \in Tab /\ tabs[t].pc = "create"
      /\ tabs[t].flow \in spent /\ tabs[t].flow \in Flows
      /\ sessions' = [sessions EXCEPT ![tabs[t].flow] = tabs[t].expires]
  BY DEF LoginInv, LoginTypeOK, CreateSession, Carries, Acting
<1>2. UNCHANGED <<clock, jar, flows, spent, exchanged, tokens, left>>
  BY DEF CreateSession, history
<1>3. /\ sessions' \in [Flows -> Nat]
      /\ \A f \in Flows : f # tabs[t].flow => sessions'[f] = sessions[f]
      /\ sessions'[tabs[t].flow] <= tokens[tabs[t].flow]
  BY <1>1 DEF LoginTypeOK, Tab, Carries
<1>4. CASE Answer(t, "expired")
  BY <1>1, <1>2, <1>3, <1>4, FailedKeeps DEF LoginTypeOK
<1>5. CASE Answer(t, "replaced")
  <2>1. /\ tabs' \in [Tabs -> Tab]
        /\ \A u \in Tabs \ {t} : tabs'[u] = tabs[u]
        /\ tabs'[t].pc = "answer" /\ tabs'[t].answer = "replaced"
        /\ tabs'[t].session = tabs[t].session /\ tabs'[t].flow = tabs[t].flow
    BY <1>1, <1>5, AnswerKeeps
  <2>2. Moves(t)
    BY <1>1, <1>2, <1>3, <2>1 DEF Moves, LoginTypeOK, Acting
  <2>3. Over(tabs[t].flow)'
    <3>1. \A u \in Tabs : tabs'[u].pc \in Acting => tabs'[u].flow # tabs[t].flow
      BY <1>1, <2>1 DEF LoginInv, OneActs, Acting
    <3> QED
      BY <1>1, <1>2, <2>1, <3>1 DEF Over
  <2>4. tabs[t].session # None => sessions'[tabs[t].session] = 0
    BY <1>1, <2>1, <2>2, SessionStays DEF Carries
  <2>5. Carries(tabs[t])'
    BY <1>1, <2>1, <2>2, <2>3, <2>4, SessionStays DEF Carries, Acting
  <2> QED
    BY <1>2, <2>2, <2>5, RequestKeeps
<1> QED
  BY <1>4, <1>5 DEF CreateSession

----------------------------------------------------------------------------
\* The steps of a logout, and of a store that fails.
LEMMA AcceptLogoutKeeps ==
  ASSUME LoginParameters, LoginInv, NEW t \in Tabs, AcceptLogout(t)
  PROVE  LoginInv'
<1>1. LoginTypeOK /\ Carries(tabs[t]) /\ tabs[t] \in Tab /\ tabs[t].pc = "logout"
  BY DEF LoginInv, LoginTypeOK, AcceptLogout
<1>2. UNCHANGED <<clock, jar, flows, spent, sessions, exchanged, tokens, left>>
  BY DEF AcceptLogout, store, history
<1>3. CASE Verified(t) /\ Goto(t, "revoke")
  <2>1. /\ tabs' \in [Tabs -> Tab]
        /\ \A u \in Tabs \ {t} : tabs'[u] = tabs[u]
        /\ tabs'[t] = [tabs[t] EXCEPT !.pc = "revoke"]
    BY <1>1, <1>3, WentOn
  <2>2. tabs'[t].session = tabs[t].session /\ tabs'[t].pc = "revoke"
    BY <1>1, <2>1 DEF Tab
  <2>3. Moves(t)
    BY <1>1, <1>2, <2>1, <2>2 DEF Moves, LoginTypeOK, Acting
  <2>4. tabs[t].session # None
    BY <1>3 DEF Verified, Live
  <2>5. Carries(tabs[t])'
    BY <2>2, <2>3, <2>4, SessionStays DEF Carries, Acting
  <2> QED
    BY <1>2, <2>3, <2>5, RequestKeeps
<1>4. CASE Drop(t)
  BY <1>1, <1>2, <1>4, DropKeeps DEF LoginTypeOK
<1> QED
  BY <1>3, <1>4 DEF AcceptLogout

LEMMA RevokeKeeps ==
  ASSUME LoginParameters, LoginInv, NEW t \in Tabs, Revoke(t)
  PROVE  LoginInv'
<1>1. /\ LoginTypeOK /\ Carries(tabs[t]) /\ tabs[t] \in Tab /\ tabs[t].pc = "revoke"
      /\ tabs[t].session # None /\ tabs[t].session \in Cookie
      /\ sessions' = Removed(tabs[t].session) /\ Answer(t, "left")
  BY DEF LoginInv, LoginTypeOK, Revoke, Carries, Tab
<1>2. UNCHANGED <<clock, jar, flows, spent, exchanged, tokens, left>>
  BY DEF Revoke, history
<1>3. /\ tabs' \in [Tabs -> Tab]
      /\ \A u \in Tabs \ {t} : tabs'[u] = tabs[u]
      /\ tabs'[t].pc = "answer" /\ tabs'[t].answer = "left"
      /\ tabs'[t].session = tabs[t].session
  BY <1>1, AnswerKeeps
<1>4. Moves(t)
  BY <1>1, <1>2, <1>3, RemovedRows DEF Moves, LoginTypeOK, Acting
<1>5. sessions'[tabs[t].session] = 0
  BY <1>1, RemovedRows DEF Cookie
<1>6. Carries(tabs[t])'
  BY <1>1, <1>3, <1>4, <1>5, SessionStays DEF Carries, Acting
<1> QED
  BY <1>2, <1>4, <1>6, RequestKeeps

LEMMA StoreFailsKeeps ==
  ASSUME LoginParameters, LoginInv, NEW t \in Tabs, StoreFails(t)
  PROVE  LoginInv'
<1>1. LoginTypeOK /\ Carries(tabs[t]) /\ tabs[t] \in Tab /\ tabs[t].session \in Cookie
  BY DEF LoginInv, LoginTypeOK, Tab
<1>2. UNCHANGED <<clock, flows, jar, exchanged, tokens, left>>
  BY DEF StoreFails, history
<1>3. CASE /\ tabs[t].pc = "spend" /\ spent' \in {spent, spent \cup {tabs[t].flow}}
           /\ UNCHANGED sessions /\ Answer(t, "failed")
  <2>1. tabs[t].flow \in Flows
    BY <1>1, <1>3 DEF Carries
  <2> QED
    BY <1>1, <1>2, <1>3, <2>1, FailedKeeps DEF LoginTypeOK
<1>4. ASSUME sessions' \in {sessions, Removed(tabs[t].session)}, UNCHANGED spent
      PROVE  sessions' \in [Flows -> Nat] /\ \A f \in Flows : sessions'[f] \in {sessions[f], 0}
  BY <1>1, <1>4, RemovedRows DEF LoginTypeOK
<1>5. CASE /\ sessions' \in {sessions, Removed(tabs[t].session)} /\ UNCHANGED spent
           /\ Answer(t, "failed")
  BY <1>1, <1>2, <1>4, <1>5, FailedKeeps DEF LoginTypeOK
<1>6. CASE /\ sessions' \in {sessions, Removed(tabs[t].session)} /\ UNCHANGED spent
           /\ Drop(t)
  BY <1>1, <1>2, <1>4, <1>6, DropKeeps DEF LoginTypeOK
<1>7. CASE /\ tabs[t].pc = "create" /\ UNCHANGED spent /\ Answer(t, "failed")
           /\ sessions' \in {sessions, [sessions EXCEPT ![tabs[t].flow] = tabs[t].expires]}
  <2>1. tabs[t].flow \in Flows /\ tabs[t].expires <= tokens[tabs[t].flow] /\ tabs[t].expires \in Nat
    BY <1>1, <1>7 DEF Carries, LoginTypeOK, Acting, Tab
  <2>2. /\ sessions' \in [Flows -> Nat]
        /\ \A f \in Flows :
             \/ sessions'[f] = sessions[f]
             \/ f = tabs[t].flow /\ sessions'[f] <= tokens[f]
    BY <1>1, <1>7, <2>1 DEF LoginTypeOK
  <2> QED
    BY <1>1, <1>2, <1>7, <2>2, FailedKeeps DEF LoginTypeOK
<1> QED
  BY <1>3, <1>5, <1>6, <1>7 DEF StoreFails

----------------------------------------------------------------------------
\* The steps of the browser.
LEMMA LoginKeeps ==
  ASSUME LoginParameters, LoginInv, NEW t \in Tabs, Login(t)
  PROVE  LoginInv'
<1>1. LoginTypeOK /\ Carries(tabs[t]) /\ tabs[t] \in Tab
  BY DEF LoginInv, LoginTypeOK
<1>2. UNCHANGED <<clock, jar, spent, sessions, exchanged, tokens, left>>
  BY DEF Login, history
<1>3. PICK flow \in Flows :
        /\ flows' = [flows EXCEPT ![flow] = clock + FlowLife]
        /\ tabs' = [tabs EXCEPT ![t].pc = "login", ![t].flow = flow]
  BY DEF Login
<1>4. flows' \in [Flows -> Nat]
  BY <1>1, <1>3, FlowsAreNumbers DEF LoginTypeOK
<1>5. /\ tabs' \in [Tabs -> Tab]
      /\ \A u \in Tabs \ {t} : tabs'[u] = tabs[u]
      /\ tabs'[t] = [tabs[t] EXCEPT !.pc = "login", !.flow = flow]
  BY <1>1, <1>3 DEF LoginTypeOK, Tab, Cookie
<1>6. tabs'[t].session = tabs[t].session /\ tabs'[t].flow = flow /\ tabs'[t].pc = "login"
  BY <1>1, <1>5 DEF Tab
<1>7. Moves(t)
  BY <1>1, <1>2, <1>4, <1>5, <1>6 DEF Moves, LoginTypeOK, Acting
<1>8. Carries(tabs[t])'
  BY <1>6, <1>7, SessionStays DEF Carries, Acting
<1> QED
  BY <1>2, <1>7, <1>8, RequestKeeps

\* A request that is sent carries the cookies the browser holds.
LEMMA SendKeeps ==
  ASSUME LoginParameters, LoginInv, NEW t \in Tabs, NEW pc \in {"check", "page", "logout"}, Send(t, pc),
         pc = "check" => tabs[t].state # None,
         UNCHANGED <<clock, jar, flows, spent, sessions, exchanged, tokens, left>>
  PROVE  LoginInv'
<1>1. LoginTypeOK /\ tabs[t] \in Tab /\ jar \in Jar
  BY DEF LoginInv, LoginTypeOK
<1>2. /\ tabs' \in [Tabs -> Tab]
      /\ \A u \in Tabs \ {t} : tabs'[u] = tabs[u]
      /\ tabs'[t] = [tabs[t] EXCEPT !.pc = pc, !.flow = jar.flow, !.session = jar.session]
  BY <1>1 DEF Send, LoginTypeOK, Tab, Jar
<1>3. tabs'[t].session = jar.session /\ tabs'[t].pc = pc /\ tabs'[t].state = tabs[t].state
  BY <1>1, <1>2 DEF Tab
<1>4. Moves(t)
  BY <1>1, <1>2, <1>3 DEF Moves, LoginTypeOK, Acting
<1>5. PICK token \in Cookie : token = tabs'[t].session /\ token = jar.session
  BY <1>1, <1>3 DEF Jar
<1>6. token # None => Over(token)'
  <2>1. token # None => token \in Flows /\ Over(token)
    BY <1>5 DEF LoginInv, WrittenIsOver, Cookie
  <2> QED
    BY <1>4, <2>1, OverStays
<1>7. Carries(tabs[t])'
  BY <1>3, <1>5, <1>6 DEF Carries, Acting
<1> QED
  BY <1>4, <1>7, RequestKeeps

LEMMA FollowRedirectKeeps ==
  ASSUME LoginParameters, LoginInv, NEW t \in Tabs, FollowRedirect(t)
  PROVE  LoginInv'
<1> DEFINE new == [Rest(tabs[t]) EXCEPT !.state = tabs[t].flow]
<1>1. LoginTypeOK /\ Carries(tabs[t]) /\ tabs[t] \in Tab /\ jar \in Jar
  BY DEF LoginInv, LoginTypeOK
<1>2. UNCHANGED <<clock, flows, spent, sessions, exchanged, tokens, left>>
  BY DEF FollowRedirect, store, history
<1>3. jar' \in Jar /\ jar'.session = jar.session
  BY <1>1 DEF FollowRedirect, Jar, Tab
<1>4. new \in Tab /\ new.session = None /\ new.pc = "idle" /\ tabs' = [tabs EXCEPT ![t] = new]
  BY <1>1 DEF FollowRedirect, Rest, Tab, Cookie
<1> HIDE DEF new
<1>5. /\ tabs' \in [Tabs -> Tab] /\ tabs'[t] = new
      /\ \A u \in Tabs \ {t} : tabs'[u] = tabs[u]
      /\ Carries(tabs[t])'
  BY <1>1, <1>4, Rested
<1>6. Moves(t)
  BY <1>1, <1>2, <1>4, <1>5 DEF Moves, LoginTypeOK, Acting
<1>7. PICK token \in Cookie : token = jar.session /\ token = jar'.session
  BY <1>1, <1>3 DEF Jar
<1>8. token # None => Over(token)'
  <2>1. token # None => token \in Flows /\ Over(token)
    BY <1>7 DEF LoginInv, WrittenIsOver, Cookie
  <2> QED
    BY <1>6, <2>1, OverStays
<1>9. jar'.session # None => Over(jar.session)'
  BY <1>7, <1>8
<1> QED
  BY <1>1, <1>2, <1>3, <1>5, <1>6, <1>9, MovesKeep DEF LoginTypeOK

LEMMA ShowPageKeeps ==
  ASSUME LoginParameters, LoginInv, NEW t \in Tabs, ShowPage(t)
  PROVE  LoginInv'
<1> DEFINE new == [Rest(tabs[t]) EXCEPT !.page = tabs[t].session]
<1>1. LoginTypeOK /\ tabs[t] \in Tab
  BY DEF LoginInv, LoginTypeOK
<1>2. UNCHANGED <<clock, jar, flows, spent, sessions, exchanged, tokens, left>>
  BY DEF ShowPage, store, history
<1>3. new \in Tab /\ new.session = None /\ new.pc = "idle" /\ tabs' = [tabs EXCEPT ![t] = new]
  BY <1>1 DEF ShowPage, Rest, Tab, Cookie
<1> HIDE DEF new
<1>4. /\ tabs' \in [Tabs -> Tab] /\ tabs'[t] = new
      /\ \A u \in Tabs \ {t} : tabs'[u] = tabs[u]
      /\ Carries(tabs[t])'
  BY <1>1, <1>3, Rested
<1>5. Moves(t)
  BY <1>1, <1>2, <1>3, <1>4 DEF Moves, LoginTypeOK, Acting
<1> QED
  BY <1>2, <1>4, <1>5, RequestKeeps

\* What a received answer leaves in the cookies and among the logouts is over.
LEMMA ReceiveKeeps ==
  ASSUME LoginParameters, LoginInv, NEW t \in Tabs, Receive(t)
  PROVE  LoginInv'
<1> DEFINE tab == tabs[t]
<1>1. LoginTypeOK /\ Carries(tab) /\ tab \in Tab /\ jar \in Jar /\ tab.pc = "answer"
  BY DEF LoginInv, LoginTypeOK, Receive
<1>2. UNCHANGED <<clock, flows, spent, sessions, exchanged, tokens>>
  BY DEF Receive, store
<1>3. /\ jar'.flow \in Cookie /\ jar' = [flow |-> jar'.flow, session |-> jar'.session]
      /\ tab.answer = "replaced" => jar'.session = tab.flow
      /\ tab.answer \in {"expired", "left"} => jar'.session = None
      /\ tab.answer \in {"none", "failed"} => jar'.session = jar.session
  BY <1>1 DEF Receive, Jar, Cookie
<1>4. Rest(tab) \in Tab /\ Rest(tab).session = None /\ Rest(tab).pc = "idle"
  BY <1>1 DEF Rest, Tab, Cookie
<1>5. /\ tabs' \in [Tabs -> Tab] /\ tabs'[t] = Rest(tab)
      /\ \A u \in Tabs \ {t} : tabs'[u] = tabs[u]
      /\ Carries(tabs[t])'
  BY <1>1, <1>4, Rested DEF Receive
<1>6. Moves(t)
  BY <1>1, <1>2, <1>4, <1>5 DEF Moves, LoginTypeOK, Acting
<1>7. PICK token \in Cookie : token = jar'.session /\ (token # None => Over(token))
  <2>1. tab.answer \in {"none", "failed", "replaced", "expired", "left"}
    BY <1>1 DEF Tab
  <2>2. CASE tab.answer = "replaced"
    BY <1>1, <1>3, <2>2 DEF Carries, Cookie
  <2>3. CASE tab.answer \in {"expired", "left"}
    BY <1>3, <2>3 DEF Cookie
  <2>4. CASE tab.answer \in {"none", "failed"}
    BY <1>1, <1>3, <2>4 DEF LoginInv, WrittenIsOver, Jar
  <2> QED
    BY <2>1, <2>2, <2>3, <2>4
<1>8. token # None => Over(token)'
  BY <1>6, <1>7, OverStays DEF Cookie
<1>9. jar' \in Jar /\ (jar'.session # None => Over(jar.session)')
  BY <1>3, <1>7, <1>8 DEF Jar
<1>10. left' \subseteq Flows /\ \A f \in left' \ left : Over(f) /\ sessions[f] = 0
  BY <1>1 DEF Receive, Carries, LoginTypeOK, Tab, Cookie
<1> QED
  BY <1>5, <1>6, <1>9, <1>10, MovesKeep

LEMMA TickKeeps ==
  ASSUME LoginParameters, LoginInv, Tick
  PROVE  LoginInv'
<1>1. clock' \in Nat /\ UNCHANGED <<jar, tabs, flows, spent, sessions, exchanged, tokens, left>>
  BY DEF LoginInv, LoginTypeOK, Tick, store, history
<1>2. LoginTypeOK' /\ FlowSpentOnce' /\ SessionEndsWithToken' /\ Unspent' /\ OneActs'
  BY <1>1 DEF LoginInv, LoginTypeOK, FlowSpentOnce, SessionEndsWithToken, Unspent, OneActs
<1>3. WrittenIsOver'
  BY <1>1 DEF LoginInv, WrittenIsOver, Over
<1>4. \A t \in Tabs : Carries(tabs[t])'
  BY <1>1 DEF LoginInv, Carries, Over
<1> QED
  BY <1>2, <1>3, <1>4 DEF LoginInv

LEMMA StutterKeeps ==
  ASSUME LoginInv, UNCHANGED loginVars
  PROVE  LoginInv'
<1>1. UNCHANGED <<clock, jar, tabs, flows, spent, sessions, exchanged, tokens, left>>
  BY DEF loginVars
<1>2. LoginTypeOK' /\ FlowSpentOnce' /\ SessionEndsWithToken' /\ Unspent' /\ OneActs'
  BY <1>1 DEF LoginInv, LoginTypeOK, FlowSpentOnce, SessionEndsWithToken, Unspent, OneActs
<1>3. WrittenIsOver'
  BY <1>1 DEF LoginInv, WrittenIsOver, Over
<1>4. \A t \in Tabs : Carries(tabs[t])'
  BY <1>1 DEF LoginInv, Carries, Over
<1> QED
  BY <1>2, <1>3, <1>4 DEF LoginInv

----------------------------------------------------------------------------
LEMMA InitHolds == LoginParameters /\ LoginInit => LoginInv
<1> SUFFICES ASSUME LoginParameters, LoginInit PROVE LoginInv
  OBVIOUS
<1>1. LoginTypeOK
  BY DEF LoginInit, LoginTypeOK, Jar, Cookie, Tab, NewTab
<1>2. \A t \in Tabs : tabs[t] = NewTab
  BY DEF LoginInit
<1>3. FlowSpentOnce /\ SessionEndsWithToken /\ Unspent /\ WrittenIsOver
  BY DEF LoginInit, FlowSpentOnce, SessionEndsWithToken, Unspent, WrittenIsOver
<1>4. OneActs /\ \A t \in Tabs : Carries(tabs[t])
  BY <1>2 DEF OneActs, Carries, Acting, NewTab
<1> QED
  BY <1>1, <1>3, <1>4 DEF LoginInv

LEMMA NextKeeps ==
  ASSUME LoginParameters, LoginInv, [LoginNext]_loginVars
  PROVE  LoginInv'
<1>1. CASE Tick
  BY <1>1, TickKeeps
<1>2. ASSUME NEW t \in Tabs, Handle(t)
      PROVE  LoginInv'
  BY <1>2, CheckFlowKeeps, SpendFlowKeeps, ExchangeKeeps, EnrichKeeps, ReplaceSessionKeeps,
     CreateSessionKeeps, AcceptLogoutKeeps, RevokeKeeps, StoreFailsKeeps DEF Handle
<1>3. ASSUME NEW t \in Tabs, Browse(t)
      PROVE  LoginInv'
  <2>1. CASE SendCallback(t)
    BY <2>1, SendKeeps DEF SendCallback, store, history
  <2>2. CASE LoadPage(t)
    BY <2>2, SendKeeps DEF LoadPage, store, history
  <2>3. CASE Logout(t)
    BY <2>3, SendKeeps DEF Logout, store, history
  <2>4. CASE Abandon(t)
    <3>1. Drop(t) /\ UNCHANGED <<clock, jar, flows, spent, sessions, exchanged, tokens, left>>
      BY <2>4 DEF Abandon, Drop, store, history
    <3> QED
      BY <3>1, DropKeeps DEF LoginInv, LoginTypeOK
  <2> QED
    BY <1>3, <2>1, <2>2, <2>3, <2>4, LoginKeeps, FollowRedirectKeeps, ShowPageKeeps, ReceiveKeeps
       DEF Browse
<1>4. CASE UNCHANGED loginVars
  BY <1>4, StutterKeeps
<1> QED
  BY <1>1, <1>2, <1>3, <1>4 DEF LoginNext

LEMMA Invariance == ASSUME LoginParameters PROVE LoginSpec => []LoginInv
<1>1. LoginInit => LoginInv
  BY InitHolds
<1>2. LoginInv /\ [LoginNext]_loginVars => LoginInv'
  BY NextKeeps
<1> QED
  BY <1>1, <1>2, PTL DEF LoginSpec

\* The store, the cookies and what the tabs wait for are always of their types.
THEOREM LoginTypeCorrect == ASSUME LoginParameters PROVE LoginSpec => []LoginTypeOK
<1>1. LoginInv => LoginTypeOK
  BY DEF LoginInv
<1> QED
  BY <1>1, Invariance, PTL

\* ConsumeLoginFlow is what makes a callback act once: however many tabs send
\* it, again or at once, one token exchange is asked for a flow at most.
THEOREM ExchangedOnce == ASSUME LoginParameters PROVE LoginSpec => []FlowSpentOnce
<1>1. LoginInv => FlowSpentOnce
  BY DEF LoginInv
<1> QED
  BY <1>1, Invariance, PTL

\* A session ends with its ID token, with the callback that replaces it and
\* with its logout, and no request that was under way brings it back.
THEOREM EndIsFinal == ASSUME LoginParameters PROVE LoginSpec => []SessionsEnd
<1>1. LoginInv => SessionsEnd
  <2> SUFFICES ASSUME LoginInv PROVE SessionsEnd
    OBVIOUS
  <2>1. ReplacedIsRevoked
    BY DEF LoginInv, ReplacedIsRevoked, Carries
  <2>2. LogoutIsFinal
    BY DEF LoginInv, WrittenIsOver, Over, Acting, LogoutIsFinal
  <2> QED
    BY <2>1, <2>2 DEF LoginInv, SessionsEnd
<1> QED
  BY <1>1, Invariance, PTL

----------------------------------------------------------------------------
(* The signing keys that an ID token is checked with: SigningKeys for every *)
(* set of keys, every lifetime of the cache, every cooldown no longer than  *)
(* it and every timeout.  Keys and sessions share no state.                 *)

\* Nothing was done in the future.
Past == 1 <= keyClock /\ attempt <= keyClock /\ fetched <= keyClock

\* A fetch under way is the last attempt and within its timeout.  Where the
\* document it was answered and what is published differ, a key has changed since.
Fetching ==
  /\ call.pc = "idle" => call = NoCall
  /\ call.pc # "idle" =>
       /\ call.kid \in Kids
       /\ attempt = call.began /\ call.began <= keyClock /\ keyClock <= call.began + FetchTime
  /\ call.pc = "answered" =>
       \A kid \in Kids : (kid \in call.doc) # (kid \in published) => call.began <= changed[kid]

\* A cached key that is not published any more was when its document was read,
\* a timeout before it was cached or later.
Cached == \A kid \in keys \ published : fetched <= changed[kid] + FetchTime

\* The last attempt, if it is remembered, failed; or it filled the cache, and
\* a published key that is not there was not there when it began.
Tried ==
  call.pc = "idle" /\ attempt # 0 =>
    \/ failed # 0 /\ attempt <= failed
    \/ attempt <= fetched /\ \A kid \in published \ keys : attempt <= changed[kid]

KeysInv == KeysTypeOK /\ Past /\ Fetching /\ Cached /\ Tried /\ KeysFollowTheProvider

----------------------------------------------------------------------------
\* What the parameters are to the arithmetic of the clock.
LEMMA Durations ==
  ASSUME KeysParameters
  PROVE  /\ TTL \in Nat /\ Cooldown \in Nat /\ FetchTime \in Nat /\ MaxKeyTime \in Nat
         /\ 0 < Cooldown /\ Cooldown <= TTL /\ NoKey \notin Kids
BY DEF KeysParameters

LEMMA UseCacheKeeps ==
  ASSUME KeysParameters, KeysInv, NEW kid \in Kids, UseCache(kid)
  PROVE  KeysInv'
<1>1. /\ UNCHANGED <<keyClock, published, keys, fetched, attempt, call, changed, failed>>
      /\ call.pc = "idle" /\ verdict' = [kid |-> kid, found |-> kid \in keys]
      /\ Fresh(kid) \/ Cooling
  BY DEF UseCache, Verify, NoCall, environment
<1>2. /\ KeysTypeOK /\ keyClock \in Nat /\ fetched \in Nat /\ attempt \in Nat /\ failed \in Nat
      /\ changed[kid] \in Nat /\ keys \subseteq Kids
  BY DEF KeysInv, KeysTypeOK
<1>3. KeysTypeOK' /\ Past' /\ Fetching' /\ Cached' /\ Tried'
  BY <1>1 DEF KeysInv, KeysTypeOK, Past, Fetching, Cached, Tried, Verdict
<1>4. Cooling =>
        \/ FailedLately
        \/ /\ keyClock < fetched + Cooldown
           /\ kid \in published \ keys => keyClock < changed[kid] + Cooldown
  BY <1>1, <1>2, Durations DEF Cooling, KeysInv, Tried, FailedLately
<1>5. kid \in keys /\ kid \notin published =>
        keyClock < changed[kid] + TTL + FetchTime \/ FailedLately
  <2> SUFFICES ASSUME kid \in keys, kid \notin published, ~FailedLately
               PROVE  keyClock < changed[kid] + TTL + FetchTime
    OBVIOUS
  <2>1. keyClock < fetched + TTL
    BY <1>1, <1>2, <1>4, Durations DEF Fresh
  <2>2. fetched <= changed[kid] + FetchTime
    BY DEF KeysInv, Cached
  <2> QED
    BY <1>2, <2>1, <2>2, Durations
<1>6. kid \in published /\ kid \notin keys =>
        keyClock < changed[kid] + Cooldown + FetchTime \/ FailedLately
  BY <1>1, <1>2, <1>4, Durations DEF Fresh
<1>7. KeysFollowTheProvider'
  BY <1>1, <1>3, <1>5, <1>6
     DEF KeysFollowTheProvider, OldKeysOnlyInOutages, NewKeysSoonFound, FailedLately
<1> QED
  BY <1>3, <1>7 DEF KeysInv

LEMMA BeginRefreshKeeps ==
  ASSUME KeysParameters, KeysInv, NEW kid \in Kids, BeginRefresh(kid)
  PROVE  KeysInv'
<1>1. /\ UNCHANGED <<keyClock, published, keys, fetched, changed, failed>>
      /\ attempt' = keyClock /\ verdict' = NoVerdict
      /\ call' = [pc |-> "asked", kid |-> kid, doc |-> {}, began |-> keyClock]
  BY DEF BeginRefresh, NoCall, environment
<1>2. KeysTypeOK'
  BY <1>1 DEF KeysInv, KeysTypeOK, Call, Verdict, NoVerdict
<1>3. Past' /\ Fetching' /\ Cached' /\ Tried'
  BY <1>1, Durations DEF KeysInv, KeysTypeOK, Past, Fetching, Cached, Tried
<1>4. KeysFollowTheProvider'
  BY <1>1, <1>2, Durations
     DEF KeysFollowTheProvider, OldKeysOnlyInOutages, NewKeysSoonFound, NoVerdict, KeysTypeOK
<1> QED
  BY <1>2, <1>3, <1>4 DEF KeysInv

LEMMA ProviderAnswersKeeps ==
  ASSUME KeysParameters, KeysInv, ProviderAnswers
  PROVE  KeysInv'
<1>1. /\ UNCHANGED <<keyClock, published, keys, fetched, attempt, changed, failed>>
      /\ call.pc = "asked" /\ verdict' = NoVerdict
      /\ call' = [call EXCEPT !.pc = "answered", !.doc = published]
  BY DEF ProviderAnswers, environment
<1>2. /\ call'.pc = "answered" /\ call'.doc = published
      /\ call'.kid = call.kid /\ call'.began = call.began /\ call' \in Call
  BY <1>1 DEF KeysInv, KeysTypeOK, Call
<1>3. KeysTypeOK'
  BY <1>1, <1>2 DEF KeysInv, KeysTypeOK, Verdict, NoVerdict
<1>4. Past' /\ Fetching' /\ Cached' /\ Tried'
  BY <1>1, <1>2 DEF KeysInv, KeysTypeOK, Past, Fetching, Cached, Tried
<1>5. KeysFollowTheProvider'
  BY <1>1, <1>3, Durations
     DEF KeysFollowTheProvider, OldKeysOnlyInOutages, NewKeysSoonFound, NoVerdict, KeysTypeOK
<1> QED
  BY <1>3, <1>4, <1>5 DEF KeysInv

LEMMA TakeKeysKeeps ==
  ASSUME KeysParameters, KeysInv, TakeKeys
  PROVE  KeysInv'
<1>1. /\ UNCHANGED <<keyClock, published, changed, failed>>
      /\ call.pc = "answered" /\ keys' = call.doc /\ fetched' = keyClock
      /\ attempt' = IF call.kid \in call.doc THEN 0 ELSE attempt
      /\ verdict' = [kid |-> call.kid, found |-> call.kid \in call.doc]
      /\ call' = NoCall
  BY DEF TakeKeys, Verify, environment
<1>2. /\ keyClock \in Nat /\ attempt \in Nat /\ call \in Call /\ call.kid \in Kids
      /\ call.began \in Nat /\ call.doc \subseteq Kids /\ changed[call.kid] \in Nat
  BY <1>1 DEF KeysInv, KeysTypeOK, Call, Fetching
<1>3. attempt = call.began /\ call.began <= keyClock /\ keyClock <= call.began + FetchTime
  BY <1>1 DEF KeysInv, Fetching
<1>4. \A kid \in Kids : (kid \in call.doc) # (kid \in published) =>
        changed[kid] \in Nat /\ call.began <= changed[kid] /\ keyClock <= changed[kid] + FetchTime
  <2> TAKE kid \in Kids
  <2>1. changed[kid] \in Nat
    BY DEF KeysInv, KeysTypeOK
  <2>2. (kid \in call.doc) # (kid \in published) => call.began <= changed[kid]
    BY <1>1 DEF KeysInv, Fetching
  <2> QED
    BY <1>2, <1>3, <2>1, <2>2, Durations
<1>5. KeysTypeOK'
  BY <1>1, <1>2 DEF KeysInv, KeysTypeOK, Call, NoCall, Verdict
<1>6. Past' /\ Fetching'
  BY <1>1, <1>2 DEF KeysInv, Past, Fetching, NoCall
<1>7. Cached' /\ Tried'
  BY <1>1, <1>2, <1>3, <1>4 DEF Cached, Tried, KeysInv, KeysTypeOK
<1>8. KeysFollowTheProvider'
  <2>1. (call.kid \in call.doc) # (call.kid \in published) =>
          keyClock < changed[call.kid] + TTL + FetchTime /\ keyClock < changed[call.kid] + Cooldown + FetchTime
    BY <1>2, <1>4, Durations
  <2> QED
    BY <1>1, <1>2, <2>1 DEF KeysFollowTheProvider, OldKeysOnlyInOutages, NewKeysSoonFound
<1> QED
  BY <1>5, <1>6, <1>7, <1>8 DEF KeysInv

LEMMA RefreshFailsKeeps ==
  ASSUME KeysParameters, KeysInv, RefreshFails
  PROVE  KeysInv'
<1>1. /\ UNCHANGED <<keyClock, published, keys, fetched, attempt, changed>>
      /\ call.pc # "idle" /\ failed' = keyClock /\ call' = NoCall
      /\ verdict' = [kid |-> call.kid, found |-> call.kid \in keys]
  BY DEF RefreshFails, Verify, environment
<1>2. call.kid \in Kids /\ keyClock \in Nat /\ 1 <= keyClock /\ attempt <= keyClock /\ attempt \in Nat
  BY <1>1 DEF KeysInv, KeysTypeOK, Fetching, Past
<1>3. KeysTypeOK'
  BY <1>1, <1>2 DEF KeysInv, KeysTypeOK, Call, NoCall, Verdict
<1>4. Past' /\ Fetching' /\ Cached' /\ Tried'
  BY <1>1, <1>2 DEF KeysInv, Past, Fetching, Cached, Tried, NoCall
<1>5. FailedLately'
  BY <1>1, <1>2, Durations DEF FailedLately
<1> QED
  BY <1>3, <1>4, <1>5 DEF KeysInv, KeysFollowTheProvider, OldKeysOnlyInOutages, NewKeysSoonFound

LEMMA RotateKeeps ==
  ASSUME KeysParameters, KeysInv, NEW kid \in Kids, Rotate(kid)
  PROVE  KeysInv'
<1>1. /\ UNCHANGED <<keyClock, keys, fetched, attempt, call, failed>>
      /\ published' = IF kid \in published THEN published \ {kid} ELSE published \cup {kid}
      /\ changed' = [changed EXCEPT ![kid] = keyClock] /\ verdict' = NoVerdict
  BY DEF Rotate
<1>2. /\ keyClock \in Nat /\ fetched \in Nat /\ attempt \in Nat /\ call \in Call
      /\ changed' \in [Kids -> Nat] /\ changed'[kid] = keyClock
      /\ \A k \in Kids : k # kid => changed'[k] = changed[k] /\ (k \in published' <=> k \in published)
  BY <1>1 DEF KeysInv, KeysTypeOK
<1>3. KeysTypeOK'
  BY <1>1, <1>2 DEF KeysInv, KeysTypeOK, Verdict, NoVerdict
<1>4. Past' /\ Fetching'
  BY <1>1, <1>2 DEF KeysInv, Past, Fetching
<1>5. Cached'
  <2>1. fetched <= keyClock + FetchTime
    BY <1>2, Durations DEF KeysInv, Past
  <2> QED
    BY <1>1, <1>2, <2>1 DEF KeysInv, KeysTypeOK, Cached
<1>6. Tried'
  BY <1>1, <1>2 DEF KeysInv, KeysTypeOK, Past, Tried
<1>7. KeysFollowTheProvider'
  BY <1>1, <1>3, Durations
     DEF KeysFollowTheProvider, OldKeysOnlyInOutages, NewKeysSoonFound, NoVerdict, KeysTypeOK
<1> QED
  BY <1>3, <1>4, <1>5, <1>6, <1>7 DEF KeysInv

LEMMA KeysTickKeeps ==
  ASSUME KeysParameters, KeysInv, KeyTick
  PROVE  KeysInv'
<1>1. /\ UNCHANGED <<published, keys, fetched, attempt, call, changed, failed>>
      /\ keyClock' = keyClock + 1 /\ verdict' = NoVerdict
      /\ call # NoCall => keyClock < call.began + FetchTime
  BY DEF KeyTick
<1>2. keyClock \in Nat /\ fetched \in Nat /\ attempt \in Nat /\ call \in Call /\ call.began \in Nat
  BY DEF KeysInv, KeysTypeOK, Call
<1>3. KeysTypeOK' /\ Past' /\ Cached' /\ Tried'
  BY <1>1, <1>2 DEF KeysInv, KeysTypeOK, Past, Cached, Tried, Verdict, NoVerdict
<1>4. Fetching'
  <2>1. call.pc # "idle" => keyClock' <= call.began + FetchTime /\ call.began <= keyClock'
    BY <1>1, <1>2, Durations DEF KeysInv, Fetching, NoCall
  <2> QED
    BY <1>1, <2>1 DEF KeysInv, Fetching
<1>5. KeysFollowTheProvider'
  BY <1>1, <1>3, Durations
     DEF KeysFollowTheProvider, OldKeysOnlyInOutages, NewKeysSoonFound, NoVerdict, KeysTypeOK
<1> QED
  BY <1>3, <1>4, <1>5 DEF KeysInv

----------------------------------------------------------------------------
LEMMA KeysInitHolds == KeysParameters /\ KeysInit => KeysInv
<1> SUFFICES ASSUME KeysParameters, KeysInit PROVE KeysInv
  OBVIOUS
<1>1. KeysTypeOK
  BY DEF KeysInit, KeysTypeOK, Call, NoCall, Verdict, NoVerdict
<1>2. Past /\ Fetching /\ Cached /\ Tried
  BY DEF KeysInit, Past, Fetching, Cached, Tried, NoCall
<1>3. KeysFollowTheProvider
  BY <1>1, Durations
     DEF KeysInit, KeysFollowTheProvider, OldKeysOnlyInOutages, NewKeysSoonFound, NoVerdict, KeysTypeOK
<1> QED
  BY <1>1, <1>2, <1>3 DEF KeysInv

LEMMA KeysStutterKeeps == KeysInv /\ UNCHANGED keysVars => KeysInv'
BY DEF keysVars, KeysInv, KeysTypeOK, Past, Fetching, Cached, Tried, KeysFollowTheProvider,
       OldKeysOnlyInOutages, NewKeysSoonFound, FailedLately

LEMMA KeysInvariance == ASSUME KeysParameters PROVE KeysSpec => []KeysInv
<1>1. KeysInit => KeysInv
  BY KeysInitHolds
<1>2. KeysInv /\ [KeysNext]_keysVars => KeysInv'
  BY UseCacheKeeps, BeginRefreshKeeps, ProviderAnswersKeeps, TakeKeysKeeps, RefreshFailsKeeps,
     RotateKeeps, KeysTickKeeps, KeysStutterKeeps DEF KeysNext
<1> QED
  BY <1>1, <1>2, PTL DEF KeysSpec

\* The cache, the call that refreshes it and the answers are of their types.
THEOREM KeysTypeCorrect == ASSUME KeysParameters PROVE KeysSpec => []KeysTypeOK
<1>1. KeysInv => KeysTypeOK
  BY DEF KeysInv
<1> QED
  BY <1>1, KeysInvariance, PTL

\* Whatever the order of rotations, fetches, timeouts and requests, key()
\* accepts a withdrawn key no longer than the cache lives and a fetch takes, and
\* refuses a published one no longer than the cooldown and a fetch, except just
\* after a fetch that failed.
THEOREM KeysFollow == ASSUME KeysParameters PROVE KeysSpec => []KeysFollowTheProvider
<1>1. KeysInv => KeysFollowTheProvider
  BY DEF KeysInv
<1> QED
  BY <1>1, KeysInvariance, PTL

----------------------------------------------------------------------------
\* Side by side.

\* What is said of the versions, of the sessions and of the signing keys holds of
\* each of them also where all three are.
LEMMA StudioParts == StudioSpec => Spec /\ LoginSpec /\ KeysSpec
<1>1. StudioInit => Init /\ LoginInit /\ KeysInit
  BY DEF StudioInit
<1>2. [StudioNext]_studioVars => [Next]_vars /\ [LoginNext]_loginVars /\ [KeysNext]_keysVars
  BY DEF StudioNext, studioVars
<1> QED
  BY <1>1, <1>2, PTL DEF StudioSpec, Spec, LoginSpec, KeysSpec

\* Versions and views, sessions and tabs, and the key cache keep their types.
THEOREM StudioTypeCorrect == StudioSpec => []StudioTypeOK
<1>1. TypeOK /\ LoginTypeOK /\ KeysTypeOK => StudioTypeOK
  BY DEF StudioTypeOK
<1> QED
  BY <1>1, StudioAssumption, StudioParts, TypeCorrect, LoginTypeCorrect, KeysTypeCorrect, PTL

\* Everything the run of the three checks, for any number of versions, clients,
\* tabs, logins and keys.
THEOREM StudioCorrect ==
  StudioSpec => /\ [](ApprovedContentWasRead /\ FlowSpentOnce /\ SessionsEnd /\ KeysFollowTheProvider)
                /\ NoLostUpdate
  BY StudioAssumption, StudioParts, ApprovalsAreInformed, ExchangedOnce, EndIsFinal, KeysFollow,
     NoUpdateIsLost, PTL
============================================================================
