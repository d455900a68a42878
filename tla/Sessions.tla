------------------------------ MODULE Sessions ------------------------------
(* Login and cookie sessions of the admin pages.  One browser, with several *)
(* tabs that share its cookies, talks to any number of servers that share   *)
(* the session store.  Each request is handled in steps, between which other*)
(* requests run and time passes; its answer, which may set cookies, arrives *)
(* later or never.                                                          *)
(*                                                                          *)
(* A login flow is known by a number, which stands for its state, nonce and *)
(* verifier alike; the session it leads to has the token of that number.    *)
(* Tokens, states and cookies are unguessable: nobody makes one up.         *)
EXTENDS Naturals

CONSTANTS
  Tabs,         \* tabs of the browser, each with one request at a time
  MaxFlows,     \* bound on the logins begun
  MaxTime,      \* bound on the clock
  FlowLife,     \* ten minutes
  SessionLife,  \* eight hours
  TokenLives,   \* how long an ID token may still be valid when it is issued
  None          \* no flow, no session, no cookie

\* What a configuration must give; assumed where the module is instantiated.
LoginParameters ==
  /\ {MaxFlows, MaxTime, FlowLife, SessionLife} \cup TokenLives \subseteq Nat
  /\ None \notin Nat

VARIABLES
  clock,      \* now, the same for the servers and the store
  flows,      \* when each flow expires, 0 for one not begun
  spent,      \* table admin_login_flows: flows a callback consumed
  sessions,   \* table admin_sessions: when each session expires, 0 for no row
  jar,        \* the browser's cookies
  tabs,       \* the page in each tab and the request it waits for
  exchanged,  \* history: token exchanges asked for each flow
  tokens,     \* history: when the ID token behind each session expires
  left        \* history: sessions whose logout was answered

loginVars == <<clock, flows, spent, sessions, jar, tabs, exchanged, tokens, left>>
store == <<flows, spent, sessions>>
history == <<exchanged, tokens, left>>

Flows == 1 .. MaxFlows
Cookie == Flows \cup {None}
Jar == [flow : Cookie, session : Cookie]

\* page: the session whose verification token the page holds.  state: the flow
\* in the tab's address after the redirect.  flow, session: cookies the request carried.  expires: of the ID
\* token, then of the session.  answer: the cookies the answer leaves.
Tab == [pc : {"idle", "login", "check", "spend", "exchange", "profile", "replace", "create",
              "page", "logout", "revoke", "answer"},
        page : Cookie, state : Cookie, flow : Cookie, session : Cookie,
        expires : Nat, answer : {"none", "failed", "replaced", "expired", "left"}]
NewTab == [pc |-> "idle", page |-> None, state |-> None, flow |-> None,
           session |-> None, expires |-> 0, answer |-> "none"]

----------------------------------------------------------------------------
\* Requests and answers.

Send(t, pc) ==
  /\ tabs[t].pc = "idle"
  /\ tabs' = [tabs EXCEPT ![t].pc = pc, ![t].flow = jar.flow, ![t].session = jar.session]

Goto(t, pc) == tabs' = [tabs EXCEPT ![t].pc = pc]

\* No request is under way: what one carried is forgotten.
Rest(tab) == [tab EXCEPT !.pc = "idle", !.flow = None, !.session = None,
                         !.expires = 0, !.answer = "none"]

\* What the rest of the handling does not read is forgotten.
Answer(t, answer) ==
  tabs' = [tabs EXCEPT ![t] =
    [Rest(@) EXCEPT !.pc = "answer", !.answer = answer,
                    !.flow = IF answer = "replaced" THEN tabs[t].flow ELSE None,
                    !.session = IF answer \in {"replaced", "left"} THEN tabs[t].session ELSE None]]

\* An answer that sets no cookie is the same to the browser as none.
Drop(t) == tabs' = [tabs EXCEPT ![t] = Rest(@)]

\* readSession: a row of that token, not expired.
Live(token) == token # None /\ sessions[token] > clock

\* readSession and validCSRF: the page was loaded under this very session.
Verified(t) == Live(tabs[t].session) /\ tabs[t].page = tabs[t].session

\* DeleteSession; a cookie nobody has a row for deletes nothing.
Removed(token) == IF token = None THEN sessions ELSE [sessions EXCEPT ![token] = 0]

----------------------------------------------------------------------------
\* login and callback.

\* A flow begins; its cookie and the redirect travel with the answer.
Login(t) ==
  \E flow \in Flows :
    /\ \A f \in Flows : flows[f] = 0 <=> f >= flow
    /\ tabs[t].pc = "idle"
    /\ flows' = [flows EXCEPT ![flow] = clock + FlowLife]
    /\ tabs' = [tabs EXCEPT ![t].pc = "login", ![t].flow = flow]
    /\ UNCHANGED <<clock, spent, sessions, jar>> /\ UNCHANGED history

\* The flow cookie replaces that of any flow another tab has begun.
FollowRedirect(t) ==
  LET flow == tabs[t].flow IN
  /\ tabs[t].pc = "login"
  /\ jar' = [jar EXCEPT !.flow = flow]
  /\ tabs' = [tabs EXCEPT ![t] = [Rest(@) EXCEPT !.state = flow]]
  /\ UNCHANGED clock /\ UNCHANGED store /\ UNCHANGED history

\* The provider sends the tab back with a code or an error; going back in the
\* history of the tab, or loading it again, sends the same address once more.
SendCallback(t) ==
  /\ tabs[t].state # None
  /\ Send(t, "check")
  /\ UNCHANGED <<clock, jar>> /\ UNCHANGED store /\ UNCHANGED history

\* The cookie's flow has not expired and is the one in the address.
CheckFlow(t) ==
  LET tab == tabs[t] IN
  /\ tab.pc = "check"
  /\ IF tab.flow = tab.state /\ flows[tab.flow] > clock THEN Goto(t, "spend") ELSE Answer(t, "failed")
  /\ UNCHANGED <<clock, jar>> /\ UNCHANGED store /\ UNCHANGED history

\* Mutant of SpendFlow: the row is written, but a conflict is not noticed.
SpendFlowAgain(t) ==
  LET tab == tabs[t] IN
  /\ tab.pc = "spend"
  /\ spent' = spent \cup {tab.flow}
  /\ Goto(t, "exchange") \/ Answer(t, "failed")
  /\ UNCHANGED <<clock, flows, sessions, jar>> /\ UNCHANGED history

\* ConsumeLoginFlow: the first callback of a flow goes on, if the provider sent
\* a code and not an error.
SpendFlow(t) ==
  LET tab == tabs[t] IN
  /\ tab.pc = "spend"
  /\ spent' = spent \cup {tab.flow}
  /\ \/ tab.flow \notin spent /\ Goto(t, "exchange")
     \/ Answer(t, "failed")
  /\ UNCHANGED <<clock, flows, sessions, jar>> /\ UNCHANGED history

\* The code is exchanged, once at the provider, and the ID token verified.
Exchange(t) ==
  LET tab == tabs[t] IN
  /\ tab.pc = "exchange"
  /\ exchanged' = [exchanged EXCEPT ![tab.flow] = @ + 1]
  /\ \/ Answer(t, "failed") /\ UNCHANGED tokens
     \/ \E life \in TokenLives :
          /\ life > 0
          /\ exchanged[tab.flow] = 0
          /\ tokens' = [tokens EXCEPT ![tab.flow] = clock + life]
          /\ tabs' = [tabs EXCEPT ![t].pc = "profile", ![t].expires = clock + life]
  /\ UNCHANGED <<clock, jar, left>> /\ UNCHANGED store

\* Mutant of Expiry: the session lasts eight hours whatever the token says.
ExpiryFixed(token) == clock + SessionLife

\* The session ends after eight hours, or with its ID token.
Expiry(token) == IF token < clock + SessionLife THEN token ELSE clock + SessionLife

\* enrichProfile takes its time, with or without success; then the lifetime is set.
Enrich(t) ==
  /\ tabs[t].pc = "profile"
  /\ tabs' = [tabs EXCEPT ![t].pc = "replace", ![t].expires = Expiry(@)]
  /\ UNCHANGED <<clock, jar>> /\ UNCHANGED store /\ UNCHANGED history

\* The session whose cookie the request carried is revoked.
ReplaceSession(t) ==
  /\ tabs[t].pc = "replace"
  /\ sessions' = Removed(tabs[t].session)
  /\ Goto(t, "create")
  /\ UNCHANGED <<clock, flows, spent, jar>> /\ UNCHANGED history

\* The cookie is given a lifetime: none is left if the token expired meanwhile.
CreateSession(t) ==
  LET tab == tabs[t] IN
  /\ tab.pc = "create"
  /\ sessions' = [sessions EXCEPT ![tab.flow] = tab.expires]
  /\ Answer(t, IF tab.expires > clock THEN "replaced" ELSE "expired")
  /\ UNCHANGED <<clock, flows, spent, jar>> /\ UNCHANGED history

----------------------------------------------------------------------------
\* session, logout, and a request that changes content.

\* The server answers with the session of the cookie; the page may get it late.
LoadPage(t) ==
  /\ Live(jar.session)
  /\ Send(t, "page")
  /\ UNCHANGED <<clock, jar>> /\ UNCHANGED store /\ UNCHANGED history

ShowPage(t) ==
  /\ tabs[t].pc = "page"
  /\ tabs' = [tabs EXCEPT ![t] = [Rest(@) EXCEPT !.page = tabs[t].session]]
  /\ UNCHANGED <<clock, jar>> /\ UNCHANGED store /\ UNCHANGED history

Logout(t) ==
  /\ tabs[t].page # None
  /\ Send(t, "logout")
  /\ UNCHANGED <<clock, jar>> /\ UNCHANGED store /\ UNCHANGED history

AcceptLogout(t) ==
  /\ tabs[t].pc = "logout"
  /\ IF Verified(t) THEN Goto(t, "revoke") ELSE Drop(t)
  /\ UNCHANGED <<clock, jar>> /\ UNCHANGED store /\ UNCHANGED history

Revoke(t) ==
  /\ tabs[t].pc = "revoke"
  /\ sessions' = Removed(tabs[t].session)
  /\ Answer(t, "left")
  /\ UNCHANGED <<clock, flows, spent, jar>> /\ UNCHANGED history

----------------------------------------------------------------------------
\* The store fails in a call, before or after the statement took effect.
StoreFails(t) ==
  LET tab == tabs[t] IN
  /\ \/ /\ tab.pc = "spend"
        /\ spent' \in {spent, spent \cup {tab.flow}}
        /\ UNCHANGED sessions
        /\ Answer(t, "failed")
     \/ /\ tab.pc \in {"replace", "revoke"}
        /\ sessions' \in {sessions, Removed(tab.session)}
        /\ UNCHANGED spent
        /\ IF tab.pc = "replace" THEN Answer(t, "failed") ELSE Drop(t)
     \/ /\ tab.pc = "create"
        /\ sessions' \in {sessions, [sessions EXCEPT ![tab.flow] = tab.expires]}
        /\ UNCHANGED spent
        /\ Answer(t, "failed")
  /\ UNCHANGED <<clock, flows, jar>> /\ UNCHANGED history

\* Every answer of a callback clears the flow cookie; a new session's cookie
\* replaces, and a logout's removes, whatever the browser holds by then.
Receive(t) ==
  LET tab == tabs[t] IN
  /\ tab.pc = "answer"
  /\ jar' = [flow |-> IF tab.answer \in {"failed", "replaced", "expired"} THEN None ELSE jar.flow,
             session |-> CASE tab.answer = "replaced" -> tab.flow
                           [] tab.answer \in {"expired", "left"} -> None
                           [] OTHER -> jar.session]
  /\ left' = IF tab.answer = "left" THEN left \cup {tab.session} ELSE left
  /\ tabs' = [tabs EXCEPT ![t] = Rest(@)]
  /\ UNCHANGED <<clock, exchanged, tokens>> /\ UNCHANGED store

\* The server stops, or the connection or the tab closes.
Abandon(t) ==
  /\ tabs[t].pc # "idle"
  /\ tabs' = [tabs EXCEPT ![t] = Rest(@)]
  /\ UNCHANGED <<clock, jar>> /\ UNCHANGED store /\ UNCHANGED history

Tick ==
  /\ clock < MaxTime
  /\ clock' = clock + 1
  /\ UNCHANGED jar /\ UNCHANGED tabs /\ UNCHANGED store /\ UNCHANGED history

----------------------------------------------------------------------------
LoginInit ==
  /\ clock = 0
  /\ flows = [f \in Flows |-> 0]
  /\ spent = {}
  /\ sessions = [f \in Flows |-> 0]
  /\ jar = [flow |-> None, session |-> None]
  /\ tabs = [t \in Tabs |-> NewTab]
  /\ exchanged = [f \in Flows |-> 0]
  /\ tokens = [f \in Flows |-> 0]
  /\ left = {}

Handle(t) ==
  \/ CheckFlow(t) \/ SpendFlow(t) \/ Exchange(t) \/ Enrich(t) \/ ReplaceSession(t) \/ CreateSession(t)
  \/ AcceptLogout(t) \/ Revoke(t) \/ StoreFails(t)

Browse(t) ==
  \/ Login(t) \/ FollowRedirect(t) \/ SendCallback(t) \/ LoadPage(t) \/ ShowPage(t)
  \/ Logout(t) \/ Receive(t) \/ Abandon(t)

LoginNext == Tick \/ \E t \in Tabs : Handle(t) \/ Browse(t)

LoginSpec == LoginInit /\ [][LoginNext]_loginVars

----------------------------------------------------------------------------
\* The store, the cookies and the tabs hold values of their types.
LoginTypeOK ==
  /\ clock \in Nat
  /\ flows \in [Flows -> Nat]
  /\ spent \subseteq Flows
  /\ sessions \in [Flows -> Nat]
  /\ jar \in Jar
  /\ tabs \in [Tabs -> Tab]
  /\ exchanged \in [Flows -> Nat]
  /\ tokens \in [Flows -> Nat]
  /\ left \subseteq Flows

\* A login flow asks for one token exchange at most, however often its callback
\* is sent again, in two tabs at once or after an answer that was lost.
FlowSpentOnce == \A f \in Flows : exchanged[f] <= 1

\* A callback that succeeded revoked the session its browser had come with, so
\* that a cookie copied before ends with it: not before the new one, not never.
ReplacedIsRevoked ==
  \A t \in Tabs : tabs[t].pc = "answer" /\ tabs[t].answer = "replaced" /\ tabs[t].session # None
    => sessions[tabs[t].session] = 0

\* No session outlives the ID token it was made from: neither the delay of the
\* profile request nor a later request extends it.
SessionEndsWithToken == \A f \in Flows : sessions[f] <= tokens[f]

\* Once a logout is answered its session is over for good: no row of it is left
\* and no callback under way will write one, whatever else was in flight.
LogoutIsFinal ==
  \A f \in left :
    /\ sessions[f] = 0
    /\ \A t \in Tabs : tabs[t].pc \in {"profile", "replace", "create"} => tabs[t].flow # f

\* A session ends with its token, its replacement or its logout.
SessionsEnd == SessionEndsWithToken /\ ReplacedIsRevoked /\ LogoutIsFinal
============================================================================
