----------------------------- MODULE SessionProofs -----------------------------
(***************************************************************************)
(* The login session, for any sets of tabs, users and years, any number of *)
(* calls in flight and any order of their answers.                         *)
(***************************************************************************)
EXTENDS Session, TLAPS

Page     == [page : Section \cup {"login"}, year : Year, role : Role \cup {None},
             pending : Year \cup {None}, switching : BOOLEAN, logging : BOOLEAN]
CallType == [kind : Kind, tab : Tab \cup {None}, mounted : BOOLEAN,
             sent : Token \cup {None}, user : User \cup {None}, year : Year \cup {None}]

\* A login names its user and year, a switch its year.
CallsMeant == \A c \in call :
    /\ c.kind = "login" => c.user \in User /\ c.year \in Year
    /\ c.kind = "switch" => c.year \in Year

\* After a logout, no call on its way can set a token any more.
NothingSets == signedOut => \A c \in call :
    /\ c.kind # "login"
    /\ c.kind = "switch" => c.sent = None

SessionInv == TypeOK /\ CallsMeant /\ RoleOfToken /\ LogoutHolds /\ NothingSets

\* The proxy leads to a page there is.
LEMMA ProxyPage ==
    ASSUME NEW page \in Section \cup {"login"}, NEW tok, NEW r
    PROVE  Proxy(page, tok, r) \in Section \cup {"login"}
  BY DEF Proxy, Section

LEMMA ShellPage ==
    ASSUME SessionAssumption, NEW page \in Section \cup {"login"} PROVE Shell(page) \in Page
  BY DEF SessionAssumption, Shell, Page

LEMMA NewCall ==
    ASSUME NEW kind \in Kind, NEW t \in Tab \cup {None}, NEW tok \in Token \cup {None},
           NEW user \in User \cup {None}, NEW year \in Year \cup {None}
    PROVE  /\ Call(kind, t, tok, user, year) \in CallType
           /\ Call(kind, t, tok, user, year).kind = kind
           /\ Call(kind, t, tok, user, year).sent = tok
           /\ Call(kind, t, tok, user, year).user = user
           /\ Call(kind, t, tok, user, year).year = year
  BY DEF Call, CallType

LEMMA NewSessionCalls ==
    ASSUME NEW t \in Tab \cup {None}, NEW tok \in Token \cup {None}
    PROVE  /\ SessionCalls(t, tok) \subseteq CallType
           /\ \A c \in SessionCalls(t, tok) : c.kind \in {"topbar", "sidebar"}
<1>1. ASSUME NEW kind \in {"topbar", "sidebar"}
      PROVE  Call(kind, t, tok, None, None) \in CallType /\ Call(kind, t, tok, None, None).kind = kind
  BY DEF Call, CallType, Kind
<1> QED
  BY <1>1 DEF SessionCalls

\* A tab keeps its type when one field of it changes.
LEMMA TabFields ==
    ASSUME tab \in [Tab -> Page], NEW t
    PROVE  /\ \A x \in Section \cup {"login"} : [tab EXCEPT ![t].page = x] \in [Tab -> Page]
           /\ \A x \in Year : [tab EXCEPT ![t].year = x] \in [Tab -> Page]
           /\ \A x \in Role \cup {None} : [tab EXCEPT ![t].role = x] \in [Tab -> Page]
           /\ \A x \in Year \cup {None} : [tab EXCEPT ![t].pending = x] \in [Tab -> Page]
           /\ \A x \in BOOLEAN : [tab EXCEPT ![t].switching = x] \in [Tab -> Page]
           /\ \A x \in BOOLEAN : [tab EXCEPT ![t].logging = x] \in [Tab -> Page]
           /\ \A x \in Page : [tab EXCEPT ![t] = x] \in [Tab -> Page]
<1>1. \A x \in Section \cup {"login"} : [tab EXCEPT ![t].page = x] \in [Tab -> Page]
  BY DEF Page
<1>2. \A x \in Year : [tab EXCEPT ![t].year = x] \in [Tab -> Page]
  BY DEF Page
<1>3. \A x \in Role \cup {None} : [tab EXCEPT ![t].role = x] \in [Tab -> Page]
  BY DEF Page
<1>4. \A x \in Year \cup {None} : [tab EXCEPT ![t].pending = x] \in [Tab -> Page]
  BY DEF Page
<1>5. \A x \in BOOLEAN : [tab EXCEPT ![t].switching = x] \in [Tab -> Page]
  BY DEF Page
<1>6. \A x \in BOOLEAN : [tab EXCEPT ![t].logging = x] \in [Tab -> Page]
  BY DEF Page
<1>7. \A x \in Page : [tab EXCEPT ![t] = x] \in [Tab -> Page]
  OBVIOUS
<1> QED
  BY <1>1, <1>2, <1>3, <1>4, <1>5, <1>6, <1>7

\* What a call asks for is what a call in the other set asks for.
Asks(c, d) == c.kind = d.kind /\ c.sent = d.sent /\ c.user = d.user /\ c.year = d.year

\* A page load leaves a shell or the login page, the calls there were, some of them
\* abandoned, and the calls that load the session.
LEMMA LoadLeaves ==
    ASSUME SessionAssumption, TypeOK, NEW t \in Tab, NEW page \in Section \cup {"login"},
           NEW tok \in Token \cup {None}, NEW r, NEW calls \in SUBSET CallType,
           Load(t, page, tok, r, calls)
    PROVE  /\ tab' \in [Tab -> Page]
           /\ call' \subseteq CallType
           /\ \A c \in call' : \/ c.kind \in {"topbar", "sidebar"}
                               \/ \E d \in calls : Asks(c, d)
<1> DEFINE dest == Proxy(page, tok, r)
           mine == {c \in calls : c.tab = t}
           left(kept) == {[c EXCEPT !.tab = None, !.mounted = FALSE] : c \in kept}
           new == IF dest = "login" THEN {} ELSE SessionCalls(t, tok)
<1>1. PICK kept \in SUBSET mine : call' = (calls \ mine) \cup left(kept) \cup new
  BY DEF Load
<1>2. tab' \in [Tab -> Page]
  BY ProxyPage, ShellPage DEF Load, TypeOK, Page
<1>3. \A c \in calls : /\ [c EXCEPT !.tab = None, !.mounted = FALSE] \in CallType
                       /\ Asks([c EXCEPT !.tab = None, !.mounted = FALSE], c)
  BY DEF CallType, Asks
<1>4. new \subseteq CallType /\ \A c \in new : c.kind \in {"topbar", "sidebar"}
  BY NewSessionCalls
<1>5. \A c \in calls : Asks(c, c)
  BY DEF Asks
<1>6. ASSUME NEW c \in left(kept) PROVE c \in CallType /\ \E d \in calls : Asks(c, d)
  <2>1. PICK k \in kept : c = [k EXCEPT !.tab = None, !.mounted = FALSE]
    BY <1>6
  <2>2. k \in calls
    OBVIOUS
  <2> HIDE DEF mine, left, new, dest
  <2> QED
    BY ONLY <1>3, <2>1, <2>2
<1>7. \A c \in call' : c \in calls \/ c \in left(kept) \/ c \in new
  BY <1>1
<1>8. call' \subseteq CallType
  BY <1>4, <1>6, <1>7
<1>9. \A c \in call' : c.kind \in {"topbar", "sidebar"} \/ \E d \in calls : Asks(c, d)
  BY <1>4, <1>5, <1>6, <1>7
<1> QED
  BY <1>2, <1>8, <1>9

LEMMA SessionInvInit == SessionAssumption /\ Init => SessionInv
  BY ShellPage DEF SessionInv, Init, TypeOK, LoginPage, Page, CallsMeant, RoleOfToken, LogoutHolds,
     NothingSets
LEMMA SessionInvStep ==
    ASSUME SessionAssumption, SessionInv, [Next]_vars PROVE SessionInv'
<1> USE SessionAssumption DEF SessionInv
<1>0. tab \in [Tab -> Page] /\ call \subseteq CallType
  BY DEF TypeOK, Page, CallType
<1>1. ASSUME NEW t \in Tab, NEW page \in Visited \cup {"dashboard", "login"}, Open(t, page)
      PROVE  SessionInv'
  <2>1. page \in Section \cup {"login"} /\ token \in Token \cup {None}
    BY DEF SessionAssumption, Section, TypeOK
  <2>2. /\ tab' \in [Tab -> Page] /\ call' \subseteq CallType
        /\ \A c \in call' : c.kind \in {"topbar", "sidebar"} \/ \E d \in call : Asks(c, d)
    BY <1>0, <1>1, <2>1, LoadLeaves DEF Open
  <2>3. UNCHANGED <<token, role, signedOut>>
    BY <1>1 DEF Open, session
  <2>4. TypeOK'
    BY <2>2, <2>3 DEF TypeOK, Page, CallType
  <2>5. CallsMeant' /\ NothingSets'
    BY <2>2, <2>3 DEF CallsMeant, NothingSets, Asks
  <2> QED
    BY <2>3, <2>4, <2>5 DEF RoleOfToken, LogoutHolds
<1>2. ASSUME NEW t \in Tab, NEW page \in Visited \cup {"dashboard"}, Follow(t, page)
      PROVE  SessionInv'
  <2>1. Proxy(page, token, role) \in Section \cup {"login"}
    BY ProxyPage DEF SessionAssumption, Section
  <2>2. UNCHANGED <<token, role, signedOut>>
    BY <1>2 DEF Follow, session
  <2>3. tab' \in [Tab -> Page]
    BY <1>0, <1>2, <2>1, ShellPage DEF Follow, Page, LoginPage
  <2>4. call' \subseteq CallType /\ \A c \in call' : \E d \in call : Asks(c, d)
    <3>1. \A c \in call : /\ [c EXCEPT !.mounted = FALSE] \in CallType
                          /\ Asks([c EXCEPT !.mounted = FALSE], c) /\ Asks(c, c)
      BY <1>0 DEF CallType, Asks
    <3>2. \A d \in call' : \E c \in call : d = c \/ d = [c EXCEPT !.mounted = FALSE]
      BY <1>2 DEF Follow
    <3>3. ASSUME NEW d \in call' PROVE d \in CallType /\ \E c \in call : Asks(d, c)
      <4>1. PICK c \in call : d = c \/ d = [c EXCEPT !.mounted = FALSE]
        BY <3>2
      <4> QED
        BY ONLY <1>0, <3>1, <4>1
    <3> QED
      BY <3>3
  <2>5. TypeOK'
    BY <2>2, <2>3, <2>4 DEF TypeOK, Page, CallType
  <2>6. CallsMeant' /\ NothingSets'
    BY <2>2, <2>4 DEF CallsMeant, NothingSets, Asks
  <2> QED
    BY <2>2, <2>5, <2>6 DEF RoleOfToken, LogoutHolds
<1>3. ASSUME NEW t \in Tab, NEW u \in User, Submit(t, u) PROVE SessionInv'
  <2> DEFINE c0 == Call("login", t, token, u, ThisYear)
  <2>1. c0 \in CallType /\ c0.kind = "login" /\ c0.user = u /\ c0.year = ThisYear
    BY DEF Call, CallType, Kind, TypeOK, SessionAssumption
  <2>2. /\ call' = call \cup {c0} /\ signedOut' = FALSE /\ UNCHANGED <<token, role>>
        /\ tab' \in [Tab -> Page]
    BY ZenonT(40), <1>0, <1>3 DEF Submit, session, Page
  <2>3. TypeOK'
    BY <1>0, <2>1, <2>2 DEF TypeOK, Page, CallType
  <2>4. CallsMeant' /\ NothingSets'
    BY <2>1, <2>2 DEF CallsMeant, NothingSets, SessionAssumption
  <2> QED
    BY <2>2, <2>3, <2>4 DEF RoleOfToken, LogoutHolds
<1>4. ASSUME NEW t \in Tab, (\E y \in Year : ChooseYear(t, y)) \/ CancelSwitch(t)
      PROVE  SessionInv'
  <2>1. UNCHANGED <<token, role, call, signedOut>> /\ tab' \in [Tab -> Page]
    BY <1>0, <1>4 DEF ChooseYear, CancelSwitch, session, Page
  <2> QED
    BY <2>1 DEF TypeOK, Page, CallsMeant, RoleOfToken, LogoutHolds, NothingSets
<1>5. ASSUME NEW t \in Tab, ConfirmSwitch(t) PROVE SessionInv'
  <2> DEFINE c0 == Call("switch", t, token, None, tab[t].pending)
  <2>1. tab[t].pending \in Year
    BY <1>0, <1>5 DEF ConfirmSwitch, Page
  <2>2. c0 \in CallType /\ c0.kind = "switch" /\ c0.sent = token /\ c0.year \in Year
    BY <2>1 DEF Call, CallType, Kind, TypeOK
  <2>3. /\ call' = call \cup {c0} /\ UNCHANGED <<token, role, signedOut>>
        /\ tab' \in [Tab -> Page]
    BY ZenonT(40), <1>0, <1>5 DEF ConfirmSwitch, session, Page
  <2>4. TypeOK'
    BY <1>0, <2>2, <2>3 DEF TypeOK, Page, CallType
  <2>5. CallsMeant' /\ NothingSets'
    BY <2>2, <2>3 DEF CallsMeant, NothingSets, LogoutHolds
  <2> QED
    BY <2>3, <2>4, <2>5 DEF RoleOfToken, LogoutHolds
<1>6. ASSUME NEW t \in Tab, Logout(t) PROVE SessionInv'
  <2> DEFINE c0 == Call("logout", t, token, None, None)
  <2>1. c0 \in CallType /\ c0.kind = "logout"
    BY DEF Call, CallType, Kind, TypeOK
  <2>2. call' = call \cup {c0} /\ UNCHANGED <<token, role, tab, signedOut>>
    BY <1>6 DEF Logout, session
  <2>3. TypeOK'
    BY <1>0, <2>1, <2>2 DEF TypeOK, CallType
  <2>4. CallsMeant' /\ NothingSets'
    BY <2>1, <2>2 DEF CallsMeant, NothingSets
  <2> QED
    BY <2>2, <2>3, <2>4 DEF RoleOfToken, LogoutHolds
<1>7. ASSUME NEW c \in call, NEW ok \in BOOLEAN, TopbarAnswered(c, ok) \/ SidebarAnswered(c, ok)
      PROVE  SessionInv'
  <2>1. token' \in {token, None} /\ UNCHANGED <<role, signedOut>> /\ call' = call \ {c}
    BY <1>7 DEF TopbarAnswered, SidebarAnswered, SessionRoute
  <2>2. c.sent # None => c.sent.year \in Year /\ RoleOf[c.sent.user] \in Role
    BY <1>0 DEF CallType, Token, SessionAssumption
  <2>3. tab' \in [Tab -> Page]
    <3>1. CASE TopbarAnswered(c, ok)
      BY <1>0, <2>2, <3>1, TabFields DEF TopbarAnswered, SessionAssumption
    <3>2. CASE SidebarAnswered(c, ok)
      BY <1>0, <2>2, <3>2, TabFields DEF SidebarAnswered
    <3> QED
      BY <1>7, <3>1, <3>2
  <2>4. TypeOK'
    BY <2>1, <2>3 DEF TypeOK, Page
  <2> QED
    BY <2>1, <2>4 DEF CallsMeant, RoleOfToken, LogoutHolds, NothingSets
<1>8. ASSUME NEW c \in call, NEW ok \in BOOLEAN, LoginAnswered(c, ok) PROVE SessionInv'
  <2>1. c.kind = "login" /\ ~signedOut /\ UNCHANGED signedOut /\ c.tab \in Tab \cup {None}
    BY <1>0, <1>8 DEF LoginAnswered, NothingSets, CallType
  <2>2. /\ token' \in Token \cup {None} /\ role' \in Role \cup {None}
        /\ RoleOfToken'
    <3>1. [user |-> c.user, year |-> c.year] \in Token
      BY <2>1 DEF CallsMeant, Token
    <3>2. CASE ok
      BY <1>8, <3>1, <3>2 DEF LoginAnswered, LoginRoute, SetSession, RoleOfToken, Token,
         SessionAssumption
    <3>3. CASE ~ok
      BY <1>8, <3>3 DEF LoginAnswered, RoleOfToken, TypeOK, session
    <3> QED
      BY <3>2, <3>3
  <2>3. \A t \in Tab \cup {None} : SessionCalls(t, token') \subseteq CallType
                       /\ \A d \in SessionCalls(t, token') : d.kind \in {"topbar", "sidebar"}
    BY <2>2, NewSessionCalls
  <2>4. tab' \in [Tab -> Page]
    <3>1. tab' = tab \/ tab' = [tab EXCEPT ![c.tab] = Shell("dashboard")]
          \/ tab' = [tab EXCEPT ![c.tab].logging = FALSE]
      BY <1>8 DEF LoginAnswered
    <3>2. Shell("dashboard") \in Page
      BY ShellPage DEF Section
    <3> QED
      BY <1>0, <3>1, <3>2, TabFields
  <2>5. call' \subseteq CallType /\ \A d \in call' : d \in call \/ d.kind \in {"topbar", "sidebar"}
    <3>1. CASE c.mounted /\ ok
      <4>1. call' = (call \ {c}) \cup SessionCalls(c.tab, token')
        BY <1>8, <3>1 DEF LoginAnswered
      <4> QED
        BY <1>0, <2>1, <2>3, <4>1
    <3>2. CASE ~(c.mounted /\ ok)
      BY <1>0, <1>8, <3>2 DEF LoginAnswered
    <3> QED
      BY <3>1, <3>2
  <2>6. TypeOK'
    BY <2>1, <2>2, <2>4, <2>5 DEF TypeOK, Page, CallType
  <2>7. CallsMeant' /\ NothingSets' /\ LogoutHolds'
    BY <2>1, <2>5 DEF CallsMeant, NothingSets, LogoutHolds
  <2> QED
    BY <2>2, <2>6, <2>7
<1>9. ASSUME NEW c \in call, NEW ok \in BOOLEAN, SwitchAnswered(c, ok) PROVE SessionInv'
  <2>1. c.kind = "switch" /\ UNCHANGED signedOut /\ c.tab \in Tab \cup {None} /\ c.year \in Year
    BY <1>0, <1>9 DEF SwitchAnswered, CallType, CallsMeant
  <2>2. token' \in Token \cup {None} /\ role' \in Role \cup {None} /\ RoleOfToken'
        /\ (signedOut => token' = None)
    <3>1. c.sent # None => [user |-> c.sent.user, year |-> c.year] \in Token
                           /\ c.sent.user \in User
      BY <1>0, <2>1 DEF CallType, Token
    <3>2. CASE ok
      BY <1>9, <2>1, <3>1, <3>2 DEF SwitchAnswered, SwitchRoute, SetSession, RoleOfToken,
         SessionAssumption, NothingSets
    <3>3. CASE ~ok
      BY <1>9, <3>3 DEF SwitchAnswered, RoleOfToken, TypeOK, session, LogoutHolds
    <3> QED
      BY <3>2, <3>3
  <2>3. /\ tab' \in [Tab -> Page] /\ call' \subseteq CallType
        /\ \A d \in call' : d.kind \in {"topbar", "sidebar"} \/ \E e \in call : Asks(d, e)
    <3>1. CASE ok /\ c.tab # None
      <4>1. call \ {c} \in SUBSET CallType /\ c.tab \in Tab
            /\ Load(c.tab, "dashboard", token', role', call \ {c})
        BY <1>0, <1>9, <2>1, <3>1 DEF SwitchAnswered
      <4> QED
        BY <2>2, <4>1, LoadLeaves DEF Section
    <3>2. CASE ~(ok /\ c.tab # None)
      <4>1. call' = call \ {c} /\ tab' \in [Tab -> Page]
        BY <1>0, <1>9, <3>2, TabFields DEF SwitchAnswered
      <4> QED
        BY <1>0, <4>1 DEF Asks
    <3> QED
      BY <3>1, <3>2
  <2>4. TypeOK'
    BY <2>1, <2>2, <2>3 DEF TypeOK, Page, CallType
  <2>5. CallsMeant' /\ NothingSets'
    BY <2>1, <2>3 DEF CallsMeant, NothingSets, Asks
  <2> QED
    BY <2>1, <2>2, <2>4, <2>5 DEF LogoutHolds
<1>10. ASSUME NEW c \in call, LogoutAnswered(c) PROVE SessionInv'
  <2>1. /\ token' = None /\ role' = None /\ c.tab \in Tab \cup {None}
        /\ signedOut' = \A d \in call : d.kind \notin {"login", "switch"}
    BY <1>0, <1>10 DEF LogoutAnswered, LogoutRoute, CallType
  <2>2. /\ tab' \in [Tab -> Page] /\ call' \subseteq CallType
        /\ \A d \in call' : d.kind \in {"topbar", "sidebar"} \/ \E e \in call : Asks(d, e)
    <3>1. CASE c.tab # None
      <4>1. call \ {c} \in SUBSET CallType /\ c.tab \in Tab
            /\ Load(c.tab, "login", token', role', call \ {c})
        BY <1>0, <1>10, <2>1, <3>1 DEF LogoutAnswered
      <4> QED
        BY SMTT(30), <2>1, <4>1, LoadLeaves
    <3>2. CASE c.tab = None
      BY <1>0, <1>10, <3>2 DEF LogoutAnswered, Asks
    <3> QED
      BY <3>1, <3>2
  <2>3. signedOut' \in BOOLEAN
    BY <2>1
  <2>4. TypeOK'
    BY <2>1, <2>2, <2>3 DEF TypeOK, Page, CallType
  <2>5. CallsMeant' /\ NothingSets'
    BY <2>1, <2>2 DEF CallsMeant, NothingSets, Asks
  <2> QED
    BY <2>1, <2>4, <2>5 DEF LogoutHolds, RoleOfToken
<1>11. ASSUME NEW c \in call, Lost(c) PROVE SessionInv'
  <2>1. UNCHANGED <<token, role, signedOut>> /\ call' = call \ {c}
    BY <1>11 DEF Lost, session
  <2>2. tab' \in [Tab -> Page]
    BY <1>0, <1>11, TabFields DEF Lost
  <2>3. TypeOK'
    BY <2>1, <2>2 DEF TypeOK, Page
  <2> QED
    BY <2>1, <2>3 DEF CallsMeant, RoleOfToken, LogoutHolds, NothingSets
<1>12. CASE UNCHANGED vars
  BY <1>12 DEF vars, TypeOK, CallsMeant, RoleOfToken, LogoutHolds, NothingSets
<1> QED
  BY <1>1, <1>2, <1>3, <1>4, <1>5, <1>6, <1>7, <1>8, <1>9, <1>10, <1>11, <1>12 DEF Next, Answered

LEMMA SessionInvHolds == Spec => []SessionInv
<1>1. SessionInv /\ [Next]_vars => SessionInv'
  BY SessionAssumption, SessionInvStep
<1> QED
  BY SessionAssumption, SessionInvInit, <1>1, PTL DEF Spec

\* Every variable of the session keeps its type.
THEOREM SessionTypeCorrect == Spec => []TypeOK
<1>1. SessionInv => TypeOK
  BY DEF SessionInv
<1> QED
  BY SessionInvHolds, <1>1, PTL

\* The role cookie and the token are of one user, in any order of answers.
THEOREM RoleFollowsToken == Spec => []RoleOfToken
<1>1. SessionInv => RoleOfToken
  BY DEF SessionInv
<1> QED
  BY SessionInvHolds, <1>1, PTL

\* Once a logout is answered with nothing in flight that could log in, no late
\* answer logs in again.
THEOREM LogoutFinal == Spec => []LogoutHolds
<1>1. SessionInv => LogoutHolds
  BY DEF SessionInv
<1> QED
  BY SessionInvHolds, <1>1, PTL

\* The proxy never redirects in a circle, whatever role the cookie names.
THEOREM RedirectsEnd == Spec => []ProxySettles
<1>1. ProxySettles
  BY DEF ProxySettles, Proxy, CanAccess, Section
<1> QED
  BY <1>1, PTL

\* The four tables of roles agree: what the sidebar and the dashboard offer is let
\* through by the proxy, and answered by the router of the back end.
LEMMA TablesAgree ==
    ASSUME NEW r \in Role, NEW s \in Menu(r) \cup QuickLinks(r)
    PROVE  s \in Section /\ CanAccess(s, r) /\ r \in RouterRoles(s)
<1>1. s \in Section /\ CanAccess(s, r)
  BY DEF Menu, QuickLinks, Section
<1>2. CanAccess(s, r) /\ s \in Section => r \in RouterRoles(s)
  BY DEF CanAccess, Section, Role, RouterRoles
<1> QED
  BY <1>1, <1>2

\* Hence a link shown for the user of the session leads to its page.
THEOREM LinksLeadThere == Spec => []MenuLeadsThere
<1>1. SessionInv => MenuLeadsThere
  <2> SUFFICES ASSUME SessionInv, NEW t \in Shells, token # None, tab[t].role = RoleOf[token.user],
                      NEW s \in Menu(tab[t].role) \cup QuickLinks(tab[t].role)
               PROVE  Proxy(s, token, role) = s /\ tab[t].role \in RouterRoles(s)
    BY DEF MenuLeadsThere
  <2>1. tab[t].role \in Role /\ role = tab[t].role
    BY SessionAssumption DEF SessionInv, RoleOfToken, TypeOK, Token, SessionAssumption
  <2>2. s \in Section /\ CanAccess(s, role) /\ role \in RouterRoles(s)
    BY <2>1, TablesAgree
  <2> QED
    BY <2>1, <2>2 DEF Proxy, Section
<1> QED
  BY SessionInvHolds, <1>1, PTL
===============================================================================
