-------------------------------- MODULE Session --------------------------------
(***************************************************************************)
(* The login session as the front end keeps it: one cookie jar that all    *)
(* the tabs of a browser share, the /api/auth routes that read it when a   *)
(* call is sent and write it when the call is answered, the proxy that     *)
(* guards the internal pages, and the shell (topbar and sidebar) that      *)
(* shows the session in each tab.                                          *)
(*                                                                         *)
(* The back end keeps no session: a token carries its user and year.  What *)
(* it answers, and whether an answer arrives, is up to the environment.    *)
(***************************************************************************)
EXTENDS Naturals, FiniteSets

CONSTANTS
    Tab, User, Year,
    RoleOf,         \* the role of each user
    ThisYear,       \* getCurrentTahunAnggaran
    Visited,        \* the sections beside the dashboard that tabs open
    MaxCalls,       \* bound: the user acts only while fewer calls are in flight
    MaxAbandoned,   \* bound: calls in flight whose page was left
    None

Role    == {"superadmin", "admin_sekretariat", "admin_dukcapil", "admin_pmk"}
Section == {"dashboard", "otsus", "dukcapil", "pmk", "pegawai", "arsip", "pengaturan"}
Token   == [user : User, year : Year]

ASSUME SessionAssumption ==
    /\ RoleOf \in [User -> Role] /\ ThisYear \in Year /\ Visited \subseteq Section
    /\ MaxCalls \in Nat /\ MaxAbandoned \in Nat
    /\ None \notin Tab /\ None \notin User /\ None \notin Year
    /\ None \notin Role /\ None \notin Token

VARIABLES
    token, role,   \* the cookies admin_token and admin_role
    tab,           \* what each tab shows
    call,          \* the /api/auth calls in flight
    signedOut      \* history: logged out with no login or switch in flight

session == <<token, role>>
vars    == <<token, role, tab, call, signedOut>>

\* canAccessInternalHref
MutCanAccess(section, r) ==
    \/ r = "superadmin"
    \/ section = "otsus" /\ r \in {"admin_sekretariat", "admin_dukcapil", "admin_pmk"}
    \/ section = "dukcapil" /\ r = "admin_dukcapil"
    \/ section = "pmk" /\ r = "admin_pmk"
    \/ section \in {"pegawai", "arsip"} /\ r = "admin_sekretariat"
CanAccess(section, r) ==
    \/ r = "superadmin" \/ section = "dashboard"
    \/ section = "otsus" /\ r \in {"admin_sekretariat", "admin_dukcapil", "admin_pmk"}
    \/ section = "dukcapil" /\ r = "admin_dukcapil"
    \/ section = "pmk" /\ r = "admin_pmk"
    \/ section \in {"pegawai", "arsip"} /\ r = "admin_sekretariat"

\* proxy: where a request for a page ends up, given the cookies.
Proxy(page, tok, r) ==
    IF page # "login" /\ tok = None THEN "login"
    ELSE IF page # "login" /\ ~CanAccess(page, r) THEN "dashboard"
    ELSE IF page = "login" /\ tok # None THEN "dashboard"
    ELSE page

\* internalMenus: the roles a menu names; a menu without roles is for all.
MenuRoles(section) ==
    CASE section \in {"dashboard", "otsus"}  -> Role \cup {None}
      [] section \in {"pegawai", "arsip"}    -> {"superadmin", "admin_sekretariat"}
      [] section = "dukcapil"                -> {"superadmin", "admin_dukcapil"}
      [] section = "pmk"                     -> {"superadmin", "admin_pmk"}
      [] section = "pengaturan"              -> {"superadmin"}

\* visibleMenus, for the role the sidebar knows (None before it knows one).
Menu(r) == {s \in Section : r \in MenuRoles(s) /\ CanAccess(s, r)}

\* accessibleQuickLinks of the dashboard, which asks for the session's role too.
QuickLinks(r) ==
    {s \in {"dukcapil", "pmk", "pegawai", "arsip"} : CanAccess(s, r)}
    \cup {s \in {"pengaturan"} : r = "superadmin" /\ CanAccess(s, r)}

\* The roles that the router of the back end lets load a section's data.
MutRouterRoles(section) ==
    CASE section \in {"dashboard", "otsus"}  -> Role
      [] section \in {"pegawai", "arsip"}    -> {"superadmin", "admin_sekretariat"}
      [] section = "dukcapil"                -> {"superadmin", "admin_dukcapil"}
      [] section = "pmk"                     -> {"admin_pmk"}
      [] section = "pengaturan"              -> {"superadmin"}
RouterRoles(section) ==
    CASE section \in {"dashboard", "otsus"}  -> Role
      [] section \in {"pegawai", "arsip"}    -> {"superadmin", "admin_sekretariat"}
      [] section = "dukcapil"                -> {"superadmin", "admin_dukcapil"}
      [] section = "pmk"                     -> {"superadmin", "admin_pmk"}
      [] section = "pengaturan"              -> {"superadmin"}

\* The shell as it mounts: the topbar shows the current year until its own
\* session call is answered, the sidebar knows no role until its own is.
MutShell(page) == [page |-> page, year |-> None, role |-> None,
                   pending |-> None, switching |-> FALSE, logging |-> FALSE]
Shell(page) == [page |-> page, year |-> ThisYear, role |-> None,
                pending |-> None, switching |-> FALSE, logging |-> FALSE]
LoginPage == Shell("login")

Kind == {"topbar", "sidebar", "login", "logout", "switch"}
\* A call: sent is the token in the jar when it was sent, tab the tab whose
\* handler gets the answer, mounted whether the component is still there.
Call(kind, t, tok, user, year) ==
    [kind |-> kind, tab |-> t, mounted |-> TRUE, sent |-> tok, user |-> user, year |-> year]

TypeOK ==
    /\ token \in Token \cup {None} /\ role \in Role \cup {None}
    /\ tab \in [Tab -> [page : Section \cup {"login"}, year : Year, role : Role \cup {None},
                        pending : Year \cup {None}, switching : BOOLEAN, logging : BOOLEAN]]
    /\ call \subseteq [kind : Kind, tab : Tab \cup {None}, mounted : BOOLEAN,
                       sent : Token \cup {None}, user : User \cup {None}, year : Year \cup {None}]
    /\ signedOut \in BOOLEAN

Init ==
    /\ token = None /\ role = None
    /\ tab = [t \in Tab |-> LoginPage]
    /\ call = {}
    /\ signedOut = FALSE

\* The effects that load the session, one of the topbar and one of the sidebar.
SessionCalls(t, tok) ==
    {Call("topbar", t, tok, None, None), Call("sidebar", t, tok, None, None)}

Room == Cardinality(call) < MaxCalls

Shells == {t \in Tab : tab[t].page # "login"}
Abandoned(calls) == {c \in calls : c.tab = None}

\* A full page load drops the handlers of the tab's calls; the answer of a
\* call that the browser lets go on still sets cookies.
Load(t, page, tok, r, calls) ==
    LET dest == Proxy(page, tok, r)
        mine == {c \in calls : c.tab = t}
    IN  /\ tab' = [tab EXCEPT ![t] = Shell(dest)]
        /\ \E kept \in SUBSET mine :
             LET left == {[c EXCEPT !.tab = None, !.mounted = FALSE] : c \in kept}
             IN  /\ Cardinality(Abandoned(calls) \cup left) <= MaxAbandoned
                 /\ call' = (calls \ mine) \cup left
                            \cup (IF dest = "login" THEN {} ELSE SessionCalls(t, tok))

-----------------------------------------------------------------------------
(* What the user does.                                                       *)

\* The address bar, a bookmark, a reload.
Open(t, page) ==
    /\ Room
    /\ Load(t, page, token, role, call)
    /\ UNCHANGED <<session, signedOut>>

\* A link of the sidebar: the layout keeps the shell, unless the proxy sends
\* the tab to the login page.
Follow(t, page) ==
    LET dest == Proxy(page, token, role) IN
    /\ t \in Shells /\ page \in Menu(tab[t].role)
    /\ IF dest # "login"
         THEN /\ tab' = [tab EXCEPT ![t].page = dest]
              /\ call' = call
         ELSE /\ tab' = [tab EXCEPT ![t] = LoginPage]
              /\ call' = {IF c.tab = t THEN [c EXCEPT !.mounted = FALSE] ELSE c : c \in call}
    /\ UNCHANGED <<session, signedOut>>

\* handleLogin, up to its fetch; the form is disabled while one is in flight.
Submit(t, u) ==
    /\ Room /\ t \notin Shells /\ ~tab[t].logging
    /\ tab' = [tab EXCEPT ![t].logging = TRUE]
    /\ call' = call \cup {Call("login", t, token, u, ThisYear)}
    /\ signedOut' = FALSE
    /\ UNCHANGED session

\* openSwitchYearConfirmation; the select is disabled while switching.
ChooseYear(t, y) ==
    /\ t \in Shells /\ y # tab[t].year /\ ~tab[t].switching
    /\ tab' = [tab EXCEPT ![t].pending = y]
    /\ UNCHANGED <<session, call, signedOut>>

\* cancelSwitchYear
CancelSwitch(t) ==
    /\ t \in Shells /\ tab[t].pending # None /\ ~tab[t].switching
    /\ tab' = [tab EXCEPT ![t].pending = None]
    /\ UNCHANGED <<session, call, signedOut>>

\* The dialog's "Ya, Ganti": confirmSwitchYear, up to its fetch.
ConfirmSwitch(t) ==
    /\ Room /\ t \in Shells /\ tab[t].pending # None /\ ~tab[t].switching
    /\ tab' = [tab EXCEPT ![t].switching = TRUE]
    /\ call' = call \cup {Call("switch", t, token, None, tab[t].pending)}
    /\ UNCHANGED <<session, signedOut>>

\* The account menu's "Logout", which stays enabled while switching.
Logout(t) ==
    /\ Room /\ t \in Shells
    /\ call' = call \cup {Call("logout", t, token, None, None)}
    /\ UNCHANGED <<session, tab, signedOut>>

-----------------------------------------------------------------------------
(* The answers, in any order.                                                *)

\* GET /api/auth/session.  Without a token it answers at once; any failure of
\* the back end deletes the token, whichever it is by then.
SessionRoute(c, ok) ==
    /\ token' = IF c.sent = None \/ ok THEN token ELSE None
    /\ UNCHANGED role

TopbarAnswered(c, ok) ==
    /\ c.kind = "topbar"
    /\ SessionRoute(c, ok)
    /\ tab' = IF c.mounted
                THEN [tab EXCEPT ![c.tab].year =
                        IF c.sent # None /\ ok THEN c.sent.year ELSE ThisYear]
                ELSE tab
    /\ call' = call \ {c}
    /\ UNCHANGED signedOut

SidebarAnswered(c, ok) ==
    /\ c.kind = "sidebar"
    /\ SessionRoute(c, ok)
    /\ tab' = IF c.mounted
                THEN [tab EXCEPT ![c.tab].role =
                        IF c.sent # None /\ ok THEN RoleOf[c.sent.user] ELSE None]
                ELSE tab
    /\ call' = call \ {c}
    /\ UNCHANGED signedOut

\* POST /api/auth/login and POST /api/auth/switch-year set the same cookies.
MutSetSession(tok) == token' = tok /\ UNCHANGED role
SetSession(tok) == token' = tok /\ role' = RoleOf[tok.user]

LoginRoute(c) == SetSession([user |-> c.user, year |-> c.year])
SwitchRoute(c) ==
    /\ c.sent # None
    /\ SetSession([user |-> c.sent.user, year |-> c.year])

\* handleLogin, from the answer on: router.push mounts the shell.
LoginAnswered(c, ok) ==
    /\ c.kind = "login"
    /\ UNCHANGED signedOut
    /\ IF ok THEN LoginRoute(c) ELSE UNCHANGED session
    /\ IF ~c.mounted THEN call' = call \ {c} /\ UNCHANGED tab
       ELSE IF ok THEN /\ tab' = [tab EXCEPT ![c.tab] = Shell("dashboard")]
                       /\ call' = (call \ {c}) \cup SessionCalls(c.tab, token')
       ELSE /\ tab' = [tab EXCEPT ![c.tab].logging = FALSE]
            /\ call' = call \ {c}

\* confirmSwitchYear, from the answer on.  The handler of a shell that is no
\* longer mounted still leads the tab to the dashboard.
SwitchAnswered(c, ok) ==
    /\ c.kind = "switch"
    /\ UNCHANGED signedOut
    /\ IF ok THEN SwitchRoute(c) ELSE UNCHANGED session
    /\ IF ok /\ c.tab # None THEN Load(c.tab, "dashboard", token', role', call \ {c})
       ELSE /\ tab' = IF c.mounted THEN [tab EXCEPT ![c.tab].switching = FALSE] ELSE tab
            /\ call' = call \ {c}

\* POST /api/auth/logout
MutLogoutRoute == token' = token /\ role' = None
LogoutRoute == token' = None /\ role' = None

\* handleLogout: the tab loads the login page.
LogoutAnswered(c) ==
    /\ c.kind = "logout"
    /\ LogoutRoute
    /\ signedOut' = \A d \in call : d.kind \notin {"login", "switch"}
    /\ IF c.tab = None THEN call' = call \ {c} /\ UNCHANGED tab
       ELSE Load(c.tab, "login", token', role', call \ {c})

\* The connection fails, or the route's own fetch: no cookie is set, and the
\* handler's catch leaves the tab as it is, but for the flags it resets.
MutLost(c) ==
    /\ call' = call \ {c}
    /\ tab' = IF c.mounted /\ c.kind = "login" THEN [tab EXCEPT ![c.tab].logging = FALSE]
              ELSE tab
    /\ UNCHANGED <<session, signedOut>>
Lost(c) ==
    /\ call' = call \ {c}
    /\ tab' = IF c.mounted /\ c.kind = "login" THEN [tab EXCEPT ![c.tab].logging = FALSE]
              ELSE IF c.mounted /\ c.kind = "switch" THEN [tab EXCEPT ![c.tab].switching = FALSE]
              ELSE tab
    /\ UNCHANGED <<session, signedOut>>

Answered(c) ==
    \/ \E ok \in BOOLEAN : \/ TopbarAnswered(c, ok) \/ SidebarAnswered(c, ok)
                           \/ LoginAnswered(c, ok) \/ SwitchAnswered(c, ok)
    \/ LogoutAnswered(c)
    \/ Lost(c)

Next ==
    \/ \E t \in Tab :
         \/ \E page \in Visited \cup {"dashboard", "login"} : Open(t, page)
         \/ \E page \in Visited \cup {"dashboard"} : Follow(t, page)
         \/ \E u \in User : Submit(t, u)
         \/ \E y \in Year : ChooseYear(t, y)
         \/ CancelSwitch(t) \/ ConfirmSwitch(t) \/ Logout(t)
    \/ \E c \in call : Answered(c)

\* A fetch ends, with an answer or an error.
Fairness == \A t \in Tab, kind \in {"login", "switch"} :
    WF_vars(\E c \in call : c.tab = t /\ c.mounted /\ c.kind = kind /\ Answered(c))

Spec == Init /\ [][Next]_vars /\ Fairness

-----------------------------------------------------------------------------
\* The role the proxy reads is that of the user whose token the jar holds,
\* whatever logins, switches and late session answers have set or deleted.
RoleOfToken == token # None => role = RoleOf[token.user]

\* What the sidebar and the dashboard offer opens: a link shown for the user of
\* the session is not turned away by the proxy, and the back end answers that
\* page's calls.
MenuLeadsThere ==
    \A t \in Shells : token # None /\ tab[t].role = RoleOf[token.user] =>
        \A s \in Menu(tab[t].role) \cup QuickLinks(tab[t].role) :
            Proxy(s, token, role) = s /\ tab[t].role \in RouterRoles(s)

\* One redirect of the proxy is enough, whatever cookies are left: it leads to
\* a page that is served, so that no browser is sent round in a loop.
ProxySettles ==
    \A page \in Section \cup {"login"} :
        LET dest == Proxy(page, token, role)
        IN  IF dest = "login" THEN token = None ELSE token # None /\ CanAccess(dest, role)

\* A logout with no login or year switch in flight is final: no answer still
\* on its way, in any tab, brings the session back before the next login.
LogoutHolds == signedOut => token = None

\* The dialog of a year switch and the login form do not stay disabled.
TabsRecover ==
    \A t \in Tab : /\ tab[t].switching ~> ~tab[t].switching
                   /\ tab[t].logging ~> ~tab[t].logging
===============================================================================
