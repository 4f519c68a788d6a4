---------------------------- MODULE PublicOtsusPage ----------------------------
(***************************************************************************)
(* The public list of Otsus labels.  What is shown is asked for by the     *)
(* address alone, and every choice is a change of the address: a           *)
(* navigation, built from the address of the render it is made in, that    *)
(* the server has to answer before the address changes.  A navigation made *)
(* meanwhile takes its place.  The search field runs ahead of the address  *)
(* and follows it 350 ms later; the answer of a load without a year writes *)
(* the year into the address.                                              *)
(***************************************************************************)
EXTENDS Integers, FiniteSets

CONSTANTS
    Year,
    Search,      \* what is typed; "" is nothing
    Filter,      \* a choice of kabupaten, status, sumberDana
    MaxPage,     \* bound: the pages there may be
    None

Page == 1..MaxPage  \* an address without a page names the first

Address == [tahun : Year \cup {None}, search : Search,
            filter : Filter \cup {None}, page : Page]

OtsusPageAssumption ==
    "" \in Search /\ Year \subseteq Nat /\ IsFiniteSet(Year) /\ None \notin Year
    /\ None \notin Filter /\ None \notin Address /\ MaxPage \in Nat \ {0}

VARIABLES
    published,     \* the years that have public labels, from the server
    address,       \* searchParams
    pending,       \* the address being navigated to, None for none
    field, armed,  \* search, and whether its timer runs
    data,          \* what the answer shown was asked for, and its year
    loading, error,
    asked,         \* the loads in flight
    cancelled      \* history: a navigation under way was replaced by one to the
                   \* address there is, which changes nothing

vars == <<published, address, pending, field, armed, data, loading, error, asked, cancelled>>

Shown == [of : Address, year : Year \cup {None}, years : SUBSET Year, page : Page]

TypeOK ==
    /\ published \subseteq Year /\ address \in Address /\ pending \in Address \cup {None}
    /\ field \in Search /\ armed \in BOOLEAN /\ data \in Shown \cup {None}
    /\ loading \in BOOLEAN /\ error \in BOOLEAN /\ asked \subseteq Address
    /\ cancelled \in BOOLEAN

\* OtsusRepository.PublicList: the year asked for, or the last one published;
\* the page asked for, or the last there is, as many as the labels of the day fill.
MutAnswers(a) ==
    {[of |-> a, years |-> published, page |-> p,
     year |-> IF a.tahun # None \/ published = {} THEN a.tahun
              ELSE CHOOSE y \in published : \A z \in published : z <= y] : p \in 0..a.page}
Answers(a) ==
    {[of |-> a, years |-> published, page |-> p,
     year |-> IF a.tahun # None \/ published = {} THEN a.tahun
              ELSE CHOOSE y \in published : \A z \in published : z <= y] : p \in 1..a.page}

\* updateQuery: router.replace, in the place of a navigation under way.
UpdateQuery(a) ==
    /\ pending' = a
    /\ cancelled' = (a = address /\ (cancelled \/ pending # None))

\* The page is rendered by the server with the answer, or with an error; then
\* the effects run.  The search has not run ahead yet.
Init ==
    /\ published \in SUBSET Year /\ address \in Address /\ pending = None
    /\ field = address.search /\ armed = FALSE
    /\ \/ data \in Answers(address) /\ error = FALSE
       \/ data = None /\ error = TRUE
    /\ loading = FALSE /\ asked = {address} /\ cancelled = FALSE

\* The search effect, on [search, searchParams]: the timer runs anew while the
\* field differs from the address.
MutRearm == armed' = IF field' = field THEN armed ELSE field' # address'.search
Rearm == armed' = IF <<field', address'>> = <<field, address>> THEN armed
                  ELSE field' # address'.search

\* The effect that loads gives up the load it had in flight.
MutFetch(a, inFlight) == asked' = inFlight \cup {a}
Fetch(a, inFlight) == asked' = {a}

Type(s) ==
    /\ s # field /\ field' = s /\ cancelled' = FALSE
    /\ UNCHANGED <<published, address, pending, data, loading, error, asked>>
    /\ Rearm

TimerFires ==
    /\ armed /\ armed' = FALSE
    /\ UpdateQuery([address EXCEPT !.search = field, !.page = 1])
    /\ UNCHANGED <<published, address, field, data, loading, error, asked>>

Unmoved == UNCHANGED <<published, address, field, armed, data, loading, error, asked>>

\* The selects, the pagination, each hidden by an error.  The years offered are
\* those of the answer shown.
ChooseYear(y) ==
    /\ ~error /\ data # None /\ y \in data.years /\ y # data.year
    /\ UpdateQuery([address EXCEPT !.tahun = y, !.page = 1]) /\ Unmoved
ChooseFilter(f) ==
    /\ ~error /\ f # address.filter
    /\ UpdateQuery([address EXCEPT !.filter = f, !.page = 1]) /\ Unmoved
TurnPage(p) ==
    /\ ~error /\ data # None /\ p \in {data.page - 1, data.page + 1}
    /\ UpdateQuery([address EXCEPT !.page = p]) /\ Unmoved

\* "Reset filter".
Reset ==
    /\ ~error /\ (address.search # "" \/ address.filter # None)
    /\ UpdateQuery([address EXCEPT !.search = "", !.filter = None, !.page = 1])
    /\ field' = ""
    /\ UNCHANGED <<published, address, data, loading, error, asked>>
    /\ Rearm

\* "Coba Lagi".
Retry ==
    /\ error
    /\ loading' = TRUE /\ error' = FALSE /\ Fetch(address, asked)
    /\ UNCHANGED <<published, address, pending, field, armed, data, cancelled>>

\* The navigation is done: the effects on the address run, if it is another.
Arrive ==
    /\ pending # None
    /\ address' = pending /\ pending' = None
    /\ IF pending = address THEN asked' = asked /\ cancelled' = cancelled
                            ELSE Fetch(pending, asked) /\ cancelled' = FALSE
    /\ UNCHANGED <<published, field, data, loading, error>>
    /\ Rearm

Answered(a) ==
    /\ data' \in Answers(a) /\ error' = FALSE /\ loading' = FALSE /\ asked' = asked \ {a}
    /\ IF a.tahun = None /\ data'.year # None
       THEN UpdateQuery([a EXCEPT !.tahun = data'.year])
       ELSE UNCHANGED <<pending, cancelled>>
    /\ UNCHANGED <<published, address, field, armed>>

Failed(a) ==
    /\ error' = TRUE /\ loading' = FALSE /\ asked' = asked \ {a}
    /\ UNCHANGED <<published, address, pending, field, armed, data, cancelled>>

\* The office publishes labels, or takes them back.
Republish(years) ==
    /\ published' = years
    /\ UNCHANGED <<address, pending, field, armed, data, loading, error, asked, cancelled>>

Next ==
    \/ \E s \in Search : Type(s)
    \/ \E y \in Year : ChooseYear(y)
    \/ \E f \in Filter \cup {None} : ChooseFilter(f)
    \/ \E p \in Page : TurnPage(p)
    \/ Reset \/ Retry \/ TimerFires \/ Arrive
    \/ \E a \in asked : Answered(a) \/ Failed(a)
    \/ \E years \in SUBSET Year : Republish(years)

\* The browser navigates, its timer fires, and every load is answered or fails.
Fairness ==
    /\ WF_vars(Arrive) /\ WF_vars(TimerFires)
    /\ WF_vars(\E a \in asked : Answered(a) \/ Failed(a))

Spec == Init /\ [][Next]_vars /\ Fairness

-----------------------------------------------------------------------------
\* The search field and the address do not part for good: with no navigation
\* under way and no timer they agree, whichever choice took the place of which.
\* (They do part when a navigation gives way to one to the address there is:
\* "Berikutnya" pressed again before the answer of the page it asked for.)
FieldAgrees == pending = None /\ ~armed /\ ~cancelled => address.search = field

\* What is shown as the result of the address is the answer to it, in whatever
\* order the answers of the earlier addresses come.
ShowsAddress == asked = {} /\ ~error => data.of = address

\* An answer that writes its year into the address takes back none of the choices
\* the address has by then.
AnswerKeepsChoices ==
    [][\A a \in asked : Answered(a) /\ pending' # pending =>
          pending' = [address EXCEPT !.tahun = data'.year]]_vars
===============================================================================
