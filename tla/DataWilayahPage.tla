---------------------------- MODULE DataWilayahPage ----------------------------
(***************************************************************************)
(* The public page of regional data.  Two effects load it: the settings    *)
(* (which years are published) and the rows of the year shown; "Ulangi"    *)
(* runs both again, a change of year only the second.  An effect that is   *)
(* run again gives up the call it had in flight.  The address names the    *)
(* region, the dataset and the period, and the browser goes back and forth *)
(* between the addresses the page has pushed.                              *)
(***************************************************************************)
EXTENDS Naturals, Sequences, FiniteSets

CONSTANTS
    Year,
    RegionsOf,     \* the regions that have data, by year
    Dataset,       \* the tabs of a region; isRegionTab
    Registration,  \* the tab shown first
    MaxEntries,    \* bound: addresses of this page in the browser's history
    None

Region == UNION {RegionsOf[y] : y \in Year}

ASSUME WilayahAssumption ==
    /\ RegionsOf \in [Year -> SUBSET Region] /\ Registration \in Dataset
    /\ MaxEntries \in Nat \ {0} /\ None \notin Year /\ None \notin Region /\ None \notin Dataset
    /\ None \notin {"settings", "rows"}

VARIABLES
    published,            \* the published years, the featured one, from the server
    featured,
    year, options,        \* tahunAnggaran and tahunAnggaranOptions
    rows,                 \* the year whose regions are shown, None for none
    loading, error,       \* dataLoading and dataError (what failed)
    selected, dataset,    \* selectedRegionId and activeTab
    entries, at,          \* the addresses, and which one is shown
    calls                 \* the loads in flight

server == <<published, featured>>
view   == <<year, options, rows, loading, error, selected, dataset>>
url    == <<entries, at>>
vars   == <<server, view, url, calls>>

\* The address's query.  Any region may be named; a dataset that is no tab and
\* none at all come to the same.
Address == [region : Region \cup {None}, dataset : Dataset \cup {None}, period : Year \cup {None}]

\* A load: its effect gives it up when it runs again (mounted).
Call == [kind : {"settings", "rows"}, year : Year \cup {None}, mounted : BOOLEAN]

TypeOK ==
    /\ published \subseteq Year /\ featured \in Year \cup {None}
    /\ year \in Year \cup {None} /\ options \subseteq Year /\ rows \in Year \cup {None}
    /\ loading \in BOOLEAN /\ error \in {None, "settings", "rows"}
    /\ selected \in Region \cup {None} /\ dataset \in Dataset
    /\ entries \in Seq(Address) /\ at \in 1..Len(entries) /\ Len(entries) <= MaxEntries
    /\ calls \subseteq Call

Shown == IF rows = None THEN {} ELSE RegionsOf[rows]
\* selectedRegion: an id without a row shows the summary of the province.
Chosen == IF selected \in Shown THEN selected ELSE None

SettingsCall == [kind |-> "settings", year |-> None, mounted |-> TRUE]
RowsCall(y)  == [kind |-> "rows", year |-> y, mounted |-> TRUE]

\* The effect on [tahunAnggaran, reloadKey]: no year, no load.  A load given up
\* can do nothing any more, and is forgotten.
MutLoadRows(y, pending) == IF y = None THEN pending ELSE pending \cup {RowsCall(y)}
LoadRows(y, pending) ==
    {c \in pending : c.kind # "rows"} \cup (IF y = None THEN {} ELSE {RowsCall(y)})

\* applyUrlState: a period the address does not name keeps the year there is.
MutFromAddress(a) ==
    /\ selected' = a.region
    /\ dataset' = IF a.dataset = None THEN Registration ELSE a.dataset
    /\ year' = year
FromAddress(a) ==
    /\ selected' = a.region
    /\ dataset' = IF a.dataset = None THEN Registration ELSE a.dataset
    /\ year' = IF a.period = None THEN year ELSE a.period

\* updateUrlState, pushing or replacing; the effect that completes the address
\* replaces it, when the year, the region or the tab changes and there is a year.
NewAddress(r, d, y) == [region |-> r, dataset |-> d, period |-> y]
Complete(a, r, d, y) ==
    IF y # None /\ (a.period = None \/ a.dataset = None) THEN NewAddress(r, d, y) ELSE a
Push(a) ==
    /\ at < MaxEntries
    /\ entries' = Append(SubSeq(entries, 1, at), a)
    /\ at' = at + 1
CompleteAddress ==
    entries' = IF <<year', selected', dataset'>> = <<year, selected, dataset>> THEN entries
               ELSE [entries EXCEPT ![at'] = Complete(@, selected', dataset', year')]

\* The year changed: the effect on it loads its rows.
MutYearChanged(pending) ==
    /\ calls' = IF year' # year THEN LoadRows(year', pending) ELSE pending
    /\ loading' = loading
YearChanged(pending) ==
    /\ calls' = IF year' # year THEN LoadRows(year', pending) ELSE pending
    /\ loading' = IF year' # year /\ year' # None THEN TRUE ELSE loading

Init ==
    /\ published \in SUBSET Year
    /\ featured \in IF published = {} THEN {None} ELSE published
    /\ \E a \in Address :
         LET d == IF a.dataset = None THEN Registration ELSE a.dataset IN
         /\ year = a.period /\ selected = a.region /\ dataset = d
         /\ entries = <<Complete(a, a.region, d, a.period)>> /\ at = 1
    /\ options = {} /\ rows = None /\ loading = TRUE /\ error = None
    /\ calls = LoadRows(year, {SettingsCall})

-----------------------------------------------------------------------------
(* What the visitor does.                                                    *)

\* The header's select: handlePeriodChange.
ChangePeriod(y) ==
    /\ y \in options /\ y # year
    /\ year' = y
    /\ Push(NewAddress(selected, dataset, y))
    /\ YearChanged(calls)
    /\ UNCHANGED <<server, options, rows, error, selected, dataset>>

\* "Ulangi", shown with an error: reloadKey runs both effects again.
Retry ==
    /\ error # None
    /\ calls' = LoadRows(year, {SettingsCall})
    /\ loading' = (loading \/ year # None)
    /\ UNCHANGED <<server, year, options, rows, error, selected, dataset, url>>

\* handleRegionSelect.
SelectRegion(r) ==
    /\ selected' = r
    /\ Push(NewAddress(r, dataset, year))
    /\ UNCHANGED <<server, year, options, rows, loading, error, dataset, calls>>

\* A shape of the map is drawn for a region that has a row; the list under it
\* and the hits of the search name the same regions, the panel of the empty
\* selection too, while it is shown.  resetMap clears the selection.
ClickShape(r)  == r \in Shown /\ SelectRegion(r)
ClickListed(r) == r \in Shown /\ SelectRegion(r)
ClickHit(r)    == r \in Shown /\ SelectRegion(r)
ClickPanel(r)  == r \in Shown /\ Chosen = None /\ SelectRegion(r)
ResetMap       == SelectRegion(None)

\* handleTabChange, from the tabs of the region's summary.
ChangeTab(d) ==
    /\ Chosen # None /\ dataset' = d
    /\ Push(NewAddress(selected, d, year))
    /\ UNCHANGED <<server, year, options, rows, loading, error, selected, calls>>

\* The browser's back and forward: popstate.
Travel(n) ==
    /\ n \in {at - 1, at + 1} /\ n \in 1..Len(entries)
    /\ FromAddress(entries[n])
    /\ at' = n
    /\ YearChanged(calls)
    /\ UNCHANGED <<server, options, rows, error>>
    /\ CompleteAddress

-----------------------------------------------------------------------------
(* The answers.                                                              *)

\* loadSettings answered: a year already there, else the address's, else the
\* featured one (which is published).
SettingsArrive(c) ==
    /\ c.kind = "settings" /\ c.mounted
    /\ options' = published
    /\ year' = IF year # None THEN year
               ELSE IF entries[at].period # None THEN entries[at].period
               ELSE featured
    /\ error' = None
    /\ UNCHANGED <<server, rows, selected, dataset, at>>
    /\ YearChanged(calls \ {c})
    /\ CompleteAddress

SettingsFail(c) ==
    /\ c.kind = "settings" /\ c.mounted
    /\ loading' = FALSE /\ error' = "settings"
    /\ calls' = calls \ {c}
    /\ UNCHANGED <<server, year, options, rows, selected, dataset, url>>

\* loadDataWilayah answered: a region without a row is not selected any more.
RowsArrive(c) ==
    /\ c.kind = "rows" /\ c.mounted /\ c.year \in published
    /\ rows' = c.year
    /\ selected' = IF selected \in RegionsOf[c.year] THEN selected ELSE None
    /\ year' = c.year
    /\ loading' = FALSE /\ error' = None
    /\ calls' = calls \ {c}
    /\ UNCHANGED <<server, options, dataset, at>>
    /\ CompleteAddress

\* It fails, or the server does not publish that year.
MutRowsFail(c) ==
    /\ c.kind = "rows" /\ c.mounted
    /\ rows' = None /\ error' = "rows"
    /\ calls' = calls \ {c}
    /\ UNCHANGED <<server, year, options, loading, selected, dataset, url>>
RowsFail(c) ==
    /\ c.kind = "rows" /\ c.mounted
    /\ rows' = None /\ error' = "rows" /\ loading' = FALSE
    /\ calls' = calls \ {c}
    /\ UNCHANGED <<server, year, options, selected, dataset, url>>

\* updateAdminWebsiteSettings, by an administrator: one year at least.
Publish(years, y) ==
    /\ y \in years
    /\ published' = years /\ featured' = y
    /\ UNCHANGED <<view, url, calls>>

Answer(c) == SettingsArrive(c) \/ SettingsFail(c) \/ RowsArrive(c) \/ RowsFail(c)

Next ==
    \/ \E y \in Year : ChangePeriod(y)
    \/ Retry
    \/ \E r \in Region : ClickShape(r) \/ ClickListed(r) \/ ClickHit(r) \/ ClickPanel(r)
    \/ ResetMap
    \/ \E d \in Dataset : ChangeTab(d)
    \/ \E n \in {at - 1, at + 1} : Travel(n)
    \/ \E c \in calls : Answer(c)
    \/ \E years \in SUBSET Year, y \in Year : Publish(years, y)

\* Every call is answered, or fails.
Fairness == \A kind \in {"settings", "rows"} :
    WF_vars(\E c \in calls : c.kind = kind /\ Answer(c))

Spec == Init /\ [][Next]_vars /\ Fairness

-----------------------------------------------------------------------------
\* The rows shown as final are those of the period in the select, in whatever
\* order the answers of the periods chosen meanwhile come.
RowsOfPeriod == ~loading /\ error = None /\ rows # None => rows = year

\* The address never names another period than the one shown: it can be shared,
\* reloaded, and gone back to.
AddressNamesPeriod == entries[at].period \in {None, year}

\* An answer never takes back the period that was chosen while it was on its way.
PeriodKept == [][(\E c \in calls : Answer(c)) /\ year # None => year' = year]_vars

\* The page does not wait for ever.  (It does when it was opened while no year
\* was published: then there is no year, and no load that could end the wait.)
Awaited  == year # None \/ (published # {} /\ SettingsCall \in calls)
WaitEnds == (loading /\ Awaited) ~> ~loading
===============================================================================
