------------------------- MODULE DataWilayahPageProofs -------------------------
(***************************************************************************)
(* The public page of regional data, for any sets of years, regions and    *)
(* datasets, a history of any length, and any order of the visitor's       *)
(* steps, the office's and the answers.                                    *)
(***************************************************************************)
EXTENDS DataWilayahPage, SequenceTheorems, TLAPS

\* No call given up is kept: there are only those of the effects' last run.
CallsNow == calls \subseteq {SettingsCall} \cup (IF year = None THEN {} ELSE {RowsCall(year)})

\* Rows of another period are on the screen only while a load is awaited, or
\* under the error of the settings, which no answer takes away without a retry.
OldRowsMarked ==
    /\ rows # None => year # None
    /\ rows # None /\ rows # year =>
         loading \/ (error = "settings" /\ SettingsCall \notin calls)

PageInv == TypeOK /\ CallsNow /\ OldRowsMarked /\ AddressNamesPeriod

-----------------------------------------------------------------------------
(* The address and the history.                                              *)

LEMMA AddressFits ==
    ASSUME NEW r \in Region \cup {None}, NEW d \in Dataset \cup {None}, NEW y \in Year \cup {None}
    PROVE  NewAddress(r, d, y) \in Address /\ NewAddress(r, d, y).period = y
  BY DEF NewAddress, Address

LEMMA CompleteFits ==
    ASSUME NEW a \in Address, NEW r \in Region \cup {None}, NEW d \in Dataset,
           NEW y \in Year \cup {None}, a.period \in {None, y}
    PROVE  Complete(a, r, d, y) \in Address /\ Complete(a, r, d, y).period \in {None, y}
  BY AddressFits DEF Complete

\* A new address comes after the one shown, in the place of those that came next.
LEMMA PushFits ==
    ASSUME WilayahAssumption, TypeOK, NEW a \in Address, Push(a)
    PROVE  /\ entries' \in Seq(Address) /\ Len(entries') = at + 1 /\ at' = at + 1
           /\ at' \in 1..Len(entries') /\ Len(entries') <= MaxEntries
           /\ entries'[at'] = a
<1> DEFINE kept == SubSeq(entries, 1, at)
<1>1. at \in 1..Len(entries) /\ at \in Int /\ Len(entries) \in Nat /\ MaxEntries \in Nat
  BY DEF TypeOK, WilayahAssumption
<1>2. \A i \in 1..at : entries[i] \in Address
  BY <1>1 DEF TypeOK
<1>3. kept \in Seq(Address) /\ Len(kept) = at
  BY <1>1, <1>2, SubSeqProperties
<1>4. entries' = Append(kept, a) /\ at' = at + 1 /\ at < MaxEntries
  BY DEF Push
<1> HIDE DEF kept
<1>5. entries' \in Seq(Address) /\ Len(entries') = at + 1 /\ entries'[at + 1] = a
  BY <1>3, <1>4, AppendProperties
<1> QED
  BY <1>1, <1>4, <1>5

\* The address shown is completed in its place, with the period there is.
LEMMA CompletedFits ==
    ASSUME TypeOK, at' \in 1..Len(entries), selected' \in Region \cup {None},
           dataset' \in Dataset, year' \in Year \cup {None},
           entries[at'].period \in {None, year'}, CompleteAddress
    PROVE  /\ entries' \in Seq(Address) /\ Len(entries') = Len(entries)
           /\ entries'[at'].period \in {None, year'}
<1> DEFINE a == Complete(entries[at'], selected', dataset', year')
<1>1. entries[at'] \in Address
  BY DEF TypeOK
<1>2. a \in Address /\ a.period \in {None, year'}
  BY <1>1, CompleteFits
<1>3. entries' = entries \/ entries' = [entries EXCEPT ![at'] = a]
  BY DEF CompleteAddress
<1> HIDE DEF a
<1>4. [entries EXCEPT ![at'] = a] \in Seq(Address)
      /\ Len([entries EXCEPT ![at'] = a]) = Len(entries)
      /\ [entries EXCEPT ![at'] = a][at'] = a
  BY <1>2, ExceptSeq DEF TypeOK
<1> QED
  BY <1>2, <1>3, <1>4 DEF TypeOK

-----------------------------------------------------------------------------
(* The loads.                                                                *)

LEMMA LoadsFit ==
    ASSUME NEW y \in Year \cup {None}
    PROVE  SettingsCall \in Call /\ RowsCall(y) \in Call
  BY DEF SettingsCall, RowsCall, Call

\* The effect leaves the settings' call as it is, and one call for the year.
LEMMA LoadsOfYear ==
    ASSUME WilayahAssumption, NEW y \in Year \cup {None}, NEW pending \in SUBSET calls, CallsNow,
           TypeOK
    PROVE  /\ LoadRows(y, pending) \subseteq Call
           /\ LoadRows(y, pending) \subseteq
                {SettingsCall} \cup (IF y = None THEN {} ELSE {RowsCall(y)})
           /\ SettingsCall \in LoadRows(y, pending) => SettingsCall \in pending
<1>1. RowsCall(y).kind = "rows" /\ SettingsCall.kind = "settings"
  BY DEF RowsCall, SettingsCall
<1>2. \A c \in pending : c = SettingsCall \/ c = RowsCall(year)
  BY DEF CallsNow
<1>3. RowsCall(year).kind = "rows"
  BY DEF RowsCall
<1>4. \A c \in pending : c.kind # "rows" => c = SettingsCall
  BY <1>2, <1>3
<1>5. \A c \in LoadRows(y, pending) :
        (c \in pending /\ c = SettingsCall) \/ (y # None /\ c = RowsCall(y))
  BY <1>4 DEF LoadRows
<1>6. SettingsCall # RowsCall(y)
  BY <1>1
<1> QED
  BY <1>5, <1>6, LoadsFit

\* A change of the year loads its rows, and marks those there are as old.
LEMMA YearLoads ==
    ASSUME WilayahAssumption, TypeOK, CallsNow, year' \in Year \cup {None},
           NEW pending \in SUBSET calls, YearChanged(pending)
    PROVE  /\ calls' \subseteq Call /\ loading' \in BOOLEAN /\ CallsNow'
           /\ loading => loading'
           /\ year' # None /\ year' # year => loading'
           /\ SettingsCall \in calls' => SettingsCall \in pending
<1>1. CASE year' = year
  <2>1. calls' = pending /\ loading' = loading
    BY <1>1 DEF YearChanged
  <2> QED
    BY <1>1, <2>1 DEF TypeOK, CallsNow, RowsCall
<1>2. CASE year' # year
  <2>1. calls' = LoadRows(year', pending)
    BY <1>2 DEF YearChanged
  <2>2. loading' = IF year' # None THEN TRUE ELSE loading
    BY <1>2 DEF YearChanged
  <2>3. CallsNow'
    BY <2>1, LoadsOfYear DEF CallsNow, SettingsCall, RowsCall
  <2> QED
    BY <2>1, <2>2, <2>3, LoadsOfYear DEF TypeOK
<1> QED
  BY <1>1, <1>2
-----------------------------------------------------------------------------
(* Each step.                                                                *)

LEMMA PageInvInit == ASSUME WilayahAssumption, Init PROVE PageInv
<1>1. PICK a \in Address :
        LET d == IF a.dataset = None THEN Registration ELSE a.dataset IN
        /\ year = a.period /\ selected = a.region /\ dataset = d
        /\ entries = <<Complete(a, a.region, d, a.period)>> /\ at = 1
  BY DEF Init
<1>2. /\ a.region \in Region \cup {None} /\ a.dataset \in Dataset \cup {None}
      /\ a.period \in Year \cup {None}
  BY DEF Address
<1>3. dataset \in Dataset /\ year \in Year \cup {None} /\ selected \in Region \cup {None}
  BY <1>1, <1>2 DEF WilayahAssumption
<1> DEFINE first == Complete(a, selected, dataset, year)
<1>4. entries = <<first>> /\ at = 1
  BY <1>1
<1>5. first \in Address /\ first.period \in {None, year}
  BY <1>1, <1>3, CompleteFits
<1> HIDE DEF first
<1>6. /\ entries \in Seq(Address) /\ Len(entries) = 1 /\ entries[at] = first
      /\ at \in 1..Len(entries) /\ Len(entries) <= MaxEntries
  BY <1>4, <1>5 DEF WilayahAssumption
<1>7. calls \subseteq Call /\ CallsNow
  <2>1. calls = {c \in {SettingsCall} : c.kind # "rows"}
                  \cup (IF year = None THEN {} ELSE {RowsCall(year)})
    BY DEF Init, LoadRows
  <2> QED
    BY <2>1, <1>3, LoadsFit DEF CallsNow
<1>8. /\ published \subseteq Year /\ featured \in Year \cup {None} /\ options \subseteq Year
      /\ rows = None /\ loading \in BOOLEAN /\ error \in {None, "settings", "rows"}
  BY DEF Init
<1> QED
  BY <1>3, <1>5, <1>6, <1>7, <1>8 DEF PageInv, TypeOK, OldRowsMarked, AddressNamesPeriod

LEMMA ChangePeriodStep ==
    ASSUME WilayahAssumption, PageInv, NEW y \in Year, ChangePeriod(y) PROVE PageInv'
<1>1. /\ year' = y /\ Push(NewAddress(selected, dataset, y)) /\ YearChanged(calls)
      /\ UNCHANGED <<server, options, rows, error, selected, dataset>> /\ y # year
  BY DEF ChangePeriod
<1>2. NewAddress(selected, dataset, y) \in Address /\ NewAddress(selected, dataset, y).period = y
  BY AddressFits DEF PageInv, TypeOK
<1>3. /\ entries' \in Seq(Address) /\ at' \in 1..Len(entries') /\ Len(entries') <= MaxEntries
      /\ entries'[at'].period = y
  BY <1>1, <1>2, PushFits DEF PageInv
<1>4. calls' \subseteq Call /\ loading' \in BOOLEAN /\ CallsNow' /\ (year' # None => loading')
  BY <1>1, YearLoads DEF PageInv
<1>5. y # None
  BY DEF WilayahAssumption
<1>6. TypeOK'
  BY <1>1, <1>3, <1>4 DEF PageInv, TypeOK, server
<1> QED
  BY <1>1, <1>3, <1>4, <1>5, <1>6 DEF PageInv, OldRowsMarked, AddressNamesPeriod

LEMMA RetryStep == ASSUME WilayahAssumption, PageInv, Retry PROVE PageInv'
<1>1. /\ calls' = LoadRows(year, {SettingsCall}) /\ loading' = (loading \/ year # None)
      /\ UNCHANGED <<server, year, options, rows, error, selected, dataset, url>>
  BY DEF Retry
<1>2. calls' = {c \in {SettingsCall} : c.kind # "rows"}
                 \cup (IF year = None THEN {} ELSE {RowsCall(year)})
  BY <1>1 DEF LoadRows
<1>3. CallsNow'
  BY <1>1, <1>2 DEF CallsNow, SettingsCall, RowsCall
<1>4. calls' \subseteq Call
  BY <1>2, LoadsFit DEF PageInv, TypeOK
<1>5. loading' \in BOOLEAN
  BY <1>1
<1>6. TypeOK'
  BY <1>1, <1>4, <1>5 DEF PageInv, TypeOK, server, url
<1>7. OldRowsMarked'
  BY <1>1 DEF PageInv, OldRowsMarked
<1> QED
  BY <1>1, <1>3, <1>6, <1>7 DEF PageInv, AddressNamesPeriod, url

\* A choice that pushes an address of the period there is.
LEMMA ChoiceStep ==
    ASSUME WilayahAssumption, PageInv, NEW r \in Region \cup {None}, NEW d \in Dataset,
           Push(NewAddress(r, d, year)), selected' = r, dataset' = d,
           UNCHANGED <<server, year, options, rows, loading, error, calls>>
    PROVE  PageInv'
<1>1. NewAddress(r, d, year) \in Address /\ NewAddress(r, d, year).period = year
  BY AddressFits DEF PageInv, TypeOK
<1>2. /\ entries' \in Seq(Address) /\ at' \in 1..Len(entries') /\ Len(entries') <= MaxEntries
      /\ entries'[at'].period = year
  BY <1>1, PushFits DEF PageInv
<1>3. TypeOK'
  BY <1>2 DEF PageInv, TypeOK, server
<1>4. CallsNow' /\ OldRowsMarked'
  BY DEF PageInv, CallsNow, OldRowsMarked, RowsCall, SettingsCall
<1> QED
  BY <1>2, <1>3, <1>4 DEF PageInv, AddressNamesPeriod

LEMMA SelectStep ==
    ASSUME WilayahAssumption, PageInv, NEW r \in Region \cup {None}, SelectRegion(r)
    PROVE  PageInv'
<1>1. /\ Push(NewAddress(r, dataset, year)) /\ selected' = r /\ dataset' = dataset
      /\ UNCHANGED <<server, year, options, rows, loading, error, calls>>
  BY DEF SelectRegion
<1>2. dataset \in Dataset
  BY DEF PageInv, TypeOK
<1> QED
  BY <1>1, <1>2, ChoiceStep

LEMMA TravelStep ==
    ASSUME WilayahAssumption, PageInv, NEW n, Travel(n) PROVE PageInv'
<1>1. /\ n \in 1..Len(entries) /\ FromAddress(entries[n]) /\ at' = n /\ YearChanged(calls)
      /\ UNCHANGED <<server, options, rows, error>> /\ CompleteAddress
  BY DEF Travel
<1>2. entries[n] \in Address
  BY <1>1 DEF PageInv, TypeOK
<1>3. /\ selected' \in Region \cup {None} /\ dataset' \in Dataset
      /\ year' = (IF entries[n].period = None THEN year ELSE entries[n].period)
      /\ entries[n].period \in Year \cup {None}
  BY <1>1, <1>2 DEF FromAddress, Address, WilayahAssumption
<1>4. year' \in Year \cup {None} /\ entries[at'].period \in {None, year'}
  BY <1>1, <1>3 DEF PageInv, TypeOK
<1>5. /\ entries' \in Seq(Address) /\ Len(entries') = Len(entries)
      /\ entries'[at'].period \in {None, year'}
  BY <1>1, <1>3, <1>4, CompletedFits DEF PageInv
<1>6. /\ calls' \subseteq Call /\ loading' \in BOOLEAN /\ CallsNow' /\ (loading => loading')
      /\ (year' # None /\ year' # year => loading')
      /\ (SettingsCall \in calls' => SettingsCall \in calls)
  BY <1>1, <1>4, YearLoads DEF PageInv
<1>7. TypeOK'
  BY <1>1, <1>3, <1>4, <1>5, <1>6 DEF PageInv, TypeOK, server
<1>8. year # None => year' # None
  BY <1>3
<1>9. OldRowsMarked'
  BY <1>1, <1>6, <1>8 DEF PageInv, OldRowsMarked
<1> QED
  BY <1>5, <1>6, <1>7, <1>9 DEF PageInv, AddressNamesPeriod
-----------------------------------------------------------------------------
(* The answers.                                                              *)

\* There is one call of each kind, and the rows' is for the period there is.
LEMMA CallsKnown ==
    ASSUME CallsNow, NEW c \in calls
    PROVE  /\ c.kind = "settings" => c = SettingsCall
           /\ c.kind = "rows" => year # None /\ c.year = year
<1>1. SettingsCall.kind = "settings" /\ RowsCall(year).kind = "rows" /\ RowsCall(year).year = year
  BY DEF SettingsCall, RowsCall
<1>2. c = SettingsCall \/ (year # None /\ c = RowsCall(year))
  BY DEF CallsNow
<1> QED
  BY <1>1, <1>2

LEMMA SettingsArriveStep ==
    ASSUME WilayahAssumption, PageInv, NEW c \in calls, SettingsArrive(c)
    PROVE  PageInv' /\ (year # None => year' = year)
<1>1. /\ c.kind = "settings" /\ options' = published /\ error' = None
      /\ UNCHANGED <<server, rows, selected, dataset, at>>
      /\ YearChanged(calls \ {c}) /\ CompleteAddress
  BY DEF SettingsArrive
<1>2. year' = IF year # None THEN year
              ELSE IF entries[at].period # None THEN entries[at].period ELSE featured
  BY DEF SettingsArrive
<1>3. entries[at].period \in {None, year}
  BY DEF PageInv, AddressNamesPeriod
<1>4. year' \in Year \cup {None} /\ entries[at'].period \in {None, year'}
      /\ (year # None => year' = year)
  BY <1>1, <1>2, <1>3 DEF PageInv, TypeOK
<1>5. at' \in 1..Len(entries) /\ selected' \in Region \cup {None} /\ dataset' \in Dataset
  BY <1>1 DEF PageInv, TypeOK
<1>6. /\ entries' \in Seq(Address) /\ Len(entries') = Len(entries)
      /\ entries'[at'].period \in {None, year'}
  BY <1>1, <1>4, <1>5, CompletedFits DEF PageInv
<1>7. calls \ {c} \in SUBSET calls
  OBVIOUS
<1>8. /\ calls' \subseteq Call /\ loading' \in BOOLEAN /\ CallsNow' /\ (loading => loading')
      /\ (year' # None /\ year' # year => loading')
  BY <1>1, <1>4, <1>7, YearLoads DEF PageInv
<1>9. TypeOK'
  BY <1>1, <1>4, <1>5, <1>6, <1>8 DEF PageInv, TypeOK, server
\* The error of the settings cannot be what marked the old rows: its call is gone.
<1>10. SettingsCall \in calls
  BY <1>1, CallsKnown DEF PageInv
<1>11. OldRowsMarked'
  BY <1>1, <1>4, <1>8, <1>10 DEF PageInv, OldRowsMarked
<1> QED
  BY <1>4, <1>6, <1>8, <1>9, <1>11 DEF PageInv, AddressNamesPeriod

LEMMA SettingsFailStep ==
    ASSUME WilayahAssumption, PageInv, NEW c \in calls, SettingsFail(c)
    PROVE  PageInv' /\ year' = year
<1>1. /\ c.kind = "settings" /\ loading' = FALSE /\ error' = "settings" /\ calls' = calls \ {c}
      /\ UNCHANGED <<server, year, options, rows, selected, dataset, url>>
  BY DEF SettingsFail
<1>2. SettingsCall \notin calls'
  BY <1>1, CallsKnown DEF PageInv
<1>3. TypeOK'
  BY <1>1 DEF PageInv, TypeOK, server, url
<1>4. CallsNow' /\ OldRowsMarked'
  BY <1>1, <1>2 DEF PageInv, CallsNow, OldRowsMarked, RowsCall, SettingsCall
<1> QED
  BY <1>1, <1>3, <1>4 DEF PageInv, AddressNamesPeriod, url

LEMMA RowsArriveStep ==
    ASSUME WilayahAssumption, PageInv, NEW c \in calls, RowsArrive(c)
    PROVE  PageInv' /\ year' = year
<1>1. /\ c.kind = "rows" /\ c.year \in published /\ rows' = c.year /\ year' = c.year
      /\ selected' = (IF selected \in RegionsOf[c.year] THEN selected ELSE None)
      /\ loading' = FALSE /\ error' = None /\ calls' = calls \ {c}
      /\ UNCHANGED <<server, options, dataset, at>> /\ CompleteAddress
  BY DEF RowsArrive
<1>2. year # None /\ c.year = year /\ year' = year
  BY <1>1, CallsKnown DEF PageInv
<1>3. /\ at' \in 1..Len(entries) /\ selected' \in Region \cup {None} /\ dataset' \in Dataset
      /\ year' \in Year \cup {None} /\ entries[at'].period \in {None, year'}
  BY <1>1, <1>2 DEF PageInv, TypeOK, AddressNamesPeriod
<1>4. /\ entries' \in Seq(Address) /\ Len(entries') = Len(entries)
      /\ entries'[at'].period \in {None, year'}
  BY <1>1, <1>3, CompletedFits DEF PageInv
<1>5. TypeOK'
  BY <1>1, <1>2, <1>3, <1>4 DEF PageInv, TypeOK, server
<1>6. CallsNow' /\ OldRowsMarked'
  BY <1>1, <1>2 DEF PageInv, CallsNow, OldRowsMarked, RowsCall, SettingsCall
<1> QED
  BY <1>2, <1>4, <1>5, <1>6 DEF PageInv, AddressNamesPeriod

LEMMA RowsFailStep ==
    ASSUME WilayahAssumption, PageInv, NEW c \in calls, RowsFail(c)
    PROVE  PageInv' /\ year' = year
<1>1. /\ rows' = None /\ error' = "rows" /\ loading' = FALSE /\ calls' = calls \ {c}
      /\ UNCHANGED <<server, year, options, selected, dataset, url>>
  BY DEF RowsFail
<1>2. TypeOK'
  BY <1>1 DEF PageInv, TypeOK, server, url
<1>3. CallsNow' /\ OldRowsMarked'
  BY <1>1 DEF PageInv, CallsNow, OldRowsMarked, RowsCall, SettingsCall
<1> QED
  BY <1>1, <1>2, <1>3 DEF PageInv, AddressNamesPeriod, url

\* No answer takes back a period there is.
LEMMA AnswerStep ==
    ASSUME WilayahAssumption, PageInv, NEW c \in calls, Answer(c)
    PROVE  PageInv' /\ (year # None => year' = year)
  BY SettingsArriveStep, SettingsFailStep, RowsArriveStep, RowsFailStep DEF Answer

LEMMA PublishStep ==
    ASSUME WilayahAssumption, PageInv, NEW years \in SUBSET Year, NEW y \in Year,
           Publish(years, y)
    PROVE  PageInv'
<1>1. published' = years /\ featured' = y /\ UNCHANGED <<view, url, calls>>
  BY DEF Publish
<1>2. TypeOK'
  BY <1>1 DEF PageInv, TypeOK, view, url
<1> QED
  BY <1>1, <1>2 DEF PageInv, CallsNow, OldRowsMarked, AddressNamesPeriod, RowsCall,
     SettingsCall, view, url

LEMMA PageInvStep == ASSUME WilayahAssumption, PageInv, [Next]_vars PROVE PageInv'
<1>1. ASSUME NEW y \in Year, ChangePeriod(y) PROVE PageInv'
  BY <1>1, ChangePeriodStep
<1>2. CASE Retry
  BY <1>2, RetryStep
<1>3. ASSUME NEW r \in Region, ClickShape(r) \/ ClickListed(r) \/ ClickHit(r) \/ ClickPanel(r)
      PROVE  PageInv'
  BY <1>3, SelectStep DEF ClickShape, ClickListed, ClickHit, ClickPanel
<1>4. CASE ResetMap
  BY <1>4, SelectStep DEF ResetMap
<1>5. ASSUME NEW d \in Dataset, ChangeTab(d) PROVE PageInv'
  <2>1. /\ Push(NewAddress(selected, d, year)) /\ selected' = selected /\ dataset' = d
        /\ UNCHANGED <<server, year, options, rows, loading, error, calls>>
    BY <1>5 DEF ChangeTab
  <2>2. selected \in Region \cup {None}
    BY DEF PageInv, TypeOK
  <2> QED
    BY <2>1, <2>2, ChoiceStep
<1>6. ASSUME NEW n \in {at - 1, at + 1}, Travel(n) PROVE PageInv'
  BY <1>6, TravelStep
<1>7. ASSUME NEW c \in calls, Answer(c) PROVE PageInv'
  BY <1>7, AnswerStep
<1>8. ASSUME NEW years \in SUBSET Year, NEW y \in Year, Publish(years, y) PROVE PageInv'
  BY <1>8, PublishStep
<1>9. CASE UNCHANGED vars
  BY <1>9 DEF PageInv, TypeOK, CallsNow, OldRowsMarked, AddressNamesPeriod, RowsCall,
     SettingsCall, vars, server, view, url
<1> QED
  BY <1>1, <1>2, <1>3, <1>4, <1>5, <1>6, <1>7, <1>8, <1>9 DEF Next

-----------------------------------------------------------------------------
\* The inductive invariant of the page: its types, the calls in flight, how rows
\* of another period are marked, and the address.
THEOREM PageInvHolds == ASSUME WilayahAssumption PROVE Spec => []PageInv
<1>1. Init => PageInv
  BY PageInvInit
<1>2. PageInv /\ [Next]_vars => PageInv'
  BY PageInvStep
<1> QED
  BY <1>1, <1>2, PTL DEF Spec

\* Every variable of the page keeps its type.
THEOREM WilayahTypeCorrect == ASSUME WilayahAssumption PROVE Spec => []TypeOK
<1>1. PageInv => TypeOK
  BY DEF PageInv
<1> QED
  BY <1>1, PageInvHolds, PTL

\* The rows shown as final are those of the period in the select (loadDataWilayah
\* and its effect's mounted flag), in whatever order the answers come.
THEOREM RowsFollowPeriod == ASSUME WilayahAssumption PROVE Spec => []RowsOfPeriod
<1>1. PageInv => RowsOfPeriod
  BY DEF PageInv, OldRowsMarked, RowsOfPeriod, WilayahAssumption
<1> QED
  BY <1>1, PageInvHolds, PTL

\* The address never names another period than the one shown (updateUrlState,
\* applyUrlState), along any history of addresses.
THEOREM AddressFollowsPeriod == ASSUME WilayahAssumption PROVE Spec => []AddressNamesPeriod
<1>1. PageInv => AddressNamesPeriod
  BY DEF PageInv
<1> QED
  BY <1>1, PageInvHolds, PTL

\* No answer, of the settings or of the rows, takes back the period chosen while
\* it was on its way.
THEOREM AnswersKeepPeriod == ASSUME WilayahAssumption PROVE Spec => PeriodKept
<1>1. PageInv /\ [Next]_vars =>
        [(\E c \in calls : Answer(c)) /\ year # None => year' = year]_vars
  BY AnswerStep
<1> QED
  BY <1>1, PageInvHolds, PTL DEF Spec, PeriodKept
===============================================================================
