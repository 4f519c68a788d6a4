------------------------- MODULE PublicPagesProofs ---------------------------
(***************************************************************************)
(* The public list of Otsus labels, for any sets of years, searches and    *)
(* filters, any number of pages, and any order of the visitor's choices,   *)
(* the navigations, the timer, the office's changes and the answers; and   *)
(* the public pages together, one mounted at a time.                       *)
(***************************************************************************)
EXTENDS MCPublic, DataWilayahPageProofs, FiniteSetTheorems

\* Only the load of the address there is can still be answered.
AskedNow == asked \subseteq {address}

\* A field the address does not say is followed by its timer or by a navigation
\* that moves; the one exception is recorded.
FieldFollowed ==
    ~armed /\ ~cancelled /\ field # address.search => pending # None /\ pending # address

ListInv == Otsus!TypeOK /\ AskedNow /\ Otsus!ShowsAddress /\ FieldFollowed

-----------------------------------------------------------------------------
(* The years.                                                                *)

\* The years published have a last one: of the sets of later years, an empty one
\* is least.
LEMMA LastYear ==
    ASSUME Otsus!OtsusPageAssumption, NEW years \in SUBSET Year, years # {}
    PROVE  \E y \in years : \A z \in years : z <= y
<1> DEFINE later(y) == {z \in years : z > y}
           laters == {later(y) : y \in years}
<1>1. IsFiniteSet(years) /\ years \subseteq Nat
  BY ZenonT(40), FS_Subset DEF Otsus!OtsusPageAssumption, Otsus!IsFiniteSet, IsFiniteSet
<1>2. laters \subseteq FiniteSubsetsOf(years)
  <2>1. ASSUME NEW y \in years PROVE later(y) \in FiniteSubsetsOf(years)
    <3>1. later(y) \in SUBSET years
      OBVIOUS
    <3> QED
      BY <1>1, <3>1, FS_Subset DEF FiniteSubsetsOf
  <2> QED
    BY <2>1
<1>3. PICK s \in laters : \A t \in laters : ~(<<t, s>> \in StrictSubsetOrdering(years))
  <2>1. laters # {}
    OBVIOUS
  <2> HIDE DEF laters
  <2> QED
    BY <1>2, <2>1, FS_StrictSubsetOrderingWellFounded, WFMin
<1>4. PICK y \in years : s = later(y)
  OBVIOUS
<1>5. ASSUME NEW z \in years, z > y PROVE FALSE
  <2>1. later(z) \subseteq later(y) /\ later(z) # later(y)
    <3>1. \A x \in years : x \in Nat
      BY <1>1
    <3>2. \A x \in years : x > z => x > y
      BY <3>1, <1>5
    <3>3. z \in later(y) /\ z \notin later(z)
      BY <3>1, <1>5
    <3> QED
      BY <3>2, <3>3
  <2>2. <<later(z), s>> \in StrictSubsetOrdering(years)
    BY <1>4, <2>1 DEF StrictSubsetOrdering
  <2> QED
    BY <1>3, <2>2
<1> QED
  BY <1>1, <1>5

-----------------------------------------------------------------------------
(* The address and its answers.                                              *)

\* An answer is to the address it was asked for, with a year and a page there are.
LEMMA AnswersFit ==
    ASSUME Otsus!OtsusPageAssumption, published \in SUBSET Year, NEW a \in Otsus!Address, NEW d \in Otsus!Answers(a)
    PROVE  d \in Otsus!Shown /\ d.of = a
<1> DEFINE y == IF a.tahun # None \/ published = {} THEN a.tahun
                ELSE CHOOSE x \in published : \A z \in published : z <= x
<1>1. PICK p \in 1..a.page : d = [of |-> a, years |-> published, page |-> p, year |-> y]
  BY DEF Otsus!Answers
<1>2. a.page \in 1..MaxPage /\ a.tahun \in Year \cup {None} /\ MaxPage \in Nat
  BY DEF Otsus!Address, Otsus!Page, Otsus!OtsusPageAssumption
<1>3. p \in Otsus!Page
  BY <1>2 DEF Otsus!Page
<1>4. y \in Year \cup {None}
  <2>1. CASE a.tahun # None \/ published = {}
    BY <2>1, <1>2
  <2>2. CASE a.tahun = None /\ published # {}
    <3>1. \E x \in published : \A z \in published : z <= x
      BY <2>2, LastYear
    <3>2. (CHOOSE x \in published : \A z \in published : z <= x) \in published
      BY <3>1
    <3> QED
      BY <2>2, <3>2
  <2> QED
    BY <2>1, <2>2
<1> HIDE DEF y
<1> QED
  BY <1>1, <1>3, <1>4 DEF Otsus!Shown

\* The addresses the choices lead to.
LEMMA ChoicesFit ==
    ASSUME Otsus!OtsusPageAssumption, Otsus!TypeOK
    PROVE  /\ \A x \in Search : [address EXCEPT !.search = x, !.page = 1] \in Otsus!Address
           /\ \A x \in Year \cup {None} : /\ [address EXCEPT !.tahun = x, !.page = 1] \in Otsus!Address
                                          /\ [address EXCEPT !.tahun = x] \in Otsus!Address
           /\ \A x \in Filter \cup {None} : [address EXCEPT !.filter = x, !.page = 1] \in Otsus!Address
           /\ \A x \in Otsus!Page : [address EXCEPT !.page = x] \in Otsus!Address
           /\ [address EXCEPT !.search = "", !.filter = None, !.page = 1] \in Otsus!Address
<1>1. 1 \in Otsus!Page /\ "" \in Search
  <2>1. MaxPage \in Nat /\ MaxPage # 0
    BY DEF Otsus!OtsusPageAssumption
  <2>2. 1 <= MaxPage
    BY <2>1
  <2>3. 1 \in Otsus!Page
    BY <2>1, <2>2 DEF Otsus!Page
  <2> QED
    BY <2>3 DEF Otsus!OtsusPageAssumption
<1>2. address \in Otsus!Address
  BY DEF Otsus!TypeOK
<1> QED
  BY <1>1, <1>2 DEF Otsus!Address

\* A new search is another address.
LEMMA SearchDiffers ==
    ASSUME Otsus!OtsusPageAssumption, Otsus!TypeOK, NEW x, x # address.search
    PROVE  /\ [address EXCEPT !.search = x, !.page = 1] # address
           /\ [address EXCEPT !.search = x, !.filter = None, !.page = 1] # address
<1>1. address \in Otsus!Address
  BY DEF Otsus!TypeOK
<1>2. [address EXCEPT !.search = x, !.page = 1].search = x
  BY <1>1 DEF Otsus!Address
<1>3. [address EXCEPT !.search = x, !.filter = None, !.page = 1].search = x
  BY <1>1 DEF Otsus!Address
<1> QED
  BY <1>2, <1>3

LEMMA InAddress == ASSUME Otsus!OtsusPageAssumption, NEW a \in Otsus!Address PROVE a # None
  BY DEF Otsus!OtsusPageAssumption

\* A navigation in the place of the one under way: the field is still followed.
LEMMA NavigationStep ==
    ASSUME Otsus!OtsusPageAssumption, ListInv, NEW a \in Otsus!Address, Otsus!UpdateQuery(a), Otsus!Unmoved
    PROVE  ListInv'
<1>1. pending' = a /\ cancelled' = (a = address /\ (cancelled \/ pending # None))
  BY DEF Otsus!UpdateQuery
<1>2. a # None
  BY InAddress
<1>3. Otsus!TypeOK'
  BY <1>1 DEF ListInv, Otsus!TypeOK, Otsus!Unmoved
<1>4. FieldFollowed'
  BY <1>1, <1>2 DEF ListInv, FieldFollowed, Otsus!Unmoved
<1> QED
  BY <1>3, <1>4 DEF ListInv, AskedNow, Otsus!ShowsAddress, Otsus!Unmoved

-----------------------------------------------------------------------------
(* Each step.                                                                *)

LEMMA ListInvInit == ASSUME Otsus!OtsusPageAssumption, Otsus!Init PROVE ListInv
<1>1. /\ published \in SUBSET Year /\ address \in Otsus!Address /\ pending = None
      /\ field = address.search /\ armed = FALSE /\ loading = FALSE /\ asked = {address}
      /\ cancelled = FALSE /\ failed \in BOOLEAN
  BY DEF Otsus!Init
<1>2. field \in Search
  BY <1>1 DEF Otsus!Address
<1>3. data \in Otsus!Shown \cup {None}
  <2>1. CASE data = None
    BY <2>1
  <2>2. CASE data \in Otsus!Answers(address)
    BY <2>2, <1>1, AnswersFit
  <2> QED
    BY <2>1, <2>2 DEF Otsus!Init
<1> QED
  BY <1>1, <1>2, <1>3 DEF ListInv, Otsus!TypeOK, AskedNow, Otsus!ShowsAddress, FieldFollowed

LEMMA TypeStep ==
    ASSUME Otsus!OtsusPageAssumption, ListInv, NEW s \in Search, Otsus!Type(s) PROVE ListInv'
<1>1. /\ field' = s /\ s # field /\ cancelled' = FALSE
      /\ UNCHANGED <<published, address, pending, data, loading, failed, asked>>
  BY DEF Otsus!Type
<1>2. armed' = (field' # address'.search)
  BY <1>1 DEF Otsus!Type, Otsus!Rearm
<1> QED
  BY <1>1, <1>2 DEF ListInv, Otsus!TypeOK, AskedNow, Otsus!ShowsAddress, FieldFollowed

LEMMA TimerStep == ASSUME Otsus!OtsusPageAssumption, ListInv, Otsus!TimerFires PROVE ListInv'
<1> DEFINE a == [address EXCEPT !.search = field, !.page = 1]
<1>1. /\ armed' = FALSE /\ Otsus!UpdateQuery(a)
      /\ UNCHANGED <<published, address, field, data, loading, failed, asked>>
  BY DEF Otsus!TimerFires
<1>2. a \in Otsus!Address /\ (field # address.search => a # address)
  BY ChoicesFit, SearchDiffers DEF ListInv, Otsus!TypeOK
<1> HIDE DEF a
<1>3. a # None
  BY <1>2, InAddress
<1>4. pending' = a /\ cancelled' \in BOOLEAN
  BY <1>1 DEF Otsus!UpdateQuery
<1> QED
  BY <1>1, <1>2, <1>3, <1>4 DEF ListInv, Otsus!TypeOK, AskedNow, Otsus!ShowsAddress, FieldFollowed

LEMMA ResetStep == ASSUME Otsus!OtsusPageAssumption, ListInv, Otsus!Reset PROVE ListInv'
<1> DEFINE a == [address EXCEPT !.search = "", !.filter = None, !.page = 1]
<1>1. /\ Otsus!UpdateQuery(a) /\ field' = "" /\ Otsus!Rearm
      /\ UNCHANGED <<published, address, data, loading, failed, asked>>
  BY DEF Otsus!Reset
<1>2. a \in Otsus!Address /\ ("" # address.search => a # address)
  BY ChoicesFit, SearchDiffers DEF ListInv, Otsus!TypeOK
<1> HIDE DEF a
<1>3. a # None /\ "" \in Search
  BY <1>2, InAddress DEF Otsus!OtsusPageAssumption
<1>4. pending' = a /\ cancelled' \in BOOLEAN
  BY <1>1 DEF Otsus!UpdateQuery
<1>5. armed' \in BOOLEAN /\ (field' # field => armed' = (field' # address'.search))
  BY <1>1 DEF ListInv, Otsus!TypeOK, Otsus!Rearm
<1>6. FieldFollowed'
  BY <1>1, <1>2, <1>3, <1>4, <1>5 DEF FieldFollowed
<1> QED
  BY <1>1, <1>2, <1>3, <1>4, <1>5, <1>6 DEF ListInv, Otsus!TypeOK, AskedNow, Otsus!ShowsAddress

LEMMA LoadAgainStep == ASSUME Otsus!OtsusPageAssumption, ListInv, Otsus!Retry PROVE ListInv'
<1>1. /\ loading' = TRUE /\ failed' = FALSE /\ asked' = {address}
      /\ UNCHANGED <<published, address, pending, field, armed, data, cancelled>>
  BY DEF Otsus!Retry, Otsus!Fetch
<1> QED
  BY <1>1 DEF ListInv, Otsus!TypeOK, AskedNow, Otsus!ShowsAddress, FieldFollowed

LEMMA ArriveStep == ASSUME Otsus!OtsusPageAssumption, ListInv, Otsus!Arrive PROVE ListInv'
<1>1. /\ pending # None /\ address' = pending /\ pending' = None /\ Otsus!Rearm
      /\ UNCHANGED <<published, field, data, loading, failed>>
  BY DEF Otsus!Arrive
<1>2. pending \in Otsus!Address
  BY <1>1 DEF ListInv, Otsus!TypeOK
<1>3. CASE pending = address
  <2>1. asked' = asked /\ cancelled' = cancelled /\ address' = address
    BY <1>1, <1>3 DEF Otsus!Arrive
  <2>2. armed' = armed
    BY <1>1, <2>1 DEF Otsus!Rearm
  <2> QED
    BY <1>1, <1>3, <2>1, <2>2 DEF ListInv, Otsus!TypeOK, AskedNow, Otsus!ShowsAddress, FieldFollowed
<1>4. CASE pending # address
  <2>1. asked' = {pending} /\ cancelled' = FALSE
    BY <1>4 DEF Otsus!Arrive, Otsus!Fetch
  <2>2. armed' = (field' # address'.search)
    BY <1>1, <1>4 DEF Otsus!Rearm
  <2> QED
    BY <1>1, <1>2, <2>1, <2>2 DEF ListInv, Otsus!TypeOK, AskedNow, Otsus!ShowsAddress, FieldFollowed
<1> QED
  BY <1>3, <1>4

\* An answer is to the address there is, and moves it by its year alone.
LEMMA AnsweredStep ==
    ASSUME Otsus!OtsusPageAssumption, ListInv, NEW a \in asked, Otsus!Answered(a)
    PROVE  /\ ListInv'
           /\ pending' # pending => pending' = [address EXCEPT !.tahun = data'.year]
<1>1. a = address /\ a \in Otsus!Address
  BY DEF ListInv, Otsus!TypeOK, AskedNow
<1>2. /\ data' \in Otsus!Answers(a) /\ failed' = FALSE /\ loading' = FALSE /\ asked' = asked \ {a}
      /\ UNCHANGED <<published, address, field, armed>>
  BY DEF Otsus!Answered
<1>3. data' \in Otsus!Shown /\ data'.of = address
  BY <1>1, <1>2, AnswersFit DEF ListInv, Otsus!TypeOK
<1>4. Otsus!ShowsAddress' /\ AskedNow'
  BY <1>2, <1>3 DEF Otsus!ShowsAddress, AskedNow, ListInv
<1>5. CASE UNCHANGED <<pending, cancelled>>
  BY <1>2, <1>3, <1>4, <1>5 DEF ListInv, Otsus!TypeOK, FieldFollowed
<1>6. CASE Otsus!UpdateQuery([a EXCEPT !.tahun = data'.year])
  <2> DEFINE b == [address EXCEPT !.tahun = data'.year]
  <2>1. data'.year \in Year \cup {None}
    BY <1>3 DEF Otsus!Shown
  <2>2. b \in Otsus!Address
    BY <2>1, ChoicesFit DEF ListInv
  <2>3. pending' = b /\ cancelled' = (b = address /\ (cancelled \/ pending # None))
    BY <1>1, <1>6 DEF Otsus!UpdateQuery
  <2> HIDE DEF b
  <2>4. b # None
    BY <2>2, InAddress
  <2>5. FieldFollowed'
    BY <1>2, <2>3, <2>4 DEF ListInv, FieldFollowed
  <2>6. Otsus!TypeOK'
    BY <1>2, <1>3, <2>2, <2>3 DEF ListInv, Otsus!TypeOK
  <2> QED
    BY <1>4, <2>3, <2>5, <2>6 DEF ListInv, b
<1> QED
  BY <1>5, <1>6 DEF Otsus!Answered

LEMMA FailedStep ==
    ASSUME Otsus!OtsusPageAssumption, ListInv, NEW a \in asked, Otsus!Failed(a) PROVE ListInv'
<1>1. /\ failed' = TRUE /\ loading' = FALSE /\ asked' = asked \ {a}
      /\ UNCHANGED <<published, address, pending, field, armed, data, cancelled>>
  BY DEF Otsus!Failed
<1> QED
  BY <1>1 DEF ListInv, Otsus!TypeOK, AskedNow, Otsus!ShowsAddress, FieldFollowed

LEMMA RepublishStep ==
    ASSUME Otsus!OtsusPageAssumption, ListInv, NEW years \in SUBSET Year, Otsus!Republish(years)
    PROVE  ListInv'
<1>1. /\ published' = years
      /\ UNCHANGED <<address, pending, field, armed, data, loading, failed, asked, cancelled>>
  BY DEF Otsus!Republish
<1> QED
  BY <1>1 DEF ListInv, Otsus!TypeOK, AskedNow, Otsus!ShowsAddress, FieldFollowed

LEMMA ListInvStep == ASSUME Otsus!OtsusPageAssumption, ListInv, [Otsus!Next]_Otsus!vars PROVE ListInv'
<1>1. ASSUME NEW s \in Search, Otsus!Type(s) PROVE ListInv'
  BY <1>1, TypeStep
<1>2. ASSUME NEW y \in Year, Otsus!ChooseYear(y) PROVE ListInv'
  <2>1. [address EXCEPT !.tahun = y, !.page = 1] \in Otsus!Address
    BY ChoicesFit DEF ListInv
  <2> QED
    BY <1>2, <2>1, NavigationStep DEF Otsus!ChooseYear
<1>3. ASSUME NEW f \in Filter \cup {None}, Otsus!ChooseFilter(f) PROVE ListInv'
  <2>1. [address EXCEPT !.filter = f, !.page = 1] \in Otsus!Address
    BY ChoicesFit DEF ListInv
  <2> QED
    BY <1>3, <2>1, NavigationStep DEF Otsus!ChooseFilter
<1>4. ASSUME NEW p \in Otsus!Page, Otsus!TurnPage(p) PROVE ListInv'
  <2>1. [address EXCEPT !.page = p] \in Otsus!Address
    BY ChoicesFit DEF ListInv
  <2> QED
    BY <1>4, <2>1, NavigationStep DEF Otsus!TurnPage
<1>5. ASSUME NEW a \in asked, Otsus!Answered(a) PROVE ListInv'
  BY <1>5, AnsweredStep
<1>6. ASSUME NEW a \in asked, Otsus!Failed(a) PROVE ListInv'
  BY <1>6, FailedStep
<1>7. ASSUME NEW years \in SUBSET Year, Otsus!Republish(years) PROVE ListInv'
  BY <1>7, RepublishStep
<1>8. CASE UNCHANGED Otsus!vars
  BY <1>8 DEF ListInv, Otsus!TypeOK, AskedNow, Otsus!ShowsAddress, FieldFollowed, Otsus!vars
<1> QED
  BY <1>1, <1>2, <1>3, <1>4, <1>5, <1>6, <1>7, <1>8, ResetStep, LoadAgainStep, TimerStep,
     ArriveStep DEF Otsus!Next

-----------------------------------------------------------------------------
\* The inductive invariant of the list: its types, the one address whose load may
\* be answered, and what follows a field that runs ahead.
THEOREM ListInvHolds == ASSUME Otsus!OtsusPageAssumption PROVE Otsus!Spec => []ListInv
<1>1. Otsus!Init => ListInv
  BY ListInvInit
<1>2. ListInv /\ [Otsus!Next]_Otsus!vars => ListInv'
  BY ListInvStep
<1> QED
  BY <1>1, <1>2, PTL DEF Otsus!Spec

\* Every variable of the list keeps its type.
THEOREM PublicListTypeCorrect == ASSUME Otsus!OtsusPageAssumption PROVE Otsus!Spec => []Otsus!TypeOK
<1>1. ListInv => Otsus!TypeOK
  BY DEF ListInv
<1> QED
  BY <1>1, ListInvHolds, PTL

\* What is shown as the result of the address is the answer to it (the effect that
\* loads aborts the load it had), in whatever order navigations and answers come.
THEOREM AnswersAreCurrent == ASSUME Otsus!OtsusPageAssumption PROVE Otsus!Spec => []Otsus!ShowsAddress
<1>1. ListInv => Otsus!ShowsAddress
  BY DEF ListInv
<1> QED
  BY <1>1, ListInvHolds, PTL

\* The search field and the address do not part for good (the search effect and
\* router.replace), but for the navigation the visitor himself cancelled.
THEOREM FieldFollowsAddress == ASSUME Otsus!OtsusPageAssumption PROVE Otsus!Spec => []Otsus!FieldAgrees
<1>1. ListInv => Otsus!FieldAgrees
  BY DEF ListInv, FieldFollowed, Otsus!FieldAgrees
<1> QED
  BY <1>1, ListInvHolds, PTL

\* The year an answer writes into the address takes back none of the choices the
\* address has by then.
THEOREM AnswersKeepChoices == ASSUME Otsus!OtsusPageAssumption PROVE Otsus!Spec => Otsus!AnswerKeepsChoices
<1>1. ListInv /\ [Otsus!Next]_Otsus!vars =>
        [\A a \in asked : Otsus!Answered(a) /\ pending' # pending =>
           pending' = [address EXCEPT !.tahun = data'.year]]_Otsus!vars
  BY AnsweredStep
<1> QED
  BY <1>1, ListInvHolds, PTL DEF Otsus!Spec, Otsus!AnswerKeepsChoices

-----------------------------------------------------------------------------
(* The two pages, one mounted at a time.                                     *)

\* What the regional page has while it is not open: nothing.
WilayahIdle == rows = None /\ year = None /\ calls = {} /\ entries[at].period = None

\* The page mounted keeps its invariant, and the other its idle values.
PublicInv ==
    /\ mounted \in {"wilayah", "otsus"} /\ TypeOK
    /\ mounted = "wilayah" => PageInv
    /\ mounted = "otsus" => ListInv /\ WilayahIdle

LEMMA PublicInvInit == MCInit => PublicInv
<1>1. ASSUME MountWilayah PROVE PublicInv
  <2>1. PageInv /\ mounted = "wilayah"
    BY <1>1, WilayahAssumption, PageInvInit DEF MountWilayah
  <2> QED
    BY <2>1 DEF PublicInv, PageInv
<1>2. ASSUME MountOtsus PROVE PublicInv
  <2>1. ListInv /\ mounted = "otsus"
    BY <1>2, PublicAssumption, ListInvInit DEF MountOtsus
  <2>2. published \subseteq Year /\ loading \in BOOLEAN
    BY <2>1 DEF ListInv, Otsus!TypeOK
  <2>3. NewAddress(None, None, None) \in Address
    BY AddressFits
  <2>4. TypeOK
    BY <1>2, <2>2, <2>3, WilayahAssumption DEF MountOtsus, TypeOK, WilayahAssumption
  <2>5. WilayahIdle
    BY <1>2 DEF MountOtsus, WilayahIdle, NewAddress
  <2> QED
    BY <2>1, <2>4, <2>5 DEF PublicInv
<1> QED
  BY <1>1, <1>2 DEF MCInit

LEMMA PublicInvStep == PublicInv /\ [MCNext]_mcvars => PublicInv'
<1> SUFFICES ASSUME PublicInv, [MCNext]_mcvars PROVE PublicInv'
  OBVIOUS
<1>1. CASE mounted = "wilayah" /\ mounted' = mounted /\ [Next]_vars
  <2>1. PageInv'
    BY <1>1, WilayahAssumption, PageInvStep DEF PublicInv
  <2> QED
    BY <1>1, <2>1 DEF PublicInv, PageInv
<1>2. CASE mounted = "otsus" /\ mounted' = mounted /\ [Otsus!Next]_Otsus!vars /\ UNCHANGED wilayahOnly
  <2>1. ListInv'
    BY <1>2, PublicAssumption, ListInvStep DEF PublicInv
  <2>2. published' \subseteq Year /\ loading' \in BOOLEAN
    BY <2>1 DEF ListInv, Otsus!TypeOK
  <2>3. TypeOK'
    BY <1>2, <2>2 DEF PublicInv, TypeOK, wilayahOnly, url
  <2>4. WilayahIdle'
    BY <1>2 DEF PublicInv, WilayahIdle, wilayahOnly, url
  <2> QED
    BY <1>2, <2>1, <2>3, <2>4 DEF PublicInv
<1>3. CASE UNCHANGED mcvars
  <2>1. UNCHANGED <<mounted, vars, Otsus!vars, wilayahOnly>>
    BY <1>3 DEF mcvars, vars, server, view, url, otsusOnly, Otsus!vars, wilayahOnly
  <2> QED
    BY <1>1, <1>2, <2>1 DEF PublicInv
<1> QED
  BY <1>1, <1>2, <1>3 DEF MCNext, PublicInv

THEOREM PublicInvHolds == MCSpec => []PublicInv
<1> QED
  BY PublicInvInit, PublicInvStep, PTL DEF MCSpec

\* The page mounted keeps the types of its state, and the other's stay as they are.
THEOREM PublicTypeCorrect == MCSpec => []PublicTypeOK
<1>1. PublicInv => PublicTypeOK
  BY DEF PublicInv, ListInv, PublicTypeOK
<1> QED
  BY <1>1, PublicInvHolds, PTL

\* The rows of the regional page that stand as final are those of its period.
THEOREM PublicRowsFollowPeriod == MCSpec => []RowsOfPeriod
<1>1. PublicInv => RowsOfPeriod
  BY WilayahAssumption DEF PublicInv, PageInv, OldRowsMarked, WilayahIdle, RowsOfPeriod, WilayahAssumption
<1> QED
  BY <1>1, PublicInvHolds, PTL

\* The address of the regional page names no period but the one it shows.
THEOREM PublicAddressFollowsPeriod == MCSpec => []AddressNamesPeriod
<1>1. PublicInv => AddressNamesPeriod
  BY DEF PublicInv, PageInv, WilayahIdle, AddressNamesPeriod
<1> QED
  BY <1>1, PublicInvHolds, PTL

\* No answer to the regional page takes back the period chosen meanwhile.
THEOREM PublicAnswersKeepPeriod == MCSpec => PeriodKept
<1>1. PublicInv /\ [MCNext]_mcvars =>
        [(\E c \in calls : Answer(c)) /\ year # None => year' = year]_vars
  <2> SUFFICES ASSUME PublicInv, [MCNext]_mcvars, NEW c \in calls, Answer(c), year # None
               PROVE  year' = year
    OBVIOUS
  <2>1. mounted = "wilayah" /\ PageInv
    BY DEF PublicInv, WilayahIdle
  <2> QED
    BY <2>1, WilayahAssumption, AnswerStep
<1> QED
  BY <1>1, PublicInvHolds, PTL DEF MCSpec, PeriodKept

\* The labels shown are the answer to the address, whenever none is awaited: the
\* load of an address left is aborted.
THEOREM PublicShowsAddress == MCSpec => []ShowsAddress
<1>1. PublicInv => ShowsAddress
  BY DEF PublicInv, ListInv, ShowsAddress
<1> QED
  BY <1>1, PublicInvHolds, PTL

\* The search field and the address do not part for good.
THEOREM PublicFieldAgrees == MCSpec => []FieldAgrees
<1>1. PublicInv => FieldAgrees
  BY DEF PublicInv, ListInv, FieldFollowed, FieldAgrees, Otsus!FieldAgrees
<1> QED
  BY <1>1, PublicInvHolds, PTL

\* The year an answer writes takes back no choice made in the address by then.
THEOREM PublicAnswersKeepChoices == MCSpec => AnswerKeepsChoices
<1>1. PublicInv /\ [MCNext]_mcvars =>
        [\A a \in asked : mounted = "otsus" /\ Otsus!Answered(a) /\ pending' # pending =>
           pending' = [address EXCEPT !.tahun = data'.year]]_mcvars
  BY PublicAssumption, AnsweredStep DEF PublicInv
<1> QED
  BY <1>1, PublicInvHolds, PTL DEF MCSpec, AnswerKeepsChoices
===============================================================================
