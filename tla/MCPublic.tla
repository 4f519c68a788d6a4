------------------------------- MODULE MCPublic -------------------------------
(***************************************************************************)
(* The public pages, one mounted at a time, over the years the office has  *)
(* published.  The page that is not mounted keeps its idle values.         *)
(***************************************************************************)
EXTENDS DataWilayahPage, TLC

CONSTANTS Search, Filter, MaxPage

VARIABLES mounted, address, pending, field, armed, data, failed, asked, cancelled

MCRegionsOf == 2025 :> {"r1"} @@ 2026 :> {"r1", "r2"}

Otsus == INSTANCE PublicOtsusPage WITH error <- failed

ASSUME PublicAssumption == Otsus!OtsusPageAssumption

otsusOnly   == <<address, pending, field, armed, data, failed, asked, cancelled>>
wilayahOnly == <<featured, year, options, rows, error, selected, dataset, url, calls>>

MountWilayah ==
    /\ mounted = "wilayah" /\ Init
    /\ address = None /\ pending = None /\ field = None /\ armed = FALSE
    /\ data = None /\ failed = FALSE /\ asked = {} /\ cancelled = FALSE
MountOtsus ==
    /\ mounted = "otsus" /\ Otsus!Init
    /\ featured = None /\ year = None /\ options = {} /\ rows = None /\ error = None
    /\ selected = None /\ dataset = Registration /\ calls = {}
    /\ entries = <<NewAddress(None, None, None)>> /\ at = 1

MCInit == MountWilayah \/ MountOtsus

MCNext ==
    /\ UNCHANGED mounted
    /\ \/ mounted = "wilayah" /\ Next /\ UNCHANGED otsusOnly
       \/ mounted = "otsus" /\ Otsus!Next /\ UNCHANGED wilayahOnly

mcvars == <<mounted, vars, otsusOnly>>

\* Every call of a page is answered, or fails.
MCFairness ==
    /\ \A kind \in {"settings", "rows"} :
         WF_mcvars(/\ mounted = "wilayah" /\ UNCHANGED <<mounted, otsusOnly>>
                   /\ \E c \in calls : c.kind = kind /\ Answer(c))
    /\ WF_mcvars(/\ mounted = "otsus" /\ UNCHANGED <<mounted, wilayahOnly>>
                 /\ \E a \in asked : Otsus!Answered(a) \/ Otsus!Failed(a))

MCSpec == MCInit /\ [][MCNext]_mcvars /\ MCFairness

-----------------------------------------------------------------------------
\* Each page keeps its state's types.
PublicTypeOK == TypeOK /\ (mounted = "otsus" => Otsus!TypeOK)

\* The search field of the labels' list and its address do not part for good.
FieldAgrees == mounted = "otsus" => Otsus!FieldAgrees

\* The labels shown as the result of the address are the answer to it.
ShowsAddress == mounted = "otsus" => Otsus!ShowsAddress

\* An answer that writes its year into the address takes back no choice made
\* in the address by then.
AnswerKeepsChoices ==
    [][\A a \in asked : mounted = "otsus" /\ Otsus!Answered(a) /\ pending' # pending =>
          pending' = [address EXCEPT !.tahun = data'.year]]_mcvars

\* No page waits for ever: neither the regional page for a period it has or may
\* still get, nor the labels' list after "Coba Lagi".
PagesWaitEnd == (loading /\ (mounted = "otsus" \/ Awaited)) ~> ~loading
===============================================================================
