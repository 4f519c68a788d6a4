------------------------------ MODULE MCInternal ------------------------------
(***************************************************************************)
(* The internal pages, one mounted at a time.  Their variables of the same *)
(* name are one variable here: the page that is mounted owns it, and what  *)
(* it does not have keeps its idle value.  The pages of Otsus labels and   *)
(* the import are lent the variables of the others, under their names.     *)
(***************************************************************************)
EXTENDS ReleaseSettings, FiniteSets, TLC

CONSTANTS Query, PageSize, Slot, MaxLoads, Record, Value, AlwaysYears, Size,
          FixedSize, MaxDocs, MaxVersion, Region, Text, Refused, MaxCalls,
          MaxRows, TextLines, Length, Photo, MaxPhotos, MaxFiles, Cells,
          MaxLines, KeyOf, IndexOf, Has, Matches, None

VARIABLES
    mounted,
    query, page, records, total, target, armed, loads, deletes, excused, here,
    groups, chosen, size, unsure, issued, phase, documents, uploadOpen, file,
    metadataTarget, deleteTarget, calls, kind, at, goto, rows, form, initial,
    kept, asked, lost, doc, zip, exported

MCMatches == "" :> Record @@ "b" :> {2}
MCHas == "query" :> ("v" :> {1, 2}) @@ "kabupaten" :> ("v" :> {2, 3})
         @@ "kategori" :> ("v" :> {1, 3}) @@ "tahun" :> ("v" :> {3})
MCKeyOf   == [c \in Cells |-> IF c = "b" THEN "b" ELSE "a"]
MCIndexOf == [c \in Cells |-> IF c = "A" THEN "a" ELSE c]

Kampung == INSTANCE KampungList WITH NoRecord <- 0
Lists   == INSTANCE RecordLists
Pegawai == INSTANCE EmployeeDocuments
Forms   == INSTANCE RegionForms
Files   == INSTANCE Exports WITH message <- exported
Otsus   == INSTANCE OtsusForm
             WITH mode <- kind, detail <- documents, todo <- goto, sent <- at,
                  again <- lost, crossed <- asked
Daftar  == INSTANCE OtsusList
             WITH Label <- Record, Search <- Query,
                  labels <- stored, search <- query, summary <- initial, load <- doc,
                  answer <- groups, delete <- deletes, counted <- asked
Import  == INSTANCE SubkegiatanImport
             WITH Row <- Cells,
                  table <- stored, open <- uploadOpen, preview <- form,
                  success <- kept, valid <- rows, gone <- lost

ASSUME InternalAssumption ==
    /\ Kampung!KampungAssumption /\ Lists!ListsAssumption
    /\ Pegawai!DocumentsAssumption /\ Forms!FormsAssumption
    /\ Files!ExportsAssumption /\ Otsus!OtsusFormAssumption
    /\ Daftar!OtsusListAssumption /\ Import!ImportAssumption

-----------------------------------------------------------------------------
\* What each page does not have.
NoRelease == <<
    query, page, records, total, target, armed, loads, deletes, excused, here,
    groups, chosen, size, unsure, issued, phase, documents, uploadOpen, file,
    metadataTarget, deleteTarget, calls, kind, at, goto, rows, form, initial,
    kept, asked, lost, doc, zip, exported>>
NoKampung == <<
    known, fields, saving, call, message, saved, here, groups, chosen, size,
    unsure, issued, phase, documents, uploadOpen, file, metadataTarget,
    deleteTarget, calls, kind, at, goto, rows, form, initial, kept, asked, lost,
    doc, zip, exported>>
NoLists == <<
    known, fields, saving, message, saved, query, total, armed, loads, deletes,
    excused, issued, phase, documents, uploadOpen, file, metadataTarget,
    deleteTarget, calls, kind, at, goto, rows, form, initial, kept, asked, lost,
    doc, zip, exported>>
NoPegawai == <<
    known, fields, loading, saving, call, message, saved, query, page, records,
    total, target, armed, loads, deletes, excused, here, groups, chosen, size,
    kind, at, goto, rows, form, initial, kept, asked, lost,
    doc, zip, exported>>
NoForms == <<
    known, fields, call, message, saved, query, page, records, total, target,
    armed, loads, deletes, excused, here, groups, chosen, size, unsure, issued,
    phase, documents, uploadOpen, file, metadataTarget, deleteTarget, doc, zip,
    exported>>
NoFiles == <<
    known, fields, loading, saving, call, message, saved, query, page, records,
    total, target, armed, loads, deletes, excused, here, groups, chosen, size,
    unsure, issued, documents, uploadOpen, file, metadataTarget, deleteTarget,
    calls, at, goto, form, initial, kept, asked, lost, stored>>
NoOtsus == <<
    known, fields, loading, saving, call, message, error, saved, query, page,
    records, total, target, armed, loads, deletes, excused, here, groups,
    chosen, size, uploadOpen, file, metadataTarget, deleteTarget, rows, form,
    initial, kept, doc, zip, exported>>
NoDaftar == <<
    known, fields, saving, call, message, error, saved, page, records, total,
    armed, loads, excused, here, chosen, size, issued, phase, documents,
    uploadOpen, file, metadataTarget, deleteTarget, calls, kind, at, goto,
    form, kept, lost, zip, exported>>
NoImport == <<
    known, fields, loading, saving, message, saved, query, page, records,
    total, target, armed, loads, deletes, excused, here, groups, chosen, size,
    unsure, issued, phase, documents, metadataTarget, deleteTarget, calls,
    kind, at, goto, initial, asked, doc, zip, exported>>

\* Every page mounts in its own initial state.
MountRelease ==
    /\ mounted = "release" /\ Init
    /\ query = None /\ page = None /\ records = None /\ total = None
    /\ target = None /\ armed = None /\ loads = None /\ deletes = None
    /\ excused = None /\ here = None /\ groups = None /\ chosen = None
    /\ size = None /\ unsure = None /\ issued = None /\ phase = None
    /\ documents = None /\ uploadOpen = None /\ file = None
    /\ metadataTarget = None /\ deleteTarget = None /\ calls = None
    /\ kind = None /\ at = None /\ goto = None /\ rows = None /\ form = None
    /\ initial = None /\ kept = None /\ asked = None /\ lost = None
    /\ doc = None /\ zip = None
    /\ exported = None
MountKampung ==
    /\ mounted = "kampung" /\ Kampung!Init
    /\ known = None /\ fields = Empty /\ saving = None /\ call = None
    /\ message = FALSE /\ saved = Empty /\ here = None /\ groups = None
    /\ chosen = None /\ size = None /\ unsure = None /\ issued = None
    /\ phase = None /\ documents = None /\ uploadOpen = None /\ file = None
    /\ metadataTarget = None /\ deleteTarget = None /\ calls = None
    /\ kind = None /\ at = None /\ goto = None /\ rows = None /\ form = None
    /\ initial = None /\ kept = None /\ asked = None /\ lost = None
    /\ doc = None /\ zip = None
    /\ exported = None
MountLists ==
    /\ mounted = "lists" /\ Lists!Init
    /\ known = None /\ fields = Empty /\ saving = None /\ message = FALSE
    /\ saved = Empty /\ query = None /\ total = None /\ armed = None
    /\ loads = None /\ deletes = None /\ excused = None /\ issued = None
    /\ phase = None /\ documents = None /\ uploadOpen = None /\ file = None
    /\ metadataTarget = None /\ deleteTarget = None /\ calls = None
    /\ kind = None /\ at = None /\ goto = None /\ rows = None /\ form = None
    /\ initial = None /\ kept = None /\ asked = None /\ lost = None
    /\ doc = None /\ zip = None
    /\ exported = None
MountPegawai ==
    /\ mounted = "pegawai" /\ Pegawai!Init
    /\ known = None /\ fields = Empty /\ loading = None /\ saving = None
    /\ call = None /\ message = FALSE /\ saved = Empty /\ query = None
    /\ page = None /\ records = None /\ total = None /\ target = None
    /\ armed = None /\ loads = None /\ deletes = None /\ excused = None
    /\ here = None /\ groups = None /\ chosen = None /\ size = None
    /\ kind = None /\ at = None /\ goto = None /\ rows = None /\ form = None
    /\ initial = None /\ kept = None /\ asked = None /\ lost = None
    /\ doc = None /\ zip = None
    /\ exported = None
MountForms ==
    /\ mounted = "forms" /\ Forms!Init
    /\ known = None /\ fields = Empty /\ call = None /\ message = FALSE
    /\ saved = Empty /\ query = None /\ page = None /\ records = None
    /\ total = None /\ target = None /\ armed = None /\ loads = None
    /\ deletes = None /\ excused = None /\ here = None /\ groups = None
    /\ chosen = None /\ size = None /\ unsure = None /\ issued = None
    /\ phase = None /\ documents = None /\ uploadOpen = None /\ file = None
    /\ metadataTarget = None /\ deleteTarget = None /\ doc = None /\ zip = None
    /\ exported = None
MountFiles ==
    /\ mounted = "files" /\ Files!Init
    /\ known = None /\ fields = Empty /\ loading = None /\ saving = None
    /\ call = None /\ message = FALSE /\ saved = Empty /\ query = None /\ page = None
    /\ records = None /\ total = None /\ target = None /\ armed = None
    /\ loads = None /\ deletes = None /\ excused = None /\ here = None
    /\ groups = None /\ chosen = None /\ size = None /\ unsure = None
    /\ issued = None /\ documents = None /\ uploadOpen = None /\ file = None
    /\ metadataTarget = None /\ deleteTarget = None /\ calls = None
    /\ at = None /\ goto = None /\ form = None /\ initial = None
    /\ kept = None /\ asked = None /\ lost = None /\ stored = None
MountOtsus ==
    /\ mounted = "otsusform" /\ Otsus!Init
    /\ known = None /\ fields = Empty /\ loading = None /\ saving = None
    /\ call = None /\ message = FALSE /\ error = FALSE /\ saved = Empty
    /\ query = None /\ page = None /\ records = None /\ total = None
    /\ target = None /\ armed = None /\ loads = None /\ deletes = None
    /\ excused = None /\ here = None /\ groups = None /\ chosen = None
    /\ size = None /\ uploadOpen = None /\ file = None /\ metadataTarget = None
    /\ deleteTarget = None /\ rows = None /\ form = None /\ initial = None
    /\ kept = None /\ doc = None /\ zip = None /\ exported = None
MountDaftar ==
    /\ mounted = "otsuslist" /\ Daftar!Init
    /\ known = None /\ fields = Empty /\ saving = None /\ call = None
    /\ message = FALSE /\ error = FALSE /\ saved = Empty /\ page = None
    /\ records = None /\ total = None /\ armed = None /\ loads = None
    /\ excused = None /\ here = None /\ chosen = None /\ size = None
    /\ issued = None /\ phase = None /\ documents = None /\ uploadOpen = None
    /\ file = None /\ metadataTarget = None /\ deleteTarget = None
    /\ calls = None /\ kind = None /\ at = None /\ goto = None /\ form = None
    /\ kept = None /\ lost = None /\ zip = None /\ exported = None
MountImport ==
    /\ mounted = "import" /\ Import!Init
    /\ known = None /\ fields = Empty /\ loading = None /\ saving = None
    /\ message = FALSE /\ saved = Empty /\ query = None /\ page = None
    /\ records = None /\ total = None /\ target = None /\ armed = None
    /\ loads = None /\ deletes = None /\ excused = None /\ here = None
    /\ groups = None /\ chosen = None /\ size = None /\ unsure = None
    /\ issued = None /\ phase = None /\ documents = None
    /\ metadataTarget = None /\ deleteTarget = None /\ calls = None
    /\ kind = None /\ at = None /\ goto = None /\ initial = None
    /\ asked = None /\ doc = None /\ zip = None /\ exported = None

MCInit == MountRelease \/ MountKampung \/ MountLists \/ MountPegawai \/ MountForms
          \/ MountFiles \/ MountOtsus \/ MountDaftar \/ MountImport

MCNext ==
    /\ UNCHANGED mounted
    /\ \/ mounted = "release" /\ Next /\ UNCHANGED NoRelease
       \/ mounted = "kampung" /\ Kampung!Next /\ UNCHANGED NoKampung
       \/ mounted = "lists" /\ Lists!Next /\ UNCHANGED NoLists
       \/ mounted = "pegawai" /\ Pegawai!Next /\ UNCHANGED NoPegawai
       \/ mounted = "forms" /\ Forms!Next /\ UNCHANGED NoForms
       \/ mounted = "files" /\ Files!Next /\ UNCHANGED NoFiles
       \/ mounted = "otsusform" /\ Otsus!Next /\ UNCHANGED NoOtsus
       \/ mounted = "otsuslist" /\ Daftar!Next /\ UNCHANGED NoDaftar
       \/ mounted = "import" /\ Import!Next /\ UNCHANGED NoImport

mcvars == <<mounted, vars, NoRelease>>

MCFairness ==
    /\ WF_mcvars(mounted = "release" /\ Answered /\ UNCHANGED <<mounted, NoRelease>>)
    /\ WF_mcvars(/\ mounted = "kampung" /\ UNCHANGED <<mounted, NoKampung>>
                 /\ \E l \in loads : l.for = 0 /\ Kampung!LoadStep(l))
    /\ WF_mcvars(/\ mounted = "kampung" /\ UNCHANGED <<mounted, NoKampung>>
                 /\ \E d \in deletes : Kampung!DeleteStep(d))
    /\ WF_mcvars(/\ mounted = "kampung" /\ UNCHANGED <<mounted, NoKampung>>
                 /\ \E l \in loads : l.for # 0 /\ Kampung!LoadStep(l))
    /\ WF_mcvars(mounted = "lists" /\ Lists!DeleteStep /\ UNCHANGED <<mounted, NoLists>>)
    /\ WF_mcvars(/\ mounted = "pegawai" /\ UNCHANGED <<mounted, NoPegawai>>
                 /\ \E c \in calls : c.kind = "delete" /\ Pegawai!CallStep(c))
    /\ WF_mcvars(/\ mounted = "forms" /\ UNCHANGED <<mounted, NoForms>>
                 /\ (Forms!ListLoaded \/ Forms!RecordLoaded \/ Forms!LoadFailed))
    /\ WF_mcvars(/\ mounted = "forms" /\ UNCHANGED <<mounted, NoForms>>
                 /\ \E c \in calls : Forms!SaveStep(c))
    /\ WF_mcvars(mounted = "files" /\ Files!Build /\ UNCHANGED <<mounted, NoFiles>>)
    /\ WF_mcvars(mounted = "otsusform" /\ Otsus!SubmitStep /\ UNCHANGED <<mounted, NoOtsus>>)
    /\ WF_mcvars(mounted = "otsuslist" /\ Daftar!DeleteStep /\ UNCHANGED <<mounted, NoDaftar>>)
    /\ WF_mcvars(mounted = "import" /\ Import!CallStep /\ UNCHANGED <<mounted, NoImport>>)

MCSpec == MCInit /\ [][MCNext]_mcvars /\ MCFairness

-----------------------------------------------------------------------------
PagesTypeOK ==
    CASE mounted = "release" -> TypeOK
      [] mounted = "kampung" -> Kampung!TypeOK
      [] mounted = "lists" -> Lists!TypeOK
      [] mounted = "pegawai" -> Pegawai!TypeOK
      [] mounted = "forms" -> Forms!TypeOK
      [] mounted = "files" -> Files!TypeOK
      [] mounted = "otsusform" -> Otsus!TypeOK
      [] mounted = "otsuslist" -> Daftar!TypeOK
      [] mounted = "import" -> Import!TypeOK

\* What a list shows is found by the search in its field, and no page of it is
\* shown empty while there are such rows.
ListsShowSearch ==
    /\ mounted = "kampung" => Kampung!SearchShown /\ Kampung!PageExists
    /\ mounted = "lists" => Lists!PageShowsRows
    /\ mounted = "otsuslist" => Daftar!ListAgrees

\* The exported sheet is complete and keeps to its pages, its text to its rows but for
\* what the library splits again, and the workbook's directory finds its entries.
ExportsComplete == mounted = "files" => Files!SheetComplete /\ Files!EntriesFound

\* Once nothing is in flight, a list is the server's, and the form over it is open
\* for a record it still has.
RowsMatch ==
    /\ mounted = "lists" => Lists!ListMatches
    /\ mounted = "pegawai" => Pegawai!DocumentsMatch /\ Pegawai!FormHasDocument
    /\ mounted = "otsusform" => Otsus!FlagsShown

\* The notice of a submit means that all of it is stored.
NoticeMeansSaved == mounted = "otsusform" => Otsus!NoticeMeansSaved

\* The success of an import means that every row of the file is in the table.
ImportMeansStored == mounted = "import" => Import!ImportMeansStored

\* An edit form without changes holds what the server has given or taken.
CleanMeansKept == mounted = "forms" => Forms!CleanMeansKept

\* Whatever makes a page wait ends: its buttons come back.
PageWaits ==
    CASE mounted = "release" -> Waiting
      [] mounted = "kampung" -> Kampung!Waiting
      [] mounted = "lists" -> Lists!Waiting
      [] mounted = "pegawai" -> Pegawai!Waiting
      [] mounted = "forms" -> Forms!Waiting
      [] mounted = "files" -> Files!Waiting
      [] mounted = "otsusform" -> Otsus!Waiting
      [] mounted = "otsuslist" -> Daftar!Waiting
      [] mounted = "import" -> Import!Waiting
WaitsEnd == PageWaits ~> ~PageWaits
===============================================================================
