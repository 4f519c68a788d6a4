# A TLA+ model of DUKCAPIL-PMK-PBD

The repository holds an internal application of a provincial administration and
its public website: a Go back end (`apps/dukcapil-pbd-be`, Echo, GORM,
PostgreSQL, files on local disk), a Next.js front end
(`apps/dukcapil-pbd-fe`) and their documents (`docs/`). This directory models
the parts where something happens that the code of one function does not show:
in the back end, requests that meet in rows, locks and files; in the front end,
pages whose calls are answered late, in another order, or not at all, and that
share a cookie jar, an address or a list with somebody else.

Paths of the back end are relative to `apps/dukcapil-pbd-be/internal/`, of the
front end to `apps/dukcapil-pbd-fe/`, unless they start with `docs/`,
`migrations/` or `apps/`.

## The system

| part | state | operations | what makes it correct |
|---|---|---|---|
| **Blob storage** `storage/local.go` | files under a root, keys with a fresh UUID | Save (temporary file, fsync, link, directory sync), Open, Delete | an object is published whole or not at all, never overwritten |
| **File service** `fileasset/` | none | Save (size, extension, MIME and content checks, then storage), Delete | what is refused leaves nothing |
| **File metadata** `repository/stored_file.go` | table `stored_files`, with soft deletion | create, soft-delete, access check, start-up reconciliation | an active row has a blob; every blob has a row |
| **Otsus labels** `repository/otsus.go`, `controller/otsus.go` | `labelisasi_otsus`, `dokumentasi_otsus`, `lpj_otsus`, `versi_dpa_otsus` | save and delete a label; add, replace, remove documents; publish | one LPJ, distinct DPA versions; what is listed can be read; deletion takes everything along; nothing becomes public unasked |
| **Public Otsus pages** `repository/public_otsus.go` | reads the above and the `is_public` flags | list, detail | nothing private is shown |
| **Organization** `repository/organization.go` | `organisasi_bidang`, `_seksi`, `_jabatan` | save, delete | every parent exists and fits; nothing in use moves or goes |
| **Employees** `repository/arsip_pegawai.go` | `arsip_pegawai`, `arsip` (documents), a photo | create, update, delete, photo, documents | selections exist and fit; photo and documents have their blobs |
| **Accounts** `repository/user.go`, `controller/auth.go`, `security/token.go` | `admin_users`; stateless signed tokens, 24 h | log in, create, update, delete, switch year | somebody can still administer; rights follow the account |
| **Subkegiatan** `repository/subkegiatan.go`, `subkegiatanexcel/` | `subkegiatan`, unique hierarchy | create, update, delete, preview and import a sheet | an import is all or nothing, and says the truth |
| **Data wilayah** `repository/data_wilayah.go` | one row per region and year, one settings row | update, settings, seeding of a new year, summaries | the featured year is published; no update is lost |
| **Kelompok binaan, capaian/kendala** | groups and reports with lists of files | create, update, delete | the files follow the lists |
| **Data kampung, BUM kampung, kab/kota** | independent rows | list, create, update, delete | single statements |
| **Start-up and routing** `cmd/api/main.go`, `router/router.go` | none | migrate, reconcile metadata, seed users, serve | order of the steps; the roles of each route |
| **Session and shell** `app/login`, `app/api/auth/*`, `proxy.ts`, `components/dashboard/*` | the cookies `admin_token` and `admin_role`, shared by all tabs; role, year and dialogs of each tab | log in, log out, switch year, ask for the session, follow links | cookies, proxy, menu and tabs agree; a logout is final |
| **Internal lists** `app/internal/pmk/*`, `app/internal/arsip`, `components/otsus/otsus-list.tsx` | rows, search, filters, page, dialog, loads and deletes in flight | load, search, filter, turn the page, delete | the rows are those of the search, and the server's |
| **Employee's page** `app/internal/pegawai/[id]/detail-client.tsx` | documents, two forms, a dialog, calls in flight | upload, change, delete a document | the list follows the server's |
| **Forms of a region** `components/dukcapil/*-page.tsx` | route, form, `initial`, saves in flight | list, preview, edit, save, leave | nothing typed is taken for saved |
| **Form of an Otsus label** `components/otsus/otsus-form.tsx` | chosen files, shown documents, a submit of several calls | submit, publish, delete | the notice means that all is stored |
| **Release settings** `app/internal/pengaturan/data-wilayah-release` | settings loaded, form, call in flight | load, toggle, feature, save | the featured year is a published one |
| **Import dialog** `components/master/subkegiatan-excel-actions.tsx` | file, preview, messages, call in flight | choose, preview, import | see Subkegiatan |
| **Exports** `kelompok-binaan/page.tsx`, `bum-kampung/page.tsx` | a document while it is laid out, an archive while it is put together | download | nothing missing, nothing over the edge; readable archives |
| **Public pages** `app/(website)/data-wilayah`, `components/website/public-otsus-page.tsx` | choices, the address, rows, calls in flight | choose, search, turn, go back | what is shown is what the choices and the address name |
| **Rest of the front end** | BFF forwarding, dashboard, home, profile, other forms, UI components | forward, show | see "Not modelled" |

How they interact. A page calls the BFF routes, which forward to the back end
with the token of the cookie. A handler of the back end (a goroutine of its
own) calls its repository, which runs one database transaction at READ
COMMITTED, and the file service before or after it. Handlers share nothing in
memory: they meet in the rows and row locks of PostgreSQL and in the blob
directory. The request's context reaches every statement and every storage
call; it is cancelled when the client leaves. Pages share the cookie jar and the
server's tables; within a page, the answers of its calls, its timers and its
user take turns.

What is hard. In the back end: statements of two transactions interleave between
their reads and writes; the database and the disk are changed by two separate
steps that a failure or a stop can part; a clean-up can fail too; a commit may
take effect although the handler sees an error; row locks are taken in
different orders by different handlers. In the front end: answers overtake each
other and later choices; an answer is lost after its effect; a handler goes on
with values of the render it was made in; one of several calls fails; a
navigation takes the place of another; what a page shows is changed by others.
`PROJECT.json` lists these hazards at their lines.

## The modules

| module | what it is |
|---|---|
| `DocumentRegister` | abstract: the register of documents that a reader sees |
| `OtsusFiles` | the Otsus handlers, one statement at a time, with blobs, row locks, failures; refines `DocumentRegister` |
| `EmployeeFiles` | the same for the photo and the documents of an employee; refines `DocumentRegister` |
| `OrganizationRules` | abstract: changes of the organization, each checked and made at once |
| `Organization` | the same as transactions with row locks; refines `OrganizationRules` |
| `Session` | cookies, proxy, `/api/auth` routes, shell and login page, over several tabs |
| `KampungList` | the list of data kampung: server's search and paging, numbered loads, deletes |
| `RecordLists` | the lists the browser filters: BUM kampung, kelompok binaan, capaian/kendala, archive |
| `OtsusList` | the internal list of Otsus labels |
| `OtsusForm` | the form of an Otsus label, with the server's flags and documents |
| `EmployeeDocuments` | the page of one employee and his documents |
| `RegionForms` | lists, previews and edit forms of a region's figures, with the navigations between them |
| `ReleaseSettings` | the page of the release settings |
| `SubkegiatanImport` | the import dialog and the server's two passes over a file |
| `Exports` | the layout of the PDF and the offsets of the workbook's archive |
| `DataWilayahPage`, `PublicOtsusPage` | the two public pages |
| `OtsusFilesProofs`, `OrganizationProofs`, `SessionProofs`, `DataWilayahPageProofs` | theorems about one module |
| `EmployeeFilesProofs` | theorems about `EmployeeFiles`, and about `MCOrganization` |
| `PublicPagesProofs` | theorems about `PublicOtsusPage`, and about `MCPublic` |
| `InternalPagesProofs` | theorems about `ReleaseSettings`, `SubkegiatanImport`, `RegionForms`, `EmployeeDocuments`, `Exports` |
| `InternalListsProofs` | theorems about `OtsusList`, `RecordLists`, `KampungList`, `OtsusForm`, and about `MCInternal` |
| `MCOtsusFiles`, `MCSession` | symmetry and constants for TLC |
| `MCOrganization` | `Organization` and `EmployeeFiles` in one instance |
| `MCInternal` | the nine internal pages, one mounted at a time |
| `MCPublic` | the two public pages, one mounted at a time |

Definitions named `Mut...` are not part of the model. Each is a defect a change
of the code could introduce, kept beside the definition it would replace; with
it, TLC finds the property it is listed with violated.

In the three composing modules a behaviour belongs to one part: a user has one
page open in the main area, and masters and files share no column. Where pages
share a variable's name they share the variable, and the page that is mounted
owns it; `NoRelease`, `NoKampung` and so on say what each leaves alone.

### OtsusFiles

A request runs at most once, and its name stands for all that it creates: the
blob (a fresh UUID), the `stored_files` row and the child row (serial ids).
`blob` is the disk; `label`, `row`, `file` and `related` are the committed
database; `pc`, `op`, `lab`, `target`, `doomed`, `ver` are the locals of a
handler; `held` its row locks; `cancelled` the requests whose client has left.

A step is one statement. Its reads see the committed state at that moment. A
transaction's writes are applied in its commit step, because at READ COMMITTED
nobody else sees them before; the locks they take are taken at the statement.
Locks modelled: the label FOR UPDATE (`LocksLabel`), the label FOR KEY SHARE by
the foreign key of an insert (`Shares`), and the rows written (`held`). A
statement that needs a lock is not enabled while another request holds it.

| code | actions |
|---|---|
| `files.Save` | `SaveBlob`, `SaveRefused` |
| `AddDocumentation` | `CheckLabel`, `InsertChild`, `CommitInsert` |
| `ReplaceLPJ` | `CheckLabel`, `FindCurrentLPJ`, then `RetireFile`, `LockTarget`, `CommitRepoint` or `InsertChild`, `CommitInsert` |
| `AddDPAVersion` | `CheckLabel`, `FindVersion`, `InsertChild`, `CommitInsert` |
| `DeleteDocumentation`, `DeleteLPJ`, `DeleteDPAVersion` | `CheckLabel`, `FindChild`, `RetireFile`, `LockTarget`, `CommitRemoval` |
| `OtsusRepository.Delete` | `CheckLabel`, `CollectDocumentation`, `CollectDocuments`, `RetireCollected`, `RemoveLabel`, `Cascade`, `CommitDelete` |
| `deleteManagedStoredFile` | `Purge` (after a commit), `Cleanup` (after a failed upload) |
| failures | `TxError`, `DeadlockAbort`, `Cancel`, `Crash`, and the second disjunct of `Committed` |

`Fault` chooses the failures of a run: `dberror` (a statement fails), `ioerror`
(an unlink fails), `cancel` (the client leaves), `crash` (the server stops),
`lostack` (a COMMIT takes effect, its answer is lost).

Abstractions. Creating a label is one step and its fields are left out, except
that a label exists or does not. The year in every WHERE clause is the label's
own. Inserting the `stored_files` row and the child row is one step: nothing
between the two can be seen or blocked by another request, since the row is
new. The unique constraints on the child rows are left out: `ChildrenUnique`
shows that the label's lock alone keeps them from being met. The publication
flags are left to `OtsusForm`, whose calls set them.

### OrganizationRules and Organization

`master` and `pegawai` are the committed rows, reduced to what the checks read:
status and parents of a master, and an employee's three selections. `Organization`
adds the transactions: `LockOwn` (`organizationByID` with FOR UPDATE),
`CheckReferences`, `LockBidang`, `LockSeksi`, `LockJabatan`
(`organizationParent` with FOR SHARE, and the checks that follow each), and the
commits. `Start` takes any payload the validation lets through. `Abort` is any
failure: the transaction is rolled back.

Abstractions. The foreign keys are left out on purpose, so that what is shown
is that the checks and locks suffice; the keys take no lock that a transaction
does not hold already. Names, codes and the unique indexes on them are left
out; a wait on such an index is for a transaction at its last statement, so it
adds no cycle. Ids may be used again, which a BIGSERIAL does not do: the model
allows more. Employees of the time before the structure existed, without
bidang, are not modelled.


### EmployeeFiles

The same hazards as `OtsusFiles`, in the handlers of `arsip_pegawai.go`, where no
row is locked before it is read. A request names the file, or the document, that
it creates. `employee`, `photo`, `document`, `file` are the committed database,
`blob` the disk; `doomed` and `keys` are a handler's locals: the files its
transaction soft-deletes, and the blobs it unlinks afterwards.

| code | actions |
|---|---|
| `files.Save` | `SaveBlob`, `SaveRefused` |
| `ReplacePhoto` | `ReadPhoto`, `LookupPrevious`, `CommitPhoto`, `Reread` |
| `CreateDocument` | `CommitDocument`, `Reread` |
| `DeleteDocument` | `CommitDeleteDocument` |
| `Delete` | `CollectDocuments`, `CollectPhotos` (its two UPDATEs), `CommitDelete` |
| `deleteManagedStoredFile` | `Purge`, `Cleanup` |
| failures | `TxError`, `Leave`, `Crash` |

`Unlocked` is the one lock that matters: the `stored_files` rows that Delete's
UPDATEs have written stay locked until it commits. `disturbed` is a history
variable: a client left, an unlink failed or the server stopped, after which
blobs may stay behind. The fault `reread` (the read after the commit fails) is
not among those checked: with it the code unlinks the blob of a committed row,
and `RegisterSpec` does not hold (`repository/arsip_pegawai.go:270` and `:369`).

### Session

`token` and `role` are the cookies, which the tabs share; `tab[t]` is what the
shell or the login page of a tab shows; `call` the requests in flight, each with
the token it was sent with. The routes read the cookies when a call is sent and
write them when it is answered. `Load` is a navigation of the browser: the proxy
looks at the cookies and the shell is mounted anew, with its two calls for the
session. `Menu`, `QuickLinks`, `Proxy` and `RouterRoles` are the four tables of
rights: the sidebar's, the dashboard's, the proxy's and the back end's router's.
What the back end answers is left open; a call may also be lost. `signedOut` is a
history variable: the session was ended with no login or switch in flight.

### Lists

`KampungList` is the list that the server searches. Each load is numbered, and
`newest` says which one may still show its answer; a delete whose dialog is open
waits for its own load. `RecordLists` are four lists that the browser filters;
`here` says which one is open, and each keeps its own filters and its own way of
resetting the page. `OtsusList` is the list whose single effect is run again by
every change of the search and by every delete.

Histories excuse what the pages cannot know: `unsure` after the answer of a
delete that took effect was lost; `excused` in `KampungList` after a load failed,
or after a delete's handler loaded the list for a search that is not in the field
any more, which the code does. `counted` in `OtsusList`: a load without a
search was answered, before which the cards count nothing.

### OtsusForm

`todo` is what is left of a running submit, `sent` all of it: the label, each
photo, the LPJ, the DPA, one call after the other; `SubmitStep` is a call and its
answer. The switches and delete buttons of shown documents have calls of their
own (`calls`), which may run beside a submit. `stored` is the server, with
the publication flag of each file: `Stored` and `Effect` are `AddDocumentation`,
`ReplaceLPJ`, `AddDPAVersion`, `SetFilePublication` and the deletions, each as one
step (`OtsusFiles` has their statements). Histories: `unsure`, the files whose
flag the page cannot know, because an answer was lost, two calls about one item
overlapped, or a failed submit replaced the LPJ; `again`, a submit failed, after
which a new attempt sends everything again; `crossed`, a call about the LPJ ran
beside a submit.

### EmployeeDocuments, RegionForms, ReleaseSettings

`EmployeeDocuments`: an upload, a change of metadata and a delete each have a
flag, so one call of each kind may be in flight; each answer is folded into the
list as it is by then (`Uploaded`, `MetadataUpdated`, `Deleted`).

`RegionForms`: two kinds of page, which differ in what is enabled during a save
and in what the browser refuses to send. `goto` is the route navigated to; a
save that is answered goes to the preview from wherever its user has gone
meanwhile. `kept` are the texts the server gave the page or took from it; `asked`
tells the navigations that asked or were not the user's from links; `lost` says
that a link left a changed form.

`ReleaseSettings`: every handler of the page. The fields stay enabled during a
save, and colleagues save too (`OtherSaves`). `saved` is the last answer to a save.
`stored` is always valid, since the back end normalises what it keeps: in the run
`Normalized` changes nothing. `NormalizedReleased` is proved for any value.

### SubkegiatanImport

The dialog and `Service.Preview` as the server runs it twice: for the preview, and
again when the import starts, each against the rows it lists then (`Previewed`,
`Listed`); `Insert` is the transaction under the unique index. Two comparisons of
a hierarchy meet here: `KeyOf` is `hierarchyKey`, which folds case and blanks,
`IndexOf` is what the index compares, which folds case only. Every spelling of a
file is one of `Row`, an incomplete row is `None`; `valid` are the rows that the
last pass would insert. Others create and delete
rows at any time; `gone` remembers what they deleted.

### Exports

The PDF is laid out as the code does: intro, table header, rows of the height
their wrapped lines need, a new page when one does not fit, the signature and the
footers. Lengths are in tenths of a millimetre; texts are their numbers of lines.
`above`, `top`, `bottom` are the place of the frame drawn last, `text` the lowest end
of the rows' text on the page. The code fits the lines of a cell to its width less
2 mm, and counts those for the height; it draws them with a `maxWidth` of 1 mm less
(page.tsx:1566), at which jsPDF splits them again. `Redrawn` is what that may make of
them: nothing more, or up to twice as many, `split` says that the last row got more.
jsPDF is external; its line height of 1.15, the baseline "top" and the split into
two at most are what `TextEnd` and `Redrawn` take from it, lengths rounded up. A line
that is split again does run over the row below, in the code as in the model:
`ExportsComplete` says that it ends there, and above the signature and the footer.
The workbook is its
sequence of `parts` (local header with content, entry after entry), the `central`
directory with the offsets counted while writing, and the end record. `Bytes` is
the length of a concatenation, `Before` what comes before a part of it: with them
`ExportsComplete` says where an entry really is.

### DataWilayahPage, PublicOtsusPage

`DataWilayahPage`: two effects load the settings and the rows of a year; running
an effect again gives up the call before (`mounted`). `entries` and `at` are the
browser's history, which the page writes (`Push`, `CompleteAddress`) and the back
button moves in (`Travel`). `Publish` is the administrator's save.

`PublicOtsusPage`: everything shown is asked for by the address, and every
choice is a navigation built from the address of its render, which takes the
place of a navigation under way (`UpdateQuery`). The search field runs ahead of
the address by a timer. `cancelled` is a history variable: a navigation was replaced by one to the
address there is already, which changes nothing.

## What is checked

| run | question | bounds |
|---|---|---|
| `safety` | do `TypeOK`, `ActiveHasBlob`, `ListedIsActive`, `ChildrenUnique` hold, and does a reader see the register (`RegisterSpec`)? | 1 label, 3 requests of all kinds, all faults but `lostack` |
| `leaks` | without Delete and DeleteLPJ, and with failing statements only, is nothing stranded (`ActiveIsListed`, `BlobsAccounted`)? | 2 labels, 4 requests |
| `live` | is every started request answered (`RequestsFinish`)? | 1 label, 3 requests of all kinds, `ioerror` and `lostack` |
| `parent` | does the deletion of a label cover all its metadata, as docs/02:111 says? **No** | 1 label, 2 requests, no fault |
| `orphan` | does a failed upload leave no blob, as docs/02:165 says? **No** | 1 label, 1 request, `cancel` |
| `rules` | masters: `TypeOK`, `Hierarchy`, `NoDeadlock`, and do the transactions implement the rules (`RulesSpec`)? Files of an employee: `FilesAccounted`, and does a reader see a register (`PhotosAndDocuments`)? | 2 bidang, 1 seksi, 1 jabatan, 1 employee, 2 requests; 3 file requests with `dberror`, `ioerror`, `cancel`, `crash` |
| `inactive` | does a new option have active parents, as docs/04:13 says? **No** | as `rules` |
| `session` | do cookies, proxy, menu and tabs agree (`RoleOfToken`, `MenuLeadsThere`, `ProxySettles`), is a logout final (`LogoutHolds`), does every form come back (`TabsRecover`)? | 2 tabs, 2 users, 2 years, users act while fewer than 2 calls are in flight, of which at most 1 is of a page that was left |
| `public` | is what is shown what the choices and the address name (`RowsOfPeriod`, `AddressNamesPeriod`, `PeriodKept`, `FieldAgrees`, `ShowsAddress`, `AnswerKeepsChoices`), and does each wait end (`PagesWaitEnd`)? | 2 years with 1 and 2 regions, 2 tabs, 2 entries of history; 1 search, 1 filter, 2 pages |
| `internal` | per page, see below | see below |
| `replaced` | is a replaced LPJ private, as the form's text says (components/otsus/otsus-form.tsx:50)? **No** | 1 photo, 3 files, 1 slot |
| `discard` | is a changed form left only after a question, as docs/01:342 asks? **No** | 1 region, 3 texts, 2 saves |

`rules`, `session`, `public` and `internal` are the large ones: each has about half a
million distinct states. The properties of `internal`:

| property | what it says |
|---|---|
| `ListsShowSearch` | with nothing awaited, the rows are those of the search in the field, on a page that exists and is not empty while something is found; the Otsus cards count all labels |
| `RowsMatch` | with nothing in flight, a list, the documents of an employee and the flags of a label are the server's, in whatever order calls were served and answered; the metadata form is open for a listed document only |
| `NoticeMeansSaved` | the Otsus form leaves with its notice only when the label and every chosen file are stored, once |
| `ImportMeansStored` | the success of an import is true of every row of the file, whatever others created between its passes |
| `CleanMeansKept` | a form that counts as unchanged holds what the server gave or took, not what was typed during a save |
| `FeaturedReleased`, `SavedShown` | the form of the release settings opens with a year it shows; its message stands over what was saved |
| `ExportsComplete` | every record and footer is in the PDF, no frame or signature runs over an edge or over another, no table is left empty; text stays in its row, or, split again by jsPDF, ends in the row below, above signature and footer; the archive's offsets are true |
| `WaitsEnd` | whatever disables a page's buttons ends |

Bounds of the back end. Three requests on one label are enough for each
conflict to happen with a third party: a removal and a deletion around an upload,
two uploads and a removal, a deadlock and a bystander; the same for the files of
an employee. Labels do not interact except through locks, which are per row;
`leaks` has two to show that. DPA versions are bounded by the number of requests,
since a request inserts at most one. For the organization, two bidang let a
master or a selection move; one row in each other table and two requests allow
every pair of operations on parent and child, and requests start again after
they end, so histories are unbounded. Symmetry is over requests, labels and
bidang, which the modules treat alike; `live` and the pages use none.

Bounds of the pages. Two loads in flight are enough for answers to overtake each
other, one delete beside them for its answer to meet another search; three
records on pages of two make the last page lose its only row. `session` has
two tabs because one tab's answers must meet another's logout, two users because a
role must be wrong for someone, two years for a switch, and `Visited` is empty:
all sections share the shell, and `MenuLeadsThere` and `ProxySettles` quantify
over all of them anyway. `public` needs two entries of history to go back, a year
with fewer regions for a selection without a row, and two pages for a page that
vanishes. In `internal`: 14 records, with texts of up to 60 lines, fill more than one page of
the sheet and force the signature onto a page of its own; two lines of a file and
four spellings let two rows be equal by key and not by index, or both; three files
are a stored one, its replacement and an added one; `huge` is a figure that exceeds
the column. Bounds named `Max...` and `Slot` cap what would be
unbounded: they limit the user and the environment, never an answer.

`leaks` is limited because the code does strand metadata and blobs otherwise:
a Delete misses an upload (`parent`), a ReplaceLPJ that races a DeleteLPJ
records a file that nothing lists (the zero-row UPDATE at
`repository/otsus.go:346`), and failed unlinks are only logged. For the same
reason `FilesAccounted` asks nothing once a client left, an unlink failed or the
server stopped, nor of the metadata of a photo: two uploads that read the same
photo both stay active.

Fairness of the back end. `FairSpec` asks for weak fairness of each request's own
steps, and only of those: a started handler is a goroutine that the Go runtime
schedules, PostgreSQL grants a lock that has become free and aborts one of two
transactions that wait for each other. Clients are not asked to send anything,
and faults need not occur. `RequestsFinish` fails if two requests wait for each
other for ever, which is what the deadlock detector ends (Delete locks files
before the label and ReplaceLPJ the label before a file), and if a handler
retries its failed transaction (`MutRetries`) instead of answering. In `live`
no request is cancelled, so no wait ends merely because the client gives up.

Fairness of the pages. A call that was sent is answered or fails (a `fetch`
settles), a timer fires, a navigation of the router arrives, and code that awaits
its own next step goes on (`Build`). Nothing is asked of users, of colleagues or of
one outcome over the other: a call may fail every time. Pages may come to rest
with nothing to do, so `internal`, `public`, `replaced` and `discard` do not check
deadlock; `WaitsEnd` and `PagesWaitEnd` say instead that no rest is a wait. The
regional page does wait for ever when it was opened while no year was published
(`Awaited`): there is no year then, and no load that could end the wait.

## What is proved

Each theorem is for all values of the constants under the assumptions below, and
checked by TLAPS. A run shows the same property on a small instance; every
safety property of a passing run (invariant, action property, refinement) has a
theorem. An invariant is seldom inductive as it stands; the text names the
strengthening and what it is for.

### Files of Otsus labels

`OtsusFilesProofs`. The assumption beside the theorem is a name of its own, for
without it the code does not keep the property.

| theorem | says | needs |
|---|---|---|
| `TypeCorrect` | `Spec => []TypeOK` | |
| `MetadataHasBinary` | `[]ActiveHasBlob` | `NoLostAck` |
| `ListingsReadable` | `[]ListedIsActive` | |
| `UploadsStayUnique` | `[]ChildrenUnique` | |
| `RegisterImplemented` | `RegisterSpec` | `NoLostAck` |
| `MetadataIsListed` | `[]ActiveIsListed` | `NoParentRemoval` |
| `NoBinaryStranded` | `[]BlobsAccounted` | `OnlyStatementsFail` |

`NoLostAck`: `lostack` is not in `Fault`; with it the handler unlinks the blob of
a row whose commit it takes for failed. A commit whose client leaves while it
waits is covered: the handler sees an error there too, but its clean-up fails
with the same cancelled context. `NoParentRemoval`: nobody deletes an LPJ or a
label, whose deletion a replacement or an upload races. `OnlyStatementsFail`: a
stop, a cancellation or a failed unlink leaves a blob behind.

* `FileInv`: what each request owes to storage. An upload that is not recorded has
  no row (`Unrecorded`) and, past `save`, has its blob (`BlobReady`); what a
  transaction dooms was recorded before (`DoomedRecorded`), so it is no upload in
  progress, and what a request unlinks after its commit is deleted in the
  database; a row has recorded metadata (`RowsRecorded`).
* `ListInv`: what a transaction has read stays true. A row's file names the row as
  its `related_entity_id`, and a doomed file that of the row it was read from
  (`RecordsInv`); a row lock has one holder, a label's row is not locked while it is
  shared, and a label that is worked on is locked or gone (`LocksInv`); what was
  counted under the label's lock is still so (`Counted`). `ChildrenUnique` rests on
  the label's lock alone.
* `StrandedInv`: the file of the row a transaction works on is the one it dooms.
* `BlobInv`: a blob belongs to an upload past its save.
* `RegisterImplemented` maps each commit to a step of `DocumentRegister` and every
  other statement to a stutter. The hard part is that a commit that fails, or finds no
  row any more, changes nothing a reader sees.

### Files of employees

`EmployeeFilesProofs`, under `NoFailedReread` (`reread` is not in `Fault`): `EmployeeTypeCorrect`
(without it), `EmployeeFilesAccounted`, `EmployeeRegisterImplemented`; and the same of
the run's specification, `PartFilesAccounted` and `PartRegisterImplemented`. Here
no row is locked before it is read, so the invariant may say nothing of who
holds what. `FileInv` says instead that a file belongs to one employee for ever
(`ListedBelongs`, `TouchesOwn`), that a file deleted never comes back, and that what is
unlinked is deleted already or its employee is gone (`UnlinksRetired`). `BlobsUsed`
adds, while nothing was `disturbed`, who is still to record or unlink a blob;
`OneTarget` that the deletion of a document works on one.

### Organization

`OrganizationProofs`: `RulesKeepHierarchy` (the rules keep `Hierarchy`, one change at a
time), `Implements` (`Spec => RulesSpec`), hence `HierarchyHolds`; `LocksNeverDeadlock`;
and, with the files beside it, `PartOrganization` in `EmployeeFilesProofs`.

`LocksProtect` is the inductive invariant `LockInv`. Its parts: the payload fits the
operation (`RequestInv`); the row a request works on is locked by it alone, or
new (`OwnInv`); and every check it made is still true (`CheckInv`). The last is the
heart: a commit of another request changes no row that this one has locked, and
refers to none that this one has locked FOR UPDATE (`OthersKeep`,
`CommitChecked`). A commit is therefore a step of the rules, and every other step
stutters. There is no deadlock because who waits, waits for a request that has come
further in the order own row, jabatan, seksi, bidang.

### Session

`SessionProofs`: `SessionTypeCorrect`, `RoleFollowsToken`, `LogoutFinal`, `RedirectsEnd`,
`LinksLeadThere`, for any tabs, users, years and calls in flight. `SessionInv` adds
that a login names its user and its year, and a switch its year (`CallsMeant`), which its answer
writes into both cookies; and that once `signedOut` no call in flight is a login
or a switch sent with a token (`NothingSets`), so none can set a cookie.

### Public pages

`DataWilayahPageProofs` has the regional page alone (`PageInv`), `PublicPagesProofs` the list
of labels (`ListInv`) and the run's specification (`PublicInv`): `PublicTypeCorrect`,
`PublicRowsFollowPeriod`, `PublicAddressFollowsPeriod`, `PublicAnswersKeepPeriod`,
`PublicShowsAddress`, `PublicFieldAgrees`, `PublicAnswersKeepChoices`.

* `PageInv`: the calls in flight are those of the effects' last run (`CallsNow`);
  rows of another period stand only during a load or under the error of the
  settings (`OldRowsMarked`).
* `ListInv`: only the load of the present address can still be answered
  (`AskedNow`); a field that the address does not say is followed by the timer or by a
  navigation that moves (`FieldFollowed`).

### Internal pages

The page alone, then the run's specification, in which any page is mounted
(`PagesInv` says that the mounted one keeps its own invariant).

| run's property | theorem | inductive invariant of the page |
|---|---|---|
| `PagesTypeOK` | `PagesTypeCorrect` | all of those below |
| `FeaturedReleased`, `SavedShown` | `ReleaseFeatured`, `ReleaseSavedShown`, `PagesReleaseShown` | `ReleaseInv` |
| `ImportMeansStored` | `ImportedIsStored`, `PagesImportMeansStored` | `ImportInv` |
| `CleanMeansKept` | `UnchangedIsKept`, `PagesCleanMeansKept` | `InitialKept`, `FormsInv` |
| `ExportsComplete` | `SheetFits`, `WorkbookOpens`, `PagesExportsComplete` | `SheetInv`, `ArchiveInv` |
| `ListsShowSearch` | `LabelsListed`, `RecordsListed`, `KampungShowsSearch`, `PagesShowSearch` | `DaftarInv`, `ListsInv`, `KampungInv` |
| `RowsMatch` | the same, `DocumentsFollowServer`, `FormFollowsList`, `SwitchesFollowServer`, `PagesRowsMatch` | the same, `PegawaiInv`, `FlagsInv` |
| `NoticeMeansSaved` | `NoticeIsTrue`, `PagesNoticeMeansSaved` | `NoticeInv` |

* `ReleaseInv`: a save in flight carries a form that the page's guards let
  through (`SaveSends`), which its answer then shows; no message stands during a
  load (`LoadQuiet`), whose answer sets the fields. `NormalizedReleased` is the lemma
  about `normalizeReleaseSettings`.
* `ImportInv`: when the insert begins, each row of the file that the dialog holds
  is among the rows to insert or is present (`FileAwaited`); after it, present
  (`FileStored`); present is what is listed, or what others deleted.
* `InitialKept`: the text a form is compared with is one the server gave or took.
  `FormsInv` keeps the calls finite, for they are counted.
* `PegawaiInv`: the list that is shown, with the answers on their way folded into
  it in whatever order, is the server's (`ListFollows`). For the order not to
  matter, ids are given once (`IdsIssued`), an uploaded document is not yet
  listed and no other call is about it (`AnswersFit`), and a dialog for one document
  is not opened during the delete of another (`DeleteModal`).
* `SheetInv`: what was drawn ends where its part of the page does, a begun table
  has its first row, and the document is announced when all rows and footers are
  drawn. `RowsAreLow` bounds a row by arithmetic on its lines: one always fits on a
  new page, its text ends within it, and twice as many lines less than 7 mm below,
  which is less than the next row's height and than the space above the footer.
* `ArchiveInv`: the offset that the loop carries is the length of the parts so
  far, and each entry was given what came before it. `Bytes` sums a sequence by
  recursion. That the recursion defines it (`BytesUnfolded`) is an induction over
  the length, which `InternalPagesProofs` does by hand: of the lengths for which it
  failed, `LeastNumber` gives the least.
* `DaftarInv`, `ListsInv`: the rows shown are the server's but for the one that a
  delete has taken on the server and whose answer is on its way (`Deleting`,
  `Going`).
* `KampungInv`: of the loads in flight one at most may still show its answer, and
  the list waits for it (`LoadsFollow`); it is for the search in the field unless
  the timer runs (`SearchFollowed`).
* `FlagsInv`: unless the flag of a document cannot be known, one call at most is
  about it, and the page with the effects it is still to be told of (`Known`) is
  the server's.
* `NoticeInv`: what is left to call is the end of what was to be called
  (`ChainInv`), no call is about a file that a submit stored (`NewInv`), and the
  submit's files are stored as often as they were sent (`StoredInv`).

### Assumptions

Those of the modules, each named where the constants are declared and evaluated
by TLC in the runs: `Op` and `Fault` are among the known ones, `None` is none of the
values it stands beside, the tables' ids are disjoint, tables that the code has as
functions are functions (`RegionsOf`, `Matches`, `Has`, `RoleOf`), hierarchies equal for the
index have equal keys (`ImportAssumption`), and bounds are numbers. Two are about size: a nonempty set of years has a latest one
(`ReleaseAssumption`; `OtsusPageAssumption` has a finite `Year`), and a server's list is
finite (`KampungAssumption`, `ListsAssumption`). The assumptions with a name of their own
are the four above: `NoLostAck`, `NoParentRemoval`, `OnlyStatementsFail`, `NoFailedReread`.

### Only model-checked

Liveness under fairness is out of the prover's reach: `RequestsFinish`, `TabsRecover`,
`PagesWaitEnd` and `WaitsEnd` are checked on their runs' instances only, as are the five
disagreements below, which are counterexamples and need no proof.

## Disagreements with the documents

* `parent`: docs/02_FILE_UPLOAD_STORAGE_RULES.md:111. Delete reads the storage
  keys before anything locks the label; an upload that commits in between
  leaves an active metadata row and a blob behind.
* `orphan`: docs/02_FILE_UPLOAD_STORAGE_RULES.md:165 and :76. The clean-up of a
  failed upload uses the request's context, which is cancelled when the
  client's departure is what made the transaction fail.
* `inactive`: docs/04_STRUKTUR_ORGANISASI_PEGAWAI.md:13. An employee who keeps
  an inactive bidang can be given a new seksi of it.
* `replaced`: components/otsus/otsus-form.tsx:50. A publication switch that is
  served after the LPJ it was pressed for was replaced publishes the replacement.
* `discard`: docs/01_UI_UX_RULES_SHADCN.md:342. Batal and the closing of the tab
  ask; a link of the breadcrumb or the sidebar does not.

## Plan

Every safety property of a passing run is proved. What is left, in this order:

1. Hazards of `PROJECT.json` that no property covers: the files of kelompok binaan
   and capaian/kendala, whose lists are updated from a read without a lock
   (`repository/capaian_kendala.go:125`), and the settings row that readers
   normalise and save (`repository/data_wilayah.go:361`).
2. What may stay behind when a client leaves, an unlink fails or the server stops,
   where `BlobsAccounted` and `FilesAccounted` say nothing: an invariant that bounds
   it to blobs without active metadata, of requests that have ended.
3. A register for `OtsusForm`: its `Stored` and `Effect` as steps of `DocumentRegister`,
   so that the form and the handlers are about one abstract object.

## Not modelled

Back end:

* Accounts and tokens: stateless tokens and single statements; two administrators
  who demote each other at the same time are listed as a hazard only.
* The SQL sums of data wilayah, the seeding of a year, start-up: aggregation and
  fixed sequences.
* The steps inside `writeAtomic` (a Save is one step), the format checks, serving a
  file against its removal.
* The files of kelompok binaan and capaian/kendala, whose lists follow the pattern
  of `OtsusFiles` with one row per report.
* The fields of a label, the update of a subkegiatan, create and update of data
  kampung, BUM kampung, kab/kota: single statements on independent rows.
* `lostack` and `reread` are modelled, but the code keeps none of its safety under
  them: only `live` runs with `lostack`, no run with `reread`.

Front end:

* A reload of the tab, and the year at the time of a save, in `RegionForms`; leaving
  the Otsus form by a link during a submit.
* The load of the kab/kota master and the inline forms behind
  `legacyInlineCrudEnabled = false` of data kampung; how the archive groups its rows;
  the forms of kelompok, capaian and BUM kampung; the list page of subkegiatan.
* The drawing of the letterhead, the XML of the sheet and its CRC; `lib/xlsx.ts`,
  which nothing calls.
* The forms of users, masters and employees: one submit and one navigation each.
  The dashboard's counters, the home and profile pages, the UI components and the
  BFF's forwarding: rendering and copying.
* The map's hovering, zooming and figures; which groups of the menu are unfolded.
