--------------------------- MODULE SubkegiatanImport ---------------------------
(***************************************************************************)
(* Importing subkegiatan from a workbook: the dialog that previews a file  *)
(* and then imports it, and the server's two passes over it, each against  *)
(* the rows it lists then.  The insertion is one transaction under a unique*)
(* index.  Others create and delete subkegiatan at any time.               *)
(***************************************************************************)
EXTENDS Naturals, FiniteSets

CONSTANTS
    Row,       \* hierarchies, as they are written
    KeyOf,     \* hierarchyKey: without case and repeated blanks
    IndexOf,   \* what the unique index compares: without case
    MaxLines,  \* bound: the rows of a file
    None       \* a hierarchy with an empty cell

ImportAssumption ==
    /\ DOMAIN KeyOf = Row /\ DOMAIN IndexOf = Row /\ MaxLines \in Nat
    /\ None \notin Row \cup {"preview", "import", "insert", "imported", "failed"}
    /\ \A r, q \in Row : IndexOf[r] = IndexOf[q] => KeyOf[r] = KeyOf[q]

File   == UNION {[1..n -> Row \cup {None}] : n \in 1..MaxLines}
NoFile == <<>>

VARIABLES
    table,     \* the table subkegiatan
    open, file, preview, error, success,
    call,      \* the call in flight: processing says whether there is one
    valid,     \* the rows the server is about to insert
    gone       \* history: keys of rows deleted by others in the meantime

dialog == <<open, file, preview, error, success>>
vars   == <<table, dialog, call, valid, gone>>

\* What a preview counts.
Preview == [valid : 0..MaxLines, existing : 0..MaxLines, errors : 0..MaxLines]

TypeOK ==
    /\ table \subseteq Row /\ open \in BOOLEAN /\ file \in File \cup {NoFile}
    /\ preview \in Preview \cup {None} /\ error \in BOOLEAN /\ success \in BOOLEAN
    /\ call \in {None, "preview", "import", "insert", "imported", "failed"}
    /\ valid \subseteq Row /\ gone \subseteq {KeyOf[r] : r \in Row}

Init ==
    /\ table \in SUBSET Row /\ \A r, q \in table : IndexOf[r] = IndexOf[q] => r = q
    /\ open = FALSE /\ file = NoFile /\ preview = None /\ error = FALSE /\ success = FALSE
    /\ call = None /\ valid = {} /\ gone = {}

-----------------------------------------------------------------------------
(* Service.Preview: every row is an error, existing, or valid.               *)

Twice(f, i) == f[i] # None /\ \E j \in DOMAIN f : j # i /\ f[j] # None /\ KeyOf[f[j]] = KeyOf[f[i]]
Known(row)  == KeyOf[row] \in {KeyOf[r] : r \in table}

Status(f, i) ==
    IF f[i] = None \/ Twice(f, i) THEN "error" ELSE IF Known(f[i]) THEN "existing" ELSE "valid"
Count(f, status) == Cardinality({i \in DOMAIN f : Status(f, i) = status})
Counts(f) == [valid |-> Count(f, "valid"), existing |-> Count(f, "existing"), errors |-> Count(f, "error")]

\* The rows the import will insert; no two of them have one key.
Valid(f) == {f[i] : i \in {j \in DOMAIN f : Status(f, j) = "valid"}}

-----------------------------------------------------------------------------
(* The dialog.                                                               *)

OpenDialog ==
    /\ ~open /\ open' = TRUE
    /\ UNCHANGED <<table, file, preview, error, success, call, valid, gone>>

\* chooseFile: a file of another type or size is an error, and no file.
ChooseFile(f) ==
    /\ open /\ call = None
    /\ file' = f /\ preview' = None /\ success' = FALSE
    /\ error' \in {FALSE, f = NoFile}
    /\ UNCHANGED <<table, open, call, valid, gone>>

\* changeOpen(false) resets.
CloseDialog ==
    /\ open /\ call = None
    /\ open' = FALSE /\ file' = NoFile /\ preview' = None /\ error' = FALSE /\ success' = FALSE
    /\ UNCHANGED <<table, call, valid, gone>>

ProcessPreview ==
    /\ open /\ call = None /\ preview = None /\ file # NoFile
    /\ call' = "preview" /\ error' = FALSE /\ success' = FALSE
    /\ UNCHANGED <<table, open, file, preview, valid, gone>>

CommitImport ==
    /\ open /\ call = None /\ preview # None /\ ~success
    /\ preview.errors = 0 /\ preview.valid > 0
    /\ call' = "import" /\ error' = FALSE /\ gone' = {}
    /\ UNCHANGED <<table, open, file, preview, success, valid>>

-----------------------------------------------------------------------------
(* The server.                                                               *)

Previewed ==
    /\ call = "preview" /\ call' = None /\ preview' = Counts(file)
    /\ UNCHANGED <<table, open, file, error, success, valid, gone>>

\* Service.Import previews again, against the rows of now.
Listed ==
    /\ call = "import" /\ Count(file, "error") = 0
    /\ valid' = Valid(file) /\ call' = "insert"
    /\ UNCHANGED <<table, dialog, gone>>

Create(r) ==
    /\ \A q \in table : IndexOf[q] # IndexOf[r]
    /\ table' = table \cup {r}
    /\ UNCHANGED <<dialog, call, valid, gone>>
Delete(r) ==
    /\ r \in table /\ table' = table \ {r} /\ gone' = gone \cup {KeyOf[r]}
    /\ UNCHANGED <<dialog, call, valid>>

\* SubkegiatanRepository.Import: the index takes all rows, or none is kept.
Conflict == \E r \in valid, q \in table : IndexOf[q] = IndexOf[r]
MutInsert ==
    /\ call = "insert"
    /\ table' = IF Conflict THEN table ELSE table \cup valid
    /\ call' \in {"imported", "failed"} /\ valid' = {}
    /\ UNCHANGED <<dialog, gone>>
Insert ==
    /\ call = "insert" /\ ~Conflict
    /\ table' = table \cup valid
    /\ call' \in {"imported", "failed"} /\ valid' = {}
    /\ UNCHANGED <<dialog, gone>>

\* A conflict, or any other failure.
CallFails ==
    /\ call \in {"preview", "import", "insert"} /\ call' = "failed" /\ valid' = {}
    /\ UNCHANGED <<table, dialog, gone>>

-----------------------------------------------------------------------------
Imported ==
    /\ call = "imported" /\ call' = None /\ success' = TRUE
    /\ UNCHANGED <<table, open, file, preview, error, valid, gone>>
ShowError ==
    /\ call = "failed" /\ call' = None /\ error' = TRUE
    /\ UNCHANGED <<table, open, file, preview, success, valid, gone>>

CallStep == Previewed \/ Listed \/ Insert \/ CallFails \/ Imported \/ ShowError

Next ==
    \/ OpenDialog \/ CloseDialog \/ ProcessPreview \/ CommitImport
    \/ \E f \in File \cup {NoFile} : ChooseFile(f)
    \/ \E r \in Row : Create(r) \/ Delete(r)
    \/ CallStep

\* A call is answered or fails.
Fairness == WF_vars(CallStep)
Spec == Init /\ [][Next]_vars /\ Fairness

-----------------------------------------------------------------------------
\* The success shown is true: every row of the file is in the table, by its key,
\* although others created rows after the preview and between the server's two
\* passes, or an earlier import took effect and was answered with an error (unless
\* others have deleted it meanwhile).
ImportMeansStored == success =>
    \A i \in DOMAIN file : file[i] # None /\ (Known(file[i]) \/ KeyOf[file[i]] \in gone)

\* The dialog cannot be closed during a call, which ends.
Waiting == call # None
===============================================================================
