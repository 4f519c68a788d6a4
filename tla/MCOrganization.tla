---------------------------- MODULE MCOrganization -----------------------------
(***************************************************************************)
(* The two parts of the employees' back end: the masters an employee       *)
(* selects, and the files he has.  They share no table but arsip_pegawai,  *)
(* of which each uses its own columns: a behaviour is one of them.         *)
(***************************************************************************)
EXTENDS Organization, TLC

CONSTANTS FileRequest, Fault

VARIABLES
    part,
    employee, photo, document, file, blob, at, asked, emp, doomed, keys,
    cancelled, disturbed

Files == INSTANCE EmployeeFiles WITH Request <- FileRequest, pc <- at, op <- asked

ASSUME MCAssumption == Files!EmployeeFilesAssumption

files  == <<employee, photo, document, file, blob, at, asked, emp, doomed, keys,
            cancelled, disturbed>>
mcvars == <<part, vars, files>>

MCInit == part \in {"masters", "files"} /\ Init /\ Files!Init

MCNext ==
    /\ UNCHANGED part
    /\ \/ part = "masters" /\ Next /\ UNCHANGED files
       \/ part = "files" /\ Files!Next /\ UNCHANGED vars

MCSpec == MCInit /\ [][MCNext]_mcvars

\* Readers see the photo and the documents of an employee change by whole steps.
PhotosAndDocuments == Files!RegisterSpec

\* The files of an employee are of their types, listed, and in storage.
FilesAccounted == Files!TypeOK /\ Files!FilesAccounted

Symmetry == Permutations(Request) \cup Permutations(Bidang) \cup Permutations(FileRequest)
===============================================================================
