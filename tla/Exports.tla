-------------------------------- MODULE Exports --------------------------------
(***************************************************************************)
(* The two files the lists are exported to, each written by its own code:  *)
(* the sheet of approval of the kelompok binaan, a PDF laid out page by    *)
(* page, and the workbook of the BUM kampung, a ZIP archive whose central  *)
(* directory says where each entry is.  Lengths of the PDF are in tenths   *)
(* of a millimetre, of the archive in bytes.                               *)
(***************************************************************************)
EXTENDS Naturals, Sequences, FiniteSetsExt, SequencesExt

CONSTANTS
    MaxRows,    \* bound: records of the sheet
    TextLines,  \* the lines a cell's text would take
    Length,     \* bound: lengths of the entries' contents
    None

ExportsAssumption == MaxRows \in Nat /\ TextLines \subseteq Nat \ {0} /\ Length \subseteq Nat

VARIABLES
    kind,           \* which export
    phase,          \* how far it is: exportingPdf while it is not "idle"
    rows,           \* the records of the list
    doc,            \* the document, while it is laid out and after
    zip,            \* the archive
    message, error

vars == <<kind, phase, rows, doc, zip, message, error>>

PageHeight  == 2100
TableBottom == PageHeight - 200
FooterLine  == PageHeight - 130

\* cursor: cursorY; tables, filled: pages with a table's header, and with a row;
\* top, bottom: of the frame drawn last; above: where the page was free then; text:
\* where the text of the rows ends on the page; split: the last row's was split again.
Doc == [pages : Nat, cursor : Nat, tables : Nat, filled : Nat, onPage : Nat, drawn : Nat,
        above : Nat, top : Nat, bottom : Nat, text : Nat, split : BOOLEAN, footers : Nat]
Archive == [parts : Seq(Nat), central : Seq([path : Nat, size : Nat, offset : Nat]),
        offset : Nat, end : {None} \cup [size : Nat, offset : Nat]]

NoDoc == [pages |-> 0, cursor |-> 0, tables |-> 0, filled |-> 0, onPage |-> 0, drawn |-> 0,
          above |-> 0, top |-> 0, bottom |-> 0, text |-> 0, split |-> FALSE, footers |-> 0]
NoZip == [parts |-> <<>>, central |-> <<>>, offset |-> 0, end |-> None]

TypeOK ==
    /\ kind \in {"pdf", "xlsx"}
    /\ phase \in {"idle", "logo", "rows", "footers", "entries"}
    /\ rows \in 0..MaxRows /\ doc \in Doc /\ zip \in Archive
    /\ message \in BOOLEAN /\ error \in BOOLEAN

Init ==
    /\ kind \in {"pdf", "xlsx"} /\ phase = "idle" /\ rows \in 0..MaxRows
    /\ doc = NoDoc /\ zip = NoZip /\ message = FALSE /\ error = FALSE

-----------------------------------------------------------------------------
\* handleDownloadPdf, whose button is disabled while it runs; the logo is awaited.
DownloadPdf ==
    /\ kind = "pdf" /\ phase = "idle" /\ rows # 0
    /\ phase' = "logo" /\ doc' = NoDoc /\ message' = FALSE /\ error' = FALSE
    /\ UNCHANGED <<kind, rows, zip>>

IntroEnd == 970  \* addPdfDocumentIntro: 42 + 6 + 7 + 8 + 3 * 5 + 2 + 17 mm
TableStart(y) == y + 90

\* The first page: letterhead, intro and the header of the table, with the logo
\* or without it.
StartDocument ==
    /\ phase = "logo" /\ phase' = "rows"
    /\ doc' = [NoDoc EXCEPT !.pages = 1, !.tables = 1, !.cursor = TableStart(IntroEnd + 50)]
    /\ UNCHANGED <<kind, rows, zip, message, error>>

\* fitPdfTextLines, and the height of a row whose widest cells of at most two
\* and three lines would take so many.
MutFitted(lines, maxLines) == lines
Fitted(lines, maxLines) == Min({lines, maxLines})
Lines(two, three) == Max({Fitted(two, 2), Fitted(three, 3)})
LeastHeight == 80
MutRowHeight(two, three) == Max({LeastHeight, 33 * Lines(two, three)})
RowHeight(two, three) == Max({LeastHeight, 33 * Lines(two, three) + 30})

\* The lines are fitted to the cell's width less 2 mm, and drawn with a maxWidth of 1 mm
\* less: doc.text splits those that do not fit it once more, each into two.
Redrawn(lines) == lines..(2 * lines)

\* Where so many lines of 6.4 points end below the top of their row: they begin 4 mm
\* below it, and follow each other at 1.15 times their size.
TextEnd(lines) == 41 + 26 * lines

DrawRow(two, three) ==
    /\ phase = "rows" /\ doc.drawn < rows
    /\ LET height == RowHeight(two, three)
           breaks == doc.cursor + height > TableBottom
           top    == IF breaks THEN TableStart(310) ELSE doc.cursor
           added  == IF breaks THEN 1 ELSE 0
           first  == breaks \/ doc.onPage = 0
       IN \E lines \in Redrawn(Lines(two, three)) :
          doc' = [doc EXCEPT !.pages = @ + added, !.tables = @ + added,
                             !.filled = IF first THEN @ + 1 ELSE @,
                             !.onPage = IF breaks THEN 1 ELSE @ + 1,
                             !.drawn = @ + 1, !.cursor = top + height,
                             !.above = top, !.top = top, !.bottom = top + height,
                             !.text = Max({IF breaks THEN 0 ELSE @, top + TextEnd(lines)}),
                             !.split = lines > Lines(two, three)]
    /\ UNCHANGED <<kind, phase, rows, zip, message, error>>

\* addPdfSignatureBlock: on the last page, or on one of its own.
MutSign ==
    /\ phase = "rows" /\ doc.drawn = rows /\ phase' = "footers"
    /\ doc' = [doc EXCEPT !.above = Max({doc.cursor, doc.text}), !.top = doc.cursor + 110,
                         !.bottom = doc.cursor + 650]
    /\ UNCHANGED <<kind, rows, zip, message, error>>
Sign ==
    /\ phase = "rows" /\ doc.drawn = rows /\ phase' = "footers"
    /\ LET breaks == doc.cursor + 110 + 580 > FooterLine
           top    == IF breaks THEN 380 ELSE doc.cursor + 110
       IN doc' = [doc EXCEPT !.pages = IF breaks THEN @ + 1 ELSE @,
                             !.above = IF breaks THEN 230 ELSE Max({doc.cursor, doc.text}),
                             !.top = top, !.bottom = top + 540]
    /\ UNCHANGED <<kind, rows, zip, message, error>>

\* addPdfFooters, a page at a time, and the file is saved.
AddFooter ==
    /\ phase = "footers" /\ doc.footers < doc.pages
    /\ doc' = [doc EXCEPT !.footers = @ + 1]
    /\ UNCHANGED <<kind, phase, rows, zip, message, error>>
SavePdf ==
    /\ phase = "footers" /\ doc.footers = doc.pages
    /\ phase' = "idle" /\ message' = TRUE
    /\ UNCHANGED <<kind, rows, doc, zip, error>>

\* A step of the library throws.
PdfFails ==
    /\ phase \in {"logo", "rows", "footers"}
    /\ phase' = "idle" /\ error' = TRUE
    /\ UNCHANGED <<kind, rows, doc, zip, message>>

-----------------------------------------------------------------------------
\* The names of the entries: [Content_Types].xml .. xl/worksheets/sheet1.xml.
Paths == <<19, 11, 15, 26, 13, 24>>

\* The length of what concatUint8Arrays makes of arrays of such lengths: a recursion, so
\* that a proof can unfold it, where the code counts in a loop.
Bytes[lengths \in Seq(Nat)] ==
    IF lengths = <<>> THEN 0 ELSE Bytes[Front(lengths)] + Last(lengths)

\* downloadBumKamXlsx, whose button is disabled for an empty list.
DownloadXlsx ==
    /\ kind = "xlsx" /\ phase = "idle" /\ rows # 0
    /\ phase' = "entries" /\ zip' = NoZip
    /\ UNCHANGED <<kind, rows, doc, message, error>>

\* The bytes createZip gets for a content of so many characters: those of the
\* sheet hold names, which may take two bytes a character.
Encoded(entry, chars) == IF entry = Len(Paths) THEN {chars, 2 * chars} ELSE {chars}

\* A turn of createZip's loop: a local header, the content, a central header.
MutAddEntry(chars) ==
    /\ phase = "entries" /\ Len(zip.central) < Len(Paths)
    /\ LET entry == Len(zip.central) + 1 IN
       \E bytes \in Encoded(entry, chars) :
         zip' = [zip EXCEPT !.parts = @ \o <<30 + Paths[entry], bytes>>,
                            !.central = Append(@, [path |-> Paths[entry], size |-> chars,
                                                   offset |-> zip.offset]),
                            !.offset = @ + 30 + Paths[entry] + chars]
    /\ UNCHANGED <<kind, phase, rows, doc, message, error>>
AddEntry(chars) ==
    /\ phase = "entries" /\ Len(zip.central) < Len(Paths)
    /\ LET entry == Len(zip.central) + 1 IN
       \E bytes \in Encoded(entry, chars) :
         zip' = [zip EXCEPT !.parts = @ \o <<30 + Paths[entry], bytes>>,
                            !.central = Append(@, [path |-> Paths[entry], size |-> bytes,
                                                   offset |-> zip.offset]),
                            !.offset = @ + 30 + Paths[entry] + bytes]
    /\ UNCHANGED <<kind, phase, rows, doc, message, error>>

\* The central headers together, which reduce counts.
DirectorySize == Bytes[[i \in DOMAIN zip.central |-> 46 + zip.central[i].path]]

\* The end record, and the file is saved.
EndZip ==
    /\ phase = "entries" /\ Len(zip.central) = Len(Paths)
    /\ phase' = "idle"
    /\ zip' = [zip EXCEPT !.end = [size |-> DirectorySize, offset |-> zip.offset]]
    /\ UNCHANGED <<kind, rows, doc, message, error>>

Build ==
    \/ StartDocument \/ Sign \/ AddFooter \/ SavePdf \/ PdfFails \/ EndZip
    \/ \E two, three \in TextLines : DrawRow(two, three)
    \/ \E chars \in Length : AddEntry(chars)

Next == DownloadPdf \/ DownloadXlsx \/ Build

Fairness == WF_vars(Build)

Spec == Init /\ [][Next]_vars /\ Fairness

-----------------------------------------------------------------------------
\* Whatever lengths the names have, no row's frame and no signature runs over the end
\* of its page or over what is above it, no table is left without a row, and the file
\* that is saved has every record and a footer on every page.  The text of a row ends
\* within its frame unless doc.text splits a line of it again: then it may run over the
\* row below, but not past the frame of that one, nor into the signature or the footer.
SheetComplete ==
    /\ doc.top >= doc.above
    /\ doc.bottom <= IF phase = "rows" THEN TableBottom ELSE FooterLine
    /\ doc.text <= FooterLine
    /\ doc.text <= doc.cursor + IF doc.split THEN LeastHeight ELSE 0
    /\ doc.drawn > 0 => doc.filled = doc.tables
    /\ message => doc.drawn = rows /\ doc.footers = doc.pages

\* Where concatUint8Arrays puts the parts: what precedes the given one.
Before(part) == Bytes[SubSeq(zip.parts, 1, part - 1)]

\* The central directory finds every entry, and the end record the directory,
\* where the concatenation puts them.
EntriesFound ==
    /\ \A i \in DOMAIN zip.central :
         zip.central[i].offset = Before(2 * i - 1) /\ zip.central[i].size = zip.parts[2 * i]
    /\ zip.end # None => zip.end.offset = Before(Len(zip.parts) + 1)

\* exportingPdf does not stay set.
Waiting == phase # "idle"
===============================================================================
