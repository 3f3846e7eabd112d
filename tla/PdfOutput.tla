------------------------------ MODULE PdfOutput ------------------------------
(***************************************************************************)
(* The PDFs of a thread: nga_tools/backup/pdf.py and pdf_plan.py.  Floors  *)
(* are cut into parts; a part is an HTML file and the PDF rendered from it *)
(* by a process of its own, and is named by its first and last floor.  A   *)
(* part whose HTML has the hash in the manifest is not rendered again.     *)
(*                                                                         *)
(* A run holds the lock of the folder (ThreadBatch).  The texts of the     *)
(* floors change when the archive does; a hash stands for what it hashes.  *)
(* A renderer that ends well has written the whole PDF.                    *)
(***************************************************************************)
EXTENDS Integers

CONSTANTS MaxFloors, Texts, Sizes,  \* Sizes: values of --lou_per_pdf
          PdfFaults,                \* bound: failed parts, kills, damaged files
          MaxTextEdits,             \* bound: texts changed
          None,
          Damaged,                  \* a file that does not begin like a PDF
          Cut                       \* one that does, and is not whole

VARIABLES
  text,                  \* the text of each floor; None beyond the last
  manifest, html, pdf,   \* part -> hash, text, text rendered; None without one
  run,                   \* None, or what the running command knows
  unrecorded,            \* history: parts rendered by runs that wrote no manifest
  pdfFaults, edits

pdfVars == <<text, manifest, html, pdf, run, unrecorded, pdfFaults, edits>>

Names == (0..MaxFloors) \X (0..MaxFloors)
Floors == 0..(MaxFloors - 1)

\* What a part shows, and what a command knows.
Shown == UNION {[D -> Texts] : D \in SUBSET Floors}
Runs ==
  [todo : SUBSET Names, done : SUBSET Names, failed : BOOLEAN,
   read : [Floors -> Texts \union {None}], hashes : [Names -> Shown \union {None}]]

ASSUME PdfAssumption ==
  /\ MaxFloors \in Nat \ {0} /\ PdfFaults \in Nat /\ Sizes \subseteq Nat \ {0}
  /\ Texts # {} /\ None \notin Texts \union Shown \union Runs

Holds(name, l) == name[1] <= l /\ l <= name[2]
NumFloors == CHOOSE n \in 0..MaxFloors : \A l \in Floors : l < n <=> text[l] # None

PdfInit ==
  /\ text = [l \in Floors |-> IF l = 0 THEN CHOOSE x \in Texts : TRUE ELSE None]
  /\ manifest = [p \in Names |-> None] /\ html = manifest /\ pdf = manifest
  /\ run = None /\ unrecorded = {} /\ pdfFaults = 0 /\ edits = 0

-----------------------------------------------------------------------------
\* render_pdf_html
Html(name) == [l \in {k \in 0..(NumFloors - 1) : Holds(name, k)} |-> text[l]]

\* Mutant: whole parts only.
WholeParts(size) ==
  {<<(i - 1) * size, i * size - 1>> : i \in 1..(NumFloors \div size)}
\* The parts of build_render_tasks, whose last floor is the number of floors at most.
Parts(size) ==
  LET start(i) == (i - 1) * size
      end(i) == IF i * size - 1 < NumFloors THEN i * size - 1 ELSE NumFloors
      index == {i \in 1..(NumFloors \div size + 1) :
                  \A k \in 1..i : start(k) <= end(k)}
  IN {<<start(i), end(i)>> : i \in index}

\* pdf_file_is_usable: only the beginning of the file is looked at.
Usable(p) == pdf[p] \notin {None, Damaged}

\* Mutant: the file itself is not looked at.
IsCurrentByHash(p) == manifest[p] = Html(p)
IsCurrent(p) == manifest[p] = Html(p) /\ Usable(p)

\* Mutant: files of former parts stay.
KeepAll(files, parts) == files
\* cleanup_stale_pdf_parts
Cleaned(files, parts) == [p \in Names |-> IF p \in parts THEN files[p] ELSE None]

\* _read_pdf_html and build_render_tasks.
Plan(size) ==
  LET parts == Parts(size) IN
  /\ run = None
  /\ html' = [p \in Names |-> IF p \in parts THEN Html(p) ELSE Cleaned(html, parts)[p]]
  /\ pdf' = Cleaned(pdf, parts)
  /\ run' = [todo |-> {p \in parts : ~IsCurrent(p)}, done |-> {}, failed |-> FALSE,
             read |-> text,
             hashes |-> [p \in Names |-> IF p \in parts THEN Html(p) ELSE None]]
  /\ UNCHANGED <<text, manifest, unrecorded, pdfFaults, edits>>

\* _run_pdf_renderer: to a temporary file that then takes the PDF's place, or the
\* process fails, its file is unusable, or the replacement fails.
Render(p) ==
  /\ run # None /\ p \in run.todo
  /\ \/ /\ pdf' = [pdf EXCEPT ![p] = html[p]]
        /\ run' = [run EXCEPT !.todo = @ \ {p}, !.done = @ \union {p}]
        /\ UNCHANGED pdfFaults
     \/ /\ pdfFaults < PdfFaults /\ pdfFaults' = pdfFaults + 1
        /\ run' = [run EXCEPT !.todo = @ \ {p}, !.failed = TRUE]
        /\ UNCHANGED pdf
  /\ UNCHANGED <<text, manifest, html, unrecorded, edits>>

\* generate_pdf: the hashes of all parts, if all that were to be rendered were.
Record ==
  /\ run # None /\ run.todo = {} /\ ~run.failed
  /\ manifest' = run.hashes /\ unrecorded' = unrecorded \ run.done
  /\ run' = None
  /\ UNCHANGED <<text, html, pdf, pdfFaults, edits>>

Refuse ==
  /\ run # None /\ run.todo = {} /\ run.failed
  /\ run' = None /\ unrecorded' = unrecorded \union run.done
  /\ UNCHANGED <<text, manifest, html, pdf, pdfFaults, edits>>

KillRun ==
  /\ run # None /\ pdfFaults < PdfFaults /\ pdfFaults' = pdfFaults + 1
  /\ run' = None /\ unrecorded' = unrecorded \union run.done
  /\ UNCHANGED <<text, manifest, html, pdf, edits>>

-----------------------------------------------------------------------------
\* A floor is added or gets another text, in the archive or by an overlay.
EditText(l, x) ==
  /\ edits < MaxTextEdits /\ edits' = edits + 1
  /\ l <= NumFloors /\ text[l] # x
  /\ text' = [text EXCEPT ![l] = x]
  /\ UNCHANGED <<manifest, html, pdf, run, unrecorded, pdfFaults>>

\* Between two runs a PDF is overwritten, cut short, with its beginning or without, or
\* deleted.
Damage(p) ==
  /\ pdfFaults < PdfFaults /\ pdfFaults' = pdfFaults + 1
  /\ run = None /\ pdf[p] # None
  /\ \E left \in {None, Damaged, Cut} : pdf' = [pdf EXCEPT ![p] = left]
  /\ UNCHANGED <<text, manifest, html, run, unrecorded, edits>>

PdfNext ==
  \/ \E size \in Sizes : Plan(size)
  \/ \E p \in Names : Render(p) \/ Damage(p)
  \/ Record \/ Refuse \/ KillRun
  \/ \E l \in Floors, x \in Texts : EditText(l, x)

PdfSpec == PdfInit /\ [][PdfNext]_pdfVars

-----------------------------------------------------------------------------

Succeeds == run # None /\ run' = None /\ run.todo = {} /\ ~run.failed /\ pdfFaults' = pdfFaults

\* When a run succeeds, exactly one PDF in the folder holds each floor, and it
\* shows the texts the run has read: whatever part size, number of floors, kill,
\* failed part, deleted PDF or PDF without a PDF's beginning came before.  Two kinds
\* of parts are excepted if the run has not rendered them: those that a run without
\* success has replaced, whose hashes are those of former PDFs, and those that were
\* cut behind their beginning, which nobody reads.
\* (build_render_tasks, pdf_file_is_usable, generate_pdf, pdf_plan.py and pdf.py.)
PdfsAreCurrent ==
  [][Succeeds =>
       \A l \in Floors : run.read[l] # None =>
         \E p \in Names :
           /\ {q \in Names : pdf[q] # None /\ Holds(q, l)} = {p}
           /\ \/ p \notin run.done /\ (p \in unrecorded \/ pdf[p] = Cut)
              \/ pdf[p] \in Shown /\ pdf[p][l] = run.read[l]]_pdfVars
=============================================================================
