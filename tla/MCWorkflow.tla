----------------------------- MODULE MCWorkflow -----------------------------
(* Small instances of Workflow: amounts of one and three, two days. *)
EXTENDS Workflow

File(content, suffix, opens, letters, pages) ==
    [content |-> content, suffix |-> suffix, opens |-> opens,
     letters |-> letters, pages |-> pages]

(* A text, a scan too long, a scan that says little, blank pages whose     *)
(* newlines reach the threshold, documents without text, and refusals.     *)
MCFiles == {File("pdf", "pdf", TRUE, 3, 1), File("pdf", "pdf", TRUE, 0, 2),
            File("generic", "pdf", TRUE, 1, 1), File("pdf", "other", TRUE, 0, 4),
            File("docx", "docx", TRUE, 0, 1), File("image", "image", TRUE, 0, 1),
            File("pdf", "pdf", FALSE, 3, 1), File("other", "pdf", TRUE, 3, 1)}

MCCells == {NoCell, Cell(Garbled, "found"), Cell(1, "absent"), Cell(1, "blank"),
            Cell(1, "found"), Cell(3, "found")}

Day(day, aware) == [day |-> day, aware |-> aware]
MCDateCells == {NoCell, Cell(Garbled, "found"), Cell(Day(1, FALSE), "found"),
                Cell(Day(2, FALSE), "found"), Cell(Day(2, FALSE), "none"),
                Cell(Day(2, FALSE), "blank"), Cell(Day(1, TRUE), "found")}

Rest(missing, invalid, secrets) ==
    [missing |-> missing, invalid |-> invalid, secrets |-> secrets]
MCRests == {Unremarkable, Rest(FALSE, FALSE, TRUE), Rest(FALSE, TRUE, FALSE), Rest(TRUE, TRUE, TRUE)}
=============================================================================
