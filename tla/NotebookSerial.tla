--------------------------- MODULE NotebookSerial ---------------------------
(***************************************************************************)
(* NotebookStore when no two requests are past their checks on the same    *)
(* notebook: what a client gets that waits for one write to be answered    *)
(* before it sends the next, and what everyone would get if get_owned took *)
(* a row lock in the write paths.  Reads stay unrestricted, and so do      *)
(* aborts and crashes.  Under this condition the several steps of a        *)
(* request implement the atomic service of NotebookAtomic.                 *)
(***************************************************************************)
EXTENDS NotebookStore

NoOverlap ==
    \A r1, r2 \in Requests :
        ( /\ InTransaction(r1)
          /\ InTransaction(r2)
          /\ call[r1].nb = call[r2].nb ) => r1 = r2

SerialNext == Next /\ NoOverlap'

SerialSpec == Init /\ [][SerialNext]_vars

\* The refinement mapping: a transaction is running until it commits, and
\* the row it has loaded becomes visible with its answer.
Phase(r) ==
    CASE pc[r] = "idle"     -> "idle"
      [] pc[r] = "reply"    -> "done"
      [] InTransaction(r)   -> "running"

Answer(r) ==
    IF pc[r] = "reply" THEN [status |-> result[r], row |-> notebook[r]]
                       ELSE [status |-> "none", row |-> Absent]

Atomic == INSTANCE NotebookAtomic WITH
            rows   <- rows,
            phase  <- [r \in Requests |-> Phase(r)],
            call   <- call,
            answer <- [r \in Requests |-> Answer(r)]

\* Serial writers see the service of docs/persistence.md: every request acts
\* at its commit as one atomic step on the row as it then is, with the
\* revision check, the alignment of titles and the answer that go with it.
ImplementsAtomicService == Atomic!ASpec

-----------------------------------------------------------------------------
\* Why it holds: past its checks a request works on the committed row as it
\* loaded it, so what it will commit is its effect on that row.
UndisturbedInv ==
    \A r \in Requests :
        LET c == call[r] IN
        /\ (InTransaction(r) /\ c.op # "create") =>
              /\ rows[c.nb] # Absent
              /\ (pc[r] = "flush" \/ c.op = "delete") => notebook[r] = rows[c.nb]
        /\ (pc[r] \in {"refresh", "commit"} /\ c.op \in {"rename", "sync"}) =>
              View(r) = Assigned(c, rows[c.nb])
        /\ (pc[r] \in {"refresh", "commit"} /\ c.op = "create") =>
              pending[r] = Assigned(c, Inserted(c))
        /\ pc[r] = "commit" =>
              /\ c.op = "delete" => pending[r] = Absent
              /\ c.op # "delete" => notebook[r] = View(r)

SerialInv == NoOverlap /\ UndisturbedInv

=============================================================================
