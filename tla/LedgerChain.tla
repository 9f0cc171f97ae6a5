---------------------------- MODULE LedgerChain ----------------------------
(***************************************************************************)
(* What the resume chain promises about money, with no process, task or    *)
(* database in sight.                                                      *)
(*                                                                         *)
(* Each run keeps a book of the fills it records.  A book either starts    *)
(* fresh or succeeds one earlier book; its base is then the fills of that  *)
(* whole line of books.  A book records fills until it is succeeded and    *)
(* never after, so a base is forever the sum of the records it was built   *)
(* from.  core/resume.py states it: "final cash and positions are exactly  *)
(* the recorded truth".                                                    *)
(***************************************************************************)
EXTENDS Naturals, Sequences

CONSTANT Amounts   \* numbers of fills a book can hold

VARIABLE books   \* one record per run: prev (0 for a fresh start), base, own

Ids == DOMAIN books

Succeeded(p) == \E r \in Ids : books[r].prev = p

\* The fills of a book and of the line behind it.
Total(p) == [q \in DOMAIN books[p].base \cup {p} |-> books[q].own]

NoBase == [q \in {} |-> 0]

OpenFresh == books' = Append(books, [prev |-> 0, base |-> NoBase, own |-> 0])

Succeed(p) ==
  /\ ~Succeeded(p)
  /\ books' = Append(books, [prev |-> p, base |-> Total(p), own |-> 0])

Record(r) ==
  /\ ~Succeeded(r)
  /\ \E n \in Amounts : /\ n > books[r].own
                        /\ books' = [books EXCEPT ![r].own = n]

Init == books = <<>>

Next == OpenFresh \/ \E r \in Ids : Succeed(r) \/ Record(r)

Spec == Init /\ [][Next]_books

=============================================================================
