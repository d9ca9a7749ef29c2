---------------------------- MODULE ObjectTables ----------------------------
(* The shape of the tables of REST object classes.                         *)
EXTENDS TLC

\* A class without data members.
NoMembers == [text |-> {}]

\* What to_json writes and from_json reads, in order.  Besides: the members
\* that from_json insists on (strict), clears when the document has no such
\* key (cleared) or sets to UNKNOWN without one (reset), the texts that
\* to_json parses and embeds as a document, and whether from_json returns true
\* even after an exception (lenient).
Codec(writes, reads) ==
  [writes |-> writes, reads |-> reads,
   strict |-> {}, cleared |-> {}, reset |-> {}, documents |-> {}, lenient |-> FALSE]

Both(s) == Codec(s, s)
WriteOnly(s) == Codec(s, <<>>)
ReadOnly(s) == Codec(<<>>, s)
=============================================================================
