--------------------------- MODULE MCAuditJournal ---------------------------
(* Instance of AuditJournal for TLC. *)
EXTENDS AuditJournal

Symmetric == Permutations(Sinks)

\* Bound: a host crash chooses among four directories at most, those of a rotation
\* that shifts two backups and retires the active file.
FewImages == Cardinality(dirImages) <= 4
=============================================================================
