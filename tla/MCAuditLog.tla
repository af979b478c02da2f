----------------------------- MODULE MCAuditLog -----------------------------
(* A small instance of AuditLog: two appends of the panel, one of commands, and two archives. *)
EXTENDS AuditLog

CONSTANTS w1, w2, c1

\* A log that rotates four times, its pages shorter than a file.
GrowingLog == [maxFile |-> 3, limit |-> 2, legacy |-> 0, renameFails |-> FALSE, commands |-> FALSE, lines |-> 12, crashes |-> 0]

\* The log of an older version, which knew no limit, and three stops of the panel.
LegacyLog == [maxFile |-> 2, limit |-> 3, legacy |-> 3, renameFails |-> FALSE, commands |-> FALSE, lines |-> 9, crashes |-> 3]

\* Renames that fail, and a stop of the panel.
FailingLog == [maxFile |-> 2, limit |-> 1, legacy |-> 0, renameFails |-> TRUE, commands |-> FALSE, lines |-> 9, crashes |-> 1]

\* The log of an older version that the panel and commands migrate and write, and a stop of either.
CommandLog == [maxFile |-> 1, limit |-> 2, legacy |-> 1, renameFails |-> FALSE, commands |-> TRUE, lines |-> 5, crashes |-> 1]

FourLogs == {GrowingLog, LegacyLog, FailingLog, CommandLog}

Symmetry == Permutations({w1, w2})

=============================================================================
