---------------------------- MODULE Serializable ----------------------------
(***************************************************************************)
(* What PostgreSQL's isolation level SERIALIZABLE forbids, as far as the   *)
(* transactions of this program rely on it.  A transaction reads from the  *)
(* snapshot of its first statement.  It fails if it writes a row that      *)
(* another has written since, or if it and a serializable transaction      *)
(* that committed since have each read what the other writes.  PostgreSQL  *)
(* rejects more (longer cycles, suspected ones): a request that fails for  *)
(* these is a request that fails.                                          *)
(***************************************************************************)

\* Mutant: the transactions run at READ COMMITTED.
BarsNone(seen, read, written) == {}

\* The rows that a transaction which has read `seen` may no longer write after
\* one commits that has read `read` and written `written`.  Transactions at
\* READ COMMITTED are not tracked: for them `read` is empty.
Bars(seen, read, written) ==
  written \cup (IF seen \cap written # {} THEN read ELSE {})

\* May a transaction commit these writes?
MayCommit(barred, writes) == barred \cap writes = {}
=============================================================================
