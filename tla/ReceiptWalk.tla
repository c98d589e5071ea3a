---------------------------- MODULE ReceiptWalk ----------------------------
(***************************************************************************)
(* How far the chain of exports reaches, as the code computes it: one walk *)
(* over the vouching receipts in the order the query returns them.         *)
(* LogTables states what the walk is for: the end of the longest chain of  *)
(* receipts, each beginning at or below where an earlier one ends.         *)
(***************************************************************************)
EXTENDS LogTables, Folds

\* A page extends the reach when it starts at or before it and ends past it.
Extend(receipt, reach) ==
  IF receipt.from <= reach /\ receipt.thr > reach THEN receipt.thr ELSE reach

\* Faulty: the walk in the order the pages were recorded.
EarlierRecorded(r, q) == r.id <= q.id

\* ORDER BY from_position, through.
Earlier(r, q) == r.from < q.from \/ (r.from = q.from /\ r.thr <= q.thr)

\* The receipt that is walked last.
LastWalked(receipts) == CHOOSE r \in receipts : \A q \in receipts : Earlier(q, r)

Walk(receipts) == MapThenFoldSet(Extend, 0, LAMBDA r : r, LastWalked, receipts)

=============================================================================
