------------------------------ MODULE Catalog ------------------------------
(***************************************************************************)
(* The five listings.  A caller pages through streams, kinds, checkpoints, *)
(* the retention ledger or the export receipts, each page one SELECT off a *)
(* reader, handing the last key back as an exclusive cursor; between two   *)
(* pages the log is appended to, trimmed, exported and reported on.  Names *)
(* are sequences of characters and sort as their bytes do; an id sorts as  *)
(* a name of one character would.                                          *)
(***************************************************************************)
EXTENDS StreamStore

CONSTANTS
  LastScalar,             \* char::MAX
  BeforeGap, AfterGap,    \* the scalar values on the two sides of the surrogates
  Listings,               \* what is listed: [of, prefix, limit]
  Pages,                  \* what is exported: [from, thr, whole]
  Saves,                  \* checkpoints saved: [consumer, at]
  MaxWrites               \* bound: writes, of every kind

Scalars == (0..BeforeGap) \cup (AfterGap..LastScalar)
Name == Seq(Scalars)
Tabled == {"streams", "kinds", "checkpoints", "ledger", "receipts"}

ASSUME CatalogAssumption ==
  /\ BeforeGap \in Nat /\ AfterGap \in Nat /\ LastScalar \in Nat
  /\ BeforeGap < AfterGap /\ AfterGap <= LastScalar
  /\ \A name \in Streams \cup Kinds \cup Consumers : name \in Name
  /\ \A l \in Listings : l.of \in Tabled /\ l.prefix \in Name /\ l.limit \in Nat \ {0}
  /\ Pages \subseteq [from : Nat, thr : Nat, whole : BOOLEAN]
  /\ Saves \subseteq [consumer : Consumers, at : Nat]
  /\ MaxWrites \in Nat

VARIABLES
  lister,   \* the call of a caller that pages, and what it has
  writes    \* writes made

catalogVars == <<storeVars, lister, writes>>

-----------------------------------------------------------------------------
(* Names.                                                                  *)

\* BINARY collation of UTF-8, which is the order of the characters.
Below(k, l) ==
  \E n \in 0..Len(k) :
    /\ n < Len(l) /\ SubSeq(k, 1, n) = SubSeq(l, 1, n)
    /\ n = Len(k) \/ k[n + 1] < l[n + 1]

\* next_scalar, over the gap.
NextScalar(ch) == IF ch = BeforeGap THEN AfterGap ELSE ch + 1

\* stream_prefix_bound: the last character that has a successor, replaced by it.
\* A prefix with no such character has no bound.
StreamPrefixBound(prefix) ==
  {Append(SubSeq(prefix, 1, i - 1), NextScalar(prefix[i])) :
     i \in {j \in DOMAIN prefix : /\ prefix[j] # LastScalar
                                  /\ \A n \in j + 1..Len(prefix) : prefix[n] = LastScalar}}

InRange(name, prefix) ==
  ~Below(name, prefix) /\ \A bound \in StreamPrefixBound(prefix) : Below(name, bound)

-----------------------------------------------------------------------------
(* Pages.                                                                  *)

\* The rows of each listing, with the key they are ordered by.  A stream lists
\* by its counter, a kind by its events.
Rows(d) ==
  [streams     |-> {[key |-> s, val |-> NextSeq(d, s) - 1] : s \in {q \in Streams : d.next[q] # 1}},
   kinds       |-> {[key |-> k, val |-> 0] : k \in {r.kind : r \in d.events}},
   checkpoints |-> {[key |-> c, val |-> d.ckpt[c]] : c \in {q \in Consumers : d.ckpt[q] # NoRow}},
   ledger      |-> {[key |-> <<i>>, val |-> d.ledger[i]] : i \in DOMAIN d.ledger},
   receipts    |-> {[key |-> <<i>>, val |-> d.receipts[i]] : i \in DOMAIN d.receipts}]

\* The prefix narrows streams only.
Selects(l, key) == l.of = "streams" /\ l.prefix # <<>> => InRange(key, l.prefix)

ByKey(rows) == OrderBy(rows, [r \in rows |-> {q \in rows : q = r \/ Below(q.key, r.key)}])

\* Faulty: the next page starts as many rows in as were seen.
OffsetPage(d, l, found) ==
  LET rows == ByKey({r \in Rows(d)[l.of] : Selects(l, r.key)})
  IN  Take(SubSeq(rows, Len(found) + 1, Len(rows)), ClampLimit(l.limit))

\* WHERE key > after, ORDER BY key LIMIT; `found` ends with the cursor.
Page(d, l, found) ==
  Take(ByKey({r \in Rows(d)[l.of] : Selects(l, r.key)
                                    /\ (found # <<>> => Below(Last(found).key, r.key))}),
       ClampLimit(l.limit))

-----------------------------------------------------------------------------
NoListing == [of |-> "none", prefix |-> <<>>, limit |-> 0]

Idle == [pc |-> "idle", call |-> NoListing, found |-> <<>>, began |-> EmptyTables]

CatalogInit == StoreInit /\ lister = Idle /\ writes = 0

\* A caller starts at the beginning.
List(l) ==
  /\ lister.pc = "idle"
  /\ lister' = [pc |-> "paging", call |-> l, found |-> <<>>, began |-> db]
  /\ UNCHANGED <<storeVars, writes>>

\* A page shorter than its limit is the end.
NextPage ==
  LET page == Page(db, lister.call, lister.found) IN
  /\ lister.pc = "paging"
  /\ lister' = [lister EXCEPT !.pc = IF Len(page) < lister.call.limit THEN "done" ELSE "paging",
                              !.found = @ \o page]
  /\ UNCHANGED <<storeVars, writes>>

-----------------------------------------------------------------------------
(* What else is written, each in a statement of its own on the writer.     *)

Save(c) == db' = SaveCheckpoint(db, c.consumer, c.at) /\ UNCHANGED <<history, mem>>

TakePage(p) == db' = RecordReceipt(db, p.from, p.thr, p.whole) /\ UNCHANGED <<history, mem>>

Land(id) == db' = ConfirmReceipt(db, id) /\ UNCHANGED <<history, mem>>

WriteStep ==
  \/ StoreStep
  \/ \E c \in Saves : Save(c)
  \/ \E p \in Pages : TakePage(p)
  \/ \E id \in DOMAIN db.receipts : Land(id)

CatalogNext ==
  \/ writes < MaxWrites /\ WriteStep /\ writes' = writes + 1 /\ UNCHANGED lister
  \/ \E l \in Listings : List(l)
  \/ NextPage

CatalogSpec == CatalogInit /\ [][CatalogNext]_catalogVars

-----------------------------------------------------------------------------
(* What must hold.                                                         *)

Listed == {lister.found[i].key : i \in DOMAIN lister.found}

\* What a listing has passed: everything, or all up to its cursor.
Passed(key) ==
  lister.pc = "done" \/ (lister.found # <<>> /\ ~Below(Last(lister.found).key, key))

Wanted(key) == lister.call.of = "streams" => IsPrefix(lister.call.prefix, key)

\* The keys that were there all the time: rows that stay, and kinds of which an
\* event stayed.
Stayed ==
  IF lister.call.of = "kinds" THEN {r.kind : r \in lister.began.events \cap db.events}
  ELSE {r.key : r \in Rows(lister.began)[lister.call.of]}

\* The keys that were there at some time since.
Seen ==
  IF lister.call.of = "kinds"
  THEN {r.kind : r \in lister.began.events \cup {q \in history : q.pos > lister.began.autoinc}}
  ELSE {r.key : r \in Rows(db)[lister.call.of]}

\* What a row told of a key, between what held when the listing began and what
\* holds now.
Between(row) ==
  CASE lister.call.of = "streams" ->
         NextSeq(lister.began, row.key) - 1 <= row.val /\ row.val < NextSeq(db, row.key)
    [] lister.call.of = "ledger" -> row.val = db.ledger[row.key[1]]
    [] lister.call.of = "receipts" ->
         LET id == row.key[1] IN
         /\ row.val.landed => db.receipts[id].landed
         /\ HasReceipt(lister.began, id) /\ lister.began.receipts[id].landed => row.val.landed
    [] OTHER -> TRUE

\* The evidence a whole listing gives: no less than was true when it began, and
\* no more than is true now.
Evidence ==
  LET told == [i \in DOMAIN lister.found |-> lister.found[i].val]
      from(d) == CASE lister.call.of = "receipts" -> ExportedThrough(d)
                   [] lister.call.of = "ledger" -> Watermark(d)
                   [] OTHER -> 0
      claimed == CASE lister.call.of = "receipts" -> ExportedThrough([db EXCEPT !.receipts = told])
                   [] lister.call.of = "ledger" -> Watermark([db EXCEPT !.ledger = told])
                   [] OTHER -> 0
  IN  from(lister.began) <= claimed /\ claimed <= from(db)

\* A listing that is paged through while the log is written, trimmed, exported
\* and reported on is in order and tells no key twice, misses no key that was
\* there throughout and invents none, streams by prefix included; the head of a
\* stream, the removal of a ledger entry and whether a receipt was confirmed are
\* told as they were in between (a checkpoint may be rewound, and its position is
\* compared with nothing); and the end of the export chain and the watermark that
\* follow from a whole listing lie between those of its first moment and of its
\* last.
ListingIsTrue ==
  lister.pc # "idle" =>
    /\ \A i, j \in DOMAIN lister.found : i < j => Below(lister.found[i].key, lister.found[j].key)
    /\ \A key \in Stayed : Wanted(key) /\ Passed(key) => key \in Listed
    /\ \A key \in Listed : Wanted(key) /\ key \in Seen
    /\ \A i \in DOMAIN lister.found : Between(lister.found[i])
    /\ lister.pc = "done" => Evidence

=============================================================================
