------------------------------ MODULE StreamList ------------------------------
(***************************************************************************)
(* The listing of streams (StreamList of server/stream.go) and the bolt    *)
(* file below it (storage/bucket.go, storage/cursor.go).                   *)
(*                                                                         *)
(* A request opens a cursor, that is a read transaction of bolt, counts the *)
(* bucket in a second transaction, decodes the rows, keeps those that fit  *)
(* the filter, sorts them and cuts out one page.  It never closes the      *)
(* cursor.  Stores of rows go on meanwhile: bolt gives the cursor the rows *)
(* as they were when it was opened, and lets one Store at a time write.  A *)
(* Store that has to grow the file waits until no read transaction is      *)
(* open, and while it waits none can begin.  A backup of the bucket is one *)
(* read transaction that lasts as long as its client takes to read it.     *)
(*                                                                         *)
(* The Store of PatchStream is left out, so a row goes from running to     *)
(* finished and never back to what it was.                                 *)
(*                                                                         *)
(* A client either asks for one page or walks through the listing from its *)
(* first page on, as long as hasNext is set.                               *)
(***************************************************************************)
EXTENDS Integers, FiniteSets, SequencesExt

CONSTANTS
    Streams,   \* stream UUIDs, numbered in the order of their bytes
    Modes,     \* launch modes of the streams
    Clients,   \* clients of GET /stream
    Queries,   \* queries of the clients, as the URL gives them
    Backups,   \* StorageBackup requests for the file of the streams
    DefaultPageSize,  \* defaultPageSize
    MaxInt,    \* largest int of the build
    ShortSlice,  \* longest slice in which sort.Slice of the build keeps the order of equals
    Faults     \* what may happen to bolt: "grow", "begin", "decode"

\* A parameter the URL does not have is empty, or 0; Bad is one that is not known.  A
\* mode or status given as an empty word, which passes and then fits no stream, is none.
Bad == "bad"
Fields == {"uuid", "launchMode", "started", "status"}
Orders == {"asc", "desc"}
Statuses == {"running", "finished"}

\* The streams and the rows of a bucket are counted in an int.
ASSUME StreamListAssumption ==
    /\ Streams \subseteq Nat \ {0} /\ IsFiniteSet(Streams)
    /\ Modes \subseteq {"docker_container", "standalone_app"}
    /\ MaxInt \in Nat \ {0}
    /\ Cardinality(Streams) <= MaxInt
    /\ DefaultPageSize \in 1 .. MaxInt
    /\ ShortSlice \in Nat
    /\ Faults \subseteq {"grow", "begin", "decode"}
    /\ Queries \subseteq [sortBy : Fields \cup {"", Bad},
                          sortOrder : Orders \cup {"", Bad},
                          modes : SUBSET (Modes \cup {Bad}),
                          statuses : SUBSET (Statuses \cup {Bad}),
                          pageSize : -MaxInt .. MaxInt,
                          page : -MaxInt .. MaxInt]

VARIABLES
    rows,     \* the bucket: a row for each stored stream
    grower,   \* the Store that waits to grow the file
    cursors,  \* clients with a read transaction left open by a cursor
    ask,      \* ask[c]: where the request of c stands
    query,    \* query[c]: its filter, its page and whether c walks on
    snap,     \* snap[c]: the rows its cursor sees
    first,    \* first[c]: the rows the first cursor of the walk saw (history)
    got,      \* got[c]: the streams the answers have shown, in order
    backups   \* backups being read

clientVars == <<ask, query, snap, first, got, backups>>
vars == <<rows, grower, cursors, clientVars>>

-----------------------------------------------------------------------------
(* streamInfo, reduced to what the listing filters and sorts by.  The search *)
(* phrase and the name, which a patch may change, act as statuses do.  No    *)
(* two streams start at the same instant.                                    *)
Row == [mode : Modes, started : Streams, status : {"running", "finished"}]

NoRows == [s \in {} |-> {}]
Bucket == UNION {[S -> Row] : S \in SUBSET Streams}
NoStore == <<>>
Filter == [sortBy : Fields, sortOrder : Orders, modes : SUBSET Modes,
           statuses : SUBSET Statuses, pageSize : 1 .. MaxInt]
NoQuery == <<>>

Stored(bucket, s, r) ==
    [t \in DOMAIN bucket \cup {s} |-> IF t = s THEN r ELSE bucket[t]]

\* isStreamFitsFilter
Fits(r, f) ==
    /\ f.modes = {} \/ r.mode \in f.modes
    /\ f.statuses = {} \/ r.status \in f.statuses

\* The field a stream is sorted by, as a number in the order of the field.
SortKey(bucket, f, s) ==
    CASE f.sortBy = "uuid" -> s
      [] f.sortBy = "started" -> bucket[s].started
      [] f.sortBy = "launchMode" -> IF bucket[s].mode = "docker_container" THEN 1 ELSE 2
      [] f.sortBy = "status" -> IF bucket[s].status = "finished" THEN 1 ELSE 2

\* The order of a short slice: the cursor yields the rows by UUID, and equal rows keep
\* this order.
Before(bucket, f, s, t) ==
    LET a == SortKey(bucket, f, s)
        b == SortKey(bucket, f, t) IN
    \/ a = b /\ s < t
    \/ f.sortOrder = "asc" /\ a < b
    \/ f.sortOrder = "desc" /\ a > b

Fitting(bucket, f) == {s \in DOMAIN bucket : Fits(bucket[s], f)}

\* In a longer one equal rows come in an order that only depends on the rows.
InOrder(bucket, f, s, t) ==
    \/ Before(bucket, f, s, t)
    \/ /\ s # t /\ SortKey(bucket, f, s) = SortKey(bucket, f, t)
       /\ Cardinality(Fitting(bucket, f)) > ShortSlice

\* filterStreams
Listing(bucket, f) ==
    LET S == Fitting(bucket, f) IN
    CHOOSE list \in [1 .. Cardinality(S) -> S] :
        \A i, j \in DOMAIN list : i < j => InOrder(bucket, f, list[i], list[j])

-----------------------------------------------------------------------------
(* The page of a list, in the arithmetic of Go.                             *)

Wrap(n) == ((n + MaxInt + 1) % (2 * MaxInt + 2)) - MaxInt - 1

StartIndexMutant(page, size) == Wrap(page * size)

StartIndex(page, size) == Wrap((page - 1) * size)

EndIndexMutant(page, size) == Wrap(StartIndex(page, size) + size + 1)

EndIndex(page, size) == Wrap(StartIndex(page, size) + size)

\* streams[startIndex:] for a start inside the list, nil otherwise.
Rest(list, page, size) ==
    IF StartIndex(page, size) < Len(list)
    THEN SubSeq(list, StartIndex(page, size) + 1, Len(list))
    ELSE <<>>

\* What is left of the capacity, which is the size of the bucket, behind it.
Room(list, capacity, page, size) ==
    IF StartIndex(page, size) < Len(list) THEN capacity - StartIndex(page, size) ELSE 0

\* A negative start, or a page longer than the capacity, is a run-time panic.
Panics(list, capacity, page, size) ==
    \/ StartIndex(page, size) < 0
    \/ /\ EndIndex(page, size) < Len(list)
       /\ Room(list, capacity, page, size) < Wrap(EndIndex(page, size) - StartIndex(page, size))

\* The page; a place between the length and the capacity is a zero row (0).
PageOf(list, page, size) ==
    LET rest == Rest(list, page, size) IN
    IF EndIndex(page, size) < Len(list)
    THEN [i \in 1 .. Wrap(EndIndex(page, size) - StartIndex(page, size)) |->
              IF i <= Len(rest) THEN rest[i] ELSE 0]
    ELSE rest

HasNextMutant(list, page, size) == Len(list) >= Wrap(page * size)

HasNextEarly(list, page, size) == Len(list) - 1 > Wrap(page * size)

HasNext(list, page, size) == Len(list) > Wrap(page * size)

-----------------------------------------------------------------------------
TypeOK ==
    /\ rows \in Bucket
    /\ grower \in {NoStore} \cup (Streams \X Row)
    /\ cursors \subseteq Clients
    /\ ask \in [Clients -> {"idle", "opening", "reading",
                            "done", "rejected", "error", "panic"}]
    /\ \A c \in Clients :
          query[c] # NoQuery =>
              /\ query[c].filter \in Filter
              /\ query[c].page \in 1 .. MaxInt
              /\ query[c].walk \in BOOLEAN
    /\ snap \in [Clients -> Bucket]
    /\ first \in [Clients -> Bucket]
    /\ \A c \in Clients : got[c] \in Seq(Streams \cup {0})
    /\ backups \subseteq Backups

Init ==
    /\ rows = NoRows
    /\ grower = NoStore
    /\ cursors = {}
    /\ ask = [c \in Clients |-> "idle"]
    /\ query = [c \in Clients |-> NoQuery]
    /\ snap = [c \in Clients |-> NoRows]
    /\ first = [c \in Clients |-> NoRows]
    /\ got = [c \in Clients |-> <<>>]
    /\ backups = {}

-----------------------------------------------------------------------------
(* Bucket.Store.                                                            *)

\* What is stored: the row of a new stream, whose start lies before its Store
\* and so in any order with that of other streams, or the end of a stream.  A patch
\* that brings an ended one back (stream.go:242) is not among them.
NewRows(s) ==
    IF s \in DOMAIN rows
    THEN {}
    ELSE {r \in Row : r.status = "running" /\ \A t \in DOMAIN rows : rows[t].started # r.started}
EndedRows(s) ==
    IF s \in DOMAIN rows /\ rows[s].status = "running"
    THEN {[rows[s] EXCEPT !.status = "finished"]}
    ELSE {}

Store(s, r) ==
    /\ grower = NoStore
    /\ rows' = Stored(rows, s, r)
    /\ UNCHANGED <<grower, cursors, clientVars>>

\* The Store holds bolt's writer lock and waits for the lock of the mapping.
StoreGrows(s, r) ==
    /\ "grow" \in Faults
    /\ grower = NoStore
    /\ grower' = <<s, r>>
    /\ UNCHANGED <<rows, cursors, clientVars>>

\* Transactions that hold the lock of the mapping.
Reading == cursors \cup backups

Grown ==
    /\ grower # NoStore
    /\ Reading = {}
    /\ rows' = Stored(rows, grower[1], grower[2])
    /\ grower' = NoStore
    /\ UNCHANGED <<cursors, clientVars>>

-----------------------------------------------------------------------------
(* The request.                                                             *)

\* StreamListRequest.Build: what is not given has a default.
Build(q) ==
    [q EXCEPT !.sortBy = IF @ = "" THEN "uuid" ELSE @,
              !.sortOrder = IF @ = "" THEN "asc" ELSE @,
              !.pageSize = IF @ = 0 THEN DefaultPageSize ELSE @,
              !.page = IF @ = 0 THEN 1 ELSE @]

ValidNoPage(q) ==
    /\ q.sortBy \in Fields /\ q.sortOrder \in Orders
    /\ q.modes \subseteq Modes /\ q.statuses \subseteq Statuses
    /\ q.pageSize >= 1

\* StreamListRequest.Validate
Valid(q) ==
    /\ q.sortBy \in Fields /\ q.sortOrder \in Orders
    /\ q.modes \subseteq Modes /\ q.statuses \subseteq Statuses
    /\ q.pageSize >= 1 /\ q.page >= 1

FilterOf(q) ==
    [sortBy |-> q.sortBy, sortOrder |-> q.sortOrder, modes |-> q.modes,
     statuses |-> q.statuses, pageSize |-> q.pageSize]

\* getStreams.  A client that gives no page walks from the first one on.
Ask(c, q) ==
    LET request == Build(q) IN
    /\ ask[c] = "idle"
    /\ \/ /\ Valid(request)
          /\ ask' = [ask EXCEPT ![c] = "opening"]
          /\ query' = [query EXCEPT ![c] = [filter |-> FilterOf(request), page |-> request.page,
                                           walk |-> q.page = 0]]
       \/ /\ ~ Valid(request)
          /\ ask' = [ask EXCEPT ![c] = "rejected"]
          /\ UNCHANGED query
    /\ UNCHANGED <<rows, grower, cursors, snap, first, got, backups>>

\* Bucket.All begins a read transaction.
OpenCursor(c) ==
    /\ ask[c] = "opening"
    /\ \/ /\ grower = NoStore
          /\ ask' = [ask EXCEPT ![c] = "reading"]
          /\ cursors' = cursors \cup {c}
          /\ snap' = [snap EXCEPT ![c] = rows]
          /\ first' = [first EXCEPT ![c] = IF query[c].page = 1 THEN rows ELSE @]
       \/ /\ "begin" \in Faults
          /\ ask' = [ask EXCEPT ![c] = "error"]
          /\ UNCHANGED <<cursors, snap, first>>
    /\ UNCHANGED <<rows, grower, query, got, backups>>

\* The page is cut out of the list, in a slice with room for all rows; a client that
\* walks asks on.
Answers(c, list) ==
    LET size == query[c].filter.pageSize
        page == query[c].page
        capacity == Cardinality(DOMAIN rows) IN
    \/ /\ Panics(list, capacity, page, size)
       /\ ask' = [ask EXCEPT ![c] = "panic"]
       /\ UNCHANGED <<query, got>>
    \/ /\ ~ Panics(list, capacity, page, size)
       /\ got' = [got EXCEPT ![c] = @ \o PageOf(list, page, size)]
       /\ IF query[c].walk /\ HasNext(list, page, size)
          THEN /\ ask' = [ask EXCEPT ![c] = "opening"]
               /\ query' = [query EXCEPT ![c].page = @ + 1]
          ELSE /\ ask' = [ask EXCEPT ![c] = "done"]
               /\ UNCHANGED query

\* Bucket.Size begins and ends another; the size is the capacity of the slice.
\* The rows of the cursor are decoded, filtered and sorted (the set of one list has TLC
\* compute it once).
ReadPage(c) ==
    /\ ask[c] = "reading"
    /\ grower = NoStore
    /\ \/ \E list \in {Listing(snap[c], query[c].filter)} : Answers(c, list)
       \/ /\ "decode" \in Faults
          /\ DOMAIN snap[c] # {}
          /\ ask' = [ask EXCEPT ![c] = "error"]
          /\ UNCHANGED <<query, got>>
    /\ UNCHANGED <<rows, grower, cursors, snap, first, backups>>

ListStep(c) == OpenCursor(c) \/ ReadPage(c)

-----------------------------------------------------------------------------
(* Storage.Backup.                                                          *)

BackupBegins(b) ==
    /\ b \notin backups
    /\ grower = NoStore
    /\ backups' = backups \cup {b}
    /\ UNCHANGED <<rows, grower, cursors, ask, query, snap, first, got>>

BackupWaits(b) ==
    /\ b \in backups
    /\ grower = NoStore
    /\ backups' = backups \ {b}
    /\ UNCHANGED <<rows, grower, cursors, ask, query, snap, first, got>>

\* View ends the transaction when the file is written or the client has gone; one that
\* stays and does not read keeps it open.
BackupEnds(b) ==
    /\ b \in backups
    /\ backups' = backups \ {b}
    /\ UNCHANGED <<rows, grower, cursors, ask, query, snap, first, got>>

Next ==
    \/ \E s \in Streams : \E r \in NewRows(s) \cup EndedRows(s) : Store(s, r) \/ StoreGrows(s, r)
    \/ Grown
    \/ \E c \in Clients :
        \/ \E q \in Queries : Ask(c, q)
        \/ ListStep(c)
    \/ \E b \in Backups : BackupBegins(b) \/ BackupEnds(b)

Spec == Init /\ [][Next]_vars

\* The goroutines of the requests are scheduled, and so is the Store that may go
\* on; bolt's locks let in whoever waits for them.  Nothing makes a backup end.
Fairness ==
    /\ WF_vars(Grown)
    /\ \A c \in Clients : WF_vars(ListStep(c))

FairSpec == Spec /\ Fairness

-----------------------------------------------------------------------------
(* Safety.                                                                 *)

\* The number of the page of the i-th stream when a listing is dealt out in pages.
PageNumber(i, size) == ((i - 1) \div size) + 1

RightlyCut(list, capacity, page, size) ==
    /\ ~ Panics(list, capacity, page, size)
    /\ Len(PageOf(list, page, size)) =
           Cardinality({i \in 1 .. Len(list) : PageNumber(i, size) = page})
    /\ \A i \in 1 .. Len(list) :
           PageNumber(i, size) = page => PageOf(list, page, size)[((i - 1) % size) + 1] = list[i]
    /\ HasNext(list, page, size) <=> \E i \in 1 .. Len(list) : PageNumber(i, size) > page

\* The page a request is going to read: the streams at the positions that belong to
\* it, with hasNext set exactly when positions are left, as long as the last position
\* of the page is an int.
PageIsRight ==
    \A c \in Clients :
        LET f == query[c].filter IN
        ask[c] = "reading" /\ query[c].page * f.pageSize <= MaxInt =>
            RightlyCut(Listing(snap[c], f), Cardinality(DOMAIN rows), query[c].page, f.pageSize)

\* A client that has walked through the listing.
Walked(c) == ask[c] = "done" /\ query[c].walk

\* A filter that a row neither enters nor leaves, and an order in which it keeps
\* its place, while streams come and end.
Stable(f) == f.statuses = {} /\ f.sortBy # "status"

\* A listing in which no two streams may change places by themselves.
Settled(bucket, f) ==
    \/ Cardinality(Fitting(bucket, f)) <= ShortSlice
    \/ \A s, t \in Fitting(bucket, f) :
           s # t => SortKey(bucket, f, s) # SortKey(bucket, f, t)

\* Streams that are stored during a walk move others to later pages and never to
\* earlier ones: no stream that was there at the start is skipped, unless streams are
\* equal in the field and sort.Slice shuffles them as the listing grows.
WalkMissesNobody ==
    \A c \in Clients :
        LET f == query[c].filter IN
        Walked(c) /\ Stable(f) /\ Settled(snap[c], f) =>
            Fitting(first[c], f) \subseteq ToSet(got[c])

\* A stream is shown twice only because a stream that sorts before it was stored
\* during the walk.
WalkRepeatsOnlyPushed ==
    \A c \in Clients :
        LET f == query[c].filter IN
        Walked(c) /\ Stable(f) /\ Settled(snap[c], f) =>
            \A i, j \in DOMAIN got[c] :
                i # j /\ got[c][i] = got[c][j] =>
                    \E t \in Fitting(snap[c], f) \ DOMAIN first[c] :
                        Before(snap[c], f, t, got[c][i])

\* Under every filter and in every order, a walk during which nothing was stored
\* shows each stream that fits once, in order.  (A Store always changes the bucket, see
\* EndedRows.)
WalkIsExact ==
    \A c \in Clients :
        LET f == query[c].filter IN
        Walked(c) /\ snap[c] = first[c] =>
            /\ ToSet(got[c]) = Fitting(first[c], f)
            /\ \A i, j \in DOMAIN got[c] : i < j => InOrder(first[c], f, got[c][i], got[c][j])

-----------------------------------------------------------------------------
(* Liveness.                                                               *)

\* What the code does not see to: it sets no deadline for the answer of a backup, so this
\* is up to the clients.
BackupsEnd == \A b \in Backups : WF_vars(BackupEnds(b))

\* If the client of every backup reads it or goes, only the cursors that listings leave
\* open block a Store for good: one that meets none gets its way, however many backups
\* are being read and however often others ask.
GrowthIsDelayedOnly == BackupsEnd => (grower # NoStore /\ cursors = {} ~> grower = NoStore)

-----------------------------------------------------------------------------
(* What the comments of the source promise and the code does not keep.     *)

\* "Store stores a new key-value pair in the storage bucket": a Store returns.
StoreReturns == grower # NoStore ~> grower = NoStore
=============================================================================
