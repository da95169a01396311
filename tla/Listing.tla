------------------------------- MODULE Listing -------------------------------
(***************************************************************************)
(* The paged lists of the API, GET /api/v1/reports and                     *)
(* GET /api/v1/audit-entries, walked page by page by a client while the    *)
(* service goes on writing audit entries.                                  *)
(*                                                                         *)
(* A page is two statements, a COUNT and a SELECT with LIMIT and OFFSET.   *)
(* created_at is the time an INSERT began, so entries become visible out   *)
(* of its order, and equal keys come in any order, which may differ from   *)
(* one page to the next.  The catalog changes only with a migration; the   *)
(* forced reset of cmd/seed, which empties the audit trail, is in Startup. *)
(***************************************************************************)
EXTENDS Integers, FiniteSets, Sequences, SequencesExt

CONSTANTS
    DefaultLimit,   \* 20
    LimitCap,       \* 100
    NoInt,          \* a parameter that is blank or no integer
    Asked,          \* the requests clients make
    Catalog,        \* report_definitions; names and times numbered in order
    Writers,        \* workers and handlers that write audit entries
    MaxEntries,     \* bound on the entries written
    MaxClock,       \* bound on the clock
    MaxFaults,      \* bound on the pages that fail
    MaxPages        \* pages after which a client gives up

ASSUME LimitAssumption == LimitCap \in Nat /\ DefaultLimit \in 1..LimitCap
ASSUME ListingBounds == {MaxEntries, MaxClock, MaxFaults, MaxPages} \subseteq Nat

RawInt == Int \cup {NoInt}

(* The query parameters of the two lists. *)
Requests ==
    [list : {"audit"}, limit : RawInt, offset : RawInt, filtered : BOOLEAN]
        \cup [list : {"reports"}, limit : RawInt, offset : RawInt,
              filtered : BOOLEAN, sort : {"name", "updated"}, desc : BOOLEAN]

ASSUME AskedAssumption == Asked \subseteq Requests
ASSUME CatalogAssumption ==
    /\ Catalog \subseteq [id : Nat, name : Int, updated : Int, match : BOOLEAN]
    /\ IsFiniteSet(Catalog)

VARIABLES
    entries,    \* the committed rows of audit_entries
    writing,    \* writer -> the row its open INSERT makes, {} if none
    written,    \* ids given out
    clock,      \* now()
    req,        \* the client's request
    offset,     \* the offset of the page it asks for
    stage,      \* where that request is
    total,      \* the result of its COUNT
    answers,    \* the answers so far: pagination and rows
    before,     \* history: the entries when the walk began
    grown,      \* history: rows the last SELECT matched beyond the COUNT
    faults

client == <<req, offset, stage, total, answers, before, grown, faults>>
vars == <<entries, writing, written, clock, client>>
-----------------------------------------------------------------------------
(* Pagination *)

(* parseIntWithDefault *)
ParseInt(raw, fallback) == IF raw = NoInt THEN fallback ELSE raw

(* Mutant: a limit below 1 is kept. *)
ClampLimitAbove(n) == IF n > LimitCap THEN LimitCap ELSE n

ClampLimit(n) == IF n < 1 THEN DefaultLimit ELSE IF n > LimitCap THEN LimitCap ELSE n

ClampOffset(n) == IF n < 0 THEN 0 ELSE n

(* Mutant: the audit service, too, answers with what was asked for. *)
AuditPaginationAsAsked(limit) == [limit |-> limit, offset |-> offset, total |-> total]

(* AuditService clamps, and answers with what it clamped to. *)
AuditPagination(limit) ==
    [limit |-> ClampLimit(limit), offset |-> ClampOffset(offset), total |-> total]

(* ReportService leaves that to the store, and answers as it was asked. *)
ReportPagination(limit) == [limit |-> limit, offset |-> offset, total |-> total]

(* Requests whose pagination says what the store did. *)
Proper(r) ==
    \/ r.list = "audit"
    \/ ParseInt(r.limit, DefaultLimit) \in 1..LimitCap /\ ParseInt(r.offset, 0) >= 0

(* Requests for the first page. *)
FromTop(r) == ParseInt(r.offset, 0) <= 0
-----------------------------------------------------------------------------
(* Rows *)

(* WHERE: all rows, or those that match the filter or the search. *)
Matching(rows) == {row \in rows : req.filtered => row.match}

Rows == Matching(IF req.list = "audit" THEN entries ELSE Catalog)

SortKey(row) == IF req.sort = "updated" THEN row.updated ELSE row.name

(* Mutant: the newest entry comes last. *)
SortsFirstAscending(row, other) ==
    IF req.list = "audit" THEN row.created < other.created
    ELSE IF req.desc THEN SortKey(row) > SortKey(other) ELSE SortKey(row) < SortKey(other)

(* ORDER BY created_at DESC, or by the field and the order asked for. *)
SortsFirst(row, other) ==
    IF req.list = "audit" THEN row.created > other.created
    ELSE IF req.desc THEN SortKey(row) > SortKey(other) ELSE SortKey(row) < SortKey(other)

(* The orders PostgreSQL may put the rows in: no key breaks ties. *)
Orders(rows) ==
    {s \in SetToSeqs(rows) :
        \A i, j \in DOMAIN s : i < j => ~SortsFirst(s[j], s[i])}

Tied(row, other) == ~SortsFirst(row, other) /\ ~SortsFirst(other, row)

(* LIMIT and OFFSET *)
Slice(s, limit, from) ==
    SubSeq(s, from + 1, IF from + limit < Len(s) THEN from + limit ELSE Len(s))
-----------------------------------------------------------------------------
(* Writers *)

(* Bound: entries are written only beside a walk that reads them. *)
MayWrite == written < MaxEntries /\ req.list = "audit"

(* CreateEntry: the INSERT begins, and created_at is now. *)
BeginEntry(w, match) ==
    /\ writing[w] = {} /\ MayWrite
    /\ written' = written + 1
    /\ writing' = [writing EXCEPT ![w] =
          {[id |-> written + 1, created |-> clock, match |-> match]}]
    /\ UNCHANGED <<entries, clock, client>>

(* It is committed, and seen by statements that begin from now on. *)
CommitEntry(w) ==
    /\ writing[w] # {}
    /\ entries' = entries \cup writing[w]
    /\ writing' = [writing EXCEPT ![w] = {}]
    /\ UNCHANGED <<written, clock, client>>

Tick ==
    /\ clock < MaxClock
    /\ clock' = clock + 1
    /\ UNCHANGED <<entries, writing, written, client>>
-----------------------------------------------------------------------------
(* The walk *)

(* A client begins a walk. *)
Begin ==
    /\ stage = "idle"
    /\ offset' = ParseInt(req.offset, 0)
    /\ stage' = "asked"
    /\ before' = entries
    /\ UNCHANGED <<entries, writing, written, clock, req, total, answers, grown, faults>>

(* Mutant: the COUNT has no WHERE. *)
CountAll ==
    /\ stage = "asked"
    /\ total' = Cardinality(IF req.list = "audit" THEN entries ELSE Catalog)
    /\ stage' = "counted"
    /\ UNCHANGED <<entries, writing, written, clock, req, offset, answers, before, grown, faults>>

(* Mutant: a total that would cost a scan is left unknown. *)
CountUnknown ==
    /\ stage = "asked"
    /\ total' = IF req.filtered THEN -1 ELSE Cardinality(Rows)
    /\ stage' = "counted"
    /\ UNCHANGED <<entries, writing, written, clock, req, offset, answers, before, grown, faults>>

(* SELECT COUNT *)
Count ==
    /\ stage = "asked"
    /\ total' = Cardinality(Rows)
    /\ stage' = "counted"
    /\ UNCHANGED <<entries, writing, written, clock, req, offset, answers, before, grown, faults>>

(* SELECT ... ORDER BY ... LIMIT ... OFFSET, and the answer. *)
Select ==
    LET limit == ParseInt(req.limit, DefaultLimit) IN
    /\ stage = "counted"
    /\ \E s \in Orders(Rows) :
          answers' = Append(answers,
              [page |-> IF req.list = "audit" THEN AuditPagination(limit)
                        ELSE ReportPagination(limit),
               rows |-> Slice(s, ClampLimit(limit), ClampOffset(offset))])
    /\ stage' = "answered"
    /\ grown' = Cardinality(Rows) - total
    /\ UNCHANGED <<entries, writing, written, clock, req, offset, total, before, faults>>

(* One of the two fails: the answer is an error, and the client asks again. *)
PageFails ==
    /\ stage \in {"asked", "counted"} /\ faults < MaxFaults
    /\ faults' = faults + 1
    /\ stage' = "asked"
    /\ UNCHANGED <<entries, writing, written, clock, req, offset, total, answers, before, grown>>

(* The client goes on to the next page, up to the total it was told. *)
Follow ==
    LET page == answers[Len(answers)].page IN
    /\ stage = "answered"
    /\ offset' = page.offset + page.limit
    /\ stage' = CASE offset' >= page.total -> "done"
                  [] offset' < page.total /\ Len(answers) < MaxPages -> "asked"
                  [] OTHER -> "gave_up"
    /\ UNCHANGED <<entries, writing, written, clock, req, total, answers, before, grown, faults>>
-----------------------------------------------------------------------------
Init ==
    /\ entries = {}
    /\ writing = [w \in Writers |-> {}]
    /\ written = 0
    /\ clock = 0
    /\ req \in Asked
    /\ offset = 0
    /\ stage = "idle"
    /\ total = 0
    /\ answers = <<>>
    /\ before = {}
    /\ grown = 0
    /\ faults = 0

(* The walk is over and so is the writing. *)
Over ==
    /\ stage \in {"done", "gave_up"}
    /\ UNCHANGED vars

ClientStep == Count \/ Select \/ Follow

Next ==
    \/ \E w \in Writers : CommitEntry(w) \/ \E match \in BOOLEAN : BeginEntry(w, match)
    \/ Tick
    \/ Begin
    \/ ClientStep
    \/ PageFails
    \/ Over

(* Requests are answered, and the client asks on. *)
Spec == Init /\ [][Next]_vars /\ WF_vars(ClientStep)
-----------------------------------------------------------------------------
(* Properties *)

Entries == [id : Nat \ {0}, created : Nat, match : BOOLEAN]

(* The state stays within its types. *)
TypeOK ==
    /\ entries \subseteq Entries /\ before \subseteq Entries
    /\ writing \in [Writers -> SUBSET Entries]
    /\ written \in 0..MaxEntries /\ clock \in 0..MaxClock
    /\ req \in Asked
    /\ offset \in Int /\ total \in Nat /\ grown \in Int
    /\ stage \in {"idle", "asked", "counted", "answered", "done", "gave_up"}
    /\ answers \in Seq([page : [limit : Int, offset : Int, total : Nat],
                        rows : Seq(Entries \cup Catalog)])
    /\ faults \in 0..MaxFaults

Returned == UNION {ToSet(answers[i].rows) : i \in DOMAIN answers}

(* The row's key is not the row's alone. *)
HasTie(row) == \E other \in Rows \ {row} : Tied(row, other)

(* A walk from the top that ended has returned every row there was when    *)
(* it began, though entries keep arriving on top and in between, except a  *)
(* row that ties with another one, or the last ones when entries arrived   *)
(* between the last page's COUNT and its SELECT.  This is of requests      *)
(* whose pagination is Proper: a catalog limit above the maximum steps     *)
(* over rows, and one below 1 does not step at all.                        *)
MissedNeedsRace ==
    stage = "done" /\ Proper(req) /\ FromTop(req) =>
        \A row \in Matching(IF req.list = "audit" THEN before ELSE Catalog) :
            row \in Returned \/ HasTie(row) \/ grown > 0

(* Each of the two rows stands where the order asked for allows: entries   *)
(* the newest first, reports by their field.                               *)
InOrder(row, other) ==
    IF req.list = "audit" THEN row.created >= other.created
    ELSE IF req.desc THEN SortKey(row) >= SortKey(other) ELSE SortKey(row) <= SortKey(other)

(* The pages of a Proper walk during which nothing arrived are in the      *)
(* order asked for, across the pages too, and each row is in them, once.   *)
(* Equal keys cost just this: one of their rows may be missing, or come    *)
(* again on another page.                                                  *)
QuietWalkIsExact ==
    /\ stage = "done" /\ Proper(req) /\ FromTop(req)
    /\ req.list = "audit" => entries = before
    => /\ Returned \subseteq Rows
       /\ \A row \in Rows \ Returned : HasTie(row)
       /\ \A i, j \in DOMAIN answers :
             \A k \in DOMAIN answers[i].rows, l \in DOMAIN answers[j].rows :
                LET row == answers[i].rows[k]
                    other == answers[j].rows[l]
                IN  i < j \/ (i = j /\ k < l) =>
                       InOrder(row, other) /\ (row = other => i < j /\ HasTie(row))

(* A page holds no fewer rows than the pagination beside it promises,      *)
(* whatever happens between its two statements: a client may take a short  *)
(* page for the last one.                                                  *)
NoShortPage ==
    Proper(req) =>
        \A i \in DOMAIN answers :
            LET a == answers[i] IN
            a.page.offset + a.page.limit <= a.page.total => Len(a.rows) = a.page.limit

(* The limit a page answers with takes the client on. *)
Advances(r) == r.list = "audit" \/ ParseInt(r.limit, DefaultLimit) >= 1

(* A client that goes on by the limit it was answered comes to the end of  *)
(* its walk: of the audit trail whatever it asked for, of the catalog if   *)
(* it asked for no limit below 1.  For one below 1 the store returns a     *)
(* page of the default size while the answer repeats what was asked, so a  *)
(* client that has rows left is never through, however many pages it reads *)
(* before it gives up.                                                     *)
WalkEnds ==
    /\ stage = "asked" /\ Advances(req) ~> stage = "done"
    /\ stage = "answered" /\ ~Advances(req) /\ offset < total ~> stage = "gave_up"
=============================================================================
