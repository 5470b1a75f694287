---------------------------- MODULE MC_Pagination ----------------------------
(***************************************************************************)
(* Checks the paged list queries over every list length up to MaxItems and *)
(* every page and limit a client may send, including zero and negative     *)
(* ones.                                                                   *)
(***************************************************************************)
EXTENDS Pagination, FiniteSets

CONSTANTS
    MaxItems,         \* longest list paged
    MaxLimit,         \* largest perPage a client sends
    MaxValidators,    \* nodes params MaxValidators
    MaxApplications   \* apps params MaxApplications

VARIABLES
    query,   \* which list query the client calls
    items,   \* length of the list the keeper returns
    page,    \* the client's page argument
    limit    \* the client's limit / perPage argument

vars == <<query, items, page, limit>>

Queries == {"nodes", "apps", "receipts", "claims"}

Call(q, l, p, lim) ==
    CASE q = "nodes"    -> QueryNodes(l, p, lim, MaxValidators)
      [] q = "apps"     -> QueryApps(l, p, lim, MaxApplications)
      [] q = "receipts" -> QueryReceipts(l, p, lim)
      [] q = "claims"   -> QueryClaims(l, p, lim)

Init ==
    /\ query \in Queries
    /\ items \in 0..MaxItems
    /\ page \in -1..(MaxItems + 1)
    /\ limit \in -1..MaxLimit

Next == UNCHANGED vars

\* The pages a client walks with this limit.
Walk == 1..(items + 1)
PageOf(p) == Call(query, items, p, limit)

PageRecords ==
    [err : BOOLEAN, result : Seq(1..MaxItems), total : 0..MaxItems,
     page : 0..(MaxItems + 1)]

\* The inputs have their types, and every page of the walk is a Page of
\* items of the list.
TypeOK ==
    /\ query \in Queries
    /\ items \in 0..MaxItems
    /\ page \in -1..(MaxItems + 1)
    /\ limit \in -1..MaxLimit
    /\ \A p \in Walk : PageOf(p) \in PageRecords
Items(p) == {PageOf(p).result[i] : i \in DOMAIN PageOf(p).result}

\* Walking pages 1, 2, ... of a list query with a fixed limit returns every
\* item of the list exactly once, in list order, and no query errors
\* (checkPagination, util.Paginate and the slice in paginate together).
PagesPartitionList ==
    /\ \A p \in Walk : ~PageOf(p).err
    /\ \A i \in 1..items : Cardinality({p \in Walk : i \in Items(p)}) = 1
    /\ \A p, q \in Walk : p < q =>
          \A x \in Items(p), y \in Items(q) : x < y
    /\ \A p \in Walk : \A i \in 1..(Len(PageOf(p).result) - 1) :
          PageOf(p).result[i] < PageOf(p).result[i + 1]

\* Spec 9: paginate returns {items, total_pages, page_number}; a page that
\* holds items reports the number of pages of the list at this limit.
PageReportsTotalPages ==
    LET r == Call(query, items, page, limit)
        lim == CheckPagination(page, limit)[2]
    IN  ~r.err /\ r.result # <<>> => r.total = CeilDiv(items, lim)

=============================================================================
