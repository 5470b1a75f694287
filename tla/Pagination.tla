----------------------------- MODULE Pagination -----------------------------
(***************************************************************************)
(* Pagination of the query facade (PocketCoreApp in app/query.go):         *)
(* checkPagination, paginate over posmint's util.Paginate, and the         *)
(* queries that page a list.  A list is 1..n, its items standing for       *)
(* themselves; a Page is a record [err, result, total, page], result the   *)
(* sequence of items returned and err whether paginate returned an error.  *)
(***************************************************************************)
EXTENDS Integers, Sequences

\* Page{}: the zero value paginate returns for a page out of range.
EmptyPage == [err |-> FALSE, result |-> <<>>, total |-> 0, page |-> 0]

\* The error paginate returns when util.Paginate gives a negative bound.
ErrorPage == [err |-> TRUE, result |-> <<>>, total |-> 0, page |-> 0]

\* checkPagination: a page below 1 becomes 1, a limit below 1 becomes 30.
CheckPagination(page, limit) ==
    <<IF page <= 0 THEN 1 ELSE page, IF limit <= 0 THEN 30 ELSE limit>>

(***************************************************************************)
(* util.Paginate(numObjs, page, limit, defLimit) of posmint: -1, -1 for    *)
(* page 0 or a start past the list; defLimit replaces a zero limit; end is *)
(* clamped to numObjs.                                                     *)
(***************************************************************************)
UtilPaginate(numObjs, page, limit, defLimit) ==
    LET lim   == IF limit = 0 THEN defLimit ELSE limit
        start == (page - 1) * lim
        end   == IF lim + start >= numObjs THEN numObjs ELSE lim + start
    IN  IF page = 0 \/ start >= numObjs THEN <<-1, -1>> ELSE <<start, end>>

\* math.Ceil(float64(a) / float64(b)) for a >= 0, b > 0.
CeilDiv(a, b) == (a + b - 1) \div b

\* Mutant: the page count taken over the requested limit.
TotalPagesOverLimit(l, start, end, limit) ==
    LET t == CeilDiv(l, limit) IN IF t < 1 THEN 1 ELSE t

\* totalPages := int(math.Ceil(float64(l) / float64(end-start))), at least 1.
TotalPages(l, start, end, limit) ==
    LET t == CeilDiv(l, end - start) IN IF t < 1 THEN 1 ELSE t

\* Mutant: the slice taken one item early, items[start-1:end-1].
PaginateShifted(page, limit, l, max) ==
    LET b == UtilPaginate(l, page, limit, max)
    IN  CASE b = <<-1, -1>>          -> EmptyPage
          [] b[1] < 0 \/ b[2] < 0    -> ErrorPage
          [] OTHER ->
               [err    |-> FALSE,
                result |-> [i \in 1..(b[2] - b[1]) |-> b[1] + i - 1],
                total  |-> TotalPages(l, b[1], b[2], limit),
                page   |-> page]

(***************************************************************************)
(* paginate(page, limit, items, max) over a list of l items: the slice     *)
(* items[start:end] with the page count, Page{} when util.Paginate says    *)
(* the page is out of range, and ErrorPage on other negative bounds.       *)
(* takeArg's non-slice error is unreachable: every caller passes a slice.  *)
(***************************************************************************)
Paginate(page, limit, l, max) ==
    LET b == UtilPaginate(l, page, limit, max)
    IN  CASE b = <<-1, -1>>          -> EmptyPage
          [] b[1] < 0 \/ b[2] < 0    -> ErrorPage
          [] OTHER ->
               [err    |-> FALSE,
                result |-> [i \in 1..(b[2] - b[1]) |-> b[1] + i],
                total  |-> TotalPages(l, b[1], b[2], limit),
                page   |-> page]

\* The list queries: checkPagination, then paginate with the query's max.
QueryNodes(l, page, limit, maxValidators) ==
    LET p == CheckPagination(page, limit) IN Paginate(p[1], p[2], l, maxValidators)

QueryApps(l, page, limit, maxApplications) ==
    LET p == CheckPagination(page, limit) IN Paginate(p[1], p[2], l, maxApplications)

QueryReceipts(l, page, perPage) ==
    LET p == CheckPagination(page, perPage) IN Paginate(p[1], p[2], l, 1000)

QueryClaims(l, page, perPage) ==
    LET p == CheckPagination(page, perPage) IN Paginate(p[1], p[2], l, 10000)

=============================================================================
