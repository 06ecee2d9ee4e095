-------------------------------- MODULE Paging --------------------------------
(***************************************************************************)
(* Page numbers of the lists (data::basic_master): which page is shown and *)
(* which pages are linked to.  Pages are counted from 0.                   *)
(***************************************************************************)
EXTENDS Integers, FiniteSets

(***************************************************************************)
(* calc_pages.  page_total is the quotient rounded up; a page size that is *)
(* not positive becomes 10, but only when there are records.               *)
(***************************************************************************)
EffectiveSize(size) == IF size <= 0 THEN 10 ELSE size
PageTotalDown(records, size) ==  \* variant that rounds down
    IF records = 0 THEN 1 ELSE records \div EffectiveSize(size)
PageTotal(records, size) ==
    IF records = 0 THEN 1
    ELSE (records + EffectiveSize(size) - 1) \div EffectiveSize(size)
CurPageStepBack(records, size, page) ==  \* variant that goes back one page at a time
    IF records = 0 \/ page < 0 THEN 0
    ELSE IF page >= PageTotal(records, size) THEN page - 1 ELSE page
CurPage(records, size, page) ==
    IF records = 0 \/ page < 0 THEN 0
    ELSE IF page >= PageTotal(records, size) THEN PageTotal(records, size) - 1 ELSE page

(***************************************************************************)
(* MULTI_PAGE: the pages with a number, b to e, and the two links to the   *)
(* first and the last page, which are shown when b or e fall short.        *)
(***************************************************************************)
WindowOpen(total, cur) ==  \* variant without the limit at the end
    LET b == IF cur - 5 < 0 THEN 0 ELSE cur - 5
    IN [b |-> b, e |-> b + 9]
Window(total, cur) ==
    LET b == IF cur - 5 < 0 THEN 0 ELSE cur - 5
        e == IF b + 9 >= total THEN total - 1 ELSE b + 9
    IN IF total > 1 THEN [b |-> b, e |-> e] ELSE [b |-> 0, e |-> 0]
Links(total, cur) ==
    LET w == Window(total, cur)
    IN ((w.b .. w.e) \ {cur}) \cup (IF w.b > 0 THEN {0} ELSE {})
         \cup (IF w.e < total - 1 THEN {total - 1} ELSE {})

(* LIMIT and OFFSET of a page, as positions in the ordered result. *)
Rows(records, size, cur) ==
    {i \in 0 .. records - 1 : cur * EffectiveSize(size) <= i /\ i < (cur + 1) * EffectiveSize(size)}

=============================================================================
