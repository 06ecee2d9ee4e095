------------------------------- MODULE MCPaging -------------------------------
(***************************************************************************)
(* A visitor in a list: follows links, types page numbers, while posts are *)
(* added and removed between two requests.                                 *)
(***************************************************************************)
EXTENDS Paging

CONSTANTS MaxRecords,   \* bound on the length of the list
          Sizes,        \* page sizes; 0 is replaced by 10
          Asked         \* numbers typed into the URL

ASSUME PagingAssumption == /\ MaxRecords \in Nat /\ Sizes \subseteq Nat
                           /\ Asked \subseteq Nat

VARIABLES records, size,
          page,      \* the page that was answered with
          shown,     \* the number of pages at that time
          settled    \* it was shown, not redirected to

walk == <<records, size, page, shown, settled>>

(* The page asked for is shown, or the visitor is redirected once more. *)
Request(n) ==
    /\ page' = CurPage(records, size, n)
    /\ shown' = PageTotal(records, size)
    /\ settled' = (CurPage(records, size, n) = n)
    /\ UNCHANGED <<records, size>>

WalkInit == records \in 0 .. MaxRecords /\ size \in Sizes /\ page = 0
            /\ shown = PageTotal(records, size) /\ settled = TRUE
Type == settled /\ \E n \in Asked : Request(n)
Follow == settled /\ \E n \in Links(shown, page) : Request(n)
Redirected == ~settled /\ Request(page)
Change ==
    /\ \E r \in {records - 1, records + 1} : r \in 0 .. MaxRecords /\ records' = r
    /\ UNCHANGED <<size, page, shown, settled>>
WalkNext == Type \/ Follow \/ Redirected \/ Change
WalkSpec == WalkInit /\ [][WalkNext]_walk

(***************************************************************************)
(* The queries of the pages 0 to page_total - 1 of a list bring every post *)
(* exactly once, and no page is empty unless the list is.                  *)
(***************************************************************************)
EveryRowOnce ==
    LET all == 0 .. PageTotal(records, size) - 1
    IN /\ \A i \in 0 .. records - 1 :
            Cardinality({n \in all : i \in Rows(records, size, n)}) = 1
       /\ records > 0 => \A n \in all : Rows(records, size, n) # {}

(***************************************************************************)
(* The page shown is one of the list as it was, and links to the next and  *)
(* the previous page, the first and the last, and to no page that was not  *)
(* there.                                                                  *)
(***************************************************************************)
NeighboursLinked ==
    settled => /\ page \in 0 .. shown - 1
               /\ Links(shown, page) \subseteq 0 .. shown - 1
               /\ {n \in {0, page - 1, page + 1, shown - 1} : n \in 0 .. shown - 1 /\ n # page}
                    \subseteq Links(shown, page)

(***************************************************************************)
(* As long as the number of pages does not change, a link of a page is not *)
(* answered with a redirect, and a redirect leads to a page that is shown. *)
(***************************************************************************)
RedirectsOnce == [][shown = PageTotal(records, size) /\ (Follow \/ Redirected) => settled']_walk

=============================================================================
