------------------------------ MODULE PageProofs ------------------------------
(***************************************************************************)
(* Proofs about two small parts of a page: the images of its formulas      *)
(* (TexImages) and the numbers of the pages of a list (MCPaging).          *)
(***************************************************************************)
EXTENDS TexImages, MCPaging, FiniteSetTheorems, TLAPS

-----------------------------------------------------------------------------
(***************************************************************************)
(* Images.  On one device nothing is ever copied, and the final name has a *)
(* whole image from the first rename on.  Between two devices a request    *)
(* that writes stands behind every image that is not whole, as long as no  *)
(* crash has taken one away.                                               *)
(***************************************************************************)
OneDevice == same =>
    /\ \A r \in Requests : pc[r] \notin {"copy", "write"}
    /\ \A r \in Requests : pc[r] = "shown" => gif \in whole
    /\ gif # Absent => gif \in whole
Written == crashes = 0 /\ gif # Absent /\ gif \notin whole =>
    \E r \in Requests : pc[r] = "write" /\ out[r] = gif
ImageInv ==
    /\ crashes \in Nat
    /\ pc = [r \in Requests |-> pc[r]] /\ out = [r \in Requests |-> out[r]]
    /\ OneDevice /\ Written

(* Every step of convert and create_gif keeps the invariant. *)
LEMMA ImageStep ==
    ASSUME ImageInv, [Next]_vars
    PROVE  ImageInv'
<1> USE DEF ImageInv, OneDevice, Written, Goes
<1>1. CASE UNCHANGED vars
  BY <1>1 DEF vars
<1>2. CASE Crash
  BY <1>2 DEF Crash
<1>3. ASSUME NEW r \in Requests,
             Stat(r) \/ Spawn(r) \/ SpawnFails(r) \/ Answer(r)
      PROVE  ImageInv'
  BY <1>3 DEF Stat, Spawn, SpawnFails, Answer
<1>4. ASSUME NEW r \in Requests, Rename(r) PROVE ImageInv'
  BY <1>4 DEF Rename, Free
<1>5. ASSUME NEW r \in Requests, CopyOpen(r) PROVE ImageInv'
  BY <1>5 DEF CopyOpen, Free
<1>6. ASSUME NEW r \in Requests, CopyWrite(r) PROVE ImageInv'
  BY <1>6 DEF CopyWrite
<1>7. ASSUME NEW r \in Requests, CopyFails(r) PROVE ImageInv'
  BY <1>7 DEF CopyFails
<1> QED BY <1>1, <1>2, <1>3, <1>4, <1>5, <1>6, <1>7 DEF Next

(* The invariant holds for every run of the requests. *)
LEMMA ImageTypes == Spec => []ImageInv
<1>1. Init => ImageInv
  BY DEF Init, ImageInv, OneDevice, Written
<1>2. ImageInv /\ [Next]_vars => ImageInv'
  BY ImageStep
<1> QED BY <1>1, <1>2, PTL DEF Spec

(***************************************************************************)
(* create_gif, with both directories on one device: a page that refers to  *)
(* an image refers to a whole one, for any number of requests and crashes. *)
(***************************************************************************)
THEOREM ImagesShownWhole == Spec => []ShownIsWhole
<1>1. ImageInv => ShownIsWhole
  BY DEF ImageInv, OneDevice, ShownIsWhole
<1> QED BY <1>1, ImageTypes, PTL

(***************************************************************************)
(* copy_file, which removes what it could not write: without a crash, no   *)
(* partial image is left when the requests have gone.                      *)
(***************************************************************************)
THEOREM ImagesKeptWhole == Spec => []KeptIsWhole
<1>1. ImageInv => KeptIsWhole
  BY DEF ImageInv, Written, KeptIsWhole
<1> QED BY <1>1, ImageTypes, PTL

-----------------------------------------------------------------------------
(* Numbers of pages. *)

(* The quotient and the page it stands for: n is the page of the row i. *)
LEMMA PageOfRow ==
    ASSUME NEW i \in Nat, NEW s \in Nat \ {0}
    PROVE  /\ i \div s \in Nat
           /\ (i \div s) * s <= i /\ i < (i \div s + 1) * s
  OBVIOUS

(* More pages have more rows. *)
LEMMA TimesMonotone ==
    ASSUME NEW a \in Nat, NEW b \in Nat, NEW s \in Nat, a <= b
    PROVE  a * s <= b * s
  OBVIOUS

(***************************************************************************)
(* calc_pages: there is at least one page, and the page a row is on is one *)
(* of them; the page before the last is full.                              *)
(***************************************************************************)
LEMMA TotalBounds ==
    ASSUME NEW n \in Nat, NEW sz \in Nat
    PROVE  LET s == EffectiveSize(sz)
               t == PageTotal(n, sz)
           IN /\ s \in Nat \ {0} /\ t \in Nat \ {0}
              /\ n <= t * s
              /\ n > 0 => (t - 1) * s < n
<1> DEFINE s == EffectiveSize(sz)
           t == PageTotal(n, sz)
<1>1. s \in Nat \ {0}
  BY DEF EffectiveSize
<1>2. CASE n = 0
  BY <1>1, <1>2 DEF PageTotal
<1>3. CASE n > 0
  <2> DEFINE q == (n + s - 1) \div s
  <2>1. n + s - 1 \in Nat
    BY <1>1, <1>3
  <2> HIDE DEF s
  <2>2. q \in Nat /\ q * s <= n + s - 1 /\ n + s - 1 < (q + 1) * s
    BY <1>1, <2>1, PageOfRow
  <2>3. (q + 1) * s = q * s + s /\ (q - 1) * s = q * s - s /\ q * s \in Int
    BY <1>1, <2>2
  <2>4. n <= q * s /\ (q - 1) * s < n
    <3> HIDE DEF q
    <3> QED BY <1>1, <2>2, <2>3
  <2>5. q # 0
    <3> HIDE DEF q
    <3> QED BY <1>1, <1>3, <2>2, <2>3, <2>4
  <2>6. t = q
    BY <1>3 DEF PageTotal, s
  <2> HIDE DEF t, q
  <2> QED BY <1>1, <2>2, <2>4, <2>5, <2>6 DEF s, t
<1> QED BY <1>2, <1>3

(* A row is on the page of its quotient, and on no other. *)
LEMMA OnePage ==
    ASSUME NEW n \in Nat, NEW sz \in Nat, NEW i \in 0 .. n - 1
    PROVE  {m \in 0 .. PageTotal(n, sz) - 1 : i \in Rows(n, sz, m)}
             = {i \div EffectiveSize(sz)}
<1> DEFINE s == EffectiveSize(sz)
           t == PageTotal(n, sz)
           q == i \div s
<1>1. s \in Nat \ {0} /\ t \in Nat \ {0} /\ n <= t * s
  BY TotalBounds
<1>2. i \in Nat /\ i < n
  OBVIOUS
<1> HIDE DEF s, t
<1>3. q \in Nat /\ q * s <= i /\ i < (q + 1) * s
  BY <1>1, <1>2, PageOfRow
<1> HIDE DEF q
<1>4. q < t
  <2>1. SUFFICES ASSUME t <= q PROVE FALSE
    BY <1>1, <1>3
  <2>2. t * s <= q * s
    BY <1>1, <1>3, <2>1, TimesMonotone
  <2>3. t * s \in Int /\ q * s \in Int
    BY <1>1, <1>3
  <2> QED BY <1>1, <1>2, <1>3, <2>2, <2>3
<1>5. ASSUME NEW m \in Nat, m * s <= i, i < (m + 1) * s PROVE m = q
  <2>1. ASSUME NEW a \in Nat, NEW b \in Nat, a * s <= i, i < (b + 1) * s PROVE a <= b
    <3>1. SUFFICES ASSUME b + 1 <= a PROVE FALSE
      OBVIOUS
    <3>2. (b + 1) * s <= a * s
      BY <1>1, <3>1, TimesMonotone
    <3>3. a * s \in Int /\ (b + 1) * s \in Int
      BY <1>1
    <3> QED BY <1>2, <2>1, <3>2, <3>3
  <2>2. m <= q
    BY <2>1, <1>3, <1>5
  <2>3. q <= m
    BY <2>1, <1>3, <1>5
  <2> QED BY <1>3, <2>2, <2>3
<1>6. q \in 0 .. t - 1
  BY <1>1, <1>3, <1>4
<1>7. \A m \in 0 .. t - 1 : i \in Rows(n, sz, m) <=> m * s <= i /\ i < (m + 1) * s
  BY DEF Rows, s
<1>8. {m \in 0 .. t - 1 : i \in Rows(n, sz, m)} = {q}
  BY <1>3, <1>5, <1>6, <1>7
<1> QED BY <1>8 DEF s, t, q

(* The first row of a page that is there is on it. *)
LEMMA PageFull ==
    ASSUME NEW n \in Nat, NEW sz \in Nat, n > 0, NEW m \in 0 .. PageTotal(n, sz) - 1
    PROVE  Rows(n, sz, m) # {}
<1> DEFINE s == EffectiveSize(sz)
           t == PageTotal(n, sz)
<1>1. s \in Nat \ {0} /\ t \in Nat \ {0} /\ (t - 1) * s < n
  BY TotalBounds
<1>2. m \in Nat /\ m <= t - 1
  BY <1>1
<1> HIDE DEF s, t
<1>3. m * s <= (t - 1) * s /\ m * s \in Nat /\ (t - 1) * s \in Nat
  BY <1>1, <1>2, TimesMonotone
<1>4. m * s \in 0 .. n - 1
  BY <1>1, <1>3
<1>5. m * s < (m + 1) * s
  <2>1. (m + 1) * s = m * s + s
    BY <1>1, <1>2
  <2> QED BY <1>1, <1>3, <2>1
<1>6. m * s \in Rows(n, sz, m)
  BY <1>3, <1>4, <1>5 DEF Rows, s
<1> QED BY <1>6

(* The page shown is one of the list as it was. *)
WalkInv ==
    /\ records \in Nat /\ size \in Nat /\ shown \in Nat \ {0}
    /\ page \in 0 .. shown - 1

(* MULTI_PAGE: only pages that are there are linked. *)
LEMMA LinksInside ==
    ASSUME NEW total \in Nat \ {0}, NEW cur \in 0 .. total - 1
    PROVE  Links(total, cur) \subseteq 0 .. total - 1
  BY DEF Links, Window

(* MULTI_PAGE: the neighbours and both ends are linked. *)
LEMMA LinksAround ==
    ASSUME NEW total \in Nat \ {0}, NEW cur \in 0 .. total - 1
    PROVE  {n \in {0, cur - 1, cur + 1, total - 1} : n \in 0 .. total - 1 /\ n # cur}
             \subseteq Links(total, cur)
  BY DEF Links, Window

(* calc_pages corrects a number to one that is there, and only then. *)
LEMMA Corrected ==
    ASSUME NEW n \in Nat, NEW s \in Nat, NEW p \in Int
    PROVE  /\ CurPage(n, s, p) \in 0 .. PageTotal(n, s) - 1
           /\ p \in 0 .. PageTotal(n, s) - 1 => CurPage(n, s, p) = p
<1>1. PageTotal(n, s) \in Nat \ {0} /\ (n = 0 => PageTotal(n, s) = 1)
  BY TotalBounds DEF PageTotal
<1> QED BY <1>1 DEF CurPage

(* summary::prepare: any number asked for ends on a page that is there. *)
LEMMA AskedNumbers ==
    ASSUME WalkInv, NEW n \in Int, Request(n)
    PROVE  WalkInv' /\ (n \in 0 .. PageTotal(records, size) - 1 => settled')
<1>1. PageTotal(records, size) \in Nat \ {0}
  BY TotalBounds DEF WalkInv
<1> QED BY <1>1, Corrected DEF WalkInv, Request

(* So does every step of a visitor. *)
LEMMA WalkStep ==
    ASSUME WalkInv, [WalkNext]_walk
    PROVE  WalkInv'
<1>1. CASE Type
  BY <1>1, AskedNumbers, PagingAssumption DEF Type
<1>2. CASE Follow
  <2>1. Links(shown, page) \subseteq Int
    BY LinksInside DEF WalkInv
  <2> QED BY <1>2, <2>1, AskedNumbers DEF Follow
<1>3. CASE Redirected
  BY <1>3, AskedNumbers DEF Redirected, WalkInv
<1>4. CASE Change
  BY <1>4, PagingAssumption DEF Change, WalkInv
<1>5. CASE UNCHANGED walk
  BY <1>5 DEF walk, WalkInv
<1> QED BY <1>1, <1>2, <1>3, <1>4, <1>5 DEF WalkNext

(* The page shown is always one of the list. *)
LEMMA WalkTypes == WalkSpec => []WalkInv
<1>1. WalkInit => WalkInv
  <2>1. ASSUME WalkInit PROVE records \in Nat /\ size \in Nat
    BY <2>1, PagingAssumption DEF WalkInit
  <2>2. ASSUME WalkInit PROVE PageTotal(records, size) \in Nat \ {0}
    BY <2>1, <2>2, TotalBounds
  <2> QED BY <2>1, <2>2 DEF WalkInit, WalkInv
<1>2. WalkInv /\ [WalkNext]_walk => WalkInv'
  BY WalkStep
<1> QED BY <1>1, <1>2, PTL DEF WalkSpec

(***************************************************************************)
(* calc_pages with LIMIT and OFFSET: for every number of posts and every   *)
(* page size, each post is on exactly one page and no page is empty.       *)
(***************************************************************************)
THEOREM EveryRowShown == WalkSpec => []EveryRowOnce
<1>1. WalkInv => EveryRowOnce
  <2> SUFFICES ASSUME WalkInv PROVE EveryRowOnce
    OBVIOUS
  <2>1. records \in Nat /\ size \in Nat
    BY DEF WalkInv
  <2> DEFINE all == 0 .. PageTotal(records, size) - 1
  <2>2. ASSUME NEW i \in 0 .. records - 1
        PROVE  Cardinality({n \in all : i \in Rows(records, size, n)}) = 1
    <3>1. {n \in all : i \in Rows(records, size, n)} = {i \div EffectiveSize(size)}
      BY <2>1, OnePage
    <3> QED BY <3>1, FS_Singleton
  <2>3. records > 0 => \A n \in all : Rows(records, size, n) # {}
    BY <2>1, PageFull
  <2> QED BY <2>2, <2>3 DEF EveryRowOnce
<1> QED BY <1>1, WalkTypes, PTL

(***************************************************************************)
(* MULTI_PAGE: for every length of the list, the page shown links to its   *)
(* neighbours, the first and the last page, and to no page that is not.    *)
(***************************************************************************)
THEOREM NeighboursAreLinked == WalkSpec => []NeighboursLinked
<1>1. WalkInv => NeighboursLinked
  BY LinksInside, LinksAround DEF WalkInv, NeighboursLinked
<1> QED BY <1>1, WalkTypes, PTL

(***************************************************************************)
(* As long as the number of pages stays, no link is redirected, and no     *)
(* redirect leads to another.                                              *)
(***************************************************************************)
THEOREM OneRedirect == WalkSpec => RedirectsOnce
<1>1. WalkInv /\ [WalkNext]_walk =>
        [shown = PageTotal(records, size) /\ (Follow \/ Redirected) => settled']_walk
  <2> SUFFICES ASSUME WalkInv, shown = PageTotal(records, size), Follow \/ Redirected
               PROVE  settled'
    OBVIOUS
  <2>1. CASE Follow
    <3>1. Links(shown, page) \subseteq 0 .. shown - 1
      BY LinksInside DEF WalkInv
    <3>2. PICK n \in Links(shown, page) : Request(n)
      BY <2>1 DEF Follow
    <3>3. n \in Int /\ n \in 0 .. PageTotal(records, size) - 1
      BY <3>1, <3>2
    <3> QED BY <3>2, <3>3, AskedNumbers
  <2>2. CASE Redirected
    <3>1. page \in Int /\ page \in 0 .. PageTotal(records, size) - 1
      BY DEF WalkInv
    <3> QED BY <2>2, <3>1, AskedNumbers DEF Redirected
  <2> QED BY <2>1, <2>2
<1> QED BY <1>1, WalkTypes, PTL DEF WalkSpec, RedirectsOnce

=============================================================================
