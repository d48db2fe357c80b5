------------------------------- MODULE NavMenu -------------------------------
(***************************************************************************)
(* The header navigation of theme.js: timber.alignMenu moves the top-level *)
(* items that do not fit into a "More" dropdown, and timber.responsiveNav  *)
(* undoes and redoes that after every (debounced) window resize.  An item  *)
(* is a model value with an outer width; customer links hidden on large   *)
(* screens (large-hide) take no width.  A viewport is the window's inner   *)
(* width against the breakpoint and the nav's usable width (outerWidth     *)
(* minus the 101 px kept for the More button).                            *)
(***************************************************************************)
EXTENDS Integers, Sequences, SequencesExt, FiniteSets

CONSTANTS
    Items,       \* the top-level items in document order
    Width,       \* Width[el]: $el.outerWidth(true)
    LargeHide,   \* LargeHide[el]: the item has the large-hide class
    Viewports,   \* [large: the window is at least bpLarge wide, wrapper: width]
    MaxResizes   \* bound on resize callbacks in one behaviour

VARIABLES
    nav,         \* the items that are children of the navigation, in order
    more,        \* the items of #moreMenu--list, <<>> when there is no More
    vp,          \* the viewport at the last alignMenu
    resizes      \* resize callbacks run so far

vars == <<nav, more, vp, resizes>>

-----------------------------------------------------------------------------
(* alignMenu *)

\* The width an item adds to w.
Counted(el) == IF LargeHide[el] THEN 0 ELSE Width[el]

\* One turn of $.each over the children: the width is added, and an item
\* past the usable width is cut into menuhtml; i counts the visible ones.
AlignStep(v, acc, el) ==
    LET w == acc.w + Counted(el)
        out == v.wrapper < w
    IN [w     |-> w,
        i     |-> IF out /\ ~LargeHide[el] THEN acc.i + 1 ELSE acc.i,
        keep  |-> IF out THEN acc.keep ELSE Append(acc.keep, el),
        moved |-> IF out THEN Append(acc.moved, el) ELSE acc.moved]

\* The $.each loop over the children, from w = 0 and i = 0.
Cut(items, v) ==
    FoldLeft(LAMBDA acc, el : AlignStep(v, acc, el),
             [w |-> 0, i |-> 0, keep |-> <<>>, moved |-> <<>>], items)

\* Mutant: the More menu is kept even when only one visible item moved.
AlignMenuNoBail(items, v) ==
    IF ~v.large THEN [nav |-> items, more |-> <<>>]
    ELSE LET r == Cut(items, v)
         IN IF v.wrapper < r.w
            THEN [nav |-> r.keep, more |-> r.moved]
            ELSE [nav |-> r.keep \o r.moved, more |-> <<>>]

\* alignMenu on a navigation without More: nothing below the breakpoint;
\* otherwise the overflowing items go to a new More menu, which is undone
\* at once (its items appended back) when at most one visible item moved.
AlignMenu(items, v) ==
    IF ~v.large THEN [nav |-> items, more |-> <<>>]
    ELSE LET r == Cut(items, v)
         IN IF v.wrapper < r.w /\ r.i > 1
            THEN [nav |-> r.keep, more |-> r.moved]
            ELSE [nav |-> r.keep \o r.moved, more |-> <<>>]

\* The More menu's items appended back to the navigation, and #moreMenu
\* removed.
Restore(n, m) == n \o m

-----------------------------------------------------------------------------
(* Steps *)

\* The window load handler of the header section: responsiveNav aligns the
\* menu at the initial viewport.
Init ==
    /\ vp \in Viewports
    /\ nav = AlignMenu(Items, vp).nav
    /\ more = AlignMenu(Items, vp).more
    /\ resizes = 0

\* The afterResize callback of responsiveNav (200 ms, 'uniqueID', so
\* resizes in a burst run it once, at the final viewport): restore, then
\* alignMenu again.
Resize(v) ==
    /\ resizes < MaxResizes
    /\ resizes' = resizes + 1
    /\ vp' = v
    /\ LET r == AlignMenu(Restore(nav, more), v) IN
         /\ nav' = r.nav
         /\ more' = r.more

Next == \E v \in Viewports : Resize(v)

Spec == Init /\ [][Next]_vars

-----------------------------------------------------------------------------
(* Reference and properties *)

\* Visible width of the first k items.
Prefix[k \in 0..Len(Items)] ==
    IF k = 0 THEN 0 ELSE Prefix[k - 1] + Counted(Items[k])

\* The menu as a fresh page load would lay it out at viewport v: the
\* longest prefix that fits stays, and the rest goes to More if it holds at
\* least two visible items.
Reference(v) ==
    LET p == Cardinality({k \in 1..Len(Items) : Prefix[k] <= v.wrapper})
        rest == SubSeq(Items, p + 1, Len(Items))
        shown == Cardinality({k \in 1..Len(rest) : ~LargeHide[rest[k]]})
    IN IF v.large /\ shown >= 2
       THEN [nav |-> SubSeq(Items, 1, p), more |-> rest]
       ELSE [nav |-> Items, more |-> <<>>]

\* After any sequence of resizes the menu is exactly what a fresh load at
\* the current viewport shows: the restore of responsiveNav undoes every
\* earlier layout, so no item is lost, duplicated or reordered and the More
\* menu never holds a single visible item.
LayoutMatchesFreshLoad == [nav |-> nav, more |-> more] = Reference(vp)

====
