----------------------------- MODULE Utilities -----------------------------
(***************************************************************************)
(* The elements of a list that are in sight (js/util.js).                  *)
(***************************************************************************)
EXTENDS Integers, Sequences

\* Faulty variant: the element that starts where the window does is passed over.
HalvedBelow(tops, hay, scrollTop) ==
  LET index == hay.lo + (hay.hi - hay.lo + 1) \div 2 IN
  IF hay.lo = hay.hi THEN hay
  ELSE IF tops[index] < scrollTop THEN [hay EXCEPT !.lo = index] ELSE [hay EXCEPT !.hi = index - 1]

\* One turn of the loop: the haystack lo .. hi is halved until one is left.
Halved(tops, hay, scrollTop) ==
  LET index == hay.lo + (hay.hi - hay.lo + 1) \div 2 IN
  IF hay.lo = hay.hi THEN hay
  ELSE IF tops[index] <= scrollTop THEN [hay EXCEPT !.lo = index] ELSE [hay EXCEPT !.hi = index - 1]

\* The loop; there are fewer turns than elements.
Search(tops, scrollTop) ==
  LET hay[turn \in 0..Len(tops)] ==
        IF turn = 0 THEN [lo |-> 1, hi |-> Len(tops)] ELSE Halved(tops, hay[turn - 1], scrollTop)
  IN hay[Len(tops)].lo

\* findVisibleElements(), as positions.
FindVisibleElements(tops, scrollTop, offsetHeight) ==
  IF tops = <<>> THEN {}
  ELSE LET first == Search(tops, scrollTop)
       IN {i \in first .. Len(tops) :
             \A j \in first .. i : tops[j] <= scrollTop + offsetHeight}
=============================================================================
