----------------------------- MODULE MCPagedListing -----------------------------
(***************************************************************************)
(* PagedListing for model checking, and the statement about it that GitHub's *)
(* paging does not keep.                                                    *)
(***************************************************************************)
EXTENDS PagedListing

\* Retry-After: in the past, at once, a short while, and too long.
MCHints == {-5, 0, 2, 900}

\* None, part of a page, one page, several pages and a part.
MCSizes == 0 .. 8
MCLimits == 0 .. 9

\* A listing over several pages returns the items of the provider, in order and
\* each once (tests/unit/test_real_providers.py:270-289).
PagesAddUp == listed = "returned" => items = FirstItems
=============================================================================
