------------------------------ MODULE Pagination ------------------------------
(***************************************************************************)
(* paginate() (src/utils/pagination.ts): the items it finds in a response  *)
(* and the pages it yields.                                                *)
(***************************************************************************)
EXTENDS Data

\* One step along resultsPath.
Member(value, name) ==
  LET i == IF value.kind = "object" THEN SelectInSeq(value.entries, LAMBDA e : e[1] = name) ELSE 0
  IN  IF i > 0 THEN value.entries[i][2] ELSE Null

\* extractItems(): the list at the path; without a path, the data itself or the first
\* list among its members.
ExtractItems(data, path) ==
  LET lists == IF data.kind = "object" THEN SelectSeq(data.entries, LAMBDA e : e[2].kind = "list") ELSE <<>>
      found == IF path # <<>> THEN FoldLeft(Member, data, path)
               ELSE IF lists # <<>> THEN lists[1][2] ELSE data
  IN  IF found.kind = "list" THEN found.items ELSE <<>>

\* fetchPage(): the pages requested of a server whose pages have these sizes, and none
\* after them.  A page ends the loop if it is empty, or if it is one of the pages for
\* which stopCondition, or the default of a page that is not full, says so.
NotFull(sizes, limit) == {i \in DOMAIN sizes : sizes[i] < limit}
Requested(sizes, stops) ==
  CHOOSE n \in 1 .. Len(sizes) + 1 :
    LET ends(i) == i > Len(sizes) \/ i \in stops \/ sizes[i] = 0
    IN  ends(n) /\ \A i \in 1 .. n - 1 : ~ends(i)
Yielded(sizes, stops) ==
  LET last == Min({Requested(sizes, stops), Len(sizes)})
  IN  SelectSeq(SubSeq(sizes, 1, last), LAMBDA size : size > 0)
=============================================================================
