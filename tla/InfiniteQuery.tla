---------------------------- MODULE InfiniteQuery ----------------------------
(***************************************************************************)
(* The infinite query of src/utils/infinite-query.ts.  A page is known by  *)
(* its page parameter; getNextPageParam() and getPreviousPageParam() count *)
(* up from the last page and down from the first one.  The AbortController *)
(* is never passed to the client, so that neither abort(), reset() nor a   *)
(* new fetch cancels a fetch that is under way: abort() changes no state.  *)
(***************************************************************************)
EXTENDS Integers, Sequences, SequencesExt

CONSTANTS
  FirstPage, InitialPage, LastPage,   \* the pages there are; options.initialPageParam
  MaxFetches, MaxPages                \* bounds on the fetches under way, and on all pages

VARIABLES
  pages,                              \* _data.pages, by parameter; pageParams is the same
  isFetching, isFetchingNextPage, isFetchingPreviousPage,
  error,                              \* _error is set
  fetches,                            \* awaited pages: [page, forward]
  outlived                            \* history: a fetch was under way at the last reset()

flags == <<isFetching, isFetchingNextPage, isFetchingPreviousPage>>
vars == <<pages, flags, error, fetches, outlived>>

PageRange == FirstPage .. LastPage

TypeOK ==
  /\ pages \in Seq(PageRange)
  /\ {isFetching, isFetchingNextPage, isFetchingPreviousPage, error, outlived} \subseteq BOOLEAN
  /\ fetches \in Seq([page : PageRange, forward : BOOLEAN]) /\ Len(fetches) <= MaxFetches

Init ==
  /\ pages = <<>> /\ fetches = <<>> /\ error = FALSE /\ outlived = FALSE
  /\ isFetching = FALSE /\ isFetchingNextPage = FALSE /\ isFetchingPreviousPage = FALSE

-----------------------------------------------------------------------------
Fetch(p, fwd) ==
  /\ p \in PageRange /\ Len(fetches) < MaxFetches /\ Len(pages) + Len(fetches) < MaxPages
  /\ fetches' = Append(fetches, [page |-> p, forward |-> fwd])
  /\ isFetching' = TRUE /\ error' = FALSE
  /\ UNCHANGED <<pages, outlived>>

\* Mutant of FetchNextPage: calls while the next page is being fetched are not ignored.
FetchNextPageAgain ==
  /\ isFetchingNextPage' = TRUE /\ UNCHANGED isFetchingPreviousPage
  /\ Fetch(IF pages = <<>> THEN InitialPage ELSE Last(pages) + 1, TRUE)

\* fetchNextPage(); without a next page, or with one on its way, it does nothing.
FetchNextPage ==
  /\ ~isFetchingNextPage
  /\ isFetchingNextPage' = TRUE /\ UNCHANGED isFetchingPreviousPage
  /\ Fetch(IF pages = <<>> THEN InitialPage ELSE Last(pages) + 1, TRUE)

FetchPreviousPage ==
  /\ ~isFetchingPreviousPage /\ pages # <<>>
  /\ isFetchingPreviousPage' = TRUE /\ UNCHANGED isFetchingNextPage
  /\ Fetch(Head(pages) - 1, FALSE)

\* The finally blocks clear what they set, whoever has set it since.
Settle(i) ==
  /\ fetches' = RemoveAt(fetches, i) /\ isFetching' = FALSE
  /\ isFetchingNextPage' = (isFetchingNextPage /\ ~fetches[i].forward)
  /\ isFetchingPreviousPage' = (isFetchingPreviousPage /\ fetches[i].forward)
  /\ UNCHANGED outlived

\* A page arrives and joins the pages of _data as it is by now.
Arrived(i) ==
  /\ pages' = IF fetches[i].forward THEN Append(pages, fetches[i].page)
                                    ELSE <<fetches[i].page>> \o pages
  /\ Settle(i) /\ UNCHANGED error

\* A fetch fails; fetchNextPage() swallows an AbortError.
Failed(i) ==
  /\ error' = TRUE \/ (fetches[i].forward /\ UNCHANGED error)
  /\ Settle(i) /\ UNCHANGED pages

Reset ==
  /\ pages' = <<>> /\ error' = FALSE
  /\ isFetching' = FALSE /\ isFetchingNextPage' = FALSE /\ isFetchingPreviousPage' = FALSE
  /\ outlived' = (fetches # <<>>)
  /\ UNCHANGED fetches

Next ==
  \/ FetchNextPage \/ FetchPreviousPage \/ Reset
  \/ \E i \in DOMAIN fetches : Arrived(i) \/ Failed(i)

Spec == Init /\ [][Next]_vars

-----------------------------------------------------------------------------
\* Whatever fetches overlap and in whichever order their pages arrive, the pages are a run
\* without gaps or repetitions, and a page that is under way extends it, unless a fetch
\* has outlived a reset().
PagesContiguous ==
  ~outlived =>
    /\ \A i \in 1 .. Len(pages) - 1 : pages[i + 1] = pages[i] + 1
    /\ \A i \in DOMAIN fetches : \/ pages = <<>>
                               \/ fetches[i].page = IF fetches[i].forward THEN Last(pages) + 1
                                                    ELSE Head(pages) - 1
=============================================================================
