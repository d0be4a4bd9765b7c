-------------------------------- MODULE JobLists --------------------------------
(***************************************************************************)
(* search_jobs and get_saved_jobs: the pages of a listing one after the    *)
(* other, each read in three goes (its text, its route with the number of  *)
(* pages, its job ids) between which a load that comes late may replace    *)
(* the document.  The two loops are alike; they differ in route and url.   *)
(***************************************************************************)
EXTENDS ProfileScrape, SequencesExt

CONSTANTS
  Job,      \* job ids
  Saved,    \* the saved jobs among the listings, which Person names
  Listing,  \* LinkedIn: the ids on each page of each listing, as _extract_job_ids
            \* returns them, each once
  Pages     \* LinkedIn: how many pages each listing says it has

ASSUME ListAssumption ==
  /\ Listing \in [Person -> [Section -> Seq(Job)]]
  /\ \A q \in Person, s \in Section : IsInjective(Listing[q][s])
  /\ Pages \in [Person -> Nat]

VARIABLES
  most,    \* max_pages
  total,   \* total_pages, None while unknown
  text,    \* the page whose text was read last
  listed,  \* page_texts: the pages whose text the answer has
  ids,     \* all_job_ids
  trouble  \* section_errors

listVars == <<most, total, text, listed, ids, trouble>>

ListTypeOK ==
  /\ most \in 0..Len(Order)
  /\ total \in Nat \union {None}
  /\ text \in Page \union {None}
  /\ listed \in Seq(Page)
  /\ ids \in Seq(Job)
  /\ trouble \in BOOLEAN

NoList ==
  /\ most' = 0 /\ total' = None /\ text' = None
  /\ listed' = <<>> /\ ids' = <<>> /\ trouble' = FALSE

ListInit ==
  /\ most = 0 /\ total = None /\ text = None
  /\ listed = <<>> /\ ids = <<>> /\ trouble = FALSE

\* The url of a page: the listing's own, with the offset of the page.
ListPage(q, n) == [kind |-> "list", who |-> q, sec |-> Order[n]]

StartList(q, n) ==
  /\ Begin(q)
  /\ most' = n /\ total' = None /\ text' = None
  /\ listed' = <<>> /\ ids' = <<>> /\ trouble' = FALSE
  /\ pc' = "list"
  /\ UNCHANGED <<pageVars, navVars>>

\* page_num is the number of texts so far.
PageAhead == Len(listed) < most /\ (total # None => Len(listed) < total)

ListNavigates ==
  /\ pc = "list" /\ nav = "idle" /\ PageAhead
  /\ Goto(ListPage(who, Len(listed) + 1))
  /\ UNCHANGED <<callVars, scrapeVars, listVars>>

ListEnds ==
  /\ pc = "list" /\ nav = "idle" /\ ~PageAhead
  /\ End("answered")
  /\ UNCHANGED <<pageVars, listVars>>

ListArrived == pc = "list" /\ nav = "arrived"

ListTextRead ==
  /\ ListArrived
  /\ ClosesModal
  /\ text' = page
  /\ pc' = "total" /\ nav' = "idle"
  /\ UNCHANGED <<who, status, done, scrapeVars, goal, most, total, listed, ids, trouble>>

\* A mistake: chrome is read again and again.
ListChromeForever ==
  /\ ListArrived
  /\ ClosesModal
  /\ again' = TRUE
  /\ nav' = "idle"
  /\ UNCHANGED <<callVars, back, queue, got, goal, listVars>>

\* Only chrome: the page is asked for once more.
ListChromeOnly ==
  /\ ListArrived /\ ~again
  /\ ClosesModal
  /\ again' = TRUE
  /\ nav' = "idle"
  /\ UNCHANGED <<callVars, back, queue, got, goal, listVars>>

\* Chrome again or no text ends the loop without a word, an error with one.
ListTextMissing ==
  /\ pc = "list" /\ nav \in {"arrived", "broken"}
  /\ trouble' \in {nav = "broken", TRUE}
  /\ End("answered")
  /\ UNCHANGED <<pageVars, most, total, text, listed, ids>>

\* A search says "of N" in an element that only its own pages have; the pager of
\* the saved jobs is looked for by a class that other lists have too.
SearchPages == IF page.kind = "list" /\ page.who # Saved THEN {Pages[page.who]} ELSE {}
ListPages == IF page.kind = "list" THEN {Pages[page.who]} ELSE {}

\* Read once, after the first text, at best.
TotalRead ==
  total' \in IF listed # <<>> THEN {total}
             ELSE {None} \union IF who = Saved THEN ListPages ELSE SearchPages

\* The url tells searches from saved jobs, not one search from another.
OnRoute == page.kind = "list" /\ (page.who = Saved <=> who = Saved)

Routed ==
  /\ pc = "total" /\ OnRoute
  /\ TotalRead
  /\ pc' = "ids"
  /\ UNCHANGED <<who, status, done, scrapeVars, pageVars, navVars>>
  /\ UNCHANGED <<most, text, listed, ids, trouble>>

\* The text is kept, whatever page it is of.
OffRoute ==
  /\ pc = "total" /\ ~OnRoute
  /\ TotalRead
  /\ listed' = Append(listed, text)
  /\ End("answered")
  /\ UNCHANGED <<pageVars, most, text, ids, trouble>>

\* Cards load as the list is scrolled.
Shown(s) == {SubSeq(s, 1, n) : n \in 0..Len(s)}
JobsOf(p) == IF p.kind = "list" THEN Listing[p.who][p.sec] ELSE <<>>

Fresh(s) == Range(s) \ Range(ids)

\* t has its elements in the order of s.
KeepsOrder(t, s) ==
  \A i, j \in DOMAIN t : i < j =>
    \E k, l \in DOMAIN s : k < l /\ t[i] = s[k] /\ t[j] = s[l]

\* new_ids: the ids of s that no page before had, in the order of s.
NewIds(s) == {t \in SeqOf(Fresh(s), Len(s)) : Range(t) = Fresh(s) /\ KeepsOrder(t, s)}

IdsRead ==
  /\ pc = "ids"
  /\ \E s \in Shown(JobsOf(page)) :
       /\ Fresh(s) # {}
       /\ \E new \in NewIds(s) : ids' = ids \o new
  /\ listed' = Append(listed, text)
  /\ pc' = "list" /\ again' = FALSE
  /\ UNCHANGED <<who, status, done, back, queue, got, pageVars, navVars>>
  /\ UNCHANGED <<most, total, text, trouble>>

NothingNew ==
  /\ pc = "ids"
  /\ \E s \in Shown(JobsOf(page)) : Fresh(s) = {}
  /\ listed' = Append(listed, text)
  /\ End("answered")
  /\ UNCHANGED <<pageVars, most, total, text, ids, trouble>>

\* The page cannot be evaluated: its text is not kept either.
IdsFail ==
  /\ pc = "ids"
  /\ trouble' = TRUE
  /\ End("answered")
  /\ UNCHANGED <<pageVars, most, total, text, listed, ids>>

Lists ==
  \/ ListNavigates
  \/ ListEnds
  \/ ListTextRead
  \/ ListChromeOnly
  \/ ListTextMissing
  \/ Routed
  \/ OffRoute
  \/ IdsRead
  \/ NothingNew
  \/ IdsFail

=============================================================================
