----------------------------- MODULE References -----------------------------
(***************************************************************************)
(* scraping/link_metadata.py: what becomes of the links of the pages a     *)
(* tool reads.  A pure algorithm: the state is what LinkedIn shows, page   *)
(* after page, and the permalinks the feed's responses carried; the        *)
(* answer's references are operators of it.                                *)
(*                                                                         *)
(* A label is the length of what cleaning leaves of it (0: nothing, only a *)
(* generic word, or a URL), once as it is and once up to " by ", where     *)
(* titles of articles are cut.  A URL is a place and an id.                *)
(***************************************************************************)
EXTENDS Naturals, FiniteSets, SequencesExt

CONSTANTS
  Anchor,      \* the links LinkedIn shows
  Permalink,   \* the permalinks in responses: [post, id], a post's or another's
  Caps,        \* _REFERENCE_CAPS: the most references of each section
  MaxAnchors,  \* MAX_REFERENCE_ANCHORS
  MaxUnwrap,   \* _MAX_REDIRECT_UNWRAP_DEPTH
  MaxLabel,    \* the length of the longest label
  MaxShown,    \* bound on the links shown
  MaxPages     \* bound on the pages read

ASSUME ReferencesAssumption ==
  /\ {"search_results", "main_profile", "feed"} \subseteq DOMAIN Caps
  /\ Caps \in [DOMAIN Caps -> Nat]
  /\ {MaxAnchors, MaxUnwrap, MaxLabel, MaxShown, MaxPages} \subseteq Nat
  /\ \A a \in Anchor : a.labels \in SUBSET [whole : Nat, head : Nat]

VARIABLES
  pages,    \* the pages read: whether each has a main element, and its links
  captured  \* captured_urls, in the order the responses were read

refVars == <<pages, captured>>

-----------------------------------------------------------------------------
(***************************************************************************)
(* One link.                                                               *)
(***************************************************************************)

Dropped == [kind |-> "none"]

\* A link that LinkedIn wraps too often in its own redirect is dropped, as is
\* one that leads to a script, a mail or a telephone.
NormalizeUrl(a) == a.wraps <= MaxUnwrap /\ a.scheme = "http"

\* The kinds by the first segments of the path.
KindOf == [in |-> "person", company |-> "company", school |-> "school", jobs |-> "job",
           newsletters |-> "newsletter", pulse |-> "article", update |-> "feed_post",
           thread |-> "conversation"]

\* Searches, help, settings and the like.
IsLinkedInChrome(a) == a.place \in {"people", "search", "help", "overlay", "preload"}

\* Parts of a profile are not the profile; a people search counts only as the
\* search of a company's employees; LinkedIn's own pages not at all.
ClassifyLink(a) ==
  CASE a.host = "other" -> "external"
    [] a.place = "people" /\ a.id # 0 -> "company_urn"
    [] IsLinkedInChrome(a) -> "none"
    [] a.place = "in" /\ a.suffix -> "none"
    [] a.place \in DOMAIN KindOf -> KindOf[a.place]
    [] OTHER -> "none"

CleanLabel(l, kind) ==
  LET n == IF kind \in {"article", "external"} THEN l.head ELSE l.whole
  IN IF n \in 2..MaxLabel THEN n ELSE 0

\* The shortest label, one of two characters only if there is no other.
ReferenceText(a, kind) ==
  LET good == {CleanLabel(l, kind) : l \in a.labels} \ {0}
      best == IF good \subseteq {2} THEN good ELSE good \ {2}
  IN IF good = {} THEN 0 ELSE CHOOSE n \in best : \A k \in best : n <= k

SectionContexts == {"experience", "education", "interests", "honors", "languages",
                    "contact_info", "job_posting", "inbox", "conversation"}

\* The hint that goes with a reference, "" without one.
DeriveContext(sec, a, kind) ==
  CASE sec \in SectionContexts -> sec
    [] sec = "search_results" -> IF kind = "job" THEN "job result" ELSE "search result"
    [] sec = "posts" -> IF kind = "person" THEN "post author"
                        ELSE IF kind = "feed_post" THEN "company post" ELSE "post attachment"
    [] sec \in {"main_profile", "about"} ->
         IF a.heading # "" THEN a.heading ELSE IF a.article THEN "featured" ELSE "top card"
    [] OTHER -> a.heading

NormalizeReference(a, sec) ==
  LET kind == ClassifyLink(a)
      text == IF kind = "company_urn" THEN 0 ELSE ReferenceText(a, kind)
  IN IF \/ a.chrome \/ ~NormalizeUrl(a) \/ kind = "none"
        \/ text = 0 /\ kind \notin {"feed_post", "external", "conversation", "company_urn"}
     THEN Dropped
     ELSE [kind |-> kind, url |-> <<a.host, a.place, a.id>>, text |-> text,
           context |-> DeriveContext(sec, a, kind)]

-----------------------------------------------------------------------------
(***************************************************************************)
(* The references of a section.                                            *)
(***************************************************************************)

FirstOf(s, n) == SubSeq(s, 1, IF Len(s) < n THEN Len(s) ELSE n)

\* The elements of s at the places I, a list comprehension with an if.
Among(s, I) == FoldLeftDomain(LAMBDA t, i : IF i \in I THEN Append(t, s[i]) ELSE t, <<>>, s)

\* _reference_score, compared as Python compares tuples.
Score(r) == <<IF r.text > 0 THEN 1 ELSE 0, IF r.context # "" THEN 1 ELSE 0, r.text>>
Above(s, t) == \E i \in 1..3 : s[i] > t[i] /\ \A j \in 1..(i - 1) : s[j] = t[j]

ChooseBetterReference(old, new) == IF Above(Score(new), Score(old)) THEN new ELSE old

\* A url keeps the place where it came first.
Merged(refs, r) ==
  IF \E i \in DOMAIN refs : refs[i].url = r.url
  THEN [i \in DOMAIN refs |-> IF refs[i].url = r.url THEN ChooseBetterReference(refs[i], r) ELSE refs[i]]
  ELSE Append(refs, r)

DedupeReferences(refs, cap) == FirstOf(FoldLeft(Merged, <<>>, refs), cap)

\* The links of the root: of main when there is one, of the body else.
RootContent(page) ==
  LET inside == Among(page.links, {i \in DOMAIN page.links : page.main => page.links[i].main})
      first == FirstOf(inside, MaxAnchors)
  IN Among(first, {i \in DOMAIN first : first[i].place # ""})

Normalized(page, sec) ==
  LET raw == RootContent(page)
      refs == [i \in DOMAIN raw |-> NormalizeReference(raw[i], sec)]
  IN Among(refs, {i \in DOMAIN refs : refs[i] # Dropped})

\* Fault: the cap counts links, not references.
BuildCapped(page, sec) == DedupeReferences(FirstOf(Normalized(page, sec), Caps[sec]), Caps[sec])

BuildReferences(page, sec) == DedupeReferences(Normalized(page, sec), Caps[sec])

\* search_jobs: those of its pages, one page after the other.
ListingReferences ==
  DedupeReferences(FlattenSeq([i \in DOMAIN pages |-> BuildReferences(pages[i], "search_results")]),
                   Caps["search_results"])

\* get_feed: the posts among the links, and what only the responses named.
PostUrl(c) == <<"linkedin", "posts", c.id>>

Named(refs, c) ==
  IF ~c.post \/ \E i \in DOMAIN refs : refs[i].url = PostUrl(c) THEN refs
  ELSE Append(refs, [kind |-> "feed_post", url |-> PostUrl(c), text |-> 0, context |-> "feed"])

FeedReferences ==
  LET refs == BuildReferences(pages[1], "feed")
      posts == Among(refs, {i \in DOMAIN refs : refs[i].kind = "feed_post"})
  IN DedupeReferences(FoldLeft(Named, posts, captured), Caps["feed"])

-----------------------------------------------------------------------------
(***************************************************************************)
(* What LinkedIn shows.                                                    *)
(***************************************************************************)

RefInit == pages = <<>> /\ captured = <<>>

Shown == Len(captured) + Len(FlattenSeq([i \in DOMAIN pages |-> pages[i].links]))

ShowsLink ==
  /\ pages # <<>> /\ Shown < MaxShown
  /\ \E a \in Anchor : pages' = [pages EXCEPT ![Len(pages)].links = Append(@, a)]
  /\ UNCHANGED captured

TurnsPage ==
  /\ Len(pages) < MaxPages /\ captured = <<>>
  /\ \E m \in BOOLEAN : pages' = Append(pages, [main |-> m, links |-> <<>>])
  /\ UNCHANGED captured

Captures ==
  /\ Shown < MaxShown /\ Len(pages) = 1
  /\ \E c \in Permalink : captured' = Append(captured, c)
  /\ UNCHANGED pages

RefNext == ShowsLink \/ TurnsPage \/ Captures

RefSpec == RefInit /\ [][RefNext]_refVars

RefTypeOK ==
  /\ pages \in Seq([main : BOOLEAN, links : Seq(Anchor)])
  /\ captured \in Seq(Permalink)

-----------------------------------------------------------------------------
\* Where each url of a sequence of references comes first.
FirstPlaces(refs) == {i \in DOMAIN refs : \A j \in 1..(i - 1) : refs[j].url # refs[i].url}

\* What the caps keep, of each page, of a listing and of the feed.  A page's
\* reference to a url is the best described of all its links to it, wherever they
\* are.  A listing's references are the urls of all its pages in the order in which
\* they first came, although every page was cut before the pages were put together,
\* each as the best of the pages' own references to it: a better link is lost with
\* the end of its page.  The feed's answer names every post whose permalink a
\* response carried, unless it is full.
ReferencesRight ==
  /\ LET all == FlattenSeq([i \in DOMAIN pages |-> Normalized(pages[i], "search_results")])
         refs == ListingReferences
         first == FirstPlaces(all)
         Rank(i) == Cardinality({j \in first : j <= i})
     IN /\ Len(refs) <= Cardinality(first)
        /\ \A i \in first : Rank(i) <= Caps["search_results"] =>
             Rank(i) <= Len(refs) /\ refs[Rank(i)].url = all[i].url
  /\ LET refs == ListingReferences
     IN \A n \in DOMAIN refs, p \in DOMAIN pages :
          LET own == BuildReferences(pages[p], "search_results")
          IN \A i \in DOMAIN own :
               own[i].url = refs[n].url => ~Above(Score(own[i]), Score(refs[n]))
  /\ \A p \in DOMAIN pages, sec \in DOMAIN Caps :
       LET refs == BuildReferences(pages[p], sec)
           all == Normalized(pages[p], sec)
       IN /\ Len(refs) <= Caps[sec]
          /\ \A n \in DOMAIN refs : \A i \in DOMAIN all :
               all[i].url = refs[n].url => ~Above(Score(all[i]), Score(refs[n]))
  /\ LET refs == FeedReferences
     IN \A i \in DOMAIN captured :
          captured[i].post /\ Len(refs) < Caps["feed"] =>
            \E n \in DOMAIN refs : refs[n].url = PostUrl(captured[i])
=============================================================================
