----------------------------- MODULE KnowledgeBase -----------------------------
(***************************************************************************)
(* The knowledge base: administrators write articles and their categories  *)
(* on their screens while customers list, read, count and rate the         *)
(* articles, on the public pages and over JSON.  A handler is a list of    *)
(* awaited queries and statements; the steps of several requests           *)
(* interleave.  The knowledge base is enabled.                             *)
(***************************************************************************)
EXTENDS Naturals, Sequences, FiniteSets

CONSTANTS
  Articles, Categories,  \* their numbers: ids are handed out in this order
  Slugs,
  Requests,
  None,
  MaxAsked               \* bound

VARIABLES
  article, category,
  req,                   \* what each request has read, and the steps it has left
  asked,                 \* how many requests there were, against the bound
  tally                  \* history: reads and votes counted, per article

vars == <<article, category, req, asked, tally>>

Uncounted == [views |-> 0, helpful |-> 0, notHelpful |-> 0]
Input(slug, c, status) == [slug |-> slug, category |-> c, status |-> status]
(* status: "none" while the number is not given, "gone" once the row is deleted. *)
NoArticle == [slug |-> None, category |-> None, status |-> "none", dated |-> FALSE, counts |-> Uncounted]
NoCategory == [status |-> "none", slug |-> None, parent |-> None]
Idle == [kind |-> "none", todo |-> <<>>, id |-> None, input |-> Input(None, None, "none"),
         seen |-> NoArticle, listed |-> {}, roots |-> {}, counted |-> {}, open |-> {}]

There(a) == article[a].status \in {"draft", "published"}
Exists(c) == category[c].status = "there"
PublishedIds == {a \in Articles : article[a].status = "published"}
NextId(rows, Ids) == 
  CHOOSE i \in Ids : rows[i].status = "none" /\ \A j \in Ids : j < i => rows[j].status # "none"
Room(rows, Ids) == \E i \in Ids : rows[i].status = "none"

-----------------------------------------------------------------------------
(* The awaited steps of each handler after its first, in order.  A request    *)
(* begins with its first query: one that this refuses has done nothing.      *)
Steps(kind) ==
  CASE kind \in {"articleStore", "categoryStore"} -> <<"category", "create">>
    [] kind \in {"articleUpdate", "categoryUpdate"} -> <<"slug", "category", "find", "update">>
    [] kind = "show" -> <<"views", "related">>
    [] kind = "findArticleBySlug" -> <<"views">>
    [] kind = "feedback" -> <<"find", "vote">>
    [] kind = "rateArticle" -> <<"vote">>
    [] kind = "index" -> <<"list", "roots", "counts">>
    [] kind = "categoryIndex" -> <<"roots", "counts">>
OfArticle(r) == req[r].kind \in {"articleStore", "articleUpdate", "feedback", "rateArticle"}
At(r, step) == req[r].todo # <<>> /\ Head(req[r].todo) = step
Begin(kind) == [Idle EXCEPT !.kind = kind, !.todo = Steps(kind), !.open = PublishedIds]
(* The step's query lets the request go on, with what it read, or refuses it. *)
Goes(r, ok, now) == req' = [req EXCEPT ![r] = IF ok THEN [now EXCEPT !.todo = Tail(@)] ELSE Idle]
(* Every request under way sees what becomes public meanwhile. *)
Sees(requests, a) ==
  [r \in Requests |-> 
     IF requests[r].kind = "none" THEN Idle ELSE [requests[r] EXCEPT !.open = @ \cup {a}]]

-----------------------------------------------------------------------------
(* The administrator's screens.  A category may not be its own parent, but   *)
(* two may be each other's.                                                  *)

Saver(r, kind, id, input) ==
  /\ req[r].kind = "none" /\ asked < MaxAsked /\ asked' = asked + 1
  /\ req' = [req EXCEPT ![r] = [Begin(kind) EXCEPT !.id = id, !.input = input]]
  /\ UNCHANGED <<article, category, tally>>
FreeArticleSlug(slug, except) == \A a \in Articles \ {except} : There(a) => article[a].slug # slug
FreeCategorySlug(slug, except) == \A c \in Categories \ {except} : Exists(c) => category[c].slug # slug
articleStore(r, input) == FreeArticleSlug(input.slug, None) /\ Saver(r, "articleStore", None, input)
articleUpdate(r, a, input) == There(a) /\ Saver(r, "articleUpdate", a, input)
categoryStore(r, slug, parent) ==
  FreeCategorySlug(slug, None) /\ Saver(r, "categoryStore", None, Input(slug, parent, "there"))
categoryUpdate(r, c, slug, parent) ==
  Exists(c) /\ parent # c /\ Saver(r, "categoryUpdate", c, Input(slug, parent, "there"))
articleSlug(r) ==
  /\ At(r, "slug")
  /\ Goes(r, IF OfArticle(r) THEN FreeArticleSlug(req[r].input.slug, req[r].id)
                             ELSE FreeCategorySlug(req[r].input.slug, req[r].id), req[r])
  /\ UNCHANGED <<article, category, asked, tally>>
(* The category of an article, the parent of a category: none, or one that is there. *)
Known(c) == c = None \/ Exists(c)
categoryId(r) ==
  /\ At(r, "category") /\ Goes(r, Known(req[r].input.category), req[r])
  /\ UNCHANGED <<article, category, asked, tally>>
findById(r) ==
  /\ At(r, "find")
  /\ IF OfArticle(r) THEN Goes(r, There(req[r].id), [req[r] EXCEPT !.seen = article[req[r].id]])
                     ELSE Goes(r, Exists(req[r].id), req[r])
  /\ UNCHANGED <<article, category, asked, tally>>

Filled(row, input) == [row EXCEPT !.slug = input.slug, !.category = input.category, !.status = input.status]
\* Mutant: only a draft that is published gets its date
createUndated(input) == Filled(NoArticle, input)
createArticle(input) == [Filled(NoArticle, input) EXCEPT !.dated = input.status = "published"]
(* Only a save that found the article unpublished dates it. *)
updateArticle(old, seen, input) ==
  [Filled(old, input) EXCEPT !.dated = @ \/ (input.status = "published" /\ seen.status # "published")]
(* The tables refuse a slug that is taken and a category that is gone. *)
Accepted(a, input) == FreeArticleSlug(input.slug, a) /\ Known(input.category)
Write(r, a, row) ==
  /\ article' = [article EXCEPT ![a] = row]
  /\ req' = [(IF row.status = "published" THEN Sees(req, a) ELSE req) EXCEPT ![r] = Idle]
  /\ UNCHANGED <<category, asked, tally>>
InsertArticle(r) ==
  /\ At(r, "create") /\ OfArticle(r) /\ Room(article, Articles)
  /\ LET a == NextId(article, Articles) IN
     Write(r, a, IF Accepted(None, req[r].input) THEN createArticle(req[r].input) ELSE article[a])
UpdateArticleRow(r) ==
  /\ At(r, "update") /\ OfArticle(r)
  /\ LET a == req[r].id IN
     Write(r, a, IF Accepted(a, req[r].input) /\ There(a) THEN updateArticle(article[a], req[r].seen, req[r].input)
                 ELSE article[a])
Category(input) == [status |-> "there", slug |-> input.slug, parent |-> input.category]
WriteCategory(r, c, applies) ==
  /\ category' = [category EXCEPT ![c] =
       IF applies /\ FreeCategorySlug(req[r].input.slug, c) /\ Known(req[r].input.category)
       THEN Category(req[r].input) ELSE @]
  /\ req' = [req EXCEPT ![r] = Idle]
  /\ UNCHANGED <<article, asked, tally>>
createCategory(r) ==
  /\ At(r, "create") /\ ~OfArticle(r) /\ Room(category, Categories)
  /\ WriteCategory(r, NextId(category, Categories), TRUE)
updateCategory(r) ==
  /\ At(r, "update") /\ ~OfArticle(r)
  /\ WriteCategory(r, req[r].id, Exists(req[r].id))

articleDestroy(a) ==
  /\ There(a) /\ asked < MaxAsked /\ asked' = asked + 1
  /\ article' = [article EXCEPT ![a] = [NoArticle EXCEPT !.status = "gone"]]
  /\ tally' = [tally EXCEPT ![a] = Uncounted]
  /\ UNCHANGED <<category, req>>
(* Its articles and its sub-categories lose it. *)
deleteCategory(c) ==
  /\ Exists(c) /\ asked < MaxAsked /\ asked' = asked + 1
  /\ category' = [d \in Categories |->
       IF d = c THEN [NoCategory EXCEPT !.status = "gone"]
       ELSE [category[d] EXCEPT !.parent = IF @ = c THEN None ELSE @]]
  /\ article' = [a \in Articles |-> [article[a] EXCEPT !.category = IF @ = c THEN None ELSE @]]
  /\ UNCHANGED <<req, tally>>

-----------------------------------------------------------------------------
(* The readers                                                               *)

Reader(r, now) ==
  /\ req[r].kind = "none" /\ asked < MaxAsked /\ asked' = asked + 1
  /\ req' = [req EXCEPT ![r] = now]
  /\ UNCHANGED <<article, category, tally>>
(* The published article of a slug, for a page or for a vote. *)
published(r, kind) ==
  \E a \in PublishedIds : Reader(r, [Begin(kind) EXCEPT !.id = a, !.seen = article[a], !.listed = {a}])
(* Over JSON by number, whether or not the article is published. *)
rateArticle(r, a) == There(a) /\ Reader(r, [Begin("rateArticle") EXCEPT !.id = a, !.seen = article[a]])
(* An index sends its queries at once; they are answered in any order. *)
index(r, kind) == Reader(r, Begin(kind))
\* Mutant: the count read with the article is written back with one more
incrementRead(a, seen, column) == [article[a].counts EXCEPT ![column] = seen.counts[column] + 1]
increment(a, seen, column) == [article[a].counts EXCEPT ![column] = @ + 1]
(* A row deleted meanwhile is not counted; the request goes on. *)
Count(r, column) ==
  LET a == req[r].id IN
  /\ IF There(a) THEN /\ article' = [article EXCEPT ![a].counts = increment(a, req[r].seen, column)]
                      /\ tally' = [tally EXCEPT ![a][column] = @ + 1]
                 ELSE UNCHANGED <<article, tally>>
  /\ Goes(r, TRUE, req[r])
  /\ UNCHANGED <<category, asked>>
View(r) == At(r, "views") /\ Count(r, "views")
(* helpful decides the column; any other answer is refused and changes nothing. *)
Vote(r, column) == At(r, "vote") /\ Count(r, column)
(* Up to MostRelated others of the category the article had when it was found. *)
related(r) ==
  /\ At(r, "related")
  /\ LET others == {a \in PublishedIds \ {req[r].id} : article[a].category = req[r].seen.category} IN
     Goes(r, TRUE, [req[r] EXCEPT !.listed = @ \cup (IF req[r].seen.category = None THEN {} ELSE others)])
  /\ UNCHANGED <<article, category, asked, tally>>

\* Mutant: drafts are counted as on the administrator's page
countedAll(publishedOnly) == {a \in Articles : There(a) /\ article[a].category # None}
articleCounts(publishedOnly) ==
  {a \in Articles : There(a) /\ article[a].category # None /\ (publishedOnly => article[a].status = "published")}
Answered(now, query) == [now EXCEPT !.todo = SelectSeq(@, LAMBDA q : q # query)]
Pending(r, query) == \E i \in DOMAIN req[r].todo : req[r].todo[i] = query
List(r) ==
  /\ Pending(r, "list")
  /\ req' = [req EXCEPT ![r] = [Answered(@, "list") EXCEPT !.listed = PublishedIds]]
  /\ UNCHANGED <<article, category, asked, tally>>
Roots(r) ==
  /\ Pending(r, "roots")
  /\ req' = [req EXCEPT ![r] = [Answered(@, "roots") EXCEPT !.roots =
       {c \in Categories : Exists(c) /\ (req[r].kind = "index" => category[c].parent = None)}]]
  /\ UNCHANGED <<article, category, asked, tally>>
Counts(r) ==
  /\ Pending(r, "counts")
  /\ req' = [req EXCEPT ![r] = [Answered(@, "counts") EXCEPT !.counted = articleCounts(req[r].kind = "index")]]
  /\ UNCHANGED <<article, category, asked, tally>>
Answer(r) ==
  /\ req[r].kind # "none" /\ req[r].todo = <<>> /\ req' = [req EXCEPT ![r] = Idle]
  /\ UNCHANGED <<article, category, asked, tally>>

-----------------------------------------------------------------------------
Init ==
  /\ article = [a \in Articles |-> NoArticle] /\ category = [c \in Categories |-> NoCategory]
  /\ req = [r \in Requests |-> Idle] /\ asked = 0
  /\ tally = [a \in Articles |-> Uncounted]
Next ==
  \/ \E r \in Requests, slug \in Slugs, c \in Categories \cup {None} :
       \/ \E status \in {"draft", "published"} :
            \/ articleStore(r, Input(slug, c, status))
            \/ \E a \in Articles : articleUpdate(r, a, Input(slug, c, status))
       \/ categoryStore(r, slug, c)
       \/ \E d \in Categories : categoryUpdate(r, d, slug, c)
  \/ \E r \in Requests : findById(r) \/ articleSlug(r) \/ categoryId(r)
  \/ \E r \in Requests : InsertArticle(r) \/ UpdateArticleRow(r) \/ createCategory(r) \/ updateCategory(r)
  \/ \E a \in Articles : articleDestroy(a)
  \/ \E c \in Categories : deleteCategory(c)
  \/ \E r \in Requests : \/ \E kind \in {"show", "findArticleBySlug", "feedback"} : published(r, kind)
                         \/ \E a \in Articles : rateArticle(r, a)
                         \/ \E kind \in {"index", "categoryIndex"} : index(r, kind)
  \/ \E r \in Requests : View(r) \/ (\E column \in {"helpful", "notHelpful"} : Vote(r, column)) \/ related(r)
  \/ \E r \in Requests : List(r) \/ Roots(r) \/ Counts(r) \/ Answer(r)
Spec == Init /\ [][Next]_vars

-----------------------------------------------------------------------------
TypeOK ==
  /\ \A a \in Articles : article[a].status \in {"none", "draft", "published", "gone"}
  /\ \A a \in Articles : article[a].category \in Categories \cup {None}
  /\ \A c \in Categories : category[c].parent \in Categories \cup {None}

(* An article published from a screen has its date, by which the public pages order it, whoever *)
(* saved, published or took it back meanwhile.                                                  *)
PublishedIsDated == \A a \in Articles : article[a].status = "published" => article[a].dated
(* No read and no vote is lost to another one or to a save of the article. *)
EveryReadCounts == \A a \in Articles : There(a) => article[a].counts = tally[a]
(* Customers are shown, and see counted, only articles that were published at some moment of *)
(* their request.                                                                           *)
PagesShowPublished ==
  \A r \in Requests : req[r].kind # "categoryIndex" => req[r].listed \cup req[r].counted \subseteq req[r].open
===============================================================================
