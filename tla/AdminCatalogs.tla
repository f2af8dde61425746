---------------------------- MODULE AdminCatalogs ----------------------------
(***************************************************************************)
(* The lists of the admin console that are loaded as a whole and then       *)
(* filtered and paged in the browser: skins, events, achievements, and the  *)
(* rewards and the activity of a user.  A change of the access token loads  *)
(* the list again and does not cancel the load before it.  Of the items     *)
(* only matters how many each filter lets through.                          *)
(***************************************************************************)
EXTENDS Naturals

CONSTANTS Choices,      \* choices of filters
          ShelfSize,    \* items of a full page
          MaxItems      \* bound on the items of a filter

ASSUME CatalogAssumption == ShelfSize \in Nat \ {0} /\ MaxItems \in Nat

VARIABLES items,        \* the items the API has, by filter
          catalog,      \* the state of the list
          loads         \* the requests for it

catalogVars == <<items, catalog, loads>>

Loads  == {1, 2}
NoLoad == [st |-> "none", items |-> [f \in Choices |-> 0]]

\* The list is filtered on every render, and the page kept within it.
Filtered    == catalog.items[catalog.filter]
TotalPages  == IF Filtered = 0 THEN 1 ELSE (Filtered + ShelfSize - 1) \div ShelfSize
UnboundPage == catalog.page    \* mutant: the page is not kept within it
CurrentPage == IF catalog.page > TotalPages THEN TotalPages ELSE catalog.page
Visible     == {i \in 1..Filtered : (CurrentPage - 1) * ShelfSize < i /\ i <= CurrentPage * ShelfSize}

ServeList(l) ==
  /\ loads[l].st = "sent"
  /\ loads' \in {[loads EXCEPT ![l].st = "answered", ![l].items = items],
                 [loads EXCEPT ![l].st = "failed"]}
  /\ UNCHANGED <<items, catalog>>

ItemsChange(f) ==
  /\ \E n \in 0..MaxItems : items' = [items EXCEPT ![f] = n]
  /\ UNCHANGED <<catalog, loads>>

LoadAgain ==
  /\ \E l \in Loads : loads[l].st = "none" /\ loads' = [loads EXCEPT ![l].st = "sent"]
  /\ UNCHANGED <<items, catalog>>

\* Whichever answer comes, and however old: it is the list.  An error stays.
ListArrives(l) ==
  /\ loads[l].st \in {"answered", "failed"}
  /\ catalog' = IF loads[l].st = "failed" THEN [catalog EXCEPT !.loading = FALSE, !.failed = TRUE]
                ELSE [catalog EXCEPT !.loading = FALSE, !.items = loads[l].items]
  /\ loads' = [loads EXCEPT ![l] = NoLoad]
  /\ UNCHANGED items

Choose(f) ==
  /\ catalog' = [catalog EXCEPT !.filter = f, !.page = 1]
  /\ UNCHANGED <<items, loads>>

ShowsPager == ~catalog.loading /\ ~catalog.failed /\ TotalPages > 1

PreviousShelf ==
  /\ ShowsPager /\ CurrentPage # 1
  /\ catalog' = [catalog EXCEPT !.page = CurrentPage - 1]
  /\ UNCHANGED <<items, loads>>

NextShelf ==
  /\ ShowsPager /\ CurrentPage # TotalPages
  /\ catalog' = [catalog EXCEPT !.page = CurrentPage + 1]
  /\ UNCHANGED <<items, loads>>

CatalogsInit ==
  /\ items \in [Choices -> 0..MaxItems]
  /\ \E f \in Choices :
       catalog = [filter |-> f, page |-> 1, loading |-> TRUE, failed |-> FALSE,
                  items |-> [g \in Choices |-> 0]]
  /\ loads = [l \in Loads |-> IF l = 1 THEN [NoLoad EXCEPT !.st = "sent"] ELSE NoLoad]

CatalogsNext ==
  \/ \E l \in Loads : ServeList(l) \/ ListArrives(l)
  \/ \E f \in Choices : ItemsChange(f) \/ Choose(f)
  \/ LoadAgain \/ PreviousShelf \/ NextShelf

CatalogsSpec == CatalogsInit /\ [][CatalogsNext]_catalogVars

\* A list that has items shows some, although it shrinks under its pager.
PageHasItems == Filtered > 0 => Visible # {}
=============================================================================
