----------------------------- MODULE SavedViews -----------------------------
(***************************************************************************)
(* Where the user looks, and through what (web/src/lib/filter.ts,           *)
(* Toolbar.tsx, setKeyword and the saved filters of AppStore.tsx): a place, *)
(* a view, an order, a keyword and a filter; several of them saved under a  *)
(* name and called up again, while lists and tags come and go.              *)
(***************************************************************************)
EXTENDS Integers, Sequences, FiniteSets, SequencesExt

CONSTANTS
  Todos,        \* tasks, [list |-> , tags |-> , status |-> ]
  ListIds, TagIds,
  Oversights,   \* of {"keyword_stays", "saved_place_gone", "search_of_gone", "tag_gone", "hidden_pick",
                \*     "saved_search"}
  Whole,        \* the place that shows all tasks
  Nowhere,
  MaxUses       \* bound

VARIABLES
  place,        \* selection: Whole, a list, a tag, or a search for a word
  view, sortBy,
  keyword,      \* "" or the word searched for
  preSearch,    \* place to go back to
  filter,       \* [tags, mode, status]
  saved,        \* queries on the server, [filter |-> text of it, scope |-> ]
  there,        \* lists and tags there are
  multi, picked,
  applied,      \* history: saved filter the page has shown since, 0 for none
  began,        \* history: place the search under way began at
  nUses

viewVars == <<place, view, sortBy, keyword, preSearch, filter, saved, there, multi, picked, applied,
              began, nUses>>

EmptyFilter == [tags |-> {}, mode |-> "any", status |-> "all"]
Active(f)   == f.tags # {} \/ f.status # "all"
List(l)     == <<"list", l>>
TagPlace(g) == <<"tag", g>>
Search(w)   == <<"search", w>>
Use         == nUses < MaxUses /\ nUses' = nUses + 1

\* What the filter lets through.
Matches(t, f) ==
  /\ f.status # "all" => t.status = f.status
  /\ f.tags = {} \/ IF f.mode = "all" THEN f.tags \subseteq t.tags ELSE f.tags \cap t.tags # {}

\* What the server is asked for: the keyword goes before the place.
Asked ==
  IF keyword # "" THEN Search(keyword) ELSE place
InPlace(t, p) ==
  CASE p[1] = "list" -> t.list = p[2] [] p[1] = "tag" -> p[2] \in t.tags [] OTHER -> TRUE
Visible(p, f) == {t \in Todos : InPlace(t, p) /\ Matches(t, f)}
Exists(p)     == p[1] \in {"list", "tag"} => p \in there

\* A saved text read back: one of the old shape has one tag, no status and no place.
Normalized(q) ==
  IF q.old THEN [EmptyFilter EXCEPT !.tags = q.filter.tags] ELSE q.filter

PlaceOf(q) == IF q.scope = Nowhere THEN Whole ELSE q.scope.place

ViewInit ==
  /\ place = Whole /\ view = "list" /\ sortBy = "smart" /\ keyword = "" /\ preSearch = Whole
  /\ filter = EmptyFilter
  /\ saved \in {<<>>} \cup {<<[old |-> TRUE, filter |-> [EmptyFilter EXCEPT !.tags = {g}], scope |-> Nowhere]>> :
                             g \in TagIds}
  /\ there = {List(l) : l \in ListIds} \cup {TagPlace(g) : g \in TagIds}
  /\ multi = FALSE /\ picked = {} /\ applied = 0 /\ began = Nowhere /\ nUses = 0

-----------------------------------------------------------------------------
\* Going somewhere by the sidebar drops the keyword and what is picked, not the filter.
Select(p) ==
  /\ Use /\ Exists(p)
  /\ place' = p /\ view' = "list" /\ keyword' = "" /\ multi' = FALSE /\ picked' = {}
  /\ applied' = 0 /\ began' = Nowhere
  /\ UNCHANGED <<sortBy, preSearch, filter, saved, there>>

SetView(v) ==
  /\ Use /\ v # view
  /\ view' = v /\ applied' = 0
  /\ UNCHANGED <<place, sortBy, keyword, preSearch, filter, saved, there, multi, picked, began>>

SetSortBy(s) ==
  /\ Use /\ s # sortBy
  /\ sortBy' = s /\ applied' = 0
  /\ UNCHANGED <<place, view, keyword, preSearch, filter, saved, there, multi, picked, began>>

\* Mutant: the place to go back to is noted at every key.
SetKeyword_Notes(w) ==
  /\ Use /\ multi = FALSE
  /\ keyword' = w /\ applied' = 0
  /\ IF w # "" THEN place' = Search(w) /\ preSearch' = place
     ELSE place' = preSearch /\ UNCHANGED preSearch
  /\ began' = IF w = "" THEN Nowhere ELSE IF began = Nowhere THEN place ELSE began
  /\ UNCHANGED <<view, sortBy, filter, saved, there, multi, picked>>

\* The first word of a search notes the place it leaves, an empty one goes back to it.
\* Without "saved_search" nobody types or clears where no search was begun by typing.
SetKeyword(w) ==
  /\ Use /\ multi = FALSE
  /\ "saved_search" \notin Oversights => (place[1] = "search" <=> keyword # "")
  /\ keyword' = w /\ applied' = 0
  /\ IF w # "" THEN place' = Search(w) /\ preSearch' = (IF place[1] # "search" THEN place ELSE preSearch)
     ELSE place' = preSearch /\ UNCHANGED preSearch
  /\ began' = IF w = "" THEN Nowhere ELSE IF began = Nowhere THEN place ELSE began
  /\ UNCHANGED <<view, sortBy, filter, saved, there, multi, picked>>

\* What the panel of the filter changes; without "hidden_pick" nothing that is picked goes
\* out of sight.
SetFilter(f) ==
  /\ Use /\ f # filter
  /\ "hidden_pick" \notin Oversights => picked \subseteq Visible(Asked, f)
  /\ filter' = f /\ applied' = 0
  /\ UNCHANGED <<place, view, sortBy, keyword, preSearch, saved, there, multi, picked, began>>

ToggleTag(g)  == TagPlace(g) \in there /\ SetFilter([filter EXCEPT !.tags = SymDiff(@, {g})])
ToggleMode    == Cardinality(filter.tags) > 1
                 /\ SetFilter([filter EXCEPT !.mode = IF @ = "all" THEN "any" ELSE "all"])
SetStatus(s)  == SetFilter([filter EXCEPT !.status = s])
ClearFilter   == SetFilter(EmptyFilter)

Pick(t) ==
  /\ Use /\ t \in Visible(Asked, filter)
  /\ multi' = TRUE /\ picked' = SymDiff(picked, {t})
  /\ UNCHANGED <<place, view, sortBy, keyword, preSearch, filter, saved, there, applied, began>>

-----------------------------------------------------------------------------
\* Only a filter that is active is saved, with the place, the view and the order.
SaveFilter ==
  /\ Use /\ Active(filter) /\ Len(saved) < 2
  /\ saved' = Append(saved, [old |-> FALSE, filter |-> filter,
                             scope |-> [place |-> place, view |-> view, sortBy |-> sortBy]])
  /\ UNCHANGED <<place, view, sortBy, keyword, preSearch, filter, there, multi, picked, applied, began>>

\* Neither the keyword nor the picks are dropped.  Without the oversights nobody calls one
\* up while searching or picking, or one whose place or tag is gone.
ApplySavedFilter(i) ==
  LET q == saved[i] IN
  /\ Use
  /\ "keyword_stays" \notin Oversights => keyword = ""
  /\ "hidden_pick" \notin Oversights => picked = {}
  /\ "saved_place_gone" \notin Oversights => Exists(PlaceOf(q))
  /\ "tag_gone" \notin Oversights => \A g \in q.filter.tags : TagPlace(g) \in there
  /\ filter' = Normalized(q)
  /\ IF q.scope = Nowhere THEN UNCHANGED <<place, view, sortBy>>
     ELSE place' = q.scope.place /\ view' = q.scope.view /\ sortBy' = q.scope.sortBy
  /\ applied' = i /\ began' = Nowhere
  /\ UNCHANGED <<keyword, preSearch, saved, there, multi, picked>>

DeleteSavedFilter(i) ==
  /\ Use
  /\ saved' = RemoveAt(saved, i) /\ applied' = 0
  /\ UNCHANGED <<place, view, sortBy, keyword, preSearch, filter, there, multi, picked, began>>

\* A list or a tag is deleted: who looks at it is taken to the whole.  Without the
\* oversights a search did not begin there and the filter does not name it.
Delete(p) ==
  /\ Use /\ p \in there /\ multi = FALSE
  /\ "search_of_gone" \notin Oversights => preSearch # p
  /\ "tag_gone" \notin Oversights => \A g \in filter.tags : p # TagPlace(g)
  /\ there' = there \ {p}
  /\ place' = IF place = p THEN Whole ELSE place
  /\ applied' = 0
  /\ UNCHANGED <<view, sortBy, keyword, preSearch, filter, saved, multi, picked, began>>

ViewNext ==
  \/ \E p \in there \cup {Whole} : Select(p)
  \/ \E v \in {"list", "board"} : SetView(v)
  \/ \E s \in {"smart", "due"} : SetSortBy(s)
  \/ \E w \in {"", "w", "wo"} : SetKeyword(w)
  \/ \E g \in TagIds : ToggleTag(g)
  \/ ToggleMode \/ ClearFilter \/ \E s \in {"all", "todo", "done"} : SetStatus(s)
  \/ \E t \in Todos : Pick(t)
  \/ SaveFilter \/ \E i \in DOMAIN saved : ApplySavedFilter(i) \/ DeleteSavedFilter(i)
  \/ \E p \in there : Delete(p)

-----------------------------------------------------------------------------
ViewTypeOK ==
  /\ filter.tags \subseteq TagIds /\ filter.mode \in {"any", "all"} /\ filter.status \in {"all", "todo", "done"}
  /\ view \in {"list", "board"} /\ sortBy \in {"smart", "due"} /\ keyword \in {"", "w", "wo"}
  /\ picked \subseteq Todos /\ applied \in 0 .. Len(saved)

\* A saved filter that was called up shows what it showed when it was saved.
SavedReturns ==
  applied # 0 =>
    /\ filter = Normalized(saved[applied])
    /\ saved[applied].scope # Nowhere =>
         <<Asked, view, sortBy>> = LET s == saved[applied].scope IN <<s.place, s.view, s.sortBy>>

\* A search that is cleared goes back to where it began, and nobody is left at a place, or
\* with a filter, that is gone.
WayBack ==
  /\ began # Nowhere => preSearch = began
  /\ Exists(Asked) /\ \A g \in filter.tags : TagPlace(g) \in there

\* What is picked is in sight: a batch does nothing to a task that is not.
PicksInSight == picked \subseteq Visible(Asked, filter)
=============================================================================
