------------------------------ MODULE PlaceSearch ------------------------------
(***************************************************************************)
(* The field to search for a place on the map: what is typed is asked for  *)
(* after a delay or on demand, and one of the results is selected with     *)
(* keys or mouse.  A search that was overtaken has no effect and is        *)
(* dropped.  The fields for the ends of a route are replaced by new ones   *)
(* as soon as one is selected.                                             *)
(***************************************************************************)
EXTENDS Naturals

CONSTANTS
  Text,      \* what may be typed, or is the name of a place
  TooShort,  \* the texts of fewer than three characters
  MaxTyped   \* bound: changes of the text

NoText == "none"

ASSUME PlaceSearchAssumption ==
  TooShort \subseteq Text /\ NoText \notin Text /\ MaxTyped \in Nat

VARIABLES
  query,     \* the text in the field
  delayed,   \* the text of the running timer, if any
  searching, \* the texts of searches under way that count
  hits,      \* the text whose results are listed, and how many
  status,    \* what the line below says
  isOpen, activeIndex,
  selectedLabel, \* whether a place is selected
  wanted,    \* history: the last text searched for, unless done with
  typed

boxVars == <<query, delayed, searching, hits, status, isOpen, activeIndex, selectedLabel,
             wanted, typed>>

NoResults == [for |-> NoText, count |-> 0]

SearchBoxInit ==
  /\ query \in TooShort /\ delayed = NoText /\ searching = {}
  /\ hits = NoResults /\ status = "idle" /\ isOpen = FALSE /\ activeIndex = 0
  /\ selectedLabel = FALSE /\ wanted = NoText /\ typed = 0

-----------------------------------------------------------------------------
(* The user is done with a search that has ended.                          *)
Done(ended) == wanted' = IF ended THEN NoText ELSE wanted

\* A faulty RunSearch: an answer is not compared with the last search.
RunSearchBeside(text) ==
  IF text \in TooShort
  THEN /\ hits' = NoResults /\ status' = "idle" /\ isOpen' = FALSE
       /\ Done(searching = {}) /\ UNCHANGED searching
  ELSE /\ searching' = searching \cup {text} /\ status' = "searching" /\ isOpen' = TRUE
       /\ wanted' = text /\ UNCHANGED hits

(* The old results stay until the answer.  A text that is too short leaves *)
(* the search under way alone: its answer will still be taken.             *)
RunSearch(text) ==
  IF text \in TooShort
  THEN /\ hits' = NoResults /\ status' = "idle" /\ isOpen' = FALSE
       /\ Done(searching = {}) /\ UNCHANGED searching
  ELSE /\ searching' = {text} /\ status' = "searching" /\ isOpen' = TRUE
       /\ wanted' = text /\ UNCHANGED hits

Type(text) ==
  /\ typed < MaxTyped /\ typed' = typed + 1
  /\ query' = text /\ delayed' = text
  /\ UNCHANGED <<searching, hits, status, isOpen, activeIndex, selectedLabel, wanted>>

DelayOver ==
  /\ delayed # NoText /\ delayed' = NoText
  /\ RunSearch(delayed)
  /\ UNCHANGED <<query, activeIndex, selectedLabel, typed>>

(* The button is off during a search and for a short text; Enter is not,   *)
(* unless it selects a result.                                             *)
Submit ==
  /\ typed < MaxTyped /\ typed' = typed + 1
  /\ \/ query \notin TooShort /\ status # "searching"
     \/ ~(isOpen /\ activeIndex > 0 /\ activeIndex <= hits.count)
  /\ delayed' = NoText /\ RunSearch(query)
  /\ UNCHANGED <<query, activeIndex, selectedLabel>>

SearchAnswered(text, n) ==
  /\ text \in searching /\ searching' = searching \ {text}
  /\ hits' = [for |-> text, count |-> n]
  /\ activeIndex' = IF n > 0 THEN 1 ELSE 0
  /\ status' = IF n > 0 THEN "results" ELSE "empty"
  /\ UNCHANGED <<query, delayed, isOpen, selectedLabel, wanted, typed>>

SearchFailed(text) ==
  /\ text \in searching /\ searching' = searching \ {text}
  /\ hits' = NoResults /\ activeIndex' = 0 /\ status' = "error"
  /\ UNCHANGED <<query, delayed, isOpen, selectedLabel, wanted, typed>>

(* Selecting and clearing leave the timer and the search alone.            *)
EndSearch ==
  /\ hits' = NoResults /\ status' = "idle" /\ isOpen' = FALSE /\ activeIndex' = 0
  /\ Done(searching = {} /\ delayed = NoText)
  /\ UNCHANGED <<delayed, searching, typed>>

Select(name) ==
  /\ isOpen /\ hits.count > 0
  /\ query' = name /\ selectedLabel' = TRUE /\ EndSearch

Clear ==
  /\ selectedLabel /\ \E short \in TooShort : query' = short
  /\ selectedLabel' = FALSE /\ EndSearch

(* Escape closes the list; the arrows go round, and the one down opens it. *)
HandleKeyDown(key) ==
  /\ isOpen' = CASE key = "Escape" -> FALSE
                 [] key = "ArrowDown" -> isOpen \/ hits.count > 0
                 [] key = "ArrowUp" -> isOpen
  /\ activeIndex' = IF key = "Escape" \/ hits.count = 0 THEN 0
                    ELSE IF key = "ArrowDown"
                    THEN IF activeIndex >= hits.count THEN 1 ELSE activeIndex + 1
                    ELSE IF activeIndex <= 1 THEN hits.count ELSE activeIndex - 1
  /\ UNCHANGED <<query, delayed, searching, hits, status, selectedLabel, wanted, typed>>

SearchBoxStep ==
  \/ DelayOver
  \/ \E text \in searching, n \in 0..2 : SearchAnswered(text, n)
  \/ \E text \in searching : SearchFailed(text)

SearchBoxNext ==
  \/ SearchBoxStep
  \/ \E text \in Text : Type(text) \/ Select(text)
  \/ Submit \/ Clear
  \/ \E key \in {"Escape", "ArrowDown", "ArrowUp"} : HandleKeyDown(key)

-----------------------------------------------------------------------------
SearchBoxTypeOK ==
  /\ query \in Text /\ delayed \in Text \cup {NoText}
  /\ searching \subseteq Text \ TooShort
  /\ hits \in [for : Text \cup {NoText}, count : 0..2]
  /\ status \in {"idle", "searching", "results", "empty", "error"}
  /\ isOpen \in BOOLEAN /\ activeIndex \in 0..2 /\ typed \in 0..MaxTyped
  /\ selectedLabel \in BOOLEAN /\ wanted \in Text \cup {NoText}

(* The list is that of the last search once it is answered, and no earlier *)
(* answer comes after it; "searching" is said only while a search is under *)
(* way; what Enter selects is in the list; and when a place was selected   *)
(* or cleared, or too little is left to search for, with no search or      *)
(* timer pending, nothing is listed or asked for (docs/frontend.md:135     *)
(* "Minimum 3 characters, 600 ms debounce, explicit Search button").  One  *)
(* that was pending then does fill the list of a field done with.          *)
BoxAnswersLastSearch ==
  /\ \A text \in searching : text = wanted
  /\ searching = {} => hits.for \in {NoText, wanted}
  /\ wanted = NoText => hits = NoResults /\ status = "idle" /\ ~isOpen
  /\ status = "searching" => searching # {}
  /\ status = "results" => activeIndex <= hits.count
=============================================================================
