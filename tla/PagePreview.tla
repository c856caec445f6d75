----------------------------- MODULE PagePreview -----------------------------
(***************************************************************************)
(* What previews do to the elements of a page: the content script's handlers *)
(* for the user's edits (content/preview.ts) and for the agent's             *)
(* (content/agent-preview.ts).  Both write inline values of one element and  *)
(* know nothing of each other.  An element is what a selector finds.         *)
(***************************************************************************)
EXTENDS ChangeTracker, FiniteSets, Functions

CONSTANTS
    Tabs,        \* browser tabs whose pages have an element per selector
    Selectors,   \* selectors of inspected elements
    Selections   \* selections the agent previews on

ASSUME PageAssumption == Tabs # {} /\ Selectors # {}

Written == Styles \cup {"text"}
Original == "original"     \* an inline value or text the page came with
PageValues == Values \cup {Empty, Original}

VARIABLES
    page,       \* page[tab][selector][target]: inline value or text
    missing,    \* elements a selector no longer finds: <<tab, selector>>
    overrides   \* of the agent, in the order their selections were first seen

pageVars == <<page, missing, overrides>>

Found(tab, selector) == <<tab, selector>> \notin missing

\* preview_apply_style and preview_apply_text answer with the value they replace.
ValueOnPage(tab, selector, target) == page[tab][selector][target]

WriteUserValue(tab, selector, target, value) ==
    /\ page' = IF Found(tab, selector)
               THEN [page EXCEPT ![tab][selector][target] = value] ELSE page
    /\ UNCHANGED <<missing, overrides>>

\* preview_clear_all: the last change of every style, and the first one of the text.
ClearUserValues(tab, selector, changes) ==
    LET decides(target) == IF target = "text" THEN Min(PendingAt(changes, target))
                                              ELSE Max(PendingAt(changes, target))
    IN  /\ page' = IF ~Found(tab, selector) THEN page
                   ELSE [page EXCEPT ![tab][selector] =
                           [target \in Written |->
                              IF PendingAt(changes, target) = {} THEN @[target]
                                                                 ELSE changes[decides(target)].old]]
        /\ UNCHANGED <<missing, overrides>>

-------------------------------------------------------------------------------
(* Agent previews                                                          *)

\* Mutant: an override that is taken back leaves its value on the page.
RestoredPartly(values, bucket) ==
    IF ~Found(bucket.tab, bucket.selector) THEN values
    ELSE [values EXCEPT ![bucket.tab][bucket.selector] =
            [target \in Written |->
               IF target \in DOMAIN bucket.previous /\ bucket.previous[target] # Empty
               THEN bucket.previous[target] ELSE @[target]]]

\* restoreSelection on the inline values of the page.
Restored(values, bucket) ==
    IF ~Found(bucket.tab, bucket.selector) THEN values
    ELSE [values EXCEPT ![bucket.tab][bucket.selector] =
            [target \in Written |-> IF target \in DOMAIN bucket.previous
                                    THEN bucket.previous[target] ELSE @[target]]]

\* The buckets one after the other.
RestoreAll(values, buckets) ==
    LET after[n \in 0 .. Len(buckets)] ==
            IF n = 0 THEN values ELSE Restored(after[n - 1], buckets[n])
    IN  after[Len(buckets)]

\* Where the bucket of a selection is: there is one at most.
BucketAt(selection) == {i \in DOMAIN overrides : overrides[i].selection = selection}

\* Some styles of an element get new values.
Overridden(values, tab, selector, styles) ==
    [values EXCEPT ![tab][selector] =
        [p \in Written |-> IF p \in DOMAIN styles THEN styles[p] ELSE @[p]]]

\* agent_preview_apply for an element the selection overrides already: a property that is
\* in the bucket keeps what it replaced.
ApplyMore(selection, tab, selector, styles) ==
    \E i \in BucketAt(selection) :
        LET previous == overrides[i].previous
        IN  /\ overrides[i].selector = selector
            /\ overrides' = [overrides EXCEPT ![i].previous =
                               [p \in DOMAIN previous \cup DOMAIN styles |->
                                  IF p \in DOMAIN previous THEN previous[p]
                                  ELSE ValueOnPage(tab, selector, p)]]
            /\ page' = Overridden(page, tab, selector, styles)

\* The selection gets a bucket of its own; one for another selector is restored first.
ApplyNew(selection, tab, selector, styles) ==
    \E i \in {0} \cup BucketAt(selection) :
        LET values == IF i = 0 THEN page ELSE Restored(page, overrides[i])
            others == IF i = 0 THEN overrides ELSE RemoveAt(overrides, i)
            bucket == [selection |-> selection, tab |-> tab, selector |-> selector,
                       previous |-> [p \in DOMAIN styles |-> values[tab][selector][p]]]
        IN  /\ i = 0 <=> BucketAt(selection) = {}
            /\ i # 0 => overrides[i].selector # selector
            /\ overrides' = Append(others, bucket)
            /\ page' = Overridden(values, tab, selector, styles)

AgentApply(selection, tab, selector, styles) ==
    /\ Found(tab, selector)
    /\ \/ ApplyMore(selection, tab, selector, styles)
       \/ ApplyNew(selection, tab, selector, styles)
    /\ UNCHANGED missing

\* agent_preview_clear of one selection, and of all of them.
AgentClear(selection) ==
    /\ \E i \in BucketAt(selection) :
          /\ page' = Restored(page, overrides[i])
          /\ overrides' = RemoveAt(overrides, i)
    /\ UNCHANGED missing

AgentClearAll ==
    /\ overrides # <<>>
    /\ page' = RestoreAll(page, overrides)
    /\ overrides' = <<>>
    /\ UNCHANGED missing

===============================================================================
