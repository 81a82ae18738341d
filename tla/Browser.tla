------------------------------- MODULE Browser -------------------------------
(***************************************************************************)
(* The browser panes of the app (browser/mod.rs and browser/tools.rs): the *)
(* PANES map with what each pane's bar shows, the webview behind a pane    *)
(* (external: it loads pages and reports Started and Finished), the task   *)
(* that polls a pane for console and network entries, and the navigations  *)
(* of the window and of agents.  A webview is named by a number: a pane    *)
(* that is closed and opened again has another one.                        *)
(***************************************************************************)
EXTENDS Naturals, Sequences, SequencesExt

CONSTANTS
    Panes, Local, Remote,   \* pane ids; addresses of dev servers and of other pages
    ENTRY_LIMIT,            \* entries kept per pane
    Ids,                    \* ids a page gives its entries
    MaxViews, MaxNavs,      \* bounds: webviews made; navigations begun
    MaxDrains,              \* bound: batches of entries a poll brings
    Racing                  \* whether loads, closes and polls overlap freely

Pages == Local \cup Remote
NoPane == [open |-> FALSE]
NoView == [page |-> "blank", phase |-> "done"]

VARIABLES
    panes,      \* PANES: the webview of a pane and its BrowserState
    views,      \* by number: what the webview loads and how far it is
    pollers,    \* poll tasks per pane
    drains,     \* eval_with_callback answers on their way: pane, reset, entry ids
    navs,       \* navigate calls that wait for local_down: pane, webview, address
    up,         \* dev servers that answer
    made, begun, drained_n

browserVars == <<panes, views, pollers, drains, navs, up, made, begun, drained_n>>

BrowserInit ==
    /\ panes = [p \in Panes |-> NoPane] /\ views = [v \in 1..MaxViews |-> NoView]
    /\ pollers = [p \in Panes |-> 0] /\ drains = <<>> /\ navs = {}
    /\ up \in SUBSET Local /\ made = 0 /\ begun = 0 /\ drained_n = 0

Down(u) == u \in Local \ up                       \* local_down
Open(p) == panes[p].open
Has(p, v) == Open(p) /\ panes[p].view = v
Loading(p) == Open(p) /\ views[panes[p].view].phase \in {"asked", "started"}
(* When nothing may overlap, a call waits until its pane is at rest.       *)
AtRest(p) == Racing \/ (~Loading(p) /\ \A n \in navs : n.pane # p)

-----------------------------------------------------------------------------
(* open by the window or, for an agent, by browser_navigate; an open pane  *)
(* is returned as it is, an address to load is navigated to.               *)
open(p) ==
    /\ ~Open(p) /\ made < MaxViews /\ made' = made + 1
    /\ Racing \/ (pollers[p] = 0 /\ drains = <<>>)
    /\ panes' = [panes EXCEPT ![p] = [open |-> TRUE, view |-> made + 1, url |-> "", loading |-> FALSE,
                                      error |-> "", entries |-> <<>>]]
    /\ pollers' = [pollers EXCEPT ![p] = @ + 1]
    /\ UNCHANGED <<views, drains, navs, up, begun, drained_n>>

(* navigate and Reload after an error: the webview is taken, then a        *)
(* connection is tried.                                                    *)
NavigateBegins(p, u) ==
    /\ Open(p) /\ AtRest(p) /\ begun < MaxNavs /\ begun' = begun + 1
    /\ navs' = navs \cup {[pane |-> p, view |-> panes[p].view, url |-> u]}
    /\ UNCHANGED <<panes, views, pollers, drains, up, made, drained_n>>

Bar(p, u, loading, error) ==
    panes' = IF Open(p) THEN [panes EXCEPT ![p].url = u, ![p].loading = loading, ![p].error = error] ELSE panes

Navigates(n) ==
    /\ n \in navs /\ navs' = navs \ {n}
    /\ IF Down(n.url)
       THEN Bar(n.pane, n.url, FALSE, n.url) /\ UNCHANGED views
       ELSE /\ Bar(n.pane, n.url, TRUE, "")
            /\ views' = IF Has(n.pane, n.view)
                        THEN [views EXCEPT ![n.view] = [page |-> n.url, phase |-> "asked"]] ELSE views
    /\ UNCHANGED <<pollers, drains, up, made, begun, drained_n>>

(* Back, Forward, a reload without an error, a link: the page goes on by   *)
(* itself, and the bar learns of it from Started.                          *)
PageMoves(p, u) ==
    /\ Open(p) /\ AtRest(p) /\ views[panes[p].view].phase = "done" /\ begun < MaxNavs /\ begun' = begun + 1
    /\ views' = [views EXCEPT ![panes[p].view] = [page |-> u, phase |-> "asked"]]
    /\ UNCHANGED <<panes, pollers, drains, navs, up, made, drained_n>>

StopKeepsBar(p) ==
    /\ Loading(p)
    /\ views' = [views EXCEPT ![panes[p].view].phase = "done"]
    /\ UNCHANGED <<panes, pollers, drains, navs, up, made, begun, drained_n>>

Stop(p) ==
    /\ Loading(p)
    /\ panes' = [panes EXCEPT ![p].loading = FALSE]
    /\ views' = [views EXCEPT ![panes[p].view].phase = "done"]
    /\ UNCHANGED <<pollers, drains, navs, up, made, begun, drained_n>>

close(p) ==
    /\ Open(p) /\ AtRest(p)
    /\ panes' = [panes EXCEPT ![p] = NoPane]
    /\ UNCHANGED <<views, pollers, drains, navs, up, made, begun, drained_n>>

-----------------------------------------------------------------------------
(* on_page_load                                                            *)

StartsKeepingError(p) ==
    LET v == views[panes[p].view]
    IN /\ Open(p) /\ v.phase = "asked"
       /\ views' = [views EXCEPT ![panes[p].view].phase = "started"]
       /\ Bar(p, v.page, TRUE, panes[p].error)
       /\ UNCHANGED <<pollers, drains, navs, up, made, begun, drained_n>>

PageStarts(p) ==
    LET v == views[panes[p].view]
    IN /\ Open(p) /\ v.phase = "asked"
       /\ views' = [views EXCEPT ![panes[p].view].phase = "started"]
       /\ Bar(p, v.page, TRUE, "")
       /\ UNCHANGED <<pollers, drains, navs, up, made, begun, drained_n>>

PageEnds(p) ==
    LET v == views[panes[p].view]
    IN /\ Open(p) /\ v.phase = "started"
       /\ views' = [views EXCEPT ![panes[p].view].phase = "done"]
       /\ Bar(p, v.page, FALSE, panes[p].error)
       /\ UNCHANGED <<pollers, drains, navs, up, made, begun, drained_n>>

PageFails(p) ==   \* no host, no answer: nothing is reported
    /\ Loading(p)
    /\ views' = [views EXCEPT ![panes[p].view].phase = "failed"]
    /\ UNCHANGED <<panes, pollers, drains, navs, up, made, begun, drained_n>>

ServerTurns(u) ==
    /\ Racing \/ (navs = {} /\ begun < MaxNavs)
    /\ u \in Local /\ up' = (up \ {u}) \cup ({u} \ up)
    /\ UNCHANGED <<panes, views, pollers, drains, navs, made, begun, drained_n>>

-----------------------------------------------------------------------------
(* poll and drained                                                        *)

Poll(p) ==
    /\ pollers[p] > 0
    /\ IF Open(p)
       THEN /\ drained_n < MaxDrains /\ drained_n' = drained_n + 1
            /\ \E reset \in BOOLEAN, ids \in UNION {[1..n -> Ids] : n \in 1..2} :
                 drains' = Append(drains, [pane |-> p, reset |-> reset, ids |-> ids])
            /\ UNCHANGED pollers
       ELSE pollers' = [pollers EXCEPT ![p] = @ - 1] /\ UNCHANGED <<drains, drained_n>>
    /\ UNCHANGED <<panes, views, navs, up, made, begun>>

Newest(list) == SubSeq(list, (IF Len(list) > ENTRY_LIMIT THEN Len(list) - ENTRY_LIMIT ELSE 0) + 1, Len(list))

keepAppending(list, reset, entries) == Newest((IF reset THEN <<>> ELSE list) \o entries)

(* A row of an id replaces the earlier one, at the end; the oldest go.     *)
keep(list, reset, entries) ==
    Newest(FoldLeft(LAMBDA kept, e : Append(SelectSeq(kept, LAMBDA k : k.id # e.id), e),
                    IF reset THEN <<>> ELSE list, entries))

drained ==
    /\ drains # <<>> /\ drains' = Tail(drains)
    /\ LET d == Head(drains)
           entries == [i \in 1..Len(d.ids) |-> [id |-> d.ids[i], n |-> i]]
       IN panes' = IF Open(d.pane)
                   THEN [panes EXCEPT ![d.pane].entries = keep(@, d.reset, entries)] ELSE panes
    /\ UNCHANGED <<views, pollers, navs, up, made, begun, drained_n>>

-----------------------------------------------------------------------------
BrowserNext ==
    \/ \E p \in Panes :
         \/ open(p) \/ Stop(p) \/ close(p)
         \/ (\E u \in Pages : NavigateBegins(p, u) \/ PageMoves(p, u))
         \/ PageStarts(p) \/ PageEnds(p) \/ PageFails(p) \/ Poll(p)
    \/ (\E n \in navs : Navigates(n)) \/ (\E u \in Local : ServerTurns(u)) \/ drained

BrowserSpec == BrowserInit /\ [][BrowserNext]_browserVars

(* The entries of a pane are at most ENTRY_LIMIT, one row per id; webviews *)
(* are numbered as they are made.                                          *)
BrowserTypeOK ==
    /\ \A p \in Panes : Open(p) =>
         /\ panes[p].view \in 1..made /\ panes[p].url \in Pages \cup {""} /\ panes[p].error \in Local \cup {""}
         /\ Len(panes[p].entries) <= ENTRY_LIMIT
         /\ \A i, j \in 1..Len(panes[p].entries) :
              panes[p].entries[i].id = panes[p].entries[j].id => i = j
    /\ \A p, q \in Panes : p # q /\ Open(p) /\ Open(q) => panes[p].view # panes[q].view

(* A bar that says loading has a page under way, or one that failed with   *)
(* nothing reported: Stop, an address nobody answers on and a Finished all *)
(* end it.                                                                 *)
LoadingIsReal ==
    ~Racing => \A p \in Panes : Open(p) /\ panes[p].loading =>
                 views[panes[p].view].phase \in {"asked", "started", "failed"}

(* "The last load failed": the error in the bar is about the address the   *)
(* bar shows.                                                              *)
ErrorIsOfUrl == \A p \in Panes : Open(p) /\ panes[p].error # "" => panes[p].error = panes[p].url
ErrorAtRest == ~Racing => ErrorIsOfUrl

=============================================================================
