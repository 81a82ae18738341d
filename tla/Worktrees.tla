------------------------------ MODULE Worktrees ------------------------------
(***************************************************************************)
(* Git work of the app and of ptyd (crates/core/src/git.rs): creating and  *)
(* removing worktrees.  Both processes link the library, and each has its  *)
(* own ADDING map over the one repository.  A worktree's folder is named   *)
(* for the branch or PR it was made for.  git itself is external: what it  *)
(* refuses is a guard here.                                                *)
(***************************************************************************)
EXTENDS Naturals, FiniteSets

CONSTANTS
    AppCallers, DaemonCallers,   \* calls that may be in flight in either process
    Branches, Prs,               \* what a worktree is asked for
    MaxCalls, MaxFails,          \* bounds: calls begun; git commands and setups that fail
    Racing                       \* whether anything else happens between a call's steps

Callers == AppCallers \cup DaemonCallers
Targets == Branches \cup Prs
Process(c) == IF c \in AppCallers THEN "app" ELSE "ptyd"

Absent == [there |-> FALSE]
Tree(on) == [there |-> TRUE, on |-> on, gone |-> FALSE, dirty |-> FALSE, ready |-> FALSE]
Idle == [pc |-> "idle"]

VARIABLES
    trees,      \* the registered worktrees by folder; gone: the folder was deleted
    heads,      \* local branches
    fetch_head, \* FETCH_HEAD of the repository
    ADDING,     \* per process and target: the call whose cell is listed, or "none"
    wcalls,     \* the calls in flight
    asks, fails,
    wrong       \* ghost: what an `Ok(path)` did not deliver

worktreesVars == <<trees, heads, fetch_head, ADDING, wcalls, asks, fails, wrong>>

WorktreesInit ==
    /\ trees = [t \in Targets |-> Absent] /\ heads = {} /\ fetch_head = "none"
    /\ ADDING = [p \in {"app", "ptyd"} |-> [t \in Targets |-> "none"]]
    /\ wcalls = [c \in Callers |-> Idle] /\ asks = 0 /\ fails = 0 /\ wrong = {}

Quiet == Racing \/ \A c \in Callers : wcalls[c].pc = "idle"
To(c, pc) == wcalls' = [wcalls EXCEPT ![c].pc = pc]

-----------------------------------------------------------------------------
(* add_worktree                                                            *)

(* What an answer lacks: the folder, the branch checked out in it, or the  *)
(* setup its caller asked for.                                             *)
Missing(t, path) ==
    LET tree == trees[path]
    IN IF ~tree.there \/ tree.gone THEN {"folder"}
       ELSE IF t \in Branches /\ tree.on # t THEN {"branch"} ELSE {}
Unready(c, d) ==   \* the call c created for both, each by its own request
    IF wcalls[d].setup /\ trees[wcalls[c].path].there /\ ~trees[wcalls[c].path].ready
    THEN {IF d = c THEN "setup" ELSE "joined"} ELSE {}

Listed(c, t) == ADDING[Process(c)][t]

AskUnlisted(c, t, setup) ==
    /\ wcalls[c].pc = "idle" /\ asks < MaxCalls /\ asks' = asks + 1
    /\ wcalls' = [wcalls EXCEPT ![c] = [pc |-> "look", t |-> t, setup |-> setup, path |-> "none",
                                         ok |-> FALSE, of |-> "none"]]
    /\ ADDING' = [ADDING EXCEPT ![Process(c)][t] = c]
    /\ UNCHANGED <<trees, heads, fetch_head, fails, wrong>>

(* A request of add_worktree: a call of the same process for the same      *)
(* target is joined, else this one creates.                                *)
Ask(c, t, setup) ==
    /\ wcalls[c].pc = "idle" /\ asks < MaxCalls /\ asks' = asks + 1
    /\ LET first == Listed(c, t)
           call == [pc |-> "look", t |-> t, setup |-> setup, path |-> "none", ok |-> FALSE, of |-> first]
       IN IF first = "none"
          THEN Quiet /\ wcalls' = [wcalls EXCEPT ![c] = call] /\ ADDING' = [ADDING EXCEPT ![Process(c)][t] = c]
          ELSE /\ wcalls' = [wcalls EXCEPT ![c] = [call EXCEPT !.pc = "join"]] /\ UNCHANGED ADDING
    /\ UNCHANGED <<trees, heads, fetch_head, fails, wrong>>

ExistingGone(t) ==   \* `missing` not looked at
    {d \in Targets : trees[d].there /\ (IF t \in Branches THEN trees[d].on = t ELSE d = t)}

Existing(t) ==
    {d \in Targets : /\ trees[d].there /\ ~trees[d].gone
                     /\ IF t \in Branches THEN trees[d].on = t ELSE d = t}

Look(c) ==
    /\ wcalls[c].pc = "look"
    /\ IF Existing(wcalls[c].t) = {} THEN To(c, "fetch")
       ELSE \E d \in Existing(wcalls[c].t) :
              wcalls' = [wcalls EXCEPT ![c].pc = "add", ![c].path = d]
    /\ UNCHANGED <<trees, heads, fetch_head, ADDING, asks, fails, wrong>>

Fetch(c) ==   \* `git fetch origin` leaves another branch first in FETCH_HEAD
    /\ wcalls[c].pc = "fetch" /\ To(c, "add")
    /\ fetch_head' = IF wcalls[c].t \in Prs THEN wcalls[c].t ELSE "branches"
    /\ UNCHANGED <<trees, heads, ADDING, asks, fails, wrong>>

SkipFetch(c) ==   \* request.skip_fetch, or a repository without origin
    /\ wcalls[c].pc = "fetch" /\ wcalls[c].t \in Branches /\ To(c, "add")
    /\ UNCHANGED <<trees, heads, fetch_head, ADDING, asks, fails, wrong>>

CheckedOut(b) == \E d \in Targets : trees[d].there /\ trees[d].on = b
GitAdds(t) == ~trees[t].there /\ (t \in Branches => ~CheckedOut(t))

Add(c) ==
    LET t == wcalls[c].t
        on == IF t \in Prs THEN fetch_head ELSE t
    IN /\ wcalls[c].pc = "add"
       /\ \/ wcalls[c].path # "none" /\ To(c, "setup") /\ UNCHANGED <<trees, heads, wrong>>
          \/ /\ wcalls[c].path = "none" /\ GitAdds(t)
             /\ trees' = [trees EXCEPT ![t] = Tree(on)]
             /\ heads' = heads \cup ({t} \cap Branches)
             /\ wrong' = wrong \cup (IF on # t THEN {"head"} ELSE {})
             /\ wcalls' = [wcalls EXCEPT ![c].pc = "setup", ![c].path = t]
          \/ wcalls[c].path = "none" /\ ~GitAdds(t) /\ To(c, "set") /\ UNCHANGED <<trees, heads, wrong>>
       /\ UNCHANGED <<fetch_head, ADDING, asks, fails>>

(* copy_env and run_setup; either needs the folder                         *)
Setup(c) ==
    LET tree == trees[wcalls[c].path]
    IN /\ wcalls[c].pc = "setup"
       /\ IF ~wcalls[c].setup
          THEN wcalls' = [wcalls EXCEPT ![c].pc = "set", ![c].ok = TRUE] /\ UNCHANGED trees
          ELSE IF tree.there /\ ~tree.gone
          THEN /\ wcalls' = [wcalls EXCEPT ![c].pc = "set", ![c].ok = TRUE]
               /\ trees' = [trees EXCEPT ![wcalls[c].path].ready = TRUE]
          ELSE To(c, "set") /\ UNCHANGED trees
       /\ UNCHANGED <<heads, fetch_head, ADDING, asks, fails, wrong>>

StepFailsReturns(c) ==   \* `create_worktree(..)?` instead of keeping its result
    /\ wcalls[c].pc \in {"look", "fetch"} /\ wcalls' = [wcalls EXCEPT ![c] = Idle]
    /\ fails < MaxFails /\ fails' = fails + 1
    /\ UNCHANGED <<trees, heads, fetch_head, ADDING, asks, wrong>>

(* A step of create_worktree fails and the call ends with its error        *)
StepFails(c) ==
    /\ wcalls[c].pc \in {"look", "fetch", "add", "setup"}
    /\ wcalls[c].pc = "add" => wcalls[c].path = "none"
    /\ wcalls[c].pc = "setup" => wcalls[c].setup
    /\ fails < MaxFails /\ fails' = fails + 1 /\ To(c, "set")
    /\ UNCHANGED <<trees, heads, fetch_head, ADDING, asks, wrong>>

Joined(c) == {d \in Callers : wcalls[d].pc = "join" /\ wcalls[d].of = c}
Delivered(c, who) ==
    IF wcalls[c].ok
    THEN UNION {Missing(wcalls[c].t, wcalls[c].path) \cup Unready(c, d) : d \in who} ELSE {}

(* cell.set: every joined call returns with the same result                *)
Set(c) ==
    /\ wcalls[c].pc = "set"
    /\ wrong' = wrong \cup Delivered(c, Joined(c) \cup {c})
    /\ wcalls' = [d \in Callers |-> IF d \in Joined(c) THEN Idle
                                    ELSE IF d = c THEN [wcalls[c] EXCEPT !.pc = "unlist"] ELSE wcalls[d]]
    /\ UNCHANGED <<trees, heads, fetch_head, ADDING, asks, fails>>

(* The key goes; a call that joined the finished one meanwhile has its     *)
(* answer too.                                                             *)
Unlist(c) ==
    /\ wcalls[c].pc = "unlist"
    /\ ADDING' = [ADDING EXCEPT ![Process(c)][wcalls[c].t] = "none"]
    /\ wrong' = wrong \cup Delivered(c, Joined(c))
    /\ wcalls' = [d \in Callers |-> IF d = c \/ d \in Joined(c) THEN Idle ELSE wcalls[d]]
    /\ UNCHANGED <<trees, heads, fetch_head, asks, fails>>

-----------------------------------------------------------------------------
(* remove_worktree, prune_worktrees, and what agents and users do          *)

RemoveBegins(c, d, force, delete) ==
    /\ wcalls[c].pc = "idle" /\ asks < MaxCalls /\ asks' = asks + 1 /\ Quiet
    /\ trees[d].there /\ ~trees[d].gone
    /\ wcalls' = [wcalls EXCEPT ![c] = [pc |-> "remove", t |-> d, force |-> force,
                     branch |-> IF delete /\ trees[d].on \in Branches THEN trees[d].on ELSE "none"]]
    /\ UNCHANGED <<trees, heads, fetch_head, ADDING, fails, wrong>>

Remove(c) ==   \* `git worktree remove` refuses changes without --force
    LET d == wcalls[c].t
        refused == ~trees[d].there \/ (trees[d].dirty /\ ~wcalls[c].force)
    IN /\ wcalls[c].pc = "remove"
       /\ IF refused THEN wcalls' = [wcalls EXCEPT ![c] = Idle] /\ UNCHANGED trees
          ELSE /\ trees' = [trees EXCEPT ![d] = Absent]
               /\ IF wcalls[c].branch = "none" THEN wcalls' = [wcalls EXCEPT ![c] = Idle]
                  ELSE To(c, "delete")
       /\ UNCHANGED <<heads, fetch_head, ADDING, asks, fails, wrong>>

DeleteBranch(c) ==   \* `git branch -D` refuses one that is checked out
    /\ wcalls[c].pc = "delete"
    /\ wcalls' = [wcalls EXCEPT ![c] = Idle]
    /\ heads' = IF CheckedOut(wcalls[c].branch) THEN heads ELSE heads \ {wcalls[c].branch}
    /\ UNCHANGED <<trees, fetch_head, ADDING, asks, fails, wrong>>

Prune ==
    /\ Quiet /\ \E d \in Targets : trees[d].there /\ trees[d].gone
    /\ trees' = [d \in Targets |-> IF trees[d].there /\ trees[d].gone THEN Absent ELSE trees[d]]
    /\ UNCHANGED <<heads, fetch_head, ADDING, wcalls, asks, fails, wrong>>

(* In a worktree someone edits, checks out another branch or deletes the   *)
(* folder.                                                                 *)
Meddle(d) ==
    /\ Quiet /\ trees[d].there /\ ~trees[d].gone
    /\ \/ trees' = [trees EXCEPT ![d].dirty = ~@]
       \/ \E b \in heads : ~CheckedOut(b) /\ trees' = [trees EXCEPT ![d].on = b]
       \/ trees' = [trees EXCEPT ![d].gone = TRUE]
    /\ UNCHANGED <<heads, fetch_head, ADDING, wcalls, asks, fails, wrong>>

BranchMade(b) ==   \* create_branch and delete_branch
    /\ Quiet /\ b \notin heads /\ heads' = heads \cup {b}
    /\ UNCHANGED <<trees, fetch_head, ADDING, wcalls, asks, fails, wrong>>

BranchDeleted(b) ==
    /\ Quiet /\ b \in heads /\ ~CheckedOut(b) /\ heads' = heads \ {b}
    /\ UNCHANGED <<trees, fetch_head, ADDING, wcalls, asks, fails, wrong>>

-----------------------------------------------------------------------------
CallStep(c) ==
    \/ Look(c) \/ Fetch(c) \/ Add(c) \/ Setup(c) \/ Set(c) \/ Unlist(c) \/ Remove(c) \/ DeleteBranch(c)

WorktreesNext ==
    \/ \E c \in Callers :
         \/ CallStep(c) \/ SkipFetch(c) \/ StepFails(c)
         \/ \E t \in Targets, setup \in BOOLEAN : Ask(c, t, setup)
         \/ \E d \in Targets, force, delete \in BOOLEAN : RemoveBegins(c, d, force, delete)
    \/ Prune \/ (\E d \in Targets : Meddle(d)) \/ (\E b \in Branches : BranchMade(b) \/ BranchDeleted(b))

(* git and a setup command end by themselves                               *)
WorktreesFairness == \A c \in Callers : WF_worktreesVars(CallStep(c))
WorktreesSpec == WorktreesInit /\ [][WorktreesNext]_worktreesVars /\ WorktreesFairness
-----------------------------------------------------------------------------
(* Every call is of the form its step needs, the ADDING map lists only     *)
(* calls that are creating, and a worktree has a branch that exists or the *)
(* head of a PR.                                                           *)
WorktreesTypeOK ==
    /\ \A d \in Targets : trees[d].there /\ trees[d].on \in Branches => trees[d].on \in heads
    /\ \A p \in {"app", "ptyd"}, t \in Targets : ADDING[p][t] # "none" =>
         LET c == ADDING[p][t]
         IN Process(c) = p /\ wcalls[c].pc \in {"look", "fetch", "add", "setup", "set", "unlist"} /\ wcalls[c].t = t
    /\ \A c \in Callers : wcalls[c].pc = "join" => Listed(c, wcalls[c].t) = wcalls[c].of
    /\ asks \in 0..MaxCalls /\ fails \in 0..MaxFails
    /\ wrong \subseteq {"folder", "branch", "setup", "joined", "head"}

(* In one process no two calls create the worktree of the same target at   *)
(* once: add_worktree's second call joins the first.                       *)
OneCreation ==
    \A c, d \in Callers :
      (/\ c # d /\ Process(c) = Process(d)
       /\ \A e \in {c, d} : wcalls[e].pc \in {"look", "fetch", "add", "setup"}) => wcalls[c].t # wcalls[d].t

(* When nothing else touches the repository during a call, its Ok names a  *)
(* folder that is there, has the branch checked out and ran the setup it   *)
(* asked for; a new PR worktree is at that PR's head.  Earlier failures,   *)
(* removals, deleted folders and branches switched by agents included.     *)
AnswerHolds == ~Racing => wrong \subseteq {"joined"}

(* add_worktree "creates (or reuses) the worktree for a branch or PR": a   *)
(* new PR worktree is at the head of its own PR, whatever runs beside it.  *)
PrAtItsHead == "head" \notin wrong

(* Every call that joined another one returns, also when that one fails.   *)
JoinersReturn == \A c \in Callers : wcalls[c].pc = "join" ~> wcalls[c].pc = "idle"
=============================================================================
