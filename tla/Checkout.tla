------------------------------ MODULE Checkout -------------------------------
(***************************************************************************)
(* One checkout as crates/core/src/git.rs reads and changes it: git_status *)
(* asks several git processes one after the other, and discard_changes     *)
(* takes one file back to HEAD.  A branch is the set of its commits; a     *)
(* content of the file is a number.  git itself is external.               *)
(***************************************************************************)
EXTENDS Naturals, FiniteSets

CONSTANTS
    MaxCommits,     \* bound: commits made
    Racing          \* whether commits happen between a status's steps

VARIABLES
    commits,    \* on the checkout's branch, and on the base branch as fetched
    gone,       \* the branch's upstream was deleted
    status,     \* a git_status call: its step and what it has read
    torn,       \* ghost: "merged" was shown for a branch with commits of its own
    file        \* one file: in HEAD, in the index, in the working tree; 0 is none

statusVars == <<commits, gone, status, torn>>
checkoutVars == <<statusVars, file>>

CheckoutInit ==
    /\ commits = [head |-> {}, base |-> {}] /\ gone = FALSE
    /\ status = [pc |-> "idle"] /\ torn = FALSE
    /\ \E v \in {0, 1} : file = [HEAD |-> v, index |-> v, work |-> v]

-----------------------------------------------------------------------------
(* git_status: four git processes, one after the other                     *)

Still == Racing \/ status.pc = "idle"
News == Cardinality(commits.head \cup commits.base) + 1

Commits ==   \* commit_all, or the agent itself
    /\ Still /\ News <= MaxCommits
    /\ commits' = [commits EXCEPT !.head = @ \cup {News}]
    /\ UNCHANGED <<gone, status, torn, file>>

BaseMoves ==   \* a fetch brings the base's news, this branch merged or not
    /\ Still /\ News <= MaxCommits
    /\ \E with \in {{}, commits.head} :
         commits' = [commits EXCEPT !.base = @ \cup with \cup {News}]
    /\ UNCHANGED <<gone, status, torn, file>>

CatchUp ==   \* catch_up: a merge with --ff-only
    /\ Still /\ commits.head \subseteq commits.base /\ commits.head # commits.base
    /\ commits' = [commits EXCEPT !.head = commits.base]
    /\ UNCHANGED <<gone, status, torn, file>>

UpstreamDeleted ==
    /\ Still /\ ~gone /\ gone' = TRUE /\ UNCHANGED <<commits, status, torn, file>>

StatusReads ==   \* parse_status of `git status`
    /\ status.pc = "idle" /\ status' = [pc |-> "count", gone |-> gone]
    /\ UNCHANGED <<commits, gone, torn, file>>

StatusCounts ==
    /\ status.pc = "count"
    /\ status' = [pc |-> "moved", gone |-> status.gone,
                  base_ahead |-> Cardinality(commits.head \ commits.base)]
    /\ UNCHANGED <<commits, gone, torn, file>>

MergedIfMoved(moved) == status.gone \/ moved
Merged(moved) == status.gone \/ (status.base_ahead = 0 /\ moved)

StatusShown ==
    /\ status.pc = "moved" /\ status' = [pc |-> "idle"]
    /\ torn' = (torn \/ (/\ Merged(commits.head # commits.base) /\ ~status.gone
                         /\ ~(commits.head \subseteq commits.base)))
    /\ UNCHANGED <<commits, gone, file>>

-----------------------------------------------------------------------------
(* A file of the checkout, and discard_changes                             *)

Edits == \E v \in 0..2 : v # file.work /\ file' = [file EXCEPT !.work = v] /\ UNCHANGED statusVars
Stages == file.index # file.work /\ file' = [file EXCEPT !.index = file.work] /\ UNCHANGED statusVars
Unstages == file.index # file.HEAD /\ file' = [file EXCEPT !.index = file.HEAD] /\ UNCHANGED statusVars

DiscardedUnstaged(f) ==   \* `git restore` without --staged takes the index's
    IF f.index = 0 THEN [f EXCEPT !.work = 0] ELSE [f EXCEPT !.work = f.index]

Discarded(f) ==
    IF f.index = 0 THEN [f EXCEPT !.work = 0]                                 \* git clean
    ELSE IF f.HEAD # 0 THEN [f EXCEPT !.index = f.HEAD, !.work = f.HEAD]      \* git restore
    ELSE [f EXCEPT !.index = 0, !.work = 0]                                   \* git rm

discard_changes == file' = Discarded(file) /\ UNCHANGED statusVars

-----------------------------------------------------------------------------
CheckoutNext ==
    \/ Commits \/ BaseMoves \/ CatchUp \/ UpstreamDeleted \/ StatusReads \/ StatusCounts \/ StatusShown
    \/ Edits \/ Stages \/ Unstages \/ discard_changes
CheckoutSpec == CheckoutInit /\ [][CheckoutNext]_checkoutVars

(* git_status calls a branch merged, unless its upstream is gone, only     *)
(* when the base has all its commits: a clean-up loses nothing.  Commits   *)
(* and fetches between the git processes of one status are left out.       *)
MergedIsInBase == ~Racing => ~torn

(* "A fresh branch still at the base tip has nothing to clean up", also    *)
(* when its first commit is made while the status is read.                 *)
FreshIsNotMerged == ~torn

(* discard_changes takes a file the index has back to HEAD, in the index   *)
(* and in the working tree, whatever was staged or edited; a file HEAD     *)
(* does not have is gone from both.                                        *)
RestoresHead ==
    discard_changes => (file.index # 0 => file' = [HEAD |-> file.HEAD, index |-> file.HEAD, work |-> file.HEAD])
DiscardRestores == [][RestoresHead]_checkoutVars

(* "Restores a tracked file to HEAD, deletes an untracked or newly added   *)
(* one": also a file whose deletion is staged.                             *)
DiscardRestoresAll == Discarded(file).work = file.HEAD
=============================================================================
