---------------------------- MODULE MCFolderTree ----------------------------
(***************************************************************************)
(* Two instances of FolderTree for TLC, of which a behaviour is one: "tree" *)
(* is a single workspace with documents, "transfers" are two others between *)
(* which folders move.  The properties of FolderTree are those of the       *)
(* workspaces of "tree".                                                    *)
(***************************************************************************)
EXTENDS FolderTree, TLC

CONSTANTS f, g, h, e, x, y, a, b, u, v, w, r1, r2

VARIABLE part

OneWorkspace == <<w>>

Absent == [state |-> "absent", ws |-> w, parent |-> "root", slug |-> a, path |-> << >>]

At(p, s, path) == [state |-> "live", ws |-> w, parent |-> p, slug |-> s, path |-> path]

(* f, and g below it with the document x; h beside f.                      *)
Nested ==
    [n \in Folders \cup Docs |->
       CASE n = f -> At("root", a, <<a>>)
         [] n = g -> At(f, b, <<a, b>>)
         [] n = h -> At("root", b, <<b>>)
         [] n = x -> At(g, a, <<a, b, a>>)
         [] OTHER -> Absent]

(* f with g below it in workspace u, h in workspace v.                     *)
Apart ==
    [n \in Folders |->
       CASE n = f -> [At("root", a, <<a>>) EXCEPT !.ws = u]
         [] n = g -> [At(f, b, <<a, b>>) EXCEPT !.ws = u]
         [] n = h -> [At("root", b, <<b>>) EXCEPT !.ws = v]
         [] OTHER -> [Absent EXCEPT !.ws = u]]

Transfers == INSTANCE FolderTree WITH
    Docs <- {}, Workspaces <- {u, v}, Sorted <- <<v, u>>, Tree <- Apart, Ops <- AllOps \ {"empty"}

FoldersInit ==
    \/ part = "tree" /\ Init
    \/ part = "transfers" /\ Transfers!Init

FoldersNext ==
    /\ UNCHANGED part
    /\ \/ part = "tree" /\ Next
       \/ part = "transfers" /\ Transfers!Next

(* The fairness of FolderTree, where two locks are taken.                  *)
FoldersFairness == \A r \in Requests : WF_vars(part = "transfers" /\ Transfers!Handle(r))

FoldersSpec == FoldersInit /\ [][FoldersNext]_<<vars, part>> /\ FoldersFairness

(* FolderTree: every request between two workspaces comes to its end.      *)
TransfersEnd == \A r \in Requests :
    part = "transfers" /\ pc[r] # "idle" ~> pc[r] = "done"
=============================================================================
