---------------------------- MODULE MCAuditChain ----------------------------
(***************************************************************************)
(* Instances of AuditChain and of Timelines for TLC: a behaviour is one of *)
(* the chain or one of somebody who reads a list of events; the other      *)
(* stays as it is.                                                         *)
(***************************************************************************)
EXTENDS AuditChain, TLC

CONSTANTS w, timer, admin, d, nothing

VARIABLES row, doc, page, asks, exported, due, cuts, restarted, part

Times == <<1, 2, 2, 3>>
Kinds == <<"user", "agent", "agent", "other">>

Reading == INSTANCE Timelines WITH
    N <- 4, TimeOf <- Times, KindOf <- Kinds, DocOf <- <<nothing, d, d, nothing>>,
    Docs <- {d}, None <- nothing, Early <- 1..3, PageSize <- 1, ExportCap <- 2,
    Lists <- {"activity", "audit", "admin"},
    Filters <- {{"user", "agent", "other"}, {"user", "agent"}}, MaxAsks <- 3,
    Ops <- {"prune", "fail"}

lists == <<row, doc, page, asks, exported, due, cuts, restarted>>

ListsInit == /\ Reading!Init /\ Init
             /\ \/ part = "lists"
                \/ part = "chain" /\ page.list = "admin" /\ page.filter = {"user", "agent"}

ListsNext ==
    \/ part = "chain" /\ Next /\ UNCHANGED <<lists, part>>
    \/ part = "lists" /\ Reading!Next /\ UNCHANGED <<vars, part>>

ListsSpec == ListsInit /\ [][ListsNext]_<<vars, lists, part>>

SealerSymmetry == Permutations(Sealers)

(* What a reader is shown page by page is all there was (Timelines).       *)
PagesTellAll == part = "lists" => Reading!PagesTellAll
=============================================================================
