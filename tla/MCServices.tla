----------------------------- MODULE MCServices -----------------------------
(***************************************************************************)
(* The services of the server around the documents, small enough to be     *)
(* checked together: a behaviour is one of one part, and the variables of  *)
(* the others stay as they are.  Variables of the same name are shared by  *)
(* the parts, which only one of them uses at a time.                       *)
(***************************************************************************)
EXTENDS Permissions, TLC

CONSTANTS f1, f2, m1, m2, m3, d1, u1, u2, u3, nobody, gr, root, w1, w2, a1, a2,
          r1, r2, r3, r4, k1, k2, dv, agentU, agentV

VARIABLES
    folder, document, sharing, share, role, bars,                 \* PublicShares
    integration, session, link, unlinked, revision,               \* Integrations
    account, cookie, code, token, device, plugin, spent, granted, \* Accounts
    claim, comment, cursor, given, used,                          \* Collaboration
    text, edits,                                                  \* MarkdownText
    user, space, linked, profiles, crossed, late, taken,          \* Workspaces
    part

-----------------------------------------------------------------------------
(* Permissions: u2 is an administrator, u1 may be anything.                *)

Nested == [k \in Folders |-> IF k = f1 THEN root ELSE f1]
MaybeDeleted == {Resources, Resources \ {f1}, Resources \ {f2}}
InG == {[k \in Docs |-> f2]}
SomeDefaults == [Folders -> {None, Editor}]
AnyMembers == {[k \in Users |-> IF k = u1 THEN wr ELSE "admin"] : wr \in WorkspaceRoles \cup {NotMember}}
SomeGroups == [Groups -> {{}, {u1}}]
SomeGrants == {[p \in Subjects \X Resources |-> IF p[1] = u2 THEN None ELSE q[p]] :
                 q \in [{u1, gr} \X Resources -> {None, Viewer, Manager}]}
NoScope == {Root}
OneRow == {[s \in Subjects |-> IF s = gr THEN Viewer ELSE None]}

NothingGranted ==
    /\ live = Resources
    /\ \A k \in Folders : defaultRole[k] = None
    /\ \A p \in Subjects \X Resources : grant[p] = None
    /\ \A k \in Groups : group[k] = {}

(* The requests that change the grants, while others join and delete.      *)
Granting == INSTANCE Permissions WITH
    Ops <- {"add", "update", "remove", "email", "replace", "member", "delete"}

others == <<folder, document, sharing, share, role, bars, integration, session, link, unlinked,
            revision, account, cookie, code, token, device, plugin, spent, granted,
            claim, comment, cursor, given, used, text, edits,
            user, space, linked, profiles, crossed, late, taken>>

-----------------------------------------------------------------------------
(* PublicShares: a folder m1 with a document in it, a folder m2 beside it, *)
(* and a folder m3 in another workspace.                                   *)

Row(ws, path) == [ws |-> ws, live |-> TRUE, path |-> path]
Manual == [k \in {m1, m2, m3} |-> CASE k = m1 -> Row(w1, <<a1>>)
                                    [] k = m2 -> Row(w1, <<a2>>)
                                    [] OTHER -> Row(w2, <<a2>>)]
InManual == [k \in {d1} |-> [ws |-> w1, folder |-> m1, live |-> TRUE, canonical |-> TRUE]]
LinkToManual == <<[ws |-> w1, target |-> m1, author |-> u1, secret |-> FALSE,
                   revoked |-> FALSE, expired |-> FALSE]>>

Hidden == INSTANCE PublicShares WITH
    Folders <- {m1, m2, m3}, Docs <- {d1}, Workspaces <- {w1, w2}, Users <- {u1},
    Requests <- {r1, r2}, Visitors <- {r1}, MaxShares <- 2,
    Ops <- {"revoke", "visit", "expire", "switch", "status", "move", "delete", "transfer"},
    Tree <- Manual, Placed <- InManual, Given <- LinkToManual

Granted == INSTANCE PublicShares WITH
    Folders <- {m1, m2, m3}, Docs <- {d1}, Workspaces <- {w1, w2}, Users <- {u1},
    Requests <- {r1, r2}, Visitors <- {r1}, MaxShares <- 2,
    Ops <- {"create", "grant", "visit", "revoke", "switch", "expire", "status"},
    Tree <- Manual, Placed <- InManual, Given <- << >>

(* The folder lies under m2, and one of its name is at the root.           *)
Below == [k \in {m1, m2, m3} |-> CASE k = m1 -> Row(w1, <<a2, a1>>)
                                   [] k = m2 -> Row(w1, <<a2>>)
                                   [] OTHER -> Row(w1, <<a1>>)]

Moved == INSTANCE PublicShares WITH
    Folders <- {m1, m2, m3}, Docs <- {d1}, Workspaces <- {w1, w2}, Users <- {u1},
    Requests <- {r1}, Visitors <- {r1}, MaxShares <- 2,
    Ops <- {"visit", "transferFolder", "move"},
    Tree <- Below, Placed <- InManual, Given <- LinkToManual

(* Integrations: two users that connect the same account; a document that  *)
(* is read and written; and what is created and taken away.                *)

Connecting == INSTANCE Integrations WITH
    Users <- {u1, u2}, Accounts <- {a1}, Sessions <- {k1, k2}, Requests <- {r1, r2, r3},
    MaxRevisions <- 1, Ops <- {"connect", "confirm", "unlink", "expire", "erase"}

Writing == INSTANCE Integrations WITH
    Users <- {u1}, Accounts <- {a1}, Sessions <- {}, Requests <- {r1, r2},
    MaxRevisions <- 3, Ops <- {"read", "append", "update", "retitle", "revise", "roles"}

Administered == INSTANCE Integrations WITH
    Users <- {u1}, Accounts <- {a1}, Sessions <- {k1}, Requests <- {r1, r2},
    MaxRevisions <- 2, Ops <- {"connect", "confirm", "create", "update", "admin", "lose", "erase"}

SignIn == INSTANCE Accounts WITH
    Users <- {u1}, Requests <- {r1, r2, r3}, Codes <- {k1, k2}, Devices <- {dv}, MaxPasswords <- 2,
    Ops <- {"login", "change", "reset", "verify", "delete", "token", "revoke", "expire", "approve", "device"}

Claiming == INSTANCE Collaboration WITH
    Users <- {u1, u2}, Actors <- {u1, agentU, agentV}, Agents <- {agentU, agentV},
    UserOf <- [k \in {u1, agentU, agentV} |-> IF k = agentV THEN u2 ELSE u1],
    Workspaces <- {w1, w2}, Home <- w1, Requests <- {r1, r2},
    MaxVersion <- 2, MaxClaims <- 2, MaxComments <- 1,
    Ops <- {"claim", "release", "adminRelease", "comment", "read", "resolve",
            "deleteComment", "unread", "revise", "delete", "transfer"}

Tracking == INSTANCE Collaboration WITH
    Users <- {u2}, Actors <- {agentV}, Agents <- {agentV}, UserOf <- [k \in {agentV} |-> u2],
    Workspaces <- {w1}, Home <- w1, Requests <- {r1, r2, r3},
    MaxVersion <- 3, MaxClaims <- 0, MaxComments <- 0,
    Ops <- {"read", "inspect", "append", "edit", "unread", "revise"}

Demoted == INSTANCE Collaboration WITH
    Users <- {u1}, Actors <- {u1, agentU}, Agents <- {agentU},
    UserOf <- [k \in {u1, agentU} |-> u1],
    Workspaces <- {w1}, Home <- w1, Requests <- {r1, r2},
    MaxVersion <- 1, MaxClaims <- 1, MaxComments <- 1,
    Ops <- {"claim", "grant", "comment", "deleteComment"}

(* PlanningWorkflow: a plan that is worked out by agents and made final,   *)
(* and one that the panel moves on.                                        *)

Plan == INSTANCE PlanningWorkflow WITH
    Requests <- {r1, r2}, Comments <- {}, Starts <- {}, Edited <- {},
    Ops <- {}, MaxVersions <- 3, MaxRound <- 1

Worked == [Plan!Template EXCEPT !.asked = FALSE, !.step = "final-review",
             !.section = [k \in Plan!Sections |-> IF k = "final-plan" THEN "tbd" ELSE "filled"]]
Accepted == [Worked EXCEPT !.decision = "accepted", !.step = "accepted"]
Unready == [Worked EXCEPT !.asked = TRUE, !.section["plan"] = "nested", !.status = "canonical"]

Planning == INSTANCE PlanningWorkflow WITH
    Requests <- {r1, r2}, Comments <- {k1}, Starts <- {Accepted, Unready}, Edited <- {"filled"},
    Ops <- {"section", "question", "decide", "review", "finalizeWeb", "finalizeMcp",
            "comment", "promote"},
    MaxVersions <- 3, MaxRound <- 1

Panel == INSTANCE PlanningWorkflow WITH
    Requests <- {r1, r2}, Comments <- {k1}, Starts <- {Accepted, Unready, Plan!Template},
    Edited <- {}, Ops <- {"finalizeMcp", "comment", "panel", "review", "put"},
    MaxVersions <- 3, MaxRound <- 1

(* MarkdownText: short texts of all kinds of lines, and longer ones of few.*)

Lines == INSTANCE MarkdownText WITH
    Starts <- {}, Drafts <- {}, Names <- {}, Contents <- {}, Ids <- {},
    Bodies <- {}, MaxEdits <- 0

Decisions == Lines!Heading("decisions", 2)
PlanHeading == Lines!Heading("plan", 3)
Ticks(size) == Lines!Fence("ticks", size)
AnyLine == {Decisions, PlanHeading, Ticks(3), Ticks(4), Lines!Fence("tildes", 3),
            Lines!Open, Lines!Id("x"), Lines!Close, Lines!Blank, Lines!Prose}
TextsOf(symbols, size) == UNION {[1..k -> symbols] : k \in 0..size}

Sections == INSTANCE MarkdownText WITH
    Starts <- TextsOf(AnyLine, 3) \cup
              [1..5 -> {Decisions, Lines!Open, Lines!Id("x"), Lines!Close}],
    Drafts <- {}, Names <- {"plan", "decisions"},
    Contents <- {<<Lines!Prose>>, <<Lines!Blank>>, <<Lines!Blank, Lines!Prose, Lines!Blank>>,
                 <<Ticks(3), PlanHeading, Ticks(4)>>},
    Ids <- {"x", "y"},
    Bodies <- {<<>>, <<Lines!Close>>, <<PlanHeading>>, <<Ticks(3)>>, <<Lines!Open>>,
               <<Ticks(3), PlanHeading, Lines!Close, Ticks(4)>>}, MaxEdits <- 1

Texts == INSTANCE MarkdownText WITH
    Starts <- TextsOf({Lines!Blank, Lines!Prose, Lines!Close}, 4),
    Drafts <- TextsOf({Lines!Blank, Lines!Prose, Lines!Close}, 3),
    Names <- {}, Contents <- {}, Ids <- {}, Bodies <- {}, MaxEdits <- 1

(* Workspaces: an administrator, a member and a row that is free; a name   *)
(* that may be used and one that is reserved.                              *)

SomeNames == ("docs" :> "good") @@ ("www" :> "reserved")
Addresses == (u1 :> "a") @@ (u2 :> "b") @@ (u3 :> "c")
TwoMembers == (u1 :> "admin") @@ (u2 :> "member")

Hosting == INSTANCE Workspaces WITH
    Rows <- {u1, u2, u3}, Emails <- {"a", "b", "c"}, Subs <- {k1}, Spaces <- {w1, w2},
    ShapeOf <- SomeNames, Domains <- {k2}, Slugs <- {gr}, Requests <- {r1, r2, r3},
    Cloud <- TRUE, SignupOpen <- TRUE, None <- nobody, Home <- w1, Founders <- TwoMembers,
    EmailOf <- Addresses, Ops <- {"create", "domain", "delete", "register"}

Inviting == INSTANCE Workspaces WITH
    Rows <- {u1, u2, u3}, Emails <- {"a", "b", "c"}, Subs <- {k1}, Spaces <- {w1, w2},
    ShapeOf <- SomeNames, Domains <- {k2}, Slugs <- {gr}, Requests <- {r1, r2, r3},
    Cloud <- TRUE, SignupOpen <- TRUE, None <- nobody, Home <- w1, Founders <- TwoMembers,
    EmailOf <- Addresses, Ops <- {"delete", "invite", "fail", "group"}

SigningUp == INSTANCE Workspaces WITH
    Rows <- {u1, u2, u3}, Emails <- {"a", "b", "c"}, Subs <- {k1}, Spaces <- {w1, w2},
    ShapeOf <- SomeNames, Domains <- {k2}, Slugs <- {gr}, Requests <- {r1, r2, r3},
    Cloud <- TRUE, SignupOpen <- TRUE, None <- nobody, Home <- w1, Founders <- TwoMembers,
    EmailOf <- Addresses, Ops <- {"google", "register", "delete", "fail"}

-----------------------------------------------------------------------------
(* What each part has for itself, and how the rest is when it is not on.   *)

AccessOwn == <<live, defaultRole, placed, group, grant, scope>>
NoAccess ==
    /\ live = {} /\ defaultRole = "off" /\ placed = "off" /\ group = "off"
    /\ grant = "off" /\ scope = "off"

SharesOwn == <<sharing, share, bars>>
NoShares ==
    /\ sharing = "off" /\ share = "off" /\ bars = "off"

LinksOwn == <<integration, session, link, unlinked>>
NoLinks ==
    /\ integration = "off" /\ session = "off" /\ link = "off" /\ unlinked = "off"

AccountsOwn == <<account, cookie, code, token, device, plugin, spent, granted>>
NoAccounts ==
    /\ account = "off" /\ cookie = "off" /\ code = "off" /\ token = "off"
    /\ device = "off" /\ plugin = "off" /\ spent = "off" /\ granted = "off"

AgentsOwn == <<claim, cursor, given, used>>
NoAgents ==
    /\ claim = "off" /\ cursor = "off" /\ given = "off" /\ used = "off"

TextOwn == <<text, edits>>
NoText ==
    /\ text = "off" /\ edits = "off"

SpacesOwn == <<user, space, linked, profiles, crossed, late, taken>>
NoSpaces ==
    /\ user = "off" /\ space = "off" /\ linked = "off" /\ profiles = "off"
    /\ crossed = "off" /\ late = "off" /\ taken = "off"

(* Variables of two parts.                                                 *)
NoTree == folder = "off" /\ document = "off" /\ role = "off"

ServicesInit ==
    \/ /\ \/ part = "roles" /\ Init
          \/ part = "admin" /\ Init /\ NothingGranted
          \/ part = "grants" /\ Granting!Init /\ NothingGranted
       /\ NoSpaces /\ NoShares /\ NoLinks /\ NoAccounts /\ NoAgents /\ NoText
       /\ NoTree /\ revision = "off" /\ comment = "off"
    \/ /\ \/ part = "hidden" /\ Hidden!Init
          \/ part = "granted" /\ Granted!Init
          \/ part = "moved" /\ Moved!Init
       /\ NoSpaces /\ NoAccess /\ NoLinks /\ NoAccounts /\ NoAgents /\ NoText
       /\ member = "off" /\ revision = "off" /\ comment = "off"
    \/ /\ \/ part = "connecting" /\ Connecting!Init
          \/ part = "writing" /\ Writing!Init
          \/ part = "administered" /\ Administered!Init
       /\ NoSpaces /\ NoAccess /\ NoShares /\ NoAccounts /\ NoAgents /\ NoText /\ comment = "off"
    \/ /\ part = "signin" /\ SignIn!Init
       /\ NoSpaces /\ NoAccess /\ NoShares /\ NoLinks /\ NoAgents /\ NoText
       /\ NoTree /\ member = "off" /\ revision = "off" /\ comment = "off"
    \/ /\ \/ part = "agents" /\ Claiming!Init
          \/ part = "tracked" /\ Tracking!Init
          \/ part = "demoted" /\ Demoted!Init
       /\ NoSpaces /\ NoAccess /\ NoShares /\ NoLinks /\ NoAccounts /\ NoText
       /\ member = "off" /\ folder = "off" /\ revision = "off"
    \/ /\ \/ part = "planning" /\ Planning!PlanInit
          \/ part = "panel" /\ Panel!PlanInit
       /\ NoSpaces /\ NoAccess /\ NoShares /\ NoLinks /\ NoAccounts /\ NoAgents /\ NoText
       /\ NoTree /\ member = "off"
    \/ /\ \/ part = "sections" /\ Sections!TextInit
          \/ part = "texts" /\ Texts!TextInit
       /\ NoSpaces /\ NoAccess /\ NoShares /\ NoLinks /\ NoAccounts /\ NoAgents
       /\ NoTree /\ member = "off" /\ revision = "off" /\ comment = "off" /\ request = "off"
    \/ /\ \/ part = "hosting" /\ Hosting!Init
          \/ part = "inviting" /\ Inviting!Init
          \/ part = "signingup" /\ SigningUp!Init
       /\ live = {} /\ defaultRole = "off" /\ placed = "off" /\ grant = "off" /\ scope = "off"
       /\ NoShares /\ NoLinks /\ NoAccounts /\ NoAgents /\ NoText
       /\ NoTree /\ revision = "off" /\ comment = "off"

Tree == <<folder, document, role>>

ServicesNext ==
    /\ UNCHANGED part
    /\ \/ /\ \/ part = "admin" /\ Next
             \/ part = "grants" /\ Granting!Next
          /\ UNCHANGED others
       \/ /\ \/ part = "hidden" /\ Hidden!Next
             \/ part = "granted" /\ Granted!Next
             \/ part = "moved" /\ Moved!Next
          /\ UNCHANGED <<SpacesOwn, AccessOwn, LinksOwn, AccountsOwn, AgentsOwn, TextOwn>>
          /\ UNCHANGED <<member, revision, comment>>
       \/ /\ \/ part = "connecting" /\ Connecting!Next
             \/ part = "writing" /\ Writing!Next
             \/ part = "administered" /\ Administered!Next
          /\ UNCHANGED <<SpacesOwn, AccessOwn, SharesOwn, AccountsOwn, AgentsOwn, TextOwn, comment>>
       \/ /\ part = "signin" /\ SignIn!Next
          /\ UNCHANGED <<SpacesOwn, AccessOwn, SharesOwn, LinksOwn, AgentsOwn, TextOwn>>
          /\ UNCHANGED <<Tree, member, revision, comment>>
       \/ /\ \/ part = "agents" /\ Claiming!Next
             \/ part = "tracked" /\ Tracking!Next
             \/ part = "demoted" /\ Demoted!Next
          /\ UNCHANGED <<SpacesOwn, AccessOwn, SharesOwn, LinksOwn, AccountsOwn, TextOwn>>
          /\ UNCHANGED <<member, folder, revision>>
       \/ /\ \/ part = "planning" /\ Planning!PlanNext
             \/ part = "panel" /\ Panel!PlanNext
          /\ UNCHANGED <<SpacesOwn, AccessOwn, SharesOwn, LinksOwn, AccountsOwn, AgentsOwn, TextOwn>>
          /\ UNCHANGED <<Tree, member>>
       \/ /\ \/ part = "sections" /\ Sections!TextNext
             \/ part = "texts" /\ Texts!TextNext
          /\ UNCHANGED <<SpacesOwn, AccessOwn, SharesOwn, LinksOwn, AccountsOwn, AgentsOwn>>
          /\ UNCHANGED <<Tree, member, revision, comment, request>>
       \/ /\ \/ part = "hosting" /\ Hosting!Next
             \/ part = "inviting" /\ Inviting!Next
             \/ part = "signingup" /\ SigningUp!Next
          /\ UNCHANGED <<live, defaultRole, placed, grant, scope>>
          /\ UNCHANGED <<SharesOwn, LinksOwn, AccountsOwn, AgentsOwn, TextOwn>>
          /\ UNCHANGED <<Tree, revision, comment>>

ServicesSpec == ServicesInit /\ [][ServicesNext]_<<vars, others, part>>

-----------------------------------------------------------------------------
(* The properties of the parts.  Those of Permissions hold of nothing when *)
(* another part is on, since nothing is live.                              *)

(* The types of the part's state.                                          *)
ServicesTypeOK ==
    /\ part \in {"roles", "admin", "grants"} => TypeOK
    /\ part = "hidden" => Hidden!TypeOK
    /\ part = "granted" => Granted!TypeOK
    /\ part = "moved" => Moved!TypeOK
    /\ part = "connecting" => Connecting!TypeOK
    /\ part = "writing" => Writing!TypeOK
    /\ part = "administered" => Administered!TypeOK
    /\ part = "signin" => SignIn!TypeOK
    /\ part = "agents" => Claiming!TypeOK
    /\ part = "tracked" => Tracking!TypeOK
    /\ part = "demoted" => Demoted!TypeOK
    /\ part = "planning" => Planning!PlanTypeOK
    /\ part = "panel" => Panel!PlanTypeOK
    /\ part = "hosting" => Hosting!TypeOK
    /\ part = "inviting" => Inviting!TypeOK
    /\ part = "signingup" => SigningUp!TypeOK

(* A visitor is shown nothing that was hidden all the time (PublicShares); *)
(* after a folder was transferred, nothing hidden for another reason than  *)
(* that it lies outside the folder.                                        *)
NothingHiddenIsShown ==
    /\ part = "hidden" => Hidden!NothingHiddenIsShown
    /\ part = "granted" => Granted!NothingHiddenIsShown
    /\ part = "moved" => Moved!HiddenByPlaceOnly

(* Confirmations do not take an account from each other (Integrations).    *)
ConnectsAgree ==
    /\ part = "connecting" => Connecting!ConnectsAgree
    /\ part = "administered" => Administered!ConnectsAgree

(* Appends and changes of title keep the text they follow, and an open     *)
(* read gives a text that was canonical (Integrations).                    *)
TextsAreKept ==
    /\ part = "writing" => Writing!TextsAreKept
    /\ part = "administered" => Administered!TextsAreKept

(* Accepted sessions were opened with the password in force (Accounts).    *)
SessionsFollowPassword == part = "signin" => SignIn!SessionsFollowPassword

(* What is single-use is used once (Accounts).                             *)
HonouredOnce == part = "signin" => SignIn!HonouredOnce

(* A claim is granted only without a rival (Collaboration).                *)
GrantedAlone ==
    /\ part = "agents" => Claiming!GrantedAlone
    /\ part = "demoted" => Demoted!GrantedAlone

(* Nothing unread is left out of an unread list (Collaboration).           *)
NoRevisionMissed ==
    /\ part = "agents" => Claiming!NoRevisionMissed
    /\ part = "tracked" => Tracking!NoRevisionMissed

(* Plans are made final only when they are ready (PlanningWorkflow).       *)
FinalPlansWereReady ==
    /\ part = "planning" => Planning!FinalPlansWereReady
    /\ part = "panel" => Panel!FinalPlansWereReady

(* Workspaces are left or lost only in a race (Workspaces).                *)
OnlyRacesAbandon ==
    /\ part = "hosting" => Hosting!OnlyRacesAbandon
    /\ part = "inviting" => Inviting!OnlyRacesAbandon
    /\ part = "signingup" => SigningUp!OnlyRacesAbandon

(* Sign-ins, groups and hosts agree with each other (Workspaces).          *)
TablesAgree ==
    /\ part = "hosting" => Hosting!TablesAgree
    /\ part = "inviting" => Inviting!TablesAgree
    /\ part = "signingup" => SigningUp!TablesAgree

(* Section and decision edits leave the rest of a text as it is, and the   *)
(* difference shown of two texts gives both back (MarkdownText).           *)
EditsStayInPlace ==
    [][/\ part = "sections" => Sections!StayInPlace
       /\ part = "texts" => Texts!DiffIsFaithful]_<<text, edits>>
=============================================================================
