----------------------------- MODULE MCClients -----------------------------
(***************************************************************************)
(* The clients that keep copies of their own: a behaviour is one of a note *)
(* that the Obsidian plugin syncs, one of the editors of a document, or    *)
(* one of the attachments of a vault's notes; the others stay as they are, *)
(* with nothing to do.                                                     *)
(***************************************************************************)
EXTENDS ObsidianSync, TLC

CONSTANTS a, b, pass, t1, e1, e2, w1, p1,
          Edits, Web, Plugin

VARIABLES
    version, content, kept, room, unused, client,
    row, linked, binary, refs, entries, frozen, run, changes, author, shared,
    part

Editors == INSTANCE LiveEditing WITH
               LiveWeb <- TRUE, OthersWrite <- TRUE, Faults <- TRUE, MaxVersion <- 3

(* A note of one's own, and one beside a note that may only be read.       *)
Single == INSTANCE AttachmentSync WITH
    Docs <- {1}, Home <- [d \in {1} |-> "folder"], Names <- {"image"}, Contents <- {a, b},
    ReadOnly <- {}, MaxChanges <- 3, file <- binary, meta <- entries
Beside == INSTANCE AttachmentSync WITH
    Docs <- {1, 2}, Home <- [d \in {1, 2} |-> "folder"], Names <- {"image"}, Contents <- {a, b},
    ReadOnly <- {2}, MaxChanges <- 1, file <- binary, meta <- entries

attached == <<row, linked, binary, refs, entries, frozen, run, changes, author, shared>>

live == <<version, content, kept, room, unused, client>>

EmptyVault ==
    /\ history = << >> /\ access = "editor"
    /\ file = Missing /\ sibling = 0 /\ meta = Unlinked /\ seen = {} /\ adopted = 0
    /\ task = [k \in Tasks |-> Idle]

(* A note linked to its document, and one that is not and whose user keeps *)
(* the role.                                                               *)
Vaults == {"vault", "unlinked"}

ClientsInit ==
    /\ part \in Vaults \cup {"editors", "single", "beside"}
    /\ Editors!Init
    /\ IF part \in Vaults THEN Init /\ file = a ELSE EmptyVault
    /\ part = "vault" => meta # Unlinked
    /\ part = "unlinked" => meta = Unlinked
    /\ IF part = "beside" THEN Beside!Init ELSE Single!Init
    /\ \A p \in DOMAIN binary : binary[p] # b                      \* the texts are alike
    /\ part \in Vaults \cup {"editors"} =>
         binary = [p \in Single!Paths |-> Missing] /\ refs = [d \in {1} |-> {}]

ClientsNext ==
    /\ UNCHANGED part
    /\ \/ part \in Vaults /\ Next /\ UNCHANGED <<live, attached>>
          /\ (part = "unlinked" => access' \in {access, "gone"})
       \/ part = "editors" /\ Editors!Next /\ UNCHANGED <<vars, attached>>
       \/ part = "single" /\ Single!Next /\ UNCHANGED <<vars, live>>
       \/ part = "beside" /\ Beside!Next /\ UNCHANGED <<vars, live>>

(* The fairness of each, which has nothing enabled in the other parts.     *)
ClientsFairness ==
    /\ WF_vars(part \in Vaults /\ StartPass)
    /\ WF_vars(part \in Vaults /\ ResolveConflict)
    /\ \A k \in Tasks : WF_vars(part \in Vaults /\ Advance(k))
    /\ \A c \in Web \cup Plugin : WF_live(part = "editors" /\ Editors!LiveStep(c))
    /\ WF_attached(\/ part = "single" /\ Single!Advance
                   \/ part = "beside" /\ Beside!Advance)
    /\ WF_attached(\/ part = "single" /\ Single!Resolve(1)
                   \/ part = "beside" /\ Beside!Resolve(1))
    /\ SF_attached(\/ part = "single" /\ Single!Start(1, "pass")
                   \/ part = "beside" /\ Beside!Start(1, "pass"))
    /\ SF_attached(part = "beside" /\ Beside!Start(2, "pass"))

clientVars == <<vars, live, attached, part>>

ClientsSpec == ClientsInit /\ [][ClientsNext]_clientVars /\ ClientsFairness

Disturbed ==
    \/ part \in Vaults /\ Disturb
    \/ part = "editors" /\ Editors!Disturb
    \/ part = "single" /\ (Single!Disturb \/ Single!Fault)
    \/ part = "beside" /\ (Beside!Disturb \/ Beside!Fault)

(* The types of the first two.                                             *)
ClientsTypeOK == TypeOK /\ Editors!TypeOK

(* LiveEditing: what an editor that was never live saves has all the text  *)
(* it replaces.                                                            *)
OrdinarySavesKeep == Editors!OrdinarySavesKeep

(* AttachmentSync: the plugin deletes an attachment only if the user       *)
(* removed or changed its file, unless two attachments stood for the file. *)
DeletedByChoice ==
    [][/\ part = "single" => Single!DeletesByChoice
       /\ part = "beside" => Beside!DeletesByChoice]_clientVars

(* Left alone, a synced note and its document end up the same, what a live *)
(* editor shows ends up in a revision, and the files of a vault and the    *)
(* attachments of its documents end up the same.                           *)
ClientsSettle ==
    <>[][~Disturbed]_clientVars =>
        <>[](/\ InStep /\ Editors!ShownIsKept
             /\ part = "single" => Single!InStep
             /\ part = "beside" => Beside!InStep)
=============================================================================
