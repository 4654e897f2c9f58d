------------------------- MODULE VersionedDocument -------------------------
(***************************************************************************)
(* What the document API promises its clients (the web editor, the         *)
(* Obsidian plugin and the agents behind the MCP endpoint): a document is   *)
(* an append-only list of versions.  A client that edits says which        *)
(* version its edit replaces; the edit is appended only if that version is *)
(* still the last one, and is refused with "conflict" only if it is not.   *)
(* DocumentWrite, the model of the code, is shown to implement this module.*)
(***************************************************************************)
EXTENDS Naturals, Sequences

CONSTANTS
    Clients,    \* one per request
    Contents,   \* what a version can hold
    AnyVersion  \* base of a client that replaces whatever is there (restore)

(* Base of a client that has not said what it replaces.                    *)
Unsaid == 0

VARIABLES
    hist,      \* the versions, oldest first
    alive,     \* FALSE once the document is deleted
    want,      \* the version each client wants to replace
    answer     \* what each client was told

vars == <<hist, alive, want, answer>>

NoAnswer == <<"none", 0>>

Init ==
    /\ hist \in {<<c>> : c \in Contents}
    /\ alive = TRUE
    /\ want = [c \in Clients |-> Unsaid]
    /\ answer = [c \in Clients |-> NoAnswer]

Tell(c, what, version) ==
    /\ answer[c] = NoAnswer
    /\ answer' = [answer EXCEPT ![c] = <<what, version>>]

(* A client names the version it replaces, among those that exist.         *)
Ask(c) ==
    /\ want[c] = Unsaid
    /\ answer[c] = NoAnswer
    /\ \E base \in DOMAIN hist \cup {AnyVersion} :
          want' = [want EXCEPT ![c] = base]
    /\ UNCHANGED <<hist, alive, answer>>

(* The edit replaces the last version: it becomes the new last version.    *)
Save(c) ==
    /\ alive
    /\ want[c] \in {Len(hist), AnyVersion}
    /\ \E content \in Contents : hist' = Append(hist, content)
    /\ Tell(c, "saved", Len(hist) + 1)
    /\ UNCHANGED <<alive, want>>

(* The document already says what the client wants it to say.              *)
Keep(c) ==
    /\ Tell(c, "kept", 0)
    /\ UNCHANGED <<hist, alive, want>>

(* The version the client replaces is not the last one any more.           *)
Conflict(c) ==
    /\ want[c] \in DOMAIN hist \ {Len(hist)}
    /\ Tell(c, "conflict", 0)
    /\ UNCHANGED <<hist, alive, want>>

(* Refused for another reason: role, status, deleted document, failure.    *)
Refuse(c) ==
    /\ Tell(c, "refused", 0)
    /\ UNCHANGED <<hist, alive, want>>

Delete(c) ==
    /\ alive
    /\ alive' = FALSE
    /\ Tell(c, "deleted", 0)
    /\ UNCHANGED <<hist, want>>

Next ==
    \E c \in Clients :
        Ask(c) \/ Save(c) \/ Keep(c) \/ Conflict(c) \/ Refuse(c) \/ Delete(c)

Spec == Init /\ [][Next]_vars
=============================================================================
