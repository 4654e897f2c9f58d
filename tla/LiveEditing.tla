---------------------------- MODULE LiveEditing ----------------------------
(***************************************************************************)
(* Editors of one document: the web editor with its draft, the same editor *)
(* in live mode, and the live view of the Obsidian plugin.                 *)
(*                                                                         *)
(* Live editors share a room, a Yjs document in the server's memory that   *)
(* merges what each of them inserts; the room is never saved by the        *)
(* server, and never emptied while it runs.  Every editor saves by itself, *)
(* through the ordinary write of a document, with the version its text is  *)
(* based on.  A text is the set of the edits in it; deletions within a     *)
(* text are left out.                                                      *)
(***************************************************************************)
EXTENDS Naturals, FiniteSets

CONSTANTS
    Edits,        \* what is typed, each edit once
    Web,          \* the web editors
    Plugin,       \* the plugin's live views
    LiveWeb,      \* BOOLEAN: whether the web editors go live in an instance
    OthersWrite,  \* whether revisions come from elsewhere: agents, syncs
    Faults,       \* whether saves fail and the server restarts
    MaxVersion    \* no text is typed and no editor opened at this version

Clients == Web \cup Plugin

VARIABLES
    version,      \* the number of the document's current version
    content,      \* and its text
    kept,         \* the edits some version has, or had
    room,         \* the text of the room's Y.Doc
    unused,       \* the edits nobody has typed yet
    client        \* what each editor holds

vars == <<version, content, kept, room, unused, client>>

Closed == [mode |-> "closed", synced |-> FALSE, wasLive |-> FALSE, due |-> FALSE,
           buffer |-> {}, base |-> 0, initial |-> {}, conflict |-> FALSE,
           save |-> "idle", sent |-> {}]

Init ==
    /\ version = 1 /\ content = {} /\ kept = {}
    /\ room = {}
    /\ unused = Edits
    /\ client = [c \in Clients |-> Closed]

Live(c) == client[c].mode = "live"
Dirty(c) == client[c].buffer # client[c].initial
Saving(c) == client[c].save # "idle"
Becomes(c, rec) == client' = [client EXCEPT ![c] = rec]
MayBegin == version < MaxVersion

-----------------------------------------------------------------------------
(* Opening, going live, leaving.                                           *)

(* The plugin's view loads the document and connects at once; its editor   *)
(* is empty until the room is synced.                                      *)
Open(c) ==
    /\ MayBegin /\ client[c].mode = "closed"
    /\ Becomes(c, [Closed EXCEPT !.base = version, !.initial = content, !.buffer = content,
                                 !.mode = IF c \in Web THEN "open" ELSE "live",
                                 !.wasLive = c \in Plugin])
    /\ UNCHANGED <<version, content, kept, room, unused>>

GoLive(c) ==
    /\ LiveWeb /\ MayBegin /\ client[c].mode = "open"
    /\ Becomes(c, [client[c] EXCEPT !.mode = "live", !.synced = FALSE, !.wasLive = TRUE])
    /\ UNCHANGED <<version, content, kept, room, unused>>

(* The first sync: an empty room is filled with the draft, or else the     *)
(* room's text takes the draft's place.                                    *)
SeedOrJoin(c) ==
    /\ Live(c) /\ ~client[c].synced
    /\ LET text == IF room = {} THEN client[c].buffer ELSE room
       IN  /\ room' = text
           /\ Becomes(c, [client[c] EXCEPT !.synced = TRUE, !.buffer = text,
                                           !.due = text # client[c].initial])
    /\ UNCHANGED <<version, content, kept, unused>>

LeaveLive(c) ==
    /\ c \in Web /\ Live(c)
    /\ Becomes(c, [client[c] EXCEPT !.mode = "open", !.synced = FALSE])
    /\ UNCHANGED <<version, content, kept, room, unused>>

Close(c) ==
    /\ client[c].mode # "closed" /\ Becomes(c, Closed)
    /\ UNCHANGED <<version, content, kept, room, unused>>

-----------------------------------------------------------------------------
(* Typing, and what the room merges.                                       *)

Type(c) ==
    /\ MayBegin
    /\ client[c].mode = "open" \/ client[c].synced
    /\ \E e \in unused :
         /\ unused' = unused \ {e}
         /\ Becomes(c, [client[c] EXCEPT !.buffer = @ \cup {e}, !.due = TRUE])
    /\ UNCHANGED <<version, content, kept, room>>

Upload(c) ==
    /\ client[c].synced /\ ~(client[c].buffer \subseteq room)
    /\ room' = room \cup client[c].buffer
    /\ UNCHANGED <<version, content, kept, unused, client>>

Receive(c) ==
    /\ client[c].synced /\ ~(room \subseteq client[c].buffer)
    /\ Becomes(c, [client[c] EXCEPT !.buffer = @ \cup room, !.due = TRUE])
    /\ UNCHANGED <<version, content, kept, room, unused>>

-----------------------------------------------------------------------------
(* Saving.                                                                 *)

(* The web editor saves when its user asks, in live mode a while after a   *)
(* change; the plugin's view when a change has scheduled it.               *)
BeginSave(c) ==
    /\ client[c].mode # "closed" /\ ~Saving(c) /\ Dirty(c)
    /\ c \in Plugin => client[c].due /\ client[c].synced
    /\ Becomes(c, [client[c] EXCEPT !.save = "send", !.sent = client[c].buffer, !.due = FALSE])
    /\ UNCHANGED <<version, content, kept, room, unused>>

(* PUT /documents/:id on the current version; the same text makes no new.  *)
Written(c) ==
    /\ content' = client[c].sent
    /\ kept' = kept \cup content'
    /\ version' = IF content' = content THEN version ELSE version + 1

(* After a successful save the draft is based on the version it made.      *)
Committed(c) ==
    Becomes(c, [client[c] EXCEPT !.base = version', !.initial = client[c].sent,
                                 !.conflict = FALSE, !.save = "idle", !.sent = {}])

Refused(c) == Becomes(c, [client[c] EXCEPT !.conflict = TRUE, !.save = "idle", !.sent = {}])

(* Mutants: any editor takes the version it was told for its base, as the  *)
(* plugin does; a draft that met a conflict counts as saved.               *)
ConflictedOverwrites(c) ==
    Becomes(c, [client[c] EXCEPT !.base = version, !.save = "idle", !.sent = {}])

ConflictedForgets(c) ==
    Becomes(c, [client[c] EXCEPT !.conflict = TRUE, !.initial = client[c].sent,
                                 !.save = "idle", !.sent = {}])

(* A conflict stops an ordinary save; a live one fetches the document and  *)
(* sends the text again; the plugin takes the version it was told and      *)
(* sends what its editor has by then.                                      *)
Conflicted(c) ==
    CASE c \in Plugin ->
           IF client[c].buffer = client[c].initial
           THEN Becomes(c, [client[c] EXCEPT !.base = version, !.save = "idle", !.sent = {}])
           ELSE Becomes(c, [client[c] EXCEPT !.base = version, !.sent = client[c].buffer])
      [] c \notin Plugin /\ Live(c) /\ client[c].save = "send" ->
           Becomes(c, [client[c] EXCEPT !.save = "refetch", !.conflict = TRUE])
      [] OTHER -> Refused(c)

Send(c) ==
    /\ client[c].save \in {"send", "resend"}
    /\ \/ client[c].base = version /\ Written(c) /\ Committed(c)
       \/ client[c].base # version /\ Conflicted(c) /\ UNCHANGED <<version, content, kept>>
    /\ UNCHANGED <<room, unused>>

(* The draft is committed to the version that was fetched, before the      *)
(* captured text is sent again.                                            *)
Refetch(c) ==
    /\ client[c].save = "refetch"
    /\ Becomes(c, [client[c] EXCEPT !.base = version, !.initial = content, !.save = "resend"])
    /\ UNCHANGED <<version, content, kept, room, unused>>

(* "Reload server version (discard mine)", offered with a conflict.        *)
Reload(c) ==
    /\ client[c].mode = "open" /\ client[c].conflict /\ ~Saving(c)
    /\ Becomes(c, [client[c] EXCEPT !.buffer = content, !.initial = content,
                                    !.base = version, !.conflict = FALSE])
    /\ UNCHANGED <<version, content, kept, room, unused>>

-----------------------------------------------------------------------------
(* The others, and failures.                                               *)

OthersRevise ==
    /\ OthersWrite /\ MayBegin
    /\ \E e \in unused : content' = content \cup {e} /\ unused' = unused \ {e}
    /\ version' = version + 1 /\ kept' = kept \cup content'
    /\ UNCHANGED <<room, client>>

(* A save fails, before the server has written or with the reply.          *)
SaveFails(c) ==
    /\ Faults /\ Saving(c)
    /\ \/ UNCHANGED <<version, content, kept>>
       \/ client[c].save # "refetch" /\ client[c].base = version /\ Written(c)
    /\ Becomes(c, [client[c] EXCEPT !.save = "idle", !.sent = {}])
    /\ UNCHANGED <<room, unused>>

(* The rooms are in memory: after a restart the editors fill a new one.    *)
Restart ==
    /\ Faults /\ room # {} /\ room' = {}
    /\ UNCHANGED <<version, content, kept, unused, client>>

-----------------------------------------------------------------------------
LiveStep(c) ==
    \/ SeedOrJoin(c) \/ Upload(c) \/ Receive(c)
    \/ Send(c) \/ Refetch(c)
    \/ Live(c) /\ BeginSave(c)

Disturb ==
    \/ OthersRevise \/ Restart
    \/ \E c \in Clients : \/ Open(c) \/ GoLive(c) \/ LeaveLive(c) \/ Close(c)
                          \/ Type(c) \/ Reload(c) \/ SaveFails(c)
                          \/ ~Live(c) /\ BeginSave(c)

Next == Disturb \/ \E c \in Clients : LiveStep(c)

(* Connected providers sync, requests return and timers of live editors    *)
(* fire: whichever of them is due, something of the editor's goes on.      *)
Fairness == \A c \in Clients : WF_vars(LiveStep(c))

Spec == Init /\ [][Next]_vars
FairSpec == Spec /\ Fairness

-----------------------------------------------------------------------------
(* Properties.                                                             *)

TypeOK ==
    /\ version \in Nat \ {0} /\ content \subseteq kept /\ kept \subseteq Edits
    /\ room \subseteq Edits /\ unused \subseteq Edits
    /\ client \in [Clients ->
         [mode : {"closed", "open", "live"}, synced : BOOLEAN, wasLive : BOOLEAN,
          due : BOOLEAN, buffer : SUBSET Edits, base : 0..version, initial : SUBSET Edits,
          conflict : BOOLEAN, save : {"idle", "send", "refetch", "resend"},
          sent : SUBSET Edits]]

(* What an editor that was never live saves has all the text of the        *)
(* version it replaces: "nothing was overwritten".                         *)
Replaces(c) == Saving(c) /\ client'[c] # client[c] /\ content' # content

OrdinarySavesKeep ==
    [][\A c \in Clients : Replaces(c) /\ ~client[c].wasLive => content \subseteq content']_vars

(* Once nobody disturbs the editors, all that a live web editor shows is   *)
(* in some revision: it merges and autosaves without anyone asking.        *)
ShownIsKept == \A c \in Web : Live(c) => client[c].buffer \subseteq kept
=============================================================================
