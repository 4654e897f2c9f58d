------------------------------ MODULE Accounts ------------------------------
(***************************************************************************)
(* The credentials of accounts: passwords and the cookies sealed with a    *)
(* session version, the one-time codes sent by mail (password reset, email *)
(* verification, account deletion), API tokens, and the pairing of a       *)
(* device by a short code, with the plugin that polls for its token.       *)
(*                                                                         *)
(* A handler authenticates, reads, works (argon2 takes its time) and       *)
(* writes in separate steps; a conditional UPDATE and a locked row are one *)
(* step each. A code's row is gone from the model only with its account.   *)
(***************************************************************************)
EXTENDS Naturals, FiniteSets

CONSTANTS
    Users, Requests,
    Codes,          \* the rows of the three one-time code tables
    Devices,        \* the rows of DeviceAuthRequest
    MaxPasswords,   \* bound on the passwords an account goes through
    Ops             \* the operations of an instance

Kinds == {"reset", "verify", "delete"}

VARIABLES
    account,    \* [live, password, version, verified]
    cookie,     \* the session cookies issued: [user, version, password]
    code,       \* [user, kind, used, expired], or Unsent
    token,      \* API tokens: [user, revoked] by the request or device that made them
    device,     \* [status, user, expired]
    plugin,     \* what the plugin that started each pairing knows of it
    request,    \* the handlers under way
    spent,      \* how many times each code was honoured
    granted     \* the tokens each pairing was given, with their owners

vars == <<account, cookie, code, token, device, plugin, request, spent, granted>>

Unsent == [user |-> "none", kind |-> "none", used |-> TRUE, expired |-> TRUE]
NoToken == [user |-> "none", revoked |-> TRUE]
Idle == [at |-> "idle", op |-> "none", user |-> "none", typed |-> 0, password |-> 0,
         version |-> 0, code |-> "none", kind |-> "none"]

(* openSession and the comparison with User.sessionVersion.                *)
Valid(c) == account[c.user].live /\ c.version = account[c.user].version

SignedIn(u) == \E c \in cookie : c.user = u /\ Valid(c)

-----------------------------------------------------------------------------
Init ==
    /\ account = [u \in Users |-> [live |-> TRUE, password |-> 1, version |-> 0,
                                   verified |-> FALSE]]
    /\ cookie = {[user |-> u, version |-> 0, password |-> 1] : u \in Users}
    /\ code = [k \in Codes |-> Unsent]
    /\ token = [t \in Requests \cup Devices |-> NoToken]
    /\ device = [d \in Devices |-> [status |-> "none", user |-> "none", expired |-> FALSE]]
    /\ plugin = [d \in Devices |-> "none"]
    /\ request = [r \in Requests |-> Idle]
    /\ spent = [k \in Codes |-> 0]
    /\ granted = [d \in Devices |-> {}]

At(r, at) == request[r].at = at
Goto(r, at) == request' = [request EXCEPT ![r].at = at]
Begin(r, op, u) == [Idle EXCEPT !.at = op, !.op = op, !.user = u]

pairing == <<device, plugin, granted>>

(* POST /api/auth/login: the row is read once, with its hash and its       *)
(* version.                                                                *)
BeginLogin(r, u, typed) ==
    /\ At(r, "idle") /\ "login" \in Ops /\ account[u].live
    /\ request' = [request EXCEPT ![r] =
         [Begin(r, "login", u) EXCEPT !.typed = typed, !.password = account[u].password,
                                      !.version = account[u].version]]
    /\ UNCHANGED <<account, cookie, code, token, spent, pairing>>

(* A bug: the version sealed is read when the cookie is, not with the hash. *)
LoginLate(r) ==
    LET q == request[r] IN
    /\ At(r, "login")
    /\ cookie' = cookie \cup IF q.typed # q.password THEN {}
                             ELSE {[user |-> q.user, version |-> account[q.user].version,
                                    password |-> q.typed]}
    /\ Goto(r, "done")
    /\ UNCHANGED <<account, code, token, spent, pairing>>

Login(r) ==
    LET q == request[r] IN
    /\ At(r, "login")
    /\ cookie' = cookie \cup IF q.typed # q.password THEN {}
                             ELSE {[user |-> q.user, version |-> q.version, password |-> q.typed]}
    /\ Goto(r, "done")
    /\ UNCHANGED <<account, code, token, spent, pairing>>

(* The handlers that ask for a session first: requireAuth.                 *)
Authenticate(r, op, u) ==
    /\ At(r, "idle") /\ op \in Ops /\ SignedIn(u)
    /\ request' = [request EXCEPT ![r] = Begin(r, op, u)]
    /\ UNCHANGED <<account, cookie, code, token, spent, pairing>>

(* POST /api/auth/change-password: the hash is read and verified, and the  *)
(* new one written with the next version, whatever the hash is by then.    *)
VerifyPassword(r, typed) ==
    LET u == request[r].user IN
    /\ At(r, "change") /\ account[u].live
    /\ request' = [request EXCEPT ![r].typed = typed,
                     ![r].at = IF typed = account[u].password THEN "replace" ELSE "done"]
    /\ UNCHANGED <<account, cookie, code, token, spent, pairing>>

ChangePassword(r, p) ==
    LET u == request[r].user IN
    /\ At(r, "replace") /\ account[u].live
    /\ account' = [account EXCEPT ![u].password = p, ![u].version = @ + 1]
    /\ cookie' = cookie \cup {[user |-> u, version |-> account[u].version + 1, password |-> p]}
    /\ Goto(r, "done")
    /\ UNCHANGED <<code, token, spent, pairing>>

-----------------------------------------------------------------------------
(* One-time codes. A request for one retires those of its kind that are    *)
(* open and sends another; for reset and verification these are two        *)
(* writes, for account deletion one transaction.                           *)
BeginSend(r, u, kind) ==
    /\ At(r, "idle") /\ kind \in Ops /\ account[u].live
    /\ kind = "reset" \/ SignedIn(u)
    /\ kind = "verify" => ~account[u].verified
    /\ request' = [request EXCEPT ![r] = [Begin(r, "send", u) EXCEPT !.kind = kind]]
    /\ UNCHANGED <<account, cookie, code, token, spent, pairing>>

Retired(u, kind) ==
    [k \in Codes |-> IF code[k].user = u /\ code[k].kind = kind
                     THEN [code[k] EXCEPT !.used = TRUE] ELSE code[k]]

RetireCodes(r) ==
    LET q == request[r] IN
    /\ At(r, "send") /\ q.kind # "delete"
    /\ code' = Retired(q.user, q.kind)
    /\ Goto(r, "issue")
    /\ UNCHANGED <<account, cookie, token, spent, pairing>>

IssueCode(r, k) ==
    LET q == request[r] IN
    /\ At(r, IF q.kind = "delete" THEN "send" ELSE "issue")
    /\ account[q.user].live /\ code[k] = Unsent
    /\ code' = [(IF q.kind = "delete" THEN Retired(q.user, q.kind) ELSE code) EXCEPT
                  ![k] = [user |-> q.user, kind |-> q.kind, used |-> FALSE, expired |-> FALSE]]
    /\ Goto(r, "done")
    /\ UNCHANGED <<account, cookie, token, spent, pairing>>

Usable(k) == ~code[k].used /\ ~code[k].expired

(* POST reset-password and verify-email read the code's row first; DELETE  *)
(* /api/account claims it at once.                                         *)
ReadCode(r, k) ==
    LET kind == code[k].kind IN
    /\ At(r, "idle") /\ code[k] # Unsent
    /\ Usable(k) \/ kind = "delete"
    /\ kind = "delete" => SignedIn(code[k].user)
    /\ request' = [request EXCEPT ![r] =
         [Begin(r, "claim", code[k].user) EXCEPT !.code = k, !.kind = kind]]
    /\ UNCHANGED <<account, cookie, code, token, spent, pairing>>

(* The conditional update that claims the code, and the answer when it     *)
(* changed no row.                                                         *)
ClaimableAsRead(r) == At(r, "claim")
Claimable(r) == At(r, "claim") /\ Usable(request[r].code)

(* A reset is one transaction: the claim, the hash, the next version, and  *)
(* every token revoked.                                                    *)
ResetPassword(r, p) ==
    LET q == request[r] IN
    /\ Claimable(r) /\ q.kind = "reset"
    /\ code' = [code EXCEPT ![q.code].used = TRUE]
    /\ spent' = [spent EXCEPT ![q.code] = @ + 1]
    /\ account' = [account EXCEPT ![q.user].password = p, ![q.user].version = @ + 1]
    /\ token' = [t \in DOMAIN token |-> IF token[t].user = q.user
                                        THEN [token[t] EXCEPT !.revoked = TRUE] ELSE token[t]]
    /\ Goto(r, "done")
    /\ UNCHANGED <<cookie, pairing>>

VerifyEmail(r) ==
    LET q == request[r] IN
    /\ Claimable(r) /\ q.kind = "verify"
    /\ code' = [code EXCEPT ![q.code].used = TRUE]
    /\ spent' = [spent EXCEPT ![q.code] = @ + 1]
    /\ account' = [account EXCEPT ![q.user].verified = TRUE]
    /\ Goto(r, "done")
    /\ UNCHANGED <<cookie, token, pairing>>

ClaimDeletion(r) ==
    LET q == request[r] IN
    /\ Claimable(r) /\ q.kind = "delete"
    /\ code' = [code EXCEPT ![q.code].used = TRUE]
    /\ spent' = [spent EXCEPT ![q.code] = @ + 1]
    /\ Goto(r, "erase")
    /\ UNCHANGED <<account, cookie, token, pairing>>

RefuseCode(r) ==
    /\ At(r, "claim") /\ ~Usable(request[r].code)
    /\ Goto(r, "done")
    /\ UNCHANGED <<account, cookie, code, token, spent, pairing>>

(* deleteAccountAndData: the pairings and codes of the account are deleted *)
(* by name, its tokens with the row.                                       *)
DeleteAccount(r) ==
    LET u == request[r].user IN
    /\ At(r, "erase")
    /\ IF account[u].live
       THEN /\ account' = [account EXCEPT ![u].live = FALSE]
            /\ token' = [t \in DOMAIN token |-> IF token[t].user = u THEN NoToken ELSE token[t]]
            /\ device' = [d \in Devices |-> IF device[d].user = u
                                            THEN [device[d] EXCEPT !.status = "deleted"]
                                            ELSE device[d]]
            /\ code' = [k \in Codes |-> IF code[k].user = u
                                        THEN [code[k] EXCEPT !.used = TRUE] ELSE code[k]]
       ELSE UNCHANGED <<account, token, device, code>>
    /\ Goto(r, "done")
    /\ UNCHANGED <<cookie, spent, plugin, granted>>

ExpireCode(k) ==
    /\ ~code[k].expired /\ "expire" \in Ops
    /\ code' = [code EXCEPT ![k].expired = TRUE]
    /\ UNCHANGED <<account, cookie, token, request, spent, pairing>>

-----------------------------------------------------------------------------
(* API tokens: POST /api/tokens and .../revoke.                            *)
CreateToken(r) ==
    LET u == request[r].user IN
    /\ At(r, "token") /\ account[u].live
    /\ token' = [token EXCEPT ![r] = [user |-> u, revoked |-> FALSE]]
    /\ Goto(r, "done")
    /\ UNCHANGED <<account, cookie, code, spent, pairing>>

RevokeToken(r, t) ==
    /\ At(r, "revoke") /\ token[t].user = request[r].user
    /\ token' = [token EXCEPT ![t].revoked = TRUE]
    /\ Goto(r, "done")
    /\ UNCHANGED <<account, cookie, code, spent, pairing>>

(* A handler whose account is gone ends without a write.                   *)
GiveUp(r) ==
    /\ request[r].at \notin {"idle", "done", "erase"}
    /\ ~account[request[r].user].live
    /\ Goto(r, "done")
    /\ UNCHANGED <<account, cookie, code, token, spent, pairing>>

-----------------------------------------------------------------------------
(* Pairing a device. The plugin starts one, shows its short code, and      *)
(* polls until the answer is not "pending".                                *)
StartDevice(d) ==
    /\ plugin[d] = "none" /\ "device" \in Ops
    /\ device' = [device EXCEPT ![d].status = "pending"]
    /\ plugin' = [plugin EXCEPT ![d] = "polling"]
    /\ UNCHANGED <<account, cookie, code, token, request, spent, granted>>

(* POST /api/auth/device/approve: one conditional update.                  *)
Pending(d) == device[d].status = "pending" /\ ~device[d].expired

AnswerDevice(r, d, status) ==
    /\ At(r, "approve") /\ Pending(d)
    /\ device' = [device EXCEPT ![d].status = status,
                                ![d].user = IF status = "approved" THEN request[r].user ELSE @]
    /\ Goto(r, "done")
    /\ UNCHANGED <<account, cookie, code, token, spent, plugin, granted>>

(* POST /api/auth/device/poll: the row is read; an approved one is then    *)
(* locked, read again, and its token created.                              *)
Poll(d) ==
    /\ plugin[d] = "polling"
    /\ device[d].status # "pending" \/ device[d].expired
    /\ plugin' = [plugin EXCEPT ![d] =
         IF device[d].status = "approved" /\ ~device[d].expired THEN "minting" ELSE "ended"]
    /\ UNCHANGED <<account, cookie, code, token, device, request, spent, granted>>

(* A second poll of the same code, sent by "Check now" while the first is  *)
(* under way, or after its answer was lost.                                *)
PollAgain(d) ==
    /\ plugin[d] = "minting" /\ device[d].status = "approved" /\ ~device[d].expired
    /\ plugin' = [plugin EXCEPT ![d] = "minting twice"]
    /\ UNCHANGED <<account, cookie, code, token, device, request, spent, granted>>

ApprovedWhenRead(d) == device[d].user # "none"
StillApproved(d) == device[d].status = "approved"

MintToken(d) ==
    LET u == device[d].user
        twice == plugin[d] = "minting twice" IN
    /\ plugin[d] \in {"minting", "minting twice"}
    /\ IF StillApproved(d)
       THEN /\ token' = [token EXCEPT ![d] = [user |-> u, revoked |-> FALSE]]
            /\ device' = [device EXCEPT ![d].status = "consumed"]
            /\ granted' = [granted EXCEPT ![d] = @ \cup {<<u, Cardinality(@)>>}]
       ELSE UNCHANGED <<token, device, granted>>
    /\ plugin' = [plugin EXCEPT ![d] = IF twice THEN "minting" ELSE "ended"]
    /\ UNCHANGED <<account, cookie, code, request, spent>>

ExpireDevice(d) ==
    /\ device[d].status # "none" /\ ~device[d].expired /\ "expire" \in Ops
    /\ device' = [device EXCEPT ![d].expired = TRUE]
    /\ UNCHANGED <<account, cookie, code, token, plugin, request, spent, granted>>

(* cleanupDeviceRequests: a poll that comes after it answers "expired".    *)
CleanupDevice(d) ==
    /\ device[d].expired \/ device[d].status \in {"consumed", "denied"}
    /\ device[d].status \notin {"none", "deleted"}
    /\ device' = [device EXCEPT ![d].status = "deleted"]
    /\ UNCHANGED <<account, cookie, code, token, plugin, request, spent, granted>>

-----------------------------------------------------------------------------
Next ==
    \/ \E r \in Requests :
         \/ \E u \in Users, p \in 1..MaxPasswords : BeginLogin(r, u, p)
         \/ Login(r)
         \/ \E u \in Users, op \in {"change", "token", "revoke", "approve"} : Authenticate(r, op, u)
         \/ \E p \in 1..MaxPasswords : VerifyPassword(r, p) \/ ChangePassword(r, p)
         \/ \E u \in Users, kind \in Kinds : BeginSend(r, u, kind)
         \/ RetireCodes(r)
         \/ \E k \in Codes : IssueCode(r, k) \/ ReadCode(r, k)
         \/ \E p \in 1..MaxPasswords : ResetPassword(r, p)
         \/ VerifyEmail(r) \/ ClaimDeletion(r) \/ RefuseCode(r) \/ DeleteAccount(r)
         \/ CreateToken(r) \/ GiveUp(r)
         \/ \E t \in DOMAIN token : RevokeToken(r, t)
         \/ \E d \in Devices, s \in {"approved", "denied"} : AnswerDevice(r, d, s)
    \/ \E k \in Codes : ExpireCode(k)
    \/ \E d \in Devices : \/ StartDevice(d) \/ Poll(d) \/ PollAgain(d) \/ MintToken(d)
                          \/ ExpireDevice(d) \/ CleanupDevice(d)

Spec == Init /\ [][Next]_vars

-----------------------------------------------------------------------------
(* Properties.                                                             *)

(* Types of the state; a request's cookie carries the password shown for it. *)
TypeOK ==
    /\ account \in [Users -> [live : BOOLEAN, password : 1..MaxPasswords, version : Nat,
                             verified : BOOLEAN]]
    /\ cookie \subseteq [user : Users, version : Nat, password : 1..MaxPasswords]
    /\ code \in [Codes -> {Unsent} \cup [user : Users, kind : Kinds, used : BOOLEAN,
                                         expired : BOOLEAN]]
    /\ \A d \in Devices : granted[d] \subseteq Users \X Nat

(* A session that is accepted was opened with the password the account has *)
(* now: logins, changes and resets that overlap never leave a cookie of an *)
(* older password in force (User.sessionVersion).                          *)
SessionsFollowPassword ==
    \A c \in cookie : Valid(c) => c.password = account[c.user].password

(* What is single-use is used once, however the requests overlap: a reset  *)
(* link, a verification link and a deletion code are honoured once, and a  *)
(* device code gives one token.                                            *)
HonouredOnce ==
    /\ \A k \in Codes : spent[k] <= 1
    /\ \A d \in Devices : Cardinality(granted[d]) <= 1
=============================================================================
