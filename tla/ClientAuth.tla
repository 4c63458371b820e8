------------------------------ MODULE ClientAuth ------------------------------
(***************************************************************************)
(* The session a browser keeps for a remote account (features/sync/auth.ts) *)
(* and the members dialog that works with it (RemoteMembersDialog.tsx over  *)
(* api.ts).  The tabs share localStorage, a tab has its own sessionStorage; *)
(* a token signed out is revoked at the server or waits in that storage.    *)
(***************************************************************************)
EXTENDS Naturals, Sequences, FiniteSets

CONSTANTS
    Tab,           \* the tabs of one browser
    Person,        \* whom the graph may be shared with
    MaxTokens,     \* bound: sign-ins
    MaxActs,       \* bound: steps the reader and the browser start
    MaxFaults      \* bound: requests or answers lost

Store == Tab \cup {"local"}
Role == {"none", "editor", "viewer"}
Nobody == [p \in Person |-> "none"]

VARIABLES
    held,          \* the token in each storage, or 0
    due,           \* the revocations that wait in each storage
    asked,         \* sign-outs whose answer is out: [token, store]
    retry,         \* the retryRevocations of each tab: see Retry
    validating,    \* the tokens each tab asks the server about
    dialog,        \* the members dialog of each tab: see Dialog
    server,        \* tokens issued, those accepted, those of the connection's account, the roles
    expired,       \* tokens past their expiry
    acts, faults,
    signedOut,     \* history: tokens signOut was called for
    overwritten,   \* history: revocations a retry replaced without having read them
    elsewhere      \* history: tabs whose list another tab has outdated

vars == <<held, due, asked, retry, validating, dialog, server, expired, acts, faults, signedOut, overwritten, elsewhere>>

\* The loop of a retry: the storage it is at, the revocations it read there, those still
\* to be asked and those that failed again.
NoRetry == [store |-> "none", pending |-> <<>>, rest |-> <<>>, left |-> <<>>]
Retry(s) == [store |-> s, pending |-> due[s], rest |-> due[s], left |-> <<>>]

\* A request of the dialog: its kind, its token, what it asks and the answer on its way.
NoCall == [kind |-> "none", token |-> 0, who |-> "", as |-> "none", reply |-> "", list |-> Nobody]
Call(kind, token) == [NoCall EXCEPT !.kind = kind, !.token = token]
Dialog == [open |-> FALSE, members |-> Nobody, request |-> "idle", needsSignIn |-> FALSE, call |-> NoCall]

TypeOK ==
    /\ held \in [Store -> 0..MaxTokens]
    /\ \A s \in Store : \A i \in DOMAIN due[s] : due[s][i] \in server.issued
    /\ server.accepts \subseteq server.issued /\ server.issued \subseteq 1..MaxTokens
    /\ \A t \in Tab : dialog[t].request \in {"idle", "busy", "failed"} /\ dialog[t].members \in [Person -> Role]
-----------------------------------------------------------------------------
(* The two storages.                                                       *)

\* An entry past its expiry is removed by the read that meets it, and the tab's own
\* storage is read first.
usable(s) == held[s] # 0 /\ held[s] \notin expired
keptIn(t) == IF usable(t) THEN t ELSE "local"
readAuthSession(t) == IF usable(keptIn(t)) THEN held[keptIn(t)] ELSE 0
swept(t) == [s \in Store |-> IF s \in {t, keptIn(t)} /\ ~usable(s) THEN 0 ELSE held[s]]

writeAuthSession(t, persistent, token) ==
    IF persistent THEN [held EXCEPT ![t] = 0, !["local"] = token] ELSE [held EXCEPT ![t] = token, !["local"] = 0]
clearAuthSession(t) == [held EXCEPT ![t] = 0, !["local"] = 0]

Acts == acts < MaxActs /\ acts' = acts + 1
Faults(lost) == IF lost THEN faults < MaxFaults /\ faults' = faults + 1 ELSE faults' = faults
-----------------------------------------------------------------------------
(* Signing in and out.                                                     *)

\* The server's session for a password: of the connection's account, or of another one
\* that the user name belongs to by now.
Issue(mine) ==
    \E token \in 1..MaxTokens \ server.issued :
        server' = [server EXCEPT !.issued = @ \cup {token}, !.accepts = @ \cup {token}, !.mine = IF mine THEN @ \cup {token} ELSE @]
newest(s) == CHOOSE token \in s.issued : token \notin server.issued

\* signOut: the session is gone here at once and the server is asked to revoke it.
SignsOut(token, s) ==
    /\ asked' = asked \cup {[token |-> token, store |-> s]}
    /\ signedOut' = signedOut \cup {token}
signOut(t) ==
    /\ Acts /\ held' = clearAuthSession(t)
    /\ IF readAuthSession(t) = 0 THEN UNCHANGED <<asked, signedOut>> ELSE SignsOut(readAuthSession(t), keptIn(t))
    /\ UNCHANGED <<due, retry, validating, dialog, server, expired, faults, overwritten, elsewhere>>

\* The picker's sign-in; a session of another account is signed out again.
signIn(t, persistent, mine) ==
    /\ Acts /\ Issue(mine)
    /\ IF mine THEN held' = writeAuthSession(t, persistent, newest(server')) /\ UNCHANGED <<asked, signedOut>>
       ELSE held' = clearAuthSession(t) /\ SignsOut(newest(server'), IF persistent THEN "local" ELSE t)
    /\ UNCHANGED <<due, retry, validating, dialog, expired, faults, overwritten, elsewhere>>

\* The server revokes a token it accepts; the answer may be lost, or the request with it.
Revokes(token, arrives) ==
    server' = IF arrives THEN [server EXCEPT !.accepts = @ \ {token}] ELSE server

\* Whether the server no longer accepts the token, as far as the browser knows.
revokeTakingAnyAnswer(lost) == TRUE
revoke(lost) == ~lost

\* Offline, the revocation waits in the storage the session lived in.
signOutAnswered(call, arrives, lost) ==
    /\ call \in asked /\ (arrives \/ lost) /\ Faults(lost) /\ Revokes(call.token, arrives)
    /\ asked' = asked \ {call}
    /\ due' = IF revoke(lost) THEN due ELSE [due EXCEPT ![call.store] = Append(@, call.token)]
    /\ UNCHANGED <<held, retry, validating, dialog, expired, acts, signedOut, overwritten, elsewhere>>
-----------------------------------------------------------------------------
(* Asking again for every revocation that waits: localStorage first, then   *)
(* sessionStorage.  A retry writes back what failed again of what it read.  *)

following(t, s) == IF s = "none" /\ due["local"] # <<>> THEN "local" ELSE IF s # t /\ due[t] # <<>> THEN t ELSE "none"
Turns(t, s) == IF following(t, s) = "none" THEN NoRetry ELSE Retry(following(t, s))

\* When the module loads and whenever the browser is online again.  Bound: one at a time
\* in a tab.
retryRevocations(t) ==
    /\ Acts /\ retry[t].store = "none" /\ following(t, "none") # "none"
    /\ retry' = [retry EXCEPT ![t] = Turns(t, "none")]
    /\ UNCHANGED <<held, due, asked, validating, dialog, server, expired, faults, signedOut, overwritten, elsewhere>>

Elements(s) == {s[i] : i \in DOMAIN s}
retryAnswered(t, arrives, lost) ==
    LET r == retry[t]
        left == IF revoke(lost) THEN r.left ELSE Append(r.left, Head(r.rest))
    IN  /\ r.rest # <<>> /\ (arrives \/ lost) /\ Faults(lost) /\ Revokes(Head(r.rest), arrives)
        /\ IF Len(r.rest) > 1
           THEN retry' = [retry EXCEPT ![t].rest = Tail(@), ![t].left = left] /\ UNCHANGED <<due, overwritten>>
           ELSE /\ due' = [due EXCEPT ![r.store] = left]
                /\ overwritten' = overwritten \cup (Elements(due[r.store]) \ Elements(r.pending))
                /\ retry' = [retry EXCEPT ![t] = Turns(t, r.store)]
        /\ UNCHANGED <<held, asked, validating, dialog, expired, acts, signedOut, elsewhere>>
-----------------------------------------------------------------------------
(* The sync agent confirms a remembered session before it connects.        *)

validateAuthSession(t) ==
    /\ Acts /\ held' = swept(t)
    /\ validating' = IF readAuthSession(t) # 0 /\ keptIn(t) = "local" THEN [validating EXCEPT ![t] = @ \cup {readAuthSession(t)}] ELSE validating
    /\ UNCHANGED <<due, asked, retry, dialog, server, expired, faults, signedOut, overwritten, elsewhere>>

\* Only a rejection or another account removes the session; a lost answer keeps it.
validated(t, token, lost) ==
    /\ token \in validating[t] /\ Faults(lost)
    /\ validating' = [validating EXCEPT ![t] = @ \ {token}]
    /\ held' = IF ~lost /\ token \notin server.accepts \cap server.mine THEN clearAuthSession(t) ELSE held
    /\ UNCHANGED <<due, asked, retry, dialog, server, expired, acts, signedOut, overwritten, elsewhere>>
-----------------------------------------------------------------------------
(* The members dialog: one request at a time, its controls off while busy.  *)

busy(t) == dialog[t].request = "busy"
Shows(t, d) == dialog' = [dialog EXCEPT ![t] = d]
storagesOnly == UNCHANGED <<due, asked, retry, validating, expired, signedOut, overwritten>>

\* The list is asked for with the session given, or the password is.
refresh(d, token) ==
    IF token = 0 THEN [d EXCEPT !.needsSignIn = TRUE, !.call = NoCall]
    ELSE [d EXCEPT !.request = "busy", !.call = Call("list", token)]

\* Bound: a dialog is opened again once the last one's request has ended.
open(t) ==
    /\ Acts /\ ~dialog[t].open /\ dialog[t].call = NoCall
    /\ held' = swept(t)
    /\ Shows(t, refresh([Dialog EXCEPT !.open = TRUE, !.needsSignIn = readAuthSession(t) = 0], readAuthSession(t)))
    /\ storagesOnly /\ UNCHANGED <<server, faults, elsewhere>>
onClose(t) ==
    /\ Acts /\ dialog[t].open /\ Shows(t, [dialog[t] EXCEPT !.open = FALSE])
    /\ storagesOnly /\ UNCHANGED <<held, server, faults, elsewhere>>

\* The controls offered: the password while there is no session, the removal of each
\* listed member, the invitation.
passwordForm(t) == dialog[t].open /\ dialog[t].needsSignIn /\ ~busy(t)
memberRow(t, p) == dialog[t].open /\ ~busy(t) /\ dialog[t].members[p] # "none"
inviteForm(t, as) == dialog[t].open /\ ~busy(t) /\ as # "none"

saveAccount(t) ==
    /\ Acts /\ passwordForm(t)
    /\ Shows(t, [dialog[t] EXCEPT !.request = "busy", !.call = Call("signIn", 0)])
    /\ storagesOnly /\ UNCHANGED <<held, server, faults, elsewhere>>

\* An invitation, and a removal of a listed member, are asked for with the session the
\* tab holds by then; without one nothing happens.
change(t, kind, p, as) ==
    /\ Acts /\ held' = swept(t)
    /\ IF readAuthSession(t) = 0 THEN dialog' = dialog
       ELSE Shows(t, [dialog[t] EXCEPT !.request = "busy", !.call = [Call(kind, readAuthSession(t)) EXCEPT !.who = p, !.as = as]])
    /\ storagesOnly /\ UNCHANGED <<server, faults, elsewhere>>
inviteMember(t, p, as) == inviteForm(t, as) /\ change(t, "grant", p, as)
revokeMember(t, p) == memberRow(t, p) /\ change(t, "revoke", p, "none")

\* The server handles a request (api.ts request); a fault loses it before.
Replies(t, reply) == dialog' = [dialog EXCEPT ![t].call.reply = reply, ![t].call.list = server.role]
served(t, arrives, mine) ==
    LET c == dialog[t].call IN
    /\ c.kind # "none" /\ c.reply = "" /\ Faults(~arrives)
    /\ (c.kind # "signIn" \/ ~arrives) => mine
    /\ IF ~arrives THEN Replies(t, "failed") /\ UNCHANGED <<server, elsewhere>>
       ELSE IF c.kind = "signIn" THEN Issue(mine) /\ Shows(t, [dialog[t] EXCEPT !.call.reply = "ok", !.call.token = newest(server')]) /\ UNCHANGED elsewhere
       ELSE IF c.token \notin server.accepts THEN Replies(t, "rejected") /\ UNCHANGED <<server, elsewhere>>
       ELSE IF c.kind = "list" THEN Replies(t, "ok") /\ elsewhere' = elsewhere \ {t} /\ UNCHANGED server
       ELSE /\ Replies(t, "ok") /\ server' = [server EXCEPT !.role[c.who] = c.as]
            /\ elsewhere' = elsewhere \cup (Tab \ {t})
    /\ UNCHANGED <<held, acts>> /\ storagesOnly
lostAnswer(t) ==
    /\ dialog[t].call.reply = "ok" /\ Faults(TRUE)
    /\ dialog' = [dialog EXCEPT ![t].call.reply = "failed"]
    /\ UNCHANGED <<held, acts, server, elsewhere>> /\ storagesOnly

\* What an answer does: a change asks for the list again with the session it was made
\* with; a list the server rejects ends the session; a sign-in of another account is
\* dropped.
changedUnlisted(d) == [d EXCEPT !.request = "idle", !.call = NoCall]
changed(d) == refresh(d, d.call.token)
listed(d) == [d EXCEPT !.members = d.call.list, !.needsSignIn = FALSE, !.request = "idle", !.call = NoCall]
failed(d) == [d EXCEPT !.request = "failed", !.call = NoCall]
answered(t) ==
    LET d == dialog[t]
        c == d.call
        other == c.kind = "signIn" /\ c.reply = "ok" /\ c.token \notin server.mine
        rejected == c.kind = "list" /\ c.reply = "rejected"
    IN  /\ c.reply # ""
        /\ held' = IF rejected \/ other THEN clearAuthSession(t)
                   ELSE IF c.kind = "signIn" /\ c.reply = "ok" THEN writeAuthSession(t, TRUE, c.token) ELSE held
        /\ Shows(t, IF rejected THEN [failed(d) EXCEPT !.needsSignIn = TRUE]
                    ELSE IF other \/ c.reply # "ok" THEN failed(d)
                    ELSE IF c.kind = "list" THEN listed(d)
                    ELSE IF c.kind = "signIn" THEN refresh(d, c.token) ELSE changed(d))
        /\ UNCHANGED <<server, acts, faults, elsewhere>> /\ storagesOnly

expire(token) ==
    /\ Acts /\ token \in server.accepts
    /\ expired' = expired \cup {token} /\ server' = [server EXCEPT !.accepts = @ \ {token}]
    /\ UNCHANGED <<held, due, asked, retry, validating, dialog, faults, signedOut, overwritten, elsewhere>>
-----------------------------------------------------------------------------
Init ==
    /\ held = [s \in Store |-> 0] /\ due = [s \in Store |-> <<>>] /\ asked = {}
    /\ retry = [t \in Tab |-> NoRetry] /\ validating = [t \in Tab |-> {}] /\ dialog = [t \in Tab |-> Dialog]
    /\ server = [issued |-> {}, accepts |-> {}, mine |-> {}, role |-> Nobody]
    /\ expired = {} /\ acts = 0 /\ faults = 0 /\ signedOut = {} /\ overwritten = {} /\ elsewhere = {}

TabNext(t) ==
    \/ signOut(t) \/ retryRevocations(t) \/ validateAuthSession(t)
    \/ \E persistent \in BOOLEAN, mine \in BOOLEAN : signIn(t, persistent, mine)
    \/ \E arrives \in BOOLEAN, lost \in BOOLEAN : retryAnswered(t, arrives, lost)
    \/ \E token \in 1..MaxTokens, lost \in BOOLEAN : validated(t, token, lost)
    \/ open(t) \/ onClose(t) \/ saveAccount(t) \/ lostAnswer(t) \/ answered(t)
    \/ \E p \in Person : revokeMember(t, p) \/ \E as \in Role : inviteMember(t, p, as)
    \/ \E arrives \in BOOLEAN, mine \in BOOLEAN : served(t, arrives, mine)

Next ==
    \/ \E t \in Tab : TabNext(t)
    \/ \E call \in asked, arrives \in BOOLEAN, lost \in BOOLEAN : signOutAnswered(call, arrives, lost)
    \/ \E token \in 1..MaxTokens : expire(token)

Spec == Init /\ [][Next]_vars
-----------------------------------------------------------------------------
Waits(token) == \/ \E call \in asked : call.token = token
                \/ \E s \in Store : token \in Elements(due[s])

\* A token this browser signed out is refused by the server, is being revoked, or waits
\* in a storage to be revoked, whatever requests and answers are lost on the way and
\* whatever the other tab does.  Left out: a revocation appended while a retry was under
\* way, which the retry's write replaces.
RevocationKept ==
    \A token \in signedOut \cap server.accepts : token \in overwritten \/ Waits(token)

\* A dialog at rest lists the members the graph has, its own invitations and removals
\* included, unless another tab has changed them since the list was read.
MembersListed ==
    \A t \in Tab : dialog[t].open /\ dialog[t].request = "idle" /\ ~dialog[t].needsSignIn /\ t \notin elsewhere
                   => dialog[t].members = server.role

\* What the browser keeps and shows of the account is true: no signed-out session is
\* forgotten and no members dialog at rest is stale (auth.ts, RemoteMembersDialog.tsx).
AccountKept == RevocationKept /\ MembersListed
=============================================================================
