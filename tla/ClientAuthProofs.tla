--------------------------- MODULE ClientAuthProofs ---------------------------
(***************************************************************************)
(* No signed-out token is forgotten and no members dialog at rest is stale *)
(* (auth.ts, RemoteMembersDialog.tsx), for any tabs, tokens and failures.  *)
(***************************************************************************)
EXTENDS ClientAuth, TLAPS

Token == 1..MaxTokens
RetryState ==
    [store : Store \cup {"none"}, pending : Seq(Token), rest : Seq(Token), left : Seq(Token)]
CallState ==
    [kind : {"none", "list", "signIn", "grant", "revoke"}, token : Token \cup {0},
     who : Person \cup {""}, as : Role, reply : {"", "ok", "failed", "rejected"}, list : [Person -> Role]]
DialogState ==
    [open : BOOLEAN, members : [Person -> Role], request : {"idle", "busy", "failed"},
     needsSignIn : BOOLEAN, call : CallState]
ServerState ==
    [issued : SUBSET Token, accepts : SUBSET Token, mine : SUBSET Token, role : [Person -> Role]]

Types ==
    /\ held \in [Store -> Token \cup {0}]
    /\ due \in [Store -> Seq(Token)]
    /\ asked \subseteq [token : Token, store : Store]
    /\ retry \in [Tab -> RetryState]
    /\ dialog \in [Tab -> DialogState]
    /\ server \in ServerState

\* Every token the browser knows of has been issued, so the server never accepts it
\* again once it has stopped to.
Issued ==
    /\ server.accepts \subseteq server.issued
    /\ signedOut \subseteq server.issued
    /\ \A s \in Store : held[s] \in server.issued \cup {0} /\ Elements(due[s]) \subseteq server.issued
    /\ \A call \in asked : call.token \in server.issued
    /\ \A t \in Tab : /\ Elements(retry[t].pending) \subseteq server.issued
                      /\ dialog[t].call.token \in server.issued \cup {0}

\* What a retry read and the server still accepts is still to be asked or failed again,
\* and a retry asks for nothing it did not read.
Retrying ==
    \A t \in Tab :
        /\ retry[t].rest # <<>> => retry[t].store \in Store
        /\ Elements(retry[t].pending) \cap server.accepts
               \subseteq Elements(retry[t].rest) \cup Elements(retry[t].left)
        /\ Elements(retry[t].rest) \cup Elements(retry[t].left) \subseteq Elements(retry[t].pending)

\* A dialog with a request out is busy, a list on its way is the graph's, and so is the
\* list a dialog at rest shows; out: another tab has changed the members since.
Fresh(d, role, out) ==
    /\ d.request # "busy" => d.call.kind = "none"
    /\ d.call.kind = "list" /\ d.call.reply = "ok" /\ ~out => d.call.list = role
    /\ d.open /\ d.request = "idle" /\ ~d.needsSignIn /\ ~out => d.members = role
Listing == \A t \in Tab : Fresh(dialog[t], server.role, t \in elsewhere)

AuthInv == Types /\ Issued /\ Retrying /\ Listing /\ RevocationKept
-----------------------------------------------------------------------------
(* Sequences of tokens as sets.                                            *)

LEMMA ElementsEmpty == Elements(<<>>) = {}
  BY DEF Elements

LEMMA ElementsAppend ==
    ASSUME NEW S, NEW s \in Seq(S), NEW x \in S
    PROVE  Append(s, x) \in Seq(S) /\ Elements(Append(s, x)) = Elements(s) \cup {x}
  <1>1. /\ Append(s, x) \in Seq(S) /\ Len(Append(s, x)) = Len(s) + 1
        /\ DOMAIN s = 1..Len(s) /\ DOMAIN Append(s, x) = 1..(Len(s) + 1) /\ Len(s) \in Nat
        /\ \A i \in 1..Len(s) : Append(s, x)[i] = s[i]
        /\ Append(s, x)[Len(s) + 1] = x
    OBVIOUS
  <1>2. \A i \in 1..(Len(s) + 1) : i \in 1..Len(s) \/ i = Len(s) + 1
    BY <1>1
  <1>3. Len(s) + 1 \in 1..(Len(s) + 1) /\ 1..Len(s) \subseteq 1..(Len(s) + 1)
    BY <1>1
  <1> QED
    BY <1>1, <1>2, <1>3 DEF Elements

LEMMA ElementsHead ==
    ASSUME NEW S, NEW s \in Seq(S), s # <<>>
    PROVE  /\ Head(s) \in S /\ Tail(s) \in Seq(S) /\ Elements(s) = {Head(s)} \cup Elements(Tail(s))
           /\ Len(s) <= 1 => Elements(Tail(s)) = {}
  <1>1. /\ Head(s) = s[1] /\ Head(s) \in S /\ Tail(s) \in Seq(S) /\ Len(s) \in Nat /\ Len(s) >= 1
        /\ DOMAIN s = 1..Len(s) /\ DOMAIN Tail(s) = 1..(Len(s) - 1)
        /\ \A i \in 1..(Len(s) - 1) : Tail(s)[i] = s[i + 1]
    OBVIOUS
  <1>2. \A i \in 1..Len(s) : i = 1 \/ (i - 1 \in 1..(Len(s) - 1) /\ (i - 1) + 1 = i)
    BY <1>1
  <1>3. 1 \in 1..Len(s) /\ \A i \in 1..(Len(s) - 1) : i + 1 \in 1..Len(s)
    BY <1>1
  <1>4. Elements(s) \subseteq {Head(s)} \cup Elements(Tail(s))
    <2> SUFFICES ASSUME NEW i \in 1..Len(s), s[i] # Head(s) PROVE s[i] \in Elements(Tail(s))
      BY <1>1 DEF Elements
    <2>1. i - 1 \in 1..(Len(s) - 1) /\ Tail(s)[i - 1] = s[i]
      BY <1>1, <1>2
    <2> QED
      BY <1>1, <2>1 DEF Elements
  <1>5. {Head(s)} \cup Elements(Tail(s)) \subseteq Elements(s)
    BY <1>1, <1>3 DEF Elements
  <1>6. Len(s) <= 1 => Elements(Tail(s)) = {}
    BY <1>1 DEF Elements
  <1> QED
    BY <1>1, <1>4, <1>5, <1>6
-----------------------------------------------------------------------------
(* The server: it issues tokens, and stops to accept them for good.        *)

ServerGoesOn ==
    /\ server' \in ServerState
    /\ server.issued \subseteq server.issued'
    /\ server.accepts' \subseteq server.issued'
    /\ server.accepts' \cap server.issued \subseteq server.accepts

LEMMA IssueGoesOn ==
    ASSUME Types, Issued, NEW mine, Issue(mine)
    PROVE  /\ ServerGoesOn /\ server'.role = server.role
           /\ newest(server') \in server'.issued /\ newest(server') \in Token
  <1>1. PICK token \in Token \ server.issued :
            server' = [server EXCEPT !.issued = @ \cup {token}, !.accepts = @ \cup {token},
                                     !.mine = IF mine THEN @ \cup {token} ELSE @]
    BY DEF Issue, Token
  <1>2. server \in ServerState
    BY DEF Types
  <1>3. /\ server'.issued = server.issued \cup {token} /\ server'.accepts = server.accepts \cup {token}
        /\ server'.mine \in SUBSET Token /\ server'.role = server.role
        /\ server' \in ServerState
    BY <1>1, <1>2 DEF ServerState
  <1>4. newest(server') \in server'.issued
    BY <1>3 DEF newest
  <1> QED
    BY <1>1, <1>2, <1>3, <1>4 DEF ServerGoesOn, ServerState, Issued

LEMMA RevokesGoesOn ==
    ASSUME Types, Issued, NEW token, NEW arrives \in BOOLEAN, Revokes(token, arrives)
    PROVE  ServerGoesOn /\ server'.role = server.role /\ (arrives => token \notin server'.accepts)
  BY DEF Types, Issued, Revokes, ServerGoesOn, ServerState

LEMMA SameServerGoesOn == ASSUME Types, Issued, server' = server PROVE ServerGoesOn
  BY DEF Types, Issued, ServerGoesOn, ServerState
-----------------------------------------------------------------------------
(* The sessions in the storages, and the requests of the dialogs.          *)

HeldTyped(h) == h \in [Store -> Token \cup {0}] /\ \A s \in Store : h[s] \in server'.issued \cup {0}
CallTyped(c) == c \in CallState /\ c.token \in server'.issued \cup {0}
DialogTyped(d) == d \in DialogState /\ d.call.token \in server'.issued \cup {0}

LEMMA StandingHeld ==
    ASSUME Types, Issued, ServerGoesOn, NEW t \in Tab
    PROVE  /\ HeldTyped(held) /\ HeldTyped(swept(t)) /\ HeldTyped(clearAuthSession(t))
           /\ readAuthSession(t) \in server.issued \cup {0}
           /\ readAuthSession(t) \in Token \cup {0}
           /\ keptIn(t) \in Store
  <1>1. /\ held \in [Store -> Token \cup {0}] /\ t \in Store /\ "local" \in Store /\ keptIn(t) \in Store
        /\ \A s \in Store : held[s] \in server.issued \cup {0}
        /\ server.issued \subseteq server'.issued
    BY DEF Types, Issued, Store, keptIn, ServerGoesOn
  <1>2. HeldTyped(held)
    BY <1>1 DEF HeldTyped
  <1>3. HeldTyped(swept(t))
    BY <1>1 DEF HeldTyped, swept
  <1>4. HeldTyped(clearAuthSession(t))
    BY <1>1 DEF HeldTyped, clearAuthSession
  <1> QED
    BY <1>1, <1>2, <1>3, <1>4 DEF readAuthSession

LEMMA WrittenHeld ==
    ASSUME Types, Issued, ServerGoesOn, NEW t \in Tab, NEW persistent, NEW token \in Token \cup {0},
           token \in server'.issued \cup {0}
    PROVE  HeldTyped(writeAuthSession(t, persistent, token))
  <1>1. /\ held \in [Store -> Token \cup {0}] /\ t \in Store /\ "local" \in Store
        /\ \A s \in Store : held[s] \in server'.issued \cup {0}
    BY DEF Types, Issued, Store, ServerGoesOn
  <1> QED
    BY <1>1 DEF HeldTyped, writeAuthSession

LEMMA StandingDialog ==
    ASSUME Types, Issued, ServerGoesOn, NEW t \in Tab
    PROVE  DialogTyped(dialog[t]) /\ CallTyped(NoCall) /\ NoCall.kind = "none"
  <1>1. dialog[t] \in DialogState /\ dialog[t].call.token \in server.issued \cup {0}
    BY DEF Types, Issued
  <1>2. NoCall \in CallState /\ NoCall.token = 0 /\ NoCall.kind = "none"
    BY DEF NoCall, CallState, Nobody, Role
  <1> QED
    BY <1>1, <1>2 DEF DialogTyped, CallTyped, ServerGoesOn

GoodDialog(d, t) == DialogTyped(d) /\ Fresh(d, server'.role, t \in elsewhere')

LEMMA CallsTyped ==
    ASSUME NEW kind \in {"list", "signIn", "grant", "revoke"}, NEW token \in Token \cup {0},
           token \in server'.issued \cup {0}
    PROVE  /\ CallTyped(Call(kind, token))
           /\ Call(kind, token).kind = kind /\ Call(kind, token).reply = ""
  <1>1. NoCall \in CallState
    BY DEF NoCall, CallState, Nobody, Role
  <1>2. /\ Call(kind, token) \in CallState /\ Call(kind, token).token = token
        /\ Call(kind, token).kind = kind /\ Call(kind, token).reply = ""
    BY <1>1 DEF Call, CallState, NoCall
  <1> QED
    BY <1>2 DEF CallTyped

LEMMA AskedDialog ==
    ASSUME NEW t, NEW d, DialogTyped(d), NEW c, CallTyped(c), c.reply = ""
    PROVE  GoodDialog([d EXCEPT !.request = "busy", !.call = c], t)
  <1>1. PICK e : e = [d EXCEPT !.request = "busy", !.call = c]
    OBVIOUS
  <1>2. e \in DialogState /\ e.request = "busy" /\ e.call = c
    BY <1>1 DEF DialogTyped, DialogState, CallTyped
  <1> QED
    BY <1>1, <1>2 DEF GoodDialog, DialogTyped, Fresh, CallTyped

LEMMA ChangeDialog ==
    ASSUME NEW t, NEW d, DialogTyped(d), NEW kind \in {"grant", "revoke"}, NEW token \in Token \cup {0},
           token \in server'.issued \cup {0}, NEW p \in Person, NEW as \in Role
    PROVE  GoodDialog([d EXCEPT !.request = "busy", !.call = [Call(kind, token) EXCEPT !.who = p, !.as = as]], t)
  <1>1. PICK b : b = Call(kind, token) /\ CallTyped(b) /\ b.reply = ""
    BY CallsTyped
  <1>2. PICK c : c = [b EXCEPT !.who = p, !.as = as]
    OBVIOUS
  <1>3. c \in CallState /\ c.token = b.token /\ c.reply = ""
    BY <1>1, <1>2 DEF CallTyped, CallState
  <1> QED
    BY <1>1, <1>2, <1>3, AskedDialog DEF CallTyped

LEMMA RefreshedDialog ==
    ASSUME Types, Issued, ServerGoesOn, NEW t \in Tab,
           NEW d, DialogTyped(d), NEW token \in Token \cup {0}, token \in server'.issued \cup {0}
    PROVE  GoodDialog(refresh(d, token), t)
  <1>1. CASE token = 0
    <2>1. PICK c : c = NoCall /\ CallTyped(c) /\ c.kind = "none"
      BY StandingDialog
    <2>2. PICK e : e = [d EXCEPT !.needsSignIn = TRUE, !.call = c]
      OBVIOUS
    <2>3. e \in DialogState /\ e.needsSignIn /\ e.call = c
      BY <2>1, <2>2 DEF DialogTyped, DialogState, CallTyped
    <2>4. GoodDialog(e, t)
      BY <2>1, <2>3 DEF GoodDialog, DialogTyped, Fresh, CallTyped
    <2> QED
      BY <1>1, <2>1, <2>2, <2>4 DEF refresh
  <1>2. CASE token # 0
    BY <1>2, CallsTyped, AskedDialog DEF refresh
  <1> QED
    BY <1>1, <1>2

\* A request that failed, whoever is to sign in again.
LEMMA FailedDialog ==
    ASSUME Types, Issued, ServerGoesOn, NEW t \in Tab, NEW d, DialogTyped(d)
    PROVE  GoodDialog(failed(d), t) /\ GoodDialog([failed(d) EXCEPT !.needsSignIn = TRUE], t)
  <1>1. PICK c : c = NoCall /\ CallTyped(c) /\ c.kind = "none"
    BY StandingDialog
  <1>2. PICK e : e = [d EXCEPT !.request = "failed", !.call = c]
    OBVIOUS
  <1>3. e \in DialogState /\ e.request = "failed" /\ e.call = c
    BY <1>1, <1>2 DEF DialogTyped, DialogState, CallTyped
  <1>4. PICK g : g = [e EXCEPT !.needsSignIn = TRUE]
    OBVIOUS
  <1>5. g \in DialogState /\ g.request = "failed" /\ g.call = c
    BY <1>3, <1>4 DEF DialogState
  <1>6. GoodDialog(e, t) /\ GoodDialog(g, t)
    BY <1>1, <1>3, <1>5 DEF GoodDialog, DialogTyped, Fresh, CallTyped
  <1> QED
    BY <1>1, <1>2, <1>4, <1>6 DEF failed

LEMMA ListedDialog ==
    ASSUME Types, Issued, ServerGoesOn, NEW t \in Tab, NEW d, DialogTyped(d),
           d.call.kind = "list", d.call.reply = "ok",
           Fresh(d, server.role, t \in elsewhere), server'.role = server.role, elsewhere' = elsewhere
    PROVE  GoodDialog(listed(d), t)
  <1>1. PICK c : c = NoCall /\ CallTyped(c) /\ c.kind = "none"
    BY StandingDialog
  <1>2. PICK e : e = [d EXCEPT !.members = d.call.list, !.needsSignIn = FALSE, !.request = "idle", !.call = c]
    OBVIOUS
  <1>3. e \in DialogState /\ e.members = d.call.list /\ e.call = c
    BY <1>1, <1>2 DEF DialogTyped, DialogState, CallState, CallTyped
  <1>4. GoodDialog(e, t)
    BY <1>1, <1>3 DEF GoodDialog, DialogTyped, Fresh, CallTyped
  <1> QED
    BY <1>1, <1>2, <1>4 DEF listed

\* The reply to a request is on its way.
LEMMA RepliedDialog ==
    ASSUME NEW t \in Tab, NEW d, DialogTyped(d), d.call.kind # "none", d.request # "busy" => d.call.kind = "none",
           NEW reply \in {"ok", "failed", "rejected"}, NEW list \in [Person -> Role], NEW e,
           e = [d EXCEPT !.call = [d.call EXCEPT !.reply = reply, !.list = list]],
           d.call.kind = "list" /\ reply = "ok" /\ t \notin elsewhere' => list = server'.role
    PROVE  GoodDialog(e, t)
  <1>1. PICK c : c = [d.call EXCEPT !.reply = reply, !.list = list]
    OBVIOUS
  <1>2. /\ c \in CallState /\ c.token = d.call.token /\ c.kind = d.call.kind
        /\ c.reply = reply /\ c.list = list
    BY <1>1 DEF DialogTyped, DialogState, CallState
  <1>3. e \in DialogState /\ e.call = c /\ e.request = "busy"
    BY <1>1, <1>2 DEF DialogTyped, DialogState
  <1> QED
    BY <1>2, <1>3 DEF GoodDialog, DialogTyped, Fresh
-----------------------------------------------------------------------------
(* The four parts of the invariant after a step: the server, the sessions  *)
(* held, the storages with what waits in them, the dialogs.                *)

DialogsStand ==
    dialog' \in [Tab -> DialogState] /\ \A t \in Tab : GoodDialog(dialog'[t], t)

LEMMA DialogsKept ==
    ASSUME AuthInv, ServerGoesOn, dialog' = dialog, server'.role = server.role, elsewhere' = elsewhere
    PROVE  DialogsStand
  <1>1. \A t \in Tab : DialogTyped(dialog[t])
    BY StandingDialog DEF AuthInv
  <1>2. \A t \in Tab : Fresh(dialog[t], server.role, t \in elsewhere)
    BY DEF AuthInv, Listing
  <1> QED
    BY <1>1, <1>2 DEF DialogsStand, GoodDialog, AuthInv, Types

LEMMA OneDialog ==
    ASSUME AuthInv, ServerGoesOn, NEW t \in Tab, NEW d, GoodDialog(d, t), dialog' = [dialog EXCEPT ![t] = d],
           \A u \in Tab \ {t} : \/ server'.role = server.role /\ (u \in elsewhere' <=> u \in elsewhere)
                                \/ u \in elsewhere'
    PROVE  DialogsStand
  <1>1. dialog \in [Tab -> DialogState] /\ d \in DialogState
    BY DEF AuthInv, Types, GoodDialog, DialogTyped
  <1>2. dialog' \in [Tab -> DialogState] /\ dialog'[t] = d
    BY <1>1
  <1>3. ASSUME NEW u \in Tab, u # t PROVE GoodDialog(dialog'[u], u)
    <2>1. dialog'[u] = dialog[u]
      BY <1>1, <1>3
    <2>2. DialogTyped(dialog[u])
      BY StandingDialog DEF AuthInv
    <2>3. Fresh(dialog[u], server.role, u \in elsewhere)
      BY DEF AuthInv, Listing
    <2>4. Fresh(dialog[u], server'.role, u \in elsewhere')
      BY <1>3, <2>3 DEF Fresh
    <2> QED
      BY <2>1, <2>2, <2>4 DEF GoodDialog
  <1> QED
    BY <1>2, <1>3 DEF DialogsStand

StoragesTyped ==
    /\ due' \in [Store -> Seq(Token)]
    /\ asked' \subseteq [token : Token, store : Store]
    /\ retry' \in [Tab -> RetryState]
    /\ signedOut' \subseteq server'.issued
    /\ \A s \in Store : Elements(due'[s]) \subseteq server'.issued
    /\ \A call \in asked' : call.token \in server'.issued
    /\ \A t \in Tab : Elements(retry'[t].pending) \subseteq server'.issued
StoragesStand == StoragesTyped /\ Retrying' /\ RevocationKept'

LEMMA KnownStoragesTyped ==
    ASSUME AuthInv, ServerGoesOn
    PROVE  /\ due \in [Store -> Seq(Token)] /\ retry \in [Tab -> RetryState]
           /\ asked \subseteq [token : Token, store : Store]
           /\ signedOut \subseteq server'.issued
           /\ \A s \in Store : Elements(due[s]) \subseteq server'.issued
           /\ \A call \in asked : call.token \in server'.issued
           /\ \A t \in Tab : Elements(retry[t].pending) \subseteq server'.issued
  BY DEF AuthInv, Types, Issued, ServerGoesOn

LEMMA RetryingStands ==
    ASSUME AuthInv, ServerGoesOn, retry' = retry
    PROVE  Retrying'
  <1>1. \A t \in Tab : Elements(retry[t].pending) \subseteq server.issued
    BY DEF AuthInv, Issued
  <1> QED
    BY <1>1 DEF AuthInv, Retrying, ServerGoesOn

\* Tokens that are signed out, and those that wait, may only become more.
LEMMA StoragesGrow ==
    ASSUME AuthInv, ServerGoesOn, retry' = retry, overwritten' = overwritten, due' = due,
           NEW more, more \subseteq [token : Token, store : Store], asked' = asked \cup more,
           signedOut' = signedOut \cup {call.token : call \in more},
           \A call \in more : call.token \in server'.issued
    PROVE  StoragesStand
  <1>1. StoragesTyped
    BY KnownStoragesTyped DEF StoragesTyped
  <1>2. ASSUME NEW token \in signedOut' \cap server'.accepts PROVE token \in overwritten' \/ Waits(token)'
    <2>1. CASE token \in signedOut
      <3>1. token \in server.accepts
        BY <1>2, <2>1 DEF AuthInv, Issued, ServerGoesOn
      <3>2. token \in overwritten \/ Waits(token)
        BY <2>1, <3>1 DEF AuthInv, RevocationKept
      <3> QED
        BY <3>2 DEF Waits
    <2>2. CASE token \notin signedOut
      BY <1>2, <2>2 DEF Waits
    <2> QED
      BY <2>1, <2>2
  <1>3. RevocationKept'
    BY <1>2 DEF RevocationKept
  <1> QED
    BY <1>1, <1>3, RetryingStands DEF StoragesStand

LEMMA HeldStanding == ASSUME AuthInv, ServerGoesOn, held' = held PROVE HeldTyped(held')
  BY DEF AuthInv, Types, Issued, ServerGoesOn, HeldTyped

LEMMA StoragesKept ==
    ASSUME AuthInv, ServerGoesOn, UNCHANGED <<due, asked, retry, signedOut, overwritten>>
    PROVE  StoragesStand
  <1>1. asked' = asked \cup {} /\ signedOut' = signedOut \cup {call.token : call \in {}}
    OBVIOUS
  <1> QED
    BY <1>1, StoragesGrow

LEMMA Assembles ==
    ASSUME AuthInv, ServerGoesOn, HeldTyped(held'), StoragesStand, DialogsStand
    PROVE  AuthInv'
  <1>1. Types'
    BY DEF Types, ServerGoesOn, HeldTyped, StoragesStand, StoragesTyped, DialogsStand
  <1>2. Issued'
    BY DEF Issued, ServerGoesOn, HeldTyped, StoragesStand, StoragesTyped, DialogsStand, GoodDialog, DialogTyped
  <1>3. Listing'
    BY DEF Listing, DialogsStand, GoodDialog
  <1> QED
    BY <1>1, <1>2, <1>3 DEF AuthInv, StoragesStand
-----------------------------------------------------------------------------
(* Signing in and out.                                                     *)

LEMMA SigningOutStands ==
    ASSUME AuthInv, ServerGoesOn, NEW token \in Token, NEW s \in Store, SignsOut(token, s),
           token \in server'.issued, UNCHANGED <<due, retry, overwritten>>
    PROVE  StoragesStand
  <1>1. PICK more : more = {[token |-> token, store |-> s]}
    OBVIOUS
  <1>2. /\ more \subseteq [token : Token, store : Store] /\ {call.token : call \in more} = {token}
        /\ \A call \in more : call.token \in server'.issued
    BY <1>1
  <1>3. asked' = asked \cup more /\ signedOut' = signedOut \cup {call.token : call \in more}
    BY <1>1, <1>2 DEF SignsOut
  <1> QED
    BY <1>2, <1>3, StoragesGrow

LEMMA SignOutStands ==
    ASSUME AuthInv, NEW t \in Tab, signOut(t)
    PROVE  AuthInv'
  <1>1. /\ held' = clearAuthSession(t)
        /\ UNCHANGED <<due, retry, dialog, server, overwritten, elsewhere>>
        /\ \/ UNCHANGED <<asked, signedOut>>
           \/ readAuthSession(t) # 0 /\ SignsOut(readAuthSession(t), keptIn(t))
    BY DEF signOut
  <1>2. ServerGoesOn
    BY <1>1, SameServerGoesOn DEF AuthInv
  <1>3. /\ HeldTyped(held') /\ keptIn(t) \in Store
        /\ readAuthSession(t) \in server.issued \cup {0} /\ readAuthSession(t) \in Token \cup {0}
    BY <1>1, <1>2, StandingHeld DEF AuthInv
  <1>4. DialogsStand
    BY <1>1, <1>2, DialogsKept
  <1>5. StoragesStand
    <2>1. CASE UNCHANGED <<asked, signedOut>>
      BY <1>1, <1>2, <2>1, StoragesKept
    <2>2. CASE readAuthSession(t) # 0 /\ SignsOut(readAuthSession(t), keptIn(t))
      BY <1>1, <1>2, <1>3, <2>2, SigningOutStands
    <2> QED
      BY <1>1, <2>1, <2>2
  <1> QED
    BY <1>2, <1>3, <1>4, <1>5, Assembles

LEMMA SignInStands ==
    ASSUME AuthInv, NEW t \in Tab, NEW persistent \in BOOLEAN, NEW mine \in BOOLEAN, signIn(t, persistent, mine)
    PROVE  AuthInv'
  <1>1. /\ Issue(mine) /\ UNCHANGED <<due, retry, dialog, overwritten, elsewhere>>
        /\ \/ held' = writeAuthSession(t, persistent, newest(server')) /\ UNCHANGED <<asked, signedOut>>
           \/ /\ held' = clearAuthSession(t)
              /\ SignsOut(newest(server'), IF persistent THEN "local" ELSE t)
    BY DEF signIn
  <1>2. /\ ServerGoesOn /\ server'.role = server.role
        /\ newest(server') \in server'.issued /\ newest(server') \in Token
    BY <1>1, IssueGoesOn DEF AuthInv
  <1>3. DialogsStand
    BY <1>1, <1>2, DialogsKept
  <1>4. CASE held' = writeAuthSession(t, persistent, newest(server')) /\ UNCHANGED <<asked, signedOut>>
    <2>1. HeldTyped(held')
      BY <1>2, <1>4, WrittenHeld DEF AuthInv
    <2>2. StoragesStand
      BY <1>1, <1>2, <1>4, StoragesKept
    <2> QED
      BY <1>2, <1>3, <2>1, <2>2, Assembles
  <1>5. CASE held' = clearAuthSession(t) /\ SignsOut(newest(server'), IF persistent THEN "local" ELSE t)
    <2>1. HeldTyped(held')
      BY <1>2, <1>5, StandingHeld DEF AuthInv
    <2>2. (IF persistent THEN "local" ELSE t) \in Store
      BY DEF Store
    <2>3. StoragesStand
      BY <1>1, <1>2, <1>5, <2>2, SigningOutStands
    <2> QED
      BY <1>2, <1>3, <2>1, <2>3, Assembles
  <1> QED
    BY <1>1, <1>4, <1>5
-----------------------------------------------------------------------------
(* Answers to a sign-out, and the retries.                                 *)

LEMMA SignOutAnsweredStands ==
    ASSUME AuthInv, NEW call \in asked, NEW arrives \in BOOLEAN, NEW lost \in BOOLEAN,
           signOutAnswered(call, arrives, lost)
    PROVE  AuthInv'
  <1>1. /\ arrives \/ lost
        /\ Revokes(call.token, arrives)
        /\ asked' = asked \ {call}
        /\ due' = IF lost THEN [due EXCEPT ![call.store] = Append(@, call.token)] ELSE due
        /\ UNCHANGED <<held, retry, dialog, signedOut, overwritten, elsewhere>>
    BY DEF signOutAnswered, revoke
  <1>2. call.token \in Token /\ call.store \in Store /\ call.token \in server.issued
    BY DEF AuthInv, Types, Issued
  <1>3. ServerGoesOn /\ server'.role = server.role /\ (arrives => call.token \notin server'.accepts)
    BY <1>1, RevokesGoesOn DEF AuthInv
  <1>4. HeldTyped(held')
    BY <1>1, <1>3, HeldStanding
  <1>5. DialogsStand
    BY <1>1, <1>3, DialogsKept
  <1>6. PICK grown : grown = Append(due[call.store], call.token)
    OBVIOUS
  <1>7. grown \in Seq(Token) /\ Elements(grown) = Elements(due[call.store]) \cup {call.token}
    BY <1>2, <1>6, ElementsAppend, KnownStoragesTyped, <1>3
  <1>8. /\ due' \in [Store -> Seq(Token)]
        /\ \A s \in Store : Elements(due[s]) \subseteq Elements(due'[s])
        /\ \A s \in Store : Elements(due'[s]) \subseteq server'.issued
        /\ lost => call.token \in Elements(due'[call.store])
    <2>1. due \in [Store -> Seq(Token)] /\ \A s \in Store : Elements(due[s]) \subseteq server'.issued
      BY <1>3, KnownStoragesTyped
    <2>2. call.token \in server'.issued
      BY <1>2, <1>3 DEF ServerGoesOn
    <2>3. CASE ~lost
      BY <1>1, <2>1, <2>3
    <2>4. CASE lost
      <3>1. due' = [due EXCEPT ![call.store] = grown]
        BY <1>1, <1>6, <2>4
      <3>2. due' \in [Store -> Seq(Token)] /\ \A s \in Store : due'[s] = IF s = call.store THEN grown ELSE due[s]
        BY <1>2, <1>7, <2>1, <3>1
      <3> QED
        BY <1>2, <1>7, <2>1, <2>2, <3>2
    <2> QED
      BY <2>3, <2>4
  <1>9. StoragesTyped
    BY <1>1, <1>3, <1>8, KnownStoragesTyped DEF StoragesTyped
  <1>10. ASSUME NEW token \in signedOut' \cap server'.accepts PROVE token \in overwritten' \/ Waits(token)'
    <2>1. token \in overwritten \/ Waits(token)
      BY <1>1, <1>10, <1>3 DEF AuthInv, Issued, RevocationKept, ServerGoesOn
    <2>2. CASE \E s \in Store : token \in Elements(due[s])
      BY <1>8, <2>2 DEF Waits
    <2>3. CASE \E other \in asked : other.token = token
      <3>1. PICK other \in asked : other.token = token
        BY <2>3
      <3>2. CASE other # call
        BY <1>1, <3>1, <3>2 DEF Waits
      <3>3. CASE other = call
        <4>1. lost
          BY <1>1, <1>3, <1>10, <3>1, <3>3
        <4> QED
          BY <1>2, <1>8, <3>1, <3>3, <4>1 DEF Waits
      <3> QED
        BY <3>2, <3>3
    <2> QED
      BY <1>1, <2>1, <2>2, <2>3 DEF Waits
  <1>11. RevocationKept'
    BY <1>10 DEF RevocationKept
  <1>12. StoragesStand
    BY <1>1, <1>3, <1>9, <1>11, RetryingStands DEF StoragesStand
  <1> QED
    BY <1>3, <1>4, <1>5, <1>12, Assembles

\* The storage a retry turns to, read anew.
LEMMA TurnsTyped ==
    ASSUME AuthInv, ServerGoesOn, NEW t \in Tab, NEW s, NEW r, r = Turns(t, s)
    PROVE  /\ r \in RetryState /\ Elements(r.pending) \subseteq server'.issued
           /\ r.rest # <<>> => r.store \in Store
           /\ Elements(r.rest) = Elements(r.pending) /\ Elements(r.left) = {}
  <1>1. PICK n : n = following(t, s)
    OBVIOUS
  <1>2. n \in {"local", t, "none"} /\ {"local", t} \subseteq Store
    BY <1>1 DEF following, Store
  <1>3. due \in [Store -> Seq(Token)] /\ \A q \in Store : Elements(due[q]) \subseteq server'.issued
    BY KnownStoragesTyped
  <1>4. CASE n = "none"
    <2>1. r = NoRetry
      BY <1>1, <1>4 DEF Turns
    <2>2. /\ NoRetry \in RetryState /\ NoRetry.pending = <<>> /\ NoRetry.rest = <<>> /\ NoRetry.left = <<>>
      BY DEF NoRetry, RetryState
    <2> QED
      BY <2>1, <2>2, ElementsEmpty
  <1>5. CASE n # "none"
    <2>1. r = Retry(n) /\ n \in Store
      BY <1>1, <1>2, <1>5 DEF Turns
    <2>2. /\ Retry(n) \in RetryState /\ Retry(n).pending = due[n] /\ Retry(n).rest = due[n]
          /\ Retry(n).left = <<>> /\ Retry(n).store = n
      BY <1>3, <2>1 DEF Retry, RetryState
    <2> QED
      BY <1>3, <2>1, <2>2, ElementsEmpty
  <1> QED
    BY <1>4, <1>5

LEMMA RetryingOnward ==
    ASSUME AuthInv, ServerGoesOn, NEW t \in Tab, NEW r, retry' = [retry EXCEPT ![t] = r],
           r \in RetryState, r.rest # <<>> => r.store \in Store, Elements(r.pending) \subseteq server'.issued,
           Elements(r.pending) \cap server'.accepts \subseteq Elements(r.rest) \cup Elements(r.left),
           Elements(r.rest) \cup Elements(r.left) \subseteq Elements(r.pending)
    PROVE  /\ retry' \in [Tab -> RetryState] /\ Retrying'
           /\ \A u \in Tab : Elements(retry'[u].pending) \subseteq server'.issued
  <1>1. /\ retry \in [Tab -> RetryState] /\ Retrying /\ server'.accepts \cap server.issued \subseteq server.accepts
        /\ \A u \in Tab : Elements(retry[u].pending) \subseteq server.issued
        /\ \A u \in Tab : Elements(retry[u].pending) \subseteq server'.issued
    BY DEF AuthInv, Types, Issued, ServerGoesOn
  <1>2. retry' \in [Tab -> RetryState] /\ \A u \in Tab : retry'[u] = IF u = t THEN r ELSE retry[u]
    BY <1>1
  <1>3. ASSUME NEW u \in Tab
        PROVE  /\ retry'[u].rest # <<>> => retry'[u].store \in Store
               /\ Elements(retry'[u].pending) \cap server'.accepts
                      \subseteq Elements(retry'[u].rest) \cup Elements(retry'[u].left)
               /\ Elements(retry'[u].rest) \cup Elements(retry'[u].left) \subseteq Elements(retry'[u].pending)
    <2>1. CASE u = t
      BY <1>2, <2>1
    <2>2. CASE u # t
      BY <1>1, <1>2, <2>2 DEF Retrying
    <2> QED
      BY <2>1, <2>2
  <1>4. Retrying'
    BY <1>3 DEF Retrying
  <1> QED
    BY <1>1, <1>2, <1>4

LEMMA RetryRevocationsStands ==
    ASSUME AuthInv, NEW t \in Tab, retryRevocations(t)
    PROVE  AuthInv'
  <1>1. PICK r : r = Turns(t, "none")
    OBVIOUS
  <1>2. /\ retry' = [retry EXCEPT ![t] = r]
        /\ UNCHANGED <<held, due, asked, dialog, server, signedOut, overwritten, elsewhere>>
    BY <1>1 DEF retryRevocations
  <1>3. ServerGoesOn
    BY <1>2, SameServerGoesOn DEF AuthInv
  <1>4. HeldTyped(held') /\ DialogsStand
    BY <1>2, <1>3, HeldStanding, DialogsKept
  <1>5. /\ retry' \in [Tab -> RetryState] /\ Retrying'
        /\ \A u \in Tab : Elements(retry'[u].pending) \subseteq server'.issued
    BY <1>1, <1>2, <1>3, TurnsTyped, RetryingOnward
  <1>6. StoragesTyped
    BY <1>2, <1>3, <1>5, KnownStoragesTyped DEF StoragesTyped
  <1>7. RevocationKept'
    BY <1>2 DEF AuthInv, RevocationKept, Waits
  <1> QED
    BY <1>3, <1>4, <1>5, <1>6, <1>7, Assembles DEF StoragesStand

\* The answer for one revocation of a retry: it stays to be asked for only if it failed.
LEMMA RetryAnsweredFacts ==
    ASSUME AuthInv, ServerGoesOn, NEW t \in Tab, NEW r, r = retry[t], r.rest # <<>>, NEW left,
           \/ left = r.left /\ Head(r.rest) \notin server'.accepts
           \/ left = Append(r.left, Head(r.rest))
    PROVE  /\ r \in RetryState /\ r.store \in Store /\ left \in Seq(Token) /\ Tail(r.rest) \in Seq(Token)
           /\ Elements(r.pending) \subseteq server'.issued
           /\ Elements(r.pending) \cap server'.accepts \subseteq Elements(Tail(r.rest)) \cup Elements(left)
           /\ Elements(Tail(r.rest)) \cup Elements(left) \subseteq Elements(r.pending)
           /\ ~(Len(r.rest) > 1) => Elements(Tail(r.rest)) = {}
  <1>1. r \in RetryState /\ r.rest \in Seq(Token) /\ r.left \in Seq(Token)
    BY DEF AuthInv, Types, RetryState
  <1>2. /\ Head(r.rest) \in Token /\ Tail(r.rest) \in Seq(Token)
        /\ Elements(r.rest) = {Head(r.rest)} \cup Elements(Tail(r.rest))
        /\ ~(Len(r.rest) > 1) => Elements(Tail(r.rest)) = {}
    <2>1. Len(r.rest) \in Nat
      BY <1>1
    <2> QED
      BY <1>1, <2>1, ElementsHead
  <1>3. left = Append(r.left, Head(r.rest))
            => left \in Seq(Token) /\ Elements(left) = Elements(r.left) \cup {Head(r.rest)}
    BY <1>1, <1>2, ElementsAppend
  <1>4. left \in Seq(Token) /\ Elements(left) \subseteq Elements(r.left) \cup {Head(r.rest)}
    BY <1>1, <1>3
  <1>5. /\ r.store \in Store
        /\ Elements(r.pending) \cap server.accepts \subseteq Elements(r.rest) \cup Elements(r.left)
        /\ Elements(r.rest) \cup Elements(r.left) \subseteq Elements(r.pending)
    BY DEF AuthInv, Retrying
  <1>6. Elements(r.pending) \subseteq server.issued
    BY DEF AuthInv, Issued
  <1>7. ASSUME NEW x \in Elements(r.pending) \cap server'.accepts
        PROVE  x \in Elements(Tail(r.rest)) \cup Elements(left)
    <2>1. x \in server.accepts
      BY <1>6, <1>7 DEF ServerGoesOn
    <2>2. x \in Elements(r.rest) \cup Elements(r.left)
      BY <1>5, <1>7, <2>1
    <2>3. CASE left = r.left /\ Head(r.rest) \notin server'.accepts
      BY <1>2, <1>7, <2>2, <2>3
    <2>4. CASE left = Append(r.left, Head(r.rest))
      BY <1>2, <1>3, <2>2, <2>4
    <2> QED
      BY <2>3, <2>4
  <1>8. Elements(Tail(r.rest)) \cup Elements(left) \subseteq Elements(r.pending)
    BY <1>2, <1>4, <1>5
  <1>9. Elements(r.pending) \subseteq server'.issued
    BY <1>6 DEF ServerGoesOn
  <1> QED
    BY <1>1, <1>2, <1>4, <1>5, <1>7, <1>8, <1>9

LEMMA RetryAnsweredStands ==
    ASSUME AuthInv, NEW t \in Tab, NEW arrives \in BOOLEAN, NEW lost \in BOOLEAN, retryAnswered(t, arrives, lost)
    PROVE  AuthInv'
  <1>1. PICK r : r = retry[t]
    OBVIOUS
  <1>2. PICK left : left = IF revoke(lost) THEN r.left ELSE Append(r.left, Head(r.rest))
    OBVIOUS
  <1>a. r.rest # <<>> /\ (arrives \/ lost) /\ Revokes(Head(r.rest), arrives)
    BY <1>1 DEF retryAnswered
  <1>3. UNCHANGED <<held, asked, dialog, signedOut, elsewhere>>
    BY DEF retryAnswered
  <1>4. \/ /\ Len(r.rest) > 1
           /\ retry' = [retry EXCEPT ![t].rest = Tail(@), ![t].left = left] /\ UNCHANGED <<due, overwritten>>
        \/ /\ ~(Len(r.rest) > 1)
           /\ due' = [due EXCEPT ![r.store] = left]
           /\ overwritten' = overwritten \cup (Elements(due[r.store]) \ Elements(r.pending))
           /\ retry' = [retry EXCEPT ![t] = Turns(t, r.store)]
    BY <1>1, <1>2 DEF retryAnswered
  <1>b. ServerGoesOn /\ server'.role = server.role /\ (arrives => Head(r.rest) \notin server'.accepts)
    BY <1>a, RevokesGoesOn DEF AuthInv
  <1>c. \/ left = r.left /\ Head(r.rest) \notin server'.accepts
        \/ left = Append(r.left, Head(r.rest))
    BY <1>2, <1>a, <1>b DEF revoke
  <1>5. /\ r \in RetryState /\ r.store \in Store /\ left \in Seq(Token) /\ Tail(r.rest) \in Seq(Token)
        /\ Elements(r.pending) \subseteq server'.issued
        /\ Elements(r.pending) \cap server'.accepts \subseteq Elements(Tail(r.rest)) \cup Elements(left)
        /\ Elements(Tail(r.rest)) \cup Elements(left) \subseteq Elements(r.pending)
        /\ ~(Len(r.rest) > 1) => Elements(Tail(r.rest)) = {}
    BY <1>1, <1>a, <1>b, <1>c, RetryAnsweredFacts
  <1>6. HeldTyped(held') /\ DialogsStand
    BY <1>3, <1>b, <1>5, HeldStanding, DialogsKept
  <1>7. /\ due \in [Store -> Seq(Token)] /\ retry \in [Tab -> RetryState]
        /\ \A s \in Store : Elements(due[s]) \subseteq server'.issued
    BY <1>b, <1>5, KnownStoragesTyped
  <1>8. ASSUME NEW token \in signedOut' \cap server'.accepts PROVE token \in overwritten \/ Waits(token)
    BY <1>3, <1>b, <1>5, <1>8 DEF AuthInv, Issued, RevocationKept, ServerGoesOn
  <1>9. CASE /\ Len(r.rest) > 1
             /\ retry' = [retry EXCEPT ![t].rest = Tail(@), ![t].left = left] /\ UNCHANGED <<due, overwritten>>
    <2>1. PICK q : q = [r EXCEPT !.rest = Tail(r.rest), !.left = left]
      OBVIOUS
    <2>2. retry' = [retry EXCEPT ![t] = q]
      BY <1>1, <1>7, <1>9, <2>1
    <2>3. q \in RetryState /\ q.store = r.store /\ q.pending = r.pending /\ q.rest = Tail(r.rest) /\ q.left = left
      BY <1>b, <1>5, <2>1 DEF RetryState
    <2>4. /\ retry' \in [Tab -> RetryState] /\ Retrying'
          /\ \A u \in Tab : Elements(retry'[u].pending) \subseteq server'.issued
      BY <1>b, <1>5, <2>2, <2>3, RetryingOnward
    <2>5. StoragesTyped
      BY <1>3, <1>b, <1>5, <1>9, <2>4, KnownStoragesTyped DEF StoragesTyped
    <2>6. RevocationKept'
      BY <1>3, <1>8, <1>9 DEF RevocationKept, Waits
    <2> QED
      BY <1>b, <1>5, <1>6, <2>4, <2>5, <2>6, Assembles DEF StoragesStand
  <1>10. CASE /\ ~(Len(r.rest) > 1)
              /\ due' = [due EXCEPT ![r.store] = left]
              /\ overwritten' = overwritten \cup (Elements(due[r.store]) \ Elements(r.pending))
              /\ retry' = [retry EXCEPT ![t] = Turns(t, r.store)]
    <2>1. PICK q : q = Turns(t, r.store)
      OBVIOUS
    <2>2. /\ retry' \in [Tab -> RetryState] /\ Retrying'
          /\ \A u \in Tab : Elements(retry'[u].pending) \subseteq server'.issued
      <3>1. /\ q \in RetryState /\ Elements(q.pending) \subseteq server'.issued
            /\ q.rest # <<>> => q.store \in Store
            /\ Elements(q.rest) = Elements(q.pending) /\ Elements(q.left) = {}
        BY <1>b, <1>5, <2>1, TurnsTyped
      <3>2. retry' = [retry EXCEPT ![t] = q]
        BY <1>10, <2>1
      <3> QED
        BY <1>b, <1>5, <3>1, <3>2, RetryingOnward
    <2>3. due' \in [Store -> Seq(Token)] /\ \A s \in Store : due'[s] = IF s = r.store THEN left ELSE due[s]
      BY <1>b, <1>5, <1>7, <1>10
    <2>4. \A s \in Store : Elements(due'[s]) \subseteq server'.issued
      BY <1>b, <1>5, <1>7, <2>3
    <2>5. StoragesTyped
      BY <1>3, <1>b, <1>5, <2>2, <2>3, <2>4, KnownStoragesTyped DEF StoragesTyped
    <2>6. ASSUME NEW token \in signedOut' \cap server'.accepts PROVE token \in overwritten' \/ Waits(token)'
      <3>1. CASE token \in overwritten \/ \E call \in asked : call.token = token
        BY <1>3, <1>10, <3>1 DEF Waits
      <3>2. CASE \E s \in Store : token \in Elements(due[s])
        <4>1. PICK s \in Store : token \in Elements(due[s])
          BY <3>2
        <4>2. CASE s # r.store
          BY <2>3, <4>1, <4>2 DEF Waits
        <4>3. CASE s = r.store /\ token \notin Elements(r.pending)
          BY <1>10, <4>1, <4>3
        <4>4. CASE s = r.store /\ token \in Elements(r.pending)
          <5>1. token \in Elements(left)
            BY <1>b, <1>5, <1>10, <2>6, <4>4
          <5> QED
            BY <1>b, <1>5, <2>3, <5>1 DEF Waits
        <4> QED
          BY <4>2, <4>3, <4>4
      <3> QED
        BY <1>8, <2>6, <3>1, <3>2 DEF Waits
    <2>7. RevocationKept'
      BY <2>6 DEF RevocationKept
    <2> QED
      BY <1>b, <1>5, <1>6, <2>2, <2>5, <2>7, Assembles DEF StoragesStand
  <1> QED
    BY <1>4, <1>9, <1>10
-----------------------------------------------------------------------------
(* Validation, expiry and the members dialog.                              *)

LEMMA ValidationStands ==
    ASSUME AuthInv, NEW t \in Tab, validateAuthSession(t) \/ \E token \in 1..MaxTokens, lost \in BOOLEAN : validated(t, token, lost)
    PROVE  AuthInv'
  <1>1. /\ held' \in {held, swept(t), clearAuthSession(t)}
        /\ UNCHANGED <<due, asked, retry, dialog, server, signedOut, overwritten, elsewhere>>
    BY DEF validateAuthSession, validated
  <1>2. ServerGoesOn
    BY <1>1, SameServerGoesOn DEF AuthInv
  <1>3. HeldTyped(held')
    BY <1>1, <1>2, StandingHeld DEF AuthInv
  <1> QED
    BY <1>1, <1>2, <1>3, StoragesKept, DialogsKept, Assembles

LEMMA ExpiryStands ==
    ASSUME AuthInv, NEW token, expire(token)
    PROVE  AuthInv'
  <1>1. /\ server' = [server EXCEPT !.accepts = @ \ {token}]
        /\ UNCHANGED <<held, due, asked, retry, dialog, signedOut, overwritten, elsewhere>>
    BY DEF expire
  <1>2. ServerGoesOn /\ server'.role = server.role
    BY <1>1 DEF AuthInv, Types, Issued, ServerGoesOn, ServerState
  <1> QED
    BY <1>1, <1>2, HeldStanding, StoragesKept, DialogsKept, Assembles

\* A step of one dialog that leaves the server and the lists of the others alone.
LEMMA OneDialogStands ==
    ASSUME AuthInv, NEW t \in Tab, NEW d, dialog' = [dialog EXCEPT ![t] = d], storagesOnly,
           server' = server, elsewhere' = elsewhere, ServerGoesOn => HeldTyped(held'),
           ServerGoesOn => GoodDialog(d, t)
    PROVE  AuthInv'
  <1>1. ServerGoesOn
    BY SameServerGoesOn DEF AuthInv
  <1>2. StoragesStand
    BY <1>1, StoragesKept DEF storagesOnly
  <1>3. DialogsStand
    BY <1>1, OneDialog
  <1> QED
    BY <1>1, <1>2, <1>3, Assembles

LEMMA OpenStands ==
    ASSUME AuthInv, NEW t \in Tab, open(t)
    PROVE  AuthInv'
  <1>1. PICK d : d = [Dialog EXCEPT !.open = TRUE, !.needsSignIn = readAuthSession(t) = 0]
    OBVIOUS
  <1>2. /\ held' = swept(t) /\ dialog' = [dialog EXCEPT ![t] = refresh(d, readAuthSession(t))]
        /\ storagesOnly /\ server' = server /\ elsewhere' = elsewhere
    BY <1>1 DEF open, Shows
  <1>3. ASSUME ServerGoesOn PROVE HeldTyped(held') /\ GoodDialog(refresh(d, readAuthSession(t)), t)
    <2>1. /\ readAuthSession(t) \in server'.issued \cup {0} /\ readAuthSession(t) \in Token \cup {0}
          /\ HeldTyped(swept(t))
      BY <1>3, StandingHeld DEF AuthInv, ServerGoesOn
    <2>2. CallTyped(NoCall)
      BY <1>3, StandingDialog DEF AuthInv
    <2>3. Dialog \in DialogState /\ Dialog.call = NoCall
      BY <2>2 DEF Dialog, DialogState, CallTyped, Nobody, Role
    <2>4. d \in DialogState /\ d.call = NoCall
      BY <1>1, <2>3 DEF DialogState
    <2>5. DialogTyped(d)
      BY <2>2, <2>4 DEF DialogTyped, CallTyped
    <2> QED
      BY <1>2, <1>3, <2>1, <2>5, RefreshedDialog DEF AuthInv
  <1> QED
    BY <1>2, <1>3, OneDialogStands

LEMMA CloseStands ==
    ASSUME AuthInv, NEW t \in Tab, onClose(t)
    PROVE  AuthInv'
  <1>1. PICK d : d = [dialog[t] EXCEPT !.open = FALSE]
    OBVIOUS
  <1>2. /\ held' = held /\ dialog' = [dialog EXCEPT ![t] = d]
        /\ storagesOnly /\ server' = server /\ elsewhere' = elsewhere
    BY <1>1 DEF onClose, Shows
  <1>3. ASSUME ServerGoesOn PROVE HeldTyped(held') /\ GoodDialog(d, t)
    <2>1. DialogTyped(dialog[t]) /\ Fresh(dialog[t], server.role, t \in elsewhere)
      BY <1>3, StandingDialog DEF AuthInv, Listing
    <2>2. d \in DialogState /\ ~d.open /\ d.call = dialog[t].call /\ d.request = dialog[t].request
      BY <1>1, <2>1 DEF DialogTyped, DialogState
    <2>3. GoodDialog(d, t)
      BY <1>2, <2>1, <2>2 DEF GoodDialog, DialogTyped, Fresh
    <2> QED
      BY <1>2, <1>3, <2>3, HeldStanding
  <1> QED
    BY <1>2, <1>3, OneDialogStands

LEMMA SaveAccountStands ==
    ASSUME AuthInv, NEW t \in Tab, saveAccount(t)
    PROVE  AuthInv'
  <1>1. PICK d, c : c = Call("signIn", 0) /\ d = [dialog[t] EXCEPT !.request = "busy", !.call = c]
    OBVIOUS
  <1>2. /\ held' = held /\ dialog' = [dialog EXCEPT ![t] = d]
        /\ storagesOnly /\ server' = server /\ elsewhere' = elsewhere
    BY <1>1 DEF saveAccount, Shows
  <1>3. ASSUME ServerGoesOn PROVE HeldTyped(held') /\ GoodDialog(d, t)
    <2>1. DialogTyped(dialog[t])
      BY <1>3, StandingDialog DEF AuthInv
    <2>2. CallTyped(c) /\ c.reply = ""
      BY <1>1, CallsTyped
    <2> QED
      BY <1>1, <1>2, <1>3, <2>1, <2>2, HeldStanding, AskedDialog
  <1> QED
    BY <1>2, <1>3, OneDialogStands

LEMMA ChangeStands ==
    ASSUME AuthInv, NEW t \in Tab, NEW kind \in {"grant", "revoke"}, NEW p \in Person, NEW as \in Role,
           change(t, kind, p, as)
    PROVE  AuthInv'
  <1>1. held' = swept(t) /\ storagesOnly /\ server' = server /\ elsewhere' = elsewhere
    BY DEF change
  <1>2. ASSUME ServerGoesOn PROVE HeldTyped(held')
    BY <1>1, <1>2, StandingHeld DEF AuthInv
  <1>3. CASE readAuthSession(t) = 0
    <2>1. ServerGoesOn
      BY <1>1, SameServerGoesOn DEF AuthInv
    <2>2. dialog' = dialog
      BY <1>3 DEF change
    <2>3. StoragesStand
      BY <1>1, <2>1, StoragesKept DEF storagesOnly
    <2> QED
      BY <1>1, <1>2, <2>1, <2>2, <2>3, DialogsKept, Assembles
  <1>4. CASE readAuthSession(t) # 0
    <2>1. PICK d : d = [dialog[t] EXCEPT !.request = "busy",
                            !.call = [Call(kind, readAuthSession(t)) EXCEPT !.who = p, !.as = as]]
      OBVIOUS
    <2>2. dialog' = [dialog EXCEPT ![t] = d]
      BY <1>4, <2>1 DEF change, Shows
    <2>3. ASSUME ServerGoesOn PROVE GoodDialog(d, t)
      <3>1. readAuthSession(t) \in server'.issued \cup {0} /\ readAuthSession(t) \in Token \cup {0}
        BY <2>3, StandingHeld DEF AuthInv, ServerGoesOn
      <3>2. DialogTyped(dialog[t])
        BY <2>3, StandingDialog DEF AuthInv
      <3> QED
        BY <2>1, <3>1, <3>2, ChangeDialog
    <2> QED
      BY <1>1, <1>2, <2>2, <2>3, OneDialogStands
  <1> QED
    BY <1>3, <1>4

LEMMA LostAnswerStands ==
    ASSUME AuthInv, NEW t \in Tab, lostAnswer(t)
    PROVE  AuthInv'
  <1>1. PICK c, d : c = [dialog[t].call EXCEPT !.reply = "failed"] /\ d = [dialog[t] EXCEPT !.call = c]
    OBVIOUS
  <1>2. /\ held' = held /\ dialog' = [dialog EXCEPT ![t].call.reply = "failed"]
        /\ storagesOnly /\ server' = server /\ elsewhere' = elsewhere
    BY DEF lostAnswer
  <1>3. dialog \in [Tab -> DialogState] /\ dialog[t] \in DialogState
    BY DEF AuthInv, Types
  <1>4. dialog' = [dialog EXCEPT ![t] = d]
    BY <1>1, <1>2, <1>3
  <1>5. ASSUME ServerGoesOn PROVE HeldTyped(held') /\ GoodDialog(d, t)
    <2>1. DialogTyped(dialog[t]) /\ Fresh(dialog[t], server.role, t \in elsewhere)
      BY <1>5, StandingDialog DEF AuthInv, Listing
    <2>2. c \in CallState /\ c.token = dialog[t].call.token /\ c.kind = dialog[t].call.kind /\ c.reply = "failed"
      BY <1>1, <1>3 DEF DialogState, CallState
    <2>3. /\ d \in DialogState /\ d.call = c /\ d.request = dialog[t].request /\ d.open = dialog[t].open
          /\ d.needsSignIn = dialog[t].needsSignIn /\ d.members = dialog[t].members
      BY <1>1, <1>3, <2>2 DEF DialogState
    <2>4. GoodDialog(d, t)
      BY <1>2, <2>1, <2>2, <2>3 DEF GoodDialog, DialogTyped, Fresh
    <2> QED
      BY <1>2, <1>5, <2>4, HeldStanding
  <1> QED
    BY <1>2, <1>4, <1>5, OneDialogStands

\* The server handles the request of a dialog: in each case the reply is on its way.
LEMMA ServedStands ==
    ASSUME AuthInv, NEW t \in Tab, NEW arrives \in BOOLEAN, NEW mine \in BOOLEAN, served(t, arrives, mine)
    PROVE  AuthInv'
  <1>0. /\ dialog \in [Tab -> DialogState] /\ dialog[t] \in DialogState /\ dialog[t].call \in CallState
        /\ Fresh(dialog[t], server.role, t \in elsewhere) /\ server.role \in [Person -> Role]
        /\ server \in ServerState
    BY DEF AuthInv, Types, DialogState, Listing, ServerState
  <1>1. PICK k, c : k = dialog[t] /\ c = k.call
    OBVIOUS
  <1>2. c.kind # "none" /\ k.request = "busy" /\ held' = held /\ storagesOnly
    BY <1>0, <1>1 DEF served, Fresh
  <1>3. ASSUME ServerGoesOn, DialogsStand PROVE AuthInv'
    <2>1. StoragesStand
      BY <1>2, <1>3, StoragesKept DEF storagesOnly
    <2> QED
      BY <1>2, <1>3, <2>1, HeldStanding, Assembles
  <1>4. ASSUME NEW reply \in {"ok", "failed", "rejected"}, Replies(t, reply), ServerGoesOn,
               c.kind = "list" /\ reply = "ok" /\ t \notin elsewhere' => server'.role = server.role,
               \A u \in Tab \ {t} : \/ server'.role = server.role /\ (u \in elsewhere' <=> u \in elsewhere)
                                    \/ u \in elsewhere'
        PROVE  AuthInv'
    <2>1. PICK d : d = [k EXCEPT !.call = [c EXCEPT !.reply = reply, !.list = server.role]]
      OBVIOUS
    <2>2. dialog' = [dialog EXCEPT ![t].call.reply = reply, ![t].call.list = server.role]
      BY <1>4 DEF Replies
    <2>3. dialog' = [dialog EXCEPT ![t] = d]
      BY <1>0, <1>1, <2>1, <2>2 DEF DialogState, CallState
    <2>4. DialogTyped(k)
      BY <1>1, <1>4, StandingDialog DEF AuthInv
    <2>5. GoodDialog(d, t)
      BY <1>0, <1>1, <1>2, <1>4, <2>1, <2>4, RepliedDialog
    <2> QED
      BY <1>3, <1>4, <2>3, <2>5, OneDialog
  <1>5. CASE ~arrives
    <2>1. Replies(t, "failed") /\ server' = server /\ elsewhere' = elsewhere
      BY <1>5 DEF served
    <2>2. ServerGoesOn
      BY <2>1, SameServerGoesOn DEF AuthInv
    <2> QED
      BY <1>4, <2>1, <2>2
  <1>6. CASE arrives /\ c.kind = "signIn"
    <2>1. /\ Issue(mine) /\ elsewhere' = elsewhere
          /\ dialog' = [dialog EXCEPT ![t] = [dialog[t] EXCEPT !.call.reply = "ok", !.call.token = newest(server')]]
      BY <1>1, <1>6 DEF served, Shows
    <2>2. /\ ServerGoesOn /\ server'.role = server.role
          /\ newest(server') \in server'.issued /\ newest(server') \in Token
      BY <2>1, IssueGoesOn DEF AuthInv
    <2>3. PICK e, d : e = [c EXCEPT !.reply = "ok", !.token = newest(server')] /\ d = [k EXCEPT !.call = e]
      OBVIOUS
    <2>4. dialog' = [dialog EXCEPT ![t] = d]
      BY <1>0, <1>1, <2>1, <2>3 DEF DialogState, CallState
    <2>5. e \in CallState /\ e.token = newest(server') /\ e.kind = "signIn"
      BY <1>0, <1>1, <1>6, <2>2, <2>3 DEF CallState
    <2>6. d \in DialogState /\ d.call = e /\ d.request = "busy"
      BY <1>0, <1>1, <1>2, <2>3, <2>5 DEF DialogState
    <2>7. GoodDialog(d, t)
      BY <2>2, <2>5, <2>6 DEF GoodDialog, DialogTyped, Fresh
    <2>8. DialogsStand
      BY <2>1, <2>2, <2>4, <2>7, OneDialog
    <2> QED
      BY <1>3, <2>2, <2>8
  <1>7. CASE arrives /\ c.kind # "signIn" /\ c.token \notin server.accepts
    <2>1. Replies(t, "rejected") /\ server' = server /\ elsewhere' = elsewhere
      BY <1>1, <1>7 DEF served
    <2>2. ServerGoesOn
      BY <2>1, SameServerGoesOn DEF AuthInv
    <2> QED
      BY <1>4, <2>1, <2>2
  <1>8. CASE arrives /\ c.kind = "list" /\ c.token \in server.accepts
    <2>1. Replies(t, "ok") /\ server' = server /\ elsewhere' = elsewhere \ {t}
      BY <1>1, <1>8 DEF served
    <2>2. ServerGoesOn
      BY <2>1, SameServerGoesOn DEF AuthInv
    <2> QED
      BY <1>4, <2>1, <2>2
  <1>9. CASE arrives /\ c.kind \notin {"signIn", "list"} /\ c.token \in server.accepts
    <2>1. /\ Replies(t, "ok") /\ server' = [server EXCEPT !.role[c.who] = c.as]
          /\ elsewhere' = elsewhere \cup (Tab \ {t})
      BY <1>1, <1>9 DEF served
    <2>2. PICK role : role = [server.role EXCEPT ![c.who] = c.as]
      OBVIOUS
    <2>3. role \in [Person -> Role]
      BY <1>0, <1>1, <2>2 DEF CallState
    <2>4. server' = [server EXCEPT !.role = role]
      BY <1>0, <2>1, <2>2 DEF ServerState
    <2>5. ServerGoesOn
      BY <1>0, <2>3, <2>4 DEF AuthInv, Issued, ServerGoesOn, ServerState
    <2> QED
      BY <1>4, <1>9, <2>1, <2>5
  <1> QED
    BY <1>5, <1>6, <1>7, <1>8, <1>9

LEMMA AnsweredStands ==
    ASSUME AuthInv, NEW t \in Tab, answered(t)
    PROVE  AuthInv'
  <1>1. PICK d, c : d = dialog[t] /\ c = d.call
    OBVIOUS
  <1>2. /\ c.reply # ""
        /\ UNCHANGED <<server, elsewhere>> /\ storagesOnly
        /\ \/ held' = clearAuthSession(t)
           \/ held' = writeAuthSession(t, TRUE, c.token)
           \/ held' = held
    BY <1>1 DEF answered
  <1>3. \E e : /\ dialog' = [dialog EXCEPT ![t] = e]
               /\ \/ e = failed(d) \/ e = [failed(d) EXCEPT !.needsSignIn = TRUE]
                  \/ c.reply = "ok" /\ c.kind = "list" /\ e = listed(d)
                  \/ e = refresh(d, c.token)
    BY <1>1 DEF answered, Shows, changed
  <1>4. PICK e : /\ dialog' = [dialog EXCEPT ![t] = e]
                 /\ \/ e = failed(d) \/ e = [failed(d) EXCEPT !.needsSignIn = TRUE]
                    \/ c.reply = "ok" /\ c.kind = "list" /\ e = listed(d)
                    \/ e = refresh(d, c.token)
    BY <1>3
  <1>5. c.token \in Token \cup {0} /\ c.token \in server.issued \cup {0}
    BY <1>1 DEF AuthInv, Types, Issued, DialogState, CallState
  <1>6. ASSUME ServerGoesOn PROVE HeldTyped(held')
    <2>1. c.token \in server'.issued \cup {0}
      BY <1>5, <1>6 DEF ServerGoesOn
    <2> QED
      BY <1>2, <1>5, <1>6, <2>1, StandingHeld, WrittenHeld DEF AuthInv
  <1>7. ASSUME ServerGoesOn PROVE GoodDialog(e, t)
    <2>1. DialogTyped(d) /\ Fresh(d, server.role, t \in elsewhere)
      BY <1>1, <1>7, StandingDialog DEF AuthInv, Listing
    <2>2. c.token \in server'.issued \cup {0} /\ Types /\ Issued
      BY <1>5, <1>7 DEF ServerGoesOn, AuthInv
    <2>3. CASE e = failed(d) \/ e = [failed(d) EXCEPT !.needsSignIn = TRUE]
      BY <1>7, <2>1, <2>2, <2>3, FailedDialog
    <2>4. CASE c.reply = "ok" /\ c.kind = "list" /\ e = listed(d)
      BY <1>1, <1>2, <1>7, <2>1, <2>2, <2>4, ListedDialog
    <2>5. CASE e = refresh(d, c.token)
      BY <1>5, <1>7, <2>1, <2>2, <2>5, RefreshedDialog
    <2> QED
      BY <1>4, <2>3, <2>4, <2>5
  <1> QED
    BY <1>2, <1>4, <1>6, <1>7, OneDialogStands
-----------------------------------------------------------------------------
(* The theorems.                                                           *)

LEMMA AuthStart == Init => AuthInv
  <1> SUFFICES ASSUME Init PROVE AuthInv
    OBVIOUS
  <1>1. /\ NoRetry \in RetryState /\ NoRetry.pending = <<>> /\ NoRetry.rest = <<>> /\ NoRetry.left = <<>>
    BY DEF NoRetry, RetryState
  <1>2. /\ NoCall \in CallState /\ NoCall.token = 0 /\ NoCall.kind = "none" /\ NoCall.reply = ""
    BY DEF NoCall, CallState, Nobody, Role
  <1>3. Dialog \in DialogState /\ Dialog.call = NoCall /\ ~Dialog.open
    BY <1>2 DEF Dialog, DialogState, Nobody, Role
  <1>4. /\ \A s \in Store : held[s] = 0 /\ due[s] = <<>>
        /\ \A t \in Tab : retry[t] = NoRetry /\ dialog[t] = Dialog
        /\ server.issued = {} /\ server.accepts = {} /\ asked = {} /\ signedOut = {}
    BY DEF Init
  <1>5. Types
    <2>1. <<>> \in Seq(Token)
      OBVIOUS
    <2>2. server \in ServerState
      BY DEF Init, ServerState, Nobody, Role
    <2> QED
      BY <1>1, <1>3, <2>1, <2>2 DEF Init, Types
  <1>6. Issued
    BY <1>1, <1>2, <1>3, <1>4, ElementsEmpty DEF Issued
  <1>7. Retrying
    BY <1>1, <1>4, ElementsEmpty DEF Retrying
  <1>8. Listing
    BY <1>2, <1>3, <1>4 DEF Listing, Fresh
  <1>9. RevocationKept
    BY <1>4 DEF RevocationKept
  <1> QED
    BY <1>5, <1>6, <1>7, <1>8, <1>9 DEF AuthInv

LEMMA AuthStep == AuthInv /\ [Next]_vars => AuthInv'
  <1> SUFFICES ASSUME AuthInv, [Next]_vars PROVE AuthInv'
    OBVIOUS
  <1>1. CASE UNCHANGED vars
    <2>1. ServerGoesOn /\ server'.role = server.role
      BY <1>1, SameServerGoesOn DEF AuthInv, vars
    <2> QED
      BY <1>1, <2>1, HeldStanding, StoragesKept, DialogsKept, Assembles DEF vars
  <1>2. CASE \E t \in Tab : TabNext(t)
    <2> SUFFICES ASSUME NEW t \in Tab, TabNext(t) PROVE AuthInv'
      BY <1>2
    <2>1. CASE signOut(t)
      BY <2>1, SignOutStands
    <2>2. CASE retryRevocations(t)
      BY <2>2, RetryRevocationsStands
    <2>3. CASE \E persistent \in BOOLEAN, mine \in BOOLEAN : signIn(t, persistent, mine)
      BY <2>3, SignInStands
    <2>4. CASE \E arrives \in BOOLEAN, lost \in BOOLEAN : retryAnswered(t, arrives, lost)
      BY <2>4, RetryAnsweredStands
    <2>5. CASE validateAuthSession(t) \/ \E token \in 1..MaxTokens, lost \in BOOLEAN : validated(t, token, lost)
      BY <2>5, ValidationStands
    <2>6. CASE open(t) \/ onClose(t) \/ saveAccount(t)
      BY <2>6, OpenStands, CloseStands, SaveAccountStands
    <2>7. CASE lostAnswer(t) \/ answered(t)
      BY <2>7, LostAnswerStands, AnsweredStands
    <2>8. CASE \E p \in Person : revokeMember(t, p) \/ \E as \in Role : inviteMember(t, p, as)
      <3>1. PICK p \in Person : revokeMember(t, p) \/ \E as \in Role : inviteMember(t, p, as)
        BY <2>8
      <3>2. CASE revokeMember(t, p)
        <4>1. change(t, "revoke", p, "none") /\ "none" \in Role
          BY <3>2 DEF revokeMember, Role
        <4> QED
          BY <4>1, ChangeStands
      <3>3. CASE \E as \in Role : inviteMember(t, p, as)
        <4>1. PICK as \in Role : change(t, "grant", p, as)
          BY <3>3 DEF inviteMember
        <4> QED
          BY <4>1, ChangeStands
      <3> QED
        BY <3>1, <3>2, <3>3
    <2>9. CASE \E arrives \in BOOLEAN, mine \in BOOLEAN : served(t, arrives, mine)
      BY <2>9, ServedStands
    <2> QED
      BY <2>1, <2>2, <2>3, <2>4, <2>5, <2>6, <2>7, <2>8, <2>9 DEF TabNext
  <1>3. CASE \E call \in asked, arrives \in BOOLEAN, lost \in BOOLEAN : signOutAnswered(call, arrives, lost)
    BY <1>3, SignOutAnsweredStands
  <1>4. CASE \E token \in 1..MaxTokens : expire(token)
    BY <1>4, ExpiryStands
  <1> QED
    BY <1>1, <1>2, <1>3, <1>4 DEF Next

\* The invariant of the storages and dialogs: whatever tabs sign in and out, retry,
\* lose requests and answers, and change members, in any order.
THEOREM AuthInvariant == Spec => []AuthInv
  BY AuthStart, AuthStep, PTL DEF Spec

\* A token signed out here is refused by the server, on its way to be revoked, or kept
\* in a storage to be revoked, unless a retry overwrote it (auth.ts signOut,
\* retryRevocations), for any number of tabs, tokens and lost requests.
THEOREM RevocationCorrect == Spec => []RevocationKept
  <1>1. AuthInv => RevocationKept
    BY DEF AuthInv
  <1> QED
    BY <1>1, AuthInvariant, PTL

\* A members dialog at rest shows the members the graph has, its own changes included,
\* unless another tab changed them since (RemoteMembersDialog.tsx change, refresh).
THEOREM MembersCorrect == Spec => []MembersListed
  <1>1. AuthInv => MembersListed
    BY DEF AuthInv, Listing, Fresh, MembersListed
  <1> QED
    BY <1>1, AuthInvariant, PTL

\* Both together: what the browser keeps and shows of the account is true whatever
\* requests, answers and sessions are lost (auth.ts, RemoteMembersDialog.tsx).
THEOREM AccountCorrect == Spec => []AccountKept
  BY RevocationCorrect, MembersCorrect, PTL DEF AccountKept
=============================================================================
