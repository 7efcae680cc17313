------------------------------- MODULE Voice -------------------------------
(***************************************************************************)
(* Voice and video calls: every two people at a table hold a peer          *)
(* connection (apps/web/src/useVoiceChat.ts), negotiated with offers and   *)
(* answers that the server relays (socketServer.ts, registerVoice-         *)
(* Participant and 'rtc-signal').  Both sides may offer at the same time   *)
(* ("perfect negotiation"); a socket that is lost comes back under another *)
(* id, while the page and its connections stay.                            *)
(*                                                                         *)
(* A peer connection itself is the browser's: its signaling state, its     *)
(* queue of operations, of which every call here only adds one, and the    *)
(* event that asks for a negotiation are modelled as WebRTC defines them.  *)
(* ICE candidates and the two kinds of tracks are left out: one track      *)
(* stands for whatever a browser sends.                                    *)
(***************************************************************************)
EXTENDS Integers, Sequences, FiniteSets, FiniteSetsExt

CONSTANTS
  Browsers,      \* the pages of the people at the table
  MaxIds,        \* bound on the socket ids given out
  MaxDepartures, \* bound on how often a socket is lost or a page left, in all
  ComesBack,     \* whether a lost socket may come back under its page
  MaxToggles     \* bound on how often a call is joined or left, in all

ASSUME VoiceAssumption ==
  /\ IsFiniteSet(Browsers) /\ Cardinality(Browsers) >= 2
  /\ MaxIds \in Nat \ {0} /\ MaxDepartures \in Nat /\ MaxToggles \in Nat
  /\ ComesBack \in BOOLEAN

VARIABLES
  id,            \* the socket id of each page, Offline without a socket
  usedIds,       \* the socket ids given out so far
  participants,  \* voiceParticipants: socket ids; a lost one stays until noticed
  inbox,         \* what the server has sent to each page, in order
  page,          \* what each page keeps: see NewPage
  departures,    \* how often a socket was lost or a page left
  toggles        \* how often a call was joined or left

vars == <<id, usedIds, participants, inbox, page, departures, toggles>>

Ids == 1 .. MaxIds
Offline == 0
NoPc == 0

\* inCall: localStreamRef is set.  pc: every connection the page ever made.
\* pcs: pcsRef and negotiationRef, the connection the page has for a peer now.
NewPage == [inCall |-> FALSE, pc |-> <<>>, pcs |-> [p \in Ids |-> NoPc]]

Connected(b) == id[b] # Offline
Pcs(b) == {n \in DOMAIN page[b].pc : page[b].pc[n].sig # "closed"}

(***************************************************************************)
(* Connections of a page.  `remote` is the connection the last description *)
(* that was applied came from; `offered` and `told` are whether the page   *)
(* was sending in its offer and in the last exchange that was completed,   *)
(* `hears` what the peer said of itself.                                   *)
(***************************************************************************)
NoRemote == <<>>

NewPc(me, p, sending) ==
  [peer |-> p, polite |-> me < p, makingOffer |-> FALSE,
   sig |-> "stable", needed |-> FALSE, chain |-> <<>>,
   sends |-> sending, offered |-> FALSE, told |-> FALSE,
   hears |-> FALSE, remote |-> NoRemote]

ClosedPc == [NewPc(0, 0, FALSE) EXCEPT !.sig = "closed"]

\* Mutant: nobody is polite.
NobodyPolite(g, me, p) ==
  [g EXCEPT !.pc = Append(@, [NewPc(me, p, g.inCall) EXCEPT !.polite = FALSE]),
            !.pcs[p] = Len(g.pc) + 1]

\* Mutant: what the page is sending already is not added to a new connection.
WithoutTracks(g, me, p) ==
  [g EXCEPT !.pc = Append(@, NewPc(me, p, FALSE)), !.pcs[p] = Len(g.pc) + 1]

\* A connection the page had for p is forgotten, not closed.
CreatePeerConnection(g, me, p) ==
  [g EXCEPT !.pc = Append(@, NewPc(me, p, g.inCall)), !.pcs[p] = Len(g.pc) + 1]

ClosePeer(g, p) ==
  IF g.pcs[p] = NoPc THEN g ELSE [g EXCEPT !.pc[g.pcs[p]] = ClosedPc, !.pcs[p] = NoPc]

Current(g) == {g.pcs[p] : p \in Ids} \ {NoPc}

SetSending(g, on) ==
  [g EXCEPT !.inCall = on,
            !.pc = [n \in DOMAIN g.pc |->
                      IF n \in Current(g) THEN [g.pc[n] EXCEPT !.sends = on] ELSE g.pc[n]]]

\* Something new is to be negotiated: the connection is at rest, and the event
\* has not fired since it was last negotiated.
Asks(q) == q.sig = "stable" /\ q.chain = <<>> /\ ~q.needed /\ q.sends # q.told

(***************************************************************************)
(* The server.                                                             *)
(***************************************************************************)
\* Everybody registered but b is told m.
TellOthers(b, m) ==
  [c \in Browsers |-> IF c # b /\ id[c] \in participants THEN Append(inbox[c], m) ELSE inbox[c]]

\* 'rtc-signal': relayed between two that are registered; to a lost socket it
\* goes nowhere.  What a page without a socket emits is held back until it has
\* one, and dropped then: it arrives before the page has joined the table.
Relay(b, p, m) ==
  [c \in Browsers |->
     IF c # b /\ id[c] = p /\ {id[b], p} \subseteq participants
     THEN Append(inbox[c], [m EXCEPT !.from = id[b]]) ELSE inbox[c]]

\* A socket connects and joins the table; socket ids are in no order.
Connect(b) ==
  /\ ~Connected(b)
  /\ Pcs(b) = {} \/ ComesBack
  /\ \E i \in Ids \ usedIds :
       /\ id' = [id EXCEPT ![b] = i]
       /\ usedIds' = usedIds \cup {i}
       /\ participants' = participants \cup {i}
       /\ inbox' = [TellOthers(b, [type |-> "joined", from |-> i])
                      EXCEPT ![b] = <<[type |-> "peers", ids |-> participants]>>]
  /\ UNCHANGED <<page, departures, toggles>>

\* A socket is lost; the page stays, and the server does not know yet.
LoseSocket(b) ==
  /\ Connected(b) /\ departures < MaxDepartures
  /\ departures' = departures + 1
  /\ id' = [id EXCEPT ![b] = Offline]
  /\ inbox' = [inbox EXCEPT ![b] = <<>>]
  /\ UNCHANGED <<usedIds, participants, page, toggles>>

\* The page is left, or closed: its socket goes with it, and so does the call.
\* Nothing its connections would still say is relayed, so they count as closed.
LeavePage(b) ==
  /\ page[b] # NewPage /\ departures < MaxDepartures
  /\ departures' = departures + 1
  /\ id' = [id EXCEPT ![b] = Offline]
  /\ inbox' = [inbox EXCEPT ![b] = <<>>]
  /\ page' = [page EXCEPT ![b] = [NewPage EXCEPT !.pc = [n \in DOMAIN page[b].pc |-> ClosedPc]]]
  /\ UNCHANGED <<usedIds, participants, toggles>>

Gone(i) == \A b \in Browsers : id[b] # i

\* removeVoiceParticipant.
ServerNotices(i) ==
  /\ i \in participants /\ Gone(i)
  /\ participants' = participants \ {i}
  /\ inbox' = [c \in Browsers |->
                 IF id[c] \in participants
                 THEN Append(inbox[c], [type |-> "left", from |-> i]) ELSE inbox[c]]
  /\ UNCHANGED <<id, usedIds, page, departures, toggles>>

(***************************************************************************)
(* What a page does.                                                       *)
(***************************************************************************)
Sets(b, g) == page' = [page EXCEPT ![b] = g]

JoinCall(b) ==
  /\ ~page[b].inCall /\ toggles < MaxToggles
  /\ Sets(b, SetSending(page[b], TRUE))
  /\ toggles' = toggles + 1
  /\ UNCHANGED <<id, usedIds, participants, inbox, departures>>

LeaveCall(b) ==
  /\ page[b].inCall /\ toggles < MaxToggles
  /\ Sets(b, SetSending(page[b], FALSE))
  /\ toggles' = toggles + 1
  /\ UNCHANGED <<id, usedIds, participants, inbox, departures>>

Queue(g, n, op) == [g EXCEPT !.pc[n].chain = Append(@, op)]

\* An offer that collides with the own one is ignored by the impolite side.
IgnoresOffer(q) == ~q.polite /\ (q.makingOffer \/ q.sig # "stable")

\* onSignal, with the connection made first if there is none.
OnSignal(g, me, m) ==
  LET h == IF g.pcs[m.from] = NoPc THEN CreatePeerConnection(g, me, m.from) ELSE g
      n == h.pcs[m.from]
  IN  IF m.type = "offer" /\ IgnoresOffer(h.pc[n]) THEN h
      ELSE Queue(h, n, [op |-> IF m.type = "offer" THEN "setRemoteOffer" ELSE "setRemoteAnswer",
                        sends |-> m.sends, remote |-> m.pc])

Receive(b) ==
  /\ inbox[b] # <<>>
  /\ LET m == Head(inbox[b])
         g == page[b]
     IN  Sets(b, CASE m.type = "peers"  -> FoldSet(LAMBDA p, h : CreatePeerConnection(h, id[b], p),
                                                   g, m.ids)
                   [] m.type = "joined" -> CreatePeerConnection(g, id[b], m.from)
                   [] m.type = "left"   -> ClosePeer(g, m.from)
                   [] OTHER             -> OnSignal(g, id[b], m))
  /\ inbox' = [inbox EXCEPT ![b] = Tail(@)]
  /\ UNCHANGED <<id, usedIds, participants, departures, toggles>>

(***************************************************************************)
(* The browser.                                                            *)
(***************************************************************************)
\* onnegotiationneeded, up to its first await.  The flag it sets is that of the
\* connection the page has for the peer now.
OnNegotiationNeeded(b, n) ==
  LET g == page[b]
      m == g.pcs[g.pc[n].peer]
      fired == [g EXCEPT !.pc[n].needed = TRUE]
  IN
  /\ Asks(g.pc[n])
  /\ Sets(b, IF m = NoPc THEN fired
             ELSE Queue([fired EXCEPT !.pc[m].makingOffer = TRUE], n,
                        [op |-> "createOffer", neg |-> m]))
  /\ UNCHANGED <<id, usedIds, participants, inbox, departures, toggles>>

\* The operation at the head of the queue is done, and the handler that waited
\* for it goes on to its next await.
Then(q, op) == [q EXCEPT !.chain = Append(Tail(@), op)]
Over(q) == [q EXCEPT !.chain = Tail(@)]
Settles(q, sending) == [Over(q) EXCEPT !.sig = "stable", !.needed = FALSE, !.told = sending]
Says(b, n, type, sending) ==
  Relay(b, page[b].pc[n].peer, [type |-> type, from |-> Offline, pc |-> <<b, n>>, sends |-> sending])

Doing(b, n, name) == page[b].pc[n].chain # <<>> /\ Head(page[b].pc[n].chain).op = name
Puts(b, n, q) == Sets(b, [page[b] EXCEPT !.pc[n] = q])
ServerUnchanged == UNCHANGED <<id, usedIds, participants, departures, toggles>>

CreateOffer(b, n) ==
  /\ Doing(b, n, "createOffer")
  /\ LET q == page[b].pc[n] IN
     Puts(b, n, Then(q, [op |-> "setLocalOffer", sends |-> q.sends, neg |-> Head(q.chain).neg]))
  /\ UNCHANGED inbox /\ ServerUnchanged

\* Refused while an offer of the peer waits for its answer.
SetLocalOffer(b, n) ==
  /\ Doing(b, n, "setLocalOffer")
  /\ LET q    == page[b].pc[n]
         op   == Head(q.chain)
         set  == q.sig # "have-remote-offer"
         next == IF set THEN [Over(q) EXCEPT !.sig = "have-local-offer", !.offered = op.sends]
                        ELSE Over(q)
     IN  /\ Sets(b, [page[b] EXCEPT !.pc[n] = next, !.pc[op.neg].makingOffer = FALSE])
         /\ inbox' = IF set THEN Says(b, n, "offer", op.sends) ELSE inbox
  /\ ServerUnchanged

\* An own offer that is still open is taken back.
SetRemoteOffer(b, n) ==
  /\ Doing(b, n, "setRemoteOffer")
  /\ LET q  == page[b].pc[n]
         op == Head(q.chain)
     IN  Puts(b, n, [Then(q, [op |-> "createAnswer"])
                       EXCEPT !.sig = "have-remote-offer", !.hears = op.sends, !.remote = op.remote])
  /\ UNCHANGED inbox /\ ServerUnchanged

CreateAnswer(b, n) ==
  /\ Doing(b, n, "createAnswer")
  /\ LET q == page[b].pc[n] IN
     Puts(b, n, IF q.sig = "have-remote-offer"
                THEN Then(q, [op |-> "setLocalAnswer", sends |-> q.sends]) ELSE Over(q))
  /\ UNCHANGED inbox /\ ServerUnchanged

SetLocalAnswer(b, n) ==
  /\ Doing(b, n, "setLocalAnswer")
  /\ LET q == page[b].pc[n]
         set == q.sig = "have-remote-offer"
         sending == Head(q.chain).sends
     IN  /\ Puts(b, n, IF set THEN Settles(q, sending) ELSE Over(q))
         /\ inbox' = IF set THEN Says(b, n, "answer", sending) ELSE inbox
  /\ ServerUnchanged

\* An answer to an offer that is not open is an error nobody handles.
SetRemoteAnswer(b, n) ==
  /\ Doing(b, n, "setRemoteAnswer")
  /\ LET q  == page[b].pc[n]
         op == Head(q.chain)
     IN  Puts(b, n, IF q.sig = "have-local-offer"
                    THEN [Settles(q, q.offered) EXCEPT !.hears = op.sends, !.remote = op.remote]
                    ELSE Over(q))
  /\ UNCHANGED inbox /\ ServerUnchanged

Operate(b, n) ==
  \/ CreateOffer(b, n) \/ SetLocalOffer(b, n) \/ SetRemoteOffer(b, n)
  \/ CreateAnswer(b, n) \/ SetLocalAnswer(b, n) \/ SetRemoteAnswer(b, n)

\* The two ends had found each other, and the other one was closed.
Dead(q) ==
  /\ q.remote # NoRemote /\ q.sig # "have-remote-offer"
  /\ page[q.remote[1]].pc[q.remote[2]].sig = "closed"

\* onconnectionstatechange to "failed": the page closes the connection it has
\* for that peer now; the one that failed is of no use any more either way.
ConnectionFails(b, n) ==
  /\ Dead(page[b].pc[n])
  /\ LET g == ClosePeer(page[b], page[b].pc[n].peer) IN
     Sets(b, [g EXCEPT !.pc[n] = ClosedPc])
  /\ UNCHANGED <<id, usedIds, participants, inbox, departures, toggles>>

-----------------------------------------------------------------------------
Init ==
  /\ id = [b \in Browsers |-> Offline]
  /\ usedIds = {} /\ participants = {}
  /\ inbox = [b \in Browsers |-> <<>>]
  /\ page = [b \in Browsers |-> NewPage]
  /\ departures = 0 /\ toggles = 0

\* What nobody decides: messages arrive, the browsers do what they are asked
\* to, a connection without its other end fails, a lost socket is noticed.
ByItself ==
  \/ \E b \in Browsers :
       \/ Receive(b)
       \/ \E n \in Pcs(b) : OnNegotiationNeeded(b, n) \/ Operate(b, n) \/ ConnectionFails(b, n)
  \/ \E i \in Ids : ServerNotices(i)

Next ==
  \/ \E b \in Browsers :
       Connect(b) \/ LoseSocket(b) \/ LeavePage(b) \/ JoinCall(b) \/ LeaveCall(b)
  \/ ByItself

Spec == Init /\ [][Next]_vars

\* What happens by itself does not stop happening while there is something left
\* of it, in whatever order.  Nobody has to come, to go or to join a call.
FairSpec == Spec /\ WF_vars(ByItself)

(***************************************************************************)
(* Properties.                                                             *)
(***************************************************************************)
AtRest(q) == q.chain = <<>> /\ ~Asks(q) /\ ~Dead(q)

\* Nothing is under way: no message, no operation, no lost socket unnoticed.
Settled ==
  /\ \A i \in participants : ~Gone(i)
  /\ \A b \in Browsers : inbox[b] = <<>> /\ \A n \in Pcs(b) : AtRest(page[b].pc[n])

AtTable(b, c) == b # c /\ Connected(b) /\ Connected(c)
Has(b, c) == page[b].pcs[id[c]] # NoPc
PcTo(b, c) == page[b].pc[page[b].pcs[id[c]]]

\* Everybody at the table has a connection to everybody else as soon as nothing
\* is under way: what useVoiceChat.ts says of itself at the top.  It does not
\* hold for a page whose socket comes back (ComesBack): of two connections to a
\* peer, the old one takes the new one with it when it fails.
ReceiveReady == Settled => \A b, c \in Browsers : AtTable(b, c) => Has(b, c)

\* Once nothing is under way, two connections that wait for nothing are the two
\* ends of one connection, and each knows whether the other is sending: no
\* offer that was ignored, taken back or overtaken leaves a player who thinks
\* that they are heard and is not (onSignal, onnegotiationneeded).
StableMeansAgreed ==
  Settled => \A b, c \in Browsers :
    AtTable(b, c) /\ Has(b, c) /\ Has(c, b)
      /\ PcTo(b, c).sig = "stable" /\ PcTo(c, b).sig = "stable"
      => /\ PcTo(b, c).hears = page[c].inCall
         /\ PcTo(b, c).remote \in {NoRemote, <<c, page[c].pcs[id[b]]>>}

\* Both hear each other as soon as nothing is under way: "both ends always
\* converge on the same outcome" (onSignal).  It does not hold: an offer that
\* arrives while the answer to the own one is being applied is ignored for good.
BothAreHeard ==
  Settled => \A b, c \in Browsers :
    AtTable(b, c) /\ Has(b, c) /\ Has(c, b) => PcTo(b, c).hears = page[c].inCall

\* Whatever two players at the table do at the same time, the polite one hears
\* the impolite one in the end: an offer of the impolite side gets through,
\* whichever state it finds the other one in (onSignal).
ImpoliteIsHeard ==
  \A b, c \in Browsers :
    <>[](AtTable(b, c) /\ id[b] < id[c]
           => Has(b, c) /\ PcTo(b, c).hears = page[c].inCall)
=============================================================================
