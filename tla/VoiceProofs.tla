---------------------------- MODULE VoiceProofs ----------------------------
(***************************************************************************)
(* Voice for any number of people at a table, socket ids, departures and   *)
(* toggles, as long as a socket that is lost does not come back under its  *)
(* page: nothing is under way, so what both ends are told is true.         *)
(*                                                                         *)
(* Negotiates says how far the offers of two connections have come: s is   *)
(* where the last one of the polite side is, t that of the impolite one,   *)
(* u and v are the signals on their way from one to the other.  View is    *)
(* the connection a page has for a peer, or would have if it were made     *)
(* now: two pages that do not know each other yet talk over connections    *)
(* nothing was said on, and neither introduction nor departure of anybody  *)
(* else makes a difference to them.  Talk is that the Views of two people  *)
(* at the table are Linked by what their inboxes carry, Half what a page   *)
(* refers to at the other one.                                             *)
(***************************************************************************)
EXTENDS Voice, SumsProofs

Ends == Browsers \X Nat

Operations ==
  [op : {"createOffer"}, neg : Nat]
    \cup [op : {"setLocalOffer"}, sends : BOOLEAN, neg : Nat]
    \cup [op : {"setRemoteOffer", "setRemoteAnswer"}, sends : BOOLEAN, remote : Ends]
    \cup [op : {"createAnswer"}]
    \cup [op : {"setLocalAnswer"}, sends : BOOLEAN]

Connections ==
  [peer : Nat, polite : BOOLEAN, makingOffer : BOOLEAN,
   sig : {"stable", "have-local-offer", "have-remote-offer", "closed"},
   needed : BOOLEAN, chain : Seq(Operations),
   sends : BOOLEAN, offered : BOOLEAN, told : BOOLEAN, hears : BOOLEAN,
   remote : Ends \cup {NoRemote}]

Pages == [inCall : BOOLEAN, pc : Seq(Connections), pcs : [Ids -> Nat]]

Signals == [type : {"offer", "answer"}, from : Nat, pc : Ends, sends : BOOLEAN]

Messages ==
  [type : {"peers"}, ids : SUBSET Ids] \cup [type : {"joined", "left"}, from : Ids] \cup Signals

-----------------------------------------------------------------------------
(* One negotiation, seen from outside.                                     *)

Places == {"none", "sent", "ignored", "arrived", "answering", "replied", "answered"}

Own == {"createOffer", "setLocalOffer"}
Answering == {"createAnswer", "setLocalAnswer"}

Idle(q) == Len(q.chain) = 0
Does(q, names) == Len(q.chain) = 1 /\ q.chain[1].op \in names
DoesBoth(q, first, second) ==
  Len(q.chain) = 2 /\ q.chain[1].op \in first /\ q.chain[2].op \in second

PolitePhase(p, s, t) ==
  /\ p.sig = IF t = "answering" THEN "have-remote-offer"
             ELSE IF s # "none" THEN "have-local-offer" ELSE "stable"
  /\ \/ Idle(p) /\ ~p.makingOffer /\ t \notin {"arrived", "answering"} /\ s # "answered"
     \/ Does(p, Own) /\ p.makingOffer /\ s = "none" /\ t \notin {"arrived", "answering"}
     \/ Does(p, {"setRemoteOffer"}) /\ ~p.makingOffer /\ t = "arrived" /\ s # "answered"
     \/ Does(p, Answering) /\ ~p.makingOffer /\ t = "answering"
     \/ /\ Does(p, {"setRemoteAnswer"}) /\ ~p.makingOffer
        /\ s = "answered" /\ t \notin {"arrived", "answering"}
     \/ DoesBoth(p, Own, {"setRemoteOffer"}) /\ p.makingOffer /\ s = "none" /\ t = "arrived"
     \/ DoesBoth(p, {"setRemoteOffer"}, {"setLocalOffer"}) /\ p.makingOffer /\ s = "none" /\ t = "arrived"
     \/ DoesBoth(p, {"setLocalOffer"}, {"createAnswer"}) /\ p.makingOffer /\ t = "answering"
     \/ DoesBoth(p, {"setRemoteAnswer"}, {"setRemoteOffer"}) /\ ~p.makingOffer /\ s = "answered" /\ t = "arrived"

ImpolitePhase(q, s, t) ==
  /\ q.sig = IF s = "answering" THEN "have-remote-offer"
             ELSE IF t # "none" THEN "have-local-offer" ELSE "stable"
  /\ \/ Idle(q) /\ ~q.makingOffer /\ s \notin {"arrived", "answering"} /\ t # "answered"
     \/ Does(q, Own) /\ q.makingOffer /\ t = "none" /\ s \notin {"arrived", "answering"}
     \/ Does(q, {"setRemoteOffer"}) /\ ~q.makingOffer /\ s = "arrived"
     \/ Does(q, Answering) /\ ~q.makingOffer /\ s = "answering"
     \/ Does(q, {"setRemoteAnswer"}) /\ ~q.makingOffer /\ t = "answered"

Together(s, t) ==
  /\ t = "answering" => s = "none"
  /\ s \in {"arrived", "answering"} => t = "none"
  /\ s = "replied" => t \in {"none", "sent"}
  /\ s = "answered" => t \in {"none", "sent", "arrived"}
  /\ t # "ignored"

PoliteSays(u, p, s, t) ==
  /\ s = "sent" => Len(u) > 0 /\ u[Len(u)].type = "offer" /\ u[Len(u)].sends = p.offered
  /\ t = "replied" => \E k \in 1 .. Len(u) : u[k].type = "answer"
  /\ \A k \in 1 .. Len(u) :
       \/ /\ u[k].type = "answer" /\ t = "replied" /\ u[k].sends = p.told
          /\ \A l \in 1 .. Len(u) : l > k => s = "sent" /\ l = Len(u)
       \/ /\ u[k].type = "offer"
          /\ \/ s = "sent" /\ k = Len(u)
             \/ t = "answering"
             \/ \E l \in 1 .. Len(u) : l > k /\ u[l].type = "answer"

ImpoliteSays(v, q, s, t) ==
  /\ s = "replied" => \E k \in 1 .. Len(v) : v[k].type = "answer"
  /\ t = "sent" => \E k \in 1 .. Len(v) : v[k].type = "offer"
  /\ \A k \in 1 .. Len(v) :
       \/ v[k].type = "answer" /\ k = 1 /\ s = "replied" /\ v[k].sends = q.told
       \/ v[k].type = "offer" /\ k = Len(v) /\ t = "sent" /\ v[k].sends = q.offered

Knows(p, q, s, t) ==
  /\ t \in {"answering", "replied", "answered"} => p.hears = q.offered
  /\ t \notin {"answering", "replied", "answered"} /\ s \notin {"replied", "answered"} => p.hears = q.told
  /\ s \in {"answering", "replied", "answered"} => q.hears = p.offered
  /\ s \notin {"answering", "replied", "answered"} /\ t \notin {"replied", "answered"} => q.hears = p.told

Learns(p, q) ==
  \A k \in 1 .. Len(p.chain) :
    /\ p.chain[k].op = "setRemoteOffer" => p.chain[k].sends = q.offered
    /\ p.chain[k].op = "setRemoteAnswer" => p.chain[k].sends = q.told

Waits(q) == q.sig = "stable" /\ q.needed => q.makingOffer

Negotiates(p, q, u, v, s, t) ==
  /\ PolitePhase(p, s, t) /\ ImpolitePhase(q, s, t) /\ Together(s, t)
  /\ PoliteSays(u, p, s, t) /\ ImpoliteSays(v, q, s, t)
  /\ Knows(p, q, s, t) /\ Learns(p, q) /\ Learns(q, p) /\ Waits(p) /\ Waits(q)

Linked(p, q, u, v, first) ==
  \E s, t \in Places : IF first THEN Negotiates(p, q, u, v, s, t) ELSE Negotiates(q, p, v, u, s, t)

-----------------------------------------------------------------------------
LEMMA AfterOne ==
  ASSUME NEW ch \in Seq(Operations), ch # <<>>, NEW op \in Operations, NEW d, d = Append(Tail(ch), op)
  PROVE  /\ Len(ch) = 1 => Len(d) = 1 /\ d[1] = op
         /\ Len(ch) = 2 => Len(d) = 2 /\ d[1] = ch[2] /\ d[2] = op
OBVIOUS

LEMMA OneMore ==
  ASSUME NEW ch \in Seq(Operations), NEW op \in Operations
  PROVE  /\ Len(ch) = 0 => Len(Append(ch, op)) = 1 /\ Append(ch, op)[1] = op
         /\ Len(ch) = 1 => /\ Len(Append(ch, op)) = 2
                           /\ Append(ch, op)[1] = ch[1] /\ Append(ch, op)[2] = op
<1>1. /\ Append(ch, op) \in Seq(Operations) /\ Len(Append(ch, op)) = Len(ch) + 1
      /\ Append(ch, op)[Len(ch) + 1] = op
      /\ \A k \in 1 .. Len(ch) : Append(ch, op)[k] = ch[k]
  OBVIOUS
<1>2. \A n \in Nat : (n = 0 => n + 1 = 1) /\ (n = 1 => n + 1 = 2 /\ 1 \in 1 .. n)
  OBVIOUS
<1>3. Len(ch) \in Nat
  OBVIOUS
<1>. QED
  BY <1>1, <1>2, <1>3

LEMMA BeginsOffer ==
  ASSUME NEW p \in Connections, NEW q \in Connections, NEW u \in Seq(Signals), NEW v \in Seq(Signals),
         NEW first \in BOOLEAN, Linked(p, q, u, v, first),
         p.sig = "stable", p.chain = <<>>, NEW op \in Operations, op.op = "createOffer", NEW d,
         d = [p EXCEPT !.needed = TRUE, !.makingOffer = TRUE, !.chain = Append(@, op)]
  PROVE  Linked(d, q, u, v, first)
<1>1. /\ Len(d.chain) = 1 /\ d.chain[1] = op /\ d.makingOffer /\ d.sig = "stable"
      /\ d.offered = p.offered /\ d.told = p.told /\ d.hears = p.hears
  BY DEF Connections
<1>. USE DEF Idle, Does, DoesBoth, Own, Answering
<1>2. CASE first
  <2>1. PICK s \in Places, t \in Places : Negotiates(p, q, u, v, s, t)
    BY <1>2 DEF Linked
  <2>2. Negotiates(d, q, u, v, s, t)
    <3>1. PolitePhase(d, s, t)
      BY <1>1, <2>1 DEF Negotiates, PolitePhase
    <3>2. ImpolitePhase(q, s, t) /\ Together(s, t) /\ ImpoliteSays(v, q, s, t) /\ Waits(q)
      BY <2>1 DEF Negotiates
    <3>3. PoliteSays(u, d, s, t) /\ Knows(d, q, s, t) /\ Learns(d, q) /\ Learns(q, d) /\ Waits(d)
      BY <1>1, <2>1 DEF Negotiates, PoliteSays, Knows, Learns, Waits
    <3>. QED
      BY <3>1, <3>2, <3>3 DEF Negotiates
  <2>. QED
    BY <1>2, <2>2 DEF Linked
<1>3. CASE ~first
  <2>1. PICK s \in Places, t \in Places : Negotiates(q, p, v, u, s, t)
    BY <1>3 DEF Linked
  <2>2. Negotiates(q, d, v, u, s, t)
    <3>1. ImpolitePhase(d, s, t)
      BY <1>1, <2>1 DEF Negotiates, ImpolitePhase
    <3>2. PolitePhase(q, s, t) /\ Together(s, t) /\ PoliteSays(v, q, s, t) /\ Waits(q)
      BY <2>1 DEF Negotiates
    <3>3. ImpoliteSays(u, d, s, t) /\ Knows(q, d, s, t) /\ Learns(d, q) /\ Learns(q, d) /\ Waits(d)
      BY <1>1, <2>1 DEF Negotiates, ImpoliteSays, Knows, Learns, Waits
    <3>. QED
      BY <3>1, <3>2, <3>3 DEF Negotiates
  <2>. QED
    BY <1>3, <2>2 DEF Linked
<1>. QED
  BY <1>2, <1>3

\* createOffer.
LEMMA MakesOffer ==
  ASSUME NEW p \in Connections, NEW q \in Connections,
         NEW u \in Seq(Signals), NEW v \in Seq(Signals),
         NEW first \in BOOLEAN, Linked(p, q, u, v, first),
         p.chain # <<>>, p.chain[1].op = "createOffer",
         NEW op \in Operations, op.op = "setLocalOffer", NEW d, d = Then(p, op)
  PROVE  Linked(d, q, u, v, first)
<1>0. p.chain \in Seq(Operations) /\ d.chain = Append(Tail(p.chain), op)
  BY DEF Connections, Then
<1>1. /\ (Len(p.chain) = 1 => Len(d.chain) = 1 /\ d.chain[1] = op)
      /\ (Len(p.chain) = 2 => Len(d.chain) = 2 /\ d.chain[1] = p.chain[2] /\ d.chain[2] = op)
      /\ d.sig = p.sig /\ d.makingOffer = p.makingOffer /\ d.offered = p.offered /\ d.told = p.told /\ d.hears = p.hears /\ d.needed = p.needed
  <2>1. /\ (Len(p.chain) = 1 => Len(d.chain) = 1 /\ d.chain[1] = op)
        /\ (Len(p.chain) = 2 => Len(d.chain) = 2 /\ d.chain[1] = p.chain[2] /\ d.chain[2] = op)
    BY <1>0, AfterOne
  <2>2. /\ d.sig = p.sig /\ d.makingOffer = p.makingOffer /\ d.offered = p.offered /\ d.told = p.told /\ d.hears = p.hears /\ d.needed = p.needed
    BY DEF Connections, Signals, Then
  <2>. QED
    BY <2>1, <2>2
<1>. USE DEF Idle, Does, DoesBoth, Own, Answering
<1>2. CASE first
  <2>1. PICK s \in Places, t \in Places : Negotiates(p, q, u, v, s, t)
    BY <1>2 DEF Linked
  <2>2. Negotiates(d, q, u, v, s, t)
    <3>1. PolitePhase(d, s, t)
      BY <1>1, <2>1 DEF Negotiates, Together, PolitePhase, ImpolitePhase
    <3>2. ImpolitePhase(q, s, t) /\ Together(s, t)
      BY <1>1, <2>1 DEF Negotiates, Together, PolitePhase, ImpolitePhase
    <3>3. PoliteSays(u, d, s, t)
      BY <1>1, <2>1 DEF Negotiates, Together, PolitePhase, ImpolitePhase, PoliteSays
    <3>4. ImpoliteSays(v, q, s, t)
      BY <1>1, <2>1 DEF Negotiates, Together, ImpoliteSays
    <3>5. Knows(d, q, s, t)
      BY <1>1, <2>1 DEF Negotiates, Together, PolitePhase, ImpolitePhase, PoliteSays, ImpoliteSays, Knows, Learns
    <3>6. Learns(d, q) /\ Learns(q, d)
      BY <1>1, <2>1 DEF Negotiates, Together, PolitePhase, ImpolitePhase, PoliteSays, ImpoliteSays, Knows, Learns
    <3>7. Waits(d) /\ Waits(q)
      BY <1>1, <2>1 DEF Negotiates, Waits, PolitePhase, ImpolitePhase
    <3>. QED
      BY <3>1, <3>2, <3>3, <3>4, <3>5, <3>6, <3>7 DEF Negotiates
  <2>. QED
    BY <1>2, <2>2 DEF Linked, Places
<1>3. CASE ~first
  <2>1. PICK s \in Places, t \in Places : Negotiates(q, p, v, u, s, t)
    BY <1>3 DEF Linked
  <2>2. Negotiates(q, d, v, u, s, t)
    <3>1. PolitePhase(q, s, t)
      BY <1>1, <2>1 DEF Negotiates, Together, PolitePhase, ImpolitePhase
    <3>2. ImpolitePhase(d, s, t) /\ Together(s, t)
      BY <1>1, <2>1 DEF Negotiates, Together, PolitePhase, ImpolitePhase
    <3>3. PoliteSays(v, q, s, t)
      BY <1>1, <2>1 DEF Negotiates, Together, PolitePhase, ImpolitePhase, PoliteSays
    <3>4. ImpoliteSays(u, d, s, t)
      BY <1>1, <2>1 DEF Negotiates, Together, ImpoliteSays
    <3>5. Knows(q, d, s, t)
      BY <1>1, <2>1 DEF Negotiates, Together, PolitePhase, ImpolitePhase, PoliteSays, ImpoliteSays, Knows, Learns
    <3>6. Learns(q, d) /\ Learns(d, q)
      BY <1>1, <2>1 DEF Negotiates, Together, PolitePhase, ImpolitePhase, PoliteSays, ImpoliteSays, Knows, Learns
    <3>7. Waits(q) /\ Waits(d)
      BY <1>1, <2>1 DEF Negotiates, Waits, PolitePhase, ImpolitePhase
    <3>. QED
      BY <3>1, <3>2, <3>3, <3>4, <3>5, <3>6, <3>7 DEF Negotiates
  <2>. QED
    BY <1>3, <2>2 DEF Linked, Places
<1>. QED
  BY <1>2, <1>3

LEMMA SendsOffer ==
  ASSUME NEW p \in Connections, NEW q \in Connections,
         NEW u \in Seq(Signals), NEW v \in Seq(Signals),
         NEW first \in BOOLEAN, Linked(p, q, u, v, first),
         p.chain # <<>>, p.chain[1].op = "setLocalOffer", p.sig # "have-remote-offer",
         NEW m \in Signals, m.type = "offer", m.sends = p.chain[1].sends, NEW d,
         d = [Over(p) EXCEPT !.sig = "have-local-offer", !.offered = p.chain[1].sends, !.makingOffer = FALSE]
  PROVE  Linked(d, q, Append(u, m), v, first)
<1>1. /\ (Len(p.chain) = 1 => Len(d.chain) = 0)
      /\ (Len(p.chain) = 2 => Len(d.chain) = 1 /\ d.chain[1] = p.chain[2])
      /\ d.sig = "have-local-offer" /\ ~d.makingOffer
      /\ d.offered = m.sends /\ d.told = p.told /\ d.hears = p.hears /\ d.needed = p.needed
      /\ Append(u, m) \in Seq(Signals) /\ Len(Append(u, m)) = Len(u) + 1 /\ Append(u, m)[Len(u) + 1] = m
      /\ \A k \in 1 .. Len(u) : Append(u, m)[k] = u[k]
  BY DEF Connections, Operations, Signals, Then, Over, Settles
<1>. USE DEF Idle, Does, DoesBoth, Own, Answering
<1>2. CASE first
  <2>1. PICK s \in Places, t \in Places : Negotiates(p, q, u, v, s, t)
    BY <1>2 DEF Linked
  <2>2. s = "none" /\ t # "answering"
    BY <1>1, <1>2, <2>1 DEF Negotiates, PolitePhase, ImpolitePhase, Together, PoliteSays, ImpoliteSays, IgnoresOffer
  <2>3. Negotiates(d, q, Append(u, m), v, "sent", t)
    <3>1. PolitePhase(d, "sent", t)
      BY <1>1, <2>1, <2>2 DEF Negotiates, Together, PolitePhase, ImpolitePhase
    <3>2. ImpolitePhase(q, "sent", t) /\ Together("sent", t)
      BY <1>1, <2>1, <2>2 DEF Negotiates, Together, PolitePhase, ImpolitePhase
    <3>3. PoliteSays(Append(u, m), d, "sent", t)
      BY <1>1, <2>1, <2>2 DEF Negotiates, Together, PolitePhase, ImpolitePhase, PoliteSays
    <3>4. ImpoliteSays(v, q, "sent", t)
      BY <1>1, <2>1, <2>2 DEF Negotiates, Together, ImpoliteSays
    <3>5. Knows(d, q, "sent", t)
      BY <1>1, <2>1, <2>2 DEF Negotiates, Together, PolitePhase, ImpolitePhase, PoliteSays, ImpoliteSays, Knows, Learns
    <3>6. Learns(d, q) /\ Learns(q, d)
      BY <1>1, <2>1, <2>2 DEF Negotiates, Together, PolitePhase, ImpolitePhase, PoliteSays, ImpoliteSays, Knows, Learns
    <3>7. Waits(d) /\ Waits(q)
      BY <1>1, <2>1, <2>2 DEF Negotiates, Waits, PolitePhase, ImpolitePhase
    <3>. QED
      BY <3>1, <3>2, <3>3, <3>4, <3>5, <3>6, <3>7 DEF Negotiates
  <2>. QED
    BY <1>2, <2>2, <2>3 DEF Linked, Places
<1>3. CASE ~first
  <2>1. PICK s \in Places, t \in Places : Negotiates(q, p, v, u, s, t)
    BY <1>3 DEF Linked
  <2>2. t = "none" /\ s \notin {"arrived", "answering"}
    BY <1>1, <1>3, <2>1 DEF Negotiates, PolitePhase, ImpolitePhase, Together, PoliteSays, ImpoliteSays, IgnoresOffer
  <2>3. Negotiates(q, d, v, Append(u, m), s, "sent")
    <3>1. PolitePhase(q, s, "sent")
      BY <1>1, <2>1, <2>2 DEF Negotiates, Together, PolitePhase, ImpolitePhase
    <3>2. ImpolitePhase(d, s, "sent") /\ Together(s, "sent")
      BY <1>1, <2>1, <2>2 DEF Negotiates, Together, PolitePhase, ImpolitePhase
    <3>3. PoliteSays(v, q, s, "sent")
      BY <1>1, <2>1, <2>2 DEF Negotiates, Together, PolitePhase, ImpolitePhase, PoliteSays
    <3>4. ImpoliteSays(Append(u, m), d, s, "sent")
      BY <1>1, <2>1, <2>2 DEF Negotiates, Together, ImpoliteSays
    <3>5. Knows(q, d, s, "sent")
      BY <1>1, <2>1, <2>2 DEF Negotiates, Together, PolitePhase, ImpolitePhase, PoliteSays, ImpoliteSays, Knows, Learns
    <3>6. Learns(q, d) /\ Learns(d, q)
      BY <1>1, <2>1, <2>2 DEF Negotiates, Together, PolitePhase, ImpolitePhase, PoliteSays, ImpoliteSays, Knows, Learns
    <3>7. Waits(q) /\ Waits(d)
      BY <1>1, <2>1, <2>2 DEF Negotiates, Waits, PolitePhase, ImpolitePhase
    <3>. QED
      BY <3>1, <3>2, <3>3, <3>4, <3>5, <3>6, <3>7 DEF Negotiates
  <2>. QED
    BY <1>3, <2>2, <2>3 DEF Linked, Places
<1>. QED
  BY <1>2, <1>3

LEMMA OfferRefused ==
  ASSUME NEW p \in Connections, NEW q \in Connections,
         NEW u \in Seq(Signals), NEW v \in Seq(Signals),
         NEW first \in BOOLEAN, Linked(p, q, u, v, first),
         p.chain # <<>>, p.chain[1].op = "setLocalOffer", p.sig = "have-remote-offer",
         NEW d, d = [Over(p) EXCEPT !.makingOffer = FALSE]
  PROVE  Linked(d, q, u, v, first)
<1>1. /\ (Len(p.chain) = 1 => Len(d.chain) = 0)
      /\ (Len(p.chain) = 2 => Len(d.chain) = 1 /\ d.chain[1] = p.chain[2])
      /\ d.sig = p.sig /\ ~d.makingOffer /\ d.offered = p.offered /\ d.told = p.told /\ d.hears = p.hears /\ d.needed = p.needed
  BY DEF Connections, Operations, Signals, Then, Over, Settles
<1>. USE DEF Idle, Does, DoesBoth, Own, Answering
<1>2. CASE first
  <2>1. PICK s \in Places, t \in Places : Negotiates(p, q, u, v, s, t)
    BY <1>2 DEF Linked
  <2>2. Negotiates(d, q, u, v, s, t)
    <3>1. PolitePhase(d, s, t)
      BY <1>1, <2>1 DEF Negotiates, Together, PolitePhase, ImpolitePhase
    <3>2. ImpolitePhase(q, s, t) /\ Together(s, t)
      BY <1>1, <2>1 DEF Negotiates, Together, PolitePhase, ImpolitePhase
    <3>3. PoliteSays(u, d, s, t)
      BY <1>1, <2>1 DEF Negotiates, Together, PolitePhase, ImpolitePhase, PoliteSays
    <3>4. ImpoliteSays(v, q, s, t)
      BY <1>1, <2>1 DEF Negotiates, Together, ImpoliteSays
    <3>5. Knows(d, q, s, t)
      BY <1>1, <2>1 DEF Negotiates, Together, PolitePhase, ImpolitePhase, PoliteSays, ImpoliteSays, Knows, Learns
    <3>6. Learns(d, q) /\ Learns(q, d)
      BY <1>1, <2>1 DEF Negotiates, Together, PolitePhase, ImpolitePhase, PoliteSays, ImpoliteSays, Knows, Learns
    <3>7. Waits(d) /\ Waits(q)
      BY <1>1, <2>1 DEF Negotiates, Waits, PolitePhase, ImpolitePhase
    <3>. QED
      BY <3>1, <3>2, <3>3, <3>4, <3>5, <3>6, <3>7 DEF Negotiates
  <2>. QED
    BY <1>2, <2>2 DEF Linked, Places
<1>3. CASE ~first
  <2>1. PICK s \in Places, t \in Places : Negotiates(q, p, v, u, s, t)
    BY <1>3 DEF Linked
  <2>2. Negotiates(q, d, v, u, s, t)
    <3>1. PolitePhase(q, s, t)
      BY <1>1, <2>1 DEF Negotiates, Together, PolitePhase, ImpolitePhase
    <3>2. ImpolitePhase(d, s, t) /\ Together(s, t)
      BY <1>1, <2>1 DEF Negotiates, Together, PolitePhase, ImpolitePhase
    <3>3. PoliteSays(v, q, s, t)
      BY <1>1, <2>1 DEF Negotiates, Together, PolitePhase, ImpolitePhase, PoliteSays
    <3>4. ImpoliteSays(u, d, s, t)
      BY <1>1, <2>1 DEF Negotiates, Together, ImpoliteSays
    <3>5. Knows(q, d, s, t)
      BY <1>1, <2>1 DEF Negotiates, Together, PolitePhase, ImpolitePhase, PoliteSays, ImpoliteSays, Knows, Learns
    <3>6. Learns(q, d) /\ Learns(d, q)
      BY <1>1, <2>1 DEF Negotiates, Together, PolitePhase, ImpolitePhase, PoliteSays, ImpoliteSays, Knows, Learns
    <3>7. Waits(q) /\ Waits(d)
      BY <1>1, <2>1 DEF Negotiates, Waits, PolitePhase, ImpolitePhase
    <3>. QED
      BY <3>1, <3>2, <3>3, <3>4, <3>5, <3>6, <3>7 DEF Negotiates
  <2>. QED
    BY <1>3, <2>2 DEF Linked, Places
<1>. QED
  BY <1>2, <1>3

LEMMA TakesOffer ==
  ASSUME NEW p \in Connections, NEW q \in Connections,
         NEW u \in Seq(Signals), NEW v \in Seq(Signals),
         NEW first \in BOOLEAN, Linked(p, q, u, v, first),
         p.chain # <<>>, p.chain[1].op = "setRemoteOffer",
         NEW op \in Operations, op.op = "createAnswer", NEW r \in Ends, NEW d,
         d = [Then(p, op) EXCEPT !.sig = "have-remote-offer", !.hears = p.chain[1].sends, !.remote = r]
  PROVE  Linked(d, q, u, v, first)
<1>0. p.chain \in Seq(Operations) /\ d.chain = Append(Tail(p.chain), op)
  BY DEF Connections, Then
<1>1. /\ (Len(p.chain) = 1 => Len(d.chain) = 1 /\ d.chain[1] = op)
      /\ (Len(p.chain) = 2 => Len(d.chain) = 2 /\ d.chain[1] = p.chain[2] /\ d.chain[2] = op)
      /\ d.sig = "have-remote-offer" /\ d.makingOffer = p.makingOffer
      /\ d.offered = p.offered /\ d.told = p.told /\ d.hears = p.chain[1].sends /\ d.needed = p.needed
  <2>1. /\ (Len(p.chain) = 1 => Len(d.chain) = 1 /\ d.chain[1] = op)
        /\ (Len(p.chain) = 2 => Len(d.chain) = 2 /\ d.chain[1] = p.chain[2] /\ d.chain[2] = op)
    BY <1>0, AfterOne
  <2>2. /\ d.sig = "have-remote-offer" /\ d.makingOffer = p.makingOffer
        /\ d.offered = p.offered /\ d.told = p.told /\ d.hears = p.chain[1].sends /\ d.needed = p.needed
    BY DEF Connections, Signals, Then
  <2>. QED
    BY <2>1, <2>2
<1>. USE DEF Idle, Does, DoesBoth, Own, Answering
<1>2. CASE first
  <2>1. PICK s \in Places, t \in Places : Negotiates(p, q, u, v, s, t)
    BY <1>2 DEF Linked
  <2>2. t = "arrived" /\ s \notin {"arrived", "answering", "replied", "answered"}
    BY <1>1, <1>2, <2>1 DEF Negotiates, PolitePhase, ImpolitePhase, Together, PoliteSays, ImpoliteSays, IgnoresOffer
  <2>3. Negotiates(d, q, u, v, "none", "answering")
    <3>1. PolitePhase(d, "none", "answering")
      BY <1>1, <2>1, <2>2 DEF Negotiates, Together, PolitePhase, ImpolitePhase
    <3>2. ImpolitePhase(q, "none", "answering") /\ Together("none", "answering")
      BY <1>1, <2>1, <2>2 DEF Negotiates, Together, PolitePhase, ImpolitePhase
    <3>3. PoliteSays(u, d, "none", "answering")
      BY <1>1, <2>1, <2>2 DEF Negotiates, Together, PolitePhase, ImpolitePhase, PoliteSays
    <3>4. ImpoliteSays(v, q, "none", "answering")
      BY <1>1, <2>1, <2>2 DEF Negotiates, Together, ImpoliteSays
    <3>5. Knows(d, q, "none", "answering")
      BY <1>1, <2>1, <2>2 DEF Negotiates, Together, PolitePhase, ImpolitePhase, PoliteSays, ImpoliteSays, Knows, Learns
    <3>6. Learns(d, q) /\ Learns(q, d)
      BY <1>1, <2>1, <2>2 DEF Negotiates, Together, PolitePhase, ImpolitePhase, PoliteSays, ImpoliteSays, Knows, Learns
    <3>7. Waits(d) /\ Waits(q)
      BY <1>1, <2>1, <2>2 DEF Negotiates, Waits, PolitePhase, ImpolitePhase
    <3>. QED
      BY <3>1, <3>2, <3>3, <3>4, <3>5, <3>6, <3>7 DEF Negotiates
  <2>. QED
    BY <1>2, <2>2, <2>3 DEF Linked, Places
<1>3. CASE ~first
  <2>1. PICK s \in Places, t \in Places : Negotiates(q, p, v, u, s, t)
    BY <1>3 DEF Linked
  <2>2. s = "arrived"
    BY <1>1, <1>3, <2>1 DEF Negotiates, PolitePhase, ImpolitePhase, Together, PoliteSays, ImpoliteSays, IgnoresOffer
  <2>3. Negotiates(q, d, v, u, "answering", t)
    <3>1. PolitePhase(q, "answering", t)
      BY <1>1, <2>1, <2>2 DEF Negotiates, Together, PolitePhase, ImpolitePhase
    <3>2. ImpolitePhase(d, "answering", t) /\ Together("answering", t)
      BY <1>1, <2>1, <2>2 DEF Negotiates, Together, PolitePhase, ImpolitePhase
    <3>3. PoliteSays(v, q, "answering", t)
      BY <1>1, <2>1, <2>2 DEF Negotiates, Together, PolitePhase, ImpolitePhase, PoliteSays
    <3>4. ImpoliteSays(u, d, "answering", t)
      BY <1>1, <2>1, <2>2 DEF Negotiates, Together, ImpoliteSays
    <3>5. Knows(q, d, "answering", t)
      BY <1>1, <2>1, <2>2 DEF Negotiates, Together, PolitePhase, ImpolitePhase, PoliteSays, ImpoliteSays, Knows, Learns
    <3>6. Learns(q, d) /\ Learns(d, q)
      BY <1>1, <2>1, <2>2 DEF Negotiates, Together, PolitePhase, ImpolitePhase, PoliteSays, ImpoliteSays, Knows, Learns
    <3>7. Waits(q) /\ Waits(d)
      BY <1>1, <2>1, <2>2 DEF Negotiates, Waits, PolitePhase, ImpolitePhase
    <3>. QED
      BY <3>1, <3>2, <3>3, <3>4, <3>5, <3>6, <3>7 DEF Negotiates
  <2>. QED
    BY <1>3, <2>2, <2>3 DEF Linked, Places
<1>. QED
  BY <1>2, <1>3

LEMMA MakesAnswer ==
  ASSUME NEW p \in Connections, NEW q \in Connections,
         NEW u \in Seq(Signals), NEW v \in Seq(Signals),
         NEW first \in BOOLEAN, Linked(p, q, u, v, first),
         p.chain # <<>>, p.chain[1].op = "createAnswer",
         NEW op \in Operations, op.op = "setLocalAnswer", NEW d, d = Then(p, op)
  PROVE  Linked(d, q, u, v, first)
<1>0. p.chain \in Seq(Operations) /\ d.chain = Append(Tail(p.chain), op)
  BY DEF Connections, Then
<1>1. /\ (Len(p.chain) = 1 => Len(d.chain) = 1 /\ d.chain[1] = op)
      /\ (Len(p.chain) = 2 => Len(d.chain) = 2 /\ d.chain[1] = p.chain[2] /\ d.chain[2] = op)
      /\ d.sig = p.sig /\ d.makingOffer = p.makingOffer /\ d.offered = p.offered /\ d.told = p.told /\ d.hears = p.hears /\ d.needed = p.needed
  <2>1. /\ (Len(p.chain) = 1 => Len(d.chain) = 1 /\ d.chain[1] = op)
        /\ (Len(p.chain) = 2 => Len(d.chain) = 2 /\ d.chain[1] = p.chain[2] /\ d.chain[2] = op)
    BY <1>0, AfterOne
  <2>2. /\ d.sig = p.sig /\ d.makingOffer = p.makingOffer /\ d.offered = p.offered /\ d.told = p.told /\ d.hears = p.hears /\ d.needed = p.needed
    BY DEF Connections, Signals, Then
  <2>. QED
    BY <2>1, <2>2
<1>. USE DEF Idle, Does, DoesBoth, Own, Answering
<1>2. CASE first
  <2>1. PICK s \in Places, t \in Places : Negotiates(p, q, u, v, s, t)
    BY <1>2 DEF Linked
  <2>2. Negotiates(d, q, u, v, s, t)
    <3>1. PolitePhase(d, s, t)
      BY <1>1, <2>1 DEF Negotiates, Together, PolitePhase, ImpolitePhase
    <3>2. ImpolitePhase(q, s, t) /\ Together(s, t)
      BY <1>1, <2>1 DEF Negotiates, Together, PolitePhase, ImpolitePhase
    <3>3. PoliteSays(u, d, s, t)
      BY <1>1, <2>1 DEF Negotiates, Together, PolitePhase, ImpolitePhase, PoliteSays
    <3>4. ImpoliteSays(v, q, s, t)
      BY <1>1, <2>1 DEF Negotiates, Together, ImpoliteSays
    <3>5. Knows(d, q, s, t)
      BY <1>1, <2>1 DEF Negotiates, Together, PolitePhase, ImpolitePhase, PoliteSays, ImpoliteSays, Knows, Learns
    <3>6. Learns(d, q) /\ Learns(q, d)
      BY <1>1, <2>1 DEF Negotiates, Together, PolitePhase, ImpolitePhase, PoliteSays, ImpoliteSays, Knows, Learns
    <3>7. Waits(d) /\ Waits(q)
      BY <1>1, <2>1 DEF Negotiates, Waits, PolitePhase, ImpolitePhase
    <3>. QED
      BY <3>1, <3>2, <3>3, <3>4, <3>5, <3>6, <3>7 DEF Negotiates
  <2>. QED
    BY <1>2, <2>2 DEF Linked, Places
<1>3. CASE ~first
  <2>1. PICK s \in Places, t \in Places : Negotiates(q, p, v, u, s, t)
    BY <1>3 DEF Linked
  <2>2. Negotiates(q, d, v, u, s, t)
    <3>1. PolitePhase(q, s, t)
      BY <1>1, <2>1 DEF Negotiates, Together, PolitePhase, ImpolitePhase
    <3>2. ImpolitePhase(d, s, t) /\ Together(s, t)
      BY <1>1, <2>1 DEF Negotiates, Together, PolitePhase, ImpolitePhase
    <3>3. PoliteSays(v, q, s, t)
      BY <1>1, <2>1 DEF Negotiates, Together, PolitePhase, ImpolitePhase, PoliteSays
    <3>4. ImpoliteSays(u, d, s, t)
      BY <1>1, <2>1 DEF Negotiates, Together, ImpoliteSays
    <3>5. Knows(q, d, s, t)
      BY <1>1, <2>1 DEF Negotiates, Together, PolitePhase, ImpolitePhase, PoliteSays, ImpoliteSays, Knows, Learns
    <3>6. Learns(q, d) /\ Learns(d, q)
      BY <1>1, <2>1 DEF Negotiates, Together, PolitePhase, ImpolitePhase, PoliteSays, ImpoliteSays, Knows, Learns
    <3>7. Waits(q) /\ Waits(d)
      BY <1>1, <2>1 DEF Negotiates, Waits, PolitePhase, ImpolitePhase
    <3>. QED
      BY <3>1, <3>2, <3>3, <3>4, <3>5, <3>6, <3>7 DEF Negotiates
  <2>. QED
    BY <1>3, <2>2 DEF Linked, Places
<1>. QED
  BY <1>2, <1>3

LEMMA SendsAnswer ==
  ASSUME NEW p \in Connections, NEW q \in Connections,
         NEW u \in Seq(Signals), NEW v \in Seq(Signals),
         NEW first \in BOOLEAN, Linked(p, q, u, v, first),
         p.chain # <<>>, p.chain[1].op = "setLocalAnswer",
         NEW m \in Signals, m.type = "answer", m.sends = p.chain[1].sends, NEW d,
         d = Settles(p, p.chain[1].sends)
  PROVE  Linked(d, q, Append(u, m), v, first)
<1>1. /\ (Len(p.chain) = 1 => Len(d.chain) = 0)
      /\ (Len(p.chain) = 2 => Len(d.chain) = 1 /\ d.chain[1] = p.chain[2])
      /\ d.sig = "stable" /\ ~d.needed /\ d.makingOffer = p.makingOffer
      /\ d.offered = p.offered /\ d.told = m.sends /\ d.hears = p.hears
      /\ Append(u, m) \in Seq(Signals) /\ Len(Append(u, m)) = Len(u) + 1 /\ Append(u, m)[Len(u) + 1] = m
      /\ \A k \in 1 .. Len(u) : Append(u, m)[k] = u[k]
  BY DEF Connections, Operations, Signals, Then, Over, Settles
<1>. USE DEF Idle, Does, DoesBoth, Own, Answering
<1>2. CASE first
  <2>1. PICK s \in Places, t \in Places : Negotiates(p, q, u, v, s, t)
    BY <1>2 DEF Linked
  <2>2. t = "answering" /\ s = "none"
    BY <1>1, <1>2, <2>1 DEF Negotiates, PolitePhase, ImpolitePhase, Together, PoliteSays, ImpoliteSays, IgnoresOffer
  <2>3. Negotiates(d, q, Append(u, m), v, s, "replied")
    <3>1. PolitePhase(d, s, "replied")
      BY <1>1, <2>1, <2>2 DEF Negotiates, Together, PolitePhase, ImpolitePhase
    <3>2. ImpolitePhase(q, s, "replied") /\ Together(s, "replied")
      BY <1>1, <2>1, <2>2 DEF Negotiates, Together, PolitePhase, ImpolitePhase
    <3>3. PoliteSays(Append(u, m), d, s, "replied")
      BY <1>1, <2>1, <2>2 DEF Negotiates, Together, PolitePhase, ImpolitePhase, PoliteSays
    <3>4. ImpoliteSays(v, q, s, "replied")
      BY <1>1, <2>1, <2>2 DEF Negotiates, Together, ImpoliteSays
    <3>5. Knows(d, q, s, "replied")
      BY <1>1, <2>1, <2>2 DEF Negotiates, Together, PolitePhase, ImpolitePhase, PoliteSays, ImpoliteSays, Knows, Learns
    <3>6. Learns(d, q) /\ Learns(q, d)
      BY <1>1, <2>1, <2>2 DEF Negotiates, Together, PolitePhase, ImpolitePhase, PoliteSays, ImpoliteSays, Knows, Learns
    <3>7. Waits(d) /\ Waits(q)
      BY <1>1, <2>1, <2>2 DEF Negotiates, Waits, PolitePhase, ImpolitePhase
    <3>. QED
      BY <3>1, <3>2, <3>3, <3>4, <3>5, <3>6, <3>7 DEF Negotiates
  <2>. QED
    BY <1>2, <2>2, <2>3 DEF Linked, Places
<1>3. CASE ~first
  <2>1. PICK s \in Places, t \in Places : Negotiates(q, p, v, u, s, t)
    BY <1>3 DEF Linked
  <2>2. s = "answering" /\ t = "none" /\ u = <<>>
    BY <1>1, <1>3, <2>1 DEF Negotiates, PolitePhase, ImpolitePhase, Together, PoliteSays, ImpoliteSays, IgnoresOffer
  <2>3. Negotiates(q, d, v, Append(u, m), "replied", t)
    <3>1. PolitePhase(q, "replied", t)
      BY <1>1, <2>1, <2>2 DEF Negotiates, Together, PolitePhase, ImpolitePhase
    <3>2. ImpolitePhase(d, "replied", t) /\ Together("replied", t)
      BY <1>1, <2>1, <2>2 DEF Negotiates, Together, PolitePhase, ImpolitePhase
    <3>3. PoliteSays(v, q, "replied", t)
      BY <1>1, <2>1, <2>2 DEF Negotiates, Together, PolitePhase, ImpolitePhase, PoliteSays
    <3>4. ImpoliteSays(Append(u, m), d, "replied", t)
      BY <1>1, <2>1, <2>2 DEF Negotiates, Together, ImpoliteSays
    <3>5. Knows(q, d, "replied", t)
      BY <1>1, <2>1, <2>2 DEF Negotiates, Together, PolitePhase, ImpolitePhase, PoliteSays, ImpoliteSays, Knows, Learns
    <3>6. Learns(q, d) /\ Learns(d, q)
      BY <1>1, <2>1, <2>2 DEF Negotiates, Together, PolitePhase, ImpolitePhase, PoliteSays, ImpoliteSays, Knows, Learns
    <3>7. Waits(q) /\ Waits(d)
      BY <1>1, <2>1, <2>2 DEF Negotiates, Waits, PolitePhase, ImpolitePhase
    <3>. QED
      BY <3>1, <3>2, <3>3, <3>4, <3>5, <3>6, <3>7 DEF Negotiates
  <2>. QED
    BY <1>3, <2>2, <2>3 DEF Linked, Places
<1>. QED
  BY <1>2, <1>3

LEMMA TakesAnswer ==
  ASSUME NEW p \in Connections, NEW q \in Connections,
         NEW u \in Seq(Signals), NEW v \in Seq(Signals),
         NEW first \in BOOLEAN, Linked(p, q, u, v, first),
         p.chain # <<>>, p.chain[1].op = "setRemoteAnswer", NEW r \in Ends, NEW d,
         d = [Settles(p, p.offered) EXCEPT !.hears = p.chain[1].sends, !.remote = r]
  PROVE  Linked(d, q, u, v, first)
<1>1. /\ (Len(p.chain) = 1 => Len(d.chain) = 0)
      /\ (Len(p.chain) = 2 => Len(d.chain) = 1 /\ d.chain[1] = p.chain[2])
      /\ d.sig = "stable" /\ ~d.needed /\ d.makingOffer = p.makingOffer
      /\ d.offered = p.offered /\ d.told = p.offered /\ d.hears = p.chain[1].sends
  BY DEF Connections, Operations, Signals, Then, Over, Settles
<1>. USE DEF Idle, Does, DoesBoth, Own, Answering
<1>2. CASE first
  <2>1. PICK s \in Places, t \in Places : Negotiates(p, q, u, v, s, t)
    BY <1>2 DEF Linked
  <2>2. s = "answered"
    BY <1>1, <1>2, <2>1 DEF Negotiates, PolitePhase, ImpolitePhase, Together, PoliteSays, ImpoliteSays, IgnoresOffer
  <2>3. Negotiates(d, q, u, v, "none", t)
    <3>1. PolitePhase(d, "none", t)
      BY <1>1, <2>1, <2>2 DEF Negotiates, Together, PolitePhase, ImpolitePhase
    <3>2. ImpolitePhase(q, "none", t) /\ Together("none", t)
      BY <1>1, <2>1, <2>2 DEF Negotiates, Together, PolitePhase, ImpolitePhase
    <3>3. PoliteSays(u, d, "none", t)
      BY <1>1, <2>1, <2>2 DEF Negotiates, Together, PolitePhase, ImpolitePhase, PoliteSays
    <3>4. ImpoliteSays(v, q, "none", t)
      BY <1>1, <2>1, <2>2 DEF Negotiates, Together, ImpoliteSays
    <3>5. Knows(d, q, "none", t)
      BY <1>1, <2>1, <2>2 DEF Negotiates, Together, PolitePhase, ImpolitePhase, PoliteSays, ImpoliteSays, Knows, Learns
    <3>6. Learns(d, q) /\ Learns(q, d)
      BY <1>1, <2>1, <2>2 DEF Negotiates, Together, PolitePhase, ImpolitePhase, PoliteSays, ImpoliteSays, Knows, Learns
    <3>7. Waits(d) /\ Waits(q)
      BY <1>1, <2>1, <2>2 DEF Negotiates, Waits, PolitePhase, ImpolitePhase
    <3>. QED
      BY <3>1, <3>2, <3>3, <3>4, <3>5, <3>6, <3>7 DEF Negotiates
  <2>. QED
    BY <1>2, <2>2, <2>3 DEF Linked, Places
<1>3. CASE ~first
  <2>1. PICK s \in Places, t \in Places : Negotiates(q, p, v, u, s, t)
    BY <1>3 DEF Linked
  <2>2. t = "answered"
    BY <1>1, <1>3, <2>1 DEF Negotiates, PolitePhase, ImpolitePhase, Together, PoliteSays, ImpoliteSays, IgnoresOffer
  <2>3. Negotiates(q, d, v, u, s, "none")
    <3>1. PolitePhase(q, s, "none")
      BY <1>1, <2>1, <2>2 DEF Negotiates, Together, PolitePhase, ImpolitePhase
    <3>2. ImpolitePhase(d, s, "none") /\ Together(s, "none")
      BY <1>1, <2>1, <2>2 DEF Negotiates, Together, PolitePhase, ImpolitePhase
    <3>3. PoliteSays(v, q, s, "none")
      BY <1>1, <2>1, <2>2 DEF Negotiates, Together, PolitePhase, ImpolitePhase, PoliteSays
    <3>4. ImpoliteSays(u, d, s, "none")
      BY <1>1, <2>1, <2>2 DEF Negotiates, Together, ImpoliteSays
    <3>5. Knows(q, d, s, "none")
      BY <1>1, <2>1, <2>2 DEF Negotiates, Together, PolitePhase, ImpolitePhase, PoliteSays, ImpoliteSays, Knows, Learns
    <3>6. Learns(q, d) /\ Learns(d, q)
      BY <1>1, <2>1, <2>2 DEF Negotiates, Together, PolitePhase, ImpolitePhase, PoliteSays, ImpoliteSays, Knows, Learns
    <3>7. Waits(q) /\ Waits(d)
      BY <1>1, <2>1, <2>2 DEF Negotiates, Waits, PolitePhase, ImpolitePhase
    <3>. QED
      BY <3>1, <3>2, <3>3, <3>4, <3>5, <3>6, <3>7 DEF Negotiates
  <2>. QED
    BY <1>3, <2>2, <2>3 DEF Linked, Places
<1>. QED
  BY <1>2, <1>3

LEMMA AfterHead ==
  ASSUME NEW v \in Seq(Signals), v # <<>>, NEW w, w = Tail(v)
  PROVE  /\ w \in Seq(Signals) /\ Len(v) \in Nat /\ Len(v) > 0 /\ Len(w) \in Nat /\ Len(w) = Len(v) - 1
         /\ \A k \in 1 .. Len(w) : k + 1 \in 1 .. Len(v) /\ w[k] = v[k + 1]
         /\ \A k \in 2 .. Len(v) : k - 1 \in 1 .. Len(w) /\ v[k] = w[k - 1]
OBVIOUS

LEMMA IgnoresTheOffer ==
  ASSUME NEW p \in Connections, NEW q \in Connections,
         NEW u \in Seq(Signals), NEW v \in Seq(Signals),
         NEW first \in BOOLEAN, Linked(p, q, u, v, first),
         v # <<>>, NEW w, w = Tail(v), v[1].type = "offer", p.polite = first, IgnoresOffer(p), NEW d, d = p
  PROVE  Linked(d, q, u, w, first)
<1>1. /\ w \in Seq(Signals) /\ Len(v) \in Nat /\ Len(v) > 0 /\ Len(w) \in Nat /\ Len(w) = Len(v) - 1
      /\ \A k \in 1 .. Len(w) : k + 1 \in 1 .. Len(v) /\ w[k] = v[k + 1]
      /\ \A k \in 2 .. Len(v) : k - 1 \in 1 .. Len(w) /\ v[k] = w[k - 1]
  BY AfterHead
<1>. USE DEF Idle, Does, DoesBoth, Own, Answering
<1>2. CASE first
  <2>1. PICK s \in Places, t \in Places : Negotiates(p, q, u, v, s, t)
    BY <1>2, Zenon DEF Linked
  <2>2. FALSE
    BY <1>1, <1>2, <2>1, Zenon DEF Negotiates, PolitePhase, ImpolitePhase, Together, PoliteSays, ImpoliteSays, IgnoresOffer
  <2>. QED
    BY <2>2
<1>3. CASE ~first
  <2>1. PICK s \in Places, t \in Places : Negotiates(q, p, v, u, s, t)
    BY <1>3, Zenon DEF Linked
  <2>2. /\ s = "sent" /\ Len(v) = 1 => t # "answering"
        /\ v[1].type # "answer"
    BY <1>1, <1>3, <2>1, Zenon DEF Negotiates, PolitePhase, ImpolitePhase, Together, PoliteSays, ImpoliteSays, IgnoresOffer
  <2>3. Negotiates(q, d, w, u, IF s = "sent" /\ Len(v) = 1 THEN "ignored" ELSE s, t)
    <3>1. PolitePhase(q, IF s = "sent" /\ Len(v) = 1 THEN "ignored" ELSE s, t)
      BY <1>1, <2>1, <2>2 DEF Negotiates, Together, PolitePhase, ImpolitePhase
    <3>2. ImpolitePhase(d, IF s = "sent" /\ Len(v) = 1 THEN "ignored" ELSE s, t) /\ Together(IF s = "sent" /\ Len(v) = 1 THEN "ignored" ELSE s, t)
      BY <1>1, <2>1, <2>2 DEF Negotiates, Together, PolitePhase, ImpolitePhase
    <3>3. PoliteSays(w, q, IF s = "sent" /\ Len(v) = 1 THEN "ignored" ELSE s, t)
      <4>. DEFINE z == IF s = "sent" /\ Len(v) = 1 THEN "ignored" ELSE s
      <4>1. PoliteSays(v, q, s, t)
        BY <2>1 DEF Negotiates
      <4>2. Len(v) \in Nat /\ Len(v) > 0 /\ Len(w) \in Nat /\ Len(w) = Len(v) - 1
        BY <1>1
      <4>0. z = "sent" <=> s = "sent" /\ Len(v) # 1
        OBVIOUS
      <4>. HIDE DEF z
      <4>3. z = "sent" => Len(w) > 0 /\ w[Len(w)].type = "offer" /\ w[Len(w)].sends = q.offered
        <5>. SUFFICES ASSUME z = "sent"
                      PROVE  Len(w) > 0 /\ w[Len(w)].type = "offer" /\ w[Len(w)].sends = q.offered
          OBVIOUS
        <5>1. Len(v) \in 2 .. Len(v) /\ Len(w) = Len(v) - 1 /\ s = "sent" /\ Len(w) > 0
          BY <4>0, <4>2
        <5>2. v[Len(v)] = w[Len(w)]
          BY <1>1, <5>1
        <5>. QED
          BY <4>1, <5>1, <5>2, Zenon DEF PoliteSays
      <4>4. t = "replied" => \E k \in 1 .. Len(w) : w[k].type = "answer"
        <5>. SUFFICES ASSUME t = "replied" PROVE \E k \in 1 .. Len(w) : w[k].type = "answer"
          OBVIOUS
        <5>1. PICK k \in 1 .. Len(v) : v[k].type = "answer"
          BY <4>1 DEF PoliteSays
        <5>2. k \in 2 .. Len(v)
          BY <4>2, <5>1
        <5>3. k - 1 \in 1 .. Len(w) /\ v[k] = w[k - 1]
          BY <1>1, <5>2
        <5>. QED
          BY <5>1, <5>3
      <4>5. ASSUME NEW k \in 1 .. Len(w)
            PROVE  \/ /\ w[k].type = "answer" /\ t = "replied" /\ w[k].sends = q.told
                      /\ \A l \in 1 .. Len(w) : l > k => z = "sent" /\ l = Len(w)
                   \/ /\ w[k].type = "offer"
                      /\ \/ z = "sent" /\ k = Len(w)
                         \/ t = "answering"
                         \/ \E l \in 1 .. Len(w) : l > k /\ w[l].type = "answer"
        <5>1. k + 1 \in 1 .. Len(v) /\ w[k] = v[k + 1] /\ Len(v) # 1
          BY <1>1, <4>2
        <5>2. CASE /\ v[k + 1].type = "answer" /\ t = "replied" /\ v[k + 1].sends = q.told
                   /\ \A l \in 1 .. Len(v) : l > k + 1 => s = "sent" /\ l = Len(v)
          <6>1. ASSUME NEW l \in 1 .. Len(w), l > k PROVE z = "sent" /\ l = Len(w)
            <7>1. l + 1 \in 1 .. Len(v) /\ l + 1 > k + 1
              BY <4>2, <6>1
            <7>2. s = "sent" /\ l + 1 = Len(v)
              BY <5>2, <7>1
            <7>3. z = "sent"
              BY <4>0, <5>1, <7>2
            <7>4. l = Len(w)
              <8>1. \A x, y, z2 \in Int : z2 = y - 1 /\ x + 1 = y => x = z2
                OBVIOUS
              <8>2. l \in Int /\ Len(v) \in Int /\ Len(w) \in Int
                BY <4>2
              <8>. QED
                BY <4>2, <7>2, <8>1, <8>2, Zenon
            <7>. QED
              BY <7>3, <7>4
          <6>. QED
            BY <5>1, <5>2, <6>1
        <5>3. CASE /\ v[k + 1].type = "offer"
                   /\ \/ s = "sent" /\ k + 1 = Len(v)
                      \/ t = "answering"
                      \/ \E l \in 1 .. Len(v) : l > k + 1 /\ v[l].type = "answer"
          <6>1. CASE s = "sent" /\ k + 1 = Len(v)
            BY <4>0, <4>2, <5>1, <5>3, <6>1
          <6>2. CASE t = "answering"
            BY <5>1, <5>3, <6>2
          <6>3. CASE \E l \in 1 .. Len(v) : l > k + 1 /\ v[l].type = "answer"
            <7>1. PICK l \in 1 .. Len(v) : l > k + 1 /\ v[l].type = "answer"
              BY <6>3
            <7>2. l \in 2 .. Len(v) /\ l - 1 > k
              BY <4>2, <7>1
            <7>3. l - 1 \in 1 .. Len(w) /\ v[l] = w[l - 1]
              BY <1>1, <7>2
            <7>. QED
              BY <5>1, <5>3, <7>1, <7>2, <7>3
          <6>. QED
            BY <5>3, <6>1, <6>2, <6>3
        <5>. QED
          BY <4>1, <5>1, <5>2, <5>3 DEF PoliteSays
      <4>. QED
        BY <4>3, <4>4, <4>5, Zenon DEF PoliteSays, z
    <3>4. ImpoliteSays(u, d, IF s = "sent" /\ Len(v) = 1 THEN "ignored" ELSE s, t)
      BY <1>1, <2>1, <2>2 DEF Negotiates, Together, ImpoliteSays
    <3>5. Knows(q, d, IF s = "sent" /\ Len(v) = 1 THEN "ignored" ELSE s, t)
      BY <1>1, <2>1, <2>2, Zenon DEF Negotiates, Together, PolitePhase, ImpolitePhase, PoliteSays, ImpoliteSays, Knows, Learns
    <3>6. Learns(q, d) /\ Learns(d, q)
      BY <1>1, <2>1, <2>2, Zenon DEF Negotiates, Together, PolitePhase, ImpolitePhase, PoliteSays, ImpoliteSays, Knows, Learns
    <3>7. Waits(q) /\ Waits(d)
      BY <1>1, <2>1, <2>2 DEF Negotiates, Waits, PolitePhase, ImpolitePhase
    <3>. QED
      BY <3>1, <3>2, <3>3, <3>4, <3>5, <3>6, <3>7 DEF Negotiates
  <2>. QED
    BY <1>3, <2>2, <2>3 DEF Linked, Places
<1>. QED
  BY <1>2, <1>3

LEMMA GetsOffer ==
  ASSUME NEW p \in Connections, NEW q \in Connections,
         NEW u \in Seq(Signals), NEW v \in Seq(Signals),
         NEW first \in BOOLEAN, Linked(p, q, u, v, first),
         v # <<>>, NEW w, w = Tail(v), v[1].type = "offer", p.polite = first, ~IgnoresOffer(p),
         NEW op \in Operations, op.op = "setRemoteOffer", op.sends = v[1].sends,
         NEW d, d = [p EXCEPT !.chain = Append(@, op)]
  PROVE  Linked(d, q, u, w, first)
<1>0. p.chain \in Seq(Operations) /\ d.chain = Append(p.chain, op)
  BY DEF Connections, Then
<1>1. /\ w \in Seq(Signals) /\ Len(v) \in Nat /\ Len(v) > 0 /\ Len(w) \in Nat /\ Len(w) = Len(v) - 1
      /\ \A k \in 1 .. Len(w) : k + 1 \in 1 .. Len(v) /\ w[k] = v[k + 1]
      /\ \A k \in 2 .. Len(v) : k - 1 \in 1 .. Len(w) /\ v[k] = w[k - 1]
      /\ (Len(p.chain) = 0 => Len(d.chain) = 1 /\ d.chain[1] = op)
      /\ (Len(p.chain) = 1 => Len(d.chain) = 2 /\ d.chain[1] = p.chain[1] /\ d.chain[2] = op)
      /\ d.sig = p.sig /\ d.makingOffer = p.makingOffer /\ d.offered = p.offered /\ d.told = p.told /\ d.hears = p.hears /\ d.needed = p.needed
  <2>1. /\ (Len(p.chain) = 0 => Len(d.chain) = 1 /\ d.chain[1] = op)
        /\ (Len(p.chain) = 1 => Len(d.chain) = 2 /\ d.chain[1] = p.chain[1] /\ d.chain[2] = op)
    BY <1>0, OneMore
  <2>2. /\ w \in Seq(Signals) /\ Len(v) \in Nat /\ Len(v) > 0 /\ Len(w) \in Nat /\ Len(w) = Len(v) - 1
        /\ \A k \in 1 .. Len(w) : k + 1 \in 1 .. Len(v) /\ w[k] = v[k + 1]
        /\ \A k \in 2 .. Len(v) : k - 1 \in 1 .. Len(w) /\ v[k] = w[k - 1]
    BY AfterHead
  <2>3. /\ d.sig = p.sig /\ d.makingOffer = p.makingOffer /\ d.offered = p.offered /\ d.told = p.told /\ d.hears = p.hears /\ d.needed = p.needed
    BY DEF Connections
  <2>. QED
    BY <2>1, <2>2, <2>3
<1>. USE DEF Idle, Does, DoesBoth, Own, Answering
<1>2. CASE first
  <2>1. PICK s \in Places, t \in Places : Negotiates(p, q, u, v, s, t)
    BY <1>2 DEF Linked
  <2>2. t = "sent" /\ Len(v) = 1 /\ s \notin {"replied"}
    <3>1. t = "sent" /\ Len(v) = 1
      BY <1>1, <2>1 DEF Negotiates, ImpoliteSays
    <3>2. \A k \in 1 .. Len(v) : k = 1
      BY <3>1
    <3>. QED
      BY <2>1, <3>1, <3>2 DEF Negotiates, ImpoliteSays
  <2>3. Negotiates(d, q, u, w, s, "arrived")
    <3>1. PolitePhase(d, s, "arrived")
      BY <1>1, <2>1, <2>2 DEF Negotiates, Together, PolitePhase, ImpolitePhase
    <3>2. ImpolitePhase(q, s, "arrived") /\ Together(s, "arrived")
      BY <1>1, <2>1, <2>2 DEF Negotiates, Together, PolitePhase, ImpolitePhase
    <3>3. PoliteSays(u, d, s, "arrived")
      BY <1>1, <2>1, <2>2 DEF Negotiates, Together, PolitePhase, ImpolitePhase, PoliteSays
    <3>4. ImpoliteSays(w, q, s, "arrived")
      <4>1. Len(w) = 0
        BY <1>1, <2>2
      <4>. QED
        BY <2>2, <4>1 DEF ImpoliteSays
    <3>5. Knows(d, q, s, "arrived")
      BY <1>1, <2>1, <2>2 DEF Negotiates, Together, PolitePhase, ImpolitePhase, PoliteSays, ImpoliteSays, Knows, Learns
    <3>6. Learns(d, q) /\ Learns(q, d)
      BY <1>1, <2>1, <2>2 DEF Negotiates, Together, PolitePhase, ImpolitePhase, PoliteSays, ImpoliteSays, Knows, Learns
    <3>7. Waits(d) /\ Waits(q)
      BY <1>1, <2>1, <2>2 DEF Negotiates, Waits, PolitePhase, ImpolitePhase
    <3>. QED
      BY <3>1, <3>2, <3>3, <3>4, <3>5, <3>6, <3>7 DEF Negotiates
  <2>. QED
    BY <1>2, <2>2, <2>3 DEF Linked, Places
<1>3. CASE ~first
  <2>1. PICK s \in Places, t \in Places : Negotiates(q, p, v, u, s, t)
    BY <1>3 DEF Linked
  <2>2. t = "none" /\ s = "sent" /\ Len(v) = 1 /\ Idle(p) /\ ~p.makingOffer
    BY <1>1, <1>3, <2>1 DEF Negotiates, PolitePhase, ImpolitePhase, Together, PoliteSays, ImpoliteSays, IgnoresOffer
  <2>3. Negotiates(q, d, w, u, "arrived", t)
    <3>1. PolitePhase(q, "arrived", t)
      BY <1>1, <2>1, <2>2 DEF Negotiates, Together, PolitePhase, ImpolitePhase
    <3>2. ImpolitePhase(d, "arrived", t) /\ Together("arrived", t)
      BY <1>1, <2>1, <2>2 DEF Negotiates, Together, PolitePhase, ImpolitePhase
    <3>3. PoliteSays(w, q, "arrived", t)
      <4>1. Len(w) = 0
        BY <1>1, <2>2
      <4>. QED
        BY <2>2, <4>1 DEF PoliteSays
    <3>4. ImpoliteSays(u, d, "arrived", t)
      BY <1>1, <2>1, <2>2 DEF Negotiates, Together, ImpoliteSays
    <3>5. Knows(q, d, "arrived", t)
      BY <1>1, <2>1, <2>2 DEF Negotiates, Together, PolitePhase, ImpolitePhase, PoliteSays, ImpoliteSays, Knows, Learns
    <3>6. Learns(q, d) /\ Learns(d, q)
      BY <1>1, <2>1, <2>2 DEF Negotiates, Together, PolitePhase, ImpolitePhase, PoliteSays, ImpoliteSays, Knows, Learns
    <3>7. Waits(q) /\ Waits(d)
      BY <1>1, <2>1, <2>2 DEF Negotiates, Waits, PolitePhase, ImpolitePhase
    <3>. QED
      BY <3>1, <3>2, <3>3, <3>4, <3>5, <3>6, <3>7 DEF Negotiates
  <2>. QED
    BY <1>3, <2>2, <2>3 DEF Linked, Places
<1>. QED
  BY <1>2, <1>3

LEMMA GetsAnswer ==
  ASSUME NEW p \in Connections, NEW q \in Connections,
         NEW u \in Seq(Signals), NEW v \in Seq(Signals),
         NEW first \in BOOLEAN, Linked(p, q, u, v, first),
         v # <<>>, NEW w, w = Tail(v), v[1].type = "answer",
         NEW op \in Operations, op.op = "setRemoteAnswer", op.sends = v[1].sends,
         NEW d, d = [p EXCEPT !.chain = Append(@, op)]
  PROVE  Linked(d, q, u, w, first)
<1>0. p.chain \in Seq(Operations) /\ d.chain = Append(p.chain, op)
  BY DEF Connections, Then
<1>1. /\ w \in Seq(Signals) /\ Len(v) \in Nat /\ Len(v) > 0 /\ Len(w) \in Nat /\ Len(w) = Len(v) - 1
      /\ \A k \in 1 .. Len(w) : k + 1 \in 1 .. Len(v) /\ w[k] = v[k + 1]
      /\ \A k \in 2 .. Len(v) : k - 1 \in 1 .. Len(w) /\ v[k] = w[k - 1]
      /\ (Len(p.chain) = 0 => Len(d.chain) = 1 /\ d.chain[1] = op)
      /\ (Len(p.chain) = 1 => Len(d.chain) = 2 /\ d.chain[1] = p.chain[1] /\ d.chain[2] = op)
      /\ d.sig = p.sig /\ d.makingOffer = p.makingOffer /\ d.offered = p.offered /\ d.told = p.told /\ d.hears = p.hears /\ d.needed = p.needed
  <2>1. /\ (Len(p.chain) = 0 => Len(d.chain) = 1 /\ d.chain[1] = op)
        /\ (Len(p.chain) = 1 => Len(d.chain) = 2 /\ d.chain[1] = p.chain[1] /\ d.chain[2] = op)
    BY <1>0, OneMore
  <2>2. /\ w \in Seq(Signals) /\ Len(v) \in Nat /\ Len(v) > 0 /\ Len(w) \in Nat /\ Len(w) = Len(v) - 1
        /\ \A k \in 1 .. Len(w) : k + 1 \in 1 .. Len(v) /\ w[k] = v[k + 1]
        /\ \A k \in 2 .. Len(v) : k - 1 \in 1 .. Len(w) /\ v[k] = w[k - 1]
    BY AfterHead
  <2>3. /\ d.sig = p.sig /\ d.makingOffer = p.makingOffer /\ d.offered = p.offered /\ d.told = p.told /\ d.hears = p.hears /\ d.needed = p.needed
    BY DEF Connections
  <2>. QED
    BY <2>1, <2>2, <2>3
<1>. USE DEF Idle, Does, DoesBoth, Own, Answering
<1>2. CASE first
  <2>1. PICK s \in Places, t \in Places : Negotiates(p, q, u, v, s, t)
    BY <1>2 DEF Linked
  <2>2. s = "replied"
    BY <1>1, <1>2, <2>1 DEF Negotiates, PolitePhase, ImpolitePhase, Together, PoliteSays, ImpoliteSays, IgnoresOffer
  <2>3. Negotiates(d, q, u, w, "answered", t)
    <3>1. PolitePhase(d, "answered", t)
      BY <1>1, <2>1, <2>2 DEF Negotiates, Together, PolitePhase, ImpolitePhase
    <3>2. ImpolitePhase(q, "answered", t) /\ Together("answered", t)
      BY <1>1, <2>1, <2>2 DEF Negotiates, Together, PolitePhase, ImpolitePhase
    <3>3. PoliteSays(u, d, "answered", t)
      BY <1>1, <2>1, <2>2 DEF Negotiates, Together, PolitePhase, ImpolitePhase, PoliteSays
    <3>4. ImpoliteSays(w, q, "answered", t)
      <4>1. ImpoliteSays(v, q, s, t) /\ Len(v) \in Nat /\ Len(w) = Len(v) - 1
        BY <1>1, <2>1 DEF Negotiates
      <4>2. t = "sent" => \E k \in 1 .. Len(w) : w[k].type = "offer"
        <5>. SUFFICES ASSUME t = "sent" PROVE \E k \in 1 .. Len(w) : w[k].type = "offer"
          OBVIOUS
        <5>1. PICK k \in 1 .. Len(v) : v[k].type = "offer"
          BY <4>1 DEF ImpoliteSays
        <5>2. k \in 2 .. Len(v)
          BY <4>1, <5>1
        <5>. QED
          BY <1>1, <5>1, <5>2
      <4>3. ASSUME NEW k \in 1 .. Len(w)
            PROVE  w[k].type = "offer" /\ k = Len(w) /\ t = "sent" /\ w[k].sends = q.offered
        <5>1. k + 1 \in 1 .. Len(v) /\ w[k] = v[k + 1] /\ k + 1 # 1
          BY <1>1, <4>1
        <5>2. v[k + 1].type = "offer" /\ k + 1 = Len(v) /\ t = "sent" /\ v[k + 1].sends = q.offered
          BY <4>1, <5>1 DEF ImpoliteSays
        <5>. QED
          BY <4>1, <5>1, <5>2
      <4>. QED
        BY <4>2, <4>3 DEF ImpoliteSays
    <3>5. Knows(d, q, "answered", t)
      BY <1>1, <2>1, <2>2 DEF Negotiates, Together, PolitePhase, ImpolitePhase, PoliteSays, ImpoliteSays, Knows, Learns
    <3>6. Learns(d, q) /\ Learns(q, d)
      BY <1>1, <2>1, <2>2 DEF Negotiates, Together, PolitePhase, ImpolitePhase, PoliteSays, ImpoliteSays, Knows, Learns
    <3>7. Waits(d) /\ Waits(q)
      BY <1>1, <2>1, <2>2 DEF Negotiates, Waits, PolitePhase, ImpolitePhase
    <3>. QED
      BY <3>1, <3>2, <3>3, <3>4, <3>5, <3>6, <3>7 DEF Negotiates
  <2>. QED
    BY <1>2, <2>2, <2>3 DEF Linked, Places
<1>3. CASE ~first
  <2>1. PICK s \in Places, t \in Places : Negotiates(q, p, v, u, s, t)
    BY <1>3 DEF Linked
  <2>2. t = "replied"
    BY <1>1, <1>3, <2>1 DEF Negotiates, PolitePhase, ImpolitePhase, Together, PoliteSays, ImpoliteSays, IgnoresOffer
  <2>3. Negotiates(q, d, w, u, s, "answered")
    <3>1. PolitePhase(q, s, "answered")
      BY <1>1, <2>1, <2>2 DEF Negotiates, Together, PolitePhase, ImpolitePhase
    <3>2. ImpolitePhase(d, s, "answered") /\ Together(s, "answered")
      BY <1>1, <2>1, <2>2 DEF Negotiates, Together, PolitePhase, ImpolitePhase
    <3>3. PoliteSays(w, q, s, "answered")
      <4>1. PoliteSays(v, q, s, t)
        BY <2>1 DEF Negotiates
      <4>2. /\ \A l \in 2 .. Len(v) : s = "sent" /\ l = Len(v)
            /\ s = "sent" => Len(v) > 1 /\ Len(v) \in 2 .. Len(v)
        <5>1. /\ 1 \in 1 .. Len(v) /\ \A l \in 2 .. Len(v) : l \in 1 .. Len(v) /\ l > 1
              /\ s = "sent" => v[Len(v)].type = "offer"
              /\ \A l \in 1 .. Len(v) : l > 1 => s = "sent" /\ l = Len(v)
          BY <1>1, <4>1 DEF PoliteSays
        <5>2. s = "sent" => Len(v) # 1
          BY <5>1
        <5>. QED
          BY <1>1, <5>1, <5>2
      <4>3. s = "sent" => Len(w) > 0 /\ w[Len(w)].type = "offer" /\ w[Len(w)].sends = q.offered
        BY <1>1, <4>1, <4>2 DEF PoliteSays
      <4>4. ASSUME NEW k \in 1 .. Len(w)
            PROVE  w[k].type = "offer" /\ s = "sent" /\ k = Len(w)
        <5>1. k + 1 \in 2 .. Len(v) /\ w[k] = v[k + 1]
          BY <1>1
        <5>. QED
          BY <1>1, <4>2, <4>3, <5>1
      <4>. QED
        BY <4>3, <4>4 DEF PoliteSays
    <3>4. ImpoliteSays(u, d, s, "answered")
      BY <1>1, <2>1, <2>2 DEF Negotiates, Together, ImpoliteSays
    <3>5. Knows(q, d, s, "answered")
      BY <1>1, <2>1, <2>2 DEF Negotiates, Together, PolitePhase, ImpolitePhase, PoliteSays, ImpoliteSays, Knows, Learns
    <3>6. Learns(q, d) /\ Learns(d, q)
      BY <1>1, <2>1, <2>2 DEF Negotiates, Together, PolitePhase, ImpolitePhase, PoliteSays, ImpoliteSays, Knows, Learns
    <3>7. Waits(q) /\ Waits(d)
      BY <1>1, <2>1, <2>2 DEF Negotiates, Waits, PolitePhase, ImpolitePhase
    <3>. QED
      BY <3>1, <3>2, <3>3, <3>4, <3>5, <3>6, <3>7 DEF Negotiates
  <2>. QED
    BY <1>3, <2>2, <2>3 DEF Linked, Places
<1>. QED
  BY <1>2, <1>3

LEMMA Toggles ==
  ASSUME NEW p \in Connections, NEW q \in Connections,
         NEW u \in Seq(Signals), NEW v \in Seq(Signals),
         NEW first \in BOOLEAN, Linked(p, q, u, v, first),
         NEW on \in BOOLEAN, NEW d, d = [p EXCEPT !.sends = on]
  PROVE  Linked(d, q, u, v, first)
<1>1. d.chain = p.chain /\ d.sig = p.sig /\ d.makingOffer = p.makingOffer /\ d.offered = p.offered /\ d.told = p.told /\ d.hears = p.hears /\ d.needed = p.needed
  BY DEF Connections, Operations, Signals, Then, Over, Settles
<1>. USE DEF Idle, Does, DoesBoth, Own, Answering
<1>2. CASE first
  <2>1. PICK s \in Places, t \in Places : Negotiates(p, q, u, v, s, t)
    BY <1>2 DEF Linked
  <2>2. Negotiates(d, q, u, v, s, t)
    <3>1. PolitePhase(d, s, t)
      BY <1>1, <2>1 DEF Negotiates, Together, PolitePhase, ImpolitePhase
    <3>2. ImpolitePhase(q, s, t) /\ Together(s, t)
      BY <1>1, <2>1 DEF Negotiates, Together, PolitePhase, ImpolitePhase
    <3>3. PoliteSays(u, d, s, t)
      BY <1>1, <2>1 DEF Negotiates, Together, PolitePhase, ImpolitePhase, PoliteSays
    <3>4. ImpoliteSays(v, q, s, t)
      BY <1>1, <2>1 DEF Negotiates, Together, ImpoliteSays
    <3>5. Knows(d, q, s, t)
      BY <1>1, <2>1 DEF Negotiates, Together, PolitePhase, ImpolitePhase, PoliteSays, ImpoliteSays, Knows, Learns
    <3>6. Learns(d, q) /\ Learns(q, d)
      BY <1>1, <2>1 DEF Negotiates, Together, PolitePhase, ImpolitePhase, PoliteSays, ImpoliteSays, Knows, Learns
    <3>7. Waits(d) /\ Waits(q)
      BY <1>1, <2>1 DEF Negotiates, Waits, PolitePhase, ImpolitePhase
    <3>. QED
      BY <3>1, <3>2, <3>3, <3>4, <3>5, <3>6, <3>7 DEF Negotiates
  <2>. QED
    BY <1>2, <2>2 DEF Linked, Places
<1>3. CASE ~first
  <2>1. PICK s \in Places, t \in Places : Negotiates(q, p, v, u, s, t)
    BY <1>3 DEF Linked
  <2>2. Negotiates(q, d, v, u, s, t)
    <3>1. PolitePhase(q, s, t)
      BY <1>1, <2>1 DEF Negotiates, Together, PolitePhase, ImpolitePhase
    <3>2. ImpolitePhase(d, s, t) /\ Together(s, t)
      BY <1>1, <2>1 DEF Negotiates, Together, PolitePhase, ImpolitePhase
    <3>3. PoliteSays(v, q, s, t)
      BY <1>1, <2>1 DEF Negotiates, Together, PolitePhase, ImpolitePhase, PoliteSays
    <3>4. ImpoliteSays(u, d, s, t)
      BY <1>1, <2>1 DEF Negotiates, Together, ImpoliteSays
    <3>5. Knows(q, d, s, t)
      BY <1>1, <2>1 DEF Negotiates, Together, PolitePhase, ImpolitePhase, PoliteSays, ImpoliteSays, Knows, Learns
    <3>6. Learns(q, d) /\ Learns(d, q)
      BY <1>1, <2>1 DEF Negotiates, Together, PolitePhase, ImpolitePhase, PoliteSays, ImpoliteSays, Knows, Learns
    <3>7. Waits(q) /\ Waits(d)
      BY <1>1, <2>1 DEF Negotiates, Waits, PolitePhase, ImpolitePhase
    <3>. QED
      BY <3>1, <3>2, <3>3, <3>4, <3>5, <3>6, <3>7 DEF Negotiates
  <2>. QED
    BY <1>3, <2>2 DEF Linked, Places
<1>. QED
  BY <1>2, <1>3

\* Each of the two sides may be named first.
LEMMA LinkedBothWays ==
  ASSUME NEW p, NEW q, NEW u, NEW v, NEW first \in BOOLEAN, Linked(p, q, u, v, first)
  PROVE  Linked(q, p, v, u, ~first)
BY DEF Linked

\* What a connection is about to answer, or has been answered, is open.
LEMMA AnswersAreDue ==
  ASSUME NEW p \in Connections, NEW q \in Connections,
         NEW u \in Seq(Signals), NEW v \in Seq(Signals),
         NEW first \in BOOLEAN, Linked(p, q, u, v, first), p.chain # <<>>
  PROVE  /\ p.chain[1].op \in Answering => p.sig = "have-remote-offer"
         /\ p.chain[1].op = "setRemoteAnswer" => p.sig = "have-local-offer"
<1>1. Len(p.chain) # 0
  BY DEF Connections
<1>. USE DEF Idle, Does, DoesBoth, Own, Answering
<1>2. CASE first
  <2>1. PICK s \in Places, t \in Places : PolitePhase(p, s, t) /\ Together(s, t)
    BY <1>2 DEF Linked, Negotiates
  <2>. QED
    BY <1>1, <2>1 DEF PolitePhase, Together
<1>3. CASE ~first
  <2>1. PICK s \in Places, t \in Places : ImpolitePhase(p, s, t) /\ Together(s, t)
    BY <1>3 DEF Linked, Negotiates
  <2>. QED
    BY <1>1, <2>1 DEF ImpolitePhase, Together
<1>. QED
  BY <1>2, <1>3

\* Two connections of which nothing was said yet.
LEMMA NothingSaid ==
  ASSUME NEW i \in Nat, NEW j \in Nat, NEW x \in BOOLEAN, NEW y \in BOOLEAN, NEW first \in BOOLEAN
  PROVE  Linked(NewPc(i, j, x), NewPc(j, i, y), <<>>, <<>>, first)
<1>. DEFINE p == NewPc(i, j, x)
            q == NewPc(j, i, y)
<1>1. /\ Len(p.chain) = 0 /\ p.sig = "stable" /\ ~p.makingOffer /\ ~p.needed /\ ~p.told /\ ~p.hears
      /\ Len(q.chain) = 0 /\ q.sig = "stable" /\ ~q.makingOffer /\ ~q.needed /\ ~q.told /\ ~q.hears
      /\ p.hears = q.told /\ q.hears = p.told
  BY DEF NewPc
<1>. HIDE DEF p, q
<1>2. Negotiates(p, q, <<>>, <<>>, "none", "none")
  BY <1>1 DEF Negotiates, PolitePhase, ImpolitePhase, Idle, Together, PoliteSays, ImpoliteSays,
              Knows, Learns, Waits
<1>3. Negotiates(q, p, <<>>, <<>>, "none", "none")
  BY <1>1 DEF Negotiates, PolitePhase, ImpolitePhase, Idle, Together, PoliteSays, ImpoliteSays,
              Knows, Learns, Waits
<1>. QED
  BY <1>2, <1>3 DEF Linked, Places, p, q

\* When nothing is on its way and neither waits for an answer, each knows what
\* the other has said last, and an event that has fired has been seen to.
LEMMA AllIsSaid ==
  ASSUME NEW p \in Connections, NEW q \in Connections, NEW first \in BOOLEAN,
         Linked(p, q, <<>>, <<>>, first),
         p.sig = "stable", q.sig = "stable", p.chain = <<>>, q.chain = <<>>
  PROVE  p.hears = q.told /\ q.hears = p.told /\ ~p.needed /\ ~q.needed
<1>1. Len(p.chain) = 0 /\ Len(q.chain) = 0
  OBVIOUS
<1>. USE DEF Idle, Does, DoesBoth, Own, Answering
<1>2. CASE first
  <2>1. PICK s \in Places, t \in Places : Negotiates(p, q, <<>>, <<>>, s, t)
    BY <1>2 DEF Linked
  <2>2. s = "none" /\ t = "none"
    BY <1>1, <2>1 DEF Negotiates, PolitePhase, ImpolitePhase
  <2>. QED
    BY <1>1, <2>1, <2>2 DEF Negotiates, PolitePhase, ImpolitePhase, Knows, Waits
<1>3. CASE ~first
  <2>1. PICK s \in Places, t \in Places : Negotiates(q, p, <<>>, <<>>, s, t)
    BY <1>3 DEF Linked
  <2>2. s = "none" /\ t = "none"
    BY <1>1, <2>1 DEF Negotiates, PolitePhase, ImpolitePhase
  <2>. QED
    BY <1>1, <2>1, <2>2 DEF Negotiates, PolitePhase, ImpolitePhase, Knows, Waits
<1>. QED
  BY <1>2, <1>3

-----------------------------------------------------------------------------
(* What an inbox carries from one of the others.                           *)

IsFrom(m, i) == m.type \in {"offer", "answer"} /\ m.from = i

\* u: the offers and answers from i in the inbox s, in order.
Carries(s, i, u) ==
  \E e \in [1 .. Len(u) -> 1 .. Len(s)] :
    /\ \A k, l \in 1 .. Len(u) : k < l => e[k] < e[l]
    /\ \A k \in 1 .. Len(u) : IsFrom(s[e[k]], i) /\ s[e[k]] = u[k]
    /\ \A n \in 1 .. Len(s) : IsFrom(s[n], i) => \E k \in 1 .. Len(u) : e[k] = n

LEMMA CarriesNothing ==
  ASSUME NEW s \in Seq(Messages), NEW i, \A n \in 1 .. Len(s) : ~IsFrom(s[n], i)
  PROVE  Carries(s, i, <<>>)
<1>. DEFINE e == [k \in 1 .. Len(<<>>) |-> 1]
<1>1. e \in [1 .. Len(<<>>) -> 1 .. Len(s)] /\ \A k \in 1 .. Len(<<>>) : FALSE
  OBVIOUS
<1>. HIDE DEF e
<1>. QED
  BY <1>1 DEF Carries

LEMMA CarriesNoMore ==
  ASSUME NEW s \in Seq(Messages), NEW i, NEW u \in Seq(Signals), Carries(s, i, u),
         NEW m \in Messages, ~IsFrom(m, i)
  PROVE  Carries(Append(s, m), i, u)
<1>. DEFINE w == Append(s, m)
            n == Len(s)
<1>1. /\ n \in Nat /\ Len(w) = n + 1 /\ w[n + 1] = m /\ \A k \in 1 .. n : w[k] = s[k]
  OBVIOUS
<1>2. PICK e \in [1 .. Len(u) -> 1 .. n] :
        /\ \A k, l \in 1 .. Len(u) : k < l => e[k] < e[l]
        /\ \A k \in 1 .. Len(u) : IsFrom(s[e[k]], i) /\ s[e[k]] = u[k]
        /\ \A k \in 1 .. n : IsFrom(s[k], i) => \E l \in 1 .. Len(u) : e[l] = k
  BY DEF Carries
<1>. HIDE DEF n, w
<1>3. \A k \in 1 .. n + 1 : k \in 1 .. n \/ k = n + 1
  BY <1>1
<1>4. e \in [1 .. Len(u) -> 1 .. Len(w)]
  BY <1>1
<1>5. \A k \in 1 .. Len(u) : IsFrom(w[e[k]], i) /\ w[e[k]] = u[k]
  BY <1>1, <1>2
<1>6. \A k \in 1 .. Len(w) : IsFrom(w[k], i) => \E l \in 1 .. Len(u) : e[l] = k
  BY <1>1, <1>2, <1>3
<1>7. \A k, l \in 1 .. Len(u) : k < l => e[k] < e[l]
  BY <1>2
<1>8. Carries(w, i, u)
  BY <1>4, <1>5, <1>6, <1>7 DEF Carries
<1>. QED
  BY <1>8 DEF w

LEMMA CarriesOneMore ==
  ASSUME NEW s \in Seq(Messages), NEW i, NEW u \in Seq(Signals), Carries(s, i, u),
         NEW m \in Signals, IsFrom(m, i)
  PROVE  Carries(Append(s, m), i, Append(u, m))
<1>. DEFINE w == Append(s, m)
            n == Len(s)
            x == Append(u, m)
            o == Len(u)
            a == n + 1
            b == o + 1
<1>1. /\ n \in Nat /\ Len(w) = a /\ w[a] = m /\ \A k \in 1 .. n : w[k] = s[k]
      /\ o \in Nat /\ Len(x) = b /\ x[b] = m /\ \A k \in 1 .. o : x[k] = u[k]
  BY DEF Messages
<1>2. PICK e \in [1 .. o -> 1 .. n] :
        /\ \A k, l \in 1 .. o : k < l => e[k] < e[l]
        /\ \A k \in 1 .. o : IsFrom(s[e[k]], i) /\ s[e[k]] = u[k]
        /\ \A k \in 1 .. n : IsFrom(s[k], i) => \E l \in 1 .. o : e[l] = k
  BY DEF Carries
<1>3. /\ \A k \in 1 .. a : k \in 1 .. n \/ k = a
      /\ \A k \in 1 .. b : k \in 1 .. o \/ k = b
      /\ \A k \in 1 .. n : k \in 1 .. a /\ k < a
      /\ \A k \in 1 .. o : k \in 1 .. b /\ ~(b < k) /\ k # b
      /\ a \in 1 .. a /\ b \in 1 .. b /\ ~(b < b)
  BY <1>1
<1>. DEFINE f == [k \in 1 .. b |-> IF k = b THEN a ELSE e[k]]
<1>. HIDE DEF n, w, x, o, a, b
<1>4. f \in [1 .. b -> 1 .. a] /\ f[b] = a /\ \A k \in 1 .. o : f[k] = e[k] /\ e[k] \in 1 .. n
  BY <1>2, <1>3
<1>. HIDE DEF f
<1>5. \A k, l \in 1 .. b : k < l => f[k] < f[l]
  BY <1>2, <1>3, <1>4
<1>6. \A k \in 1 .. b : IsFrom(w[f[k]], i) /\ w[f[k]] = x[k]
  BY <1>1, <1>2, <1>3, <1>4
<1>7. \A k \in 1 .. a : IsFrom(w[k], i) => \E l \in 1 .. b : f[l] = k
  BY <1>1, <1>2, <1>3, <1>4
<1>8. Len(w) = a /\ Len(x) = b
  BY <1>1
<1>9. /\ f \in [1 .. Len(x) -> 1 .. Len(w)]
      /\ \A k, l \in 1 .. Len(x) : k < l => f[k] < f[l]
      /\ \A k \in 1 .. Len(x) : IsFrom(w[f[k]], i) /\ w[f[k]] = x[k]
      /\ \A k \in 1 .. Len(w) : IsFrom(w[k], i) => \E l \in 1 .. Len(x) : f[l] = k
  BY <1>4, <1>5, <1>6, <1>7, <1>8
<1>10. Carries(w, i, x)
  BY <1>9 DEF Carries
<1>. QED
  BY <1>10 DEF w, x

LEMMA FirstIsAnothers ==
  ASSUME NEW s \in Seq(Messages), s # <<>>, NEW i, NEW u \in Seq(Signals), Carries(s, i, u),
         ~IsFrom(s[1], i)
  PROVE  Carries(Tail(s), i, u)
<1>. DEFINE w == Tail(s)
            n == Len(s)
            o == Len(u)
            a == n - 1
<1>1. /\ n \in Nat /\ n > 0 /\ a \in Nat /\ Len(w) = a /\ \A k \in 1 .. a : w[k] = s[k + 1]
  OBVIOUS
<1>2. PICK e \in [1 .. o -> 1 .. n] :
        /\ \A k, l \in 1 .. o : k < l => e[k] < e[l]
        /\ \A k \in 1 .. o : IsFrom(s[e[k]], i) /\ s[e[k]] = u[k]
        /\ \A k \in 1 .. n : IsFrom(s[k], i) => \E l \in 1 .. o : e[l] = k
  BY DEF Carries
<1>3. \A k \in 1 .. n : k # 1 => k - 1 \in 1 .. a /\ w[k - 1] = s[k]
  BY <1>1
<1>4. \A k \in 1 .. a : k + 1 \in 1 .. n /\ (k + 1) - 1 = k
  BY <1>1
<1>. DEFINE f == [k \in 1 .. o |-> e[k] - 1]
<1>. HIDE DEF n, w, o, a
<1>5. \A k \in 1 .. o : e[k] \in 1 .. n /\ e[k] # 1
  BY <1>2
<1>6. f \in [1 .. o -> 1 .. a] /\ \A k \in 1 .. o : f[k] = e[k] - 1 /\ w[f[k]] = s[e[k]]
  BY <1>3, <1>5
<1>. HIDE DEF f
<1>7. \A k, l \in 1 .. o : k < l => f[k] < f[l]
  BY <1>1, <1>2, <1>5, <1>6
<1>8. \A k \in 1 .. o : IsFrom(w[f[k]], i) /\ w[f[k]] = u[k]
  BY <1>2, <1>6
<1>9. ASSUME NEW k \in 1 .. a, IsFrom(w[k], i) PROVE \E l \in 1 .. o : f[l] = k
  <2>1. PICK l \in 1 .. o : e[l] = k + 1
    BY <1>1, <1>2, <1>4, <1>9
  <2>. QED
    BY <1>4, <1>6, <2>1
<1>10. Carries(w, i, u)
  BY <1>1, <1>6, <1>7, <1>8, <1>9 DEF Carries, o
<1>. QED
  BY <1>10 DEF w

LEMMA FirstIsTheirs ==
  ASSUME NEW s \in Seq(Messages), s # <<>>, NEW i, NEW u \in Seq(Signals), Carries(s, i, u),
         IsFrom(s[1], i)
  PROVE  u # <<>> /\ u[1] = s[1] /\ Carries(Tail(s), i, Tail(u))
<1>. DEFINE w == Tail(s)
            n == Len(s)
            o == Len(u)
            a == n - 1
            x == Tail(u)
            b == o - 1
<1>1. /\ n \in Nat /\ n > 0 /\ a \in Nat /\ Len(w) = a /\ \A k \in 1 .. a : w[k] = s[k + 1]
      /\ o \in Nat /\ 1 \in 1 .. n
  OBVIOUS
<1>2. PICK e \in [1 .. o -> 1 .. n] :
        /\ \A k, l \in 1 .. o : k < l => e[k] < e[l]
        /\ \A k \in 1 .. o : IsFrom(s[e[k]], i) /\ s[e[k]] = u[k]
        /\ \A k \in 1 .. n : IsFrom(s[k], i) => \E l \in 1 .. o : e[l] = k
  BY DEF Carries
<1>. HIDE DEF n
<1>3. PICK z \in 1 .. o : e[z] = 1
  BY <1>1, <1>2
<1>4. o > 0 /\ 1 \in 1 .. o /\ z = 1
  <2>1. o > 0 /\ 1 \in 1 .. o /\ (1 < z \/ z = 1)
    BY <1>1
  <2>2. e[1] \in 1 .. n /\ ~(e[1] < 1)
    BY <1>1, <2>1
  <2>. QED
    BY <1>2, <1>3, <2>1, <2>2
<1>5. u # <<>> /\ u[1] = s[1]
  BY <1>2, <1>3, <1>4
<1>6. b \in Nat /\ Len(x) = b /\ x \in Seq(Signals) /\ \A k \in 1 .. b : x[k] = u[k + 1]
  BY <1>4, <1>5
<1>7. \A k \in 1 .. n : k # 1 => k - 1 \in 1 .. a /\ w[k - 1] = s[k]
  BY <1>1 DEF n
<1>8. /\ \A k \in 1 .. a : k + 1 \in 1 .. n /\ (k + 1) - 1 = k /\ k + 1 # 1
      /\ \A k \in 1 .. b : k + 1 \in 1 .. o /\ 1 < k + 1 /\ 1 \in 1 .. o
      /\ \A k \in 1 .. o : k # 1 => k - 1 \in 1 .. b /\ (k - 1) + 1 = k
  BY <1>1, <1>4
<1>. DEFINE f == [k \in 1 .. b |-> e[k + 1] - 1]
<1>. HIDE DEF w, o, a, x, b
<1>9. \A k \in 1 .. b : e[k + 1] \in 1 .. n /\ e[k + 1] # 1
  <2>. SUFFICES ASSUME NEW k \in 1 .. b PROVE e[k + 1] \in 1 .. n /\ e[k + 1] # 1
    OBVIOUS
  <2>1. k + 1 \in 1 .. o /\ 1 < k + 1
    BY <1>8
  <2>2. e[1] < e[k + 1] /\ e[1] = 1 /\ e[k + 1] \in 1 .. n
    BY <1>2, <1>3, <1>4, <2>1
  <2>. QED
    BY <2>2
<1>10. f \in [1 .. b -> 1 .. a] /\ \A k \in 1 .. b : f[k] = e[k + 1] - 1 /\ w[f[k]] = s[e[k + 1]]
  BY <1>7, <1>9
<1>. HIDE DEF f
<1>11. ASSUME NEW k \in 1 .. b, NEW l \in 1 .. b, k < l PROVE f[k] < f[l]
  <2>1. k + 1 \in 1 .. o /\ l + 1 \in 1 .. o /\ k + 1 < l + 1
    BY <1>8, <1>6, <1>11
  <2>2. e[k + 1] < e[l + 1] /\ e[k + 1] \in 1 .. n /\ e[l + 1] \in 1 .. n
    BY <1>2, <1>9, <2>1
  <2>3. f[k] = e[k + 1] - 1 /\ f[l] = e[l + 1] - 1
    BY <1>10
  <2>. QED
    BY <1>1, <2>2, <2>3
<1>12. ASSUME NEW k \in 1 .. b PROVE IsFrom(w[f[k]], i) /\ w[f[k]] = x[k]
  <2>1. k + 1 \in 1 .. o
    BY <1>8
  <2>. QED
    BY <1>2, <1>6, <1>10, <2>1
<1>13. ASSUME NEW k \in 1 .. a, IsFrom(w[k], i) PROVE \E l \in 1 .. b : f[l] = k
  <2>1. k + 1 \in 1 .. n /\ IsFrom(s[k + 1], i) /\ k + 1 # 1
    BY <1>1, <1>8, <1>13
  <2>2. PICK l \in 1 .. o : e[l] = k + 1
    BY <1>2, <2>1
  <2>3. l # 1
    BY <1>3, <1>4, <2>1, <2>2
  <2>4. l - 1 \in 1 .. b /\ (l - 1) + 1 = l
    BY <1>8, <2>3
  <2>5. f[l - 1] = (k + 1) - 1
    BY <1>10, <2>2, <2>4
  <2>. QED
    BY <1>8, <2>4, <2>5
<1>14. Carries(w, i, x)
  BY <1>1, <1>6, <1>10, <1>11, <1>12, <1>13, Zenon DEF Carries
<1>. QED
  BY <1>5, <1>14 DEF w, x

-----------------------------------------------------------------------------
(* The pages, their inboxes, and what two of them know of each other.      *)

Heard == {"setRemoteOffer", "setRemoteAnswer"}

Refers(q, far) ==
  /\ q.remote = NoRemote \/ q.remote \in far
  /\ \A k \in 1 .. Len(q.chain) : q.chain[k].op \in Heard => q.chain[k].remote \in far

OffersFor(q, n) == \A k \in 1 .. Len(q.chain) : q.chain[k].op \in Own => q.chain[k].neg = n

Kept(g) ==
  /\ \A p \in Ids : g.pcs[p] # NoPc =>
       /\ g.pcs[p] \in 1 .. Len(g.pc) /\ g.pc[g.pcs[p]].sig # "closed"
       /\ g.pc[g.pcs[p]].peer = p /\ g.pc[g.pcs[p]].sends = g.inCall
  /\ \A n \in 1 .. Len(g.pc) : g.pc[n].sig # "closed" =>
       g.pc[n].peer \in Ids /\ g.pcs[g.pc[n].peer] = n /\ OffersFor(g.pc[n], n)

Manners(g, me) == \A p \in Ids : g.pcs[p] # NoPc => g.pc[g.pcs[p]].polite = (me < p)
Known(g, used) == \A p \in Ids : g.pcs[p] # NoPc => p \in used

Introduces(m, i) == (m.type = "peers" /\ i \in m.ids) \/ (m.type = "joined" /\ m.from = i)
Names(m, used) == IF m.type = "peers" THEN m.ids \subseteq used ELSE m.from \in used

\* Whoever is to be introduced is unknown yet and has said nothing before.
Fresh(g, s) ==
  \A i \in Ids : \A k \in 1 .. Len(s) : Introduces(s[k], i) =>
    /\ g.pcs[i] = NoPc
    /\ \A l \in 1 .. Len(s) : l # k => ~Introduces(s[l], i)
    /\ \A l \in 1 .. k : ~IsFrom(s[l], i)

\* The connection page g, under me, has for i, or would have if it were made now.
View(g, me, i) == IF g.pcs[i] = NoPc THEN NewPc(me, i, g.inCall) ELSE g.pc[g.pcs[i]]

\* The connections of page b under which it can be referred to.
Far(g, i, b) == IF g.pcs[i] = NoPc THEN {} ELSE {<<b, g.pcs[i]>>}

Expects(g, s, j) == g.pcs[j] = NoPc => \E k \in 1 .. Len(s) : Introduces(s[k], j)

Reaches(g, i, s, j, far) ==
  Refers(View(g, i, j), far) /\ \A k \in 1 .. Len(s) : IsFrom(s[k], j) => s[k].pc \in far

Talk(g, i, s, h, j, r) ==
  \E u, v \in Seq(Signals) :
    Carries(r, i, u) /\ Carries(s, j, v) /\ Linked(View(g, i, j), View(h, j, i), u, v, i < j)

\* What page g, under i and with inbox s, and page h of c, under j and with
\* inbox r, have of each other.
Half(g, i, s, h, j, c) == Expects(g, s, j) /\ Reaches(g, i, s, j, Far(h, i, c))

-----------------------------------------------------------------------------
(* Messages that come and go.                                              *)

SameFor(g, h, i, j) == h.pcs[j] = g.pcs[j] /\ View(h, i, j) = View(g, i, j)

\* Inbox s becomes t, by a message that does not concern j, or by none.
Passes(s, t, j) ==
  \/ t = s
  \/ \E m \in Messages : ~IsFrom(m, j) /\ t = Append(s, m)
  \/ s # <<>> /\ ~IsFrom(s[1], j) /\ ~Introduces(s[1], j) /\ t = Tail(s)

LEMMA ShapeOfMessages ==
  ASSUME NEW m \in Messages
  PROVE  /\ \A i : IsFrom(m, i) => m \in Signals
         /\ m.type = "peers" => m.ids \in SUBSET Ids
         /\ m.type \in {"joined", "left"} => m.from \in Ids
         /\ m.type \in {"peers", "joined", "left", "offer", "answer"}
         /\ \A i : IsFrom(m, i) => \A j : ~Introduces(m, j)
BY DEF Messages, Signals, IsFrom, Introduces

LEMMA OneAppended ==
  ASSUME NEW s \in Seq(Messages), NEW m \in Messages, NEW t, t = Append(s, m)
  PROVE  /\ t \in Seq(Messages) /\ Len(s) \in Nat /\ Len(t) = Len(s) + 1 /\ t[Len(t)] = m
         /\ Len(t) \in 1 .. Len(t)
         /\ \A k \in 1 .. Len(s) : k \in 1 .. Len(t) /\ t[k] = s[k] /\ k # Len(t)
         /\ \A k \in 1 .. Len(t) : k \in 1 .. Len(s) \/ k = Len(t)
BY DEF Messages

LEMMA HeadTaken ==
  ASSUME NEW s \in Seq(Messages), s # <<>>, NEW t, t = Tail(s)
  PROVE  /\ t \in Seq(Messages) /\ Len(s) \in Nat /\ Len(s) > 0 /\ Len(t) \in Nat /\ Len(t) = Len(s) - 1
         /\ s[1] \in Messages
         /\ \A k \in 1 .. Len(t) : k + 1 \in 2 .. Len(s) /\ k + 1 \in 1 .. Len(s) /\ t[k] = s[k + 1]
         /\ \A k \in 1 .. Len(s) : k # 1 => k - 1 \in 1 .. Len(t) /\ s[k] = t[k - 1]
BY DEF Messages

LEMMA PassesKeepsType ==
  ASSUME NEW s \in Seq(Messages), NEW t, NEW j, Passes(s, t, j)
  PROVE  t \in Seq(Messages)
BY DEF Passes

LEMMA PassesKeepsExpecting ==
  ASSUME NEW g, NEW h, NEW j, h.pcs[j] = g.pcs[j], NEW s \in Seq(Messages), NEW t, Passes(s, t, j),
         Expects(g, s, j)
  PROVE  Expects(h, t, j)
<1>. SUFFICES ASSUME NEW k \in 1 .. Len(s), Introduces(s[k], j) PROVE \E l \in 1 .. Len(t) : Introduces(t[l], j)
  BY DEF Expects
<1>1. ASSUME NEW m \in Messages, t = Append(s, m) PROVE \E l \in 1 .. Len(t) : Introduces(t[l], j)
  BY <1>1, OneAppended
<1>2. ASSUME s # <<>>, ~Introduces(s[1], j), t = Tail(s) PROVE \E l \in 1 .. Len(t) : Introduces(t[l], j)
  <2>1. k # 1
    BY <1>2
  <2>2. k - 1 \in 1 .. Len(t) /\ s[k] = t[k - 1]
    BY <1>2, <2>1, HeadTaken
  <2>3. Introduces(t[k - 1], j)
    BY <2>2
  <2>. QED
    BY <2>2, <2>3
<1>. QED
  BY <1>1, <1>2 DEF Passes

LEMMA PassesKeepsReaching ==
  ASSUME NEW g, NEW h, NEW i, NEW j, View(h, i, j) = View(g, i, j), NEW far,
         NEW s \in Seq(Messages), NEW t, Passes(s, t, j), Reaches(g, i, s, j, far)
  PROVE  Reaches(h, i, t, j, far)
<1>. SUFFICES ASSUME NEW k \in 1 .. Len(t), IsFrom(t[k], j) PROVE t[k].pc \in far
  BY DEF Reaches
<1>0. \A l \in 1 .. Len(s) : IsFrom(s[l], j) => s[l].pc \in far
  BY DEF Reaches
<1>1. ASSUME NEW m \in Messages, ~IsFrom(m, j), t = Append(s, m) PROVE t[k].pc \in far
  BY <1>0, <1>1, OneAppended
<1>2. ASSUME s # <<>>, t = Tail(s) PROVE t[k].pc \in far
  BY <1>0, <1>2, HeadTaken
<1>. QED
  BY <1>0, <1>1, <1>2 DEF Passes

LEMMA PassesKeepsCarrying ==
  ASSUME NEW s \in Seq(Messages), NEW t, NEW j, Passes(s, t, j), NEW u \in Seq(Signals), Carries(s, j, u)
  PROVE  Carries(t, j, u)
BY CarriesNoMore, FirstIsAnothers DEF Passes

LEMMA HalfUndisturbed ==
  ASSUME NEW g, NEW g2, NEW h, NEW h2, NEW i, NEW j, NEW c, NEW s \in Seq(Messages), NEW s2,
         Half(g, i, s, h, j, c), SameFor(g, g2, i, j), h2.pcs[i] = h.pcs[i], Passes(s, s2, j)
  PROVE  Half(g2, i, s2, h2, j, c)
<1>1. Far(h2, i, c) = Far(h, i, c)
  BY DEF Far
<1>2. Expects(g2, s2, j)
  BY PassesKeepsExpecting DEF Half, SameFor
<1>3. Reaches(g2, i, s2, j, Far(h, i, c))
  BY PassesKeepsReaching DEF Half, SameFor
<1>. QED
  BY <1>1, <1>2, <1>3 DEF Half

LEMMA TalkUndisturbed ==
  ASSUME NEW g, NEW g2, NEW h, NEW h2, NEW i, NEW j,
         NEW s \in Seq(Messages), NEW s2, NEW r \in Seq(Messages), NEW r2,
         Talk(g, i, s, h, j, r), View(g2, i, j) = View(g, i, j), View(h2, j, i) = View(h, j, i),
         Passes(s, s2, j), Passes(r, r2, i)
  PROVE  Talk(g2, i, s2, h2, j, r2)
<1>1. PICK u \in Seq(Signals), v \in Seq(Signals) :
        Carries(r, i, u) /\ Carries(s, j, v) /\ Linked(View(g, i, j), View(h, j, i), u, v, i < j)
  BY DEF Talk
<1>2. Carries(r2, i, u) /\ Carries(s2, j, v)
  BY <1>1, PassesKeepsCarrying
<1>. QED
  BY <1>1, <1>2 DEF Talk

LEMMA TalkBothWays ==
  ASSUME NEW g, NEW h, NEW i \in Nat, NEW j \in Nat, i # j, NEW s, NEW r, Talk(g, i, s, h, j, r)
  PROVE  Talk(h, j, r, g, i, s)
<1>1. PICK u \in Seq(Signals), v \in Seq(Signals) :
        Carries(r, i, u) /\ Carries(s, j, v) /\ Linked(View(g, i, j), View(h, j, i), u, v, i < j)
  BY DEF Talk
<1>2. (j < i) = ~(i < j) /\ (i < j) \in BOOLEAN
  OBVIOUS
<1>3. Linked(View(h, j, i), View(g, i, j), v, u, j < i)
  BY <1>1, <1>2, LinkedBothWays
<1>. QED
  BY <1>1, <1>3 DEF Talk

-----------------------------------------------------------------------------
(* Introductions.                                                          *)

LEMMA FreshAppended ==
  ASSUME NEW g, NEW s \in Seq(Messages), Fresh(g, s), NEW m \in Messages,
         \A i \in Ids : Introduces(m, i) =>
           g.pcs[i] = NoPc /\ \A k \in 1 .. Len(s) : ~Introduces(s[k], i) /\ ~IsFrom(s[k], i)
  PROVE  Fresh(g, Append(s, m))
<1>. DEFINE t == Append(s, m)
<1>1. /\ Len(s) \in Nat /\ Len(t) = Len(s) + 1 /\ t[Len(t)] = m
      /\ \A k \in 1 .. Len(s) : k \in 1 .. Len(t) /\ t[k] = s[k] /\ k # Len(t)
      /\ \A k \in 1 .. Len(t) : k \in 1 .. Len(s) \/ k = Len(t)
  BY OneAppended
<1>. HIDE DEF t
<1>. SUFFICES ASSUME NEW i \in Ids, NEW k \in 1 .. Len(t), Introduces(t[k], i)
              PROVE  /\ g.pcs[i] = NoPc
                     /\ \A l \in 1 .. Len(t) : l # k => ~Introduces(t[l], i)
                     /\ \A l \in 1 .. k : ~IsFrom(t[l], i)
  BY DEF Fresh, t
<1>2. CASE k = Len(t)
  <2>1. /\ g.pcs[i] = NoPc /\ \A l \in 1 .. Len(s) : ~Introduces(s[l], i) /\ ~IsFrom(s[l], i)
        /\ ~IsFrom(m, i)
    BY <1>1, <1>2, ShapeOfMessages
  <2>. QED
    BY <1>1, <1>2, <2>1
<1>3. CASE k \in 1 .. Len(s)
  <2>1. Introduces(s[k], i)
    BY <1>1, <1>3
  <2>2. g.pcs[i] = NoPc /\ (\A l \in 1 .. Len(s) : l # k => ~Introduces(s[l], i))
        /\ \A l \in 1 .. k : ~IsFrom(s[l], i)
    BY <1>3, <2>1 DEF Fresh
  <2>3. ~Introduces(m, i)
    BY <1>3, <2>1
  <2>4. \A l \in 1 .. k : l \in 1 .. Len(s)
    BY <1>1, <1>3
  <2>. QED
    BY <1>1, <2>2, <2>3, <2>4
<1>. QED
  BY <1>1, <1>2, <1>3

LEMMA FreshTaken ==
  ASSUME NEW g, NEW h, NEW s \in Seq(Messages), s # <<>>, Fresh(g, s),
         \A i \in Ids : g.pcs[i] = NoPc => h.pcs[i] = NoPc \/ Introduces(s[1], i) \/ IsFrom(s[1], i)
  PROVE  Fresh(h, Tail(s))
<1>. DEFINE t == Tail(s)
<1>1. /\ Len(s) \in Nat /\ Len(s) > 0 /\ Len(t) = Len(s) - 1
      /\ \A k \in 1 .. Len(t) : k + 1 \in 1 .. Len(s) /\ t[k] = s[k + 1]
  BY HeadTaken
<1>. HIDE DEF t
<1>. SUFFICES ASSUME NEW i \in Ids, NEW k \in 1 .. Len(t), Introduces(t[k], i)
              PROVE  /\ h.pcs[i] = NoPc
                     /\ \A l \in 1 .. Len(t) : l # k => ~Introduces(t[l], i)
                     /\ \A l \in 1 .. k : ~IsFrom(t[l], i)
  BY DEF Fresh, t
<1>2. k + 1 \in 1 .. Len(s) /\ Introduces(s[k + 1], i) /\ 1 \in 1 .. Len(s) /\ 1 # k + 1 /\ 1 \in 1 .. (k + 1)
  BY <1>1
<1>3. /\ g.pcs[i] = NoPc
      /\ \A l \in 1 .. Len(s) : l # k + 1 => ~Introduces(s[l], i)
      /\ \A l \in 1 .. (k + 1) : ~IsFrom(s[l], i)
  BY <1>2 DEF Fresh
<1>4. h.pcs[i] = NoPc
  BY <1>2, <1>3
<1>5. \A l \in 1 .. Len(t) : l # k => ~Introduces(t[l], i)
  <2>. SUFFICES ASSUME NEW l \in 1 .. Len(t), l # k PROVE ~Introduces(t[l], i)
    OBVIOUS
  <2>1. l + 1 \in 1 .. Len(s) /\ l + 1 # k + 1 /\ t[l] = s[l + 1]
    BY <1>1
  <2>. QED
    BY <1>3, <2>1
<1>6. \A l \in 1 .. k : ~IsFrom(t[l], i)
  <2>. SUFFICES ASSUME NEW l \in 1 .. k PROVE ~IsFrom(t[l], i)
    OBVIOUS
  <2>1. l \in 1 .. Len(t) /\ l + 1 \in 1 .. (k + 1)
    BY <1>1
  <2>. QED
    BY <1>1, <1>3, <2>1
<1>. QED
  BY <1>4, <1>5, <1>6

\* Nothing names somebody who never came, and only who is gone is said to have left.
Proper(s, used, ids) ==
  \A k \in 1 .. Len(s) :
    Names(s[k], used) /\ (s[k].type = "left" => \A c \in Browsers : ids[c] # s[k].from)

LEMMA ProperAppended ==
  ASSUME NEW s \in Seq(Messages), NEW used, NEW ids, Proper(s, used, ids), NEW m \in Messages,
         Names(m, used), m.type = "left" => \A c \in Browsers : ids[c] # m.from
  PROVE  Proper(Append(s, m), used, ids)
<1>. DEFINE t == Append(s, m)
<1>1. /\ t[Len(t)] = m /\ \A k \in 1 .. Len(s) : t[k] = s[k]
      /\ \A k \in 1 .. Len(t) : k \in 1 .. Len(s) \/ k = Len(t)
  BY OneAppended
<1>. HIDE DEF t
<1>2. Proper(t, used, ids)
  BY <1>1 DEF Proper
<1>. QED
  BY <1>2 DEF t

LEMMA ProperTaken ==
  ASSUME NEW s \in Seq(Messages), s # <<>>, NEW used, NEW ids, Proper(s, used, ids)
  PROVE  Proper(Tail(s), used, ids)
<1>. DEFINE t == Tail(s)
<1>1. \A k \in 1 .. Len(t) : k + 1 \in 1 .. Len(s) /\ t[k] = s[k + 1]
  BY HeadTaken
<1>. HIDE DEF t
<1>2. Proper(t, used, ids)
  BY <1>1 DEF Proper
<1>. QED
  BY <1>2 DEF t

\* Ids are given out, and given up.
LEMMA ProperLater ==
  ASSUME NEW s \in Seq(Messages), NEW used \in SUBSET Ids, NEW ids, Proper(s, used, ids),
         NEW more, used \subseteq more, NEW later,
         \A c \in Browsers : later[c] = ids[c] \/ later[c] \notin used
  PROVE  Proper(s, more, later)
<1>. SUFFICES ASSUME NEW k \in 1 .. Len(s)
              PROVE  /\ Names(s[k], more)
                     /\ s[k].type = "left" => \A c \in Browsers : later[c] # s[k].from
  BY DEF Proper
<1>1. Names(s[k], used) /\ (s[k].type = "left" => \A c \in Browsers : ids[c] # s[k].from)
  BY DEF Proper
<1>2. s[k].type = "left" => s[k].from \in used
  BY <1>1 DEF Names
<1>. QED
  BY <1>1, <1>2 DEF Names

-----------------------------------------------------------------------------
(* The pages.                                                              *)

\* Connection q of the page, its n-th, becomes d; by what the page itself does,
\* it refers to nothing new.
Stays(q, d, n) ==
  /\ d \in Connections /\ d.sig # "closed"
  /\ d.peer = q.peer /\ d.polite = q.polite /\ d.sends = q.sends
  /\ OffersFor(q, n) => OffersFor(d, n)

Continues(q, d, n) == Stays(q, d, n) /\ \A far : Refers(q, far) => Refers(d, far)

LinkKept(q, d) ==
  \A w \in Connections, u, v \in Seq(Signals), first \in BOOLEAN :
    Linked(q, w, u, v, first) => Linked(d, w, u, v, first)

LinkSays(q, d, type, sending) ==
  \A w \in Connections, u, v \in Seq(Signals), first \in BOOLEAN, m \in Signals :
    m.type = type /\ m.sends = sending /\ Linked(q, w, u, v, first) => Linked(d, w, Append(u, m), v, first)

LEMMA ViewType ==
  ASSUME NEW g \in Pages, Kept(g), NEW i \in Nat, NEW j \in Ids
  PROVE  View(g, i, j) \in Connections
<1>1. CASE g.pcs[j] = NoPc
  <2>1. j \in Nat /\ g.inCall \in BOOLEAN
    BY VoiceAssumption DEF Ids, Pages
  <2>2. <<>> \in Seq(Operations)
    OBVIOUS
  <2>3. NewPc(i, j, g.inCall) \in Connections
    BY <2>1, <2>2 DEF NewPc, Connections
  <2>. QED
    BY <1>1, <2>3 DEF View
<1>2. CASE g.pcs[j] # NoPc
  BY <1>2 DEF View, Kept, Pages
<1>. QED
  BY <1>1, <1>2

Replaced(g, n, d) == [g EXCEPT !.pc[n] = d]

Becomes(g, n, d, h) ==
  /\ h \in Pages /\ Kept(h) /\ h.pcs = g.pcs
  /\ g.pc[n].peer \in Ids /\ g.pcs[g.pc[n].peer] = n
  /\ \A i : Manners(g, i) => Manners(h, i)
  /\ \A i : View(h, i, g.pc[n].peer) = d /\ View(g, i, g.pc[n].peer) = g.pc[n]
  /\ \A i, j : j \in Ids /\ j # g.pc[n].peer => View(h, i, j) = View(g, i, j)

LEMMA PageActs ==
  ASSUME NEW g \in Pages, Kept(g), NEW n \in 1 .. Len(g.pc), g.pc[n].sig # "closed",
         NEW d, Stays(g.pc[n], d, n), NEW h, h = Replaced(g, n, d)
  PROVE  Becomes(g, n, d, h)
<1>. DEFINE q == g.pc[n]
<1>1. n # NoPc /\ q.peer \in Ids /\ g.pcs[q.peer] = n
  BY DEF Kept, NoPc, Pages
<1>2. /\ g.pc \in Seq(Connections) /\ d \in Connections /\ d.sig # "closed" /\ d.peer = q.peer
      /\ d.polite = q.polite /\ d.sends = q.sends /\ OffersFor(d, n)
  BY DEF Stays, Kept, Pages
<1>3. /\ h \in Pages /\ h.pcs = g.pcs /\ h.inCall = g.inCall /\ h.pc = [g.pc EXCEPT ![n] = d]
      /\ Len(h.pc) = Len(g.pc)
  <2>1. [g.pc EXCEPT ![n] = d] \in Seq(Connections) /\ Len([g.pc EXCEPT ![n] = d]) = Len(g.pc)
    BY <1>2
  <2>2. h = [g EXCEPT !.pc = [g.pc EXCEPT ![n] = d]]
    BY DEF Replaced
  <2>3. h.pcs = g.pcs /\ h.inCall = g.inCall /\ h.pc = [g.pc EXCEPT ![n] = d]
    BY <2>2 DEF Pages
  <2>4. h \in Pages
    BY <2>1, <2>2 DEF Pages
  <2>. QED
    BY <2>1, <2>3, <2>4
<1>4. h.pc[n] = d /\ \A k \in 1 .. Len(g.pc) : k # n => h.pc[k] = g.pc[k]
  BY <1>2, <1>3
<1>5. \A j \in Ids : g.pcs[j] # NoPc => g.pcs[j] \in 1 .. Len(g.pc) /\ (g.pcs[j] = n => j = q.peer)
  BY DEF Kept
<1>6. Kept(h)
  <2>1. ASSUME NEW p \in Ids, h.pcs[p] # NoPc
        PROVE  /\ h.pcs[p] \in 1 .. Len(h.pc) /\ h.pc[h.pcs[p]].sig # "closed"
               /\ h.pc[h.pcs[p]].peer = p /\ h.pc[h.pcs[p]].sends = h.inCall
    BY <1>2, <1>3, <1>4, <2>1 DEF Kept
  <2>2. ASSUME NEW k \in 1 .. Len(h.pc), h.pc[k].sig # "closed"
        PROVE  h.pc[k].peer \in Ids /\ h.pcs[h.pc[k].peer] = k /\ OffersFor(h.pc[k], k)
    BY <1>1, <1>2, <1>3, <1>4, <2>2 DEF Kept
  <2>. QED
    BY <2>1, <2>2 DEF Kept
<1>7. ASSUME NEW i, Manners(g, i) PROVE Manners(h, i)
  BY <1>2, <1>3, <1>4, <1>5, <1>7 DEF Manners
<1>8. \A i : View(h, i, q.peer) = d /\ View(g, i, q.peer) = q
  BY <1>1, <1>3, <1>4 DEF View
<1>9. \A i, j : j \in Ids /\ j # q.peer => View(h, i, j) = View(g, i, j)
  BY <1>1, <1>3, <1>4, <1>5 DEF View
<1>. QED
  BY <1>1, <1>3, <1>6, <1>7, <1>8, <1>9 DEF Becomes

-----------------------------------------------------------------------------
(* The invariant.                                                          *)

TypeInv ==
  /\ id \in [Browsers -> Ids \cup {Offline}] /\ usedIds \in SUBSET Ids /\ participants \in SUBSET usedIds
  /\ inbox \in [Browsers -> Seq(Messages)] /\ page \in [Browsers -> Pages]

IdsInv ==
  /\ \A b \in Browsers : Connected(b) => id[b] \in participants
  /\ \A b, c \in Browsers : AtTable(b, c) => id[b] # id[c]
  /\ \A b \in Browsers : ~Connected(b) => inbox[b] = <<>>

PageInv ==
  \A b \in Browsers :
    Kept(page[b]) /\ Known(page[b], usedIds) /\ (Connected(b) => Manners(page[b], id[b]))

InboxInv ==
  \A b \in Browsers : Fresh(page[b], inbox[b]) /\ Proper(inbox[b], usedIds, id)

HalfInv ==
  \A b, c \in Browsers : AtTable(b, c) => Half(page[b], id[b], inbox[b], page[c], id[c], c)

TalkInv ==
  \A b, c \in Browsers : AtTable(b, c) => Talk(page[b], id[b], inbox[b], page[c], id[c], inbox[c])

IInv == TypeInv /\ IdsInv /\ PageInv /\ InboxInv /\ HalfInv /\ TalkInv

\* It is enough to look at one of two ends.
LEMMA OneEndIsEnough ==
  ASSUME TypeInv', IdsInv', NEW b \in Browsers,
         \A c \in Browsers : AtTable(b, c)' => Talk(page'[b], id'[b], inbox'[b], page'[c], id'[c], inbox'[c]),
         \A x, y \in Browsers : AtTable(x, y)' /\ x # b /\ y # b
           => Talk(page'[x], id'[x], inbox'[x], page'[y], id'[y], inbox'[y])
  PROVE  TalkInv'
<1>. SUFFICES ASSUME NEW x \in Browsers, NEW y \in Browsers, AtTable(x, y)'
              PROVE  Talk(page'[x], id'[x], inbox'[x], page'[y], id'[y], inbox'[y])
  BY DEF TalkInv
<1>1. CASE y = b /\ x # b
  <2>1. AtTable(b, x)' /\ id'[b] # id'[x]
    BY <1>1 DEF AtTable, IdsInv
  <2>2. id'[b] \in Nat /\ id'[x] \in Nat
    BY VoiceAssumption DEF TypeInv, Ids, Offline
  <2>3. Talk(page'[b], id'[b], inbox'[b], page'[x], id'[x], inbox'[x])
    BY <2>1
  <2>. QED
    BY <1>1, <2>1, <2>2, <2>3, TalkBothWays
<1>. QED
  BY <1>1 DEF AtTable

-----------------------------------------------------------------------------
(* What the browser does at one connection.                                *)

\* What page b says at connection n, to peer p.
SaysAt(b, n, p) ==
  \A x \in Browsers :
    \/ inbox'[x] = inbox[x]
    \/ /\ AtTable(b, x) /\ id[x] = p
       /\ \E m \in Signals : m.from = id[b] /\ m.pc = <<b, n>> /\ inbox'[x] = Append(inbox[x], m)

LEMMA SayingIsProper ==
  ASSUME IInv, UNCHANGED <<id, usedIds, participants>>, inbox' \in [Browsers -> Seq(Messages)],
         NEW b \in Browsers, NEW n, NEW p, SaysAt(b, n, p),
         page' \in [Browsers -> Pages], \A x \in Browsers : page'[x].pcs = page[x].pcs
  PROVE  TypeInv' /\ IdsInv' /\ InboxInv'
<1>1. TypeInv'
  BY DEF IInv, TypeInv
<1>2. IdsInv'
  BY DEF IInv, IdsInv, Connected, AtTable, SaysAt
<1>3. ASSUME NEW x \in Browsers PROVE Fresh(page'[x], inbox'[x]) /\ Proper(inbox'[x], usedIds', id')
  <2>1. /\ Fresh(page[x], inbox[x]) /\ Proper(inbox[x], usedIds, id) /\ inbox[x] \in Seq(Messages)
        /\ page'[x].pcs = page[x].pcs
    BY DEF IInv, InboxInv, TypeInv
  <2>2. Fresh(page'[x], inbox[x])
    BY <2>1 DEF Fresh
  <2>3. ASSUME NEW m \in Signals, AtTable(b, x), m.from = id[b], inbox'[x] = Append(inbox[x], m)
        PROVE  Fresh(page'[x], inbox'[x]) /\ Proper(inbox'[x], usedIds, id)
    <3>1. m \in Messages /\ m.type \in {"offer", "answer"} /\ \A i : ~Introduces(m, i)
      BY DEF Messages, Signals, Introduces
    <3>2. id[b] \in usedIds
      BY <2>3 DEF IInv, IdsInv, TypeInv, AtTable
    <3>3. Names(m, usedIds)
      BY <2>3, <3>1, <3>2 DEF Names
    <3>. QED
      BY <2>1, <2>2, <2>3, <3>1, <3>3, FreshAppended, ProperAppended
  <2>. QED
    BY <2>1, <2>2, <2>3 DEF SaysAt
<1>. QED
  BY <1>1, <1>2, <1>3 DEF InboxInv

LEMMA SayingPasses ==
  ASSUME IInv, NEW b \in Browsers, NEW n, NEW p, SaysAt(b, n, p), NEW x \in Browsers, NEW j,
         id[x] # p \/ j # id[b]
  PROVE  Passes(inbox[x], inbox'[x], j)
BY DEF SaysAt, Passes, IsFrom, Messages

\* What the peer has been told goes with what the connection has become.
Follows(b, n, d) ==
  \A c \in Browsers : AtTable(b, c) /\ id[c] = page[b].pc[n].peer =>
    \A w \in Connections, u, v \in Seq(Signals), first \in BOOLEAN :
      Linked(page[b].pc[n], w, u, v, first) /\ Carries(inbox[c], id[b], u)
        => \E x \in Seq(Signals) : Linked(d, w, x, v, first) /\ Carries(inbox'[c], id[b], x)

\* Connection n of page b, to p, becomes d, and says m or nothing.
LEMMA ActsAt ==
  ASSUME IInv, UNCHANGED <<id, usedIds, participants>>, inbox' \in [Browsers -> Seq(Messages)],
         NEW b \in Browsers, NEW n \in 1 .. Len(page[b].pc), page[b].pc[n].sig # "closed",
         SaysAt(b, n, page[b].pc[n].peer),
         NEW d, Continues(page[b].pc[n], d, n), page' = [page EXCEPT ![b] = Replaced(page[b], n, d)],
         Follows(b, n, d)
  PROVE  IInv'
<1>. DEFINE g == page[b]
            q == g.pc[n]
            p == q.peer
            h == Replaced(g, n, d)
<1>1. g \in Pages /\ Kept(g) /\ Known(g, usedIds) /\ page'[b] = h
      /\ \A x \in Browsers : x # b => page'[x] = page[x]
  BY DEF IInv, TypeInv, PageInv
<1>2. /\ h \in Pages /\ Kept(h) /\ h.pcs = g.pcs /\ p \in Ids /\ g.pcs[p] = n
      /\ \A i : Manners(g, i) => Manners(h, i)
      /\ \A i : View(h, i, p) = d /\ View(g, i, p) = q
      /\ \A i, j : j \in Ids /\ j # p => View(h, i, j) = View(g, i, j)
  <2>1. g.pc[n].sig # "closed" /\ Stays(g.pc[n], d, n) /\ n \in 1 .. Len(g.pc)
    BY DEF Continues
  <2>2. Becomes(g, n, d, h)
    BY <1>1, <2>1, PageActs
  <2>. QED
    BY <2>2 DEF Becomes
<1>3. n # NoPc
  BY <1>1 DEF Pages, NoPc
<1>4. /\ inbox \in [Browsers -> Seq(Messages)] /\ page \in [Browsers -> Pages]
      /\ \A x \in Browsers : Connected(x) => id[x] \in Ids /\ id[x] \in Nat
      /\ \A x, y \in Browsers : AtTable(x, y) => id[x] # id[y]
      /\ id' = id
  BY VoiceAssumption DEF IInv, TypeInv, IdsInv, Connected, Ids, Offline
<1>5. \A x \in Browsers : page'[x].pcs = page[x].pcs /\ page'[x] \in Pages
  BY <1>1, <1>2, <1>4
<1>6. TypeInv' /\ IdsInv' /\ InboxInv'
  <2>1. page' \in [Browsers -> Pages]
    BY <1>4, <1>5
  <2>. QED
    BY <1>5, <2>1, SayingIsProper
<1>. HIDE DEF h
<1>7. PageInv'
  <2>. SUFFICES ASSUME NEW x \in Browsers
                PROVE  Kept(page'[x]) /\ Known(page'[x], usedIds') /\ (Connected(x)' => Manners(page'[x], id'[x]))
    BY DEF PageInv
  <2>1. Kept(page[x]) /\ Known(page[x], usedIds) /\ (Connected(x) => Manners(page[x], id[x]))
    BY DEF IInv, PageInv
  <2>2. Known(page'[x], usedIds')
    BY <2>1, <1>5 DEF Known
  <2>3. Connected(x)' = Connected(x)
    BY <1>4 DEF Connected
  <2>. QED
    BY <1>1, <1>2, <1>4, <2>1, <2>2, <2>3
<1>8. ASSUME NEW x \in Browsers, NEW y \in Browsers, AtTable(x, y), x # b, y # b
      PROVE  Passes(inbox[x], inbox'[x], id[y]) /\ Passes(inbox[y], inbox'[y], id[x])
  <2>1. (id[x] # p \/ id[y] # id[b]) /\ (id[y] # p \/ id[x] # id[b])
    BY <1>2, <1>4, <1>8 DEF AtTable, Connected, Ids, Offline
  <2>. QED
    BY <2>1, SayingPasses
<1>9. HalfInv'
  <2>. SUFFICES ASSUME NEW x \in Browsers, NEW y \in Browsers, AtTable(x, y)
                PROVE  Half(page'[x], id[x], inbox'[x], page'[y], id[y], y)
    BY <1>4 DEF HalfInv, AtTable, Connected
  <2>1. Half(page[x], id[x], inbox[x], page[y], id[y], y)
    BY DEF IInv, HalfInv
  <2>2. page'[y].pcs = page[y].pcs /\ page'[x].pcs = page[x].pcs
    BY <1>5
  <2>3. CASE ~(x = b /\ id[y] = p) /\ ~(y = b /\ id[x] = p)
    <3>1. SameFor(page[x], page'[x], id[x], id[y])
      <4>1. id[y] \in Ids /\ (x = b => id[y] # p)
        BY <1>4, <2>3 DEF AtTable
      <4>2. x = b => View(page'[x], id[x], id[y]) = View(page[x], id[x], id[y])
        BY <1>1, <1>2, <4>1
      <4>3. x # b => View(page'[x], id[x], id[y]) = View(page[x], id[x], id[y])
        BY <1>1
      <4>. QED
        BY <2>2, <4>2, <4>3 DEF SameFor
    <3>2. Passes(inbox[x], inbox'[x], id[y])
      BY <1>4, <1>8, <2>3, SayingPasses DEF AtTable
    <3>. QED
      BY <1>4, <2>1, <2>2, <3>1, <3>2, HalfUndisturbed
  <2>4. CASE x = b /\ id[y] = p
    <3>1. inbox'[b] = inbox[b]
      BY DEF SaysAt, AtTable
    <3>2. Refers(d, Far(page[y], id[b], y))
      BY <1>2, <2>1, <2>4 DEF Half, Reaches, Continues
    <3>3. Far(page'[y], id[x], y) = Far(page[y], id[b], y)
      BY <2>2, <2>4 DEF Far
    <3>4. Reaches(h, id[b], inbox[b], id[y], Far(page[y], id[b], y))
      BY <1>2, <2>1, <2>4, <3>2 DEF Half, Reaches
    <3>5. Expects(h, inbox[b], id[y])
      BY <1>2, <2>1, <2>4 DEF Half, Expects
    <3>. QED
      BY <1>1, <2>4, <3>1, <3>3, <3>4, <3>5 DEF Half
  <2>5. CASE y = b /\ id[x] = p
    <3>1. page'[x] = page[x] /\ x # b
      BY <1>1, <2>5 DEF AtTable
    <3>2. Far(page'[y], id[x], y) = {<<b, n>>} /\ Far(page[y], id[x], y) = {<<b, n>>}
      BY <1>1, <1>2, <1>3, <2>5 DEF Far
    <3>3. CASE inbox'[x] = inbox[x]
      BY <2>1, <3>1, <3>2, <3>3 DEF Half
    <3>4. ASSUME NEW m \in Signals, m.from = id[b], m.pc = <<b, n>>, inbox'[x] = Append(inbox[x], m)
          PROVE  Half(page'[x], id[x], inbox'[x], page'[y], id[y], y)
      <4>1. /\ Len(inbox'[x]) \in 1 .. Len(inbox'[x]) /\ inbox'[x][Len(inbox'[x])] = m
            /\ \A k \in 1 .. Len(inbox[x]) : k \in 1 .. Len(inbox'[x]) /\ inbox'[x][k] = inbox[x][k]
            /\ \A k \in 1 .. Len(inbox'[x]) : k \in 1 .. Len(inbox[x]) \/ k = Len(inbox'[x])
        BY <1>4, <3>4, OneAppended DEF Messages
      <4>2. Expects(page'[x], inbox'[x], id[y])
        BY <2>1, <3>1, <4>1 DEF Half, Expects
      <4>3. Reaches(page'[x], id[x], inbox'[x], id[y], {<<b, n>>})
        BY <2>1, <3>1, <3>2, <3>4, <4>1 DEF Half, Reaches
      <4>. QED
        BY <3>2, <4>2, <4>3 DEF Half
    <3>. QED
      BY <3>3, <3>4 DEF SaysAt
  <2>. QED
    BY <2>3, <2>4, <2>5
<1>10. TalkInv'
  <2>1. ASSUME NEW c \in Browsers, AtTable(b, c)
        PROVE  Talk(page'[b], id'[b], inbox'[b], page'[c], id'[c], inbox'[c])
    <3>1. Talk(g, id[b], inbox[b], page[c], id[c], inbox[c]) /\ page'[c] = page[c]
      BY <1>1, <2>1 DEF IInv, TalkInv, AtTable
    <3>2. inbox'[b] = inbox[b]
      BY DEF SaysAt, AtTable
    <3>3. CASE id[c] # p
      <4>1. View(page'[b], id[b], id[c]) = View(g, id[b], id[c])
        BY <1>1, <1>2, <1>4, <2>1, <3>3 DEF AtTable
      <4>2. Passes(inbox[c], inbox'[c], id[b])
        BY <3>3, SayingPasses
      <4>3. Passes(inbox[b], inbox'[b], id[c])
        BY <3>2 DEF Passes
      <4>4. inbox[b] \in Seq(Messages) /\ inbox[c] \in Seq(Messages)
        BY <1>4
      <4>5. View(page'[c], id[c], id[b]) = View(page[c], id[c], id[b])
        BY <3>1
      <4>6. Talk(page'[b], id[b], inbox'[b], page'[c], id[c], inbox'[c])
        BY <3>1, <4>1, <4>2, <4>3, <4>4, <4>5, TalkUndisturbed
      <4>. QED
        BY <1>4, <4>6
    <3>4. CASE id[c] = p
      <4>. DEFINE w == View(page[c], id[c], id[b])
                  first == id[b] < id[c]
      <4>1. PICK u \in Seq(Signals), v \in Seq(Signals) :
              Carries(inbox[c], id[b], u) /\ Carries(inbox[b], id[c], v) /\ Linked(q, w, u, v, first)
        BY <1>2, <3>1, <3>4 DEF Talk
      <4>2. w \in Connections /\ first \in BOOLEAN
        BY <1>4, <2>1, ViewType DEF IInv, PageInv, AtTable
      <4>3. PICK x \in Seq(Signals) : Linked(d, w, x, v, first) /\ Carries(inbox'[c], id[b], x)
        BY <2>1, <3>4, <4>1, <4>2 DEF Follows
      <4>4. View(page'[b], id'[b], id'[c]) = d
        BY <1>1, <1>2, <1>4, <3>4
      <4>. QED
        BY <1>4, <3>1, <3>2, <4>1, <4>3, <4>4 DEF Talk
    <3>. QED
      BY <3>3, <3>4
  <2>2. ASSUME NEW x \in Browsers, NEW y \in Browsers, AtTable(x, y), x # b, y # b
        PROVE  Talk(page'[x], id'[x], inbox'[x], page'[y], id'[y], inbox'[y])
    <3>1. Talk(page[x], id[x], inbox[x], page[y], id[y], inbox[y]) /\ page'[x] = page[x] /\ page'[y] = page[y]
      BY <1>1, <2>2 DEF IInv, TalkInv
    <3>2. inbox[x] \in Seq(Messages) /\ inbox[y] \in Seq(Messages)
      BY <1>4
    <3>3. Passes(inbox[x], inbox'[x], id[y]) /\ Passes(inbox[y], inbox'[y], id[x])
      BY <1>8, <2>2
    <3>4. /\ View(page'[x], id[x], id[y]) = View(page[x], id[x], id[y])
          /\ View(page'[y], id[y], id[x]) = View(page[y], id[y], id[x])
      BY <3>1
    <3>5. Talk(page'[x], id[x], inbox'[x], page'[y], id[y], inbox'[y])
      BY <3>1, <3>2, <3>3, <3>4, TalkUndisturbed
    <3>. QED
      BY <1>4, <3>5
  <2>3. \A x, y \in Browsers : AtTable(x, y)' = AtTable(x, y)
    BY <1>4 DEF AtTable, Connected
  <2>. QED
    BY <1>6, <2>1, <2>2, <2>3, OneEndIsEnough
<1>. QED
  BY <1>6, <1>7, <1>9, <1>10 DEF IInv

LEMMA ActsSilently ==
  ASSUME IInv, UNCHANGED <<id, usedIds, participants, inbox>>,
         NEW b \in Browsers, NEW n \in 1 .. Len(page[b].pc), page[b].pc[n].sig # "closed",
         NEW d, Continues(page[b].pc[n], d, n), LinkKept(page[b].pc[n], d),
         page' = [page EXCEPT ![b] = Replaced(page[b], n, d)]
  PROVE  IInv'
<1>1. inbox' \in [Browsers -> Seq(Messages)] /\ UNCHANGED <<id, usedIds, participants>>
  BY DEF IInv, TypeInv
<1>2. SaysAt(b, n, page[b].pc[n].peer)
  BY DEF SaysAt
<1>3. ASSUME NEW c \in Browsers, NEW w \in Connections, NEW u \in Seq(Signals), NEW v \in Seq(Signals),
             NEW first \in BOOLEAN, Linked(page[b].pc[n], w, u, v, first), Carries(inbox[c], id[b], u)
      PROVE  \E x \in Seq(Signals) : Linked(d, w, x, v, first) /\ Carries(inbox'[c], id[b], x)
  BY <1>3 DEF LinkKept
<1>4. Follows(b, n, d)
  BY <1>3 DEF Follows
<1>. QED
  BY <1>1, <1>2, <1>4, ActsAt

LEMMA ActsAndSays ==
  ASSUME IInv, UNCHANGED <<id, usedIds, participants>>,
         NEW b \in Browsers, NEW n \in 1 .. Len(page[b].pc), page[b].pc[n].sig # "closed",
         NEW type \in {"offer", "answer"}, NEW sending \in BOOLEAN, inbox' = Says(b, n, type, sending),
         NEW d, Continues(page[b].pc[n], d, n), LinkSays(page[b].pc[n], d, type, sending),
         page' = [page EXCEPT ![b] = Replaced(page[b], n, d)]
  PROVE  IInv'
<1>. DEFINE p == page[b].pc[n].peer
            m == [type |-> type, from |-> id[b], pc |-> <<b, n>>, sends |-> sending]
<1>1. /\ id[b] \in Nat /\ n \in Nat /\ inbox \in [Browsers -> Seq(Messages)]
      /\ page \in [Browsers -> Pages] /\ p \in Ids
      /\ \A x \in Browsers : id[x] = Offline \/ id[x] \in Ids
  BY VoiceAssumption DEF IInv, TypeInv, PageInv, Kept, Ids, Offline
<1>2. m \in Signals /\ m.from = id[b] /\ m.pc = <<b, n>> /\ m.type = type /\ m.sends = sending
  BY <1>1 DEF Signals, Ends
<1>3. inbox' = [c \in Browsers |->
                  IF c # b /\ id[c] = p /\ {id[b], p} \subseteq participants
                  THEN Append(inbox[c], m) ELSE inbox[c]]
  BY DEF Says, Relay, Offline
<1>4. Connected(b) <=> id[b] \in participants
  BY VoiceAssumption DEF IInv, IdsInv, TypeInv, Connected, Ids, Offline
<1>5. \A c \in Browsers : c # b /\ id[c] = p => Connected(c) /\ p \in participants
  BY <1>1, VoiceAssumption DEF IInv, IdsInv, Connected, Ids, Offline
<1>6. \A c \in Browsers : inbox'[c] = IF AtTable(b, c) /\ id[c] = p THEN Append(inbox[c], m) ELSE inbox[c]
  BY <1>3, <1>4, <1>5 DEF AtTable
<1>. HIDE DEF m
<1>7. m \in Messages
  BY <1>2 DEF Messages
<1>8. inbox' \in [Browsers -> Seq(Messages)]
  BY <1>1, <1>3, <1>7
<1>9. SaysAt(b, n, p)
  BY <1>2, <1>6 DEF SaysAt
<1>10. ASSUME NEW c \in Browsers, AtTable(b, c), id[c] = p,
              NEW w \in Connections, NEW u \in Seq(Signals), NEW v \in Seq(Signals),
              NEW first \in BOOLEAN, Linked(page[b].pc[n], w, u, v, first), Carries(inbox[c], id[b], u)
       PROVE  \E x \in Seq(Signals) : Linked(d, w, x, v, first) /\ Carries(inbox'[c], id[b], x)
  <2>1. Linked(d, w, Append(u, m), v, first)
    BY <1>2, <1>10 DEF LinkSays
  <2>2. IsFrom(m, id[b])
    BY <1>2 DEF IsFrom
  <2>3. inbox'[c] = Append(inbox[c], m) /\ inbox[c] \in Seq(Messages)
    BY <1>1, <1>6, <1>10
  <2>4. Carries(inbox'[c], id[b], Append(u, m))
    BY <1>2, <1>10, <2>2, <2>3, CarriesOneMore
  <2>5. Append(u, m) \in Seq(Signals)
    BY <1>2
  <2>. QED
    BY <2>1, <2>4, <2>5
<1>11. Follows(b, n, d)
  BY <1>10 DEF Follows
<1>. QED
  BY <1>8, <1>9, <1>11, ActsAt

-----------------------------------------------------------------------------
(* What the operations do to the connection.                               *)

LEMMA GoesOnWith ==
  ASSUME NEW q \in Connections, q.chain # <<>>, NEW n, OffersFor(q, n),
         NEW op \in Operations, op.op \notin Heard, op.op \in Own => op.neg = n,
         NEW d \in Connections, d.chain = Append(Tail(q.chain), op), d.sig # "closed",
         d.peer = q.peer, d.polite = q.polite, d.sends = q.sends,
         d.remote = q.remote \/ (q.chain[1].op \in Heard /\ d.remote = q.chain[1].remote)
  PROVE  Continues(q, d, n)
<1>1. /\ 1 \in 1 .. Len(q.chain)
      /\ \A k \in 1 .. Len(d.chain) :
           d.chain[k] = op \/ (k + 1 \in 1 .. Len(q.chain) /\ d.chain[k] = q.chain[k + 1])
  BY DEF Connections
<1>2. OffersFor(d, n)
  BY <1>1 DEF OffersFor
<1>3. ASSUME NEW far, Refers(q, far) PROVE Refers(d, far)
  BY <1>1, <1>3 DEF Refers
<1>. QED
  BY <1>2, <1>3 DEF Continues, Stays

LEMMA GoesOn ==
  ASSUME NEW q \in Connections, q.chain # <<>>, NEW n, OffersFor(q, n),
         NEW d \in Connections, d.chain = Tail(q.chain), d.sig # "closed",
         d.peer = q.peer, d.polite = q.polite, d.sends = q.sends,
         d.remote = q.remote \/ (q.chain[1].op \in Heard /\ d.remote = q.chain[1].remote)
  PROVE  Continues(q, d, n)
<1>1. /\ 1 \in 1 .. Len(q.chain)
      /\ \A k \in 1 .. Len(d.chain) : k + 1 \in 1 .. Len(q.chain) /\ d.chain[k] = q.chain[k + 1]
  BY DEF Connections
<1>2. OffersFor(d, n)
  BY <1>1 DEF OffersFor
<1>3. ASSUME NEW far, Refers(q, far) PROVE Refers(d, far)
  BY <1>1, <1>3 DEF Refers
<1>. QED
  BY <1>2, <1>3 DEF Continues, Stays

LEMMA Shape ==
  ASSUME NEW q \in Connections, q.chain # <<>>
  PROVE  /\ q.chain \in Seq(Operations) /\ Head(q.chain) = q.chain[1] /\ q.chain[1] \in Operations
         /\ Tail(q.chain) \in Seq(Operations)
         /\ \A op \in Operations : Append(Tail(q.chain), op) \in Seq(Operations)
         /\ q.chain[1].op \in Own => q.chain[1].neg \in Nat
         /\ q.chain[1].op \in {"setLocalOffer", "setRemoteOffer", "setRemoteAnswer", "setLocalAnswer"}
              => q.chain[1].sends \in BOOLEAN
         /\ q.chain[1].op \in Heard => q.chain[1].remote \in Ends
<1>1. q.chain \in Seq(Operations) /\ q.chain[1] \in Operations /\ Head(q.chain) = q.chain[1] /\ Tail(q.chain) \in Seq(Operations)
  BY DEF Connections
<1>2. \A op \in Operations : Append(Tail(q.chain), op) \in Seq(Operations)
  BY <1>1
<1>3. \A op \in Operations :
         /\ op.op \in Own => op.neg \in Nat
         /\ op.op \in {"setLocalOffer", "setRemoteOffer", "setRemoteAnswer", "setLocalAnswer"} => op.sends \in BOOLEAN
         /\ op.op \in Heard => op.remote \in Ends
  BY DEF Operations, Own, Heard
<1>. QED
  BY <1>1, <1>2, <1>3

-----------------------------------------------------------------------------
(* The browser's actions.                                                  *)

LEMMA AtConnection ==
  ASSUME IInv, NEW b \in Browsers, NEW n \in Pcs(b)
  PROVE  /\ n \in 1 .. Len(page[b].pc) /\ n \in Nat /\ n # NoPc /\ page[b] \in Pages
         /\ page[b].pc[n] \in Connections /\ page[b].pc[n].sig # "closed" /\ OffersFor(page[b].pc[n], n)
         /\ page[b].pc[n].peer \in Ids /\ page[b].pcs[page[b].pc[n].peer] = n
<1>1. page[b] \in Pages /\ Kept(page[b])
  BY DEF IInv, TypeInv, PageInv
<1>2. n \in 1 .. Len(page[b].pc) /\ page[b].pc[n].sig # "closed"
  BY <1>1 DEF Pcs, Pages
<1>3. page[b].pc[n] \in Connections /\ n \in Nat /\ n # NoPc
  BY <1>1, <1>2 DEF Pages, NoPc
<1>. QED
  BY <1>1, <1>2, <1>3 DEF Kept

LEMMA ReplacedAt ==
  ASSUME NEW g \in Pages, NEW n \in 1 .. Len(g.pc), NEW x
  PROVE  /\ Replaced(g, n, x).pc[n] = x
         /\ \A y : Replaced(Replaced(g, n, x), n, y) = Replaced(g, n, y)
<1>1. /\ [g.pc EXCEPT ![n] = x][n] = x
      /\ \A y : [[g.pc EXCEPT ![n] = x] EXCEPT ![n] = y] = [g.pc EXCEPT ![n] = y]
  BY DEF Pages
<1>. DEFINE f == [g.pc EXCEPT ![n] = x]
<1>. HIDE DEF f
<1>2. \A z : [g EXCEPT !.pc = z].pc = z /\ \A y : [[g EXCEPT !.pc = z] EXCEPT !.pc = y] = [g EXCEPT !.pc = y]
  BY DEF Pages
<1>3. Replaced(g, n, x) = [g EXCEPT !.pc = f]
  BY DEF Replaced, f
<1>. QED
  BY <1>1, <1>2, <1>3 DEF Replaced, f

Marked(h, n, on) == [h EXCEPT !.pc[n].makingOffer = on]

LEMMA ReplacedTwice ==
  ASSUME NEW g \in Pages, NEW n \in 1 .. Len(g.pc), NEW x, NEW on,
         NEW z, z = [x EXCEPT !.makingOffer = on]
  PROVE  Marked(Replaced(g, n, x), n, on) = Replaced(g, n, z)
<1>. DEFINE h == Replaced(g, n, x)
<1>1. h.pc[n] = x /\ \A y : Replaced(h, n, y) = Replaced(g, n, y)
  BY ReplacedAt
<1>. HIDE DEF h
<1>2. Marked(h, n, on) = Replaced(h, n, [h.pc[n] EXCEPT !.makingOffer = on])
  BY DEF Marked, Replaced
<1>. QED
  BY <1>1, <1>2 DEF h

LEMMA OnNegotiationNeededKeeps ==
  ASSUME IInv, NEW b \in Browsers, NEW n \in Pcs(b), OnNegotiationNeeded(b, n)
  PROVE  IInv'
<1>. DEFINE g == page[b]
            q == g.pc[n]
            op == [op |-> "createOffer", neg |-> n]
            d == [q EXCEPT !.needed = TRUE, !.makingOffer = TRUE, !.chain = Append(@, op)]
<1>1. /\ n \in 1 .. Len(g.pc) /\ n \in Nat /\ n # NoPc /\ g \in Pages /\ q \in Connections /\ q.sig # "closed"
      /\ OffersFor(q, n) /\ q.peer \in Ids /\ g.pcs[q.peer] = n
  BY AtConnection
<1>2. q.sig = "stable" /\ q.chain = <<>>
  BY DEF OnNegotiationNeeded, Asks
<1>3. page' = [page EXCEPT ![b] = Replaced(g, n, d)] /\ UNCHANGED <<id, usedIds, participants, inbox>>
  <2>1. page' = [page EXCEPT ![b] = Queue([[g EXCEPT !.pc[n].needed = TRUE] EXCEPT !.pc[n].makingOffer = TRUE], n, op)]
    BY <1>1 DEF OnNegotiationNeeded, Sets
  <2>2. Queue([[g EXCEPT !.pc[n].needed = TRUE] EXCEPT !.pc[n].makingOffer = TRUE], n, op) = Replaced(g, n, d)
    <3>. DEFINE x == [q EXCEPT !.needed = TRUE]
                y == [x EXCEPT !.makingOffer = TRUE]
    <3>0. y = [x EXCEPT !.makingOffer = TRUE]
      OBVIOUS
    <3>. DEFINE k == Replaced(g, n, y)
    <3>2. [[g EXCEPT !.pc[n].needed = TRUE] EXCEPT !.pc[n].makingOffer = TRUE] = Marked(Replaced(g, n, x), n, TRUE)
      BY DEF Marked, Replaced
    <3>. HIDE DEF k, x, y
    <3>1. Marked(Replaced(g, n, x), n, TRUE) = k /\ k.pc[n] = y /\ \A z : Replaced(k, n, z) = Replaced(g, n, z)
      <4>0. g \in Pages /\ n \in 1 .. Len(g.pc)
        BY <1>1
      <4>. HIDE DEF g
      <4>1. Marked(Replaced(g, n, x), n, TRUE) = Replaced(g, n, y)
        BY <3>0, <4>0, ReplacedTwice
      <4>2. /\ Replaced(g, n, y).pc[n] = y
            /\ \A z : Replaced(Replaced(g, n, y), n, z) = Replaced(g, n, z)
        BY <1>1, ReplacedAt
      <4>. QED
        BY <4>1, <4>2 DEF k
    <3>4. Queue(k, n, op) = Replaced(k, n, [k.pc[n] EXCEPT !.chain = Append(@, op)])
      BY DEF Queue, Replaced
    <3>3. [y EXCEPT !.chain = Append(@, op)] = d
      BY <1>1 DEF Connections, x, y
    <3>. QED
      BY <3>1, <3>2, <3>3, <3>4
  <2>. QED
    BY <2>1, <2>2 DEF OnNegotiationNeeded
<1>4. op \in Operations /\ op.op = "createOffer" /\ op.neg = n
  BY <1>1 DEF Operations
<1>. HIDE DEF op
<1>5. d \in Connections /\ d.chain = <<op>> /\ d.sig = "stable" /\ d.peer = q.peer /\ d.polite = q.polite
      /\ d.sends = q.sends /\ d.remote = q.remote
  <2>1. <<op>> \in Seq(Operations) /\ Append(q.chain, op) = <<op>>
    BY <1>2, <1>4
  <2>. QED
    BY <1>1, <1>2, <2>1 DEF Connections
<1>6. LinkKept(q, d)
  <2>1. d = [q EXCEPT !.needed = TRUE, !.makingOffer = TRUE, !.chain = Append(@, op)]
    OBVIOUS
  <2>. HIDE DEF g, q, d
  <2>. QED
    BY <1>1, <1>2, <1>4, <2>1, BeginsOffer DEF LinkKept
<1>. HIDE DEF d
<1>7. Continues(q, d, n)
  <2>1. Len(d.chain) = 1 /\ \A k \in 1 .. Len(d.chain) : d.chain[k] = op
    BY <1>5
  <2>2. OffersFor(d, n) /\ \A far : Refers(q, far) => Refers(d, far)
    BY <1>4, <1>5, <2>1 DEF OffersFor, Refers, Heard
  <2>. QED
    BY <1>5, <2>2 DEF Continues, Stays
<1>. QED
  BY <1>1, <1>3, <1>6, <1>7, ActsSilently

LEMMA CreateOfferKeeps ==
  ASSUME IInv, NEW b \in Browsers, NEW n \in Pcs(b), CreateOffer(b, n)
  PROVE  IInv'
<1>. DEFINE g == page[b]
            q == g.pc[n]
            op == [op |-> "setLocalOffer", sends |-> q.sends, neg |-> q.chain[1].neg]
            d == Then(q, op)
<1>1. /\ n \in 1 .. Len(g.pc) /\ n \in Nat /\ q \in Connections /\ q.sig # "closed" /\ OffersFor(q, n)
  BY AtConnection
<1>2. q.chain # <<>> /\ q.chain[1].op = "createOffer" /\ Head(q.chain) = q.chain[1]
  BY <1>1, Shape DEF CreateOffer, Doing
<1>3. page' = [page EXCEPT ![b] = Replaced(g, n, d)] /\ UNCHANGED <<id, usedIds, participants, inbox>>
  BY <1>2 DEF CreateOffer, Puts, Sets, Replaced, ServerUnchanged
<1>4. op.op = "setLocalOffer" /\ op.neg = n
  <2>1. 1 \in 1 .. Len(q.chain)
    BY <1>1, <1>2 DEF Connections
  <2>. QED
    BY <1>1, <1>2, <2>1 DEF OffersFor, Own
<1>5. op \in Operations
  BY <1>1, <1>4 DEF Operations, Connections
<1>. HIDE DEF op
<1>6. /\ d \in Connections /\ d.chain = Append(Tail(q.chain), op) /\ d.sig = q.sig /\ d.peer = q.peer
      /\ d.polite = q.polite /\ d.sends = q.sends /\ d.remote = q.remote
  <2>1. Append(Tail(q.chain), op) \in Seq(Operations)
    BY <1>1, <1>2, <1>5, Shape
  <2>. QED
    BY <1>1, <2>1 DEF Connections, Then
<1>7. LinkKept(q, d)
  BY <1>1, <1>2, <1>4, <1>5, MakesOffer DEF LinkKept
<1>. HIDE DEF d
<1>8. Continues(q, d, n)
  BY <1>1, <1>2, <1>4, <1>5, <1>6, GoesOnWith, Zenon DEF Heard
<1>. QED
  BY <1>1, <1>3, <1>7, <1>8, ActsSilently

LEMMA SetLocalOfferKeeps ==
  ASSUME IInv, NEW b \in Browsers, NEW n \in Pcs(b), SetLocalOffer(b, n)
  PROVE  IInv'
<1>. DEFINE g == page[b]
            q == g.pc[n]
            set == q.sig # "have-remote-offer"
            sending == q.chain[1].sends
            done == [Over(q) EXCEPT !.sig = "have-local-offer", !.offered = sending, !.makingOffer = FALSE]
            left == [Over(q) EXCEPT !.makingOffer = FALSE]
<1>1. /\ n \in 1 .. Len(g.pc) /\ n \in Nat /\ g \in Pages /\ q \in Connections /\ q.sig # "closed" /\ OffersFor(q, n)
  BY AtConnection
<1>2. /\ q.chain # <<>> /\ q.chain[1].op = "setLocalOffer" /\ Head(q.chain) = q.chain[1]
      /\ Tail(q.chain) \in Seq(Operations) /\ sending \in BOOLEAN
  BY <1>1, Shape, Zenon DEF SetLocalOffer, Doing
<1>3. q.chain[1].neg = n
  <2>1. 1 \in 1 .. Len(q.chain)
    BY <1>1, <1>2 DEF Connections
  <2>. QED
    BY <1>1, <1>2, <2>1 DEF OffersFor, Own
<1>4. UNCHANGED <<id, usedIds, participants>>
  BY DEF SetLocalOffer, ServerUnchanged
<1>5. Over(q) \in Connections /\ Over(q) = [q EXCEPT !.chain = Tail(q.chain)]
  BY <1>1, <1>2 DEF Over, Connections
<1>6. CASE set
  <2>1. /\ inbox' = Says(b, n, "offer", sending)
        /\ page' = [page EXCEPT ![b] = [g EXCEPT !.pc[n] = [Over(q) EXCEPT !.sig = "have-local-offer", !.offered = sending],
                                                 !.pc[n].makingOffer = FALSE]]
    BY <1>2, <1>3, <1>6 DEF SetLocalOffer, Sets
  <2>2. page' = [page EXCEPT ![b] = Replaced(g, n, done)]
    <3>. DEFINE x == [Over(q) EXCEPT !.sig = "have-local-offer", !.offered = sending]
    <3>1. page' = [page EXCEPT ![b] = Marked(Replaced(g, n, x), n, FALSE)]
      BY <2>1 DEF Marked, Replaced
    <3>2. done = [x EXCEPT !.makingOffer = FALSE]
      BY <1>5 DEF Connections
    <3>. HIDE DEF x, done
    <3>3. Marked(Replaced(g, n, x), n, FALSE) = Replaced(g, n, done)
      BY <1>1, <3>2, ReplacedTwice
    <3>. QED
      BY <3>1, <3>3
  <2>3. /\ done \in Connections /\ done.chain = Tail(q.chain) /\ done.sig # "closed" /\ done.peer = q.peer
        /\ done.polite = q.polite /\ done.sends = q.sends /\ done.remote = q.remote
    BY <1>1, <1>2, <1>5 DEF Connections
  <2>4. LinkSays(q, done, "offer", sending)
    BY <1>1, <1>2, <1>6, SendsOffer DEF LinkSays
  <2>. HIDE DEF done
  <2>5. Continues(q, done, n)
    BY <1>1, <1>2, <2>3, GoesOn
  <2>6. inbox' = Says(b, n, "offer", sending)
    BY <2>1
  <2>. QED
    BY <1>1, <1>2, <1>4, <2>2, <2>4, <2>5, <2>6, ActsAndSays, Zenon
<1>7. CASE ~set
  <2>1. /\ inbox' = inbox
        /\ page' = [page EXCEPT ![b] = [g EXCEPT !.pc[n] = Over(q), !.pc[n].makingOffer = FALSE]]
    BY <1>2, <1>3, <1>7 DEF SetLocalOffer, Sets
  <2>2. page' = [page EXCEPT ![b] = Replaced(g, n, left)]
    <3>. DEFINE x == Over(q)
    <3>1. page' = [page EXCEPT ![b] = Marked(Replaced(g, n, x), n, FALSE)]
      BY <2>1 DEF Marked, Replaced
    <3>2. left = [x EXCEPT !.makingOffer = FALSE]
      BY <1>5 DEF Connections
    <3>. HIDE DEF x, left
    <3>3. Marked(Replaced(g, n, x), n, FALSE) = Replaced(g, n, left)
      BY <1>1, <3>2, ReplacedTwice
    <3>. QED
      BY <3>1, <3>3
  <2>3. /\ left \in Connections /\ left.chain = Tail(q.chain) /\ left.sig # "closed" /\ left.peer = q.peer
        /\ left.polite = q.polite /\ left.sends = q.sends /\ left.remote = q.remote
    BY <1>1, <1>2, <1>5 DEF Connections
  <2>4. LinkKept(q, left)
    BY <1>1, <1>2, <1>7, OfferRefused DEF LinkKept
  <2>. HIDE DEF left
  <2>5. Continues(q, left, n)
    BY <1>1, <1>2, <2>3, GoesOn
  <2>. QED
    BY <1>1, <1>4, <2>1, <2>2, <2>4, <2>5, ActsSilently
<1>. QED
  BY <1>6, <1>7

LEMMA SetRemoteOfferKeeps ==
  ASSUME IInv, NEW b \in Browsers, NEW n \in Pcs(b), SetRemoteOffer(b, n)
  PROVE  IInv'
<1>. DEFINE g == page[b]
            q == g.pc[n]
            first == q.chain[1]
            op == [op |-> "createAnswer"]
            d == [Then(q, op) EXCEPT !.sig = "have-remote-offer", !.hears = first.sends, !.remote = first.remote]
<1>1. /\ n \in 1 .. Len(g.pc) /\ n \in Nat /\ q \in Connections /\ q.sig # "closed" /\ OffersFor(q, n)
  BY AtConnection
<1>2. /\ q.chain # <<>> /\ first.op = "setRemoteOffer" /\ Head(q.chain) = first
      /\ first.sends \in BOOLEAN /\ first.remote \in Ends
  BY <1>1, Shape DEF SetRemoteOffer, Doing, Heard
<1>3. page' = [page EXCEPT ![b] = Replaced(g, n, d)] /\ UNCHANGED <<id, usedIds, participants, inbox>>
  BY <1>2 DEF SetRemoteOffer, Puts, Sets, Replaced, ServerUnchanged
<1>4. op \in Operations /\ op.op = "createAnswer"
  <2>. HIDE DEF g, q, first, d
  <2>. QED
    BY DEF Operations
<1>. HIDE DEF op
<1>5. /\ d \in Connections /\ d.chain = Append(Tail(q.chain), op) /\ d.sig # "closed" /\ d.peer = q.peer
      /\ d.polite = q.polite /\ d.sends = q.sends /\ d.remote = first.remote
  <2>1. Append(Tail(q.chain), op) \in Seq(Operations)
    BY <1>1, <1>2, <1>4, Shape
  <2>. QED
    BY <1>1, <1>2, <2>1 DEF Connections, Then
<1>6. LinkKept(q, d)
  BY <1>1, <1>2, <1>4, TakesOffer DEF LinkKept
<1>. HIDE DEF d
<1>7. Continues(q, d, n)
  BY <1>1, <1>2, <1>4, <1>5, GoesOnWith DEF Heard, Own
<1>. QED
  BY <1>1, <1>3, <1>6, <1>7, ActsSilently

LEMMA CreateAnswerKeeps ==
  ASSUME IInv, NEW b \in Browsers, NEW n \in Pcs(b), CreateAnswer(b, n)
  PROVE  IInv'
<1>. DEFINE g == page[b]
            q == g.pc[n]
            op == [op |-> "setLocalAnswer", sends |-> q.sends]
            d == Then(q, op)
            left == Over(q)
<1>1. /\ n \in 1 .. Len(g.pc) /\ n \in Nat /\ q \in Connections /\ q.sig # "closed" /\ OffersFor(q, n)
  BY AtConnection
<1>2. /\ q.chain # <<>> /\ q.chain[1].op = "createAnswer" /\ Tail(q.chain) \in Seq(Operations)
  BY <1>1, Shape DEF CreateAnswer, Doing
<1>3. UNCHANGED <<id, usedIds, participants, inbox>>
  BY DEF CreateAnswer, ServerUnchanged
<1>4. CASE q.sig = "have-remote-offer"
  <2>1. page' = [page EXCEPT ![b] = Replaced(g, n, d)]
    BY <1>4 DEF CreateAnswer, Puts, Sets, Replaced
  <2>2. op \in Operations /\ op.op = "setLocalAnswer"
    BY <1>1 DEF Operations, Connections
  <2>. HIDE DEF op
  <2>3. /\ d \in Connections /\ d.chain = Append(Tail(q.chain), op) /\ d.sig # "closed" /\ d.peer = q.peer
        /\ d.polite = q.polite /\ d.sends = q.sends /\ d.remote = q.remote
    <3>1. Append(Tail(q.chain), op) \in Seq(Operations)
      BY <1>1, <1>2, <2>2, Shape
    <3>. QED
      BY <1>1, <3>1 DEF Connections, Then
  <2>4. LinkKept(q, d)
    BY <1>1, <1>2, <2>2, MakesAnswer DEF LinkKept
  <2>. HIDE DEF d
  <2>5. Continues(q, d, n)
    BY <1>1, <1>2, <2>2, <2>3, GoesOnWith DEF Heard, Own
  <2>. QED
    BY <1>1, <1>3, <2>1, <2>4, <2>5, ActsSilently
<1>5. CASE q.sig # "have-remote-offer"
  <2>1. page' = [page EXCEPT ![b] = Replaced(g, n, left)]
    BY <1>5 DEF CreateAnswer, Puts, Sets, Replaced
  <2>2. /\ left \in Connections /\ left.chain = Tail(q.chain) /\ left.sig # "closed" /\ left.peer = q.peer
        /\ left.polite = q.polite /\ left.sends = q.sends /\ left.remote = q.remote
    BY <1>1, <1>2 DEF Connections, Over
  <2>3. LinkKept(q, left)
    BY <1>1, <1>2, <1>5, AnswersAreDue DEF LinkKept, Answering
  <2>. HIDE DEF left
  <2>4. Continues(q, left, n)
    BY <1>1, <1>2, <2>2, GoesOn
  <2>. QED
    BY <1>1, <1>3, <2>1, <2>3, <2>4, ActsSilently
<1>. QED
  BY <1>4, <1>5

LEMMA SetLocalAnswerKeeps ==
  ASSUME IInv, NEW b \in Browsers, NEW n \in Pcs(b), SetLocalAnswer(b, n)
  PROVE  IInv'
<1>. DEFINE g == page[b]
            q == g.pc[n]
            sending == q.chain[1].sends
            done == Settles(q, sending)
            left == Over(q)
<1>1. /\ n \in 1 .. Len(g.pc) /\ n \in Nat /\ q \in Connections /\ q.sig # "closed" /\ OffersFor(q, n)
  BY AtConnection
<1>2. /\ q.chain # <<>> /\ q.chain[1].op = "setLocalAnswer" /\ Head(q.chain) = q.chain[1]
      /\ Tail(q.chain) \in Seq(Operations) /\ sending \in BOOLEAN
  BY <1>1, Shape DEF SetLocalAnswer, Doing
<1>3. UNCHANGED <<id, usedIds, participants>>
  BY Zenon DEF SetLocalAnswer, ServerUnchanged
<1>4. CASE q.sig = "have-remote-offer"
  <2>1. page' = [page EXCEPT ![b] = Replaced(g, n, done)] /\ inbox' = Says(b, n, "answer", sending)
    BY <1>2, <1>4 DEF SetLocalAnswer, Puts, Sets, Replaced
  <2>2. /\ done \in Connections /\ done.chain = Tail(q.chain) /\ done.sig # "closed" /\ done.peer = q.peer
        /\ done.polite = q.polite /\ done.sends = q.sends /\ done.remote = q.remote
    BY <1>1, <1>2 DEF Connections, Over, Settles
  <2>3. LinkSays(q, done, "answer", sending)
    BY <1>1, <1>2, SendsAnswer DEF LinkSays
  <2>. HIDE DEF done
  <2>4. Continues(q, done, n)
    BY <1>1, <1>2, <2>2, GoesOn
  <2>. QED
    BY <1>1, <1>2, <1>3, <2>1, <2>3, <2>4, ActsAndSays, Zenon
<1>5. CASE q.sig # "have-remote-offer"
  <2>1. page' = [page EXCEPT ![b] = Replaced(g, n, left)] /\ inbox' = inbox
    BY <1>5 DEF SetLocalAnswer, Puts, Sets, Replaced
  <2>2. /\ left \in Connections /\ left.chain = Tail(q.chain) /\ left.sig # "closed" /\ left.peer = q.peer
        /\ left.polite = q.polite /\ left.sends = q.sends /\ left.remote = q.remote
    BY <1>1, <1>2 DEF Connections, Over
  <2>3. LinkKept(q, left)
    BY <1>1, <1>2, <1>5, AnswersAreDue DEF LinkKept, Answering
  <2>. HIDE DEF left
  <2>4. Continues(q, left, n)
    BY <1>1, <1>2, <2>2, GoesOn
  <2>. QED
    BY <1>1, <1>3, <2>1, <2>3, <2>4, ActsSilently
<1>. QED
  BY <1>4, <1>5

LEMMA SetRemoteAnswerKeeps ==
  ASSUME IInv, NEW b \in Browsers, NEW n \in Pcs(b), SetRemoteAnswer(b, n)
  PROVE  IInv'
<1>. DEFINE g == page[b]
            q == g.pc[n]
            first == q.chain[1]
            done == [Settles(q, q.offered) EXCEPT !.hears = first.sends, !.remote = first.remote]
            left == Over(q)
<1>1. /\ n \in 1 .. Len(g.pc) /\ n \in Nat /\ q \in Connections /\ q.sig # "closed" /\ OffersFor(q, n)
  BY AtConnection
<1>2. /\ q.chain # <<>> /\ first.op = "setRemoteAnswer" /\ Head(q.chain) = first
      /\ Tail(q.chain) \in Seq(Operations) /\ first.sends \in BOOLEAN /\ first.remote \in Ends
  BY <1>1, Shape DEF SetRemoteAnswer, Doing, Heard
<1>3. UNCHANGED <<id, usedIds, participants, inbox>>
  BY DEF SetRemoteAnswer, ServerUnchanged
<1>4. CASE q.sig = "have-local-offer"
  <2>1. page' = [page EXCEPT ![b] = Replaced(g, n, done)]
    BY <1>2, <1>4 DEF SetRemoteAnswer, Puts, Sets, Replaced
  <2>2. /\ done \in Connections /\ done.chain = Tail(q.chain) /\ done.sig # "closed" /\ done.peer = q.peer
        /\ done.polite = q.polite /\ done.sends = q.sends /\ done.remote = first.remote
    BY <1>1, <1>2 DEF Connections, Over, Settles
  <2>3. LinkKept(q, done)
    BY <1>1, <1>2, TakesAnswer DEF LinkKept
  <2>. HIDE DEF done
  <2>4. Continues(q, done, n)
    BY <1>1, <1>2, <2>2, GoesOn DEF Heard
  <2>. QED
    BY <1>1, <1>3, <2>1, <2>3, <2>4, ActsSilently
<1>5. CASE q.sig # "have-local-offer"
  <2>1. page' = [page EXCEPT ![b] = Replaced(g, n, left)]
    BY <1>5 DEF SetRemoteAnswer, Puts, Sets, Replaced
  <2>2. /\ left \in Connections /\ left.chain = Tail(q.chain) /\ left.sig # "closed" /\ left.peer = q.peer
        /\ left.polite = q.polite /\ left.sends = q.sends /\ left.remote = q.remote
    BY <1>1, <1>2 DEF Connections, Over
  <2>3. LinkKept(q, left)
    BY <1>1, <1>2, <1>5, AnswersAreDue DEF LinkKept
  <2>. HIDE DEF left
  <2>4. Continues(q, left, n)
    BY <1>1, <1>2, <2>2, GoesOn
  <2>. QED
    BY <1>1, <1>3, <2>1, <2>3, <2>4, ActsSilently
<1>. QED
  BY <1>4, <1>5

-----------------------------------------------------------------------------
(* A page changes, and takes what is first in its inbox or leaves it.      *)

EndsAgree(b, h, s, c) ==
  /\ Half(h, id[b], s, page[c], id[c], c)
  /\ Half(page[c], id[c], inbox[c], h, id[b], b)
  /\ Talk(h, id[b], s, page[c], id[c], inbox[c])

LEMMA IdsAre ==
  ASSUME IInv
  PROVE  /\ inbox \in [Browsers -> Seq(Messages)] /\ page \in [Browsers -> Pages]
         /\ participants \subseteq usedIds /\ usedIds \in SUBSET Ids
         /\ \A x \in Browsers : id[x] \in Nat /\ (Connected(x) => id[x] \in Ids /\ id[x] \in participants)
         /\ \A x \in Browsers : id[x] \in participants => Connected(x)
         /\ \A x, y \in Browsers : AtTable(x, y) => id[x] # id[y] /\ id[x] \in Ids /\ id[y] \in Ids
         /\ \A x, y \in Browsers : x # y /\ Connected(x) /\ Connected(y) => AtTable(x, y)
BY VoiceAssumption DEF IInv, TypeInv, IdsInv, AtTable, Connected, Ids, Offline

LEMMA EndsUndisturbed ==
  ASSUME IInv, NEW b \in Browsers, NEW c \in Browsers, AtTable(b, c),
         NEW h, SameFor(page[b], h, id[b], id[c]), NEW s, Passes(inbox[b], s, id[c])
  PROVE  EndsAgree(b, h, s, c)
<1>1. inbox[b] \in Seq(Messages) /\ inbox[c] \in Seq(Messages)
  BY IdsAre
<1>2. /\ Half(page[b], id[b], inbox[b], page[c], id[c], c)
      /\ Half(page[c], id[c], inbox[c], page[b], id[b], b)
      /\ Talk(page[b], id[b], inbox[b], page[c], id[c], inbox[c])
  BY DEF IInv, HalfInv, TalkInv, AtTable
<1>3. /\ View(h, id[b], id[c]) = View(page[b], id[b], id[c]) /\ h.pcs[id[c]] = page[b].pcs[id[c]]
      /\ View(page[c], id[c], id[b]) = View(page[c], id[c], id[b])
      /\ Passes(inbox[c], inbox[c], id[b]) /\ SameFor(page[c], page[c], id[c], id[b])
  BY DEF SameFor, Passes
<1>4. Half(h, id[b], s, page[c], id[c], c)
  BY <1>1, <1>2, HalfUndisturbed
<1>5. Half(page[c], id[c], inbox[c], h, id[b], b)
  BY <1>1, <1>2, <1>3, HalfUndisturbed
<1>6. Talk(h, id[b], s, page[c], id[c], inbox[c])
  BY <1>1, <1>2, <1>3, TalkUndisturbed
<1>. QED
  BY <1>4, <1>5, <1>6 DEF EndsAgree

LEMMA PageChanges ==
  ASSUME IInv, UNCHANGED <<id, usedIds, participants>>, NEW b \in Browsers,
         NEW h \in Pages, Kept(h), Known(h, usedIds), Connected(b) => Manners(h, id[b]),
         page' = [page EXCEPT ![b] = h],
         NEW s, s = inbox[b] \/ (inbox[b] # <<>> /\ s = Tail(inbox[b])), inbox' = [inbox EXCEPT ![b] = s],
         Fresh(h, s), \A c \in Browsers : AtTable(b, c) => EndsAgree(b, h, s, c)
  PROVE  IInv'
<1>1. /\ inbox \in [Browsers -> Seq(Messages)] /\ page \in [Browsers -> Pages]
      /\ page'[b] = h /\ inbox'[b] = s
      /\ \A x \in Browsers : x # b => page'[x] = page[x] /\ inbox'[x] = inbox[x]
  BY IdsAre
<1>2. s \in Seq(Messages) /\ (s = inbox[b] \/ Connected(b)) /\ Proper(s, usedIds, id)
  <2>1. inbox[b] \in Seq(Messages) /\ (inbox[b] # <<>> => Connected(b)) /\ Proper(inbox[b], usedIds, id)
    BY <1>1 DEF IInv, IdsInv, InboxInv
  <2>2. CASE inbox[b] # <<>> /\ s = Tail(inbox[b])
    <3>1. Tail(inbox[b]) \in Seq(Messages) /\ Proper(Tail(inbox[b]), usedIds, id)
      BY <2>1, <2>2, ProperTaken
    <3>. QED
      BY <2>1, <2>2, <3>1
  <2>. QED
    BY <2>1, <2>2
<1>3. TypeInv'
  BY <1>1, <1>2 DEF IInv, TypeInv
<1>4. IdsInv'
  BY <1>1, <1>2 DEF IInv, IdsInv, Connected, AtTable
<1>5. PageInv'
  BY <1>1 DEF IInv, PageInv, Connected
<1>6. InboxInv'
  BY <1>1, <1>2 DEF IInv, InboxInv
<1>7. \A x, y \in Browsers : AtTable(x, y)' = AtTable(x, y)
  BY DEF AtTable, Connected
<1>8. ASSUME NEW x \in Browsers, NEW y \in Browsers, AtTable(x, y)
      PROVE  Half(page'[x], id[x], inbox'[x], page'[y], id[y], y)
  <2>1. CASE x = b
    BY <1>1, <1>8, <2>1 DEF EndsAgree, AtTable
  <2>2. CASE y = b
    BY <1>1, <1>8, <2>2 DEF EndsAgree, AtTable
  <2>3. CASE x # b /\ y # b
    BY <1>1, <1>8, <2>3 DEF IInv, HalfInv
  <2>. QED
    BY <2>1, <2>2, <2>3
<1>9. HalfInv'
  BY <1>7, <1>8 DEF HalfInv
<1>10. TalkInv'
  <2>1. ASSUME NEW c \in Browsers, AtTable(b, c)
        PROVE  Talk(page'[b], id'[b], inbox'[b], page'[c], id'[c], inbox'[c])
    BY <1>1, <2>1 DEF EndsAgree, AtTable
  <2>2. ASSUME NEW x \in Browsers, NEW y \in Browsers, AtTable(x, y), x # b, y # b
        PROVE  Talk(page'[x], id'[x], inbox'[x], page'[y], id'[y], inbox'[y])
    BY <1>1, <2>2 DEF IInv, TalkInv
  <2>. QED
    BY <1>3, <1>4, <1>7, <2>1, <2>2, OneEndIsEnough
<1>. QED
  BY <1>3, <1>4, <1>5, <1>6, <1>9, <1>10 DEF IInv

-----------------------------------------------------------------------------
(* A call is joined or left.                                               *)

LEMMA OnlySendingDiffers ==
  ASSUME NEW i, NEW j, NEW x, NEW on
  PROVE  NewPc(i, j, on) = [NewPc(i, j, x) EXCEPT !.sends = on]
<1>. DEFINE before == i < j
            no == FALSE
            r(z) == [peer |-> j, polite |-> before, makingOffer |-> no,
                     sig |-> "stable", needed |-> no, chain |-> <<>>,
                     sends |-> z, offered |-> no, told |-> no, hears |-> no, remote |-> NoRemote]
<1>1. NewPc(i, j, x) = r(x) /\ NewPc(i, j, on) = r(on)
  BY DEF NewPc
<1>. HIDE DEF before, no
<1>2. [r(x) EXCEPT !.sends = on] = r(on)
  OBVIOUS
<1>. QED
  BY <1>1, <1>2

LEMMA SendingIs ==
  ASSUME NEW g \in Pages, Kept(g), NEW on \in BOOLEAN, NEW h, h = SetSending(g, on)
  PROVE  /\ h \in Pages /\ Kept(h) /\ h.pcs = g.pcs
         /\ \A i : Manners(g, i) => Manners(h, i)
         /\ \A i : \A j \in Ids : View(h, i, j) = [View(g, i, j) EXCEPT !.sends = on]
<1>1. /\ h.pcs = g.pcs /\ h.inCall = on
      /\ h.pc = [n \in DOMAIN g.pc |-> IF n \in Current(g) THEN [g.pc[n] EXCEPT !.sends = on] ELSE g.pc[n]]
  BY DEF SetSending, Pages
<1>2. /\ DOMAIN g.pc = 1 .. Len(g.pc) /\ \A n \in 1 .. Len(g.pc) : g.pc[n] \in Connections
      /\ g.pcs \in [Ids -> Nat] /\ Len(g.pc) \in Nat
  BY DEF Pages
<1>3. \A n \in 1 .. Len(g.pc) :
        /\ h.pc[n] \in Connections /\ h.pc[n].sig = g.pc[n].sig /\ h.pc[n].peer = g.pc[n].peer
        /\ h.pc[n].chain = g.pc[n].chain /\ h.pc[n].polite = g.pc[n].polite
        /\ n \in Current(g) => h.pc[n] = [g.pc[n] EXCEPT !.sends = on] /\ h.pc[n].sends = on
  <2>. SUFFICES ASSUME NEW n \in 1 .. Len(g.pc)
                PROVE  /\ h.pc[n] \in Connections /\ h.pc[n].sig = g.pc[n].sig /\ h.pc[n].peer = g.pc[n].peer
                       /\ h.pc[n].chain = g.pc[n].chain /\ h.pc[n].polite = g.pc[n].polite
                       /\ n \in Current(g) => h.pc[n] = [g.pc[n] EXCEPT !.sends = on] /\ h.pc[n].sends = on
    OBVIOUS
  <2>1. h.pc[n] = IF n \in Current(g) THEN [g.pc[n] EXCEPT !.sends = on] ELSE g.pc[n]
    BY <1>1, <1>2
  <2>. DEFINE d == [g.pc[n] EXCEPT !.sends = on]
  <2>2. /\ d \in Connections /\ d.sig = g.pc[n].sig /\ d.peer = g.pc[n].peer
        /\ d.chain = g.pc[n].chain /\ d.polite = g.pc[n].polite /\ d.sends = on
    BY <1>2 DEF Connections
  <2>. QED
    BY <1>2, <2>1, <2>2
<1>4. h.pc \in Seq(Connections) /\ Len(h.pc) = Len(g.pc)
  <2>1. h.pc \in [1 .. Len(g.pc) -> Connections]
    BY <1>1, <1>2, <1>3
  <2>. QED
    BY <1>2, <2>1
<1>5. h \in Pages
  <2>1. h = [inCall |-> on, pc |-> h.pc, pcs |-> g.pcs]
    BY <1>1 DEF SetSending, Pages
  <2>. QED
    BY <1>2, <1>4, <2>1 DEF Pages
<1>6. \A p \in Ids : g.pcs[p] # NoPc => g.pcs[p] \in Current(g) /\ g.pcs[p] \in 1 .. Len(g.pc)
  BY DEF Current, Kept
<1>7. Kept(h)
  <2>1. ASSUME NEW p \in Ids, h.pcs[p] # NoPc
        PROVE  /\ h.pcs[p] \in 1 .. Len(h.pc) /\ h.pc[h.pcs[p]].sig # "closed"
               /\ h.pc[h.pcs[p]].peer = p /\ h.pc[h.pcs[p]].sends = h.inCall
    BY <1>1, <1>3, <1>4, <1>6, <2>1 DEF Kept
  <2>2. ASSUME NEW n \in 1 .. Len(h.pc), h.pc[n].sig # "closed"
        PROVE  h.pc[n].peer \in Ids /\ h.pcs[h.pc[n].peer] = n /\ OffersFor(h.pc[n], n)
    BY <1>1, <1>3, <1>4, <2>2 DEF Kept, OffersFor
  <2>. QED
    BY <2>1, <2>2 DEF Kept
<1>8. ASSUME NEW i, Manners(g, i) PROVE Manners(h, i)
  BY <1>1, <1>3, <1>6, <1>8 DEF Manners
<1>9. ASSUME NEW i, NEW j \in Ids PROVE View(h, i, j) = [View(g, i, j) EXCEPT !.sends = on]
  <2>1. CASE g.pcs[j] = NoPc
    <3>1. NewPc(i, j, on) = [NewPc(i, j, g.inCall) EXCEPT !.sends = on]
      BY OnlySendingDiffers
    <3>. QED
      BY <1>1, <2>1, <3>1 DEF View
  <2>2. CASE g.pcs[j] # NoPc
    BY <1>1, <1>3, <1>6, <2>2 DEF View
  <2>. QED
    BY <2>1, <2>2
<1>. QED
  BY <1>1, <1>5, <1>7, <1>8, <1>9

LEMMA TogglingKeeps ==
  ASSUME IInv, UNCHANGED <<id, usedIds, participants, inbox>>, NEW b \in Browsers, NEW on \in BOOLEAN,
         page' = [page EXCEPT ![b] = SetSending(page[b], on)]
  PROVE  IInv'
<1>. DEFINE g == page[b]
            h == SetSending(g, on)
            s == inbox[b]
<1>1. g \in Pages /\ Kept(g) /\ Known(g, usedIds) /\ (Connected(b) => Manners(g, id[b])) /\ Fresh(g, s)
  BY DEF IInv, TypeInv, PageInv, InboxInv
<1>2. /\ h \in Pages /\ Kept(h) /\ h.pcs = g.pcs
      /\ \A i : Manners(g, i) => Manners(h, i)
      /\ \A i : \A j \in Ids : View(h, i, j) = [View(g, i, j) EXCEPT !.sends = on]
  BY <1>1, SendingIs
<1>3. page' = [page EXCEPT ![b] = h] /\ inbox' = [inbox EXCEPT ![b] = s]
  BY DEF IInv, TypeInv
<1>. HIDE DEF h
<1>4. Known(h, usedIds) /\ Fresh(h, s)
  BY <1>1, <1>2 DEF Known, Fresh
<1>5. ASSUME NEW c \in Browsers, AtTable(b, c) PROVE EndsAgree(b, h, s, c)
  <2>. DEFINE i == id[b]
              j == id[c]
              p == View(g, i, j)
              d == View(h, i, j)
              w == View(page[c], j, i)
  <2>1. /\ Half(g, i, s, page[c], j, c) /\ Half(page[c], j, inbox[c], g, i, b)
        /\ Talk(g, i, s, page[c], j, inbox[c])
    BY <1>5 DEF IInv, HalfInv, TalkInv, AtTable
  <2>2. i \in Nat /\ j \in Ids /\ j \in Nat /\ i \in Ids /\ page[c] \in Pages /\ Kept(page[c])
    BY <1>5, IdsAre DEF IInv, PageInv
  <2>3. p \in Connections /\ w \in Connections
    BY <1>1, <2>2, ViewType
  <2>4. d = [p EXCEPT !.sends = on]
    BY <1>2, <2>2
  <2>5. d.chain = p.chain /\ d.remote = p.remote
    BY <2>3, <2>4 DEF Connections
  <2>6. Half(h, i, s, page[c], j, c)
    BY <1>2, <2>1, <2>5 DEF Half, Expects, Reaches, Refers
  <2>7. Half(page[c], j, inbox[c], h, i, b)
    BY <1>2, <2>1 DEF Half, Far
  <2>8. Talk(h, i, s, page[c], j, inbox[c])
    <3>1. PICK u \in Seq(Signals), v \in Seq(Signals) :
            Carries(inbox[c], i, u) /\ Carries(s, j, v) /\ Linked(p, w, u, v, i < j)
      BY <2>1 DEF Talk
    <3>2. (i < j) \in BOOLEAN
      OBVIOUS
    <3>. HIDE DEF p, d, w
    <3>3. Linked(d, w, u, v, i < j)
      BY <2>3, <2>4, <3>1, <3>2, Toggles
    <3>. QED
      BY <3>1, <3>3 DEF Talk, d, w
  <2>. QED
    BY <2>6, <2>7, <2>8 DEF EndsAgree
<1>. QED
  BY <1>1, <1>2, <1>3, <1>4, <1>5, PageChanges

-----------------------------------------------------------------------------
(* A connection is closed.                                                 *)

LEMMA ClosedPcType == ClosedPc \in Connections /\ ClosedPc.sig = "closed"
<1>1. <<>> \in Seq(Operations) /\ 0 \in Nat
  OBVIOUS
<1>. DEFINE before == 0 < 0
            no == FALSE
            r(z) == [peer |-> 0, polite |-> before, makingOffer |-> no,
                     sig |-> z, needed |-> no, chain |-> <<>>,
                     sends |-> no, offered |-> no, told |-> no, hears |-> no, remote |-> NoRemote]
<1>2. ClosedPc = [r("stable") EXCEPT !.sig = "closed"]
  BY DEF ClosedPc, NewPc
<1>3. before \in BOOLEAN /\ no \in BOOLEAN
  OBVIOUS
<1>. HIDE DEF before, no
<1>4. [r("stable") EXCEPT !.sig = "closed"] = r("closed")
  OBVIOUS
<1>. QED
  BY <1>1, <1>2, <1>3, <1>4 DEF Connections

Closes(g, p, h) ==
  /\ h \in Pages /\ Kept(h) /\ h.pcs = [g.pcs EXCEPT ![p] = NoPc]
  /\ \A i : Manners(g, i) => Manners(h, i)
  /\ \A i : \A j \in Ids : j # p => SameFor(g, h, i, j)

LEMMA ClosingIs ==
  ASSUME NEW g \in Pages, Kept(g), NEW p \in Ids, NEW h, h = ClosePeer(g, p)
  PROVE  Closes(g, p, h)
<1>1. CASE g.pcs[p] = NoPc
  BY <1>1 DEF ClosePeer, Closes, SameFor, Pages
<1>2. CASE g.pcs[p] # NoPc
  <2>. DEFINE n == g.pcs[p]
              f == [g.pc EXCEPT ![n] = ClosedPc]
              e == [g.pcs EXCEPT ![p] = NoPc]
  <2>1. n \in 1 .. Len(g.pc) /\ g.pc \in Seq(Connections) /\ g.pcs \in [Ids -> Nat] /\ NoPc \in Nat
    BY <1>2 DEF Kept, Pages, NoPc
  <2>2. f \in Seq(Connections) /\ Len(f) = Len(g.pc) /\ f[n].sig = "closed" /\ \A k \in 1 .. Len(g.pc) : k # n => f[k] = g.pc[k]
    BY <2>1, ClosedPcType
  <2>3. e \in [Ids -> Nat] /\ e[p] = NoPc /\ \A j \in Ids : j # p => e[j] = g.pcs[j]
    BY <2>1
  <2>4. h = [g EXCEPT !.pc = f, !.pcs = e]
    BY <1>2 DEF ClosePeer
  <2>. HIDE DEF f, e
  <2>5. h \in Pages /\ h.pc = f /\ h.pcs = e /\ h.inCall = g.inCall
    BY <2>2, <2>3, <2>4 DEF Pages
  <2>6. \A j \in Ids : j # p /\ g.pcs[j] # NoPc => g.pcs[j] # n /\ g.pcs[j] \in 1 .. Len(g.pc)
    BY <1>2 DEF Kept
  <2>7. \A k \in 1 .. Len(g.pc) : k # n /\ g.pc[k].sig # "closed" => g.pc[k].peer # p
    BY DEF Kept
  <2>8. Kept(h)
    <3>1. ASSUME NEW j \in Ids, h.pcs[j] # NoPc
          PROVE  /\ h.pcs[j] \in 1 .. Len(h.pc) /\ h.pc[h.pcs[j]].sig # "closed"
                 /\ h.pc[h.pcs[j]].peer = j /\ h.pc[h.pcs[j]].sends = h.inCall
      BY <2>2, <2>3, <2>5, <2>6, <3>1 DEF Kept
    <3>2. ASSUME NEW k \in 1 .. Len(h.pc), h.pc[k].sig # "closed"
          PROVE  h.pc[k].peer \in Ids /\ h.pcs[h.pc[k].peer] = k /\ OffersFor(h.pc[k], k)
      BY <2>2, <2>3, <2>5, <2>7, <3>2 DEF Kept
    <3>. QED
      BY <3>1, <3>2 DEF Kept
  <2>9. ASSUME NEW i, Manners(g, i) PROVE Manners(h, i)
    BY <2>2, <2>3, <2>5, <2>6, <2>9 DEF Manners
  <2>10. ASSUME NEW i, NEW j \in Ids, j # p PROVE SameFor(g, h, i, j)
    BY <2>2, <2>3, <2>5, <2>6, <2>10 DEF SameFor, View
  <2>. QED
    BY <2>5, <2>8, <2>9, <2>10 DEF e, Closes
<1>. QED
  BY <1>1, <1>2

LEMMA ConnectionFailsKeeps ==
  ASSUME IInv, NEW b \in Browsers, NEW n \in Pcs(b), ConnectionFails(b, n)
  PROVE  IInv'
<1>. DEFINE g == page[b]
            q == g.pc[n]
            p == q.peer
            h == ClosePeer(g, p)
            s == inbox[b]
<1>1. /\ n \in 1 .. Len(g.pc) /\ n # NoPc /\ g \in Pages /\ q \in Connections
      /\ p \in Ids /\ g.pcs[p] = n
  BY AtConnection
<1>2. Kept(g) /\ Known(g, usedIds) /\ (Connected(b) => Manners(g, id[b])) /\ Fresh(g, s)
  BY DEF IInv, PageInv, InboxInv
<1>3. /\ h \in Pages /\ Kept(h) /\ h.pcs = [g.pcs EXCEPT ![p] = NoPc]
      /\ \A i : Manners(g, i) => Manners(h, i)
      /\ \A i : \A j \in Ids : j # p => SameFor(g, h, i, j)
  <2>1. Closes(g, p, h)
    BY <1>1, <1>2, ClosingIs
  <2>. QED
    BY <2>1 DEF Closes
<1>4. [h EXCEPT !.pc[n] = ClosedPc] = h
  <2>1. h.pc = [g.pc EXCEPT ![n] = ClosedPc]
    BY <1>1 DEF ClosePeer, Pages
  <2>2. [h.pc EXCEPT ![n] = ClosedPc] = h.pc
    BY <1>1, <2>1 DEF Pages
  <2>. HIDE DEF h
  <2>3. [h EXCEPT !.pc = h.pc] = h
    BY <1>3 DEF Pages
  <2>. QED
    BY <2>2, <2>3
<1>5. /\ page' = [page EXCEPT ![b] = h] /\ inbox' = [inbox EXCEPT ![b] = s]
      /\ UNCHANGED <<id, usedIds, participants>>
  <2>1. page' = [page EXCEPT ![b] = [h EXCEPT !.pc[n] = ClosedPc]] /\ UNCHANGED <<id, usedIds, participants, inbox>>
    BY DEF ConnectionFails, Sets
  <2>. QED
    BY <1>4, <2>1 DEF IInv, TypeInv
<1>. HIDE DEF h
<1>6. Known(h, usedIds) /\ Fresh(h, s)
  BY <1>1, <1>2, <1>3 DEF Known, Fresh, Pages
<1>7. ASSUME NEW c \in Browsers, AtTable(b, c) PROVE EndsAgree(b, h, s, c)
  <2>1. id[c] # p
    <3>. SUFFICES ASSUME id[c] = p PROVE FALSE
      OBVIOUS
    <3>1. Half(g, id[b], s, page[c], id[c], c)
      BY <1>7 DEF IInv, HalfInv
    <3>2. View(g, id[b], id[c]) = q
      <4>1. g.pcs[id[c]] = n /\ n # NoPc
        BY <1>1
      <4>. QED
        BY <4>1 DEF View
    <3>3. q.remote # NoRemote /\ page[q.remote[1]].pc[q.remote[2]].sig = "closed"
      BY DEF ConnectionFails, Dead
    <3>4. q.remote \in Far(page[c], id[b], c)
      BY <3>1, <3>2, <3>3 DEF Half, Reaches, Refers
    <3>5. page[c].pcs[id[b]] # NoPc /\ q.remote = <<c, page[c].pcs[id[b]]>>
      BY <3>4 DEF Far
    <3>6. id[b] \in Ids /\ Kept(page[c])
      BY <1>7, IdsAre DEF IInv, PageInv
    <3>. QED
      BY <3>3, <3>5, <3>6 DEF Kept
  <2>2. SameFor(g, h, id[b], id[c])
    BY <1>3, <1>7, <2>1, IdsAre
  <2>3. Passes(s, s, id[c])
    BY DEF Passes
  <2>. QED
    BY <1>7, <2>2, <2>3, EndsUndisturbed
<1>. QED
  BY <1>2, <1>3, <1>5, <1>6, <1>7, PageChanges

-----------------------------------------------------------------------------
(* Sockets come and go.                                                    *)

LEMMA GoesKeeps ==
  ASSUME IInv, UNCHANGED <<usedIds, participants>>, NEW b \in Browsers,
         NEW h \in Pages, Kept(h), Known(h, usedIds), page' = [page EXCEPT ![b] = h],
         id' = [id EXCEPT ![b] = Offline], inbox' = [inbox EXCEPT ![b] = <<>>]
  PROVE  IInv'
<1>1. /\ inbox \in [Browsers -> Seq(Messages)] /\ page \in [Browsers -> Pages] /\ usedIds \in SUBSET Ids
      /\ page'[b] = h /\ inbox'[b] = <<>> /\ id'[b] = Offline /\ Offline \notin Ids
      /\ \A x \in Browsers : x # b => page'[x] = page[x] /\ inbox'[x] = inbox[x] /\ id'[x] = id[x]
  BY VoiceAssumption DEF IInv, TypeInv, Ids, Offline
<1>2. TypeInv'
  <2>1. <<>> \in Seq(Messages)
    OBVIOUS
  <2>. QED
    BY <1>1, <2>1 DEF IInv, TypeInv
<1>3. \A x, y \in Browsers : /\ Connected(x)' => Connected(x) /\ x # b
                             /\ AtTable(x, y)' => AtTable(x, y) /\ x # b /\ y # b
  BY <1>1 DEF AtTable, Connected
<1>4. IdsInv'
  BY <1>1, <1>3 DEF IInv, IdsInv, Connected, AtTable
<1>5. PageInv'
  BY <1>1, <1>3 DEF IInv, PageInv
<1>6. InboxInv'
  <2>1. ASSUME NEW x \in Browsers, x # b PROVE Fresh(page'[x], inbox'[x]) /\ Proper(inbox'[x], usedIds', id')
    <3>1. /\ Fresh(page[x], inbox[x]) /\ Proper(inbox[x], usedIds, id) /\ inbox[x] \in Seq(Messages)
          /\ page'[x] = page[x] /\ inbox'[x] = inbox[x]
      BY <1>1, <2>1 DEF IInv, InboxInv
    <3>2. \A c \in Browsers : id'[c] = id[c] \/ id'[c] \notin usedIds
      BY <1>1
    <3>3. usedIds' = usedIds /\ usedIds \in SUBSET Ids /\ usedIds \subseteq usedIds
      BY <1>1 DEF IInv, TypeInv
    <3>4. Proper(inbox[x], usedIds, id')
      BY <3>1, <3>2, <3>3, ProperLater
    <3>. QED
      BY <3>1, <3>3, <3>4
  <2>2. Fresh(page'[b], <<>>) /\ Proper(<<>>, usedIds', id')
    BY DEF Fresh, Proper
  <2>. QED
    BY <1>1, <2>1, <2>2 DEF InboxInv
<1>7. HalfInv'
  BY <1>1, <1>3 DEF IInv, HalfInv
<1>8. TalkInv'
  BY <1>1, <1>3 DEF IInv, TalkInv
<1>. QED
  BY <1>2, <1>4, <1>5, <1>6, <1>7, <1>8 DEF IInv

LEMMA LoseSocketKeeps ==
  ASSUME IInv, NEW b \in Browsers, LoseSocket(b)
  PROVE  IInv'
<1>1. page[b] \in Pages /\ Kept(page[b]) /\ Known(page[b], usedIds)
  BY DEF IInv, TypeInv, PageInv
<1>2. /\ page' = [page EXCEPT ![b] = page[b]] /\ id' = [id EXCEPT ![b] = Offline]
      /\ inbox' = [inbox EXCEPT ![b] = <<>>] /\ UNCHANGED <<usedIds, participants>>
  BY DEF LoseSocket, IInv, TypeInv
<1>. QED
  BY <1>1, <1>2, GoesKeeps

LEMMA LeavePageKeeps ==
  ASSUME IInv, NEW b \in Browsers, LeavePage(b)
  PROVE  IInv'
<1>. DEFINE f == [n \in DOMAIN page[b].pc |-> ClosedPc]
            h == [NewPage EXCEPT !.pc = f]
<1>1. /\ page' = [page EXCEPT ![b] = h] /\ id' = [id EXCEPT ![b] = Offline]
      /\ inbox' = [inbox EXCEPT ![b] = <<>>] /\ UNCHANGED <<usedIds, participants>>
  BY DEF LeavePage
<1>2. page[b] \in Pages
  BY DEF IInv, TypeInv
<1>3. f \in Seq(Connections) /\ \A n \in 1 .. Len(f) : f[n].sig = "closed"
  <2>1. DOMAIN page[b].pc = 1 .. Len(page[b].pc) /\ Len(page[b].pc) \in Nat
    BY <1>2 DEF Pages
  <2>2. f \in [1 .. Len(page[b].pc) -> Connections] /\ \A n \in 1 .. Len(page[b].pc) : f[n] = ClosedPc
    BY <2>1, ClosedPcType
  <2>. HIDE DEF f
  <2>3. f \in Seq(Connections) /\ Len(f) = Len(page[b].pc)
    BY <2>1, <2>2
  <2>. QED
    BY <2>2, <2>3, ClosedPcType
<1>. HIDE DEF f
<1>4. h = [inCall |-> FALSE, pc |-> f, pcs |-> [p \in Ids |-> NoPc]]
  <2>. DEFINE no == FALSE
              e == [p \in Ids |-> NoPc]
  <2>1. NewPage = [inCall |-> no, pc |-> <<>>, pcs |-> e]
    BY DEF NewPage
  <2>. HIDE DEF no, e
  <2>2. [[inCall |-> no, pc |-> <<>>, pcs |-> e] EXCEPT !.pc = f] = [inCall |-> no, pc |-> f, pcs |-> e]
    OBVIOUS
  <2>. QED
    BY <2>1, <2>2 DEF no, e
<1>5. h \in Pages /\ \A p \in Ids : h.pcs[p] = NoPc
  <2>1. [p \in Ids |-> NoPc] \in [Ids -> Nat]
    BY DEF NoPc
  <2>. QED
    BY <1>3, <1>4, <2>1 DEF Pages
<1>6. h.pc = f
  BY <1>4
<1>. HIDE DEF h
<1>7. Kept(h) /\ Known(h, usedIds)
  BY <1>3, <1>5, <1>6 DEF Kept, Known
<1>. QED
  BY <1>1, <1>5, <1>7, GoesKeeps

LEMMA ServerNoticesKeeps ==
  ASSUME IInv, NEW i \in Ids, ServerNotices(i)
  PROVE  IInv'
<1>. DEFINE m == [type |-> "left", from |-> i]
<1>1. /\ inbox \in [Browsers -> Seq(Messages)] /\ page \in [Browsers -> Pages]
      /\ participants \subseteq usedIds /\ i \in participants
      /\ \A x \in Browsers : id[x] # i
      /\ id' = id /\ usedIds' = usedIds /\ page' = page /\ participants' = participants \ {i}
  BY IdsAre DEF ServerNotices, Gone
<1>2. inbox' = [c \in Browsers |-> IF id[c] \in participants THEN Append(inbox[c], m) ELSE inbox[c]]
  BY DEF ServerNotices
<1>3. m \in Messages /\ m.type = "left" /\ m.from = i /\ \A j : ~IsFrom(m, j) /\ ~Introduces(m, j)
  BY DEF Messages, IsFrom, Introduces
<1>. HIDE DEF m
<1>4. \A x \in Browsers : inbox'[x] = inbox[x] \/ (id[x] \in participants /\ inbox'[x] = Append(inbox[x], m))
  BY <1>1, <1>2
<1>5. TypeInv'
  BY <1>1, <1>2, <1>3 DEF IInv, TypeInv
<1>6. \A x, y \in Browsers : AtTable(x, y)' = AtTable(x, y) /\ Connected(x)' = Connected(x)
  BY <1>1 DEF AtTable, Connected
<1>7. IdsInv'
  <2>1. \A x \in Browsers : Connected(x) => id[x] \in participants'
    BY <1>1, IdsAre
  <2>2. \A x \in Browsers : ~Connected(x) => inbox'[x] = <<>>
    BY <1>4, IdsAre DEF IInv, IdsInv
  <2>3. \A x, y \in Browsers : AtTable(x, y) => id[x] # id[y]
    BY IdsAre
  <2>. QED
    BY <1>1, <1>6, <2>1, <2>2, <2>3 DEF IdsInv
<1>8. PageInv'
  BY <1>1, <1>6 DEF IInv, PageInv
<1>9. InboxInv'
  <2>. SUFFICES ASSUME NEW x \in Browsers PROVE Fresh(page[x], inbox'[x]) /\ Proper(inbox'[x], usedIds, id)
    BY <1>1 DEF InboxInv
  <2>1. Fresh(page[x], inbox[x]) /\ Proper(inbox[x], usedIds, id) /\ inbox[x] \in Seq(Messages)
    BY <1>1 DEF IInv, InboxInv
  <2>2. Fresh(page[x], Append(inbox[x], m))
    BY <1>3, <2>1, FreshAppended
  <2>3. Names(m, usedIds)
    BY <1>1, <1>3 DEF Names
  <2>4. Proper(Append(inbox[x], m), usedIds, id)
    BY <1>1, <1>3, <2>1, <2>3, ProperAppended
  <2>. QED
    BY <1>4, <2>1, <2>2, <2>4
<1>10. \A x \in Browsers : \A j : Passes(inbox[x], inbox'[x], j)
  BY <1>3, <1>4 DEF Passes
<1>11. HalfInv'
  <2>. SUFFICES ASSUME NEW x \in Browsers, NEW y \in Browsers, AtTable(x, y)
                PROVE  Half(page[x], id[x], inbox'[x], page[y], id[y], y)
    BY <1>1, <1>6 DEF HalfInv
  <2>1. Half(page[x], id[x], inbox[x], page[y], id[y], y) /\ SameFor(page[x], page[x], id[x], id[y])
    BY DEF IInv, HalfInv, SameFor
  <2>2. inbox[x] \in Seq(Messages) /\ Passes(inbox[x], inbox'[x], id[y])
    BY <1>1, <1>10
  <2>. QED
    BY <2>1, <2>2, HalfUndisturbed
<1>12. TalkInv'
  <2>. SUFFICES ASSUME NEW x \in Browsers, NEW y \in Browsers, AtTable(x, y)
                PROVE  Talk(page[x], id[x], inbox'[x], page[y], id[y], inbox'[y])
    BY <1>1, <1>6 DEF TalkInv
  <2>1. /\ Talk(page[x], id[x], inbox[x], page[y], id[y], inbox[y])
        /\ View(page[x], id[x], id[y]) = View(page[x], id[x], id[y])
        /\ View(page[y], id[y], id[x]) = View(page[y], id[y], id[x])
    BY DEF IInv, TalkInv
  <2>2. /\ inbox[x] \in Seq(Messages) /\ Passes(inbox[x], inbox'[x], id[y])
        /\ inbox[y] \in Seq(Messages) /\ Passes(inbox[y], inbox'[y], id[x])
    BY <1>1, <1>10
  <2>. QED
    BY <2>1, <2>2, TalkUndisturbed
<1>. QED
  BY <1>5, <1>7, <1>8, <1>9, <1>11, <1>12 DEF IInv

\* A page that has no connection joins the table under an id nobody has had.
LEMMA ConnectKeeps ==
  ASSUME IInv, ComesBack = FALSE, NEW b \in Browsers, Connect(b)
  PROVE  IInv'
<1>1. PICK i \in Ids \ usedIds :
        /\ id' = [id EXCEPT ![b] = i]
        /\ usedIds' = usedIds \cup {i}
        /\ participants' = participants \cup {i}
        /\ inbox' = [TellOthers(b, [type |-> "joined", from |-> i])
                       EXCEPT ![b] = <<[type |-> "peers", ids |-> participants]>>]
  BY DEF Connect
<1>. DEFINE m == [type |-> "joined", from |-> i]
            o == [type |-> "peers", ids |-> participants]
<1>2. /\ inbox \in [Browsers -> Seq(Messages)] /\ page \in [Browsers -> Pages] /\ id \in [Browsers -> Ids \cup {Offline}]
      /\ participants \subseteq usedIds /\ usedIds \in SUBSET Ids /\ page' = page /\ i \in Ids /\ i \notin usedIds
      /\ i # Offline /\ i \in Nat /\ ~Connected(b) /\ Pcs(b) = {}
  BY IdsAre, VoiceAssumption DEF Connect, IInv, TypeInv, Ids, Offline
<1>3. /\ m \in Messages /\ m.type = "joined" /\ m.from = i
      /\ \A j : ~IsFrom(m, j) /\ (Introduces(m, j) <=> j = i)
  BY DEF Messages, IsFrom, Introduces
<1>4. /\ o \in Messages /\ o.type = "peers" /\ o.ids = participants
      /\ \A j : ~IsFrom(o, j) /\ (Introduces(o, j) <=> j \in participants)
  <2>1. participants \in SUBSET Ids
    BY <1>2
  <2>. QED
    BY <2>1 DEF Messages, IsFrom, Introduces
<1>5. /\ inbox'[b] = <<o>>
      /\ \A x \in Browsers : x # b => inbox'[x] = IF id[x] \in participants THEN Append(inbox[x], m) ELSE inbox[x]
      /\ inbox' = [x \in Browsers |-> IF x = b THEN <<o>>
                                      ELSE IF id[x] \in participants THEN Append(inbox[x], m) ELSE inbox[x]]
  BY <1>1 DEF TellOthers
<1>. HIDE DEF m, o
<1>6. id'[b] = i /\ \A x \in Browsers : x # b => id'[x] = id[x]
  BY <1>1, <1>2
<1>7. TypeInv'
  <2>1. <<o>> \in Seq(Messages) /\ \A x \in Browsers : Append(inbox[x], m) \in Seq(Messages)
    BY <1>2, <1>3, <1>4
  <2>2. inbox' \in [Browsers -> Seq(Messages)]
    BY <1>2, <1>5, <2>1
  <2>. QED
    BY <1>1, <1>2, <2>2 DEF TypeInv
<1>8. /\ Connected(b)' /\ \A x \in Browsers : x # b => Connected(x)' = Connected(x)
      /\ \A x \in Browsers : Connected(x) => x # b /\ id[x] \in participants /\ id[x] # i /\ id[x] \in Ids
      /\ \A x \in Browsers : x # b /\ ~Connected(x) => id[x] \notin participants /\ inbox'[x] = <<>>
  <2>1. Connected(b)' /\ \A x \in Browsers : x # b => Connected(x)' = Connected(x)
    BY <1>2, <1>6 DEF Connected
  <2>2. \A x \in Browsers : Connected(x) => x # b /\ id[x] \in participants /\ id[x] # i /\ id[x] \in Ids
    BY <1>2, IdsAre
  <2>3. \A x \in Browsers : ~Connected(x) => id[x] \notin participants /\ inbox[x] = <<>>
    BY IdsAre DEF IInv, IdsInv
  <2>. QED
    BY <1>5, <2>1, <2>2, <2>3
<1>9. IdsInv'
  <2>1. \A x \in Browsers : Connected(x)' => id'[x] \in participants'
    BY <1>1, <1>6, <1>8
  <2>2. \A x, y \in Browsers : AtTable(x, y)' => id'[x] # id'[y]
    BY <1>6, <1>8, IdsAre DEF AtTable
  <2>3. \A x \in Browsers : ~Connected(x)' => inbox'[x] = <<>>
    BY <1>8
  <2>. QED
    BY <2>1, <2>2, <2>3 DEF IdsInv
<1>10. \A j \in Ids : page[b].pcs[j] = NoPc
  <2>1. page[b] \in Pages /\ Kept(page[b])
    BY <1>2 DEF IInv, PageInv
  <2>2. DOMAIN page[b].pc = 1 .. Len(page[b].pc)
    BY <2>1 DEF Pages
  <2>. QED
    BY <1>2, <2>1, <2>2 DEF Kept, Pcs
<1>11. \A x \in Browsers : page[x].pcs[i] = NoPc
  BY <1>2 DEF IInv, PageInv, Known
<1>12. PageInv'
  <2>. SUFFICES ASSUME NEW x \in Browsers
                PROVE  Kept(page[x]) /\ Known(page[x], usedIds') /\ (Connected(x)' => Manners(page[x], id'[x]))
    BY <1>2 DEF PageInv
  <2>1. Kept(page[x]) /\ Known(page[x], usedIds) /\ (Connected(x) => Manners(page[x], id[x]))
    BY DEF IInv, PageInv
  <2>2. Known(page[x], usedIds')
    BY <1>1, <2>1 DEF Known
  <2>3. Connected(x)' => Manners(page[x], id'[x])
    BY <1>6, <1>8, <1>10, <2>1 DEF Manners
  <2>. QED
    BY <2>1, <2>2, <2>3
<1>13. \A x \in Browsers : /\ Fresh(page[x], inbox[x]) /\ Proper(inbox[x], usedIds, id)
                           /\ \A k \in 1 .. Len(inbox[x]) : ~Introduces(inbox[x][k], i) /\ ~IsFrom(inbox[x][k], i)
  BY <1>2 DEF IInv, InboxInv, Proper, Names, Introduces, IsFrom
<1>14. InboxInv'
  <2>1. ASSUME NEW x \in Browsers, x # b PROVE Fresh(page'[x], inbox'[x]) /\ Proper(inbox'[x], usedIds', id')
    <3>1. inbox[x] \in Seq(Messages) /\ Fresh(page[x], inbox[x]) /\ Proper(inbox[x], usedIds, id)
      BY <1>2, <1>13
    <3>2. Fresh(page[x], Append(inbox[x], m))
      BY <1>3, <1>11, <1>13, <3>1, FreshAppended
    <3>3. Proper(inbox[x], usedIds', id')
      <4>1. usedIds \subseteq usedIds' /\ \A c \in Browsers : id'[c] = id[c] \/ id'[c] \notin usedIds
        BY <1>1, <1>2, <1>6
      <4>. QED
        BY <1>2, <3>1, <4>1, ProperLater
    <3>4. Names(m, usedIds')
      BY <1>1, <1>3 DEF Names
    <3>5. Proper(Append(inbox[x], m), usedIds', id')
      BY <1>3, <3>1, <3>3, <3>4, ProperAppended
    <3>. QED
      BY <1>2, <1>5, <2>1, <3>1, <3>2, <3>3, <3>5
  <2>2. Fresh(page[b], <<o>>) /\ Proper(<<o>>, usedIds', id')
    <3>1. Len(<<o>>) = 1 /\ <<o>>[1] = o
      OBVIOUS
    <3>2. Names(o, usedIds')
      BY <1>1, <1>2, <1>4 DEF Names
    <3>. QED
      BY <1>4, <1>10, <3>1, <3>2 DEF Fresh, Proper
  <2>. QED
    BY <1>2, <1>5, <2>1, <2>2 DEF InboxInv
<1>15. ASSUME NEW x \in Browsers, x # b, Connected(x) PROVE inbox'[x] = Append(inbox[x], m) /\ inbox[x] \in Seq(Messages)
  BY <1>2, <1>5, <1>8, <1>15
<1>16. \A x, y \in Browsers : AtTable(x, y)' /\ x # b /\ y # b => AtTable(x, y)
  BY <1>8 DEF AtTable
<1>17. \A x, y \in Browsers : AtTable(x, y)' /\ x # b => Connected(x) /\ x # b
  BY <1>8 DEF AtTable
<1>18. ASSUME NEW x \in Browsers, NEW j, x # b, Connected(x), j # i PROVE Passes(inbox[x], inbox'[x], j)
  BY <1>3, <1>15, <1>18 DEF Passes
<1>19. HalfInv'
  <2>. SUFFICES ASSUME NEW x \in Browsers, NEW y \in Browsers, AtTable(x, y)'
                PROVE  Half(page[x], id'[x], inbox'[x], page[y], id'[y], y)
    BY <1>2 DEF HalfInv
  <2>1. CASE x # b /\ y # b
    <3>1. AtTable(x, y) /\ Connected(x) /\ id[y] # i /\ id'[x] = id[x] /\ id'[y] = id[y]
      BY <1>6, <1>8, <1>16, <2>1 DEF AtTable
    <3>2. Half(page[x], id[x], inbox[x], page[y], id[y], y) /\ SameFor(page[x], page[x], id[x], id[y])
      BY <3>1 DEF IInv, HalfInv, SameFor
    <3>3. Passes(inbox[x], inbox'[x], id[y]) /\ inbox[x] \in Seq(Messages)
      BY <1>2, <1>18, <2>1, <3>1
    <3>4. Half(page[x], id[x], inbox'[x], page[y], id[y], y)
      BY <3>2, <3>3, HalfUndisturbed
    <3>. QED
      BY <3>1, <3>4
  <2>2. CASE x = b
    <3>1. y # b /\ Connected(y) /\ id'[y] = id[y] /\ id[y] \in participants /\ id[y] \in Ids
      BY <1>6, <1>8, <2>2 DEF AtTable
    <3>2. Len(<<o>>) = 1 /\ <<o>>[1] = o /\ 1 \in 1 .. 1
      OBVIOUS
    <3>3. Expects(page[b], <<o>>, id[y])
      BY <1>4, <3>1, <3>2 DEF Expects
    <3>4. View(page[b], i, id[y]) = NewPc(i, id[y], page[b].inCall)
      BY <1>10, <3>1 DEF View
    <3>5. \A far : Refers(NewPc(i, id[y], page[b].inCall), far)
      BY DEF Refers, NewPc
    <3>6. Reaches(page[b], i, <<o>>, id[y], Far(page[y], i, y))
      BY <1>4, <3>2, <3>4, <3>5 DEF Reaches
    <3>. QED
      BY <1>5, <1>6, <2>2, <3>1, <3>3, <3>6 DEF Half
  <2>3. CASE y = b
    <3>1. x # b /\ Connected(x) /\ id'[x] = id[x] /\ id[x] \in Ids
      BY <1>6, <1>8, <2>3 DEF AtTable
    <3>. DEFINE t == inbox'[x]
    <3>2. /\ Len(t) \in 1 .. Len(t) /\ t[Len(t)] = m
          /\ \A k \in 1 .. Len(inbox[x]) : t[k] = inbox[x][k]
          /\ \A k \in 1 .. Len(t) : k \in 1 .. Len(inbox[x]) \/ k = Len(t)
      BY <1>3, <1>15, <3>1, OneAppended
    <3>. HIDE DEF t
    <3>3. Expects(page[x], t, i)
      BY <1>3, <3>2 DEF Expects
    <3>4. View(page[x], id[x], i) = NewPc(id[x], i, page[x].inCall)
      BY <1>11 DEF View
    <3>5. \A far : Refers(NewPc(id[x], i, page[x].inCall), far)
      BY DEF Refers, NewPc
    <3>6. \A k \in 1 .. Len(t) : ~IsFrom(t[k], i)
      BY <1>3, <1>13, <3>2
    <3>7. Reaches(page[x], id[x], t, i, Far(page[b], id[x], b))
      BY <3>4, <3>5, <3>6 DEF Reaches
    <3>. QED
      BY <1>6, <2>3, <3>1, <3>3, <3>7 DEF Half, t
  <2>. QED
    BY <2>1, <2>2, <2>3
<1>20. TalkInv'
  <2>1. ASSUME NEW c \in Browsers, AtTable(b, c)'
        PROVE  Talk(page'[b], id'[b], inbox'[b], page'[c], id'[c], inbox'[c])
    <3>1. c # b /\ Connected(c) /\ id'[c] = id[c] /\ id[c] \in Ids /\ id[c] \in Nat
      BY <1>6, <1>8, <2>1, IdsAre DEF AtTable
    <3>. DEFINE j == id[c]
    <3>2. /\ View(page[b], i, j) = NewPc(i, j, page[b].inCall)
          /\ View(page[c], j, i) = NewPc(j, i, page[c].inCall)
      BY <1>10, <1>11, <3>1 DEF View
    <3>3. page[b].inCall \in BOOLEAN /\ page[c].inCall \in BOOLEAN /\ (i < j) \in BOOLEAN
      BY <1>2 DEF Pages
    <3>4. Linked(NewPc(i, j, page[b].inCall), NewPc(j, i, page[c].inCall), <<>>, <<>>, i < j)
      BY <1>2, <3>1, <3>3, NothingSaid
    <3>5. Carries(<<o>>, j, <<>>)
      <4>1. <<o>> \in Seq(Messages) /\ \A n \in 1 .. Len(<<o>>) : ~IsFrom(<<o>>[n], j)
        BY <1>4
      <4>. QED
        BY <4>1, CarriesNothing
    <3>6. Carries(inbox'[c], i, <<>>)
      <4>. DEFINE t == inbox'[c]
      <4>1. /\ t \in Seq(Messages) /\ t[Len(t)] = m
            /\ \A k \in 1 .. Len(inbox[c]) : t[k] = inbox[c][k]
            /\ \A k \in 1 .. Len(t) : k \in 1 .. Len(inbox[c]) \/ k = Len(t)
        BY <1>3, <1>15, <3>1, OneAppended
      <4>. HIDE DEF t
      <4>2. \A n \in 1 .. Len(t) : ~IsFrom(t[n], i)
        BY <1>3, <1>13, <4>1
      <4>3. Carries(t, i, <<>>)
        BY <4>1, <4>2, CarriesNothing
      <4>. QED
        BY <4>3 DEF t
    <3>7. <<>> \in Seq(Signals)
      OBVIOUS
    <3>8. Talk(page[b], i, <<o>>, page[c], j, inbox'[c])
      BY <3>2, <3>4, <3>5, <3>6, <3>7 DEF Talk
    <3>. QED
      BY <1>2, <1>5, <1>6, <3>1, <3>8
  <2>2. ASSUME NEW x \in Browsers, NEW y \in Browsers, AtTable(x, y)', x # b, y # b
        PROVE  Talk(page'[x], id'[x], inbox'[x], page'[y], id'[y], inbox'[y])
    <3>1. AtTable(x, y) /\ Connected(x) /\ Connected(y) /\ id[x] # i /\ id[y] # i
          /\ id'[x] = id[x] /\ id'[y] = id[y]
      BY <1>6, <1>8, <1>16, <2>2 DEF AtTable
    <3>2. /\ Talk(page[x], id[x], inbox[x], page[y], id[y], inbox[y])
          /\ View(page[x], id[x], id[y]) = View(page[x], id[x], id[y])
          /\ View(page[y], id[y], id[x]) = View(page[y], id[y], id[x])
      BY <3>1 DEF IInv, TalkInv
    <3>3. /\ inbox[x] \in Seq(Messages) /\ Passes(inbox[x], inbox'[x], id[y])
          /\ inbox[y] \in Seq(Messages) /\ Passes(inbox[y], inbox'[y], id[x])
      BY <1>2, <1>18, <2>2, <3>1
    <3>4. Talk(page[x], id[x], inbox'[x], page[y], id[y], inbox'[y])
      BY <3>2, <3>3, TalkUndisturbed
    <3>. QED
      BY <1>2, <3>1, <3>4
  <2>. QED
    BY <1>7, <1>9, <2>1, <2>2, OneEndIsEnough
<1>. QED
  BY <1>7, <1>9, <1>12, <1>14, <1>19, <1>20 DEF IInv

-----------------------------------------------------------------------------
(* Connections that are made.                                              *)

\* Page g, under me, got connections for those of S and for nobody else.
Grows(g, h, me, S) ==
  /\ h \in Pages /\ Kept(h) /\ h.inCall = g.inCall
  /\ \A j \in Ids : /\ View(h, me, j) = View(g, me, j)
                    /\ j \notin S => h.pcs[j] = g.pcs[j]
                    /\ j \in S => h.pcs[j] # NoPc

LEMMA NewPcType ==
  ASSUME NEW i \in Nat, NEW j \in Ids, NEW x \in BOOLEAN
  PROVE  /\ NewPc(i, j, x) \in Connections /\ NewPc(i, j, x).sig = "stable" /\ NewPc(i, j, x).peer = j
         /\ NewPc(i, j, x).sends = x /\ NewPc(i, j, x).chain = <<>>
         /\ NewPc(i, j, x).polite = (i < j) /\ NewPc(i, j, x).makingOffer = FALSE
<1>1. j \in Nat /\ <<>> \in Seq(Operations)
  BY VoiceAssumption DEF Ids
<1>. QED
  BY <1>1 DEF NewPc, Connections

LEMMA GrowsByOne ==
  ASSUME NEW g, NEW me \in Nat, NEW S, NEW h, Grows(g, h, me, S),
         NEW p \in Ids, p \notin S, g.pcs[p] = NoPc, NEW T, T = S \cup {p},
         NEW k, k = CreatePeerConnection(h, me, p)
  PROVE  Grows(g, k, me, T)
<1>. DEFINE new == NewPc(me, p, h.inCall)
            f == Append(h.pc, new)
            e == [h.pcs EXCEPT ![p] = Len(h.pc) + 1]
            n == Len(h.pc) + 1
<1>1. /\ h \in Pages /\ Kept(h) /\ h.inCall = g.inCall /\ h.pcs[p] = NoPc
      /\ h.pc \in Seq(Connections) /\ h.pcs \in [Ids -> Nat] /\ h.inCall \in BOOLEAN /\ Len(h.pc) \in Nat
  BY DEF Grows, Pages
<1>2. new \in Connections /\ new.sig = "stable" /\ new.peer = p /\ new.sends = h.inCall /\ new.chain = <<>>
  BY <1>1, NewPcType
<1>. HIDE DEF new
<1>3. /\ f \in Seq(Connections) /\ Len(f) = n /\ f[n] = new /\ \A l \in 1 .. Len(h.pc) : f[l] = h.pc[l]
      /\ n \in 1 .. n /\ n # NoPc /\ n \in Nat
      /\ \A l \in 1 .. n : l = n \/ (l \in 1 .. Len(h.pc) /\ l # n)
      /\ \A l \in 1 .. Len(h.pc) : l \in 1 .. n /\ l # n
  BY <1>1, <1>2 DEF NoPc
<1>4. e \in [Ids -> Nat] /\ e[p] = n /\ \A j \in Ids : j # p => e[j] = h.pcs[j]
  BY <1>1
<1>5. k = [h EXCEPT !.pc = f, !.pcs = e]
  BY DEF CreatePeerConnection, new
<1>. HIDE DEF f, e, n
<1>6. k \in Pages /\ k.pc = f /\ k.pcs = e /\ k.inCall = h.inCall
  BY <1>1, <1>3, <1>4, <1>5 DEF Pages
<1>7. \A j \in Ids : j # p /\ h.pcs[j] # NoPc => h.pcs[j] \in 1 .. Len(h.pc)
  BY <1>1 DEF Kept
<1>8. Kept(k)
  <2>1. ASSUME NEW j \in Ids, k.pcs[j] # NoPc
        PROVE  /\ k.pcs[j] \in 1 .. Len(k.pc) /\ k.pc[k.pcs[j]].sig # "closed"
               /\ k.pc[k.pcs[j]].peer = j /\ k.pc[k.pcs[j]].sends = k.inCall
    BY <1>1, <1>2, <1>3, <1>4, <1>6, <1>7, <2>1 DEF Kept
  <2>2. ASSUME NEW l \in 1 .. Len(k.pc), k.pc[l].sig # "closed"
        PROVE  k.pc[l].peer \in Ids /\ k.pcs[k.pc[l].peer] = l /\ OffersFor(k.pc[l], l)
    <3>1. CASE l = n
      BY <1>2, <1>3, <1>4, <1>6, <3>1 DEF OffersFor
    <3>2. CASE l # n
      <4>1. l \in 1 .. Len(h.pc) /\ k.pc[l] = h.pc[l] /\ l # NoPc
        BY <1>3, <1>6, <3>2 DEF NoPc
      <4>2. h.pc[l].peer \in Ids /\ h.pcs[h.pc[l].peer] = l /\ OffersFor(h.pc[l], l)
        BY <1>1, <2>2, <4>1 DEF Kept
      <4>3. h.pc[l].peer # p
        BY <1>1, <4>1, <4>2
      <4>. QED
        BY <1>4, <1>6, <4>1, <4>2, <4>3
    <3>. QED
      BY <3>1, <3>2
  <2>. QED
    BY <2>1, <2>2 DEF Kept
<1>9. ASSUME NEW j \in Ids
      PROVE  /\ View(k, me, j) = View(g, me, j)
             /\ j \notin T => k.pcs[j] = g.pcs[j]
             /\ j \in T => k.pcs[j] # NoPc
  <2>1. /\ View(h, me, j) = View(g, me, j)
        /\ j \notin S => h.pcs[j] = g.pcs[j]
        /\ j \in S => h.pcs[j] # NoPc
    BY DEF Grows
  <2>2. CASE j = p
    BY <1>1, <1>3, <1>4, <1>6, <2>2 DEF View, new
  <2>3. CASE j # p
    <3>1. View(k, me, j) = View(h, me, j)
      BY <1>3, <1>4, <1>6, <1>7, <2>3 DEF View
    <3>. QED
      BY <1>4, <1>6, <2>1, <2>3, <3>1
  <2>. QED
    BY <2>2, <2>3
<1>. QED
  BY <1>1, <1>6, <1>8, <1>9 DEF Grows

\* Those the server names at once, one after the other.
Introduced(g, me, S) == FoldSet(LAMBDA p, h : CreatePeerConnection(h, me, p), g, S)

Makes(e, g, me, D) ==
  e = [s \in D |-> IF s = {} THEN g ELSE CreatePeerConnection(e[s \ {AnyOf(s)}], me, AnyOf(s))]

LEMMA IntroducedIsRecursive ==
  ASSUME NEW g, NEW me, NEW S
  PROVE  Introduced(g, me, S) = (CHOOSE e : Makes(e, g, me, SUBSET S))[S]
BY DEF Introduced, FoldSet, MapThenFoldSet, Makes, AnyOf

LEMMA MakesExists ==
  ASSUME NEW g, NEW me, NEW S, IsFiniteSet(S)
  PROVE  \E e : Makes(e, g, me, SUBSET S)
<1>. DEFINE D(n) == {s \in SUBSET S : Cardinality(s) <= n}
            Bad == {n \in Nat : ~ \E e : Makes(e, g, me, D(n))}
<1>1. \A s \in SUBSET S : IsFiniteSet(s) /\ Cardinality(s) \in Nat
  BY FS_Subset, FS_CardinalityType
<1>2. Bad = {}
  <2>. SUFFICES ASSUME Bad # {} PROVE FALSE
    OBVIOUS
  <2>1. PICK n \in Bad : \A m \in Bad : n <= m
    BY LeastOf
  <2>2. n \in Nat /\ ~ \E e : Makes(e, g, me, D(n))
    OBVIOUS
  <2>3. CASE n = 0
    <3>1. \A s \in D(0) : s = {}
      BY <1>1, FS_EmptySet
    <3>2. Makes([s \in D(0) |-> g], g, me, D(0))
      BY <3>1 DEF Makes
    <3>. QED
      BY <2>2, <2>3, <3>2
  <2>4. CASE n # 0
    <3>1. n - 1 \in Nat /\ n - 1 \notin Bad
      <4>1. n - 1 \in Nat /\ ~(n <= n - 1)
        BY <2>2, <2>4
      <4>. HIDE DEF Bad
      <4>. QED
        BY <2>1, <4>1
    <3>2. PICK e : Makes(e, g, me, D(n - 1))
      BY <3>1
    <3>. DEFINE One(x, s) == IF s = {} THEN g ELSE CreatePeerConnection(x[s \ {AnyOf(s)}], me, AnyOf(s))
                h == [s \in D(n) |-> One(e, s)]
    <3>3. ASSUME NEW s \in D(n - 1) PROVE s \in D(n) /\ h[s] = e[s]
      <4>1. s \in D(n)
        BY <1>1, <2>2
      <4>2. e[s] = One(e, s)
        BY <3>2 DEF Makes
      <4>. HIDE DEF One
      <4>. QED
        BY <4>1, <4>2
    <3>4. ASSUME NEW s \in D(n), s # {} PROVE h[s \ {AnyOf(s)}] = e[s \ {AnyOf(s)}]
      <4>1. AnyOf(s) \in s
        BY <3>4, AnyOfIsIn
      <4>2. Cardinality(s \ {AnyOf(s)}) = Cardinality(s) - 1
        BY <1>1, <4>1, FS_RemoveElement
      <4>3. s \ {AnyOf(s)} \in D(n - 1)
        BY <1>1, <2>2, <4>2
      <4>. QED
        BY <3>3, <4>3
    <3>5. ASSUME NEW s \in D(n) PROVE One(e, s) = One(h, s)
      <4>1. s # {} => h[s \ {AnyOf(s)}] = e[s \ {AnyOf(s)}]
        BY <3>4
      <4>. HIDE DEF h
      <4>. QED
        BY <4>1
    <3>6. h = [s \in D(n) |-> One(h, s)]
      <4>. DEFINE next == [s \in D(n) |-> One(h, s)]
      <4>1. \A s \in D(n) : h[s] = next[s]
        <5>. HIDE DEF One
        <5>. QED
          BY <3>5
      <4>. HIDE DEF One
      <4>. QED
        BY <4>1
    <3>7. Makes(h, g, me, D(n))
      BY <3>6 DEF Makes
    <3>. QED
      BY <2>2, <3>7
  <2>. QED
    BY <2>3, <2>4
<1>3. D(Cardinality(S)) = SUBSET S
  <2>1. \A s \in SUBSET S : Cardinality(s) <= Cardinality(S)
    BY FS_Subset
  <2>. QED
    BY <2>1
<1>4. Cardinality(S) \notin Bad /\ Cardinality(S) \in Nat
  BY <1>2, FS_CardinalityType
<1>. QED
  BY <1>3, <1>4

LEMMA GrowsByAll ==
  ASSUME NEW g \in Pages, Kept(g), NEW me \in Nat, NEW S \in SUBSET Ids,
         \A p \in S : g.pcs[p] = NoPc
  PROVE  Grows(g, Introduced(g, me, S), me, S)
<1>. DEFINE e == CHOOSE e : Makes(e, g, me, SUBSET S)
<1>1. IsFiniteSet(S)
  <2>1. IsFiniteSet(1 .. MaxIds)
    BY FS_Interval, VoiceAssumption
  <2>. QED
    BY <2>1, FS_Subset DEF Ids
<1>2. Makes(e, g, me, SUBSET S)
  BY <1>1, MakesExists
<1>3. Introduced(g, me, S) = e[S]
  BY IntroducedIsRecursive
<1>. HIDE DEF e
<1>4. \A T \in SUBSET S :
        e[T] = IF T = {} THEN g ELSE CreatePeerConnection(e[T \ {AnyOf(T)}], me, AnyOf(T))
  BY <1>2 DEF Makes
<1>. DEFINE Bad == {T \in SUBSET S : ~Grows(g, e[T], me, T)}
<1>5. Bad = {}
  <2>. SUFFICES ASSUME Bad # {} PROVE FALSE
    OBVIOUS
  <2>1. PICK m \in Bad : \A x \in m : m \ {x} \notin Bad
    <3>1. Bad \in SUBSET (SUBSET S)
      OBVIOUS
    <3>. HIDE DEF Bad
    <3>. QED
      BY <1>1, <3>1, SmallestSet
  <2>2. m \in SUBSET S /\ ~Grows(g, e[m], me, m)
    OBVIOUS
  <2>3. CASE m = {}
    <3>1. e[m] = g
      BY <1>4, <2>2, <2>3
    <3>. QED
      BY <2>2, <2>3, <3>1 DEF Grows
  <2>4. CASE m # {}
    <3>. DEFINE p == AnyOf(m)
                R == m \ {p}
    <3>1. p \in m /\ p \in Ids /\ g.pcs[p] = NoPc /\ R \in SUBSET S /\ m = R \cup {p} /\ p \notin R
      BY <2>2, <2>4, AnyOfIsIn
    <3>2. Grows(g, e[R], me, R)
      BY <2>1, <3>1
    <3>3. e[m] = CreatePeerConnection(e[R], me, p)
      BY <1>4, <2>2, <2>4
    <3>. HIDE DEF p, R
    <3>4. Grows(g, e[m], me, m)
      BY <3>1, <3>2, <3>3, GrowsByOne
    <3>. QED
      BY <2>2, <3>4
  <2>. QED
    BY <2>3, <2>4
<1>. QED
  BY <1>3, <1>5

-----------------------------------------------------------------------------
(* What is first in the inbox is taken.                                    *)

\* It is from no one in S, or names all of them; whoever is not named is not
\* concerned, and page h knows those of S besides.
LEMMA GrowsAgrees ==
  ASSUME IInv, NEW b \in Browsers, inbox[b] # <<>>, NEW S \in SUBSET Ids, NEW h, Grows(page[b], h, id[b], S),
         NEW c \in Browsers, AtTable(b, c), ~IsFrom(inbox[b][1], id[c]),
         \A j \in Ids : Introduces(inbox[b][1], j) => j \in S,
         \A j \in S : page[b].pcs[j] = NoPc
  PROVE  EndsAgree(b, h, Tail(inbox[b]), c)
<1>. DEFINE g == page[b]
            i == id[b]
            j == id[c]
            s == inbox[b]
<1>1. /\ inbox[b] \in Seq(Messages) /\ inbox[c] \in Seq(Messages) /\ j \in Ids /\ i \in Ids
  BY IdsAre
<1>2. View(h, i, j) = View(g, i, j) /\ (j \notin S => h.pcs[j] = g.pcs[j]) /\ (j \in S => h.pcs[j] # NoPc)
  BY <1>1 DEF Grows
<1>3. CASE j \notin S
  <2>1. SameFor(g, h, i, j)
    BY <1>2, <1>3 DEF SameFor
  <2>2. Passes(s, Tail(s), j)
    BY <1>1, <1>3 DEF Passes
  <2>. QED
    BY <2>1, <2>2, EndsUndisturbed
<1>4. CASE j \in S
  <2>1. /\ Half(g, i, s, page[c], j, c) /\ Half(page[c], j, inbox[c], g, i, b)
        /\ Talk(g, i, s, page[c], j, inbox[c])
    BY DEF IInv, HalfInv, TalkInv, AtTable
  <2>2. Half(h, i, Tail(s), page[c], j, c)
    <3>1. \A k \in 1 .. Len(Tail(s)) : k + 1 \in 1 .. Len(s) /\ Tail(s)[k] = s[k + 1]
      BY <1>1, HeadTaken
    <3>. QED
      BY <1>2, <1>4, <2>1, <3>1 DEF Half, Expects, Reaches
  <2>3. Half(page[c], j, inbox[c], h, i, b)
    <3>1. Far(g, j, b) = {}
      BY <1>4 DEF Far
    <3>2. \A far : Refers(View(page[c], j, i), {}) => Refers(View(page[c], j, i), far)
      BY DEF Refers
    <3>. QED
      BY <2>1, <3>1, <3>2 DEF Half, Reaches
  <2>4. Talk(h, i, Tail(s), page[c], j, inbox[c])
    BY <1>1, <1>2, <2>1, FirstIsAnothers DEF Talk
  <2>. QED
    BY <2>2, <2>3, <2>4 DEF EndsAgree
<1>. QED
  BY <1>3, <1>4

LEMMA GrownPageIs ==
  ASSUME NEW g, NEW h, NEW me \in Nat, NEW S \in SUBSET Ids, Grows(g, h, me, S), Manners(g, me),
         NEW used, S \subseteq used, Known(g, used), \A j \in S : g.pcs[j] = NoPc
  PROVE  Manners(h, me) /\ Known(h, used)
<1>1. /\ h \in Pages
      /\ \A j \in Ids : /\ View(h, me, j) = View(g, me, j)
                        /\ j \notin S => h.pcs[j] = g.pcs[j]
                        /\ j \in S => h.pcs[j] # NoPc
  BY DEF Grows
<1>2. ASSUME NEW j \in Ids, h.pcs[j] # NoPc PROVE h.pc[h.pcs[j]].polite = (me < j)
  <2>1. h.pc[h.pcs[j]] = View(g, me, j)
    BY <1>1, <1>2 DEF View
  <2>2. CASE g.pcs[j] = NoPc
    <3>. DEFINE on == g.inCall
    <3>1. View(g, me, j) = NewPc(me, j, on)
      BY <2>2 DEF View
    <3>2. NewPc(me, j, on).polite = (me < j)
      BY DEF NewPc
    <3>. QED
      BY <2>1, <3>1, <3>2
  <2>3. CASE g.pcs[j] # NoPc
    BY <2>1, <2>3 DEF View, Manners
  <2>. QED
    BY <2>2, <2>3
<1>. QED
  BY <1>1, <1>2 DEF Manners, Known

\* The server names somebody who has come, or everybody who is there.
LEMMA IntroducingKeeps ==
  ASSUME IInv, UNCHANGED <<id, usedIds, participants>>, NEW b \in Browsers, inbox[b] # <<>>,
         NEW S \in SUBSET Ids, S \subseteq usedIds,
         \A j \in Ids : ~IsFrom(inbox[b][1], j) /\ (Introduces(inbox[b][1], j) <=> j \in S),
         NEW h, (\A j \in S : page[b].pcs[j] = NoPc) => Grows(page[b], h, id[b], S),
         page' = [page EXCEPT ![b] = h], inbox' = [inbox EXCEPT ![b] = Tail(inbox[b])]
  PROVE  IInv'
<1>. DEFINE g == page[b]
            s == inbox[b]
<1>1. /\ s \in Seq(Messages) /\ Connected(b) /\ id[b] \in Ids /\ id[b] \in Nat
      /\ Fresh(g, s) /\ Manners(g, id[b]) /\ Known(g, usedIds)
  BY IdsAre DEF IInv, IdsInv, InboxInv, PageInv
<1>2. \A j \in S : g.pcs[j] = NoPc
  <2>1. 1 \in 1 .. Len(s)
    BY <1>1
  <2>. QED
    BY <2>1, <1>1 DEF Fresh
<1>3. Grows(g, h, id[b], S)
  BY <1>2
<1>4. h \in Pages /\ Kept(h) /\ \A j \in Ids : j \notin S => h.pcs[j] = g.pcs[j]
  BY <1>3 DEF Grows
<1>5. Manners(h, id[b]) /\ Known(h, usedIds)
  BY <1>1, <1>2, <1>3, GrownPageIs
<1>6. Fresh(h, Tail(s))
  BY <1>1, <1>4, FreshTaken
<1>7. ASSUME NEW c \in Browsers, AtTable(b, c) PROVE EndsAgree(b, h, Tail(s), c)
  <2>1. id[c] \in Ids
    BY <1>7, IdsAre
  <2>2. ~IsFrom(s[1], id[c])
    BY <2>1
  <2>. QED
    BY <1>2, <1>3, <1>7, <2>2, GrowsAgrees
<1>. QED
  BY <1>4, <1>5, <1>6, <1>7, PageChanges

-----------------------------------------------------------------------------
(* A signal of the peer is taken.                                          *)

\* What the page makes of signal m at connection q, its n-th.
OpOf(m) ==
  [op |-> IF m.type = "offer" THEN "setRemoteOffer" ELSE "setRemoteAnswer", sends |-> m.sends, remote |-> m.pc]

Heeds(g, n, m, h) ==
  \/ m.type = "offer" /\ IgnoresOffer(g.pc[n]) /\ h = g
  \/ /\ ~(m.type = "offer" /\ IgnoresOffer(g.pc[n]))
     /\ h = Replaced(g, n, [g.pc[n] EXCEPT !.chain = Append(@, OpOf(m))])

LEMMA OpOfType ==
  ASSUME NEW m \in Signals
  PROVE  /\ OpOf(m) \in Operations /\ OpOf(m).op \in Heard /\ OpOf(m).op \notin Own
         /\ OpOf(m).sends = m.sends /\ OpOf(m).remote = m.pc
         /\ m.type = "offer" => OpOf(m).op = "setRemoteOffer"
         /\ m.type = "answer" => OpOf(m).op = "setRemoteAnswer"
         /\ m.type \in {"offer", "answer"}
BY DEF OpOf, Operations, Signals, Heard, Own

LEMMA Queued ==
  ASSUME NEW q \in Connections, NEW op \in Operations, op.op \in Heard, op.op \notin Own,
         NEW d, d = [q EXCEPT !.chain = Append(@, op)], NEW n, q.sig # "closed"
  PROVE  /\ Stays(q, d, n)
         /\ \A far : Refers(q, far) /\ op.remote \in far => Refers(d, far)
<1>1. /\ q.chain \in Seq(Operations) /\ Append(q.chain, op) \in Seq(Operations)
      /\ Append(q.chain, op)[Len(q.chain) + 1] = op
      /\ \A k \in 1 .. Len(q.chain) : Append(q.chain, op)[k] = q.chain[k]
      /\ \A k \in 1 .. Len(Append(q.chain, op)) : k \in 1 .. Len(q.chain) \/ k = Len(q.chain) + 1
  BY DEF Connections
<1>. DEFINE ch == Append(q.chain, op)
<1>. HIDE DEF ch
<1>2. d = [q EXCEPT !.chain = ch]
  BY DEF ch
<1>3. /\ d \in Connections /\ d.chain = ch /\ d.sig = q.sig /\ d.peer = q.peer /\ d.polite = q.polite
      /\ d.sends = q.sends /\ d.remote = q.remote
  BY <1>1, <1>2 DEF ch, Connections
<1>4. OffersFor(q, n) => OffersFor(d, n)
  BY <1>1, <1>3 DEF OffersFor, ch
<1>5. ASSUME NEW far, Refers(q, far), op.remote \in far PROVE Refers(d, far)
  BY <1>1, <1>3, <1>5 DEF Refers, ch
<1>. QED
  BY <1>3, <1>4, <1>5 DEF Stays

LEMMA HeedsIs ==
  ASSUME NEW g \in Pages, Kept(g), NEW n \in 1 .. Len(g.pc), g.pc[n].sig # "closed",
         NEW m \in Signals, NEW h, Heeds(g, n, m, h)
  PROVE  /\ h \in Pages /\ Kept(h) /\ h.pcs = g.pcs
         /\ \A i : Manners(g, i) => Manners(h, i)
         /\ \A i, j : j \in Ids /\ j # g.pc[n].peer => View(h, i, j) = View(g, i, j)
<1>. DEFINE q == g.pc[n]
            d == [q EXCEPT !.chain = Append(@, OpOf(m))]
<1>1. CASE h = g
  BY <1>1
<1>2. CASE h = Replaced(g, n, d)
  <2>1. q \in Connections /\ OpOf(m) \in Operations /\ OpOf(m).op \in Heard /\ OpOf(m).op \notin Own
    BY OpOfType DEF Pages
  <2>2. Stays(q, d, n)
    <3>. DEFINE e == d
    <3>1. e = [q EXCEPT !.chain = Append(@, OpOf(m))]
      OBVIOUS
    <3>. HIDE DEF e
    <3>2. Stays(q, e, n)
      BY <2>1, <3>1, Queued
    <3>. QED
      BY <3>2 DEF e
  <2>. HIDE DEF d
  <2>3. Becomes(g, n, d, h)
    BY <1>2, <2>2, PageActs
  <2>. QED
    BY <2>3 DEF Becomes
<1>. QED
  BY <1>1, <1>2 DEF Heeds

LEMMA HeedingIsLinked ==
  ASSUME NEW q \in Connections, NEW w \in Connections, NEW u \in Seq(Signals), NEW v \in Seq(Signals),
         NEW first \in BOOLEAN, Linked(q, w, u, v, first), v # <<>>, q.polite = first,
         NEW r, r = Tail(v),
         NEW d, d = IF v[1].type = "offer" /\ IgnoresOffer(q) THEN q
                    ELSE [q EXCEPT !.chain = Append(@, OpOf(v[1]))]
  PROVE  Linked(d, w, u, r, first)
<1>. DEFINE op == OpOf(v[1])
<1>1. v[1] \in Signals
  BY AfterHead
<1>2. /\ op \in Operations /\ op.sends = v[1].sends
      /\ v[1].type = "offer" => op.op = "setRemoteOffer"
      /\ v[1].type = "answer" => op.op = "setRemoteAnswer"
      /\ v[1].type \in {"offer", "answer"}
  BY <1>1, OpOfType
<1>. HIDE DEF op
<1>3. CASE v[1].type = "offer" /\ IgnoresOffer(q)
  <2>1. d = q
    BY <1>3
  <2>. QED
    BY <1>3, <2>1, IgnoresTheOffer
<1>4. CASE v[1].type = "offer" /\ ~IgnoresOffer(q)
  <2>. DEFINE e == [q EXCEPT !.chain = Append(@, op)]
  <2>1. d = e
    BY <1>4 DEF op
  <2>2. Linked(e, w, u, r, first)
    <3>1. op \in Operations /\ op.op = "setRemoteOffer" /\ op.sends = v[1].sends
      BY <1>2, <1>4
    <3>. QED
      BY <1>4, <3>1, GetsOffer
  <2>. QED
    BY <2>1, <2>2
<1>5. CASE v[1].type = "answer"
  <2>. DEFINE e == [q EXCEPT !.chain = Append(@, op)]
  <2>1. d = e
    BY <1>5 DEF op
  <2>2. Linked(e, w, u, r, first)
    <3>1. op \in Operations /\ op.op = "setRemoteAnswer" /\ op.sends = v[1].sends
      BY <1>2, <1>5
    <3>. QED
      BY <1>5, <3>1, GetsAnswer
  <2>. QED
    BY <2>1, <2>2
<1>. QED
  BY <1>2, <1>3, <1>4, <1>5

LEMMA SignalAgrees ==
  ASSUME IInv, NEW b \in Browsers, NEW c \in Browsers, AtTable(b, c), inbox[b] # <<>>,
         NEW m, m = inbox[b][1], IsFrom(m, id[c]),
         NEW n, n = page[b].pcs[id[c]], n # NoPc, NEW h, Heeds(page[b], n, m, h)
  PROVE  EndsAgree(b, h, Tail(inbox[b]), c)
<1>. DEFINE g == page[b]
            q == g.pc[n]
            i == id[b]
            j == id[c]
            s == inbox[b]
            t == Tail(inbox[b])
            w == View(page[c], j, i)
            d == View(h, i, j)
<1>1. /\ s \in Seq(Messages) /\ inbox[c] \in Seq(Messages) /\ i \in Ids /\ j \in Ids /\ i \in Nat /\ j \in Nat
      /\ g \in Pages /\ Kept(g) /\ page[c] \in Pages /\ Kept(page[c]) /\ Manners(g, i)
  BY IdsAre DEF IInv, PageInv, AtTable
<1>2. /\ n \in 1 .. Len(g.pc) /\ q.sig # "closed" /\ q.peer = j /\ q \in Connections /\ q.polite = (i < j)
      /\ w \in Connections
  <2>1. w \in Connections
    BY <1>1, ViewType
  <2>2. n \in 1 .. Len(g.pc) /\ q.sig # "closed" /\ q.peer = j
    BY <1>1 DEF Kept
  <2>3. q \in Connections
    BY <1>1, <2>2 DEF Pages
  <2>4. q.polite = (i < j)
    BY <1>1 DEF Manners
  <2>. QED
    BY <2>1, <2>2, <2>3, <2>4
<1>3. /\ \A k \in 1 .. Len(t) : k + 1 \in 1 .. Len(s) /\ t[k] = s[k + 1]
      /\ 1 \in 1 .. Len(s) /\ s[1] \in Messages
  BY <1>1, HeadTaken
<1>4. m \in Signals
  BY <1>3, ShapeOfMessages
<1>5. /\ Half(g, i, s, page[c], j, c) /\ Half(page[c], j, inbox[c], g, i, b)
      /\ Talk(g, i, s, page[c], j, inbox[c])
  BY DEF IInv, HalfInv, TalkInv, AtTable
<1>6. h \in Pages /\ h.pcs = g.pcs
  <2>1. Heeds(g, n, m, h)
    OBVIOUS
  <2>. HIDE DEF g
  <2>. QED
    BY <1>1, <1>2, <1>4, <2>1, HeedsIs
<1>7. View(g, i, j) = q /\ d = h.pc[n]
  BY <1>6 DEF View
<1>8. d = IF m.type = "offer" /\ IgnoresOffer(q) THEN q ELSE [q EXCEPT !.chain = Append(@, OpOf(m))]
  <2>. DEFINE x == [q EXCEPT !.chain = Append(@, OpOf(m))]
  <2>1. Replaced(g, n, x).pc[n] = x
    <3>1. g \in Pages /\ n \in 1 .. Len(g.pc)
      BY <1>1, <1>2
    <3>. HIDE DEF g, q, x
    <3>. QED
      BY <3>1, ReplacedAt
  <2>. QED
    BY <1>7, <2>1, Zenon DEF Heeds
<1>. HIDE DEF w, d, q
<1>9. Half(h, i, t, page[c], j, c)
  <2>. DEFINE far == Far(page[c], i, c)
  <2>1. Reaches(g, i, s, j, far)
    BY <1>5 DEF Half
  <2>2. Refers(q, far) /\ \A k \in 1 .. Len(s) : IsFrom(s[k], j) => s[k].pc \in far
    BY <1>7, <2>1 DEF Reaches
  <2>3. m.pc \in far
    BY <1>3, <2>2
  <2>. HIDE DEF far
  <2>4. Refers(d, far)
    <3>1. OpOf(m) \in Operations /\ OpOf(m).op \in Heard /\ OpOf(m).op \notin Own /\ OpOf(m).remote \in far
      BY <1>4, <2>3, OpOfType
    <3>2. q.sig # "closed"
      BY <1>2 DEF q
    <3>. QED
      BY <1>2, <1>8, <2>2, <3>1, <3>2, Queued
  <2>5. Reaches(h, i, t, j, far)
    BY <1>3, <2>2, <2>4 DEF Reaches, d
  <2>6. Expects(h, t, j)
    BY <1>6 DEF Expects
  <2>. QED
    BY <2>5, <2>6 DEF Half, far
<1>10. Half(page[c], j, inbox[c], h, i, b)
  BY <1>5, <1>6 DEF Half, Far
<1>11. Talk(h, i, t, page[c], j, inbox[c])
  <2>1. PICK u \in Seq(Signals), v \in Seq(Signals) :
          Carries(inbox[c], i, u) /\ Carries(s, j, v) /\ Linked(q, w, u, v, i < j)
    BY <1>5, <1>7 DEF Talk, w
  <2>2. v # <<>> /\ v[1] = m /\ Carries(t, j, Tail(v))
    BY <1>1, <2>1, FirstIsTheirs
  <2>3. Tail(v) \in Seq(Signals)
    BY <2>2
  <2>4. (i < j) \in BOOLEAN /\ q.polite = (i < j)
    BY <1>2 DEF q
  <2>. DEFINE r == Tail(v)
              first == i < j
  <2>5. r = Tail(v) /\ r \in Seq(Signals)
    BY <2>3
  <2>. HIDE DEF r, first
  <2>6. Linked(d, w, u, r, first)
    BY <1>2, <1>8, <2>1, <2>2, <2>4, <2>5, HeedingIsLinked DEF first
  <2>. QED
    BY <2>1, <2>2, <2>5, <2>6 DEF Talk, first, d, w, r
<1>. QED
  BY <1>9, <1>10, <1>11 DEF EndsAgree

LEMMA SignalKeeps ==
  ASSUME IInv, UNCHANGED <<id, usedIds, participants>>, NEW b \in Browsers, inbox[b] # <<>>,
         NEW m \in Signals, m = inbox[b][1],
         page' = [page EXCEPT ![b] = OnSignal(page[b], id[b], m)],
         inbox' = [inbox EXCEPT ![b] = Tail(inbox[b])]
  PROVE  IInv'
<1>. DEFINE g == page[b]
            s == inbox[b]
            me == id[b]
            i == m.from
            g1 == IF g.pcs[i] = NoPc THEN CreatePeerConnection(g, me, i) ELSE g
            n == g1.pcs[i]
            h == OnSignal(g, me, m)
            T == IF g.pcs[i] = NoPc THEN {i} ELSE {}
<1>1. /\ s \in Seq(Messages) /\ Connected(b) /\ me \in Ids /\ me \in Nat /\ g \in Pages /\ Kept(g)
      /\ Fresh(g, s) /\ Manners(g, me) /\ Known(g, usedIds) /\ usedIds \in SUBSET Ids
      /\ Proper(s, usedIds, id) /\ 1 \in 1 .. Len(s)
  BY IdsAre DEF IInv, IdsInv, InboxInv, PageInv
<1>2. IsFrom(m, i) /\ i \in Ids /\ i \in usedIds
  BY <1>1 DEF IsFrom, Signals, Proper, Names
<1>3. Grows(g, g1, me, T) /\ T \in SUBSET Ids /\ T \subseteq usedIds /\ \A j \in T : g.pcs[j] = NoPc
  <2>1. Grows(g, g, me, {})
    BY <1>1 DEF Grows
  <2>2. CASE g.pcs[i] = NoPc
    <3>. DEFINE k == CreatePeerConnection(g, me, i)
    <3>1. k = CreatePeerConnection(g, me, i) /\ {i} = {} \cup {i}
      OBVIOUS
    <3>. HIDE DEF k
    <3>2. Grows(g, k, me, {i})
      BY <1>1, <1>2, <2>1, <2>2, <3>1, GrowsByOne, Zenon
    <3>. QED
      BY <1>2, <2>2, <3>1, <3>2
  <2>. QED
    BY <2>1, <2>2
<1>. HIDE DEF g1
<1>4. /\ g1 \in Pages /\ Kept(g1) /\ g1.pcs[i] # NoPc
      /\ \A j \in Ids : View(g1, me, j) = View(g, me, j) /\ (j # i => g1.pcs[j] = g.pcs[j])
  BY <1>2, <1>3, Zenon DEF Grows, g1
<1>5. Manners(g1, me) /\ Known(g1, usedIds)
  <2>. HIDE DEF T
  <2>. QED
    BY <1>1, <1>3, GrownPageIs
<1>6. n \in 1 .. Len(g1.pc) /\ g1.pc[n].sig # "closed" /\ g1.pc[n].peer = i
  BY <1>2, <1>4, Zenon DEF Kept
<1>7. Heeds(g1, n, m, h)
  BY Zenon DEF OnSignal, Heeds, OpOf, Queue, Replaced, g1
<1>. HIDE DEF h
<1>8. /\ h \in Pages /\ Kept(h) /\ h.pcs = g1.pcs /\ Manners(h, me)
      /\ \A j \in Ids : j # i => View(h, me, j) = View(g1, me, j)
  <2>. HIDE DEF n
  <2>. QED
    BY <1>4, <1>5, <1>6, <1>7, HeedsIs
<1>9. Known(h, usedIds)
  BY <1>5, <1>8 DEF Known
<1>10. Fresh(h, Tail(s))
  BY <1>1, <1>2, <1>4, <1>8, FreshTaken
<1>11. ASSUME NEW c \in Browsers, AtTable(b, c) PROVE EndsAgree(b, h, Tail(s), c)
  <2>1. id[c] \in Ids
    BY <1>11, IdsAre
  <2>2. CASE id[c] # i
    <3>1. SameFor(g, h, me, id[c])
      BY <1>4, <1>8, <2>1, <2>2 DEF SameFor
    <3>2. Passes(s, Tail(s), id[c])
      BY <2>2, ShapeOfMessages DEF Passes, IsFrom, Signals, Introduces
    <3>. QED
      BY <1>11, <3>1, <3>2, EndsUndisturbed
  <2>3. CASE id[c] = i
    <3>1. g.pcs[i] # NoPc
      <4>. SUFFICES ASSUME g.pcs[i] = NoPc PROVE FALSE
        OBVIOUS
      <4>1. Expects(g, s, i)
        BY <1>11, <2>3 DEF IInv, HalfInv, Half
      <4>2. PICK k \in 1 .. Len(s) : Introduces(s[k], i)
        BY <4>1 DEF Expects
      <4>3. 1 \in 1 .. k
        BY <1>1
      <4>4. ~IsFrom(s[1], i)
        BY <1>1, <1>2, <4>2, <4>3 DEF Fresh
      <4>. QED
        BY <1>2, <4>4
    <3>2. g1 = g /\ n = g.pcs[id[c]] /\ n # NoPc
      BY <2>3, <3>1 DEF g1
    <3>3. Heeds(g, n, m, h) /\ IsFrom(m, id[c])
      BY <1>2, <1>7, <2>3, <3>2
    <3>. HIDE DEF n
    <3>. QED
      BY <1>11, <3>2, <3>3, SignalAgrees
  <2>. QED
    BY <2>2, <2>3
<1>12. page' = [page EXCEPT ![b] = h]
  BY DEF h
<1>. QED
  BY <1>8, <1>9, <1>10, <1>11, <1>12, PageChanges

LEMMA ReceiveKeeps ==
  ASSUME IInv, NEW b \in Browsers, Receive(b)
  PROVE  IInv'
<1>. DEFINE g == page[b]
            s == inbox[b]
            m == s[1]
            me == id[b]
<1>1. /\ s \in Seq(Messages) /\ s # <<>> /\ Connected(b) /\ me \in Ids /\ me \in Nat /\ g \in Pages /\ Kept(g)
      /\ Fresh(g, s) /\ Manners(g, me) /\ Known(g, usedIds) /\ usedIds \in SUBSET Ids
      /\ Proper(s, usedIds, id) /\ 1 \in 1 .. Len(s) /\ Head(s) = m /\ m \in Messages
  <2>1. /\ s \in Seq(Messages) /\ s # <<>> /\ Connected(b) /\ me \in Ids /\ me \in Nat /\ g \in Pages /\ Kept(g)
        /\ Fresh(g, s) /\ Manners(g, me) /\ Known(g, usedIds) /\ usedIds \in SUBSET Ids
        /\ Proper(s, usedIds, id)
    BY IdsAre DEF Receive, IInv, IdsInv, InboxInv, PageInv
  <2>2. 1 \in 1 .. Len(s) /\ Head(s) = m /\ m \in Messages
    BY <2>1
  <2>. QED
    BY <2>1, <2>2
<1>2. Names(m, usedIds) /\ (m.type = "left" => \A c \in Browsers : id[c] # m.from)
  BY <1>1 DEF Proper
<1>3. inbox' = [inbox EXCEPT ![b] = Tail(s)] /\ UNCHANGED <<id, usedIds, participants>>
  BY DEF Receive
<1>4. page' = [page EXCEPT ![b] =
        CASE m.type = "peers"  -> Introduced(g, me, m.ids)
          [] m.type = "joined" -> CreatePeerConnection(g, me, m.from)
          [] m.type = "left"   -> ClosePeer(g, m.from)
          [] OTHER             -> OnSignal(g, me, m)]
  BY <1>1 DEF Receive, Sets, Introduced
<1>5. CASE m.type = "peers"
  <2>. DEFINE h == Introduced(g, me, m.ids)
              S == m.ids
  <2>1. page' = [page EXCEPT ![b] = h]
    BY <1>4, <1>5
  <2>2. S \in SUBSET Ids /\ S \subseteq usedIds
    BY <1>1, <1>2, <1>5, ShapeOfMessages DEF Names
  <2>3. (\A j \in S : g.pcs[j] = NoPc) => Grows(g, h, me, S)
    BY <1>1, <2>2, GrowsByAll
  <2>4. \A j \in Ids : ~IsFrom(m, j) /\ (Introduces(m, j) <=> j \in S)
    BY <1>5 DEF IsFrom, Introduces
  <2>. HIDE DEF h, S
  <2>. QED
    BY <1>1, <1>3, <2>1, <2>2, <2>3, <2>4, IntroducingKeeps
<1>6. CASE m.type = "joined"
  <2>. DEFINE p == m.from
              h == CreatePeerConnection(g, me, p)
              S == {p}
  <2>1. page' = [page EXCEPT ![b] = h]
    BY <1>4, <1>6
  <2>2. p \in Ids /\ S \in SUBSET Ids /\ S \subseteq usedIds
    BY <1>1, <1>2, <1>6, ShapeOfMessages DEF Names
  <2>3. (\A j \in S : g.pcs[j] = NoPc) => Grows(g, h, me, S)
    <3>1. Grows(g, g, me, {})
      BY <1>1 DEF Grows
    <3>2. h = CreatePeerConnection(g, me, p) /\ S = {} \cup {p}
      OBVIOUS
    <3>3. p \in S
      OBVIOUS
    <3>. HIDE DEF h, S, p
    <3>. QED
      BY <1>1, <2>2, <3>1, <3>2, <3>3, GrowsByOne
  <2>4. \A j \in Ids : ~IsFrom(m, j) /\ (Introduces(m, j) <=> j \in S)
    BY <1>6 DEF IsFrom, Introduces
  <2>. HIDE DEF h, S
  <2>. QED
    BY <1>1, <1>3, <2>1, <2>2, <2>3, <2>4, IntroducingKeeps
<1>7. CASE m.type = "left"
  <2>. DEFINE p == m.from
              h == ClosePeer(g, p)
  <2>1. page' = [page EXCEPT ![b] = h]
    BY <1>4, <1>7
  <2>2. p \in Ids
    BY <1>1, <1>7, ShapeOfMessages
  <2>3. h = ClosePeer(g, p)
    OBVIOUS
  <2>. HIDE DEF h, p
  <2>4. Closes(g, p, h)
    BY <1>1, <2>2, <2>3, ClosingIs
  <2>5. /\ h \in Pages /\ Kept(h) /\ h.pcs = [g.pcs EXCEPT ![p] = NoPc] /\ Manners(h, me)
        /\ \A j \in Ids : j # p => SameFor(g, h, me, j)
    BY <1>1, <2>4 DEF Closes
  <2>6. \A j \in Ids : g.pcs[j] = NoPc => h.pcs[j] = NoPc
    BY <1>1, <2>5 DEF Pages
  <2>7. Known(h, usedIds) /\ Fresh(h, Tail(s))
    BY <1>1, <2>5, <2>6, FreshTaken DEF Known, Pages
  <2>8. ASSUME NEW c \in Browsers, AtTable(b, c) PROVE EndsAgree(b, h, Tail(s), c)
    <3>1. id[c] \in Ids /\ id[c] # p
      BY <1>2, <1>7, <2>8, IdsAre DEF p
    <3>2. SameFor(g, h, me, id[c])
      BY <2>5, <3>1
    <3>3. Passes(s, Tail(s), id[c])
      BY <1>1, <1>7 DEF Passes, IsFrom, Introduces
    <3>. QED
      BY <2>8, <3>2, <3>3, EndsUndisturbed
  <2>. QED
    BY <1>1, <1>3, <2>1, <2>5, <2>7, <2>8, PageChanges
<1>8. CASE m.type \notin {"peers", "joined", "left"}
  <2>1. page' = [page EXCEPT ![b] = OnSignal(g, me, m)]
    BY <1>4, <1>8
  <2>2. m \in Signals
    BY <1>1, <1>8 DEF Messages
  <2>. DEFINE x == m
  <2>3. x \in Signals /\ x = s[1] /\ page' = [page EXCEPT ![b] = OnSignal(g, me, x)]
    BY <2>1, <2>2
  <2>. HIDE DEF x
  <2>. QED
    BY <1>1, <1>3, <2>3, SignalKeeps
<1>. QED
  BY <1>5, <1>6, <1>7, <1>8

-----------------------------------------------------------------------------
(* The invariant holds.                                                    *)

LEMMA IInvInit ==
  ASSUME Init
  PROVE  IInv
<1>1. NewPage.pc = <<>> /\ NewPage.pcs = [p \in Ids |-> NoPc] /\ NewPage \in Pages
  <2>1. <<>> \in Seq(Connections) /\ [p \in Ids |-> NoPc] \in [Ids -> Nat]
    BY DEF NoPc
  <2>2. NewPage.pc = <<>> /\ NewPage.pcs = [p \in Ids |-> NoPc]
    BY DEF NewPage
  <2>. DEFINE no == FALSE
              e == [p \in Ids |-> NoPc]
  <2>3. NewPage = [inCall |-> no, pc |-> <<>>, pcs |-> e] /\ no \in BOOLEAN
    BY DEF NewPage
  <2>. HIDE DEF no, e
  <2>4. NewPage \in Pages
    BY <2>1, <2>3 DEF Pages, e
  <2>. QED
    BY <2>2, <2>4
<1>2. \A b \in Browsers : page[b] = NewPage /\ inbox[b] = <<>> /\ id[b] = Offline /\ ~Connected(b)
  BY DEF Init, Connected
<1>3. TypeInv
  <2>1. <<>> \in Seq(Messages)
    OBVIOUS
  <2>. QED
    BY <1>1, <2>1 DEF Init, TypeInv
<1>4. IdsInv /\ HalfInv /\ TalkInv
  BY <1>2 DEF IdsInv, HalfInv, TalkInv, AtTable
<1>5. PageInv
  <2>1. Kept(NewPage) /\ Known(NewPage, usedIds)
    BY <1>1 DEF Kept, Known
  <2>. QED
    BY <1>2, <2>1 DEF PageInv
<1>6. InboxInv
  BY <1>2 DEF InboxInv, Fresh, Proper
<1>. QED
  BY <1>3, <1>4, <1>5, <1>6 DEF IInv

LEMMA IInvNext ==
  ASSUME ComesBack = FALSE, IInv, [Next]_vars
  PROVE  IInv'
<1>1. ASSUME NEW b \in Browsers, Connect(b) PROVE IInv'
  BY <1>1, ConnectKeeps
<1>2. ASSUME NEW b \in Browsers, LoseSocket(b) PROVE IInv'
  BY <1>2, LoseSocketKeeps
<1>3. ASSUME NEW b \in Browsers, LeavePage(b) PROVE IInv'
  BY <1>3, LeavePageKeeps
<1>4. ASSUME NEW b \in Browsers, JoinCall(b) PROVE IInv'
  <2>1. /\ UNCHANGED <<id, usedIds, participants, inbox>>
        /\ page' = [page EXCEPT ![b] = SetSending(page[b], TRUE)]
    BY <1>4 DEF JoinCall, Sets
  <2>. QED
    BY <2>1, TogglingKeeps
<1>5. ASSUME NEW b \in Browsers, LeaveCall(b) PROVE IInv'
  <2>1. /\ UNCHANGED <<id, usedIds, participants, inbox>>
        /\ page' = [page EXCEPT ![b] = SetSending(page[b], FALSE)]
    BY <1>5 DEF LeaveCall, Sets
  <2>. QED
    BY <2>1, TogglingKeeps
<1>6. ASSUME NEW b \in Browsers, Receive(b) PROVE IInv'
  BY <1>6, ReceiveKeeps
<1>7. ASSUME NEW b \in Browsers, NEW n \in Pcs(b), OnNegotiationNeeded(b, n) PROVE IInv'
  BY <1>7, OnNegotiationNeededKeeps
<1>8. ASSUME NEW b \in Browsers, NEW n \in Pcs(b), Operate(b, n) PROVE IInv'
  <2>1. CASE CreateOffer(b, n)
    BY <2>1, CreateOfferKeeps
  <2>2. CASE SetLocalOffer(b, n)
    BY <2>2, SetLocalOfferKeeps
  <2>3. CASE SetRemoteOffer(b, n)
    BY <2>3, SetRemoteOfferKeeps
  <2>4. CASE CreateAnswer(b, n)
    BY <2>4, CreateAnswerKeeps
  <2>5. CASE SetLocalAnswer(b, n)
    BY <2>5, SetLocalAnswerKeeps
  <2>6. CASE SetRemoteAnswer(b, n)
    BY <2>6, SetRemoteAnswerKeeps
  <2>. QED
    BY <1>8, <2>1, <2>2, <2>3, <2>4, <2>5, <2>6 DEF Operate
<1>9. ASSUME NEW b \in Browsers, NEW n \in Pcs(b), ConnectionFails(b, n) PROVE IInv'
  BY <1>9, ConnectionFailsKeeps
<1>10. ASSUME NEW i \in Ids, ServerNotices(i) PROVE IInv'
  BY <1>10, ServerNoticesKeeps
<1>11. CASE UNCHANGED vars
  <2>. USE <1>11 DEF vars
  <2>1. TypeInv'
    BY DEF IInv, TypeInv
  <2>2. IdsInv'
    BY DEF IInv, IdsInv, AtTable, Connected
  <2>3. PageInv'
    BY DEF IInv, PageInv, Connected
  <2>4. InboxInv'
    BY DEF IInv, InboxInv
  <2>5. HalfInv'
    BY DEF IInv, HalfInv, AtTable, Connected
  <2>6. TalkInv'
    BY DEF IInv, TalkInv, AtTable, Connected
  <2>. QED
    BY <2>1, <2>2, <2>3, <2>4, <2>5, <2>6 DEF IInv
<1>. QED
  BY <1>1, <1>2, <1>3, <1>4, <1>5, <1>6, <1>7, <1>8, <1>9, <1>10, <1>11 DEF Next, ByItself

-----------------------------------------------------------------------------
(* What it says once nothing is under way.                                 *)

LEMMA NothingCarried ==
  ASSUME NEW i, NEW u \in Seq(Signals), Carries(<<>>, i, u)
  PROVE  u = <<>>
<1>1. PICK e \in [1 .. Len(u) -> 1 .. Len(<<>>)] : TRUE
  BY DEF Carries
<1>2. Len(<<>>) = 0 /\ Len(u) \in Nat
  OBVIOUS
<1>3. 1 .. Len(u) = {}
  BY <1>1, <1>2
<1>4. Len(u) = 0
  BY <1>2, <1>3
<1>. QED
  BY <1>4

\* A connection somebody at the table has, nothing being under way.
LEMMA RestsAt ==
  ASSUME IInv, Settled, NEW b \in Browsers, NEW c \in Browsers, AtTable(b, c), Has(b, c),
         NEW q, q = PcTo(b, c)
  PROVE  /\ q \in Connections /\ q = View(page[b], id[b], id[c]) /\ q.chain = <<>> /\ ~Asks(q)
         /\ q.sends = page[b].inCall /\ q.remote \in Far(page[c], id[b], c) \cup {NoRemote}
<1>. DEFINE n == page[b].pcs[id[c]]
<1>1. page[b] \in Pages /\ Kept(page[b]) /\ id[b] \in Ids /\ id[c] \in Ids
  BY IdsAre DEF IInv, PageInv
<1>2. n \in 1 .. Len(page[b].pc) /\ q = page[b].pc[n] /\ q.sig # "closed" /\ q.sends = page[b].inCall
  BY <1>1 DEF Has, PcTo, Kept
<1>3. q \in Connections /\ n \in Pcs(b)
  BY <1>1, <1>2 DEF Pages, Pcs
<1>4. q.chain = <<>> /\ ~Asks(q)
  BY <1>2, <1>3 DEF Settled, AtRest
<1>5. q = View(page[b], id[b], id[c])
  BY <1>2 DEF View, Has
<1>6. Half(page[b], id[b], inbox[b], page[c], id[c], c)
  BY DEF IInv, HalfInv
<1>7. q.remote = NoRemote \/ q.remote \in Far(page[c], id[b], c)
  BY <1>5, <1>6 DEF Half, Reaches, Refers
<1>. QED
  BY <1>2, <1>3, <1>4, <1>5, <1>7

LEMMA AgreedOnce ==
  ASSUME IInv
  PROVE  StableMeansAgreed
<1>. SUFFICES ASSUME Settled, NEW b \in Browsers, NEW c \in Browsers, AtTable(b, c), Has(b, c), Has(c, b),
                     PcTo(b, c).sig = "stable", PcTo(c, b).sig = "stable"
              PROVE  /\ PcTo(b, c).hears = page[c].inCall
                     /\ PcTo(b, c).remote \in {NoRemote, <<c, page[c].pcs[id[b]]>>}
  BY DEF StableMeansAgreed
<1>. DEFINE p == PcTo(b, c)
            q == PcTo(c, b)
            i == id[b]
            j == id[c]
<1>1. AtTable(c, b) /\ (i < j) \in BOOLEAN
  BY DEF AtTable
<1>2. /\ p \in Connections /\ p = View(page[b], i, j) /\ p.chain = <<>>
      /\ p.remote \in Far(page[c], i, c) \cup {NoRemote}
  BY RestsAt
<1>3. /\ q \in Connections /\ q = View(page[c], j, i) /\ q.chain = <<>> /\ ~Asks(q)
      /\ q.sends = page[c].inCall
  BY <1>1, RestsAt
<1>4. inbox[b] = <<>> /\ inbox[c] = <<>> /\ Talk(page[b], i, inbox[b], page[c], j, inbox[c])
  BY DEF Settled, IInv, TalkInv
<1>5. PICK u \in Seq(Signals), v \in Seq(Signals) :
        Carries(<<>>, i, u) /\ Carries(<<>>, j, v) /\ Linked(p, q, u, v, i < j)
  BY <1>2, <1>3, <1>4 DEF Talk
<1>6. u = <<>> /\ v = <<>>
  BY <1>5, NothingCarried
<1>7. Linked(p, q, <<>>, <<>>, i < j)
  BY <1>5, <1>6
<1>. HIDE DEF p, q
<1>8. p.sig = "stable" /\ q.sig = "stable"
  BY DEF p, q
<1>9. p.hears = q.told /\ ~q.needed
  BY <1>1, <1>2, <1>3, <1>7, <1>8, AllIsSaid
<1>10. q.sends = q.told
  BY <1>3, <1>8, <1>9 DEF Asks
<1>11. p.hears = page[c].inCall
  BY <1>3, <1>9, <1>10
<1>12. Far(page[c], i, c) \subseteq {<<c, page[c].pcs[i]>>}
  BY DEF Far
<1>. QED
  BY <1>2, <1>11, <1>12 DEF p

\* Once nothing is under way, two connections that wait for nothing are the two
\* ends of one, and each knows whether the other is sending, in whatever order
\* offers cross, are ignored, taken back and answered (onSignal,
\* onnegotiationneeded, onPeerJoined, onPeers, onPeerLeft): for any number of pages,
\* calls joined and left, and departures, and pages whose lost socket does not
\* come back, without which it is not so.
THEOREM StableAgreement ==
  ASSUME ComesBack = FALSE
  PROVE  Spec => []StableMeansAgreed
<1>1. IInv /\ [Next]_vars => IInv'
  BY IInvNext
<1>. QED
  BY <1>1, IInvInit, AgreedOnce, PTL DEF Spec
=============================================================================
