----------------------- MODULE EpollServer_data_proofs -----------------------
(* Every step of EpollServer keeps the part of the inductive invariant that   *)
(* says which requests are read, executed and answered; the theorems.         *)
EXTENDS EpollServer_events_proofs

-----------------------------------------------------------------------------
(* The last request of a connection, and what the types say of the requests.  *)

LEMMA LatestStays ==
    ASSUME UNCHANGED executed
    PROVE  \A c : Latest(c)' = Latest(c)
BY DEF Latest, RequestServer!Latest, RequestServer!Ran

\* The same of any list of requests.
RanIn(s, c) == {i \in DOMAIN s : s[i][1] = c}
LatestIn(s, c) ==
    IF RanIn(s, c) = {} THEN 0 ELSE s[CHOOSE i \in RanIn(s, c) : \A j \in RanIn(s, c) : j <= i][2]

\* The greatest place of a connection is the one CHOOSE finds.
LEMMA LatestIs ==
    ASSUME NEW s \in Seq(Requests), NEW c, NEW i \in RanIn(s, c), \A j \in RanIn(s, c) : j <= i
    PROVE  LatestIn(s, c) = s[i][2]
<1>1. DOMAIN s = 1..Len(s) /\ Len(s) \in Nat
  BY SeqFacts
<1>2. RanIn(s, c) \subseteq 1..Len(s)
  BY <1>1 DEF RanIn
<1> DEFINE m == CHOOSE k \in RanIn(s, c) : \A j \in RanIn(s, c) : j <= k
<1>3. m \in RanIn(s, c) /\ \A j \in RanIn(s, c) : j <= m
  OBVIOUS
<1>4. m = i
  BY <1>1, <1>2, <1>3
<1>5. LatestIn(s, c) = s[m][2]
  BY DEF LatestIn
<1> QED
  BY <1>4, <1>5

LEMMA LatestInAppend ==
    ASSUME NEW s \in Seq(Requests), NEW r \in Requests, NEW c
    PROVE  LatestIn(Append(s, r), c) = IF c = r[1] THEN r[2] ELSE LatestIn(s, c)
<1> DEFINE n == Len(s)
           t == Append(s, r)
<1>1. /\ n \in Nat /\ DOMAIN s = 1..n /\ t \in Seq(Requests) /\ DOMAIN t = 1..(n + 1)
      /\ \A i \in 1..n : t[i] = s[i]
      /\ t[n + 1] = r
  <2>1. t \in Seq(Requests) /\ Len(t) = n + 1
    BY RangeAppend
  <2>2. DOMAIN t = 1..(n + 1)
    BY <2>1, SeqFacts
  <2> QED
    BY <2>1, <2>2, RangeAppend, SeqFacts
<1> HIDE DEF n, t
<1>2. RanIn(s, c) = {i \in 1..n : s[i][1] = c} /\ RanIn(t, c) = {i \in 1..(n + 1) : t[i][1] = c}
  BY <1>1 DEF RanIn
<1>3. LatestIn(t, c) = IF c = r[1] THEN r[2] ELSE LatestIn(s, c)
  <2>1. CASE c = r[1]
    <3>1. n + 1 \in RanIn(t, c) /\ \A j \in RanIn(t, c) : j <= n + 1
      BY <1>1, <1>2, <2>1
    <3> QED
      BY <1>1, <2>1, <3>1, LatestIs
  <2>2. CASE c # r[1]
    <3>1. RanIn(t, c) = RanIn(s, c)
      BY <1>1, <1>2, <2>2
    <3>2. CASE RanIn(s, c) = {}
      BY <2>2, <3>1, <3>2 DEF LatestIn
    <3>3. CASE RanIn(s, c) # {}
      <4>1. PICK i \in RanIn(s, c) : \A j \in RanIn(s, c) : j <= i
        BY <1>1, <1>2, <3>3, GreatestIsIn
      <4>2. LatestIn(s, c) = s[i][2] /\ LatestIn(t, c) = t[i][2]
        BY <1>1, <3>1, <4>1, LatestIs
      <4> QED
        BY <1>1, <1>2, <2>2, <4>1, <4>2
    <3> QED
      BY <3>2, <3>3
  <2> QED
    BY <2>1, <2>2
<1> QED
  BY <1>3 DEF t

LEMMA LatestGrows ==
    ASSUME PlaceTypes, NEW r \in Requests, executed' = Append(executed, r)
    PROVE  \A c : Latest(c)' = IF c = r[1] THEN r[2] ELSE Latest(c)
<1>1. executed \in Seq(Requests)
  BY DEF PlaceTypes
<1>2. \A c : Latest(c) = LatestIn(executed, c) /\ Latest(c)' = LatestIn(executed', c)
  BY DEF Latest, RequestServer!Latest, RequestServer!Ran, LatestIn, RanIn
<1> QED
  BY <1>1, <1>2, LatestInAppend

\* What the types say of a connection's numbers, of a descriptor's text and of the
\* request that an event serves.
LEMMA Numbers ==
    ASSUME TypeInv
    PROVE  /\ \A c \in Conns : /\ Latest(c) \in Nat /\ sent[c] \in Nat /\ Len(wire[c]) \in Nat
                               /\ Len(inbox[c]) \in Nat /\ inbox[c] \in Seq(Requests) /\ wire[c] \in Seq(Requests)
                               /\ (inbox[c] = <<>> <=> Len(inbox[c]) = 0) /\ c # None
           /\ \A g \in FDs : Text(g) \in Seq(Requests) /\ Len(Text(g)) \in Nat
           /\ \A g \in FDs : eventMapper[g] # None => eventMapper[g] \in EventIds /\ ev[eventMapper[g]].fd = g
           /\ \A g \in FDs : sock[g] # None => sock[g] \in Conns /\ phase[sock[g]] = "open"
           /\ None \notin Conns /\ None \notin EventIds
<1>1. /\ ClientTypes /\ PlaceTypes /\ EventTypes /\ MaxReq \in Nat /\ None \notin Conns /\ None \notin EventIds
      /\ \A S : \A s \in Seq(S) : Len(s) \in Nat /\ (s = <<>> <=> Len(s) = 0)
  BY SeqFacts, ServerAssumption DEF TypeInv, ServerAssumption
<1>2. ASSUME NEW c \in Conns
      PROVE  /\ Latest(c) \in Nat /\ sent[c] \in Nat /\ Len(wire[c]) \in Nat
             /\ Len(inbox[c]) \in Nat /\ inbox[c] \in Seq(Requests) /\ wire[c] \in Seq(Requests)
             /\ (inbox[c] = <<>> <=> Len(inbox[c]) = 0) /\ c # None
  <2>1. sent[c] \in 0..MaxReq /\ inbox[c] \in Seq(Requests) /\ wire[c] \in Seq(Requests)
    BY <1>1 DEF ClientTypes
  <2> QED
    BY <1>1, <2>1, LatestFacts
<1>3. \A g \in FDs : eventMapper[g] # None => eventMapper[g] \in EventIds /\ ev[eventMapper[g]].fd = g
  BY <1>1 DEF PlaceTypes, EventTypes
<1>4. ASSUME NEW g \in FDs PROVE Text(g) \in Seq(Requests)
  <2>1. eventMapper[g] # None => ev[eventMapper[g]].buf \in Seq(Requests)
    BY <1>1, <1>3, EventFacts
  <2> QED
    BY <2>1, Emptied DEF Text
<1>5. \A g \in FDs : sock[g] # None => sock[g] \in Conns /\ phase[sock[g]] = "open"
  BY <1>1 DEF ClientTypes
<1> QED
  BY <1>1, <1>2, <1>3, <1>4, <1>5

\* The event that serves a request is in hand, and its client's descriptor is its own.
LEMMA RequestServed ==
    ASSUME IInv, NEW e \in EventIds, Serves(e)
    PROVE  /\ e \in Hands /\ ev[e].fd \in FDs /\ Owner(e) \in Conns /\ Number(e) \in Nat
           /\ ev[e].cur \in Requests /\ ev[e].cur = <<Owner(e), Number(e)>>
           /\ sock[ev[e].fd] # None => eventMapper[ev[e].fd] = e /\ sock[ev[e].fd] = Owner(e)
           /\ \A g \in FDs : sock[g] = Owner(e) => g = ev[e].fd /\ eventMapper[g] = e
<1>1. ClientTypes /\ PlaceTypes /\ EventTypes /\ StageOf /\ HeldMapped /\ OwnDescriptor /\ MaxReq \in Nat
  BY ServerAssumption DEF IInv, TypeInv, Places, Edges, Data, ServerAssumption
<1>2. ev[e].stage \in {2, 3, 4, 5}
  BY DEF Serves, Taken, Owes
<1>3. e \in Hands
  BY <1>1, <1>2 DEF StageOf
<1>4. ev[e].fd \in FDs
  BY <1>1, <1>3 DEF EventTypes
<1>5. ev[e].cur \in Requests
  BY <1>1, <1>2, EventFacts
<1>6. Owner(e) \in Conns /\ Number(e) \in Nat /\ ev[e].cur = <<Owner(e), Number(e)>>
  BY <1>1, <1>5 DEF Owner, Number, Requests
<1>7. sock[ev[e].fd] # None => eventMapper[ev[e].fd] = e /\ sock[ev[e].fd] = Owner(e)
  BY <1>1, <1>3 DEF HeldMapped, OwnDescriptor
<1>8. ASSUME NEW g \in FDs, sock[g] = Owner(e) PROVE g = ev[e].fd /\ eventMapper[g] = e
  <2>1. Owner(e) # None
    BY <1>6, ServerAssumption DEF ServerAssumption
  <2>2. phase[Owner(e)] = "open"
    BY <1>1, <1>8, <2>1 DEF ClientTypes
  <2>3. sock[ev[e].fd] = Owner(e)
    BY <1>1, <2>2 DEF OwnDescriptor
  <2>4. g = ev[e].fd
    BY <1>1, <1>4, <1>8, <2>1, <2>3 DEF ClientTypes
  <2> QED
    BY <1>7, <2>1, <2>3, <2>4
<1> QED
  BY <1>3, <1>4, <1>5, <1>6, <1>7, <1>8

-----------------------------------------------------------------------------
(* Steps that read, execute and answer nothing.                               *)

LEMMA SameData ==
    ASSUME IInv, UNCHANGED <<sent, phase, inbox, wire, sock, executed, eventMapper>>,
           \A c \in Conns : peer'[c] = peer[c] \/ (peer[c] = "fin" /\ peer'[c] = "gone" /\ ~MultiThreaded),
           \A e \in EventIds : /\ ev'[e].fd = ev[e].fd /\ ev'[e].buf = ev[e].buf /\ ev'[e].cur = ev[e].cur
                               /\ ev[e].stage = 6 => ev'[e].stage = 6
                               /\ Taken(e)' <=> Taken(e)
                               /\ Owes(e)' => Owes(e)
                               /\ Owes(e) /\ sock[ev[e].fd] # None /\ peer[sock[ev[e].fd]] = "up" => Owes(e)',
           DiesOfLeaversOnly'
    PROVE  Data'
<1>1. /\ TypeInv /\ Data
      /\ \A c : Latest(c)' = Latest(c)
      /\ \A g \in FDs : eventMapper[g] # None => eventMapper[g] \in EventIds /\ ev[eventMapper[g]].fd = g
      /\ \A g \in FDs : sock[g] # None => sock[g] \in Conns
  BY Numbers, LatestStays DEF IInv
<1>2. \A c \in Conns : /\ peer'[c] = "up" <=> peer[c] = "up"
                       /\ peer'[c] = "rst" <=> peer[c] = "rst"
                       /\ peer'[c] \in AfterFin <=> peer[c] \in AfterFin
  BY DEF AfterFin
<1>3. \A e \in EventIds : /\ Owner(e)' = Owner(e) /\ Number(e)' = Number(e)
                          /\ Serves(e)' => Serves(e)
                          /\ Poisoned(ev[e].buf)' <=> Poisoned(ev[e].buf)
  BY DEF Owner, Number, Serves, Poisoned, Malformed
<1>4. \A g \in FDs : Text(g)' = Text(g) /\ Unread(g)' = Unread(g)
  <2>1. \A g \in FDs : Text(g)' = Text(g)
    BY <1>1 DEF Text, Poisoned, Malformed
  <2> QED
    BY <2>1 DEF Unread
<1>5. Counts' /\ InboxLast' /\ Waiting'
  <2>1. Counts'
    BY <1>1 DEF Data, Counts
  <2>2. InboxLast'
    BY <1>1 DEF Data, InboxLast
  <2>3. Waiting'
    BY <1>1, <1>2 DEF Data, Waiting
  <2> QED
    BY <2>1, <2>2, <2>3
<1>6. TakenNext'
  <2> SUFFICES ASSUME NEW e \in EventIds, Taken(e)'
               PROVE  /\ Owner(e)' \in Conns /\ phase'[Owner(e)'] \in {"open", "dropped"}
                      /\ Number(e)' = Latest(Owner(e))' + 1 \/ (Number(e)' = Latest(Owner(e))' /\ peer'[Owner(e)'] \in AfterFin)
                      /\ Len(wire'[Owner(e)']) < Number(e)' /\ Number(e)' <= sent'[Owner(e)']
    BY DEF TakenNext
  <2>1. Taken(e)
    OBVIOUS
  <2>2. Latest(Owner(e))' = Latest(Owner(e))
    <3>1. Owner(e)' = Owner(e)
      BY <1>3
    <3> QED
      BY <3>1 DEF Latest, RequestServer!Latest, RequestServer!Ran
  <2> QED
    BY <1>1, <1>2, <1>3, <2>1, <2>2 DEF Data, TakenNext
<1>7. OwedLatest'
  <2> SUFFICES ASSUME NEW e \in EventIds, Owes(e)'
               PROVE  /\ Owner(e)' \in Conns /\ phase'[Owner(e)'] \in {"open", "dropped"}
                      /\ Number(e)' = Latest(Owner(e))' /\ Len(wire'[Owner(e)']) < Number(e)'
    BY DEF OwedLatest
  <2>1. Latest(Owner(e))' = Latest(Owner(e))
    <3>1. Owner(e)' = Owner(e)
      BY <1>3
    <3> QED
      BY <3>1 DEF Latest, RequestServer!Latest, RequestServer!Ran
  <2> QED
    BY <1>1, <1>3, <2>1 DEF Data, OwedLatest
<1>8. OwnDescriptor' /\ OneServes'
  BY <1>1, <1>3 DEF Data, OwnDescriptor, OneServes
<1>9. UpAnswered'
  <2> SUFFICES ASSUME NEW g \in FDs, sock'[g] # None, peer'[sock'[g]] = "up"
               PROVE  Latest(sock[g])' = Len(wire'[sock'[g]])
                                         + IF eventMapper'[g] # None /\ Owes(eventMapper[g])' THEN 1 ELSE 0
    BY DEF UpAnswered
  <2>1. sock'[g] = sock[g] /\ sock[g] \in Conns /\ peer[sock[g]] = "up"
    BY <1>1, <1>2
  <2>2. Latest(sock[g])' = Latest(sock[g])
    BY <1>1, <2>1 DEF Latest, RequestServer!Latest, RequestServer!Ran
  <2>3. eventMapper[g] # None => (Owes(eventMapper[g])' <=> Owes(eventMapper[g]))
    <3> SUFFICES ASSUME eventMapper[g] # None PROVE Owes(eventMapper[g])' <=> Owes(eventMapper[g])
      OBVIOUS
    <3> PICK e \in EventIds : e = eventMapper[g] /\ ev[e].fd = g
      BY <1>1
    <3>1. Owes(e)' <=> Owes(e)
      BY <2>1
    <3>2. eventMapper' = eventMapper
      OBVIOUS
    <3> QED
      BY <3>1, <3>2 DEF Owes, Pending
  <2> QED
    BY <1>1, <2>1, <2>2, <2>3 DEF Data, UpAnswered
<1>10. TextLast'
  <2> SUFFICES ASSUME NEW g \in FDs, sock'[g] # None, peer'[sock'[g]] # "rst"
               PROVE  /\ \A i \in 1..Len(Text(g)') : Text(g)'[i] = <<sock'[g], sent'[sock'[g]] - Unread(g)' + i>>
                      /\ eventMapper'[g] # None /\ Taken(eventMapper[g])' =>
                            \/ Unread(g)' = sent'[sock'[g]] - Number(eventMapper[g])'
                            \/ /\ peer'[sock'[g]] \in AfterFin
                               /\ Unread(g)' = sent'[sock'[g]] - Number(eventMapper[g])' + 1
                      /\ ~(eventMapper'[g] # None /\ Taken(eventMapper[g])') =>
                            \/ Unread(g)' = sent'[sock'[g]] - Latest(sock[g])'
                            \/ /\ peer'[sock'[g]] \in AfterFin /\ Len(wire'[sock'[g]]) < Latest(sock[g])'
                               /\ Unread(g)' = sent'[sock'[g]] - Latest(sock[g])' + 1
    BY DEF TextLast
  <2>1. sock'[g] = sock[g] /\ sock[g] \in Conns /\ peer[sock[g]] # "rst" /\ UNCHANGED <<sent, wire, eventMapper>>
    BY <1>1, <1>2
  <2>2. Latest(sock[g])' = Latest(sock[g])
    BY <1>1, <2>1 DEF Latest, RequestServer!Latest, RequestServer!Ran
  <2>3. eventMapper[g] # None => /\ Taken(eventMapper[g])' <=> Taken(eventMapper[g])
                                 /\ Number(eventMapper[g])' = Number(eventMapper[g])
    <3> SUFFICES ASSUME eventMapper[g] # None
                 PROVE  /\ Taken(eventMapper[g])' <=> Taken(eventMapper[g])
                        /\ Number(eventMapper[g])' = Number(eventMapper[g])
      OBVIOUS
    <3> PICK e \in EventIds : e = eventMapper[g]
      BY <1>1
    <3>1. (Taken(e)' <=> Taken(e)) /\ Number(e)' = Number(e)
      BY <1>3
    <3> QED
      BY <2>1, <3>1 DEF Taken, Number
  <2>4. Text(g)' = Text(g) /\ Unread(g)' = Unread(g) /\ (peer'[sock[g]] \in AfterFin <=> peer[sock[g]] \in AfterFin)
    BY <1>2, <1>4, <2>1
  <2>5. TextLast
    BY <1>1 DEF Data
  <2> QED
    BY <2>1, <2>2, <2>3, <2>4, <2>5 DEF TextLast
<1>11. ClosedFinished' /\ PoisonedDropped' /\ NothingBehind'
  <2>1. ClosedFinished'
    BY <1>1 DEF Data, ClosedFinished, Malformed
  <2>2. PoisonedDropped'
    BY <1>1, <1>3 DEF Data, PoisonedDropped, Poisoned
  <2>3. NothingBehind'
    <3> SUFFICES ASSUME Window = 1, NEW e \in EventIds, ev[e].buf # <<>>, ~Malformed(Head(ev[e].buf))
                 PROVE  peer'[Head(ev[e].buf)[1]] \in AfterFin
      BY DEF NothingBehind, Malformed
    <3>1. peer[Head(ev[e].buf)[1]] \in AfterFin
      BY <1>1 DEF Data, NothingBehind
    <3>2. Head(ev[e].buf)[1] \in Conns
      <4>1. ev[e].buf \in Seq(Requests)
        BY <1>1, EventFacts DEF TypeInv
      <4>2. Head(ev[e].buf) \in Requests
        BY <4>1
      <4> QED
        BY <4>2 DEF Requests
    <3> QED
      BY <1>2, <3>1, <3>2
  <2> QED
    BY <2>1, <2>2, <2>3
<1>12. OpenHasDescriptor' /\ Patience' /\ KeptUnlessPoisoned'
  <2>1. OpenHasDescriptor'
    BY <1>1 DEF Data, OpenHasDescriptor
  <2>2. Patience'
    BY <1>1 DEF Data, Patience, MultiThreaded
  <2>3. KeptUnlessPoisoned'
    BY <1>1, <1>2, ServerAssumption DEF Data, KeptUnlessPoisoned, GoodClientsKept, ServerAssumption
  <2> QED
    BY <2>1, <2>2, <2>3
<1> QED
  BY <1>5, <1>6, <1>7, <1>8, <1>9, <1>10, <1>11, <1>12 DEF Data

-----------------------------------------------------------------------------
(* The clients' steps.                                                        *)

LEMMA SameGap ==
    \A a, i, j, s, t \in Nat : t - j = s - i => a + j = a + i + t - s
OBVIOUS

\* One connection changes at its client's end.
LEMMA ConnectionData ==
    ASSUME IInv, NEW c \in Conns, UNCHANGED <<wire, sock, loop, ev, worker, executed>>,
           \A d \in Conns \ {c} :
               sent'[d] = sent[d] /\ peer'[d] = peer[d] /\ inbox'[d] = inbox[d] /\ phase'[d] = phase[d],
           phase'[c] = phase[c] \/ (phase[c] = "new" /\ phase'[c] = "backlog"),
           sent'[c] \in Nat, sent[c] <= sent'[c], sent'[c] <= Len(wire[c]) + Window, Len(inbox'[c]) \in Nat,
           \A i \in 1..Len(inbox'[c]) : inbox'[c][i] = <<c, sent'[c] - Len(inbox'[c]) + i>>,
           peer'[c] # "rst" => sent'[c] - Len(inbox'[c]) = sent[c] - Len(inbox[c]),
           peer[c] \in AfterFin => peer'[c] \in AfterFin,
           peer'[c] = "up" => peer[c] = "up", peer[c] = "rst" => peer'[c] = "rst",
           phase'[c] = "new" => sent'[c] = 0 /\ peer'[c] = "up",
           MultiThreaded => peer'[c] \in {"up", "fin", "rst"} /\ (peer'[c] = "fin" => Len(wire[c]) = sent'[c])
    PROVE  Data'
<1>1. /\ TypeInv /\ Data /\ UNCHANGED <<wire, sock, pc, eventMapper, ev, worker, executed>>
      /\ \A d : Latest(d)' = Latest(d)
      /\ \A g \in FDs : eventMapper[g] # None => eventMapper[g] \in EventIds /\ ev[eventMapper[g]].fd = g
      /\ \A g \in FDs : sock[g] # None => sock[g] \in Conns /\ phase[sock[g]] = "open"
      /\ \A d \in Conns : Latest(d) \in Nat /\ sent[d] \in Nat /\ Len(wire[d]) \in Nat /\ Len(inbox[d]) \in Nat
      /\ \A g \in FDs : Len(Text(g)) \in Nat
  BY Numbers, LatestStays DEF IInv, loop
<1>2. \A e : /\ Owner(e)' = Owner(e) /\ Number(e)' = Number(e) /\ Latest(Owner(e))' = Latest(Owner(e))
             /\ Taken(e)' <=> Taken(e)
             /\ Owes(e)' <=> Owes(e)
             /\ Serves(e)' <=> Serves(e)
  BY <1>1 DEF Owner, Number, Taken, Owes, Serves, Pending, Latest, RequestServer!Latest, RequestServer!Ran
<1>3. \A g \in FDs : /\ Text(g)' = Text(g)
                     /\ sock[g] # c => (sock[g] # None => Unread(g)' = Unread(g))
                     /\ sock[g] = c /\ peer'[c] # "rst" => Unread(g)' = Unread(g) + sent'[c] - sent[c]
  <2>1. \A g \in FDs : Text(g)' = Text(g)
    BY <1>1 DEF Text, Poisoned, Malformed
  <2>2. ASSUME NEW g \in FDs, sock[g] # None, sock[g] # c PROVE Unread(g)' = Unread(g)
    BY <1>1, <2>1, <2>2 DEF Unread
  <2>3. ASSUME NEW g \in FDs, sock[g] = c, peer'[c] # "rst" PROVE Unread(g)' = Unread(g) + sent'[c] - sent[c]
    <3>1. Unread(g) = Len(Text(g)) + Len(inbox[c]) /\ Unread(g)' = Len(Text(g)) + Len(inbox'[c])
      BY <1>1, <2>1, <2>3 DEF Unread
    <3>2. Len(Text(g)) \in Nat /\ Len(inbox[c]) \in Nat /\ sent[c] \in Nat
      BY <1>1
    <3>3. sent'[c] \in Nat /\ Len(inbox'[c]) \in Nat /\ sent'[c] - Len(inbox'[c]) = sent[c] - Len(inbox[c])
      BY <2>3
    <3> PICK a \in Nat, i \in Nat, j \in Nat, s \in Nat, t \in Nat :
               a = Len(Text(g)) /\ i = Len(inbox[c]) /\ j = Len(inbox'[c]) /\ s = sent[c] /\ t = sent'[c]
      BY <3>2, <3>3
    <3>4. t - j = s - i
      BY <3>3
    <3>5. a + j = a + i + t - s
      BY ONLY <3>4, SameGap
    <3> QED
      BY <3>1, <3>5
  <2> QED
    BY <2>1, <2>2, <2>3
<1>4. Counts' /\ InboxLast'
  <2>1. Counts'
    <3> SUFFICES ASSUME NEW d \in Conns
                 PROVE  Len(wire'[d]) <= Latest(d)' /\ Latest(d)' <= sent'[d] /\ sent'[d] <= Len(wire'[d]) + Window
      BY DEF Counts
    <3>1. Len(wire[d]) <= Latest(d) /\ Latest(d) <= sent[d] /\ sent[d] <= Len(wire[d]) + Window
      BY <1>1 DEF Data, Counts
    <3> QED
      BY <1>1, <3>1
  <2>2. InboxLast'
    <3> SUFFICES ASSUME NEW d \in Conns, NEW i \in 1..Len(inbox'[d])
                 PROVE  inbox'[d][i] = <<d, sent'[d] - Len(inbox'[d]) + i>>
      BY DEF InboxLast
    <3>1. CASE d = c
      BY <3>1
    <3>2. CASE d # c
      <4>1. inbox'[d] = inbox[d] /\ sent'[d] = sent[d]
        BY <3>2
      <4>2. i \in 1..Len(inbox[d])
        BY <4>1
      <4>3. inbox[d][i] = <<d, sent[d] - Len(inbox[d]) + i>>
        BY <1>1, <4>2 DEF Data, InboxLast
      <4> QED
        BY <4>1, <4>3
    <3> QED
      BY <3>1, <3>2
  <2> QED
    BY <2>1, <2>2
<1>5. Waiting'
  <2> SUFFICES ASSUME NEW d \in Conns, phase'[d] \in {"new", "backlog"}
               PROVE  /\ Latest(d)' = 0 /\ (peer'[d] # "rst" => Len(inbox'[d]) = sent'[d])
                      /\ phase'[d] = "new" => sent'[d] = 0 /\ peer'[d] = "up"
    BY DEF Waiting
  <2>1. phase[d] \in {"new", "backlog"} /\ (phase'[d] = "new" => phase[d] = "new")
    BY <1>1
  <2>2. /\ Latest(d) = 0 /\ (peer[d] # "rst" => Len(inbox[d]) = sent[d])
        /\ phase[d] = "new" => sent[d] = 0 /\ peer[d] = "up"
    BY <1>1, <2>1 DEF Data, Waiting
  <2>3. CASE d = c
    <3>1. peer'[c] # "rst" => Len(inbox'[c]) = sent'[c]
      <4> SUFFICES ASSUME peer'[c] # "rst" PROVE Len(inbox'[c]) = sent'[c]
        OBVIOUS
      <4>1. Len(inbox[c]) \in Nat /\ sent[c] \in Nat /\ Len(inbox[c]) = sent[c]
        BY <1>1, <2>2, <2>3
      <4>2. sent'[c] \in Nat /\ Len(inbox'[c]) \in Nat /\ sent'[c] - Len(inbox'[c]) = sent[c] - Len(inbox[c])
        OBVIOUS
      <4> QED
        BY <4>1, <4>2
    <3> QED
      BY <1>1, <2>2, <2>3, <3>1
  <2>4. CASE d # c
    BY <1>1, <2>1, <2>2, <2>4
  <2> QED
    BY <2>3, <2>4
<1>6. TakenNext'
  <2> SUFFICES ASSUME NEW e \in EventIds, Taken(e)'
               PROVE  /\ Owner(e)' \in Conns /\ phase'[Owner(e)'] \in {"open", "dropped"}
                      /\ Number(e)' = Latest(Owner(e))' + 1 \/ (Number(e)' = Latest(Owner(e))' /\ peer'[Owner(e)'] \in AfterFin)
                      /\ Len(wire'[Owner(e)']) < Number(e)' /\ Number(e)' <= sent'[Owner(e)']
    BY DEF TakenNext
  <2>1. Taken(e) /\ Owner(e) \in Conns /\ Number(e) \in Nat
    BY <1>2, RequestServed DEF Serves
  <2>2. /\ phase[Owner(e)] \in {"open", "dropped"}
        /\ Number(e) = Latest(Owner(e)) + 1 \/ (Number(e) = Latest(Owner(e)) /\ peer[Owner(e)] \in AfterFin)
        /\ Len(wire[Owner(e)]) < Number(e) /\ Number(e) <= sent[Owner(e)]
    BY <1>1, <2>1 DEF Data, TakenNext
  <2>3. Number(e) <= sent'[Owner(e)]
    <3>1. CASE Owner(e) = c
      <4>1. sent[c] \in Nat
        BY <1>1
      <4> QED
        BY <2>1, <2>2, <3>1, <4>1
    <3>2. CASE Owner(e) # c
      BY <2>1, <2>2, <3>2
    <3> QED
      BY <3>1, <3>2
  <2> QED
    BY <1>1, <1>2, <2>1, <2>2, <2>3
<1>7. OwedLatest'
  BY <1>1, <1>2 DEF Data, OwedLatest
<1>8. OwnDescriptor' /\ OneServes'
  <2>1. OwnDescriptor'
    <3> SUFFICES ASSUME NEW e \in EventIds, Serves(e)'
                 PROVE  /\ phase'[Owner(e)'] = "open" => sock'[ev'[e].fd] = Owner(e)'
                        /\ sock'[ev'[e].fd] # None => sock'[ev'[e].fd] = Owner(e)'
      BY DEF OwnDescriptor
    <3>1. Serves(e) /\ Owner(e) \in Conns
      BY <1>2, RequestServed
    <3> QED
      BY <1>1, <1>2, <3>1 DEF Data, OwnDescriptor
  <2>2. OneServes'
    BY <1>1, <1>2 DEF Data, OneServes
  <2> QED
    BY <2>1, <2>2
<1>9. UpAnswered'
  <2> SUFFICES ASSUME NEW g \in FDs, sock'[g] # None, peer'[sock'[g]] = "up"
               PROVE  Latest(sock[g])' = Len(wire'[sock'[g]])
                                         + IF eventMapper'[g] # None /\ Owes(eventMapper[g])' THEN 1 ELSE 0
    BY DEF UpAnswered
  <2>1. sock'[g] = sock[g] /\ sock[g] \in Conns /\ peer[sock[g]] = "up"
    BY <1>1
  <2>2. Latest(sock[g])' = Latest(sock[g]) /\ (Owes(eventMapper[g])' <=> Owes(eventMapper[g]))
    BY <1>1 DEF Latest, RequestServer!Latest, RequestServer!Ran, Owes, Pending
  <2> QED
    BY <1>1, <2>1, <2>2 DEF Data, UpAnswered
<1>10. TextLast'
  <2> SUFFICES ASSUME NEW g \in FDs, sock'[g] # None, peer'[sock'[g]] # "rst"
               PROVE  /\ \A i \in 1..Len(Text(g)') : Text(g)'[i] = <<sock'[g], sent'[sock'[g]] - Unread(g)' + i>>
                      /\ eventMapper'[g] # None /\ Taken(eventMapper[g])' =>
                            \/ Unread(g)' = sent'[sock'[g]] - Number(eventMapper[g])'
                            \/ /\ peer'[sock'[g]] \in AfterFin
                               /\ Unread(g)' = sent'[sock'[g]] - Number(eventMapper[g])' + 1
                      /\ ~(eventMapper'[g] # None /\ Taken(eventMapper[g])') =>
                            \/ Unread(g)' = sent'[sock'[g]] - Latest(sock[g])'
                            \/ /\ peer'[sock'[g]] \in AfterFin /\ Len(wire'[sock'[g]]) < Latest(sock[g])'
                               /\ Unread(g)' = sent'[sock'[g]] - Latest(sock[g])' + 1
    BY DEF TextLast
  <2> PICK d : d = sock[g]
    OBVIOUS
  <2>1. sock'[g] = d /\ d \in Conns /\ peer[d] # "rst" /\ peer'[d] # "rst" /\ (peer[d] \in AfterFin => peer'[d] \in AfterFin)
    BY <1>1
  <2>2. /\ Latest(sock[g])' = Latest(d) /\ (Taken(eventMapper[g])' <=> Taken(eventMapper[g]))
        /\ Number(eventMapper[g])' = Number(eventMapper[g])
    BY <1>1 DEF Latest, RequestServer!Latest, RequestServer!Ran, Taken, Number
  <2>3. /\ \A i \in 1..Len(Text(g)) : Text(g)[i] = <<d, sent[d] - Unread(g) + i>>
        /\ eventMapper[g] # None /\ Taken(eventMapper[g]) =>
              \/ Unread(g) = sent[d] - Number(eventMapper[g])
              \/ peer[d] \in AfterFin /\ Unread(g) = sent[d] - Number(eventMapper[g]) + 1
        /\ ~(eventMapper[g] # None /\ Taken(eventMapper[g])) =>
              \/ Unread(g) = sent[d] - Latest(d)
              \/ /\ peer[d] \in AfterFin /\ Len(wire[d]) < Latest(d)
                 /\ Unread(g) = sent[d] - Latest(d) + 1
    BY <1>1, <2>1 DEF Data, TextLast
  <2>4. Unread(g)' = Unread(g) + sent'[d] - sent[d] /\ Unread(g) \in Nat /\ sent'[d] \in Nat /\ sent[d] \in Nat
    <3>1. Unread(g) \in Nat
      BY <1>1, <2>1 DEF Unread
    <3>2. CASE d = c
      BY <1>1, <1>3, <2>1, <3>1, <3>2
    <3>3. CASE d # c
      <4>1. Unread(g)' = Unread(g)
        BY <1>3, <2>1, <3>3
      <4> QED
        BY <1>1, <2>1, <3>1, <3>3, <4>1
    <3> QED
      BY <3>2, <3>3
  <2>5. \A i \in 1..Len(Text(g)) : sent'[d] - Unread(g)' + i = sent[d] - Unread(g) + i
    BY <1>1, <2>4
  <2>6. Text(g)' = Text(g) /\ UNCHANGED <<eventMapper, wire>>
    BY <1>1, <1>3
  <2>7. \A n \in Nat : /\ Unread(g) = sent[d] - n => Unread(g)' = sent'[d] - n
                       /\ Unread(g) = sent[d] - n + 1 => Unread(g)' = sent'[d] - n + 1
    BY <2>4
  <2>8. eventMapper[g] # None /\ Taken(eventMapper[g]) => Number(eventMapper[g]) \in Nat
    BY <1>1, RequestServed DEF Serves
  <2>9. Latest(d) \in Nat
    BY <1>1, <2>1
  <2> QED
    BY <2>1, <2>2, <2>3, <2>5, <2>6, <2>7, <2>8, <2>9
<1>11. ClosedFinished' /\ PoisonedDropped' /\ NothingBehind'
  <2>0. \A e \in EventIds : ev[e].buf # <<>> => Head(ev[e].buf)[1] \in Conns
    <3> SUFFICES ASSUME NEW e \in EventIds, ev[e].buf # <<>> PROVE Head(ev[e].buf)[1] \in Conns
      OBVIOUS
    <3>1. ev[e].buf \in Seq(Requests)
      BY <1>1, EventFacts DEF TypeInv
    <3>2. Head(ev[e].buf) \in Requests
      BY <3>1
    <3> QED
      BY <3>2 DEF Requests
  <2>1. ClosedFinished'
    BY <1>1 DEF Data, ClosedFinished, Malformed
  <2>2. PoisonedDropped'
    BY <1>1, <2>0 DEF Data, PoisonedDropped, Poisoned, Malformed
  <2>3. NothingBehind'
    <3> SUFFICES ASSUME Window = 1, NEW e \in EventIds, ev[e].buf # <<>>, ~Malformed(Head(ev[e].buf))
                 PROVE  peer'[Head(ev[e].buf)[1]] \in AfterFin
      BY <1>1 DEF NothingBehind, Malformed
    <3>1. peer[Head(ev[e].buf)[1]] \in AfterFin
      BY <1>1 DEF Data, NothingBehind
    <3> QED
      BY <2>0, <3>1
  <2> QED
    BY <2>1, <2>2, <2>3
<1>12. OpenHasDescriptor' /\ Patience'
  <2>1. OpenHasDescriptor'
    BY <1>1 DEF Data, OpenHasDescriptor
  <2>2. Patience'
    BY <1>1 DEF Data, Patience, MultiThreaded
  <2> QED
    BY <2>1, <2>2
<1>13. KeptUnlessPoisoned'
  BY <1>1, ServerAssumption DEF Data, KeptUnlessPoisoned, GoodClientsKept, ServerAssumption
<1>14. DiesOfLeaversOnly'
  <2>1. \A d \in Conns : LeftUnanswered(d) => LeftUnanswered(d)'
    BY <1>1 DEF LeftUnanswered
  <2> QED
    BY <1>1, <2>1 DEF Data, DiesOfLeaversOnly
<1> QED
  BY <1>4, <1>5, <1>6, <1>7, <1>8, <1>9, <1>10, <1>11, <1>12, <1>13, <1>14 DEF Data

LEMMA SendData ==
    ASSUME IInv, NEW c \in Conns, Send(c)
    PROVE  Data'
<1>1. /\ TypeInv /\ ClientTypes /\ Data /\ InboxLast /\ MaxReq \in Nat /\ Patience /\ Waiting /\ Counts
      /\ phase[c] \in {"backlog", "open"} /\ peer[c] = "up"
      /\ sent[c] < MaxReq /\ sent[c] - Len(wire[c]) < Window /\ Window \in Nat
      /\ sent' = [sent EXCEPT ![c] = @ + 1]
      /\ inbox' = [inbox EXCEPT ![c] = Append(@, <<c, sent[c] + 1>>)]
      /\ UNCHANGED <<phase, peer, wire, sock, loop, ev, worker, executed>>
      /\ sent[c] \in Nat /\ Len(wire[c]) \in Nat /\ Len(inbox[c]) \in Nat /\ inbox[c] \in Seq(Requests)
  BY Numbers, ServerAssumption DEF IInv, TypeInv, Data, Send, ServerAssumption
<1>2. sent'[c] = sent[c] + 1 /\ \A d \in Conns \ {c} : sent'[d] = sent[d] /\ inbox'[d] = inbox[d]
  BY <1>1 DEF ClientTypes
<1>3. /\ Len(inbox'[c]) = Len(inbox[c]) + 1 /\ inbox'[c][Len(inbox[c]) + 1] = <<c, sent[c] + 1>>
      /\ \A i \in 1..Len(inbox[c]) : inbox'[c][i] = inbox[c][i]
  <2>1. inbox'[c] = Append(inbox[c], <<c, sent[c] + 1>>)
    BY <1>1 DEF ClientTypes
  <2>2. <<c, sent[c] + 1>> \in Requests
    BY <1>1 DEF Requests
  <2> QED
    BY <1>1, <2>1, <2>2, RangeAppend
<1>4. \A i \in 1..Len(inbox'[c]) : inbox'[c][i] = <<c, sent'[c] - Len(inbox'[c]) + i>>
  <2> SUFFICES ASSUME NEW i \in 1..Len(inbox'[c])
               PROVE  inbox'[c][i] = <<c, sent'[c] - Len(inbox'[c]) + i>>
    OBVIOUS
  <2>0. i \in 1..(Len(inbox[c]) + 1) /\ sent'[c] - Len(inbox'[c]) + i = sent[c] + 1 - (Len(inbox[c]) + 1) + i
    <3>1. /\ Len(inbox'[c]) = Len(inbox[c]) + 1 /\ sent'[c] = sent[c] + 1
          /\ Len(inbox[c]) \in Nat /\ sent[c] \in Nat
      BY <1>1, <1>2, <1>3
    <3> QED
      BY <3>1
  <2>1. CASE i \in 1..Len(inbox[c])
    <3>1. inbox[c][i] = <<c, sent[c] - Len(inbox[c]) + i>>
      BY <1>1, <2>1 DEF InboxLast
    <3>2. sent[c] + 1 - (Len(inbox[c]) + 1) + i = sent[c] - Len(inbox[c]) + i
      BY <1>1
    <3> QED
      BY <1>3, <2>0, <2>1, <3>1, <3>2
  <2>2. CASE i = Len(inbox[c]) + 1
    <3>1. sent[c] + 1 - (Len(inbox[c]) + 1) + i = sent[c] + 1
      BY <1>1, <2>2
    <3> QED
      BY <1>3, <2>0, <2>2, <3>1
  <2> QED
    BY <1>1, <2>0, <2>1, <2>2
<1>5. sent'[c] \in Nat /\ sent[c] <= sent'[c] /\ sent'[c] <= Len(wire[c]) + Window /\ Len(inbox'[c]) \in Nat
  BY <1>1, <1>2, <1>3
<1>6. sent'[c] - Len(inbox'[c]) = sent[c] - Len(inbox[c])
  BY <1>1, <1>2, <1>3
<1>7. phase'[c] # "new" /\ peer'[c] = "up" /\ phase'[c] = phase[c]
  BY <1>1
<1>8. \A d \in Conns \ {c} : peer'[d] = peer[d] /\ phase'[d] = phase[d]
  BY <1>1
<1>9. UNCHANGED <<wire, sock, loop, ev, worker, executed>> /\ peer[c] = "up" /\ "up" \notin AfterFin
  BY <1>1 DEF AfterFin
<1> QED
  BY <1>2, <1>4, <1>5, <1>6, <1>7, <1>8, <1>9, ConnectionData

LEMMA ConnectData ==
    ASSUME IInv, NEW c \in Conns, Connect(c)
    PROVE  Data'
<1>1. /\ TypeInv /\ ClientTypes /\ Data /\ InboxLast /\ Waiting /\ Counts /\ Patience
      /\ phase[c] = "new" /\ phase' = [phase EXCEPT ![c] = "backlog"]
      /\ UNCHANGED <<sent, peer, inbox, wire, sock, loop, ev, worker, executed>>
      /\ sent[c] \in Nat /\ Len(wire[c]) \in Nat /\ Len(inbox[c]) \in Nat
  BY Numbers DEF IInv, TypeInv, Data, Connect
<1>2. phase'[c] = "backlog" /\ \A d \in Conns \ {c} : phase'[d] = phase[d]
  BY <1>1 DEF ClientTypes
<1>3. \A i \in 1..Len(inbox'[c]) : inbox'[c][i] = <<c, sent'[c] - Len(inbox'[c]) + i>>
  BY <1>1 DEF InboxLast
<1>4. sent'[c] \in Nat /\ sent[c] <= sent'[c] /\ sent'[c] <= Len(wire[c]) + Window /\ Len(inbox'[c]) \in Nat
  BY <1>1 DEF Counts
<1>5. peer[c] = "up" /\ peer'[c] = "up" /\ "up" \notin AfterFin
  BY <1>1 DEF Waiting, AfterFin
<1>6. UNCHANGED <<wire, sock, loop, ev, worker, executed>> /\ sent'[c] - Len(inbox'[c]) = sent[c] - Len(inbox[c])
  BY <1>1
<1>7. \A d \in Conns \ {c} : peer'[d] = peer[d] /\ sent'[d] = sent[d] /\ inbox'[d] = inbox[d]
  BY <1>1
<1> QED
  BY <1>1, <1>2, <1>3, <1>4, <1>5, <1>6, <1>7, ConnectionData

\* The client closes, its kernel resets, or it resets.
LEMMA LeaveData ==
    ASSUME IInv, Calm, NEW c \in Conns, Quit(c) \/ Reset(c) \/ Abort(c)
    PROVE  Data'
<1>1. /\ TypeInv /\ ClientTypes /\ Data /\ InboxLast /\ Waiting /\ Counts /\ Patience
      /\ UNCHANGED <<sent, phase, wire, sock, loop, ev, worker, executed>>
      /\ sent[c] \in Nat /\ Len(wire[c]) \in Nat /\ Len(inbox[c]) \in Nat /\ phase[c] # "new"
  <2>1. phase[c] # "new"
    <3>1. CASE Quit(c) \/ Abort(c)
      BY <3>1 DEF Quit, Abort
    <3>2. CASE Reset(c)
      BY <3>2 DEF Reset, IInv, Data, Waiting
    <3> QED
      BY <3>1, <3>2
  <2> QED
    BY <2>1, Numbers DEF IInv, TypeInv, Data, Quit, Reset, Abort
<1>2. /\ \A d \in Conns \ {c} : peer'[d] = peer[d] /\ inbox'[d] = inbox[d]
      /\ peer'[c] # "rst" => inbox'[c] = inbox[c]
      /\ inbox'[c] = inbox[c] \/ inbox'[c] = <<>>
      /\ peer'[c] \in AfterFin \/ (peer'[c] = "rst" /\ peer[c] = "up") 
      /\ peer[c] # "rst"
  <2>1. CASE Quit(c)
    BY <2>1, <1>1 DEF Quit, ClientTypes, AfterFin
  <2>2. CASE Reset(c)
    BY <2>2, <1>1 DEF Reset, ClientTypes, AfterFin
  <2>3. CASE Abort(c)
    BY <2>3, <1>1 DEF Abort, ClientTypes, AfterFin
  <2> QED
    BY <2>1, <2>2, <2>3
<1>3. /\ Len(inbox'[c]) \in Nat
      /\ \A i \in 1..Len(inbox'[c]) : inbox'[c][i] = <<c, sent'[c] - Len(inbox'[c]) + i>>
  <2>1. CASE inbox'[c] = inbox[c]
    BY <1>1, <2>1 DEF InboxLast
  <2>2. CASE inbox'[c] = <<>>
    BY <2>2, Emptied
  <2> QED
    BY <1>2, <2>1, <2>2
<1>4. sent'[c] \in Nat /\ sent[c] <= sent'[c] /\ sent'[c] <= Len(wire[c]) + Window
  BY <1>1 DEF Counts
<1>5. MultiThreaded => peer'[c] \in {"up", "fin", "rst"} /\ (peer'[c] = "fin" => Len(wire[c]) = sent'[c])
  <2>1. CASE Quit(c)
    BY <2>1, <1>1 DEF Quit, ClientTypes, Calm, MultiThreaded
  <2>2. CASE Reset(c)
    BY <2>2, <1>1 DEF Reset, Patience
  <2>3. CASE Abort(c)
    BY <2>3, <1>1 DEF Abort, ClientTypes
  <2> QED
    BY <2>1, <2>2, <2>3
<1>6. "up" \notin AfterFin /\ "rst" \notin AfterFin
  BY DEF AfterFin
<1>7. peer'[c] # "rst" => sent'[c] - Len(inbox'[c]) = sent[c] - Len(inbox[c])
  BY <1>1, <1>2
<1>8. \A d \in Conns \ {c} : peer'[d] = peer[d] /\ phase'[d] = phase[d] /\ sent'[d] = sent[d] /\ inbox'[d] = inbox[d]
  BY <1>1, <1>2
<1>9. UNCHANGED <<wire, sock, loop, ev, worker, executed>> /\ phase'[c] = phase[c] /\ phase'[c] # "new"
  BY <1>1
<1>10. /\ peer[c] \in AfterFin => peer'[c] \in AfterFin
       /\ peer'[c] = "up" => peer[c] = "up"
       /\ peer[c] = "rst" => peer'[c] = "rst"
  BY <1>2, <1>6
<1> QED
  BY <1>3, <1>4, <1>5, <1>7, <1>8, <1>9, <1>10, ConnectionData

LEMMA ClientData ==
    ASSUME IInv, Calm, Clients
    PROVE  Data'
BY SendData, ConnectData, LeaveData DEF Clients

-----------------------------------------------------------------------------
(* Accepting, hanging up, starting over.                                      *)

\* The part of Data that is about one descriptor.
TextOfDescriptor(g) ==
    /\ \A i \in 1..Len(Text(g)) : Text(g)[i] = <<sock[g], sent[sock[g]] - Unread(g) + i>>
    /\ eventMapper[g] # None /\ Taken(eventMapper[g]) =>
          \/ Unread(g) = sent[sock[g]] - Number(eventMapper[g])
          \/ /\ peer[sock[g]] \in AfterFin
             /\ Unread(g) = sent[sock[g]] - Number(eventMapper[g]) + 1
    /\ ~(eventMapper[g] # None /\ Taken(eventMapper[g])) =>
          \/ Unread(g) = sent[sock[g]] - Latest(sock[g])
          \/ /\ peer[sock[g]] \in AfterFin /\ Len(wire[sock[g]]) < Latest(sock[g])
             /\ Unread(g) = sent[sock[g]] - Latest(sock[g]) + 1
AnsweredOn(g) ==
    Latest(sock[g]) = Len(wire[sock[g]]) + IF eventMapper[g] # None /\ Owes(eventMapper[g]) THEN 1 ELSE 0

\* A descriptor whose connection, event and text are as they were.
LEMMA SameDescriptor ==
    ASSUME IInv, NEW g \in FDs, sock[g] # None, UNCHANGED <<sent, peer>>, NEW f, f = eventMapper[g],
           sock'[g] = sock[g], inbox'[sock[g]] = inbox[sock[g]], eventMapper'[g] = f,
           Latest(sock[g])' = Latest(sock[g]), wire'[sock[g]] = wire[sock[g]],
           f # None => /\ ev'[f].buf = ev[f].buf /\ ev'[f].cur = ev[f].cur
                       /\ (Taken(f)' <=> Taken(f)) /\ (Owes(f)' <=> Owes(f))
    PROVE  /\ peer[sock[g]] # "rst" => TextOfDescriptor(g)'
           /\ peer[sock[g]] = "up" => AnsweredOn(g)'
<1>1. Text(g)' = Text(g) /\ Unread(g)' = Unread(g)
  <2>1. Text(g)' = Text(g)
    BY DEF Text, Poisoned, Malformed
  <2> QED
    BY <2>1 DEF Unread
<1>2. /\ eventMapper'[g] = eventMapper[g]
      /\ eventMapper[g] # None => /\ Number(eventMapper[g])' = Number(f)
                                  /\ Taken(eventMapper[g])' <=> Taken(f)
                                  /\ Owes(eventMapper[g])' <=> Owes(f)
  <2>1. (eventMapper[g])' = f
    OBVIOUS
  <2> QED
    BY <2>1 DEF Number, Taken, Owes, Pending
<1>3. ASSUME peer[sock[g]] # "rst" PROVE TextOfDescriptor(g)'
  <2>1. TextOfDescriptor(g)
    BY <1>3 DEF IInv, Data, TextLast, TextOfDescriptor
  <2> QED
    BY <1>1, <1>2, <2>1 DEF TextOfDescriptor
<1>4. ASSUME peer[sock[g]] = "up" PROVE AnsweredOn(g)'
  <2>1. AnsweredOn(g)
    BY <1>4 DEF IInv, Data, UpAnswered, AnsweredOn
  <2> QED
    BY <1>2, <2>1 DEF AnsweredOn
<1> QED
  BY <1>3, <1>4

LEMMA DescriptorsData ==
    ASSUME \A g \in FDs : sock'[g] # None =>
               /\ peer'[sock'[g]] # "rst" => TextOfDescriptor(g)'
               /\ peer'[sock'[g]] = "up" => AnsweredOn(g)'
    PROVE  TextLast' /\ UpAnswered'
<1>1. TextLast'
  BY DEF TextLast, TextOfDescriptor
<1>2. UpAnswered'
  BY DEF UpAnswered, AnsweredOn
<1> QED
  BY <1>1, <1>2

LEMMA AcceptData ==
    ASSUME IInv, Accept
    PROVE  Data'
<1>1. /\ TypeInv /\ ClientTypes /\ PlaceTypes /\ Data /\ pc = "accept" /\ FreeFDs # {}
      /\ UNCHANGED <<sent, peer, inbox, wire, eventMapper, ev, worker, executed>>
      /\ \A e : /\ Owner(e)' = Owner(e) /\ Number(e)' = Number(e) /\ Latest(Owner(e))' = Latest(Owner(e))
                /\ Taken(e)' <=> Taken(e)
                /\ Owes(e)' <=> Owes(e)
                /\ Serves(e)' <=> Serves(e)
      /\ \A c : Latest(c)' = Latest(c)
      /\ DiesOfLeaversOnly'
  <2>1. /\ TypeInv /\ ClientTypes /\ PlaceTypes /\ Data /\ pc = "accept" /\ FreeFDs # {}
        /\ UNCHANGED <<sent, peer, inbox, wire, eventMapper, ev, worker, executed>>
        /\ pc' # "dead"
    BY DEF IInv, TypeInv, Accept
  <2> QED
    BY <2>1, LatestStays DEF Owner, Number, Taken, Owes, Serves, Pending, Latest, RequestServer!Latest,
       RequestServer!Ran, DiesOfLeaversOnly
<1>2. CASE backlog = <<>>
  <2>1. UNCHANGED <<phase, sock>>
    BY <1>2 DEF Accept
  <2> QED
    BY <1>1, <2>1, SameData
<1>3. CASE backlog # <<>>
  <2>1. PICK fd \in FDs, c \in Conns :
              /\ sock[fd] = None /\ phase[c] = "backlog"
              /\ sock' = [sock EXCEPT ![fd] = c] /\ phase' = [phase EXCEPT ![c] = "open"]
    <3>1. LeastOf(FreeFDs) \in FDs /\ sock[LeastOf(FreeFDs)] = None
      <4>1. FreeFDs \in SUBSET Nat /\ FreeFDs \subseteq FDs
        BY ServerAssumption DEF FreeFDs, ServerAssumption
      <4>2. LeastOf(FreeFDs) \in FreeFDs
        BY <1>1, <4>1, LeastIsIn
      <4> QED
        BY <4>2 DEF FreeFDs
    <3>2. Head(backlog) \in Conns /\ phase[Head(backlog)] = "backlog"
      <4>1. backlog \in Seq(Conns) /\ \A d \in Range(backlog) : phase[d] = "backlog"
        BY <1>1 DEF ClientTypes
      <4>2. Head(backlog) \in Conns /\ Head(backlog) \in Range(backlog)
        BY <1>3, <4>1, RangeTail
      <4> QED
        BY <4>1, <4>2
    <3>3. /\ sock' = [sock EXCEPT ![LeastOf(FreeFDs)] = Head(backlog)]
          /\ phase' = [phase EXCEPT ![Head(backlog)] = "open"]
      BY <1>3 DEF Accept
    <3> QED
      BY <3>1, <3>2, <3>3
  <2>2. /\ sock'[fd] = c /\ \A g \in FDs \ {fd} : sock'[g] = sock[g]
        /\ phase'[c] = "open" /\ \A d \in Conns \ {c} : phase'[d] = phase[d]
        /\ c # None
    BY <1>1, <2>1, Numbers DEF ClientTypes
  <2>3. /\ Latest(c) = 0 /\ Len(wire[c]) = 0 /\ (peer[c] # "rst" => Len(inbox[c]) = sent[c])
    <3>1. Latest(c) = 0 /\ (peer[c] # "rst" => Len(inbox[c]) = sent[c]) /\ Len(wire[c]) <= Latest(c)
      BY <1>1, <2>1 DEF Data, Waiting, Counts
    <3>2. Len(wire[c]) \in Nat
      BY <1>1, Numbers
    <3> QED
      BY <3>1, <3>2
  <2>4. ASSUME NEW e \in EventIds, Serves(e)
        PROVE  /\ Owner(e) \in Conns /\ Owner(e) # c /\ ev[e].fd \in FDs \ {fd}
    <3>1. e \in Hands /\ ev[e].fd \in FDs /\ Owner(e) \in Conns
      BY <2>4, RequestServed
    <3>2. phase[Owner(e)] \in {"open", "dropped"}
      BY <1>1, <2>4 DEF Data, TakenNext, OwedLatest, Serves
    <3>3. ev[e].fd # fd
      BY <1>3, <2>1, <3>1, AcceptedUnheld
    <3> QED
      BY <2>1, <3>1, <3>2, <3>3
  <2>5. /\ eventMapper[fd] # None => ~Taken(eventMapper[fd]) /\ ~Owes(eventMapper[fd])
        /\ Text(fd) = <<>>
    <3>1. CASE eventMapper[fd] = None
      BY <3>1 DEF Text
    <3>2. CASE eventMapper[fd] # None
      <4>1. /\ ev[eventMapper[fd]].stage = 6
            /\ ev[eventMapper[fd]].buf = <<>> \/ Malformed(Head(ev[eventMapper[fd]].buf))
        BY <1>1, <2>1, <3>2 DEF Data, ClosedFinished
      <4> QED
        BY <4>1 DEF Taken, Owes, Text, Poisoned
    <3> QED
      BY <3>1, <3>2
  <2>6. Counts' /\ InboxLast' /\ Waiting'
    <3>1. Counts'
      BY <1>1 DEF Data, Counts
    <3>2. InboxLast'
      BY <1>1 DEF Data, InboxLast
    <3>3. Waiting'
      BY <1>1, <2>2 DEF Data, Waiting
    <3> QED
      BY <3>1, <3>2, <3>3
  <2>7. TakenNext'
    BY <1>1, <2>2, <2>4 DEF Data, TakenNext, Serves
  <2>8. OwedLatest'
    BY <1>1, <2>2, <2>4 DEF Data, OwedLatest, Serves
  <2>9. OwnDescriptor' /\ OneServes'
    <3>1. OwnDescriptor'
      BY <1>1, <2>2, <2>4 DEF Data, OwnDescriptor
    <3>2. OneServes'
      BY <1>1 DEF Data, OneServes
    <3> QED
      BY <3>1, <3>2
  <2>10. TextLast' /\ UpAnswered'
    <3> SUFFICES ASSUME NEW g \in FDs, sock'[g] # None
                 PROVE  /\ peer'[sock'[g]] # "rst" => TextOfDescriptor(g)'
                        /\ peer'[sock'[g]] = "up" => AnsweredOn(g)'
      BY DescriptorsData
    <3>1. CASE g = fd
      <4>1. sock'[g] = c /\ Latest(sock[g])' = 0 /\ Text(g)' = <<>>
        <5>1. sock'[g] = c
          BY <2>2, <3>1
        <5>2. Latest(sock[g])' = Latest(c)
          BY <1>1, <5>1 DEF Latest, RequestServer!Latest, RequestServer!Ran
        <5>3. Text(g)' = Text(g)
          BY <1>1 DEF Text, Poisoned, Malformed
        <5> QED
          BY <2>3, <2>5, <3>1, <5>1, <5>2, <5>3
      <4>2. eventMapper'[g] # None => ~Taken(eventMapper[g])' /\ ~Owes(eventMapper[g])'
        BY <1>1, <2>5, <3>1 DEF Taken, Owes, Pending
      <4>3. Unread(g)' = Len(inbox[c])
        <5>1. Unread(g)' = 0 + Len(inbox[c])
          BY <1>1, <4>1, Emptied DEF Unread
        <5>2. Len(inbox[c]) \in Nat
          BY <1>1, Numbers
        <5> QED
          BY <5>1, <5>2
      <4>4. ASSUME peer[c] # "rst" PROVE TextOfDescriptor(g)'
        <5>1. Len(inbox[c]) = sent[c] - 0 /\ Len(Text(g)') = 0
          <6>1. sent[c] \in Nat /\ Len(inbox[c]) = sent[c]
            BY <1>1, <2>3, <4>4, Numbers
          <6> QED
            BY <4>1, <6>1, Emptied
        <5> QED
          BY <1>1, <4>1, <4>2, <4>3, <5>1 DEF TextOfDescriptor
      <4>5. AnsweredOn(g)'
        <5>1. Len(wire'[sock'[g]]) = 0
          BY <1>1, <2>3, <4>1
        <5>2. Latest(sock[g])' = 0 + IF eventMapper'[g] # None /\ Owes(eventMapper[g])' THEN 1 ELSE 0
          BY <4>1, <4>2
        <5> QED
          BY <5>1, <5>2 DEF AnsweredOn
      <4> QED
        BY <1>1, <4>1, <4>4, <4>5
    <3>2. CASE g # fd
      <4> PICK f : f = eventMapper[g]
        OBVIOUS
      <4>1. sock'[g] = sock[g] /\ Latest(sock[g])' = Latest(sock[g])
        <5>1. sock'[g] = sock[g] /\ executed' = executed
          BY <1>1, <2>2, <3>2
        <5> QED
          BY <5>1 DEF Latest, RequestServer!Latest, RequestServer!Ran
      <4>2. eventMapper'[g] = f /\ (Taken(f)' <=> Taken(f)) /\ (Owes(f)' <=> Owes(f))
        BY <1>1
      <4> QED
        BY <1>1, <4>1, <4>2, SameDescriptor
    <3> QED
      BY <3>1, <3>2
  <2>11. ClosedFinished' /\ PoisonedDropped' /\ NothingBehind'
    <3>1. ClosedFinished'
      BY <1>1, <2>2 DEF Data, ClosedFinished, Malformed
    <3>2. PoisonedDropped'
      <4> SUFFICES ASSUME NEW e \in EventIds, Poisoned(ev[e].buf) PROVE phase'[Head(ev[e].buf)[1]] = "dropped"
        BY <1>1 DEF PoisonedDropped, Poisoned, Malformed
      <4>1. phase[Head(ev[e].buf)[1]] = "dropped"
        BY <1>1 DEF Data, PoisonedDropped
      <4>2. Head(ev[e].buf)[1] \in Conns
        BY ServerAssumption DEF Poisoned, Malformed, ServerAssumption
      <4> QED
        BY <2>1, <2>2, <4>1, <4>2
    <3>3. NothingBehind'
      BY <1>1 DEF Data, NothingBehind, Malformed
    <3> QED
      BY <3>1, <3>2, <3>3
  <2>12. OpenHasDescriptor'
    <3> SUFFICES ASSUME NEW d \in Conns, phase'[d] = "open" PROVE \E g \in FDs : sock'[g] = d
      BY DEF OpenHasDescriptor
    <3>1. CASE d = c
      BY <2>2, <3>1
    <3>2. CASE d # c
      <4>1. PICK g \in FDs : sock[g] = d
        BY <1>1, <2>2, <3>2 DEF Data, OpenHasDescriptor
      <4>2. g # fd
        BY <1>1, <2>1, <4>1, Numbers
      <4> QED
        BY <2>2, <4>1, <4>2
    <3> QED
      BY <3>1, <3>2
  <2>13. Patience'
    BY <1>1 DEF Data, Patience, MultiThreaded
  <2>14. KeptUnlessPoisoned'
    BY <1>1, <2>1, <2>2, ServerAssumption DEF Data, KeptUnlessPoisoned, GoodClientsKept, ServerAssumption
  <2> QED
    BY <1>1, <2>6, <2>7, <2>8, <2>9, <2>10, <2>11, <2>12, <2>13, <2>14 DEF Data
<1> QED
  BY <1>2, <1>3

\* A descriptor is closed; its event x, if there is one, serves no request.
LEMMA ClosedData ==
    ASSUME IInv, NEW fd \in FDs, CloseFD(fd), UNCHANGED <<sent, peer, wire, executed>>, NEW x,
           \A g \in FDs \ {fd} : eventMapper'[g] = eventMapper[g] /\ (eventMapper[g] = None \/ eventMapper[g] # x),
           \A e \in EventIds : Pending(e)' = Pending(e) /\ (e # x => ev'[e] = ev[e]),
           x \in EventIds => ~Serves(x) /\ ~Serves(x)',
           eventMapper'[fd] # None => /\ ev'[eventMapper'[fd]].stage = 6
                                      /\ ev'[eventMapper'[fd]].buf = <<>> \/ Malformed(Head(ev'[eventMapper'[fd]].buf)),
           PoisonedDropped', NothingBehind', KeptUnlessPoisoned', DiesOfLeaversOnly'
    PROVE  Data'
<1>1. /\ TypeInv /\ ClientTypes /\ Data /\ fd \in FDs
      /\ \A c : Latest(c)' = Latest(c)
      /\ \A g \in FDs : eventMapper[g] # None => eventMapper[g] \in EventIds
      /\ \A g \in FDs : sock[g] # None => sock[g] \in Conns /\ phase[sock[g]] = "open"
      /\ None \notin Conns /\ UNCHANGED <<sent, peer, wire, executed>>
  BY Numbers, LatestStays DEF IInv, TypeInv
<1>2. /\ sock'[fd] = None /\ \A g \in FDs \ {fd} : sock'[g] = sock[g]
      /\ \A c \in Conns : phase'[c] = (IF c = sock[fd] THEN "dropped" ELSE phase[c])
                          /\ inbox'[c] = (IF c = sock[fd] THEN <<>> ELSE inbox[c])
  BY <1>1, Closes
<1>3. ASSUME NEW e \in EventIds
      PROVE  /\ Taken(e)' <=> Taken(e)
             /\ Owes(e)' <=> Owes(e)
             /\ Serves(e)' <=> Serves(e)
             /\ Serves(e) => /\ ev'[e] = ev[e] /\ ev'[e].fd = ev[e].fd /\ Owner(e)' = Owner(e) /\ Number(e)' = Number(e)
                             /\ Latest(Owner(e))' = Latest(Owner(e)) /\ Owner(e) \in Conns /\ ev[e].fd \in FDs
  <2>1. CASE e = x
    BY <2>1 DEF Serves
  <2>2. CASE e # x
    <3>1. ev'[e] = ev[e] /\ Pending(e)' = Pending(e)
      BY <2>2
    <3>2. Owner(e)' = Owner(e) /\ Number(e)' = Number(e) /\ Latest(Owner(e))' = Latest(Owner(e))
      <4>1. Owner(e)' = Owner(e) /\ Number(e)' = Number(e)
        BY <3>1 DEF Owner, Number
      <4> QED
        BY <1>1, <4>1 DEF Latest, RequestServer!Latest, RequestServer!Ran
    <3>3. (Taken(e)' <=> Taken(e)) /\ (Owes(e)' <=> Owes(e))
      BY <3>1 DEF Taken, Owes
    <3> QED
      BY <3>1, <3>2, <3>3, RequestServed DEF Serves
  <2> QED
    BY <2>1, <2>2
<1>4. Counts' /\ InboxLast' /\ Waiting'
  <2>1. Counts'
    BY <1>1 DEF Data, Counts
  <2>2. InboxLast'
    <3> SUFFICES ASSUME NEW d \in Conns, NEW i \in 1..Len(inbox'[d])
                 PROVE  inbox'[d][i] = <<d, sent'[d] - Len(inbox'[d]) + i>>
      BY DEF InboxLast
    <3>1. d # sock[fd] /\ inbox'[d] = inbox[d]
      BY <1>2, Emptied
    <3> QED
      BY <1>1, <3>1 DEF Data, InboxLast
  <2>3. Waiting'
    BY <1>1, <1>2 DEF Data, Waiting
  <2> QED
    BY <2>1, <2>2, <2>3
<1>5. TakenNext'
  BY <1>1, <1>2, <1>3 DEF Data, TakenNext, Serves
<1>6. OwedLatest'
  BY <1>1, <1>2, <1>3 DEF Data, OwedLatest, Serves
<1>7. OwnDescriptor' /\ OneServes'
  <2>1. OwnDescriptor'
    <3> SUFFICES ASSUME NEW e \in EventIds, Serves(e)'
                 PROVE  /\ phase'[Owner(e)'] = "open" => sock'[ev'[e].fd] = Owner(e)'
                        /\ sock'[ev'[e].fd] # None => sock'[ev'[e].fd] = Owner(e)'
      BY DEF OwnDescriptor
    <3>1. Serves(e) /\ ev'[e].fd = ev[e].fd /\ Owner(e)' = Owner(e) /\ Owner(e) \in Conns /\ ev[e].fd \in FDs
      BY <1>3
    <3>2. /\ phase[Owner(e)] = "open" => sock[ev[e].fd] = Owner(e)
          /\ sock[ev[e].fd] # None => sock[ev[e].fd] = Owner(e)
      BY <1>1, <3>1 DEF Data, OwnDescriptor
    <3> QED
      BY <1>1, <1>2, <3>1, <3>2
  <2>2. OneServes'
    BY <1>1, <1>3 DEF Data, OneServes
  <2> QED
    BY <2>1, <2>2
<1>8. TextLast' /\ UpAnswered'
  <2> SUFFICES ASSUME NEW g \in FDs, sock'[g] # None
               PROVE  /\ peer'[sock'[g]] # "rst" => TextOfDescriptor(g)'
                      /\ peer'[sock'[g]] = "up" => AnsweredOn(g)'
    BY DescriptorsData
  <2> PICK f : f = eventMapper[g]
    OBVIOUS
  <2>1. g # fd /\ sock'[g] = sock[g] /\ sock[g] # None /\ eventMapper'[g] = f
    BY <1>2
  <2>2. inbox'[sock[g]] = inbox[sock[g]]
    <3>1. sock[g] # sock[fd]
      BY <1>1, <2>1 DEF ClientTypes
    <3> QED
      BY <1>1, <1>2, <2>1, <3>1
  <2>3. Latest(sock[g])' = Latest(sock[g])
    BY <1>1, <2>1 DEF Latest, RequestServer!Latest, RequestServer!Ran
  <2>4. f # None => ev'[f] = ev[f] /\ (Taken(f)' <=> Taken(f)) /\ (Owes(f)' <=> Owes(f))
    BY <1>1, <1>3, <2>1
  <2> QED
    BY <1>1, <2>1, <2>2, <2>3, <2>4, SameDescriptor
<1>9. ClosedFinished'
  <2> SUFFICES ASSUME NEW g \in FDs, sock'[g] = None, eventMapper'[g] # None
               PROVE  /\ ev'[eventMapper'[g]].stage = 6
                      /\ ev'[eventMapper'[g]].buf = <<>> \/ Malformed(Head(ev'[eventMapper'[g]].buf))
    BY DEF ClosedFinished, Malformed
  <2>1. CASE g = fd
    BY <2>1
  <2>2. CASE g # fd
    <3>1. sock[g] = None /\ eventMapper'[g] = eventMapper[g] /\ eventMapper[g] # None /\ ev'[eventMapper[g]] = ev[eventMapper[g]]
      BY <1>1, <1>2, <2>2
    <3> QED
      BY <1>1, <3>1 DEF Data, ClosedFinished
  <2> QED
    BY <2>1, <2>2
<1>10. OpenHasDescriptor'
  <2> SUFFICES ASSUME NEW d \in Conns, phase'[d] = "open" PROVE \E g \in FDs : sock'[g] = d
    BY DEF OpenHasDescriptor
  <2>1. d # sock[fd] /\ phase[d] = "open"
    BY <1>2
  <2>2. PICK g \in FDs : sock[g] = d
    BY <1>1, <2>1 DEF Data, OpenHasDescriptor
  <2> QED
    BY <1>2, <2>1, <2>2
<1>11. Patience'
  BY <1>1 DEF Data, Patience, MultiThreaded
<1> QED
  BY <1>4, <1>5, <1>6, <1>7, <1>8, <1>9, <1>10, <1>11 DEF Data

LEMMA HangUpData ==
    ASSUME IInv, NEW fd \in FDs, HangUp(fd)
    PROVE  Data'
<1>1. /\ TypeInv /\ ClientTypes /\ PlaceTypes /\ Data /\ HungUp /\ <<fd, "hup">> \in batch /\ CloseFD(fd)
      /\ pc = "dispatch" /\ pc' = pc
      /\ eventMapper' = [eventMapper EXCEPT ![fd] = None]
      /\ UNCHANGED <<sent, peer, wire, ev, worker, executed>>
  BY DEF IInv, TypeInv, Edges, HangUp
<1>2. /\ sock'[fd] = None /\ \A g \in FDs \ {fd} : sock'[g] = sock[g]
      /\ \A c \in Conns : phase'[c] = IF c = sock[fd] THEN "dropped" ELSE phase[c]
  BY <1>1, Closes
<1>3. \A g \in FDs \ {fd} : eventMapper'[g] = eventMapper[g]
  BY <1>1 DEF PlaceTypes
<1>4. eventMapper'[fd] = None
  BY <1>1 DEF PlaceTypes
<1>5. \A e \in EventIds : Pending(e)' = Pending(e) /\ ev'[e] = ev[e]
  BY <1>1 DEF Pending
<1>6. None \notin EventIds
  BY Numbers, <1>1
<1>7. PoisonedDropped' /\ NothingBehind'
  <2>1. PoisonedDropped'
    <3> SUFFICES ASSUME NEW e \in EventIds, Poisoned(ev[e].buf) PROVE phase'[Head(ev[e].buf)[1]] = "dropped"
      BY <1>1 DEF PoisonedDropped, Poisoned, Malformed
    <3>1. phase[Head(ev[e].buf)[1]] = "dropped"
      BY <1>1 DEF Data, PoisonedDropped
    <3>2. Head(ev[e].buf)[1] \in Conns
      BY ServerAssumption DEF Poisoned, Malformed, ServerAssumption
    <3> QED
      BY <1>2, <3>1, <3>2
  <2>2. NothingBehind'
    BY <1>1 DEF Data, NothingBehind, Malformed
  <2> QED
    BY <2>1, <2>2
<1>8. KeptUnlessPoisoned'
  <2>1. sock[fd] # None => peer[sock[fd]] # "up"
    BY <1>1 DEF HungUp
  <2>2. \A b \in Bad : phase[b] = "dropped" => phase'[b] = "dropped"
    BY <1>2, ServerAssumption DEF ServerAssumption
  <2>3. GoodClientsKept => GoodClientsKept'
    <3> SUFFICES ASSUME GoodClientsKept, NEW c \in Conns \ Bad, phase'[c] = "dropped" PROVE peer'[c] # "up"
      BY DEF GoodClientsKept
    <3>1. CASE c = sock[fd]
      <4>1. c # None
        BY ServerAssumption DEF ServerAssumption
      <4> QED
        BY <1>1, <2>1, <3>1, <4>1
    <3>2. CASE c # sock[fd]
      BY <1>1, <1>2, <3>2 DEF GoodClientsKept
    <3> QED
      BY <3>1, <3>2
  <2>4. GoodClientsKept \/ \E b \in Bad : phase[b] = "dropped"
    BY <1>1 DEF Data, KeptUnlessPoisoned
  <2> QED
    BY <2>2, <2>3, <2>4 DEF KeptUnlessPoisoned
<1>9. DiesOfLeaversOnly'
  BY <1>1 DEF DiesOfLeaversOnly
<1>10. UNCHANGED <<sent, peer, wire, executed>> /\ CloseFD(fd)
  BY <1>1
<1> QED
  BY <1>3, <1>4, <1>5, <1>6, <1>7, <1>8, <1>9, <1>10, ClosedData

\* A readable descriptor's event starts over, or is made.
LEMMA ReadableData ==
    ASSUME IInv, NEW fd \in FDs, Readable(fd)
    PROVE  Data'
<1> PICK e \in EventIds : Starts(fd, e)
  BY ReadablePlaces
<1>1. /\ TypeInv /\ ClientTypes /\ PlaceTypes /\ EventTypes /\ Data /\ StageOf /\ HasInput
      /\ e \notin Hands /\ In(fd)
      /\ eventMapper' = [eventMapper EXCEPT ![fd] = e]
      /\ \A f \in EventIds \ {e} : ev'[f] = ev[f]
      /\ ev[e].stage \in {1, 6} /\ ev'[e].fd = fd /\ ev'[e].stage = 1
      /\ \/ eventMapper[fd] = None /\ (\A gd \in FDs : eventMapper[gd] # e) /\ ev'[e].buf = <<>>
         \/ eventMapper[fd] = e /\ ev'[e].buf = ev[e].buf
      /\ UNCHANGED <<sent, phase, peer, inbox, wire, sock, pc, worker, executed>>
  BY DEF IInv, TypeInv, Places, Edges, Starts, kernel
<1>2. /\ \A c : Latest(c)' = Latest(c)
      /\ \A g \in FDs : eventMapper[g] # None => eventMapper[g] \in EventIds /\ ev[eventMapper[g]].fd = g
      /\ \A g \in FDs : sock[g] # None => sock[g] \in Conns
      /\ None \notin EventIds
      /\ sock[fd] # None
  BY <1>1, Numbers, LatestStays DEF HasInput
<1>3. /\ ~Taken(e) /\ ~Owes(e) /\ ~Taken(e)' /\ ~Owes(e)' /\ ~Serves(e)'
  BY <1>1 DEF Taken, Owes, Serves
<1>4. ASSUME NEW f \in EventIds
      PROVE  /\ Taken(f)' <=> Taken(f)
             /\ Owes(f)' <=> Owes(f)
             /\ Serves(f)' <=> Serves(f)
             /\ Serves(f) => /\ f # e /\ ev'[f] = ev[f] /\ ev'[f].fd = ev[f].fd
                             /\ Owner(f)' = Owner(f) /\ Number(f)' = Number(f) /\ Latest(Owner(f))' = Latest(Owner(f))
  <2>1. CASE f = e
    BY <1>3, <2>1 DEF Serves
  <2>2. CASE f # e
    <3>1. ev'[f] = ev[f] /\ Pending(f)' = Pending(f)
      BY <1>1, <2>2 DEF Pending
    <3>2. Owner(f)' = Owner(f) /\ Number(f)' = Number(f)
      BY <3>1 DEF Owner, Number
    <3>3. Latest(Owner(f))' = Latest(Owner(f))
      BY <1>1, <3>2 DEF Latest, RequestServer!Latest, RequestServer!Ran
    <3>4. (Taken(f)' <=> Taken(f)) /\ (Owes(f)' <=> Owes(f))
      BY <3>1 DEF Taken, Owes
    <3> QED
      BY <2>2, <3>1, <3>2, <3>3, <3>4 DEF Serves
  <2> QED
    BY <2>1, <2>2
<1>5. eventMapper'[fd] = e /\ \A g \in FDs \ {fd} : eventMapper'[g] = eventMapper[g]
  BY <1>1 DEF PlaceTypes
<1>6. \A g \in FDs \ {fd} : eventMapper[g] # e
  BY <1>1, <1>2
<1>7. Text(fd)' = Text(fd) /\ Unread(fd)' = Unread(fd)
  <2>1. Text(fd)' = IF Poisoned(ev'[e].buf) THEN <<>> ELSE ev'[e].buf
    BY <1>2, <1>5 DEF Text, Poisoned, Malformed
  <2>2. Text(fd)' = Text(fd)
    <3>1. CASE eventMapper[fd] = None
      BY <1>1, <1>2, <2>1, <3>1 DEF Text, Poisoned
    <3>2. CASE eventMapper[fd] = e
      BY <1>1, <1>2, <2>1, <3>2 DEF Text, Poisoned, Malformed
    <3> QED
      BY <1>1, <3>1, <3>2
  <2> QED
    BY <1>1, <2>2 DEF Unread
<1>8. Counts' /\ InboxLast' /\ Waiting'
  <2>1. Counts'
    BY <1>1, <1>2 DEF Data, Counts
  <2>2. InboxLast'
    BY <1>1 DEF Data, InboxLast
  <2>3. Waiting'
    BY <1>1, <1>2 DEF Data, Waiting
  <2> QED
    BY <2>1, <2>2, <2>3
<1>9. TakenNext' /\ OwedLatest'
  <2>1. TakenNext'
    BY <1>1, <1>4 DEF Data, TakenNext, Serves
  <2>2. OwedLatest'
    BY <1>1, <1>4 DEF Data, OwedLatest, Serves
  <2> QED
    BY <2>1, <2>2
<1>10. OwnDescriptor' /\ OneServes'
  <2>1. OwnDescriptor'
    BY <1>1, <1>4 DEF Data, OwnDescriptor
  <2>2. OneServes'
    BY <1>1, <1>4 DEF Data, OneServes
  <2> QED
    BY <2>1, <2>2
<1>11. TextLast' /\ UpAnswered'
  <2> SUFFICES ASSUME NEW g \in FDs, sock'[g] # None
               PROVE  /\ peer'[sock'[g]] # "rst" => TextOfDescriptor(g)'
                      /\ peer'[sock'[g]] = "up" => AnsweredOn(g)'
    BY DescriptorsData
  <2>1. sock'[g] = sock[g] /\ sock[g] # None /\ Latest(sock[g])' = Latest(sock[g])
    BY <1>1 DEF Latest, RequestServer!Latest, RequestServer!Ran
  <2>2. CASE g # fd
    <3> PICK f : f = eventMapper[g]
      OBVIOUS
    <3>1. eventMapper'[g] = f /\ (f # None => f \in EventIds /\ f # e /\ ev'[f] = ev[f])
      BY <1>1, <1>2, <1>5, <1>6, <2>2
    <3>2. f # None => (Taken(f)' <=> Taken(f)) /\ (Owes(f)' <=> Owes(f))
      BY <1>4, <3>1
    <3> QED
      BY <1>1, <2>1, <3>1, <3>2, SameDescriptor
  <2>3. CASE g = fd
    <3>1. ~(eventMapper[g] # None /\ Taken(eventMapper[g])) /\ ~(eventMapper[g] # None /\ Owes(eventMapper[g]))
      BY <1>1, <1>3, <2>3
    <3>2. eventMapper'[g] = e /\ ~Taken(eventMapper[g])' /\ ~Owes(eventMapper[g])'
      <4>1. eventMapper'[g] = e
        BY <1>5, <2>3
      <4> QED
        BY <1>1, <4>1 DEF Taken, Owes
    <3>3. ASSUME peer[sock[g]] # "rst" PROVE TextOfDescriptor(g)'
      <4>1. TextOfDescriptor(g)
        BY <1>1, <2>1, <3>3 DEF Data, TextLast, TextOfDescriptor
      <4> QED
        BY <1>1, <1>7, <2>1, <2>3, <3>1, <3>2, <4>1 DEF TextOfDescriptor
    <3>4. ASSUME peer[sock[g]] = "up" PROVE AnsweredOn(g)'
      <4>1. AnsweredOn(g)
        BY <1>1, <2>1, <3>4 DEF Data, UpAnswered, AnsweredOn
      <4> QED
        BY <1>1, <2>1, <3>1, <3>2, <4>1 DEF AnsweredOn
    <3> QED
      BY <1>1, <3>3, <3>4
  <2> QED
    BY <2>2, <2>3
<1>12. ClosedFinished'
  <2> SUFFICES ASSUME NEW g \in FDs, sock'[g] = None, eventMapper'[g] # None
               PROVE  /\ ev'[eventMapper'[g]].stage = 6
                      /\ ev'[eventMapper'[g]].buf = <<>> \/ Malformed(Head(ev'[eventMapper'[g]].buf))
    BY DEF ClosedFinished, Malformed
  <2>1. g # fd
    BY <1>1, <1>2
  <2>2. eventMapper'[g] = eventMapper[g] /\ ev'[eventMapper[g]] = ev[eventMapper[g]] /\ sock[g] = None
    BY <1>1, <1>2, <1>5, <1>6, <2>1
  <2> QED
    BY <1>1, <2>2 DEF Data, ClosedFinished
<1>13. PoisonedDropped' /\ NothingBehind'
  <2>1. \A f \in EventIds : ev'[f].buf = ev[f].buf \/ ev'[f].buf = <<>>
    BY <1>1
  <2>2. PoisonedDropped'
    BY <1>1, <2>1 DEF Data, PoisonedDropped, Poisoned, Malformed
  <2>3. NothingBehind'
    BY <1>1, <2>1 DEF Data, NothingBehind, Malformed
  <2> QED
    BY <2>2, <2>3
<1>14. OpenHasDescriptor' /\ Patience' /\ KeptUnlessPoisoned' /\ DiesOfLeaversOnly'
  <2>1. OpenHasDescriptor'
    BY <1>1 DEF Data, OpenHasDescriptor
  <2>2. Patience'
    BY <1>1 DEF Data, Patience, MultiThreaded
  <2>3. KeptUnlessPoisoned'
    BY <1>1 DEF Data, KeptUnlessPoisoned, GoodClientsKept
  <2>4. DiesOfLeaversOnly'
    BY <1>1 DEF Data, DiesOfLeaversOnly, LeftUnanswered
  <2> QED
    BY <2>1, <2>2, <2>3, <2>4
<1> QED
  BY <1>8, <1>9, <1>10, <1>11, <1>12, <1>13, <1>14 DEF Data

-----------------------------------------------------------------------------
(* The calls of triggerEvent.                                                 *)

\* A call moves no request that another event serves.
LEMMA OthersServe ==
    ASSUME IInv, NEW e \in EventIds, \A f \in EventIds \ {e} : ev'[f] = ev[f] /\ Pending(f)' = Pending(f)
    PROVE  \A f \in EventIds \ {e} : /\ Taken(f)' <=> Taken(f)
                                     /\ Owes(f)' <=> Owes(f)
                                     /\ Serves(f)' <=> Serves(f)
                                     /\ Owner(f)' = Owner(f) /\ Number(f)' = Number(f)
BY DEF Taken, Owes, Serves, Owner, Number

\* The text of an event about to read is all there is from the next request to
\* take on, in order.
LEMMA ReadText ==
    ASSUME IInv, NEW e \in EventIds, e \in Hands, ev[e].stage = 1, ConnOf(e) \in Conns, peer[ConnOf(e)] # "rst",
           TextOf(e) # <<>>, ~Malformed(Head(TextOf(e))), NEW c, c = ConnOf(e), NEW n, n = Len(TextOf(e))
    PROVE  /\ TextOf(e) \in Seq(Requests) /\ n \in Nat /\ n >= 1 /\ n <= sent[c]
           /\ \A i \in 1..n : TextOf(e)[i] = <<c, sent[c] - n + i>>
           /\ n = sent[c] - Latest(c) \/ (/\ peer[c] \in AfterFin /\ Len(wire[c]) < Latest(c)
                                          /\ n = sent[c] - Latest(c) + 1)
           /\ Latest(c) \in Nat /\ sent[c] \in Nat
<1> DEFINE fd == ev[e].fd
           b == ev[e].buf
           t == inbox[c]
<1>1. /\ TypeInv /\ EventTypes /\ Data /\ HeldMapped /\ InboxLast /\ Counts /\ fd \in FDs /\ sock[fd] = c /\ c # None /\ c \in Conns
      /\ eventMapper[fd] = e
  BY Numbers DEF IInv, TypeInv, Edges, Data, EventTypes, ConnOf, HeldMapped
<1>2. /\ b \in Seq(Requests) /\ t \in Seq(Requests) /\ Len(b) \in Nat /\ Len(t) \in Nat
      /\ Latest(c) \in Nat /\ sent[c] \in Nat /\ Len(wire[c]) \in Nat /\ e # None
  BY <1>1, EventFacts, Numbers
<1>3. TextOf(e) = b \o t
  BY DEF TextOf
<1> HIDE DEF b, t
<1>4. /\ TextOf(e) \in Seq(Requests) /\ n = Len(b) + Len(t)
      /\ \A i \in 1..Len(b) : TextOf(e)[i] = b[i]
      /\ \A i \in 1..Len(t) : TextOf(e)[Len(b) + i] = t[i]
      /\ \A i \in 1..n : i \in 1..Len(b) \/ \E j \in 1..Len(t) : i = Len(b) + j
  <2>1. /\ b \o t \in Seq(Requests) /\ Len(b \o t) = Len(b) + Len(t)
        /\ \A i \in 1..Len(b) : (b \o t)[i] = b[i]
        /\ \A i \in 1..Len(t) : (b \o t)[Len(b) + i] = t[i]
        /\ \A i \in 1..(Len(b) + Len(t)) : i \in 1..Len(b) \/ \E j \in 1..Len(t) : i = Len(b) + j
    BY <1>2, RangeConcat
  <2> QED
    BY <1>3, <2>1
<1>5. n \in Nat /\ n >= 1 /\ Head(TextOf(e)) = TextOf(e)[1]
  <2>1. n \in Nat /\ n # 0
    <3> HIDE DEF TextOf
    <3>1. Len(TextOf(e)) \in Nat /\ (TextOf(e) = <<>> <=> Len(TextOf(e)) = 0)
      BY <1>4, SeqFacts
    <3> QED
      BY <3>1
  <2> QED
    BY <1>4, <2>1, RangeTail
<1>6. Text(fd) = b
  <2>1. b = <<>> \/ Head(b) = Head(TextOf(e))
    <3> SUFFICES ASSUME b # <<>> PROVE Head(b) = Head(TextOf(e))
      OBVIOUS
    <3>1. Head(b) = b[1] /\ 1 \in 1..Len(b)
      BY <1>2, RangeTail
    <3> QED
      BY <1>4, <1>5, <3>1
  <2>2. ~Poisoned(b)
    BY <2>1 DEF Poisoned
  <2> QED
    BY <1>1, <1>2, <2>2 DEF Text, b
<1>7. Unread(fd) = n
  BY <1>1, <1>4, <1>6 DEF Unread, t
<1>8. ~Taken(e)
  BY DEF Taken
<1>9. TextOfDescriptor(fd)
  BY <1>1 DEF Data, TextLast, TextOfDescriptor, ConnOf
<1>10. n = sent[c] - Latest(c) \/ (/\ peer[c] \in AfterFin /\ Len(wire[c]) < Latest(c)
                                    /\ n = sent[c] - Latest(c) + 1)
  BY <1>1, <1>7, <1>8, <1>9 DEF TextOfDescriptor
<1>11. n <= sent[c]
  BY <1>2, <1>5, <1>10
<1>12. \A i \in 1..n : TextOf(e)[i] = <<c, sent[c] - n + i>>
  <2> SUFFICES ASSUME NEW i \in 1..n PROVE TextOf(e)[i] = <<c, sent[c] - n + i>>
    OBVIOUS
  <2>1. CASE i \in 1..Len(b)
    BY <1>1, <1>4, <1>6, <1>7, <1>9, <2>1 DEF TextOfDescriptor
  <2>2. ASSUME NEW j \in 1..Len(t), i = Len(b) + j PROVE TextOf(e)[i] = <<c, sent[c] - n + i>>
    <3>1. t[j] = <<c, sent[c] - Len(t) + j>>
      BY <1>1 DEF InboxLast, t
    <3>2. sent[c] - Len(t) + j = sent[c] - n + i
      BY <1>2, <1>4, <2>2
    <3> QED
      BY <1>4, <2>2, <3>1, <3>2
  <2> QED
    BY <1>4, <2>1, <2>2
<1> QED
  BY <1>2, <1>4, <1>5, <1>10, <1>11, <1>12

\* A call leaves the process alive at every stage but the write.
LEMMA CallLives ==
    ASSUME IInv, NEW e, Called(e), ev[e].stage # 5
    PROVE  pc' = pc
BY DEF Called, Fate

LEMMA FetchesData ==
    ASSUME IInv, NEW e, Called(e), Fetches(e)
    PROVE  Data'
<1> PICK c : c = ConnOf(e)
  OBVIOUS
<1> PICK fd : fd = ev[e].fd
  OBVIOUS
<1> PICK text : text = TextOf(e)
  OBVIOUS
<1> PICK n : n = Len(text)
  OBVIOUS
<1>1. /\ TypeInv /\ ClientTypes /\ EventTypes /\ Data /\ HeldMapped
      /\ e \in EventIds /\ e \in Hands /\ fd \in FDs /\ sock[fd] = c
      /\ ev[e].stage = 1 /\ c \in Conns /\ peer[c] # "rst" /\ text # <<>> /\ ~Malformed(Head(text))
      /\ \A f \in EventIds \ {e} : ev'[f] = ev[f] /\ Pending(f)' = Pending(f)
      /\ ev'[e].fd = fd /\ ev'[e].stage = 2 /\ ev'[e].cur = Head(text)
      /\ ev'[e].buf = IF peer[c] \in AfterFin THEN text ELSE Tail(text)
      /\ inbox' = [inbox EXCEPT ![c] = <<>>]
      /\ UNCHANGED <<sent, phase, peer, wire, sock, executed, eventMapper>>
  BY DEF IInv, TypeInv, Edges, Called, Fetches, Touches, TextKept, ConnOf
<1>2. /\ c # None /\ None \notin EventIds /\ eventMapper[fd] = e /\ pc' = pc /\ phase[c] = "open"
      /\ \A d : Latest(d)' = Latest(d)
      /\ \A g \in FDs : sock[g] # None => sock[g] \in Conns
      /\ \A g \in FDs : eventMapper[g] # None => eventMapper[g] \in EventIds /\ ev[eventMapper[g]].fd = g
      /\ inbox'[c] = <<>> /\ \A d \in Conns \ {c} : inbox'[d] = inbox[d]
  <2>1. c # None /\ None \notin EventIds
    BY <1>1, Numbers
  <2> QED
    BY <1>1, <2>1, Numbers, LatestStays, CallLives DEF HeldMapped, ClientTypes
<1>3. /\ text \in Seq(Requests) /\ n \in Nat /\ n >= 1 /\ n <= sent[c]
      /\ \A i \in 1..n : text[i] = <<c, sent[c] - n + i>>
      /\ n = sent[c] - Latest(c) \/ (/\ peer[c] \in AfterFin /\ Len(wire[c]) < Latest(c)
                                     /\ n = sent[c] - Latest(c) + 1)
      /\ Latest(c) \in Nat /\ sent[c] \in Nat
  BY <1>1, ReadText DEF ConnOf
<1>4. Len(wire[c]) \in Nat /\ Len(wire[c]) <= Latest(c) /\ sent[c] <= Len(wire[c]) + Window
  BY <1>1, Numbers DEF Data, Counts
<1>5. /\ Head(text) = <<c, sent[c] - n + 1>> /\ c \notin Bad
      /\ Tail(text) \in Seq(Requests) /\ Len(Tail(text)) = n - 1
      /\ \A i \in 1..(n - 1) : Tail(text)[i] = <<c, sent[c] - n + 1 + i>>
  <2>1. /\ Head(text) = text[1] /\ Tail(text) \in Seq(Requests) /\ Len(Tail(text)) = n - 1
        /\ \A i \in 1..(n - 1) : Tail(text)[i] = text[i + 1]
    BY <1>1, <1>3, RangeTail
  <2>2. \A i \in 1..(n - 1) : i + 1 \in 1..n /\ sent[c] - n + (i + 1) = sent[c] - n + 1 + i
    <3>1. n \in Nat /\ sent[c] \in Nat
      BY <1>3
    <3> QED
      BY <3>1
  <2>3. text[1] = <<c, sent[c] - n + 1>>
    BY <1>3
  <2>4. Head(text) = <<c, sent[c] - n + 1>>
    BY <2>1, <2>3
  <2>5. c \notin Bad
    BY <1>1, <2>4 DEF Malformed
  <2>6. \A i \in 1..(n - 1) : Tail(text)[i] = <<c, sent[c] - n + 1 + i>>
    BY <1>3, <2>1, <2>2
  <2> QED
    BY <2>1, <2>4, <2>5, <2>6
<1>5a. ~Poisoned(ev'[e].buf)
  <2>1. CASE peer[c] \in AfterFin
    BY <1>1, <2>1 DEF Poisoned
  <2>2. CASE peer[c] \notin AfterFin
    <3> SUFFICES ASSUME Tail(text) # <<>> PROVE ~Malformed(Head(Tail(text)))
      BY <1>1, <2>2 DEF Poisoned
    <3>1. Head(Tail(text)) = Tail(text)[1] /\ 1 \in 1..(n - 1)
      <4>1. Head(Tail(text)) = Tail(text)[1] /\ 1 \in 1..Len(Tail(text))
        BY <1>5, RangeTail
      <4> QED
        BY <1>5, <4>1
    <3>2. Tail(text)[1] = <<c, sent[c] - n + 1 + 1>>
      BY <1>5, <3>1
    <3> QED
      BY <1>5, <3>1, <3>2 DEF Malformed
  <2> QED
    BY <2>1, <2>2
<1>6. /\ Owner(e)' = c /\ Number(e)' = sent[c] - n + 1 /\ Taken(e)' /\ ~Owes(e)' /\ Serves(e)'
      /\ ~Taken(e) /\ ~Owes(e) /\ ~Serves(e)
  BY <1>1, <1>5 DEF Owner, Number, Taken, Owes, Serves
<1>7. \A f \in EventIds \ {e} : /\ Taken(f)' <=> Taken(f)
                                /\ Owes(f)' <=> Owes(f)
                                /\ Serves(f)' <=> Serves(f)
                                /\ Owner(f)' = Owner(f) /\ Number(f)' = Number(f)
  BY <1>1, OthersServe
<1>8. \A f : Owner(f)' = Owner(f) => Latest(Owner(f))' = Latest(Owner(f))
  BY <1>1 DEF Latest, RequestServer!Latest, RequestServer!Ran
<1>9. Counts' /\ InboxLast' /\ Waiting'
  <2>1. Counts'
    BY <1>1, <1>2 DEF Data, Counts
  <2>2. InboxLast'
    <3> SUFFICES ASSUME NEW d \in Conns, NEW i \in 1..Len(inbox'[d])
                 PROVE  inbox'[d][i] = <<d, sent'[d] - Len(inbox'[d]) + i>>
      BY DEF InboxLast
    <3>1. d # c /\ inbox'[d] = inbox[d]
      BY <1>2, Emptied
    <3> QED
      BY <1>1, <3>1 DEF Data, InboxLast
  <2>3. Waiting'
    BY <1>1, <1>2 DEF Data, Waiting
  <2> QED
    BY <2>1, <2>2, <2>3
<1>10. TakenNext'
  <2> SUFFICES ASSUME NEW f \in EventIds, Taken(f)'
               PROVE  /\ Owner(f)' \in Conns /\ phase'[Owner(f)'] \in {"open", "dropped"}
                      /\ Number(f)' = Latest(Owner(f))' + 1 \/ (Number(f)' = Latest(Owner(f))' /\ peer'[Owner(f)'] \in AfterFin)
                      /\ Len(wire'[Owner(f)']) < Number(f)' /\ Number(f)' <= sent'[Owner(f)']
    BY DEF TakenNext
  <2>1. CASE f = e
    <3>1. Latest(Owner(e))' = Latest(c)
      BY <1>1, <1>6 DEF Latest, RequestServer!Latest, RequestServer!Ran
    <3>2. Number(e)' = Latest(c) + 1 \/ (Number(e)' = Latest(c) /\ peer[c] \in AfterFin)
      BY <1>3, <1>6
    <3>3. Len(wire[c]) < Number(e)' /\ Number(e)' <= sent[c]
      BY <1>3, <1>4, <1>6
    <3> QED
      BY <1>1, <1>2, <1>6, <2>1, <3>1, <3>2, <3>3
  <2>2. CASE f # e
    BY <1>1, <1>7, <1>8, <2>2 DEF Data, TakenNext
  <2> QED
    BY <2>1, <2>2
<1>11. OwedLatest'
  BY <1>1, <1>6, <1>7, <1>8 DEF Data, OwedLatest
<1>12. OwnDescriptor' /\ OneServes'
  <2>1. OwnDescriptor'
    BY <1>1, <1>6, <1>7 DEF Data, OwnDescriptor
  <2>2. \A f \in EventIds \ {e} : Serves(f) => Owner(f) # c
    BY <1>1, <1>2, RequestServed
  <2>3. OneServes'
    BY <1>1, <1>6, <1>7, <2>2 DEF Data, OneServes
  <2> QED
    BY <2>1, <2>3
<1>13. TextLast' /\ UpAnswered'
  <2> SUFFICES ASSUME NEW g \in FDs, sock'[g] # None
               PROVE  /\ peer'[sock'[g]] # "rst" => TextOfDescriptor(g)'
                      /\ peer'[sock'[g]] = "up" => AnsweredOn(g)'
    BY DescriptorsData
  <2>1. sock'[g] = sock[g] /\ sock[g] # None /\ Latest(sock[g])' = Latest(sock[g])
    BY <1>1 DEF Latest, RequestServer!Latest, RequestServer!Ran
  <2>2. CASE g # fd
    <3> PICK f : f = eventMapper[g]
      OBVIOUS
    <3>1. eventMapper'[g] = f /\ (f # None => f \in EventIds /\ f # e)
      BY <1>1, <1>2, <2>2
    <3>2. inbox'[sock[g]] = inbox[sock[g]]
      <4>1. sock[g] # c
        BY <1>1, <1>2, <2>1, <2>2 DEF ClientTypes
      <4> QED
        BY <1>2, <2>1, <4>1
    <3>3. f # None => ev'[f] = ev[f] /\ (Taken(f)' <=> Taken(f)) /\ (Owes(f)' <=> Owes(f))
      BY <1>1, <1>7, <3>1
    <3> QED
      BY <1>1, <2>1, <3>1, <3>2, <3>3, SameDescriptor
  <2>3. CASE g = fd
    <3>1. eventMapper'[g] = e /\ Taken(eventMapper[g])' /\ ~Owes(eventMapper[g])' /\ Number(eventMapper[g])' = sent[c] - n + 1
          /\ e # None
      <4>1. eventMapper'[g] = e /\ e # None
        BY <1>1, <1>2, <2>3
      <4> QED
        BY <1>6, <4>1 DEF Taken, Owes, Number
    <3>2. Text(g)' = ev'[e].buf
      <4>1. Poisoned(ev[eventMapper[g]].buf)' <=> Poisoned(ev'[e].buf)
        BY <3>1 DEF Poisoned, Malformed
      <4> QED
        BY <1>5a, <3>1, <4>1 DEF Text
    <3>3. Len(Text(g)') \in Nat /\ Unread(g)' = Len(Text(g)')
      <4>1. Len(Text(g)') \in Nat
        BY <1>1, <1>3, <1>5, <3>2
      <4>2. Len(inbox'[sock'[g]]) = 0
        BY <1>1, <1>2, <2>3, Emptied
      <4>3. Unread(g)' = Len(Text(g)') + 0
        BY <4>2 DEF Unread
      <4> QED
        BY <4>1, <4>3
    <3>4. TextOfDescriptor(g)'
      <4>1. CASE peer[c] \in AfterFin
        <5>1. Text(g)' = text /\ Unread(g)' = n /\ n = sent[c] - (sent[c] - n + 1) + 1
          BY <1>1, <1>3, <3>2, <3>3, <4>1
        <5> QED
          BY <1>1, <1>3, <2>3, <3>1, <4>1, <5>1 DEF TextOfDescriptor
      <4>2. CASE peer[c] \notin AfterFin
        <5>1. Text(g)' = Tail(text) /\ Unread(g)' = n - 1 /\ n - 1 = sent[c] - (sent[c] - n + 1)
          BY <1>1, <1>3, <1>5, <3>2, <3>3, <4>2
        <5>2. \A i \in 1..(n - 1) : Tail(text)[i] = <<c, sent[c] - (n - 1) + i>>
          <6>1. \A i \in 1..(n - 1) : sent[c] - (n - 1) + i = sent[c] - n + 1 + i
            BY <1>3
          <6> QED
            BY <1>5, <6>1
        <5>3. sock'[g] = c /\ sent'[c] = sent[c] /\ Len(Text(g)') = n - 1
          BY <1>1, <1>5, <2>3, <5>1
        <5>4. \A i \in 1..Len(Text(g)') : Text(g)'[i] = <<sock'[g], sent'[sock'[g]] - Unread(g)' + i>>
          BY <5>1, <5>2, <5>3
        <5>5. Unread(g)' = sent'[sock'[g]] - Number(eventMapper[g])'
          BY <3>1, <5>1, <5>3
        <5> QED
          BY <3>1, <5>4, <5>5 DEF TextOfDescriptor
      <4> QED
        BY <4>1, <4>2
    <3>5. ASSUME peer[c] = "up" PROVE AnsweredOn(g)'
      <4>1. AnsweredOn(g)
        BY <1>1, <1>2, <2>3, <3>5 DEF Data, UpAnswered, AnsweredOn
      <4>2. eventMapper[g] = e /\ ~Owes(eventMapper[g])
        BY <1>2, <1>6, <2>3
      <4> QED
        BY <1>1, <2>1, <3>1, <4>1, <4>2 DEF AnsweredOn
    <3> QED
      BY <1>1, <2>3, <3>4, <3>5
  <2> QED
    BY <2>2, <2>3
<1>14. ClosedFinished'
  <2> SUFFICES ASSUME NEW g \in FDs, sock'[g] = None, eventMapper'[g] # None
               PROVE  /\ ev'[eventMapper'[g]].stage = 6
                      /\ ev'[eventMapper'[g]].buf = <<>> \/ Malformed(Head(ev'[eventMapper'[g]].buf))
    BY DEF ClosedFinished, Malformed
  <2>1. eventMapper'[g] = eventMapper[g] /\ ev'[eventMapper[g]] = ev[eventMapper[g]] /\ sock[g] = None
    BY <1>1, <1>2
  <2> QED
    BY <1>1, <2>1 DEF Data, ClosedFinished
<1>15. PoisonedDropped'
  BY <1>1, <1>5a DEF Data, PoisonedDropped, Poisoned, Malformed
<1>16. NothingBehind'
  <2>1. Window = 1 /\ ev'[e].buf # <<>> => peer[c] \in AfterFin
    <3> SUFFICES ASSUME Window = 1, peer[c] \notin AfterFin PROVE Tail(text) = <<>>
      BY <1>1
    <3>1. n = 1
      <4>1. n = sent[c] - Latest(c)
        BY <1>3
      <4>2. n \in Nat /\ n >= 1 /\ Latest(c) \in Nat /\ sent[c] \in Nat
        BY <1>3
      <4> QED
        BY <1>4, <4>1, <4>2
    <3> QED
      BY <1>5, <3>1, SeqFacts
  <2>2. peer[c] \in AfterFin => Head(ev'[e].buf)[1] = c
    BY <1>1, <1>5
  <2> SUFFICES ASSUME Window = 1, NEW f \in EventIds, ev'[f].buf # <<>>, ~Malformed(Head(ev'[f].buf))
               PROVE  peer'[Head(ev'[f].buf)[1]] \in AfterFin
    BY DEF NothingBehind, Malformed
  <2>3. CASE f = e
    BY <1>1, <2>1, <2>2, <2>3
  <2>4. CASE f # e
    BY <1>1, <2>4 DEF Data, NothingBehind
  <2> QED
    BY <2>3, <2>4
<1>17. OpenHasDescriptor' /\ Patience' /\ KeptUnlessPoisoned' /\ DiesOfLeaversOnly'
  <2>1. OpenHasDescriptor'
    BY <1>1 DEF Data, OpenHasDescriptor
  <2>2. Patience'
    BY <1>1 DEF Data, Patience, MultiThreaded
  <2>3. KeptUnlessPoisoned'
    BY <1>1 DEF Data, KeptUnlessPoisoned, GoodClientsKept
  <2>4. DiesOfLeaversOnly'
    BY <1>1, <1>2 DEF Data, DiesOfLeaversOnly, LeftUnanswered
  <2> QED
    BY <2>1, <2>2, <2>3, <2>4
<1> QED
  BY <1>9, <1>10, <1>11, <1>12, <1>13, <1>14, <1>15, <1>16, <1>17 DEF Data

\* The first of two texts put together.
LEMMA HeadConcat ==
    ASSUME NEW b \in Seq(Requests), NEW t \in Seq(Requests)
    PROVE  /\ b # <<>> => Head(b \o t) = Head(b)
           /\ b = <<>> => b \o t = t
           /\ b \o t = <<>> => t = <<>>
<1> DEFINE s == b \o t
<1>1. /\ s \in Seq(Requests) /\ Len(s) = Len(b) + Len(t) /\ \A i \in 1..Len(b) : s[i] = b[i]
      /\ Len(b) \in Nat /\ Len(t) \in Nat
  BY RangeConcat, SeqFacts
<1>0. b = <<>> => s = t
  BY ConcatEmptySeq
<1> HIDE DEF s
<1>2. ASSUME b # <<>> PROVE Head(s) = Head(b)
  <2>1. Head(b) = b[1] /\ 1 \in 1..Len(b)
    BY <1>2, RangeTail
  <2>2. Len(s) # 0
    BY <1>1, <2>1
  <2>3. s # <<>>
    BY <1>1, <2>2, SeqFacts
  <2>4. Head(s) = s[1]
    BY <1>1, <2>3, RangeTail
  <2> QED
    BY <1>1, <2>1, <2>4
<1>3. ASSUME s = <<>> PROVE t = <<>>
  <2>1. Len(s) = 0
    BY <1>3, Emptied
  <2>2. \A m, k \in Nat : m + k = 0 => k = 0
    OBVIOUS
  <2>3. Len(b) + Len(t) = 0
    BY <1>1, <2>1
  <2>4. Len(t) = 0
    BY ONLY <1>1, <2>2, <2>3
  <2> QED
    BY <2>4, SeqFacts
<1> QED
  BY <1>0, <1>2, <1>3 DEF s

LEMMA RefusesData ==
    ASSUME IInv, NEW e, Called(e), Refuses(e)
    PROVE  Data'
<1> PICK c : c = ConnOf(e)
  OBVIOUS
<1> PICK fd : fd = ev[e].fd
  OBVIOUS
<1> PICK text : text = TextOf(e)
  OBVIOUS
<1>1. /\ TypeInv /\ ClientTypes /\ EventTypes /\ Data /\ HeldMapped /\ HeldHasInput /\ InboxLast
      /\ e \in EventIds /\ e \in Hands /\ fd \in FDs /\ sock[fd] = c
      /\ ev[e].stage = 1 /\ c \in Conns /\ text \in Seq(Requests) /\ (text # <<>> => Malformed(Head(text)))
      /\ \A f \in EventIds \ {e} : ev'[f] = ev[f]
      /\ \A f \in EventIds : Pending(f)' = Pending(f)
      /\ ev'[e].stage = 6 /\ ev'[e].buf = text /\ CloseFD(fd)
      /\ UNCHANGED <<sent, peer, wire, executed, eventMapper>>
      /\ text = ev[e].buf \o inbox[c]
  BY DEF IInv, TypeInv, Edges, Data, Called, Refuses, Touches, ConnOf, TextOf
<1>2. /\ c # None /\ e # None /\ eventMapper[fd] = e /\ pc' = pc
      /\ \A g \in FDs : eventMapper[g] # None => eventMapper[g] \in EventIds /\ ev[eventMapper[g]].fd = g
      /\ \A d \in Conns : phase'[d] = IF d = c THEN "dropped" ELSE phase[d]
      /\ ev[e].buf \in Seq(Requests) /\ inbox[c] \in Seq(Requests)
  <2>1. c # None /\ e # None
    BY <1>1, Numbers
  <2>2. \A d \in Conns : phase'[d] = IF d = c THEN "dropped" ELSE phase[d]
    BY <1>1, Closes
  <2> QED
    BY <1>1, <2>1, <2>2, Numbers, EventFacts, CallLives DEF HeldMapped
<1>3. ~Serves(e) /\ ~Serves(e)'
  BY <1>1 DEF Serves, Taken, Owes
<1>4. \A g \in FDs \ {fd} : eventMapper'[g] = eventMapper[g] /\ (eventMapper[g] = None \/ eventMapper[g] # e)
  BY <1>1, <1>2
<1>5. eventMapper'[fd] # None => /\ ev'[eventMapper'[fd]].stage = 6
                                 /\ ev'[eventMapper'[fd]].buf = <<>> \/ Malformed(Head(ev'[eventMapper'[fd]].buf))
  BY <1>1, <1>2
\* Text that is not RESP was the connection's own, or is older than it.
<1>6. /\ ev[e].buf # <<>> => Head(text) = Head(ev[e].buf)
      /\ ev[e].buf = <<>> => text = inbox[c]
      /\ text = <<>> => inbox[c] = <<>>
  <2> PICK b : b = ev[e].buf
    OBVIOUS
  <2> PICK t : t = inbox[c]
    OBVIOUS
  <2>1. b \in Seq(Requests) /\ t \in Seq(Requests) /\ text = b \o t
    BY <1>1, <1>2
  <2> SUFFICES /\ b # <<>> => Head(text) = Head(b)
               /\ b = <<>> => text = t
               /\ text = <<>> => t = <<>>
    OBVIOUS
  <2> QED
    BY ONLY <2>1, HeadConcat
<1>8. text = inbox[c] /\ text # <<>> => Head(text)[1] = c
  <2> SUFFICES ASSUME text = inbox[c], text # <<>> PROVE Head(text)[1] = c
    OBVIOUS
  <2>1. Head(text) = text[1] /\ 1 \in 1..Len(text)
    BY <1>1, RangeTail
  <2>2. text[1] = <<c, sent[c] - Len(text) + 1>>
    BY <1>1, <2>1 DEF InboxLast
  <2> QED
    BY <2>1, <2>2
<1>9. text # <<>> => Head(text)[1] \in Bad /\ phase'[Head(text)[1]] = "dropped"
  <2> SUFFICES ASSUME text # <<>> PROVE Head(text)[1] \in Bad /\ phase'[Head(text)[1]] = "dropped"
    OBVIOUS
  <2>1. Head(text)[1] \in Bad /\ Head(text)[1] \in Conns
    BY <1>1, ServerAssumption DEF Malformed, ServerAssumption
  <2>2. CASE ev[e].buf = <<>>
    BY <1>2, <1>6, <1>8, <2>1, <2>2
  <2>3. CASE ev[e].buf # <<>>
    <3>1. phase[Head(ev[e].buf)[1]] = "dropped"
      BY <1>1, <1>6, <2>3 DEF Data, PoisonedDropped, Poisoned
    <3> QED
      BY <1>2, <1>6, <2>1, <2>3, <3>1
  <2> QED
    BY <2>2, <2>3
<1>10. PoisonedDropped' /\ NothingBehind'
  <2>1. PoisonedDropped'
    <3> SUFFICES ASSUME NEW f \in EventIds, Poisoned(ev'[f].buf) PROVE phase'[Head(ev'[f].buf)[1]] = "dropped"
      BY DEF PoisonedDropped, Poisoned, Malformed
    <3>1. CASE f = e
      BY <1>1, <1>9, <3>1 DEF Poisoned
    <3>2. CASE f # e
      <4>1. phase[Head(ev'[f].buf)[1]] = "dropped"
        BY <1>1, <3>2 DEF Data, PoisonedDropped
      <4>2. Head(ev'[f].buf)[1] \in Conns
        BY ServerAssumption DEF Poisoned, Malformed, ServerAssumption
      <4> QED
        BY <1>2, <4>1, <4>2
    <3> QED
      BY <3>1, <3>2
  <2>2. NothingBehind'
    <3> SUFFICES ASSUME Window = 1, NEW f \in EventIds, ev'[f].buf # <<>>, ~Malformed(Head(ev'[f].buf))
                 PROVE  peer'[Head(ev'[f].buf)[1]] \in AfterFin
      BY DEF NothingBehind, Malformed
    <3>1. f # e
      BY <1>1
    <3> QED
      BY <1>1, <3>1 DEF Data, NothingBehind
  <2> QED
    BY <2>1, <2>2
<1>11. KeptUnlessPoisoned'
  <2>1. \A b \in Bad : phase[b] = "dropped" => phase'[b] = "dropped"
    BY <1>2, ServerAssumption DEF ServerAssumption
  <2>2. CASE \E b \in Bad : phase[b] = "dropped"
    BY <2>1, <2>2 DEF KeptUnlessPoisoned
  <2>3. CASE text # <<>>
    BY <1>9, <2>3 DEF KeptUnlessPoisoned
  <2>4. CASE text = <<>> /\ GoodClientsKept
    <3>1. inbox[c] = <<>>
      BY <1>6, <2>4
    <3>2. peer[c] # "up"
      BY <1>1, <1>2, <3>1 DEF HeldHasInput
    <3>3. GoodClientsKept'
      BY <1>1, <1>2, <2>4, <3>2 DEF GoodClientsKept
    <3> QED
      BY <3>3 DEF KeptUnlessPoisoned
  <2> QED
    BY <1>1, <2>2, <2>3, <2>4 DEF Data, KeptUnlessPoisoned
<1>12. DiesOfLeaversOnly'
  BY <1>1, <1>2 DEF Data, DiesOfLeaversOnly, LeftUnanswered
<1>13. /\ CloseFD(fd) /\ UNCHANGED <<sent, peer, wire, executed>>
       /\ \A f \in EventIds : Pending(f)' = Pending(f) /\ (f # e => ev'[f] = ev[f])
  BY <1>1
<1>14. fd \in FDs /\ (e \in EventIds => ~Serves(e) /\ ~Serves(e)')
  BY <1>1, <1>3
<1> QED
  BY <1>4, <1>5, <1>10, <1>11, <1>12, <1>13, <1>14, ClosedData

-----------------------------------------------------------------------------
(* Executing and answering.                                                   *)

\* The event that serves a connection's request moves on; the rest is as it was.
MovesOn(e, c, n, fd) ==
    /\ e \in EventIds /\ Serves(e) /\ c = Owner(e) /\ n = Number(e) /\ fd = ev[e].fd
    /\ UNCHANGED <<sent, phase, peer, inbox, sock, eventMapper>>
    /\ \A f \in EventIds : /\ ev'[f].fd = ev[f].fd /\ ev'[f].buf = ev[f].buf /\ ev'[f].cur = ev[f].cur
                           /\ ev[f].stage = 6 => ev'[f].stage = 6
    /\ \A f \in EventIds \ {e} : (Taken(f)' <=> Taken(f)) /\ (Owes(f)' <=> Owes(f))
    /\ \A d \in Conns \ {c} : Latest(d)' = Latest(d) /\ wire'[d] = wire[d]
    /\ Len(wire'[c]) <= Latest(c)' /\ Latest(c)' <= sent[c] /\ sent[c] <= Len(wire'[c]) + Window
    /\ ~Taken(e)' /\ (Owes(e)' => n = Latest(c)' /\ Len(wire'[c]) < n)
    /\ sock[fd] # None /\ peer[c] = "up" => Latest(c)' = Len(wire'[c]) + IF Owes(e)' THEN 1 ELSE 0
    /\ sock[fd] # None /\ peer[c] # "rst" =>
           \/ Unread(fd) = sent[c] - Latest(c)'
           \/ /\ peer[c] \in AfterFin /\ Len(wire'[c]) < Latest(c)'
              /\ Unread(fd) = sent[c] - Latest(c)' + 1
    /\ MultiThreaded /\ peer[c] = "fin" => Len(wire'[c]) = sent[c]

LEMMA ServesOnData ==
    ASSUME IInv, NEW e, NEW c, NEW n, NEW fd, MovesOn(e, c, n, fd), DiesOfLeaversOnly'
    PROVE  Data'
<1> SUFFICES ASSUME e \in EventIds, Serves(e), c = Owner(e), n = Number(e),
                    UNCHANGED <<sent, phase, peer, inbox, sock, eventMapper>>,
                    \A f \in EventIds : /\ ev'[f].fd = ev[f].fd /\ ev'[f].buf = ev[f].buf /\ ev'[f].cur = ev[f].cur
                                        /\ ev[f].stage = 6 => ev'[f].stage = 6,
                    \A f \in EventIds \ {e} : (Taken(f)' <=> Taken(f)) /\ (Owes(f)' <=> Owes(f)),
                    \A d \in Conns \ {c} : Latest(d)' = Latest(d) /\ wire'[d] = wire[d],
                    Len(wire'[c]) <= Latest(c)', Latest(c)' <= sent[c], sent[c] <= Len(wire'[c]) + Window,
                    ~Taken(e)', Owes(e)' => n = Latest(c)' /\ Len(wire'[c]) < n,
                    fd = ev[e].fd,
                    sock[fd] # None /\ peer[c] = "up" => Latest(c)' = Len(wire'[c]) + IF Owes(e)' THEN 1 ELSE 0,
                    sock[fd] # None /\ peer[c] # "rst" =>
                        \/ Unread(fd) = sent[c] - Latest(c)'
                        \/ /\ peer[c] \in AfterFin /\ Len(wire'[c]) < Latest(c)'
                           /\ Unread(fd) = sent[c] - Latest(c)' + 1,
                    MultiThreaded /\ peer[c] = "fin" => Len(wire'[c]) = sent[c]
             PROVE  Data'
  BY DEF MovesOn
<1>1. /\ TypeInv /\ ClientTypes /\ EventTypes /\ Data
      /\ c \in Conns /\ fd \in FDs
      /\ sock[fd] # None => eventMapper[fd] = e /\ sock[fd] = c
      /\ \A g \in FDs : sock[g] = c => g = fd /\ eventMapper[g] = e
      /\ \A g \in FDs : eventMapper[g] # None => eventMapper[g] \in EventIds /\ ev[eventMapper[g]].fd = g
      /\ \A g \in FDs : sock[g] # None => sock[g] \in Conns /\ phase[sock[g]] = "open"
      /\ None \notin Conns /\ None \notin EventIds
  BY RequestServed, Numbers DEF IInv, TypeInv
<1>2. phase[c] \in {"open", "dropped"}
  BY <1>1 DEF Data, Serves, TakenNext, OwedLatest
<1>3. \A f \in EventIds : /\ Owner(f)' = Owner(f) /\ Number(f)' = Number(f)
                          /\ Serves(f)' => Serves(f)
  BY DEF Owner, Number, Serves
<1>4. \A f \in EventIds \ {e} : Serves(f) => Owner(f) # c
  BY <1>1 DEF Data, OneServes
<1>6. ASSUME NEW f \in EventIds \ {e}, Serves(f)
      PROVE  /\ Owner(f) \in Conns \ {c} /\ wire'[Owner(f)] = wire[Owner(f)]
             /\ Latest(Owner(f))' = Latest(Owner(f))
  <2>1. Owner(f) \in Conns \ {c} /\ Owner(f)' = Owner(f)
    BY <1>3, <1>4, <1>6, RequestServed
  <2> PICK d : d = Owner(f)
    OBVIOUS
  <2>2. Latest(d)' = Latest(d) /\ wire'[d] = wire[d]
    BY <2>1
  <2>3. Owner(f)' = d
    BY <2>1
  <2> QED
    BY <2>1, <2>2, <2>3 DEF Latest, RequestServer!Latest, RequestServer!Ran
<1>7. Latest(Owner(e))' = Latest(c)'
  <2>1. Owner(e)' = c
    BY <1>3
  <2> QED
    BY <2>1 DEF Latest, RequestServer!Latest, RequestServer!Ran
<1>8. Counts' /\ InboxLast' /\ Waiting'
  <2>1. Counts'
    BY <1>1 DEF Data, Counts
  <2>2. InboxLast'
    BY <1>1 DEF Data, InboxLast
  <2>3. Waiting'
    <3> SUFFICES ASSUME NEW d \in Conns, phase[d] \in {"new", "backlog"}
                 PROVE  /\ Latest(d)' = 0 /\ (peer[d] # "rst" => Len(inbox[d]) = sent[d])
                        /\ phase[d] = "new" => sent[d] = 0 /\ peer[d] = "up"
      BY DEF Waiting
    <3>1. d # c
      BY <1>2
    <3> QED
      BY <1>1, <3>1 DEF Data, Waiting
  <2> QED
    BY <2>1, <2>2, <2>3
<1>9. TakenNext'
  <2> SUFFICES ASSUME NEW f \in EventIds, Taken(f)'
               PROVE  /\ Owner(f)' \in Conns /\ phase'[Owner(f)'] \in {"open", "dropped"}
                      /\ Number(f)' = Latest(Owner(f))' + 1 \/ (Number(f)' = Latest(Owner(f))' /\ peer'[Owner(f)'] \in AfterFin)
                      /\ Len(wire'[Owner(f)']) < Number(f)' /\ Number(f)' <= sent'[Owner(f)']
    BY DEF TakenNext
  <2>1. f # e /\ Taken(f) /\ Serves(f)
    <3>1. f # e
      OBVIOUS
    <3> QED
      BY <3>1 DEF Serves
  <2>2. wire'[Owner(f)] = wire[Owner(f)] /\ Latest(Owner(f))' = Latest(Owner(f)) /\ Owner(f)' = Owner(f) /\ Number(f)' = Number(f)
    BY <1>3, <1>6, <2>1
  <2>3. TakenNext
    BY <1>1 DEF Data
  <2> QED
    BY <2>1, <2>2, <2>3 DEF TakenNext
<1>10. OwedLatest'
  <2> SUFFICES ASSUME NEW f \in EventIds, Owes(f)'
               PROVE  /\ Owner(f)' \in Conns /\ phase'[Owner(f)'] \in {"open", "dropped"}
                      /\ Number(f)' = Latest(Owner(f))' /\ Len(wire'[Owner(f)']) < Number(f)'
    BY DEF OwedLatest
  <2>1. CASE f = e
    <3>1. Owner(e)' = c /\ Number(e)' = n
      BY <1>3
    <3> QED
      BY <1>1, <1>2, <1>7, <2>1, <3>1
  <2>2. CASE f # e
    <3>1. Owes(f) /\ Serves(f)
      BY <2>2 DEF Serves
    <3>2. wire'[Owner(f)] = wire[Owner(f)] /\ Latest(Owner(f))' = Latest(Owner(f)) /\ Owner(f)' = Owner(f) /\ Number(f)' = Number(f)
      BY <1>3, <1>6, <2>2, <3>1
    <3>3. OwedLatest
      BY <1>1 DEF Data
    <3> QED
      BY <3>1, <3>2, <3>3 DEF OwedLatest
  <2> QED
    BY <2>1, <2>2
<1>11. OwnDescriptor' /\ OneServes'
  <2>1. \A f \in EventIds : Serves(f)' => Serves(f)
    <3> SUFFICES ASSUME NEW f \in EventIds, Serves(f)' PROVE Serves(f)
      OBVIOUS
    <3>1. CASE f = e
      BY <3>1
    <3>2. CASE f # e
      BY <3>2 DEF Serves
    <3> QED
      BY <3>1, <3>2
  <2> QED
    BY <1>1, <1>3, <2>1 DEF Data, OwnDescriptor, OneServes
<1>12. \A g \in FDs : Text(g)' = Text(g) /\ Unread(g)' = Unread(g)
  <2>1. \A g \in FDs : Text(g)' = Text(g)
    BY <1>1 DEF Text, Poisoned, Malformed
  <2> QED
    BY <2>1 DEF Unread
<1>13. TextLast' /\ UpAnswered'
  <2> SUFFICES ASSUME NEW g \in FDs, sock'[g] # None
               PROVE  /\ peer'[sock'[g]] # "rst" => TextOfDescriptor(g)'
                      /\ peer'[sock'[g]] = "up" => AnsweredOn(g)'
    BY DescriptorsData
  <2>1. CASE sock[g] = c
    <3>1. g = fd /\ eventMapper[g] = e /\ sock'[g] = c /\ eventMapper'[g] = e /\ c # None /\ e # None
      BY <1>1, <2>1
    <3>2. /\ Taken(eventMapper[g])' <=> Taken(e)'
          /\ Owes(eventMapper[g])' <=> Owes(e)'
          /\ Latest(sock[g])' = Latest(c)'
      BY <3>1 DEF Taken, Owes, Pending, Latest, RequestServer!Latest, RequestServer!Ran
    <3>3. ASSUME peer[c] # "rst" PROVE TextOfDescriptor(g)'
      <4>1. TextOfDescriptor(g)
        BY <1>1, <2>1, <3>1, <3>3 DEF Data, TextLast, TextOfDescriptor
      <4>2. \A i \in 1..Len(Text(g)) : Text(g)[i] = <<c, sent[c] - Unread(g) + i>>
        BY <2>1, <4>1 DEF TextOfDescriptor
      <4>3. \/ Unread(g) = sent[c] - Latest(c)'
            \/ /\ peer[c] \in AfterFin /\ Len(wire'[c]) < Latest(c)'
               /\ Unread(g) = sent[c] - Latest(c)' + 1
        BY <2>1, <3>1, <3>3
      <4>4. Text(g)' = Text(g) /\ Unread(g)' = Unread(g)
        BY <1>12
      <4> QED
        BY <3>1, <3>2, <4>2, <4>3, <4>4 DEF TextOfDescriptor
    <3>4. ASSUME peer[c] = "up" PROVE AnsweredOn(g)'
      BY <2>1, <3>1, <3>2, <3>4 DEF AnsweredOn
    <3> QED
      BY <3>1, <3>3, <3>4
  <2>2. CASE sock[g] # c
    <3> PICK f : f = eventMapper[g]
      OBVIOUS
    <3>1. sock[g] \in Conns \ {c} /\ sock[g] # None /\ sock'[g] = sock[g] /\ eventMapper'[g] = f
      BY <1>1, <2>2
    <3>2. f # None => f \in EventIds \ {e}
      BY <1>1, <2>2, <3>1
    <3>3. /\ inbox'[sock[g]] = inbox[sock[g]] /\ wire'[sock[g]] = wire[sock[g]]
          /\ Latest(sock[g])' = Latest(sock[g])
      <4> PICK d : d = sock[g]
        OBVIOUS
      <4>1. Latest(d)' = Latest(d) /\ wire'[d] = wire[d] /\ sock'[g] = d
        BY <3>1
      <4> QED
        BY <4>1 DEF Latest, RequestServer!Latest, RequestServer!Ran
    <3>4. f # None => /\ ev'[f].buf = ev[f].buf /\ ev'[f].cur = ev[f].cur
                      /\ (Taken(f)' <=> Taken(f)) /\ (Owes(f)' <=> Owes(f))
      BY <3>2
    <3>5. /\ peer[sock[g]] # "rst" => TextOfDescriptor(g)'
          /\ peer[sock[g]] = "up" => AnsweredOn(g)'
      BY <3>1, <3>3, <3>4, SameDescriptor
    <3> QED
      BY <3>1, <3>5
  <2> QED
    BY <2>1, <2>2
<1>14. ClosedFinished' /\ PoisonedDropped' /\ NothingBehind'
  <2>1. ClosedFinished'
    BY <1>1 DEF Data, ClosedFinished, Malformed
  <2>2. PoisonedDropped'
    BY <1>1 DEF Data, PoisonedDropped, Poisoned, Malformed
  <2>3. NothingBehind'
    BY <1>1 DEF Data, NothingBehind, Malformed
  <2> QED
    BY <2>1, <2>2, <2>3
<1>15. OpenHasDescriptor' /\ Patience' /\ KeptUnlessPoisoned'
  <2>1. OpenHasDescriptor'
    BY <1>1 DEF Data, OpenHasDescriptor
  <2>2. Patience'
    BY <1>1 DEF Data, Patience, MultiThreaded
  <2>3. KeptUnlessPoisoned'
    BY <1>1 DEF Data, KeptUnlessPoisoned, GoodClientsKept
  <2> QED
    BY <2>1, <2>2, <2>3
<1> QED
  BY <1>8, <1>9, <1>10, <1>11, <1>13, <1>14, <1>15 DEF Data

LEMMA ExecutesData ==
    ASSUME IInv, NEW e, Called(e), Executes(e)
    PROVE  Data'
<1> PICK c : c = Owner(e)
  OBVIOUS
<1> PICK n : n = Number(e)
  OBVIOUS
<1> PICK fd : fd = ev[e].fd
  OBVIOUS
<1>1. /\ TypeInv /\ PlaceTypes /\ EventTypes /\ Data /\ StageOf
      /\ e \in EventIds /\ ev[e].stage = 3 /\ ev'[e].stage = 4 /\ ev[e].cur \in Requests
      /\ ev'[e].fd = ev[e].fd /\ ev'[e].buf = ev[e].buf /\ ev'[e].cur = ev[e].cur
      /\ \A f \in EventIds \ {e} : ev'[f] = ev[f]
      /\ \A f : Pending(f)' = Pending(f)
      /\ executed' = Append(executed, ev[e].cur)
      /\ UNCHANGED <<sent, phase, peer, inbox, wire, sock, eventMapper>>
  BY DEF IInv, TypeInv, Places, Called, Executes, Touches, Keeps, kernel
<1>2. Pending(e) = {}
  <2> SUFFICES ASSUME NEW w \in Pending(e) PROVE FALSE
    OBVIOUS
  <2>1. w \in Workers /\ worker[w].pc \in {"count", "bump"} /\ worker[w].ev = e
    BY DEF Pending
  <2>2. ev[e].stage \in WorkerStages(w)
    BY <1>1, <2>1 DEF StageOf
  <2> QED
    BY <1>1, <2>1, <2>2 DEF WorkerStages
<1>3. Taken(e) /\ ~Owes(e) /\ Serves(e) /\ ~Taken(e)' /\ Owes(e)'
  BY <1>1, <1>2 DEF Taken, Owes, Serves
<1>4. /\ c \in Conns /\ n \in Nat /\ ev[e].cur = <<c, n>>
      /\ sock[fd] # None => eventMapper[fd] = e /\ sock[fd] = c
      /\ fd \in FDs /\ c # None /\ e # None
  BY <1>1, <1>3, RequestServed, Numbers
<1>5. /\ Latest(c)' = n
      /\ \A d \in Conns \ {c} : Latest(d)' = Latest(d)
  BY <1>1, <1>4, LatestGrows
<1>6. /\ n = Latest(c) + 1 \/ (n = Latest(c) /\ peer[c] \in AfterFin)
      /\ Len(wire[c]) < n /\ n <= sent[c]
  BY <1>1, <1>3 DEF Data, TakenNext
<1>7. /\ Len(wire[c]) \in Nat /\ Latest(c) \in Nat /\ sent[c] \in Nat /\ sent[c] <= Len(wire[c]) + Window
  BY <1>1, <1>4, Numbers DEF Data, Counts
<1>8. ASSUME sock[fd] # None, peer[c] = "up" PROVE n = Len(wire[c]) + 1
  <2>1. AnsweredOn(fd)
    BY <1>1, <1>4, <1>8 DEF Data, UpAnswered, AnsweredOn
  <2>2. Latest(c) = Len(wire[c])
    <3>1. sock[fd] = c /\ eventMapper[fd] = e
      BY <1>4, <1>8
    <3>2. Latest(sock[fd]) = Latest(c) /\ ~Owes(eventMapper[fd])
      BY <1>3, <3>1
    <3>3. Latest(c) = Len(wire[c]) + 0
      BY <2>1, <3>1, <3>2 DEF AnsweredOn
    <3> QED
      BY <1>7, <3>3
  <2>3. n = Latest(c) + 1
    BY <1>6, <1>8 DEF AfterFin
  <2> QED
    BY <2>2, <2>3
<1>9. ASSUME sock[fd] # None, peer[c] # "rst"
      PROVE  \/ Unread(fd) = sent[c] - n
             \/ /\ peer[c] \in AfterFin /\ Len(wire[c]) < n
                /\ Unread(fd) = sent[c] - n + 1
  <2>1. TextOfDescriptor(fd)
    BY <1>1, <1>4, <1>9 DEF Data, TextLast, TextOfDescriptor
  <2> QED
    BY <1>3, <1>4, <1>6, <1>9, <2>1 DEF TextOfDescriptor
<1>10. DiesOfLeaversOnly'
  <2>1. pc' = pc
    BY <1>1, CallLives
  <2> QED
    BY <1>1, <2>1 DEF Data, DiesOfLeaversOnly, LeftUnanswered
<1>11. MultiThreaded /\ peer[c] = "fin" => Len(wire[c]) = sent[c]
  BY <1>1, <1>4 DEF Data, Patience
<1>12. /\ \A f \in EventIds : /\ ev'[f].fd = ev[f].fd /\ ev'[f].buf = ev[f].buf /\ ev'[f].cur = ev[f].cur
                              /\ ev[f].stage = 6 => ev'[f].stage = 6
       /\ \A f \in EventIds \ {e} : (Taken(f)' <=> Taken(f)) /\ (Owes(f)' <=> Owes(f))
  BY <1>1, OthersServe
<1>13. Len(wire'[c]) <= Latest(c)' /\ Latest(c)' <= sent[c] /\ sent[c] <= Len(wire'[c]) + Window
  BY <1>1, <1>4, <1>5, <1>6, <1>7
<1>14. /\ \A d \in Conns \ {c} : Latest(d)' = Latest(d) /\ wire'[d] = wire[d]
       /\ Owes(e)' => n = Latest(c)' /\ Len(wire'[c]) < n
       /\ sock[fd] # None /\ peer[c] = "up" => Latest(c)' = Len(wire'[c]) + IF Owes(e)' THEN 1 ELSE 0
       /\ sock[fd] # None /\ peer[c] # "rst" =>
               \/ Unread(fd) = sent[c] - Latest(c)'
               \/ /\ peer[c] \in AfterFin /\ Len(wire'[c]) < Latest(c)'
                  /\ Unread(fd) = sent[c] - Latest(c)' + 1
       /\ MultiThreaded /\ peer[c] = "fin" => Len(wire'[c]) = sent[c]
  BY <1>1, <1>3, <1>5, <1>6, <1>8, <1>9, <1>11
<1>15. UNCHANGED <<sent, phase, peer, inbox, sock, eventMapper>> /\ e \in EventIds
  BY <1>1
<1> QED
  <2>1. MovesOn(e, c, n, fd)
    BY <1>3, <1>12, <1>13, <1>14, <1>15 DEF MovesOn
  <2> QED
    BY <1>10, <2>1, ServesOnData

\* The response reaches a client that is up.
Answers(e, c, n, fd) ==
    /\ e \in EventIds /\ Owes(e) /\ c = Owner(e) /\ n = Number(e) /\ fd = ev[e].fd
    /\ sock[fd] = c /\ peer[c] = "up" /\ wire' = [wire EXCEPT ![c] = Append(@, ev[e].cur)]
    /\ UNCHANGED <<sent, phase, peer, inbox, sock, eventMapper, executed>>
    /\ \A f \in EventIds : /\ ev'[f].fd = ev[f].fd /\ ev'[f].buf = ev[f].buf /\ ev'[f].cur = ev[f].cur
                           /\ ev[f].stage = 6 => ev'[f].stage = 6
    /\ \A f \in EventIds \ {e} : (Taken(f)' <=> Taken(f)) /\ (Owes(f)' <=> Owes(f))
    /\ ~Taken(e)' /\ ~Owes(e)'

LEMMA AnswersData ==
    ASSUME IInv, NEW e, NEW c, NEW n, NEW fd, Answers(e, c, n, fd), DiesOfLeaversOnly'
    PROVE  Data'
<1>1. /\ TypeInv /\ ClientTypes /\ Data
      /\ e \in EventIds /\ Owes(e) /\ ~Taken(e) /\ Serves(e) /\ sock[fd] = c /\ peer[c] = "up"
  BY DEF IInv, TypeInv, Answers, Owes, Taken, Serves
<1>2. /\ c \in Conns /\ fd \in FDs /\ ev[e].cur \in Requests /\ c # None /\ e # None /\ eventMapper[fd] = e
      /\ Latest(c) \in Nat /\ sent[c] \in Nat /\ Len(wire[c]) \in Nat /\ wire[c] \in Seq(Requests)
  <2>1. /\ fd \in FDs /\ c \in Conns /\ ev[e].cur \in Requests
        /\ \A g \in FDs : sock[g] = c => eventMapper[g] = e
    BY <1>1, RequestServed DEF Answers
  <2> QED
    BY <1>1, <2>1, Numbers
<1>3. Len(wire[c]) <= Latest(c) /\ Latest(c) <= sent[c] /\ sent[c] <= Len(wire[c]) + Window
  BY <1>1, <1>2 DEF Data, Counts
<1>4. Latest(c) = Len(wire[c]) + 1
  <2>1. AnsweredOn(fd)
    BY <1>1, <1>2 DEF Data, UpAnswered, AnsweredOn
  <2>2. Latest(sock[fd]) = Latest(c) /\ Owes(eventMapper[fd])
    BY <1>1, <1>2
  <2> QED
    BY <1>1, <1>2, <2>1, <2>2 DEF AnsweredOn
<1>5. Unread(fd) = sent[c] - Latest(c)
  <2>1. TextOfDescriptor(fd)
    BY <1>1, <1>2 DEF Data, TextLast, TextOfDescriptor
  <2>2. Latest(sock[fd]) = Latest(c) /\ ~Taken(eventMapper[fd]) /\ peer[sock[fd]] \notin AfterFin
    BY <1>1, <1>2 DEF AfterFin
  <2> QED
    BY <1>1, <1>2, <2>1, <2>2 DEF TextOfDescriptor
<1>6. /\ wire'[c] = Append(wire[c], ev[e].cur) /\ Len(wire'[c]) = Len(wire[c]) + 1
      /\ \A d \in Conns \ {c} : wire'[d] = wire[d]
  <2>1. wire'[c] = Append(wire[c], ev[e].cur) /\ \A d \in Conns \ {c} : wire'[d] = wire[d]
    BY <1>1, <1>2 DEF Answers, ClientTypes
  <2> QED
    BY <1>2, <2>1, RangeAppend
<1>7. \A d : Latest(d)' = Latest(d)
  BY LatestStays DEF Answers
<1>8. Len(wire'[c]) = Latest(c)' /\ Latest(c)' <= sent[c]
  BY <1>3, <1>4, <1>6, <1>7
<1>9. sent[c] <= Len(wire'[c]) + Window
  <2>1. Window \in Nat
    BY ServerAssumption DEF ServerAssumption
  <2> QED
    BY <1>2, <1>3, <1>6, <2>1
<1>10. Len(wire'[c]) <= Latest(c)'
  <2>1. Latest(c)' \in Nat
    BY <1>2, <1>7
  <2> QED
    BY <1>8, <2>1
<1>11. /\ ~Owes(e)' /\ ~Taken(e)'
       /\ sock[fd] # None /\ peer[c] = "up" => Latest(c)' = Len(wire'[c]) + IF Owes(e)' THEN 1 ELSE 0
  BY <1>2, <1>4, <1>6, <1>7 DEF Answers
<1>12. Unread(fd) = sent[c] - Latest(c)' /\ peer[c] # "fin"
  BY <1>1, <1>5, <1>7
<1>13. MovesOn(e, c, n, fd)
  BY <1>1, <1>6, <1>7, <1>8, <1>9, <1>10, <1>11, <1>12 DEF MovesOn, Answers
<1> QED
  BY <1>13, ServesOnData

\* A call that neither reads, nor executes, nor writes.
LEMMA RestingCallData ==
    ASSUME IInv, NEW e, Called(e), FailsToRead(e) \/ Bumps(e) \/ Rests(e)
    PROVE  Data'
<1>1. /\ TypeInv /\ EventTypes /\ Data /\ e \in EventIds /\ ev[e].stage # 5 /\ ev[e].stage \in Nat
      /\ \A f : Pending(f)' = Pending(f)
      /\ UNCHANGED <<sent, phase, peer, inbox, wire, sock, executed, eventMapper>>
  <2>1. TypeInv /\ EventTypes /\ Data /\ e \in EventIds
    BY DEF IInv, TypeInv, Called
  <2>2. ev[e].stage \in Nat
    BY <2>1, EventFacts
  <2> QED
    BY <2>1, <2>2 DEF Called, FailsToRead, Bumps, Rests, kernel
<1>2. \A f \in EventIds : /\ ev'[f].fd = ev[f].fd /\ ev'[f].buf = ev[f].buf /\ ev'[f].cur = ev[f].cur
                          /\ ev'[f].stage = ev[f].stage
                             \/ (ev[f].stage = 2 /\ ev'[f].stage = 3) \/ (ev[f].stage = 4 /\ ev'[f].stage = 5)
  BY <1>1 DEF FailsToRead, Bumps, Rests, Touches, Keeps
<1>3. \A f \in EventIds : (Taken(f)' <=> Taken(f)) /\ (Owes(f)' <=> Owes(f))
  BY <1>1, <1>2 DEF Taken, Owes
<1>4. DiesOfLeaversOnly'
  <2>1. pc' = pc
    BY <1>1, CallLives
  <2> QED
    BY <1>1, <2>1 DEF Data, DiesOfLeaversOnly, LeftUnanswered
<1>5. \A c \in Conns : peer'[c] = peer[c]
  BY <1>1
<1>6. \A f \in EventIds : ev[f].stage = 6 => ev'[f].stage = 6
  BY <1>2
<1> QED
  BY <1>1, <1>2, <1>3, <1>4, <1>5, <1>6, SameData

\* The write, in one thread.
LEMMA FinishesData ==
    ASSUME IInv, NEW e, Called(e), Finishes(e)
    PROVE  Data'
<1> PICK fd : fd = ev[e].fd
  OBVIOUS
<1> PICK c : c = sock[fd]
  OBVIOUS
<1>1. /\ TypeInv /\ ClientTypes /\ PlaceTypes /\ EventTypes /\ Data /\ Counted /\ ~MultiThreaded
      /\ e \in EventIds /\ ev[e].stage = 5 /\ ev'[e].stage = 6 /\ eWrite(e)
      /\ \A f \in EventIds \ {e} : ev'[f] = ev[f]
      /\ \A f \in EventIds : ev'[f].fd = ev[f].fd /\ ev'[f].buf = ev[f].buf /\ ev'[f].cur = ev[f].cur
      /\ UNCHANGED <<sent, eventMapper, executed>> /\ pc' = Fate(e)
      /\ \A f \in EventIds : Pending(f)' = Pending(f)
  BY DEF IInv, TypeInv, Places, Called, Finishes, Touches, Keeps
<1>2. Workers = {} /\ Pending(e) = {} /\ ~ev[e].written
  <2>1. Workers = {}
    BY <1>1 DEF MultiThreaded
  <2> QED
    BY <1>1, <2>1 DEF Pending, Counted
<1>3. Owes(e) /\ Serves(e) /\ ~Taken(e) /\ ~Taken(e)' /\ ~Owes(e)'
  BY <1>1, <1>2 DEF Owes, Serves, Taken
<1>4. fd \in FDs /\ (c # None => c = Owner(e) /\ c \in Conns)
  BY <1>1, <1>3, RequestServed, Numbers
<1>5. UNCHANGED <<phase, inbox, sock>>
  BY <1>1, <1>4, WriteTells
<1>6. /\ \A f \in EventIds : ev[f].stage = 6 => ev'[f].stage = 6
      /\ \A f \in EventIds \ {e} : (Taken(f)' <=> Taken(f)) /\ (Owes(f)' <=> Owes(f))
  BY <1>1, OthersServe
\* Only a client that closed without its response is broken while one is owed.
<1>7. /\ \A d \in Conns : wire'[d] = wire[d] \/ peer[d] = "up"
      /\ \A d \in Conns : peer'[d] = peer[d] \/ (peer[d] = "fin" /\ peer'[d] = "gone")
  <2>1. \A d \in Conns : peer'[d] = peer[d] \/ (peer[d] = "fin" /\ peer'[d] = "gone")
    BY <1>1, <1>4, WriteTells
  <2>2. \A d \in Conns : wire'[d] = wire[d] \/ peer[d] = "up"
    BY <1>1, <1>4 DEF eWrite, kernel, ClientTypes
  <2> QED
    BY <2>1, <2>2
<1>8. \A d \in Conns : LeftUnanswered(d) => LeftUnanswered(d)'
  BY <1>1, <1>7 DEF LeftUnanswered, AfterFin
<1>9. DiesOfLeaversOnly'
  <2> SUFFICES ASSUME pc' = "dead" PROVE \E d \in Conns : LeftUnanswered(d)'
    BY DEF DiesOfLeaversOnly
  <2>1. CASE pc = "dead"
    <3>1. PICK d \in Conns : LeftUnanswered(d)
      BY <1>1, <2>1 DEF Data, DiesOfLeaversOnly
    <3>2. LeftUnanswered(d)'
      BY <1>8, <3>1
    <3> QED
      BY <3>2
  <2>2. CASE pc # "dead"
    <3>1. c \in Conns /\ c = Owner(e) /\ peer[c] = "broken"
      BY <1>1, <1>4, <2>2 DEF Fate
    <3>2. Len(wire[c]) < Latest(c) /\ Latest(c) <= sent[c]
      <4>1. Number(e) = Latest(Owner(e)) /\ Len(wire[Owner(e)]) < Number(e)
        BY <1>1, <1>3 DEF Data, OwedLatest
      <4>2. Latest(c) <= sent[c]
        BY <1>1, <3>1 DEF Data, Counts
      <4> QED
        BY <3>1, <4>1, <4>2
    <3>3. Len(wire[c]) < sent[c]
      <4>1. Len(wire[c]) \in Nat /\ Latest(c) \in Nat /\ sent[c] \in Nat
        BY <1>1, <3>1, Numbers
      <4> QED
        BY <3>2, <4>1
    <3>4. LeftUnanswered(c)
      BY <3>1, <3>3 DEF LeftUnanswered, AfterFin
    <3>5. LeftUnanswered(c)'
      BY <1>8, <3>1, <3>4
    <3> QED
      BY <3>1, <3>5
  <2> QED
    BY <2>1, <2>2
<1>10. CASE c # None /\ peer[c] = "up"
  <2> PICK n : n = Number(e)
    OBVIOUS
  <2>1. wire' = [wire EXCEPT ![c] = Append(@, ev[e].cur)] /\ UNCHANGED peer
    BY <1>1, <1>2, <1>10 DEF eWrite
  <2>2. Answers(e, c, n, fd)
    BY <1>1, <1>3, <1>4, <1>5, <1>6, <1>10, <2>1 DEF Answers
  <2> QED
    BY <1>9, <2>2, AnswersData
<1>11. CASE ~(c # None /\ peer[c] = "up")
  <2>1. UNCHANGED wire
    BY <1>1, <1>11 DEF eWrite, kernel
  <2>2. \A f \in EventIds : /\ Taken(f)' <=> Taken(f)
                            /\ Owes(f)' => Owes(f)
                            /\ Owes(f) /\ sock[ev[f].fd] # None /\ peer[sock[ev[f].fd]] = "up" => Owes(f)'
    <3> SUFFICES ASSUME NEW f \in EventIds
                 PROVE  /\ Taken(f)' <=> Taken(f)
                        /\ Owes(f)' => Owes(f)
                        /\ Owes(f) /\ sock[ev[f].fd] # None /\ peer[sock[ev[f].fd]] = "up" => Owes(f)'
      OBVIOUS
    <3>1. CASE f = e
      BY <1>3, <1>11, <3>1
    <3>2. CASE f # e
      BY <1>6, <3>2
    <3> QED
      BY <3>1, <3>2
  <2> QED
    BY <1>1, <1>5, <1>6, <1>7, <1>9, <2>1, <2>2, SameData
<1> QED
  BY <1>10, <1>11

LEMMA CalledData ==
    ASSUME IInv, NEW e, Called(e)
    PROVE  Data'
BY FetchesData, RefusesData, ExecutesData, RestingCallData, FinishesData DEF Called, Calls

-----------------------------------------------------------------------------
(* The workers' write, and the rest.                                          *)

\* Steps that only hand events and reports on.
LEMMA MovesData ==
    ASSUME IInv, UNCHANGED <<sent, phase, peer, inbox, wire, sock, eventMapper, ev, executed>>,
           \A e : Pending(e)' = Pending(e), pc' = "dead" => pc = "dead"
    PROVE  Data'
<1>1. \A e \in EventIds : (Taken(e)' <=> Taken(e)) /\ (Owes(e)' <=> Owes(e))
  BY DEF Taken, Owes
<1>2. DiesOfLeaversOnly'
  BY DEF IInv, Data, DiesOfLeaversOnly, LeftUnanswered
<1> QED
  BY <1>1, <1>2, SameData

LEMMA WritesOutData ==
    ASSUME IInv, NEW w, NEW e, WritesOut(w, e)
    PROVE  Data'
<1> PICK fd : fd = ev[e].fd
  OBVIOUS
<1> PICK c : c = sock[fd]
  OBVIOUS
<1>1. /\ TypeInv /\ ClientTypes /\ Data /\ MultiThreaded /\ Patience
      /\ e \in EventIds /\ ev[e].stage = 5 /\ ~ev[e].written /\ eWrite(e)
      /\ Pending(e) = {} /\ Pending(e)' = {w} /\ \A f \in EventIds \ {e} : Pending(f)' = Pending(f)
      /\ UNCHANGED <<sent, eventMapper, executed, ev, pc>>
  BY DEF IInv, TypeInv, Data, WritesOut
<1>2. Owes(e) /\ Serves(e) /\ ~Taken(e) /\ ~Taken(e)' /\ ~Owes(e)'
  BY <1>1 DEF Owes, Serves, Taken
<1>3. fd \in FDs /\ (c # None => c = Owner(e) /\ c \in Conns)
  BY <1>1, <1>2, RequestServed, Numbers
<1>4. UNCHANGED <<phase, inbox, sock>>
  BY <1>1, <1>3, WriteTells
<1>5. \A f \in EventIds \ {e} : (Taken(f)' <=> Taken(f)) /\ (Owes(f)' <=> Owes(f))
  BY <1>1, OthersServe
\* A patient client that closed is owed nothing.
<1>6. c # None => peer[c] # "fin"
  <2> SUFFICES ASSUME c # None, peer[c] = "fin" PROVE FALSE
    OBVIOUS
  <2>1. Len(wire[c]) = sent[c] /\ Len(wire[c]) \in Nat /\ Latest(c) \in Nat /\ sent[c] \in Nat
    BY <1>1, <1>3, Numbers DEF Patience
  <2>2. Latest(c) <= sent[c]
    BY <1>1, <1>3 DEF Data, Counts
  <2>3. Number(e) = Latest(Owner(e)) /\ Len(wire[Owner(e)]) < Number(e)
    BY <1>1, <1>2 DEF Data, OwedLatest
  <2>4. Len(wire[c]) < Latest(c)
    BY <1>3, <2>3
  <2> QED
    BY <2>1, <2>2, <2>4
<1>7. DiesOfLeaversOnly'
  <2>1. \A d \in Conns : peer'[d] = peer[d] /\ (wire'[d] = wire[d] \/ peer[d] = "up")
    BY <1>1, <1>3, <1>6 DEF eWrite, kernel, ClientTypes
  <2> QED
    BY <1>1, <2>1 DEF Data, DiesOfLeaversOnly, LeftUnanswered, AfterFin
<1>8. CASE c # None /\ peer[c] = "up"
  <2> PICK n : n = Number(e)
    OBVIOUS
  <2>1. wire' = [wire EXCEPT ![c] = Append(@, ev[e].cur)] /\ UNCHANGED peer
    BY <1>1, <1>8 DEF eWrite
  <2>2. \A f \in EventIds : /\ ev'[f].fd = ev[f].fd /\ ev'[f].buf = ev[f].buf /\ ev'[f].cur = ev[f].cur
                            /\ ev[f].stage = 6 => ev'[f].stage = 6
    BY <1>1
  <2>3. Answers(e, c, n, fd)
    BY <1>1, <1>2, <1>3, <1>4, <1>5, <1>8, <2>1, <2>2 DEF Answers
  <2> QED
    BY <1>7, <2>3, AnswersData
<1>9. CASE ~(c # None /\ peer[c] = "up")
  <2>1. UNCHANGED <<wire, peer>>
    BY <1>1, <1>6, <1>9 DEF eWrite, kernel
  <2>2. \A f \in EventIds : /\ Taken(f)' <=> Taken(f)
                            /\ Owes(f)' => Owes(f)
                            /\ Owes(f) /\ sock[ev[f].fd] # None /\ peer[sock[ev[f].fd]] = "up" => Owes(f)'
    <3> SUFFICES ASSUME NEW f \in EventIds
                 PROVE  /\ Taken(f)' <=> Taken(f)
                        /\ Owes(f)' => Owes(f)
                        /\ Owes(f) /\ sock[ev[f].fd] # None /\ peer[sock[ev[f].fd]] = "up" => Owes(f)'
      OBVIOUS
    <3>1. CASE f = e
      BY <1>2, <1>9, <3>1
    <3>2. CASE f # e
      BY <1>5, <3>2
    <3> QED
      BY <3>1, <3>2
  <2> QED
    BY <1>1, <1>4, <1>7, <2>1, <2>2, SameData
<1> QED
  BY <1>8, <1>9

LEMMA CountsOutData ==
    ASSUME IInv, NEW w, NEW e, CountsOut(w, e)
    PROVE  Data'
<1>1. /\ UNCHANGED <<sent, phase, peer, inbox, wire, sock, executed, eventMapper, pc>>
      /\ \A f \in EventIds : /\ ev'[f].fd = ev[f].fd /\ ev'[f].buf = ev[f].buf /\ ev'[f].cur = ev[f].cur
                             /\ ev'[f].stage = ev[f].stage /\ Pending(f)' = Pending(f)
  BY DEF CountsOut, Touches, Keeps, kernel
<1>2. \A f \in EventIds : (Taken(f)' <=> Taken(f)) /\ (Owes(f)' <=> Owes(f))
  BY <1>1 DEF Taken, Owes
<1>3. DiesOfLeaversOnly'
  BY <1>1 DEF IInv, Data, DiesOfLeaversOnly, LeftUnanswered
<1>4. (\A c \in Conns : peer'[c] = peer[c]) /\ \A f \in EventIds : ev[f].stage = 6 => ev'[f].stage = 6
  BY <1>1
<1> QED
  BY <1>1, <1>2, <1>3, <1>4, SameData

LEMMA BumpsOutData ==
    ASSUME IInv, NEW w, NEW e, BumpsOut(w, e)
    PROVE  Data'
<1>1. /\ UNCHANGED <<sent, phase, peer, inbox, wire, sock, executed, eventMapper, pc>>
      /\ e \in EventIds /\ ev[e].stage = 5 /\ ev'[e].stage = 6 /\ Pending(e) = {w}
      /\ \A f \in EventIds : ev'[f].fd = ev[f].fd /\ ev'[f].buf = ev[f].buf /\ ev'[f].cur = ev[f].cur
      /\ \A f \in EventIds \ {e} : ev'[f] = ev[f] /\ Pending(f)' = Pending(f)
  BY DEF BumpsOut, Touches, Keeps, kernel
<1>2. \A f \in EventIds : (Taken(f)' <=> Taken(f)) /\ (Owes(f)' <=> Owes(f))
  <2>1. ~Taken(e) /\ ~Taken(e)' /\ ~Owes(e) /\ ~Owes(e)'
    BY <1>1 DEF Taken, Owes
  <2>2. \A f \in EventIds \ {e} : (Taken(f)' <=> Taken(f)) /\ (Owes(f)' <=> Owes(f))
    BY <1>1, OthersServe
  <2> QED
    BY <2>1, <2>2
<1>3. DiesOfLeaversOnly'
  BY <1>1 DEF IInv, Data, DiesOfLeaversOnly, LeftUnanswered
<1>4. (\A c \in Conns : peer'[c] = peer[c]) /\ \A f \in EventIds : ev[f].stage = 6 => ev'[f].stage = 6
  BY <1>1
<1> QED
  BY <1>1, <1>2, <1>3, <1>4, SameData

LEMMA NextKeepsData ==
    ASSUME IInv, Calm, Next
    PROVE  Data'
<1>1. CASE Clients
  BY <1>1, ClientData
<1>2. CASE EpollWait \/ Listening \/ \E fd \in FDs : Writable(fd)
  <2>1. \A e : Pending(e)' = Pending(e)
    BY <1>2, ReportPlaces
  <2> QED
    BY <1>2, <2>1, MovesData DEF EpollWait, Listening, Writable, kernel
<1>3. CASE Accept
  BY <1>3, AcceptData
<1>4. CASE Serve
  BY <1>4, ServePlacesSingle, ServePlacesCore, CalledData
<1>5. CASE Served \/ Dispatched \/ Swap \/ HandOver
  <2>1. \A e : Pending(e)' = Pending(e)
    BY <1>5, ServedPlaces, DispatchedPlaces, SwapPlaces, HandOverPlaces
  <2> QED
    BY <1>5, <2>1, MovesData DEF Served, Dispatched, Swap, HandOver, kernel
<1>6. ASSUME NEW fd \in FDs, HangUp(fd) \/ Readable(fd) PROVE Data'
  BY <1>6, HangUpData, ReadableData
<1>7. ASSUME NEW w \in Workers, WorkerStep(w) PROVE Data'
  <2>1. CASE TakeTask(w)
    <3>1. \A e : Pending(e)' = Pending(e)
      BY <2>1, TakeTaskPlaces
    <3> QED
      BY <2>1, <3>1, MovesData DEF TakeTask, kernel, loop
  <2>2. CASE Trigger(w)
    BY <2>2, TriggerPlaces, CalledData
  <2>3. CASE Write(w)
    BY <2>3, WritePlaces, WritesOutData
  <2>4. CASE Count(w)
    BY <2>4, CountPlaces, CountsOutData
  <2>5. CASE BumpStage(w)
    BY <2>5, BumpStagePlaces, BumpsOutData
  <2> QED
    BY <1>7, <2>1, <2>2, <2>3, <2>4, <2>5 DEF WorkerStep
<1> QED
  BY <1>1, <1>2, <1>3, <1>4, <1>5, <1>6, <1>7 DEF Next, Loop

-----------------------------------------------------------------------------
(* The inductive invariant.                                                   *)

LEMMA InitPlaces == Init => Places /\ Hands = {} /\ \A e : Pending(e) = {}
<1> SUFFICES ASSUME Init PROVE Places /\ Hands = {} /\ \A e : Pending(e) = {}
  OBVIOUS
<1>1. Working = {} /\ EventsOf(<<>>) = {} /\ EventsOnce(<<>>)
  BY Emptied DEF Init, Working, IdleWorker, EventsOf, EventsOnce
<1>2. Hands = {} /\ \A e : Pending(e) = {}
  BY <1>1, Emptied DEF Init, Hands, Pending, IdleWorker
<1>3. Once
  <2>1. \A v, w \in Workers : worker[v].ev = worker[w].ev /\ worker[v].ev # None => v = w
    BY DEF Init, IdleWorker
  <2> QED
    BY <1>1, <2>1, Emptied DEF Init, Once
<1>4. Turn
  BY Emptied DEF Init, Turn
<1>5. StageOf
  BY Emptied DEF Init, StageOf, IdleWorker, NewEvent
<1>6. Counted
  BY DEF Init, Counted, NewEvent
<1> QED
  BY <1>2, <1>3, <1>4, <1>5, <1>6 DEF Places

LEMMA InitEdges == Init => Edges
<1> SUFFICES ASSUME Init PROVE Edges
  OBVIOUS
<1>1. Hands = {} /\ ready = {} /\ batch = {} /\ now = <<>> /\ Range(now) = {} /\ \A fd \in FDs : sock[fd] = None
  BY InitPlaces, Emptied DEF Init
<1> QED
  BY <1>1 DEF Edges, ReadyOpen, OneMask, HungUp, HasInput, ClosedQueued, HeldUnreported, HeldMapped, HeldHasInput,
     NoEdgeWhileHeld, ServedUnreported, NoLostEdge, LeftUnread, In, EdgeIn

LEMMA InitData == Init => Data
<1> SUFFICES ASSUME Init PROVE Data
  OBVIOUS
<1>1. \A c : Latest(c) = 0
  BY Emptied DEF Init, Latest, RequestServer!Latest, RequestServer!Ran
<1>2. \A e \in EventIds : ~Taken(e) /\ ~Owes(e) /\ ~Serves(e) /\ ev[e].buf = <<>>
  BY DEF Init, NewEvent, Taken, Owes, Serves
<1>3. Counts /\ InboxLast /\ Waiting
  <2>1. Window \in Nat
    BY ServerAssumption DEF ServerAssumption
  <2> QED
    BY <1>1, <2>1, Emptied DEF Init, Counts, InboxLast, Waiting
<1>4. TakenNext /\ OwedLatest /\ OwnDescriptor /\ OneServes /\ PoisonedDropped /\ NothingBehind
  BY <1>2 DEF TakenNext, OwedLatest, OwnDescriptor, OneServes, PoisonedDropped, NothingBehind, Poisoned
<1>5. UpAnswered /\ TextLast /\ ClosedFinished
  BY DEF Init, UpAnswered, TextLast, ClosedFinished
<1>6. OpenHasDescriptor /\ Patience /\ KeptUnlessPoisoned /\ DiesOfLeaversOnly
  BY DEF Init, OpenHasDescriptor, Patience, KeptUnlessPoisoned, GoodClientsKept, DiesOfLeaversOnly
<1> QED
  BY <1>3, <1>4, <1>5, <1>6 DEF Data

LEMMA NextKeepsInv ==
    ASSUME Calm
    PROVE  IInv /\ [Next]_vars => IInv'
<1> SUFFICES ASSUME IInv, [Next]_vars PROVE IInv'
  OBVIOUS
<1>1. TypeInv'
  BY NextKeepsTypes DEF IInv
<1>2. CASE Next
  BY <1>1, <1>2, NextKeepsPlacesAndEdges, NextKeepsData, NextKeepsArrivals DEF IInv
<1>3. CASE UNCHANGED vars
  <2>1. Turn'
    BY <1>3 DEF IInv, Places, Turn, vars, loop
  <2>2. /\ UNCHANGED <<sent, phase, peer, inbox, wire, sock, ready, eventMapper, ev, executed, batch, readReady, pc>>
        /\ UNCHANGED <<readTasks, now, pos, pool, worker>>
    BY <1>3 DEF vars, kernel, loop
  <2>3. Places' /\ Hands' = Hands /\ \A e : Pending(e)' = Pending(e)
    BY <2>1, <2>2, SamePlaces
  <2>4. Edges'
    <3>1. \A g \in FDs : In(g) => In(g)'
      BY <2>2 DEF In
    <3> QED
      BY <2>2, <2>3, <3>1, SameEdges
  <2>5. Data'
    BY <2>2, <2>3, MovesData
  <2>6. Arrivals'
    BY <1>3, <2>2, <2>3, SameArrivals DEF vars
  <2> QED
    BY <1>1, <2>3, <2>4, <2>5, <2>6 DEF IInv
<1> QED
  BY <1>2, <1>3

LEMMA InvHolds ==
    ASSUME Calm
    PROVE  Spec => []IInv
<1>1. Init => IInv
  <2>1. Init => Arrivals
    BY DEF Init, Arrivals
  <2> QED
    BY <2>1, InitTypes, InitPlaces, InitEdges, InitData DEF IInv
<1>2. IInv /\ [Next]_vars => IInv'
  BY NextKeepsInv
<1> QED
  BY <1>1, <1>2, PTL DEF Spec

-----------------------------------------------------------------------------
(* What the invariant gives.                                                  *)

LEMMA InvGivesNothingForgotten == IInv /\ Window = 1 => NothingForgotten
<1> SUFFICES ASSUME IInv, Window = 1, Quiet, NEW c \in Conns, phase[c] = "open", peer[c] = "up"
             PROVE  Len(wire[c]) = sent[c]
  BY DEF NothingForgotten
<1>1. /\ TypeInv /\ PlaceTypes /\ Edges /\ Data /\ Turn
      /\ pc = "wait" /\ Reported = {} /\ readReady = <<>> /\ pool = <<>>
      /\ \A w \in Workers : worker[w].ev = None
  BY DEF IInv, TypeInv, Places, Quiet, PlaceTypes
<1>2. Hands = {} /\ batch = {}
  <2>1. readTasks = <<>> /\ now = <<>> /\ batch = {}
    BY <1>1 DEF Turn
  <2>2. Working = {} /\ EventsOf(pool) = {}
    BY <1>1, Emptied DEF Working, EventsOf
  <2> QED
    BY <1>1, <2>1, <2>2, Emptied DEF Hands
<1>3. PICK g \in FDs : sock[g] = c
  BY <1>1 DEF Data, OpenHasDescriptor
<1>4. /\ c # None /\ g # ServerFD /\ g \notin ready
      /\ Latest(c) \in Nat /\ sent[c] \in Nat /\ Len(wire[c]) \in Nat /\ Len(inbox[c]) \in Nat
      /\ inbox[c] \in Seq(Requests) /\ Text(g) \in Seq(Requests) /\ Len(Text(g)) \in Nat
      /\ eventMapper[g] # None => eventMapper[g] \in EventIds
  <2>1. g # ServerFD
    BY ServerAssumption DEF ServerAssumption
  <2>2. g \notin ready
    BY <1>1, <2>1 DEF Reported
  <2> QED
    BY <1>1, <2>1, <2>2, Numbers
\* Nothing is left of what it sent, neither with the kernel nor with the event.
<1>5. inbox[c] = <<>>
  <2>1. NoLostEdge /\ ~In(g) /\ eventMapper[g] \notin Hands
    BY <1>1, <1>2 DEF Edges, In
  <2> QED
    BY <1>3, <1>4, <2>1 DEF NoLostEdge
<1>6. TextOfDescriptor(g) /\ AnsweredOn(g)
  BY <1>1, <1>3, <1>4 DEF Data, TextLast, UpAnswered, TextOfDescriptor, AnsweredOn
<1>7. Text(g) = <<>>
  <2> SUFFICES ASSUME Text(g) # <<>> PROVE FALSE
    OBVIOUS
  <2> PICK b : b = Text(g)
    OBVIOUS
  <2>1. Head(b) = b[1] /\ 1 \in 1..Len(b)
    BY <1>4, RangeTail
  <2>2. b[1] = <<c, sent[c] - Unread(g) + 1>>
    BY <1>3, <1>6, <2>1 DEF TextOfDescriptor
  <2>3. /\ eventMapper[g] # None /\ b = ev[eventMapper[g]].buf
        /\ b # <<>> /\ ~Malformed(Head(b))
    BY DEF Text, Poisoned
  <2>4. peer[Head(b)[1]] \in AfterFin
    BY <1>1, <1>4, <2>3 DEF Data, NothingBehind
  <2> QED
    BY <2>1, <2>2, <2>4 DEF AfterFin
<1>8. Unread(g) = 0
  <2>1. Len(Text(g)) = 0 /\ Len(inbox[c]) = 0
    BY <1>5, <1>7, Emptied
  <2> QED
    BY <1>3, <2>1 DEF Unread
<1>9. eventMapper[g] # None => ~Taken(eventMapper[g]) /\ ~Owes(eventMapper[g])
  <2> SUFFICES ASSUME NEW e \in EventIds, e = eventMapper[g] PROVE ~Taken(e) /\ ~Owes(e)
    BY <1>4
  <2>1. ~Serves(e)
    BY <1>2, RequestServed
  <2> QED
    BY <2>1 DEF Serves
<1>10. sent[c] - Latest(c) = 0
  <2>1. peer[sock[g]] \notin AfterFin /\ Latest(sock[g]) = Latest(c)
    BY <1>3 DEF AfterFin
  <2> QED
    BY <1>3, <1>6, <1>8, <1>9, <2>1 DEF TextOfDescriptor
<1>11. Latest(c) = Len(wire[c]) + 0
  <2>1. Latest(sock[g]) = Latest(c)
    BY <1>3
  <2> QED
    BY <1>3, <1>6, <1>9, <2>1 DEF AnsweredOn
<1> QED
  BY <1>4, <1>10, <1>11

LEMMA InvGivesOneHolder == IInv => OneHolder
BY HoldersAndHands DEF IInv, TypeInv, Places, OneHolder

LEMMA InvGivesCoreOnly == IInv => CoreOnly
BY DEF IInv, Places, StageOf, WorkerStages, CoreOnly

-----------------------------------------------------------------------------
(* The refinement.                                                            *)

Leaving == {c \in Conns : peer[c] \in AfterFin}
SameForClients ==
    UNCHANGED <<sent, executed, wire>> /\ \A c \in Conns : peer'[c] \in AfterFin <=> peer[c] \in AfterFin

LEMMA SameForClientsStutters ==
    ASSUME SameForClients
    PROVE  UNCHANGED RequestServer!vars
<1>1. Leaving' = Leaving
  BY DEF SameForClients, Leaving
<1> QED
  BY <1>1 DEF SameForClients, Leaving, RequestServer!vars

LEMMA ClientsImplement ==
    ASSUME IInv, Clients
    PROVE  [RequestServer!Next]_(RequestServer!vars)
<1>1. ClientTypes
  BY DEF IInv, TypeInv
<1>2. ASSUME NEW c \in Conns, Connect(c) PROVE SameForClients
  BY <1>2 DEF Connect, SameForClients
<1>3. ASSUME NEW c \in Conns, Send(c) PROVE RequestServer!Ask(c)
  <2>1. Leaving' = Leaving
    BY <1>3 DEF Send, Leaving
  <2> QED
    BY <1>3, <2>1 DEF Send, loop, Leaving, RequestServer!Ask
<1>4. ASSUME NEW c \in Conns, Quit(c) PROVE RequestServer!Leave(c)
  <2>1. peer' = [peer EXCEPT ![c] = peer'[c]] /\ peer'[c] \in AfterFin
    BY <1>1, <1>4 DEF Quit, ClientTypes, AfterFin
  <2>2. Leaving' = Leaving \union {c}
    BY <1>1, <2>1 DEF Leaving, ClientTypes
  <2> QED
    BY <1>4, <2>2 DEF Quit, Leaving, RequestServer!Leave
<1>5. ASSUME NEW c \in Conns, Reset(c) \/ Abort(c) PROVE SameForClients
  BY <1>1, <1>5 DEF Reset, Abort, SameForClients, AfterFin, ClientTypes
<1> QED
  BY <1>2, <1>3, <1>4, <1>5, SameForClientsStutters DEF Clients, RequestServer!Next

\* A write of a response that is owed is an answer or is not seen.
LEMMA WriteImplements ==
    ASSUME IInv, NEW e \in EventIds, Owes(e), ~ev[e].written, eWrite(e), UNCHANGED <<sent, executed>>
    PROVE  [RequestServer!Next]_(RequestServer!vars)
<1> PICK fd : fd = ev[e].fd
  OBVIOUS
<1> PICK c : c = sock[fd]
  OBVIOUS
<1>1. TypeInv /\ ClientTypes /\ Data /\ Serves(e) /\ ~Taken(e)
  BY DEF IInv, TypeInv, Serves, Owes, Taken
<1>2. fd \in FDs /\ (c # None => c = Owner(e) /\ c \in Conns /\ eventMapper[fd] = e) /\ ev[e].cur = <<Owner(e), Number(e)>>
  BY <1>1, RequestServed, Numbers
<1>3. CASE c # None /\ peer[c] = "up"
  <2>1. wire' = [wire EXCEPT ![c] = Append(@, ev[e].cur)] /\ UNCHANGED peer
    BY <1>3 DEF eWrite
  <2>2. Number(e) = Latest(Owner(e)) /\ Len(wire[Owner(e)]) < Number(e)
    BY <1>1 DEF Data, OwedLatest
  <2>3. Latest(c) = Len(wire[c]) + 1
    <3>1. AnsweredOn(fd)
      BY <1>1, <1>2, <1>3 DEF Data, UpAnswered, AnsweredOn
    <3>2. Latest(sock[fd]) = Latest(c) /\ Owes(eventMapper[fd]) /\ eventMapper[fd] # None
      BY <1>1, <1>2, <1>3, Numbers
    <3> QED
      BY <1>2, <1>3, <3>1, <3>2 DEF AnsweredOn
  <2>4. ev[e].cur = <<c, Len(wire[c]) + 1>> /\ Len(wire[c]) < RequestServer!Latest(c)
    <3>1. Number(e) = Latest(c) /\ Len(wire[c]) < Latest(c)
      BY <1>2, <1>3, <2>2
    <3> QED
      BY <1>2, <1>3, <2>3, <3>1 DEF Latest
  <2>5. wire' = [wire EXCEPT ![c] = Append(@, <<c, Len(@) + 1>>)]
    BY <2>1, <2>4
  <2>6. Leaving' = Leaving
    BY <2>1 DEF Leaving
  <2>7. RequestServer!Answer(c)
    BY <2>4, <2>5, <2>6 DEF RequestServer!Answer, Leaving
  <2> QED
    BY <1>2, <1>3, <2>7 DEF RequestServer!Next
<1>4. CASE ~(c # None /\ peer[c] = "up")
  <2>1. UNCHANGED wire /\ \A d \in Conns : peer'[d] = peer[d] \/ (peer[d] = "fin" /\ peer'[d] = "gone")
    <3>1. UNCHANGED wire
      BY <1>4 DEF eWrite, kernel
    <3> QED
      BY <1>1, <1>2, <3>1, WriteTells
  <2>2. SameForClients
    BY <2>1 DEF SameForClients, AfterFin
  <2> QED
    BY <2>2, SameForClientsStutters
<1> QED
  BY <1>3, <1>4

LEMMA CalledImplements ==
    ASSUME IInv, NEW e, Called(e)
    PROVE  [RequestServer!Next]_(RequestServer!vars)
<1>1. TypeInv /\ EventTypes /\ Data /\ e \in EventIds /\ Calls(e) /\ UNCHANGED sent
  BY DEF IInv, TypeInv, Called
<1>2. CASE Executes(e)
  <2> PICK c : c = Owner(e)
    OBVIOUS
  <2> PICK n : n = Number(e)
    OBVIOUS
  <2>1. /\ Taken(e) /\ Serves(e) /\ executed' = Append(executed, ev[e].cur)
        /\ UNCHANGED <<sent, peer, wire>>
    BY <1>1, <1>2 DEF Executes, Taken, Serves, kernel
  <2>2. c \in Conns /\ n \in Nat /\ ev[e].cur = <<c, n>>
    BY <1>1, <2>1, RequestServed
  <2>3. /\ n = Latest(c) + 1 \/ (n = Latest(c) /\ peer[c] \in AfterFin)
        /\ Len(wire[c]) < n /\ n <= sent[c]
    BY <1>1, <2>1 DEF Data, TakenNext
  <2>4. Latest(c) \in Nat /\ sent[c] \in Nat
    BY <1>1, <2>2, Numbers
  <2>5. \/ RequestServer!Latest(c) < sent[c] /\ executed' = Append(executed, <<c, RequestServer!Latest(c) + 1>>)
        \/ /\ c \in Leaving /\ Len(wire[c]) < RequestServer!Latest(c)
           /\ executed' = Append(executed, <<c, RequestServer!Latest(c)>>)
    <3>1. CASE n = Latest(c) + 1
      <4>1. Latest(c) < sent[c]
        BY <2>2, <2>3, <2>4, <3>1
      <4>2. executed' = Append(executed, <<c, Latest(c) + 1>>)
        BY <2>1, <2>2, <3>1
      <4> QED
        BY <4>1, <4>2 DEF Latest
    <3>2. CASE n = Latest(c) /\ peer[c] \in AfterFin
      BY <2>1, <2>2, <2>3, <3>2 DEF Latest, Leaving
    <3> QED
      BY <2>3, <3>1, <3>2
  <2>6. Leaving' = Leaving
    BY <2>1 DEF Leaving
  <2>7. RequestServer!Execute(c)
    BY <2>1, <2>5, <2>6 DEF RequestServer!Execute, Leaving
  <2> QED
    BY <2>2, <2>7 DEF RequestServer!Next
<1>3. CASE Finishes(e)
  <2>1. ~MultiThreaded /\ ev[e].stage = 5 /\ eWrite(e) /\ UNCHANGED executed
    BY <1>3 DEF Called, Finishes
  <2>2. Workers = {}
    BY <2>1 DEF MultiThreaded
  <2>3. Owes(e) /\ ~ev[e].written
    <3>1. Pending(e) = {} /\ Counted
      BY <2>2 DEF Pending, IInv, Places
    <3> QED
      BY <1>1, <2>1, <2>2, <3>1 DEF Owes, Counted
  <2> QED
    BY <1>1, <2>1, <2>3, WriteImplements
<1>4. CASE FailsToRead(e) \/ Fetches(e) \/ Refuses(e) \/ Bumps(e) \/ Rests(e)
  <2>1. SameForClients
    BY <1>1, <1>4 DEF FailsToRead, Fetches, Refuses, Bumps, Rests, SameForClients, kernel
  <2> QED
    BY <2>1, SameForClientsStutters
<1> QED
  BY <1>1, <1>2, <1>3, <1>4 DEF Calls

LEMMA NextImplements ==
    ASSUME IInv, [Next]_vars
    PROVE  [RequestServer!Next]_(RequestServer!vars)
<1>1. CASE Clients
  BY <1>1, ClientsImplement
<1>2. CASE EpollWait \/ Listening \/ Accept \/ Served \/ Dispatched \/ Swap \/ HandOver
  <2>1. SameForClients
    BY <1>2 DEF EpollWait, Listening, Accept, Served, Dispatched, Swap, HandOver, SameForClients, kernel
  <2> QED
    BY <2>1, SameForClientsStutters
<1>3. CASE Serve
  BY <1>3, ServePlacesSingle, ServePlacesCore, CalledImplements
<1>4. ASSUME NEW fd \in FDs, HangUp(fd) \/ Writable(fd) \/ Readable(fd) PROVE SameForClients
  BY <1>4 DEF HangUp, Writable, Readable, SameForClients, kernel
<1>5. ASSUME NEW w \in Workers, WorkerStep(w) PROVE [RequestServer!Next]_(RequestServer!vars)
  <2>1. CASE TakeTask(w)
    <3>1. SameForClients
      BY <2>1 DEF TakeTask, SameForClients, kernel
    <3> QED
      BY <3>1, SameForClientsStutters
  <2>2. CASE Trigger(w)
    BY <2>2, TriggerPlaces, CalledImplements
  <2>3. CASE Write(w)
    <3> PICK e : e = worker[w].ev
      OBVIOUS
    <3>1. WritesOut(w, e)
      BY <2>3, WritePlaces
    <3>2. Owes(e) /\ ~ev[e].written /\ eWrite(e) /\ e \in EventIds /\ UNCHANGED <<sent, executed>>
      BY <3>1 DEF WritesOut, Owes
    <3> QED
      BY <3>2, WriteImplements
  <2>4. CASE Count(w) \/ BumpStage(w)
    <3>1. SameForClients
      BY <2>4 DEF Count, BumpStage, SameForClients, kernel
    <3> QED
      BY <3>1, SameForClientsStutters
  <2> QED
    BY <1>5, <2>1, <2>2, <2>3, <2>4 DEF WorkerStep
<1>6. CASE UNCHANGED vars
  <2>1. SameForClients
    BY <1>6 DEF vars, kernel, SameForClients
  <2> QED
    BY <2>1, SameForClientsStutters
<1> QED
  BY <1>1, <1>2, <1>3, <1>4, <1>5, <1>6, SameForClientsStutters DEF Next, Loop

LEMMA InitImplements == Init => RequestServer!Init
BY DEF Init, RequestServer!Init, AfterFin

-----------------------------------------------------------------------------
(* The theorems.  In one thread they hold of any clients.  With workers they  *)
(* assume of the clients what Calm says: RESP, one request at a time, sent    *)
(* when no task is in the connection's event, and no connection that begins   *)
(* while another ends.  A reset may still come at any other moment, also      *)
(* while the event is in a task or in a worker's hands.                       *)

\* Who has an event is the only one that will call triggerEvent on it, so its
\* unsynchronised fields (stageNow, readDataString, bytesWritten) are used by one
\* thread at a time.
THEOREM OneHolderAtATime ==
    ASSUME Calm
    PROVE  Spec => []OneHolder
BY InvHolds, InvGivesOneHolder, PTL

\* A command is executed by the loop thread, never by an I/O worker.
THEOREM LoopThreadExecutes ==
    ASSUME Calm
    PROVE  Spec => []CoreOnly
BY InvHolds, InvGivesCoreOnly, PTL

\* The process dies (SIGPIPE at a write) only when a client closed without its
\* response.
THEOREM DiesOfLeavers ==
    ASSUME Calm
    PROVE  Spec => []DiesOfLeaversOnly
<1>1. IInv => DiesOfLeaversOnly
  BY DEF IInv, Data
<1> QED
  BY <1>1, InvHolds, PTL

\* The loop without workers closes on a client that is up and sends RESP only when
\* it has received text that is not RESP before, and closed on who sent it.
THEOREM ClosesOnPoisoned ==
    ASSUME Workers = {}
    PROVE  Spec => []KeptUnlessPoisoned
<1>1. IInv => KeptUnlessPoisoned
  BY DEF IInv, Data
<1>2. Calm
  BY DEF Calm
<1> QED
  BY <1>1, <1>2, InvHolds, PTL

\* When all clients send RESP, and with workers are patient, no client that is up
\* is closed on: no read finds a connection without input and takes it for an
\* error.  With workers and other clients one does (epoll_stale_read).
THEOREM KeepsGoodClients ==
    ASSUME Calm, Bad = {}
    PROVE  Spec => []GoodClientsKept
<1>1. IInv => GoodClientsKept
  BY DEF IInv, Data, KeptUnlessPoisoned
<1> QED
  BY <1>1, InvHolds, PTL

\* Of clients that send one request at a time, none is forgotten: neither the
\* edge-triggered epoll nor, with workers and patient clients, the tasks and the
\* list of read events lose a request.
THEOREM ForgetsNothing ==
    ASSUME Calm, Window = 1
    PROVE  Spec => []NothingForgotten
<1>1. IInv => NothingForgotten
  BY InvGivesNothingForgotten
<1> QED
  BY <1>1, InvHolds, PTL

\* The loop implements the server that executes and answers each connection's
\* requests in order and once: in one thread of any clients, with any number of
\* workers of patient ones.  With workers and other clients a response can go to
\* another connection (epoll_reuse).
THEOREM ServesInOrder ==
    ASSUME Calm
    PROVE  Spec => ImplementsRequestServer
<1>1. IInv /\ [Next]_vars => [RequestServer!Next]_(RequestServer!vars)
  BY NextImplements
<1> QED
  BY <1>1, InvHolds, InitImplements, PTL DEF Spec, ImplementsRequestServer, RequestServer!Spec
=============================================================================
