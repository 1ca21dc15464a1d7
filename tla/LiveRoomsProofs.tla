-------------------------- MODULE LiveRoomsProofs --------------------------
(***************************************************************************)
(* The properties of LiveRooms, for any browsers, sockets, rooms, words    *)
(* and bounds: one room is served, what a browser saw is stored, a draft   *)
(* extends its base without a word twice, and browsers converge.           *)
(***************************************************************************)
EXTENDS LiveRooms, SequenceTheorems, TLAPS

-----------------------------------------------------------------------------
(* Types.                                                                  *)

Docs == [items : SUBSET Item, dead : SUBSET Item]

Frame == [type : {"sync"}, items : SUBSET Item] \cup [type : {"update"}, doc : Docs]
             \cup [type : {"commit", "reset"}]

Socket == [client : Client, room : Room \cup {NoRoom}, open : BOOLEAN, handler : Handlers,
           up : Seq(Frame), down : Seq(Frame), todo : SUBSET Slot, frame : Docs]

Live == [doc : Docs, base : Nat, clients : [Client -> Slot \cup {NoSlot}], seen : SUBSET Docs]

StoreTypes ==
    /\ log \in Seq([text : SUBSET Word, parent : Nat])
    /\ \A i \in 1..Len(log) : log[i].parent \in 0..i - 1
    /\ head \in 1..Len(log) /\ tentative \in 0..Len(log) /\ tentative # head
    /\ lost \subseteq 1..Len(log) /\ head \notin lost /\ tentative \notin lost
    /\ saved \in [doc : Docs, base : 0..Len(log)]

RoomTypes ==
    /\ registered \in Room \cup {NoRoom}
    /\ rooms \in [Room -> Live] /\ \A r \in Room : rooms[r].base <= Len(log)
    /\ writes \in 0..MaxWrites
    /\ lock \in Slot \cup {NoSlot}
    /\ busy \in [slot : Slot \cup {NoSlot}, at : {"free", "persist", "commit"}]

PeerTypes ==
    /\ sockets \in [Slot -> Socket]
    /\ replica \in [Client -> Docs]
    /\ typed \subseteq Word

Serves(s) == sockets[s].handler = "serving"

\* What a handler that is not serving does not have.
Handling ==
    /\ \A s \in Slot :
          /\ Serves(s) <=> sockets[s].room # NoRoom
          /\ sockets[s].todo # {} \/ lock = s \/ busy.slot = s => Serves(s)
          /\ sockets[s].open => sockets[s].handler # "free"
    /\ busy.slot = NoSlot <=> busy.at = "free"

Typed == StoreTypes /\ RoomTypes /\ PeerTypes /\ Handling

LEMMA DocFacts ==
    /\ EmptyDoc \in Docs /\ EmptyDoc.items = {} /\ EmptyDoc.dead = {}
    /\ \A i, d \in SUBSET Item : Doc(i, d) \in Docs /\ Doc(i, d).items = i /\ Doc(i, d).dead = d
    /\ \A d, e \in Docs : /\ Merge(d, e) \in Docs
                          /\ Merge(d, e).items = d.items \cup e.items
                          /\ Merge(d, e).dead = d.dead \cup e.dead
BY DEF EmptyDoc, Doc, Docs, Merge

LEMMA MergeFacts ==
    ASSUME NEW d \in Docs, NEW e \in Docs
    PROVE  /\ Merge(d, e) \in Docs
           /\ Merge(d, e).items = d.items \cup e.items /\ Merge(d, e).dead = d.dead \cup e.dead
BY DocFacts

LEMMA SetTextFacts ==
    ASSUME NEW d \in Docs, NEW text \in SUBSET Word, NEW n \in 1..MaxWrites
    PROVE  /\ SetText(d, text, n) \in Docs
           /\ SetText(d, text, n).items = d.items \cup {<<n, w>> : w \in text}
           /\ SetText(d, text, n).dead = d.dead \cup d.items
BY DEF SetText, Doc, Docs, Item, Origin

LEMMA FrameFacts ==
    /\ \A items \in SUBSET Item : Sync(items) \in Frame /\ Sync(items).type = "sync" /\ Sync(items).items = items
    /\ \A d \in Docs : Update(d) \in Frame /\ Update(d).type = "update" /\ Update(d).doc = d
    /\ \A kind \in {"commit", "reset"} : Control(kind) \in Frame /\ Control(kind).type = kind
    /\ \A f \in Frame : /\ f.type = "sync" => f.items \in SUBSET Item
                        /\ f.type = "update" => f.doc \in Docs
BY DEF Sync, Update, Control, Frame

LEMMA ShownFacts ==
    ASSUME StoreTypes
    PROVE  /\ Shown \in 1..Len(log) /\ Len(log) \in Nat /\ log[Shown].text \in SUBSET Word
           /\ Rows \subseteq 1..Len(log) /\ \A i \in 1..Len(log) : log[i].text \in SUBSET Word
<1>1. /\ Len(log) \in Nat /\ \A i \in 1..Len(log) : log[i] \in [text : SUBSET Word, parent : Nat]
  BY ElementOfSeq, LenProperties DEF StoreTypes
<1>2. Shown \in 1..Len(log)
  BY <1>1 DEF Shown, StoreTypes
<1> QED
  BY <1>1, <1>2 DEF Rows

LEMMA SeededFacts ==
    ASSUME StoreTypes, writes \in Nat, writes < MaxWrites \/ Seeded = saved
    PROVE  /\ Seeded \in [doc : Docs, base : 0..Len(log)]
           /\ \/ saved.base # 0 /\ Seeded = saved
              \/ /\ Seeded.base = Shown /\ saved.base = 0
                 /\ Seeded.doc = SetText(EmptyDoc, log[Shown].text, writes + 1)
              \/ /\ Seeded.base = Shown /\ saved.base # 0
                 /\ Seeded.doc = SetText(saved.doc, log[Shown].text, writes + 1)
<1>1. /\ Shown \in 1..Len(log) /\ Len(log) \in Nat /\ log[Shown].text \in SUBSET Word
  BY ShownFacts
<1>2. saved \in [doc : Docs, base : 0..Len(log)] /\ MaxWrites \in Nat
  BY RoomAssumption DEF StoreTypes
<1>3. CASE saved.base # 0 /\ Seeded = saved
  BY <1>2, <1>3
<1>4. CASE Seeded = [doc |-> SetText(EmptyDoc, log[Shown].text, writes + 1), base |-> Shown]
           /\ saved.base = 0
  <2>1. Seeded.base # saved.base
    BY <1>1, <1>4
  <2>2. writes + 1 \in 1..MaxWrites
    BY <1>2, <2>1
  <2>3. SetText(EmptyDoc, log[Shown].text, writes + 1) \in Docs
    BY <1>1, <2>2, DocFacts, SetTextFacts
  <2> QED
    BY <1>1, <1>4, <2>3
<1>5. CASE /\ Seeded = [doc |-> SetText(saved.doc, log[Shown].text, writes + 1), base |-> Shown]
           /\ saved.base # 0 /\ Shown # saved.base
  <2>1. writes + 1 \in 1..MaxWrites
    BY <1>2, <1>5
  <2>2. SetText(saved.doc, log[Shown].text, writes + 1) \in Docs
    BY <1>1, <1>2, <2>1, SetTextFacts
  <2> QED
    BY <1>1, <1>5, <2>2
<1> QED
  BY <1>3, <1>4, <1>5 DEF Seeded

-----------------------------------------------------------------------------
(* What each action does, field by field.                                  *)

Frames(q) == {q[i] : i \in DOMAIN q}

LEMMA QueueFacts ==
    /\ <<>> \in Seq(Frame) /\ Frames(<<>>) = {}
    /\ \A q \in Seq(Frame) : /\ Frames(q) \subseteq Frame
                             /\ q # <<>> => /\ Head(q) \in Frame /\ Tail(q) \in Seq(Frame)
                                            /\ Frames(q) = Frames(Tail(q)) \cup {Head(q)}
    /\ \A q \in Seq(Frame), f \in Frame : /\ Append(q, f) \in Seq(Frame)
                                          /\ Frames(Append(q, f)) = Frames(q) \cup {f}
<1>1. <<>> \in Seq(Frame) /\ Frames(<<>>) = {}
  BY DEF Frames
<1>2. ASSUME NEW q \in Seq(Frame) PROVE Frames(q) \subseteq Frame
  BY DEF Frames
<1>3. ASSUME NEW q \in Seq(Frame), q # <<>>
      PROVE  /\ Head(q) \in Frame /\ Tail(q) \in Seq(Frame)
             /\ Frames(q) = Frames(Tail(q)) \cup {Head(q)}
  <2>1. /\ Head(q) = q[1] /\ Tail(q) \in Seq(Frame) /\ Len(Tail(q)) = Len(q) - 1 /\ 1 \in DOMAIN q
        /\ \A i \in 1..Len(Tail(q)) : Tail(q)[i] = q[i + 1]
    BY <1>3, HeadTailProperties, EmptySeq, LenProperties
  <2>2. DOMAIN q = 1..Len(q) /\ DOMAIN Tail(q) = 1..Len(q) - 1 /\ Len(q) \in Nat
    BY <2>1, LenProperties
  <2>3. \A i \in DOMAIN q : i = 1 \/ (i - 1 \in DOMAIN Tail(q) /\ Tail(q)[i - 1] = q[i])
    BY <2>1, <2>2
  <2>4. \A i \in DOMAIN Tail(q) : i + 1 \in DOMAIN q /\ Tail(q)[i] = q[i + 1]
    BY <2>1, <2>2
  <2>5. Frames(q) \subseteq Frames(Tail(q)) \cup {Head(q)}
    <3> SUFFICES ASSUME NEW i \in DOMAIN q PROVE q[i] \in Frames(Tail(q)) \cup {Head(q)}
      BY DEF Frames
    <3>1. CASE i = 1
      BY <2>1, <3>1
    <3>2. CASE i - 1 \in DOMAIN Tail(q) /\ Tail(q)[i - 1] = q[i]
      BY <3>2 DEF Frames
    <3> QED
      BY <2>3, <3>1, <3>2
  <2>6. Frames(Tail(q)) \cup {Head(q)} \subseteq Frames(q)
    BY <2>1, <2>4 DEF Frames
  <2> QED
    BY <1>2, <2>1, <2>5, <2>6
<1>4. ASSUME NEW q \in Seq(Frame), NEW f \in Frame
      PROVE  Append(q, f) \in Seq(Frame) /\ Frames(Append(q, f)) = Frames(q) \cup {f}
  <2>1. /\ Append(q, f) \in Seq(Frame) /\ Len(Append(q, f)) = Len(q) + 1
        /\ \A i \in 1..Len(q) : Append(q, f)[i] = q[i]
        /\ Append(q, f)[Len(q) + 1] = f
    BY AppendProperties
  <2>2. DOMAIN q = 1..Len(q) /\ DOMAIN Append(q, f) = 1..Len(q) + 1 /\ Len(q) \in Nat
    BY <2>1, LenProperties
  <2>3. \A i \in DOMAIN Append(q, f) : i = Len(q) + 1 \/ i \in 1..Len(q)
    BY <2>2
  <2>4. Len(q) + 1 \in DOMAIN Append(q, f) /\ DOMAIN q \subseteq DOMAIN Append(q, f)
    BY <2>2
  <2>5. Frames(Append(q, f)) \subseteq Frames(q) \cup {f}
    BY <2>1, <2>2, <2>3 DEF Frames
  <2>6. Frames(q) \cup {f} \subseteq Frames(Append(q, f))
    BY <2>1, <2>2, <2>4 DEF Frames
  <2> QED
    BY <2>1, <2>5, <2>6
<1> QED
  BY <1>1, <1>2, <1>3, <1>4

\* What a socket is, whatever its frames are.
Still(s) ==
    /\ sockets'[s].client = sockets[s].client /\ sockets'[s].room = sockets[s].room
    /\ sockets'[s].open = sockets[s].open /\ sockets'[s].handler = sockets[s].handler

\* What it is busy sending.
Sends(s) == sockets'[s].todo = sockets[s].todo /\ sockets'[s].frame = sockets[s].frame

\* Only s changes.
OnlySocket(s) == \A t \in Slot \ {s} : sockets'[t] = sockets[t]

Freed(s) ==
    /\ sockets'[s].client = sockets[s].client /\ sockets'[s].room = NoRoom
    /\ sockets'[s].open = FALSE /\ sockets'[s].handler = "free"
    /\ sockets'[s].up = <<>> /\ sockets'[s].down = <<>> /\ sockets'[s].todo = {}

LEMMA ClosedFacts ==
    /\ Closed \in Socket /\ Closed.room = NoRoom /\ Closed.open = FALSE /\ Closed.handler = "free"
    /\ Closed.up = <<>> /\ Closed.down = <<>> /\ Closed.todo = {} /\ Closed.frame = EmptyDoc
<1>1. (CHOOSE c \in Client : TRUE) \in Client
  BY RoomAssumption
<1>2. <<>> \in Seq(Frame) /\ EmptyDoc \in Docs
  BY DocFacts
<1> QED
  BY <1>1, <1>2 DEF Closed, Socket, Handlers

LEMMA SocketTypes ==
    ASSUME Typed, NEW s \in Slot
    PROVE  /\ sockets \in [Slot -> Socket] /\ sockets[s] \in Socket
           /\ sockets[s].client \in Client /\ sockets[s].room \in Room \cup {NoRoom}
           /\ sockets[s].open \in BOOLEAN /\ sockets[s].handler \in Handlers
           /\ sockets[s].up \in Seq(Frame) /\ sockets[s].down \in Seq(Frame)
           /\ sockets[s].todo \in SUBSET Slot /\ sockets[s].frame \in Docs
<1>1. sockets \in [Slot -> Socket] /\ sockets[s] \in Socket
  BY DEF Typed, PeerTypes
<1> QED
  BY <1>1 DEF Socket

LEMMA SocketChange ==
    ASSUME sockets \in [Slot -> Socket], NEW s \in Slot, NEW new \in Socket,
           sockets' = [sockets EXCEPT ![s] = new]
    PROVE  sockets' \in [Slot -> Socket] /\ sockets'[s] = new /\ OnlySocket(s)
BY DEF OnlySocket

LEMMA HandlingChange ==
    ASSUME Handling, NEW s \in Slot, OnlySocket(s),
           Serves(s)' <=> sockets'[s].room # NoRoom,
           sockets'[s].todo # {} \/ lock' = s \/ busy'.slot = s => Serves(s)',
           sockets'[s].open => sockets'[s].handler # "free",
           lock' \in {lock, s, NoSlot}, busy'.slot \in {busy.slot, s, NoSlot},
           busy'.slot = NoSlot <=> busy'.at = "free"
    PROVE  Handling'
BY RoomAssumption DEF Handling, Serves, OnlySocket

LEMMA HandlingStays ==
    ASSUME Handling, \A s \in Slot : Still(s) /\ sockets'[s].todo = sockets[s].todo,
           UNCHANGED <<lock, busy>>
    PROVE  Handling'
BY DEF Handling, Serves, Still

LEMMA StoreStays == ASSUME StoreTypes, UNCHANGED store PROVE StoreTypes'
BY DEF StoreTypes, store

LEMMA RoomsStay == ASSUME RoomTypes, UNCHANGED <<log, server>> PROVE RoomTypes'
BY DEF RoomTypes, server

\* A socket that differs from s in its frames.
SameBut(new, k) ==
    /\ new.client = k.client /\ new.room = k.room /\ new.open = k.open /\ new.handler = k.handler
    /\ new.todo = k.todo /\ new.frame = k.frame

LEMMA FramesChange ==
    ASSUME Typed, NEW s \in Slot, NEW new \in Socket, SameBut(new, sockets[s]),
           sockets' = [sockets EXCEPT ![s] = new], lock' = lock, busy' = busy
    PROVE  /\ sockets' \in [Slot -> Socket] /\ Handling' /\ OnlySocket(s) /\ sockets'[s] = new
           /\ \A t \in Slot : Still(t) /\ Sends(t)
<1>1. sockets' \in [Slot -> Socket] /\ sockets'[s] = new /\ OnlySocket(s)
  BY SocketTypes, SocketChange
<1>2. \A t \in Slot : Still(t) /\ Sends(t)
  BY <1>1 DEF Still, Sends, OnlySocket, SameBut
<1>3. Handling'
  BY <1>2, HandlingStays DEF Typed, Sends
<1> QED
  BY <1>1, <1>2, <1>3

-----------------------------------------------------------------------------
LEMMA ConnectEffect ==
    ASSUME Typed, NEW c \in Client, Connect(c)
    PROVE  /\ Typed' /\ UNCHANGED <<store, server, replica, typed>>
           /\ \E s \in Slot :
                 /\ sockets[s].handler = "free" /\ ~Listed(s) /\ OnlySocket(s)
                 /\ sockets'[s].client = c /\ sockets'[s].open /\ sockets'[s].handler = "new"
                 /\ sockets'[s].room = NoRoom /\ sockets'[s].todo = {}
                 /\ sockets'[s].up = <<Sync(replica[c].items)>> /\ sockets'[s].down = <<>>
           /\ Overlap \/ \A s \in Slot : sockets[s].client = c => sockets[s].handler = "free" /\ ~Listed(s)
<1>1. PICK s \in Slot :
         /\ sockets[s].handler = "free" /\ ~Listed(s)
         /\ sockets' = [sockets EXCEPT ![s] =
               [Closed EXCEPT !.client = c, !.open = TRUE, !.handler = "new",
                              !.up = <<Sync(replica[c].items)>>]]
  BY DEF Connect
<1> DEFINE up == <<Sync(replica[c].items)>>
           new == [Closed EXCEPT !.client = c, !.open = TRUE, !.handler = "new", !.up = up]
<1>2. up \in Seq(Frame)
  <2>1. replica[c].items \in SUBSET Item
    BY DEF Typed, PeerTypes, Docs
  <2>2. Sync(replica[c].items) \in Frame
    BY <2>1, FrameFacts
  <2> QED
    BY <2>2
<1> HIDE DEF up
<1>3. /\ new \in Socket /\ new.client = c /\ new.open /\ new.handler = "new" /\ new.room = NoRoom
      /\ new.todo = {} /\ new.up = up /\ new.down = <<>>
  BY <1>2, ClosedFacts DEF Socket, Handlers
<1>4. sockets' = [sockets EXCEPT ![s] = new]
  BY <1>1 DEF up
<1> HIDE DEF new
<1>5. sockets' \in [Slot -> Socket] /\ sockets'[s] = new /\ OnlySocket(s)
  BY <1>3, <1>4, SocketChange, SocketTypes
<1>6. UNCHANGED <<store, server, replica, typed>>
  BY DEF Connect
<1>7. StoreTypes' /\ RoomTypes' /\ PeerTypes'
  BY <1>5, <1>6, StoreStays, RoomsStay DEF Typed, PeerTypes, store
<1>8. Handling'
  <2>1. lock # s /\ busy.slot # s
    BY <1>1 DEF Typed, Handling, Serves
  <2> QED
    BY <1>3, <1>5, <1>6, <2>1, HandlingChange DEF Typed, Handling, Serves, server
<1>9. Overlap \/ \A t \in Slot : sockets[t].client = c => sockets[t].handler = "free" /\ ~Listed(t)
  BY DEF Connect
<1>10. sockets'[s].up = <<Sync(replica[c].items)>>
  BY <1>3, <1>5 DEF up
<1>11. Typed'
  BY <1>7, <1>8 DEF Typed
<1> QED
  BY <1>1, <1>3, <1>5, <1>6, <1>9, <1>10, <1>11

\* What a browser sends is queued.
LEMMA SendEffect ==
    ASSUME Typed, NEW s \in Slot, NEW f \in Frame, UNCHANGED <<lock, busy>>,
           sockets' = [sockets EXCEPT ![s].up = Append(@, f)]
    PROVE  /\ sockets' \in [Slot -> Socket] /\ Handling' /\ OnlySocket(s)
           /\ sockets'[s].up = Append(sockets[s].up, f) /\ sockets'[s].down = sockets[s].down
           /\ \A t \in Slot : Still(t) /\ Sends(t)
<1> DEFINE new == [sockets[s] EXCEPT !.up = Append(sockets[s].up, f)]
<1>1. Append(sockets[s].up, f) \in Seq(Frame) /\ sockets[s] \in Socket
  BY SocketTypes, QueueFacts
<1>2. /\ new \in Socket /\ SameBut(new, sockets[s])
      /\ new.up = Append(sockets[s].up, f) /\ new.down = sockets[s].down
  BY <1>1 DEF Socket, SameBut
<1>3. sockets' = [sockets EXCEPT ![s] = new]
  OBVIOUS
<1> HIDE DEF new
<1>4. /\ sockets' \in [Slot -> Socket] /\ Handling' /\ OnlySocket(s) /\ sockets'[s] = new
      /\ \A t \in Slot : Still(t) /\ Sends(t)
  BY <1>2, <1>3, FramesChange
<1> QED
  BY <1>2, <1>4

LEMMA UnchangedSockets ==
    ASSUME UNCHANGED sockets
    PROVE  \A s \in Slot : Still(s) /\ Sends(s) /\ OnlySocket(s)
BY DEF Still, Sends, OnlySocket

\* What a browser changes and, if it is connected, sends.
LEMMA EditEffect ==
    ASSUME Typed, NEW c \in Client, NEW change \in Docs, Edit(c, change),
           UNCHANGED <<store, server>>
    PROVE  /\ StoreTypes' /\ RoomTypes' /\ Handling'
           /\ sockets' \in [Slot -> Socket] /\ replica' \in [Client -> Docs]
           /\ replica'[c] = Merge(replica[c], change)
           /\ \A d \in Client \ {c} : replica'[d] = replica[d]
           /\ \A s \in Slot : Still(s) /\ Sends(s) /\ sockets'[s].down = sockets[s].down
           /\ \/ ~Connected(c) /\ UNCHANGED sockets
              \/ /\ SocketOf(c) \in Slot /\ sockets[SocketOf(c)].client = c /\ sockets[SocketOf(c)].open
                 /\ OnlySocket(SocketOf(c))
                 /\ sockets'[SocketOf(c)].up = Append(sockets[SocketOf(c)].up, Update(change))
<1>1. /\ replica' \in [Client -> Docs] /\ replica'[c] = Merge(replica[c], change)
      /\ \A d \in Client \ {c} : replica'[d] = replica[d]
  <2>1. Merge(replica[c], change) \in Docs
    BY DocFacts DEF Typed, PeerTypes
  <2> QED
    BY <2>1 DEF Edit, Typed, PeerTypes
<1>2. StoreTypes' /\ RoomTypes' /\ UNCHANGED <<lock, busy>>
  BY StoreStays, RoomsStay DEF Typed, store, server
<1>3. CASE UNCHANGED sockets /\ ~Connected(c)
  <2>1. \A s \in Slot : Still(s) /\ Sends(s)
    BY <1>3, UnchangedSockets
  <2>2. Handling'
    BY <1>2, <2>1, HandlingStays DEF Typed, Sends
  <2> QED
    BY <1>1, <1>2, <1>3, <2>1, <2>2 DEF Typed, PeerTypes
<1>4. CASE Connected(c)
  <2> DEFINE s == SocketOf(c)
  <2>1. s \in Slot /\ sockets[s].client = c /\ sockets[s].open
    BY <1>4 DEF Connected, SocketOf
  <2>2. sockets' = [sockets EXCEPT ![s].up = Append(@, Update(change))]
    BY <1>4 DEF Edit
  <2>3. Update(change) \in Frame
    BY FrameFacts
  <2> HIDE DEF s
  <2>4. /\ sockets' \in [Slot -> Socket] /\ Handling' /\ OnlySocket(s)
        /\ sockets'[s].up = Append(sockets[s].up, Update(change)) /\ sockets'[s].down = sockets[s].down
        /\ \A t \in Slot : Still(t) /\ Sends(t)
    BY <1>2, <2>1, <2>2, <2>3, SendEffect
  <2>5. \A t \in Slot : sockets'[t].down = sockets[t].down
    BY <2>4 DEF OnlySocket
  <2> QED
    BY <1>1, <1>2, <2>1, <2>4, <2>5 DEF s
<1> QED
  BY <1>3, <1>4 DEF Edit

LEMMA AskEffect ==
    ASSUME Typed, NEW c \in Client, NEW kind \in {"commit", "reset"}, Ask(c, kind)
    PROVE  /\ Typed' /\ UNCHANGED <<store, server, replica, typed>>
           /\ \A s \in Slot : Still(s) /\ Sends(s) /\ sockets'[s].down = sockets[s].down
           /\ \E s \in Slot : /\ OnlySocket(s)
                              /\ sockets'[s].up = Append(sockets[s].up, Control(kind))
<1> DEFINE s == SocketOf(c)
<1>1. s \in Slot
  BY DEF Ask, Connected, SocketOf
<1>2. sockets' = [sockets EXCEPT ![s].up = Append(@, Control(kind))]
  BY DEF Ask
<1>3. UNCHANGED <<store, server, replica, typed>> /\ UNCHANGED <<lock, busy>>
  BY DEF Ask, server
<1>4. Control(kind) \in Frame
  BY FrameFacts
<1> HIDE DEF s
<1>5. /\ sockets' \in [Slot -> Socket] /\ Handling' /\ OnlySocket(s)
      /\ sockets'[s].up = Append(sockets[s].up, Control(kind)) /\ sockets'[s].down = sockets[s].down
      /\ \A t \in Slot : Still(t) /\ Sends(t)
  BY <1>1, <1>2, <1>3, <1>4, SendEffect
<1>6. \A t \in Slot : sockets'[t].down = sockets[t].down
  BY <1>5 DEF OnlySocket
<1>7. Typed'
  BY <1>3, <1>5, StoreStays, RoomsStay DEF Typed, PeerTypes, store
<1> QED
  BY <1>1, <1>3, <1>5, <1>6, <1>7

\* What the browser of s lacks of a frame.
Lacking(s, frame) == Doc(replica[sockets[s].client].items \ frame.items, replica[sockets[s].client].dead)

LEMMA ClientReadEffect ==
    ASSUME Typed, NEW s \in Slot, ClientRead(s)
    PROVE  LET c == sockets[s].client
               frame == Head(sockets[s].down) IN
           /\ Typed' /\ UNCHANGED <<store, server, typed>>
           /\ sockets[s].open /\ sockets[s].down # <<>>
           /\ \A t \in Slot : Still(t) /\ Sends(t)
           /\ OnlySocket(s) /\ sockets'[s].down = Tail(sockets[s].down)
           /\ \/ /\ frame.type = "sync" /\ UNCHANGED replica
                 /\ \/ Lacking(s, frame) = EmptyDoc /\ sockets'[s].up = sockets[s].up
                    \/ sockets'[s].up = Append(sockets[s].up, Update(Lacking(s, frame)))
              \/ /\ frame.type = "update" /\ sockets'[s].up = sockets[s].up
                 /\ replica'[c] = Merge(replica[c], frame.doc)
                 /\ \A d \in Client \ {c} : replica'[d] = replica[d]
<1> DEFINE c == sockets[s].client
           frame == Head(sockets[s].down)
           lacking == Lacking(s, frame)
           down == Tail(sockets[s].down)
<1>1. sockets[s].open /\ sockets[s].down # <<>> /\ UNCHANGED <<store, server, typed>> /\ UNCHANGED <<lock, busy>>
  BY DEF ClientRead, server
<1>2. /\ frame \in Frame /\ down \in Seq(Frame) /\ sockets[s].up \in Seq(Frame)
      /\ sockets[s] \in Socket /\ c \in Client /\ replica \in [Client -> Docs]
  BY <1>1, SocketTypes, QueueFacts DEF Typed, PeerTypes
<1>3. CASE /\ frame.type = "sync" /\ UNCHANGED replica
           /\ sockets' = [sockets EXCEPT ![s].down = down,
                   ![s].up = IF lacking = EmptyDoc THEN @ ELSE Append(@, Update(lacking))]
  <2> DEFINE up == IF lacking = EmptyDoc THEN sockets[s].up ELSE Append(sockets[s].up, Update(lacking))
  <2>1. lacking \in Docs
    <3>1. replica[c] \in Docs
      BY <1>2
    <3>2. replica[c].items \ frame.items \in SUBSET Item /\ replica[c].dead \in SUBSET Item
      BY <3>1 DEF Docs
    <3> QED
      BY <3>2, DocFacts DEF Lacking
  <2>2. up \in Seq(Frame)
    BY <1>2, <2>1, FrameFacts, QueueFacts
  <2> DEFINE new == [[sockets[s] EXCEPT !.down = down] EXCEPT !.up = up]
  <2>3. sockets' = [sockets EXCEPT ![s] = new]
    BY <1>2, <1>3 DEF Socket
  <2> HIDE DEF up, down
  <2>4. new \in Socket /\ SameBut(new, sockets[s]) /\ new.up = up /\ new.down = down
    BY <1>2, <2>2 DEF Socket, SameBut
  <2> HIDE DEF new
  <2>5. /\ sockets' \in [Slot -> Socket] /\ Handling' /\ OnlySocket(s) /\ sockets'[s] = new
        /\ \A t \in Slot : Still(t) /\ Sends(t)
    BY <1>1, <2>3, <2>4, FramesChange
  <2>6. Typed'
    BY <1>1, <1>2, <1>3, <2>5, StoreStays, RoomsStay DEF Typed, PeerTypes, store
  <2> QED
    BY <1>1, <1>3, <2>4, <2>5, <2>6 DEF up, down
<1>4. CASE /\ frame.type = "update" /\ sockets' = [sockets EXCEPT ![s].down = down]
           /\ replica' = [replica EXCEPT ![c] = Merge(@, frame.doc)]
  <2>1. Merge(replica[c], frame.doc) \in Docs
    BY <1>2, <1>4, DocFacts, FrameFacts
  <2>2. /\ replica' \in [Client -> Docs] /\ replica'[c] = Merge(replica[c], frame.doc)
        /\ \A d \in Client \ {c} : replica'[d] = replica[d]
    BY <1>2, <1>4, <2>1
  <2> DEFINE new == [sockets[s] EXCEPT !.down = down]
  <2>3. sockets' = [sockets EXCEPT ![s] = new]
    BY <1>4
  <2> HIDE DEF down
  <2>4. new \in Socket /\ SameBut(new, sockets[s]) /\ new.up = sockets[s].up /\ new.down = down
    BY <1>2 DEF Socket, SameBut
  <2> HIDE DEF new
  <2>5. /\ sockets' \in [Slot -> Socket] /\ Handling' /\ OnlySocket(s) /\ sockets'[s] = new
        /\ \A t \in Slot : Still(t) /\ Sends(t)
    BY <1>1, <2>3, <2>4, FramesChange
  <2>6. Typed'
    BY <1>1, <2>2, <2>5, StoreStays, RoomsStay DEF Typed, PeerTypes, store
  <2> QED
    BY <1>1, <1>4, <2>2, <2>4, <2>5, <2>6 DEF down
<1> QED
  BY <1>3, <1>4 DEF ClientRead, Lacking

LEMMA DropEffect ==
    ASSUME Typed, NEW s \in Slot, Drop(s)
    PROVE  /\ Typed' /\ UNCHANGED <<store, server, replica, typed>> /\ sockets[s].open
           /\ OnlySocket(s) /\ Sends(s)
           /\ sockets'[s].client = sockets[s].client /\ sockets'[s].room = sockets[s].room
           /\ ~sockets'[s].open /\ sockets'[s].handler = sockets[s].handler
           /\ sockets'[s].down = <<>> /\ sockets'[s].up \in {sockets[s].up, <<>>}
<1>1. PICK up \in {sockets[s].up, <<>>} :
         sockets' = [sockets EXCEPT ![s].open = FALSE, ![s].down = <<>>, ![s].up = up]
  BY DEF Drop
<1> DEFINE new == [sockets[s] EXCEPT !.open = FALSE, !.down = <<>>, !.up = up]
<1>2. sockets[s] \in Socket /\ sockets \in [Slot -> Socket] /\ up \in Seq(Frame) /\ <<>> \in Seq(Frame)
  BY SocketTypes, QueueFacts
<1>3. /\ new \in Socket /\ new.client = sockets[s].client /\ new.room = sockets[s].room /\ ~new.open
      /\ new.handler = sockets[s].handler /\ new.down = <<>> /\ new.up = up
      /\ new.todo = sockets[s].todo /\ new.frame = sockets[s].frame
  BY <1>2 DEF Socket
<1>4. sockets' = [sockets EXCEPT ![s] = new]
  BY <1>1, <1>2
<1> HIDE DEF new
<1>5. sockets' \in [Slot -> Socket] /\ sockets'[s] = new /\ OnlySocket(s)
  BY <1>2, <1>3, <1>4, SocketChange
<1>6. UNCHANGED <<store, server, replica, typed>> /\ sockets[s].open
  BY DEF Drop
<1>7. StoreTypes' /\ RoomTypes' /\ PeerTypes'
  BY <1>5, <1>6, StoreStays, RoomsStay DEF Typed, PeerTypes, store
<1>8. Handling'
  BY <1>3, <1>5, <1>6, HandlingChange DEF Typed, Handling, Serves, server
<1> QED
  BY <1>3, <1>5, <1>6, <1>7, <1>8 DEF Typed, Sends

-----------------------------------------------------------------------------
LEMMA LiveTypes ==
    ASSUME Typed, NEW r \in Room
    PROVE  /\ rooms \in [Room -> Live] /\ rooms[r] \in Live /\ rooms[r].base \in 0..Len(log)
           /\ rooms[r].doc \in Docs /\ rooms[r].seen \in SUBSET Docs
           /\ rooms[r].clients \in [Client -> Slot \cup {NoSlot}]
<1>1. rooms \in [Room -> Live] /\ rooms[r] \in Live /\ rooms[r].base <= Len(log)
  BY DEF Typed, RoomTypes
<1>2. Len(log) \in Nat
  BY ShownFacts DEF Typed
<1> QED
  BY <1>1, <1>2 DEF Live

\* What the rooms hold, whoever is listed in them.
SameContents(q) ==
    rooms'[q].doc = rooms[q].doc /\ rooms'[q].base = rooms[q].base /\ rooms'[q].seen = rooms[q].seen

OnlyRoom(r) == \A q \in Room \ {r} : rooms'[q] = rooms[q]

LEMMA RoomChange ==
    ASSUME Typed, NEW r \in Room, NEW new \in Live, new.base \in 0..Len(log),
           rooms' = [rooms EXCEPT ![r] = new], log' = log
    PROVE  /\ rooms' \in [Room -> Live] /\ rooms'[r] = new /\ OnlyRoom(r)
           /\ \A q \in Room : rooms'[q].base <= Len(log')
<1>1. rooms' \in [Room -> Live] /\ rooms'[r] = new /\ OnlyRoom(r)
  BY LiveTypes DEF OnlyRoom
<1>2. \A q \in Room : rooms[q].base <= Len(log)
  BY DEF Typed, RoomTypes
<1>3. new.base <= Len(log)
  BY ShownFacts DEF Typed
<1> QED
  BY <1>1, <1>2, <1>3 DEF OnlyRoom

\* A handler that serves has a room.
LEMMA ServingFacts ==
    ASSUME Typed, NEW s \in Slot, Serves(s)
    PROVE  sockets[s].room \in Room
BY SocketTypes DEF Typed, Handling

LEMMA AnswerFacts ==
    ASSUME Typed, NEW s \in Slot, NEW f \in Frame
    PROVE  Answer(s, f) \in Seq(Frame) /\ Frames(Answer(s, f)) \subseteq Frames(sockets[s].down) \cup {f}
<1>1. sockets[s].down \in Seq(Frame)
  BY SocketTypes
<1> QED
  BY <1>1, QueueFacts DEF Answer

\* The room a new handler makes or finds.
Makes(s, r, fresh) ==
    /\ fresh => /\ registered = NoRoom \/ Idle(registered, rooms)
                /\ \A t \in Slot : sockets[t].room # r
                /\ rooms'[r].doc = Seeded.doc /\ rooms'[r].base = Seeded.base /\ rooms'[r].seen = {}
                /\ rooms'[r].clients = [Nobody EXCEPT ![sockets[s].client] = s]
                /\ \/ Seeded = saved /\ writes' = writes /\ busy' = busy
                   \/ /\ Seeded # saved /\ writes < MaxWrites /\ writes' = writes + 1
                      /\ busy' = [slot |-> s, at |-> "persist"]
    /\ ~fresh => /\ r = registered /\ SameContents(r) /\ writes' = writes /\ busy' = busy
                 /\ rooms'[r].clients = [rooms[r].clients EXCEPT ![sockets[s].client] = s]

LEMMA AcceptEffect ==
    ASSUME Typed, NEW s \in Slot, Accept(s)
    PROVE  /\ Typed' /\ UNCHANGED <<store, lock, replica, typed>>
           /\ LoopFree /\ sockets[s].handler = "new" /\ OnlySocket(s)
           /\ sockets'[s].client = sockets[s].client /\ sockets'[s].open = sockets[s].open
           /\ sockets'[s].handler = "serving" /\ sockets[s].todo = {} /\ sockets'[s].todo = {}
           /\ sockets'[s].up = sockets[s].up
           /\ \E r \in Room, fresh \in BOOLEAN :
                 /\ registered' = r /\ OnlyRoom(r) /\ Makes(s, r, fresh)
                 /\ sockets'[s].room = r
                 /\ sockets'[s].down = Append(sockets[s].down, Sync(rooms'[r].doc.items))
<1> DEFINE c == sockets[s].client
<1>0. PICK dropped \in BOOLEAN :
       LET found == IF dropped THEN NoRoom ELSE registered IN
       /\ dropped => Idle(registered, rooms)
       /\ \E r \in Room :
          LET made == IF found = NoRoom
                      THEN [NewRoom EXCEPT !.doc = Seeded.doc, !.base = Seeded.base]
                      ELSE rooms[r] IN
          /\ IF found = NoRoom THEN r = registered \/ Unused(r) ELSE r = found
          /\ found = NoRoom /\ Seeded # saved => writes < MaxWrites
          /\ \A t \in Slot : dropped /\ r = registered => sockets[t].room # r
          /\ registered' = r
          /\ rooms' = [rooms EXCEPT ![r] = [made EXCEPT !.clients[sockets[s].client] = s]]
          /\ sockets' = [sockets EXCEPT ![s].handler = "serving", ![s].room = r,
                                        ![s].down = Append(@, Sync(made.doc.items))]
          /\ writes' = IF found = NoRoom /\ Seeded # saved THEN writes + 1 ELSE writes
          /\ busy' = IF found = NoRoom /\ Seeded # saved
                     THEN [slot |-> s, at |-> "persist"] ELSE busy
  BY Zenon DEF Accept
<1>1. PICK r \in Room :
       LET found == IF dropped THEN NoRoom ELSE registered
           made == IF found = NoRoom
                   THEN [NewRoom EXCEPT !.doc = Seeded.doc, !.base = Seeded.base]
                   ELSE rooms[r] IN
       /\ IF found = NoRoom THEN r = registered \/ Unused(r) ELSE r = found
       /\ found = NoRoom /\ Seeded # saved => writes < MaxWrites
       /\ \A t \in Slot : dropped /\ r = registered => sockets[t].room # r
       /\ registered' = r
       /\ rooms' = [rooms EXCEPT ![r] = [made EXCEPT !.clients[sockets[s].client] = s]]
       /\ sockets' = [sockets EXCEPT ![s].handler = "serving", ![s].room = r,
                                     ![s].down = Append(@, Sync(made.doc.items))]
       /\ writes' = IF found = NoRoom /\ Seeded # saved THEN writes + 1 ELSE writes
       /\ busy' = IF found = NoRoom /\ Seeded # saved
                  THEN [slot |-> s, at |-> "persist"] ELSE busy
  BY <1>0, Zenon
<1> DEFINE fresh == dropped \/ registered = NoRoom
           made == IF fresh THEN [NewRoom EXCEPT !.doc = Seeded.doc, !.base = Seeded.base] ELSE rooms[r]
           new == [made EXCEPT !.clients[c] = s]
           down == Append(sockets[s].down, Sync(made.doc.items))
           sock == [sockets[s] EXCEPT !.handler = "serving", !.room = r,
                                      !.down = down]
<1>2. /\ UNCHANGED <<store, lock, replica, typed>> /\ LoopFree /\ sockets[s].handler = "new"
      /\ NoRoom \notin Room
  BY RoomAssumption DEF Accept
<1>3. /\ fresh => registered = NoRoom \/ Idle(registered, rooms)
      /\ ~fresh => r = registered
      /\ fresh /\ Seeded # saved => writes < MaxWrites
      /\ registered' = r
      /\ writes' = IF fresh /\ Seeded # saved THEN writes + 1 ELSE writes
      /\ busy' = IF fresh /\ Seeded # saved THEN [slot |-> s, at |-> "persist"] ELSE busy
  BY <1>0, <1>1
<1>4. fresh => \A t \in Slot : sockets[t].room # r
  BY <1>1, <1>2 DEF Unused
<1>5. rooms' = [rooms EXCEPT ![r] = new] /\ sockets' = [sockets EXCEPT ![s] = sock]
  <2>1. sockets \in [Slot -> Socket] /\ sockets[s] \in Socket
    BY SocketTypes
  <2>2. /\ rooms' = [rooms EXCEPT ![r] = [made EXCEPT !.clients[c] = s]]
        /\ sockets' = [sockets EXCEPT ![s].handler = "serving", ![s].room = r,
                                      ![s].down = Append(@, Sync(made.doc.items))]
    BY <1>1
  <2> HIDE DEF made
  <2>3. sockets' = [sockets EXCEPT ![s].handler = "serving", ![s].room = r, ![s].down = down]
    BY <2>1, <2>2 DEF Socket
  <2> HIDE DEF down
  <2> QED
    BY <2>1, <2>2, <2>3
<1>6. fresh => Seeded.doc \in Docs /\ Seeded.base \in 0..Len(log)
  <2>1. fresh => writes < MaxWrites \/ Seeded = saved
    BY <1>3
  <2> QED
    BY <2>1, SeededFacts DEF Typed, RoomTypes
<1>7. Nobody \in [Client -> Slot \cup {NoSlot}] /\ c \in Client
  BY SocketTypes DEF Nobody
<1>8. /\ made \in Live /\ made.base \in 0..Len(log)
      /\ fresh => /\ made.doc = Seeded.doc /\ made.base = Seeded.base /\ made.seen = {}
                  /\ made.clients = Nobody
      /\ ~fresh => made = rooms[r]
  <2>1. CASE fresh
    <3>1. NewRoom \in Live /\ NewRoom.seen = {} /\ NewRoom.clients = Nobody
      BY <1>7, DocFacts DEF NewRoom, Live
    <3>2. Len(log) \in Nat
      BY ShownFacts DEF Typed
    <3>3. made = [NewRoom EXCEPT !.doc = Seeded.doc, !.base = Seeded.base]
      BY <2>1
    <3>4. Seeded.doc \in Docs /\ Seeded.base \in Nat /\ Seeded.base \in 0..Len(log)
      BY <1>6, <2>1, <3>2
    <3> HIDE DEF made
    <3>5. /\ made \in Live /\ made.doc = Seeded.doc /\ made.base = Seeded.base
          /\ made.seen = NewRoom.seen /\ made.clients = NewRoom.clients
      BY <3>1, <3>3, <3>4 DEF Live
    <3> QED
      BY <2>1, <3>1, <3>4, <3>5
  <2>2. CASE ~fresh
    BY <2>2, LiveTypes
  <2> QED
    BY <2>1, <2>2
<1> HIDE DEF made, down
<1>9. /\ new \in Live /\ new.base = made.base /\ new.doc = made.doc /\ new.seen = made.seen
      /\ new.clients = [made.clients EXCEPT ![c] = s]
  BY <1>7, <1>8 DEF Live
<1>10. down \in Seq(Frame) /\ sockets[s] \in Socket
  <2>1. made.doc.items \in SUBSET Item
    BY <1>8 DEF Live, Docs
  <2> QED
    BY <2>1, SocketTypes, FrameFacts, QueueFacts DEF down
<1>11. /\ sock \in Socket /\ sock.client = c /\ sock.open = sockets[s].open /\ sock.handler = "serving"
       /\ sock.room = r /\ sock.todo = sockets[s].todo /\ sock.up = sockets[s].up
       /\ sock.down = down
  BY <1>10 DEF Socket, Handlers
<1> HIDE DEF new, sock
<1>12. sockets' \in [Slot -> Socket] /\ sockets'[s] = sock /\ OnlySocket(s)
  BY <1>5, <1>11, SocketTypes, SocketChange
<1>13. /\ rooms' \in [Room -> Live] /\ rooms'[r] = new /\ OnlyRoom(r)
       /\ \A q \in Room : rooms'[q].base <= Len(log')
  <2>1. log' = log
    BY <1>2 DEF store
  <2> QED
    BY <1>5, <1>8, <1>9, <2>1, RoomChange
<1>14. sockets[s].todo = {} /\ lock # s
  BY <1>2 DEF Typed, Handling, Serves
<1>15. StoreTypes' /\ PeerTypes'
  BY <1>2, <1>12, StoreStays DEF Typed, PeerTypes
<1>16. RoomTypes'
  <2>1. writes' \in 0..MaxWrites
    BY <1>3, RoomAssumption DEF Typed, RoomTypes
  <2>2. busy' \in [slot : Slot \cup {NoSlot}, at : {"free", "persist", "commit"}]
    BY <1>3 DEF Typed, RoomTypes
  <2> QED
    BY <1>2, <1>3, <1>13, <2>1, <2>2 DEF Typed, RoomTypes
<1>17. Handling'
  <2>1. /\ busy'.slot \in {busy.slot, s} /\ (busy'.slot = NoSlot <=> busy'.at = "free")
    BY <1>3, RoomAssumption DEF Typed, Handling
  <2>2. lock' = lock /\ Serves(s)' /\ sockets'[s].room # NoRoom
    BY <1>2, <1>11, <1>12 DEF Serves
  <2>3. sockets'[s].handler # "free"
    BY <1>11, <1>12
  <2> QED
    BY <1>12, <2>1, <2>2, <2>3, HandlingChange DEF Typed
<1>18. Makes(s, r, fresh)
  BY <1>3, <1>4, <1>8, <1>9, <1>13 DEF Makes, SameContents
<1>19. fresh \in BOOLEAN
  OBVIOUS
<1> HIDE DEF fresh
<1>20. sockets'[s].down = Append(sockets[s].down, Sync(rooms'[r].doc.items))
  BY <1>9, <1>11, <1>12, <1>13 DEF down
<1> QED
  BY <1>2, <1>3, <1>11, <1>12, <1>13, <1>14, <1>15, <1>16, <1>17, <1>18, <1>19, <1>20 DEF Typed

LEMMA ServeSyncEffect ==
    ASSUME Typed, NEW s \in Slot, ServeSync(s)
    PROVE  LET doc == rooms[sockets[s].room].doc
               have == Head(sockets[s].up).items IN
           /\ Typed' /\ UNCHANGED <<store, server, replica, typed>>
           /\ LoopFree /\ Serves(s) /\ sockets[s].up # <<>> /\ Head(sockets[s].up).type = "sync"
           /\ \A t \in Slot : Still(t) /\ Sends(t)
           /\ OnlySocket(s) /\ sockets'[s].up = Tail(sockets[s].up)
           /\ sockets'[s].down = Answer(s, Update(Doc(doc.items \ have, doc.dead)))
<1> DEFINE doc == rooms[sockets[s].room].doc
           have == Head(sockets[s].up).items
           down == Answer(s, Update(Doc(doc.items \ have, doc.dead)))
           up == Tail(sockets[s].up)
           new == [sockets[s] EXCEPT !.up = up, !.down = down]
<1>1. /\ LoopFree /\ Serves(s) /\ sockets[s].up # <<>> /\ Head(sockets[s].up).type = "sync"
      /\ UNCHANGED <<store, server, replica, typed>> /\ lock' = lock /\ busy' = busy
  BY DEF ServeSync, Serving, Serves, server
<1>2. sockets' = [sockets EXCEPT ![s] = new]
  BY DEF ServeSync
<1>3. Doc(doc.items \ have, doc.dead) \in Docs
  <2>1. doc \in Docs
    BY <1>1, ServingFacts, LiveTypes
  <2>2. doc.items \ have \in SUBSET Item /\ doc.dead \in SUBSET Item
    BY <2>1 DEF Docs
  <2> QED
    BY <2>2, DocFacts
<1>4. down \in Seq(Frame) /\ up \in Seq(Frame) /\ sockets[s] \in Socket
  BY <1>1, <1>3, FrameFacts, QueueFacts, AnswerFacts, SocketTypes
<1> HIDE DEF down, up
<1>5. new \in Socket /\ SameBut(new, sockets[s]) /\ new.up = up /\ new.down = down
  BY <1>4 DEF Socket, SameBut
<1> HIDE DEF new
<1>6. /\ sockets' \in [Slot -> Socket] /\ Handling' /\ OnlySocket(s) /\ sockets'[s] = new
      /\ \A t \in Slot : Still(t) /\ Sends(t)
  BY <1>1, <1>2, <1>5, FramesChange
<1>7. Typed'
  BY <1>1, <1>6, StoreStays, RoomsStay DEF Typed, PeerTypes, store
<1> QED
  BY <1>1, <1>5, <1>6, <1>7 DEF up, down

-----------------------------------------------------------------------------
\* Contents, when rooms become `memory`.
LEMMA QuitEffect ==
    ASSUME Typed, NEW s \in Slot, Serves(s), NEW memory \in [Room -> Live],
           \A q \in Room : memory[q].base \in 0..Len(log), Quit(s, memory)
    PROVE  LET r == sockets[s].room IN
           /\ rooms' \in [Room -> Live] /\ \A q \in Room : rooms'[q].base \in 0..Len(log)
           /\ \A q \in Room : /\ rooms'[q].doc = memory[q].doc /\ rooms'[q].base = memory[q].base
                              /\ rooms'[q].seen = memory[q].seen
           /\ rooms'[r].clients = [memory[r].clients EXCEPT ![sockets[s].client] = NoSlot]
           /\ \A q \in Room \ {r} : rooms'[q].clients = memory[q].clients
           /\ \/ registered' = registered
              \/ registered' = NoRoom /\ registered # r
           /\ sockets' \in [Slot -> Socket] /\ OnlySocket(s) /\ Freed(s)
           /\ lock' \in {lock, NoSlot} /\ lock' # s
<1> DEFINE r == sockets[s].room
           c == sockets[s].client
           new == [memory[r] EXCEPT !.clients[c] = NoSlot]
           sock == [Closed EXCEPT !.client = c]
<1>1. r \in Room /\ c \in Client /\ memory[r] \in Live
  BY ServingFacts, SocketTypes
<1>2. rooms' = [memory EXCEPT ![r] = new] /\ sockets' = [sockets EXCEPT ![s] = sock]
  BY <1>1 DEF Quit
<1>3. /\ new \in Live /\ new.doc = memory[r].doc /\ new.base = memory[r].base
      /\ new.seen = memory[r].seen /\ new.clients = [memory[r].clients EXCEPT ![c] = NoSlot]
  BY <1>1 DEF Live
<1>4. /\ sock \in Socket /\ sock.client = c /\ sock.room = NoRoom /\ sock.open = FALSE
      /\ sock.handler = "free" /\ sock.up = <<>> /\ sock.down = <<>> /\ sock.todo = {}
  BY <1>1, ClosedFacts DEF Socket
<1>5. lock' \in {lock, NoSlot} /\ lock' # s
  BY RoomAssumption DEF Quit
<1>6. registered' = registered \/ (registered' = NoRoom /\ registered # r)
  BY Zenon DEF Quit
<1> HIDE DEF new, sock
<1>7. sockets' \in [Slot -> Socket] /\ sockets'[s] = sock /\ OnlySocket(s)
  BY <1>2, <1>4, SocketTypes, SocketChange
<1>8. Freed(s)
  BY <1>4, <1>7 DEF Freed
<1>9. rooms' \in [Room -> Live] /\ rooms'[r] = new /\ \A q \in Room \ {r} : rooms'[q] = memory[q]
  BY <1>1, <1>2, <1>3
<1> QED
  BY <1>1, <1>3, <1>5, <1>6, <1>7, <1>8, <1>9

\* Quit leaves what it does not say untouched.
LEMMA QuitTypes ==
    ASSUME Typed, NEW s \in Slot, Serves(s), LoopFree,
           rooms' \in [Room -> Live], \A q \in Room : rooms'[q].base \in 0..Len(log),
           registered' = registered \/ registered' = NoRoom,
           sockets' \in [Slot -> Socket], OnlySocket(s), Freed(s),
           lock' \in {lock, NoSlot}, lock' # s, log' = log, writes' = writes, busy' = busy
    PROVE  RoomTypes' /\ Handling'
<1>1. Len(log) \in Nat /\ NoRoom \notin Room
  BY ShownFacts, RoomAssumption DEF Typed
<1>2. RoomTypes'
  BY <1>1 DEF Typed, RoomTypes
<1>3. Handling'
  <2>1. lock' \in {lock, s, NoSlot} /\ lock' # s /\ busy'.slot = NoSlot /\ busy'.at = "free"
    BY DEF Typed, Handling, LoopFree
  <2>2. ~Serves(s)' /\ sockets'[s].room = NoRoom /\ sockets'[s].todo = {} /\ ~sockets'[s].open
    BY DEF Freed, Serves
  <2>3. NoSlot \notin Slot
    BY RoomAssumption
  <2> QED
    BY <2>1, <2>2, <2>3, HandlingChange DEF Typed
<1> QED
  BY <1>2, <1>3

LEMMA ServeUpdateEffect ==
    ASSUME Typed, NEW s \in Slot, ServeUpdate(s)
    PROVE  LET r == sockets[s].room
               change == Head(sockets[s].up).doc IN
           /\ Typed' /\ UNCHANGED <<log, head, tentative, lost, busy, writes, replica, typed>>
           /\ LoopFree /\ Serves(s) /\ sockets[s].todo = {} /\ OnlySocket(s) /\ tentative = 0
           /\ r \in Room /\ sockets[s].up # <<>> /\ Head(sockets[s].up).type = "update" /\ change \in Docs
           /\ rooms'[r].doc = Merge(rooms[r].doc, change) /\ rooms'[r].base = rooms[r].base
           /\ rooms'[r].seen = rooms[r].seen \cup {change}
           /\ \A q \in Room \ {r} : SameContents(q) /\ rooms'[q].clients = rooms[q].clients
           /\ \/ /\ \A t \in Slot : Still(t)
                 /\ registered' = registered /\ rooms'[r].clients = rooms[r].clients
                 /\ sockets'[s].up = Tail(sockets[s].up) /\ sockets'[s].down = sockets[s].down
                 /\ \/ change \in rooms[r].seen /\ saved' = saved /\ Sends(s)
                    \/ /\ saved' = [doc |-> rooms'[r].doc, base |-> rooms[r].base]
                       /\ sockets'[s].todo = Others(s)
                       /\ Others(s) # {} => sockets'[s].frame = change
              \/ /\ Faults /\ saved' = saved /\ Freed(s)
                 /\ rooms'[r].clients = [rooms[r].clients EXCEPT ![sockets[s].client] = NoSlot]
                 /\ \/ registered' = registered
                    \/ registered' = NoRoom /\ registered # r
<1> DEFINE r == sockets[s].room
           change == Head(sockets[s].up).doc
           new == [rooms[r] EXCEPT !.doc = Merge(@, change), !.seen = @ \cup {change}]
           memory == [rooms EXCEPT ![r].doc = Merge(@, change), ![r].seen = @ \cup {change}]
<1>1. /\ LoopFree /\ Serves(s) /\ sockets[s].todo = {} /\ sockets[s].up # <<>>
      /\ Head(sockets[s].up).type = "update" /\ tentative = 0
      /\ UNCHANGED <<log, head, tentative, lost, busy, writes, replica, typed>>
  BY DEF ServeUpdate, Serving, Serves
<1>2. r \in Room /\ change \in Docs /\ Tail(sockets[s].up) \in Seq(Frame)
  BY <1>1, ServingFacts, SocketTypes, QueueFacts, FrameFacts
<1>3. rooms[r] \in Live /\ rooms \in [Room -> Live] /\ rooms[r].base \in 0..Len(log)
      /\ \A q \in Room : rooms[q].base \in 0..Len(log)
  BY <1>2, LiveTypes
<1>4. Merge(rooms[r].doc, change) \in Docs
  BY <1>2, LiveTypes, DocFacts
<1>5. /\ new \in Live /\ new.doc = Merge(rooms[r].doc, change) /\ new.base = rooms[r].base
      /\ new.seen = rooms[r].seen \cup {change} /\ new.clients = rooms[r].clients
  BY <1>2, <1>3, <1>4 DEF Live
<1>6. memory = [rooms EXCEPT ![r] = new]
  BY <1>2, <1>3 DEF Live
<1> HIDE DEF new
<1>7. /\ memory \in [Room -> Live] /\ memory[r] = new /\ \A q \in Room \ {r} : memory[q] = rooms[q]
      /\ \A q \in Room : memory[q].base \in 0..Len(log)
  BY <1>2, <1>3, <1>5, <1>6
<1>8. \/ /\ change \in rooms[r].seen
         /\ rooms' = memory
         /\ sockets' = [sockets EXCEPT ![s].up = Tail(@)]
         /\ UNCHANGED <<saved, registered, lock>>
      \/ /\ rooms' = memory
         /\ saved' = [doc |-> memory[r].doc, base |-> memory[r].base]
         /\ sockets' = [sockets EXCEPT ![s].up = Tail(@), ![s].todo = Others(s),
                                       ![s].frame = IF Others(s) = {} THEN EmptyDoc ELSE change]
         /\ UNCHANGED <<registered, lock>>
      \/ /\ Faults
         /\ Quit(s, memory)
         /\ UNCHANGED saved
  BY Zenon DEF ServeUpdate
<1> HIDE DEF memory
<1>9. sockets[s] \in Socket /\ sockets \in [Slot -> Socket]
  BY SocketTypes
<1>10. Others(s) \in SUBSET Slot
  BY <1>2, LiveTypes DEF Others
<1>11. rooms' = memory =>
          /\ rooms' \in [Room -> Live] /\ rooms'[r] = new /\ OnlyRoom(r)
          /\ \A q \in Room : rooms'[q].base <= Len(log')
  BY <1>1, <1>2, <1>3, <1>5, <1>6, RoomChange
<1>12. rooms' = memory =>
          \A q \in Room \ {r} : SameContents(q) /\ rooms'[q].clients = rooms[q].clients
  BY <1>11 DEF OnlyRoom, SameContents
<1>13. CASE /\ change \in rooms[r].seen /\ rooms' = memory
            /\ sockets' = [sockets EXCEPT ![s].up = Tail(@)] /\ UNCHANGED <<saved, registered, lock>>
  <2> DEFINE sock == [sockets[s] EXCEPT !.up = Tail(sockets[s].up)]
  <2>1. /\ sock \in Socket /\ SameBut(sock, sockets[s])
        /\ sock.up = Tail(sockets[s].up) /\ sock.down = sockets[s].down
    BY <1>2, <1>9 DEF Socket, SameBut
  <2>2. sockets' = [sockets EXCEPT ![s] = sock]
    BY <1>13
  <2> HIDE DEF sock
  <2>3. /\ sockets' \in [Slot -> Socket] /\ Handling' /\ OnlySocket(s) /\ sockets'[s] = sock
        /\ \A t \in Slot : Still(t) /\ Sends(t)
    BY <1>1, <1>13, <2>1, <2>2, FramesChange
  <2>4. Typed'
    BY <1>1, <1>11, <1>13, <2>3, StoreStays DEF Typed, PeerTypes, RoomTypes, store
  <2> QED
    BY <1>1, <1>2, <1>5, <1>11, <1>12, <1>13, <2>1, <2>3, <2>4
<1>14. CASE /\ rooms' = memory
            /\ saved' = [doc |-> memory[r].doc, base |-> memory[r].base]
            /\ sockets' = [sockets EXCEPT ![s].up = Tail(@), ![s].todo = Others(s),
                                       ![s].frame = IF Others(s) = {} THEN EmptyDoc ELSE change]
            /\ UNCHANGED <<registered, lock>>
  <2> DEFINE up == Tail(sockets[s].up)
             frame == IF Others(s) = {} THEN EmptyDoc ELSE change
             sock == [sockets[s] EXCEPT !.up = up, !.todo = Others(s), !.frame = frame]
  <2>1. up \in Seq(Frame) /\ frame \in Docs
    BY <1>2, DocFacts
  <2>2. sockets' = [sockets EXCEPT ![s] = sock]
    BY <1>9, <1>14 DEF Socket
  <2>3. Others(s) # {} => frame = change
    OBVIOUS
  <2> HIDE DEF frame
  <2>4. /\ sock \in Socket /\ sock.up = up /\ sock.down = sockets[s].down /\ sock.todo = Others(s)
        /\ sock.frame = frame /\ sock.client = sockets[s].client /\ sock.room = r
        /\ sock.open = sockets[s].open /\ sock.handler = sockets[s].handler
    <3> HIDE DEF up
    <3> QED
      BY <1>9, <1>10, <2>1 DEF Socket
  <2> HIDE DEF sock
  <2>5. sockets' \in [Slot -> Socket] /\ sockets'[s] = sock /\ OnlySocket(s)
    BY <1>9, <2>2, <2>4, SocketChange
  <2>6. \A t \in Slot : Still(t)
    BY <2>4, <2>5 DEF OnlySocket, Still
  <2>7. Handling'
    BY <1>1, <1>14, <2>4, <2>5, HandlingChange DEF Typed, Handling, Serves
  <2>8. saved' = [doc |-> rooms'[r].doc, base |-> rooms[r].base] /\ saved' \in [doc : Docs, base : 0..Len(log)]
    BY <1>3, <1>4, <1>5, <1>7, <1>14
  <2>9. StoreTypes' /\ RoomTypes' /\ PeerTypes'
    BY <1>1, <1>11, <1>14, <2>5, <2>8 DEF Typed, PeerTypes, RoomTypes, StoreTypes
  <2> QED
    BY <1>1, <1>2, <1>5, <1>11, <1>12, <1>14, <2>3, <2>4, <2>5, <2>6, <2>7, <2>8, <2>9 DEF Typed
<1>15. CASE Faults /\ Quit(s, memory) /\ UNCHANGED saved
  <2>1. /\ rooms' \in [Room -> Live] /\ \A q \in Room : rooms'[q].base \in 0..Len(log)
        /\ \A q \in Room : /\ rooms'[q].doc = memory[q].doc /\ rooms'[q].base = memory[q].base
                           /\ rooms'[q].seen = memory[q].seen
        /\ rooms'[r].clients = [memory[r].clients EXCEPT ![sockets[s].client] = NoSlot]
        /\ \A q \in Room \ {r} : rooms'[q].clients = memory[q].clients
        /\ registered' = registered \/ (registered' = NoRoom /\ registered # r)
        /\ sockets' \in [Slot -> Socket] /\ OnlySocket(s) /\ Freed(s)
        /\ lock' \in {lock, NoSlot} /\ lock' # s
    <3>1. Quit(s, memory) /\ memory \in [Room -> Live] /\ \A q \in Room : memory[q].base \in 0..Len(log)
      BY <1>7, <1>15
    <3> QED
      BY <1>1, <3>1, QuitEffect
  <2>2. RoomTypes' /\ Handling'
    BY <1>1, <2>1, QuitTypes
  <2>3. StoreTypes' /\ PeerTypes'
    BY <1>1, <1>15, <2>1, StoreStays DEF Typed, PeerTypes, store
  <2>4. /\ rooms'[r].doc = new.doc /\ rooms'[r].base = new.base /\ rooms'[r].seen = new.seen
        /\ rooms'[r].clients = [rooms[r].clients EXCEPT ![sockets[s].client] = NoSlot]
        /\ \A q \in Room \ {r} : SameContents(q) /\ rooms'[q].clients = rooms[q].clients
    BY <1>2, <1>5, <1>7, <2>1 DEF SameContents
  <2> QED
    BY <1>1, <1>2, <1>5, <1>15, <2>1, <2>2, <2>3, <2>4 DEF Typed
<1> QED
  BY <1>8, <1>13, <1>14, <1>15

-----------------------------------------------------------------------------
\* Nobody's part changes, but some handler has less to send.
LEMMA HandlingShrinks ==
    ASSUME Handling, \A s \in Slot : Still(s) /\ sockets'[s].todo \subseteq sockets[s].todo,
           lock' \in {lock, NoSlot}, busy' = busy
    PROVE  Handling'
BY RoomAssumption DEF Handling, Serves, Still

\* How s gets on with its broadcast at peer p.
SendsOn(s, p) ==
    /\ \A t \in Slot : Still(t) /\ sockets'[t].up = sockets[t].up
    /\ \A t \in Slot \ {s} : Sends(t)
    /\ sockets'[s].todo = sockets[s].todo \ {p}
    /\ sockets[s].todo \ {p} # {} => sockets'[s].frame = sockets[s].frame
    /\ \A t \in Slot \ {p} : sockets'[t].down = sockets[t].down
    /\ registered' = registered

\* The user of p is not listed in room r any more.
Forgets(r, p) ==
    /\ rooms'[r].clients = [rooms[r].clients EXCEPT ![sockets[p].client] = NoSlot]
    /\ \A q \in Room \ {r} : rooms'[q].clients = rooms[q].clients

LEMMA RelayEffect ==
    ASSUME Typed, NEW s \in Slot, Relay(s)
    PROVE  LET r == sockets[s].room IN
           /\ Typed' /\ UNCHANGED <<store, busy, writes, replica, typed>>
           /\ LoopFree /\ Serves(s) /\ r \in Room
           /\ \A q \in Room : SameContents(q)
           /\ \E p \in sockets[s].todo :
                 \/ /\ SendsOn(s, p) /\ UNCHANGED rooms
                    /\ Serves(p) /\ sockets'[p].down = Answer(p, Update(sockets[s].frame))
                 \/ /\ SendsOn(s, p) /\ Forgets(r, p)
                    /\ ~sockets[p].open /\ p # s /\ sockets'[p].down = sockets[p].down
                 \/ /\ BrokenReset /\ ~sockets[s].open /\ Freed(s) /\ OnlySocket(s) /\ Forgets(r, s)
                    /\ \/ registered' = registered
                       \/ registered' = NoRoom /\ registered # r
<1> DEFINE r == sockets[s].room
<1>1. LoopFree /\ UNCHANGED <<store, busy, writes, replica, typed>>
  BY DEF Relay
<1>2. PICK p \in sockets[s].todo :
        LET left == sockets[s].todo \ {p}
            rest == IF left = {} THEN EmptyDoc ELSE sockets[s].frame
            freed == IF lock = s /\ left = {} THEN NoSlot ELSE lock IN
        \/ /\ sockets[p].handler = "serving"
           /\ sockets' = [sockets EXCEPT ![s].todo = left, ![s].frame = rest,
                                         ![p].down = Answer(p, Update(sockets[s].frame))]
           /\ lock' = freed
           /\ UNCHANGED <<registered, rooms>>
        \/ /\ ~sockets[p].open /\ p # s
           /\ sockets' = [sockets EXCEPT ![s].todo = left, ![s].frame = rest]
           /\ rooms' = [rooms EXCEPT ![r].clients[sockets[p].client] = NoSlot]
           /\ lock' = freed
           /\ UNCHANGED registered
        \/ /\ BrokenReset /\ ~sockets[p].open /\ p = s
           /\ Quit(s, rooms)
  BY Zenon DEF Relay
<1> DEFINE left == sockets[s].todo \ {p}
           rest == IF left = {} THEN EmptyDoc ELSE sockets[s].frame
           freed == IF lock = s /\ left = {} THEN NoSlot ELSE lock
           answer == Answer(p, Update(sockets[s].frame))
           sock == [sockets[s] EXCEPT !.todo = left, !.frame = rest]
<1>3. /\ sockets \in [Slot -> Socket] /\ sockets[s] \in Socket /\ p \in Slot /\ sockets[p] \in Socket
      /\ sockets[p].client \in Client
  BY SocketTypes
<1>4. Serves(s) /\ r \in Room
  BY ServingFacts DEF Typed, Handling
<1>5. /\ sock \in Socket /\ sock.todo = left /\ sock.frame = rest /\ sock.up = sockets[s].up
      /\ sock.down = sockets[s].down /\ sock.client = sockets[s].client /\ sock.room = r
      /\ sock.open = sockets[s].open /\ sock.handler = sockets[s].handler
  BY <1>3, DocFacts DEF Socket
<1>6. answer \in Seq(Frame)
  BY <1>3, SocketTypes, FrameFacts, AnswerFacts
<1>7. left # {} => rest = sockets[s].frame
  OBVIOUS
<1>8. freed \in {lock, NoSlot}
  OBVIOUS
<1>9. ASSUME \A q \in Room : SameContents(q), rooms' \in [Room -> Live], registered' = registered,
             lock' = freed, sockets' \in [Slot -> Socket], SendsOn(s, p)
      PROVE  Typed'
  <2>1. RoomTypes'
    BY <1>1, <1>8, <1>9 DEF Typed, RoomTypes, SameContents, store
  <2>2. Handling'
    BY <1>1, <1>3, <1>8, <1>9, HandlingShrinks DEF Typed, SendsOn, Sends
  <2> QED
    BY <1>1, <1>9, <2>1, <2>2, StoreStays DEF Typed, PeerTypes
<1> HIDE DEF sock, rest, freed
<1>10. CASE /\ sockets[p].handler = "serving"
            /\ sockets' = [sockets EXCEPT ![s].todo = left, ![s].frame = rest, ![p].down = answer]
            /\ lock' = freed
            /\ UNCHANGED <<registered, rooms>>
  <2> DEFINE mid == [sockets EXCEPT ![s] = sock]
             other == [mid[p] EXCEPT !.down = answer]
  <2>1. mid \in [Slot -> Socket] /\ mid[s] = sock /\ \A t \in Slot \ {s} : mid[t] = sockets[t]
    BY <1>3, <1>5
  <2>2. sockets' = [mid EXCEPT ![p] = other]
    BY <1>3, <1>10 DEF Socket, sock
  <2> HIDE DEF mid
  <2>3. mid[p] \in Socket
    BY <1>3, <2>1
  <2> HIDE DEF answer
  <2>4. /\ other \in Socket /\ other.down = answer /\ other.up = mid[p].up /\ other.todo = mid[p].todo
        /\ other.frame = mid[p].frame /\ other.client = mid[p].client /\ other.room = mid[p].room
        /\ other.open = mid[p].open /\ other.handler = mid[p].handler
    BY <1>6, <2>3 DEF Socket
  <2> HIDE DEF other
  <2>5. sockets' \in [Slot -> Socket] /\ sockets'[p] = other /\ \A t \in Slot \ {p} : sockets'[t] = mid[t]
    BY <1>3, <2>1, <2>2, <2>4
  <2>6. \A t \in Slot : Still(t) /\ sockets'[t].up = sockets[t].up
    BY <1>3, <1>5, <2>1, <2>4, <2>5 DEF Still
  <2>7. \A t \in Slot \ {s} : Sends(t)
    BY <1>3, <2>1, <2>4, <2>5 DEF Sends
  <2>8. sockets'[s].todo = left /\ sockets'[s].frame = rest
    BY <1>3, <1>5, <2>1, <2>4, <2>5
  <2>9. \A t \in Slot \ {p} : sockets'[t].down = sockets[t].down
    BY <1>3, <1>5, <2>1, <2>5
  <2>10. SendsOn(s, p)
    BY <1>7, <1>10, <2>6, <2>7, <2>8, <2>9 DEF SendsOn
  <2>11. \A q \in Room : SameContents(q)
    BY <1>10 DEF SameContents
  <2>12. rooms' \in [Room -> Live]
    BY <1>10 DEF Typed, RoomTypes
  <2>13. Typed'
    BY <1>9, <1>10, <2>5, <2>10, <2>11, <2>12
  <2> QED
    BY <1>1, <1>4, <1>10, <2>4, <2>5, <2>10, <2>11, <2>13 DEF Serves, answer
<1>11. CASE /\ ~sockets[p].open /\ p # s
            /\ sockets' = [sockets EXCEPT ![s].todo = left, ![s].frame = rest]
            /\ rooms' = [rooms EXCEPT ![r].clients[sockets[p].client] = NoSlot]
            /\ lock' = freed
            /\ UNCHANGED registered
  <2>1. sockets' = [sockets EXCEPT ![s] = sock]
    BY <1>3, <1>11 DEF Socket, sock
  <2>2. sockets' \in [Slot -> Socket] /\ sockets'[s] = sock /\ OnlySocket(s)
    BY <1>3, <1>5, <2>1, SocketChange
  <2>3. SendsOn(s, p)
    BY <1>3, <1>5, <1>7, <1>11, <2>2 DEF SendsOn, Still, Sends, OnlySocket
  <2> DEFINE new == [rooms[r] EXCEPT !.clients[sockets[p].client] = NoSlot]
  <2>4. rooms[r] \in Live /\ rooms[r].base \in 0..Len(log)
    BY <1>4, LiveTypes
  <2>5. /\ new \in Live /\ new.doc = rooms[r].doc /\ new.base = rooms[r].base /\ new.seen = rooms[r].seen
        /\ new.clients = [rooms[r].clients EXCEPT ![sockets[p].client] = NoSlot]
    BY <1>3, <2>4 DEF Live
  <2>6. rooms' = [rooms EXCEPT ![r] = new]
    BY <1>11
  <2> HIDE DEF new
  <2>7. rooms' \in [Room -> Live] /\ rooms'[r] = new /\ OnlyRoom(r)
    <3>1. log' = log
      BY <1>1 DEF store
    <3> QED
      BY <1>4, <2>4, <2>5, <2>6, <3>1, RoomChange
  <2>8. (\A q \in Room : SameContents(q)) /\ Forgets(r, p)
    BY <2>5, <2>7 DEF SameContents, Forgets, OnlyRoom
  <2>9. Typed'
    BY <1>9, <1>11, <2>2, <2>3, <2>7, <2>8
  <2>10. sockets'[p].down = sockets[p].down
    BY <1>3, <1>11, <2>2 DEF OnlySocket
  <2> QED
    BY <1>1, <1>4, <1>11, <2>3, <2>8, <2>9, <2>10
<1>12. CASE BrokenReset /\ ~sockets[p].open /\ p = s /\ Quit(s, rooms)
  <2>1. rooms \in [Room -> Live] /\ \A q \in Room : rooms[q].base \in 0..Len(log)
    BY LiveTypes DEF Typed, RoomTypes
  <2>2. /\ rooms' \in [Room -> Live] /\ \A q \in Room : rooms'[q].base \in 0..Len(log)
        /\ \A q \in Room : /\ rooms'[q].doc = rooms[q].doc /\ rooms'[q].base = rooms[q].base
                           /\ rooms'[q].seen = rooms[q].seen
        /\ rooms'[r].clients = [rooms[r].clients EXCEPT ![sockets[s].client] = NoSlot]
        /\ \A q \in Room \ {r} : rooms'[q].clients = rooms[q].clients
        /\ \/ registered' = registered
           \/ registered' = NoRoom /\ registered # r
        /\ sockets' \in [Slot -> Socket] /\ OnlySocket(s) /\ Freed(s)
        /\ lock' \in {lock, NoSlot} /\ lock' # s
    BY <1>4, <1>12, <2>1, QuitEffect
  <2>3. RoomTypes' /\ Handling'
    BY <1>1, <1>4, <2>2, QuitTypes DEF store
  <2>4. StoreTypes' /\ PeerTypes'
    BY <1>1, <2>2, StoreStays DEF Typed, PeerTypes
  <2> QED
    BY <1>1, <1>4, <1>12, <2>2, <2>3, <2>4 DEF Typed, SameContents, Forgets
<1> QED
  BY <1>2, <1>10, <1>11, <1>12 DEF rest, freed

-----------------------------------------------------------------------------
LEMMA ServeResetEffect ==
    ASSUME Typed, NEW s \in Slot, ServeReset(s)
    PROVE  LET r == sockets[s].room
               doc == SetText(rooms[r].doc, log[Shown].text, writes + 1) IN
           /\ Typed' /\ UNCHANGED <<store, registered, replica, typed>>
           /\ LoopFree /\ Serves(s) /\ r \in Room /\ sockets[s].todo = {}
           /\ sockets[s].up # <<>> /\ Head(sockets[s].up).type = "reset"
           /\ writes < MaxWrites /\ writes' = writes + 1
           /\ rooms'[r].doc = doc /\ rooms'[r].base = Shown /\ rooms'[r].seen = rooms[r].seen
           /\ \A q \in Room : rooms'[q].clients = rooms[q].clients
           /\ OnlyRoom(r) /\ OnlySocket(s) /\ \A t \in Slot : Still(t)
           /\ sockets'[s].up = Tail(sockets[s].up) /\ sockets'[s].down = sockets[s].down
           /\ sockets'[s].frame = doc /\ sockets'[s].todo = Others(s) \cup {s}
           /\ busy' = [slot |-> s, at |-> "persist"]
<1> DEFINE r == sockets[s].room
           doc == SetText(rooms[r].doc, log[Shown].text, writes + 1)
           up == Tail(sockets[s].up)
           new == [rooms[r] EXCEPT !.doc = doc, !.base = Shown]
           sock == [sockets[s] EXCEPT !.up = up, !.frame = doc, !.todo = Others(s) \cup {s}]
<1>1. /\ LoopFree /\ Serves(s) /\ sockets[s].todo = {} /\ sockets[s].up # <<>>
      /\ Head(sockets[s].up).type = "reset"
      /\ UNCHANGED <<store, registered, replica, typed>> /\ lock' = s /\ writes' = writes + 1
      /\ writes < MaxWrites /\ busy' = [slot |-> s, at |-> "persist"]
  BY DEF ServeReset, Serving, Serves
<1>2. /\ r \in Room /\ sockets \in [Slot -> Socket] /\ sockets[s] \in Socket /\ up \in Seq(Frame)
  BY <1>1, ServingFacts, SocketTypes, QueueFacts
<1>3. rooms[r] \in Live /\ rooms \in [Room -> Live] /\ rooms[r].doc \in Docs
  BY <1>2, LiveTypes
<1>4. Shown \in 1..Len(log) /\ log[Shown].text \in SUBSET Word /\ Len(log) \in Nat
  BY ShownFacts DEF Typed
<1>5. writes + 1 \in 1..MaxWrites /\ writes \in Nat
  BY <1>1, RoomAssumption DEF Typed, RoomTypes
<1>6. doc \in Docs
  BY <1>3, <1>4, <1>5, SetTextFacts
<1>7. Others(s) \in SUBSET Slot
  BY <1>2, LiveTypes DEF Others
<1>8. rooms' = [rooms EXCEPT ![r] = new] /\ sockets' = [sockets EXCEPT ![s] = sock]
  <2>1. /\ rooms' = [rooms EXCEPT ![r].doc = doc, ![r].base = Shown]
        /\ sockets' = [sockets EXCEPT ![s].up = up, ![s].frame = doc, ![s].todo = Others(s) \cup {s}]
    BY Zenon DEF ServeReset
  <2> HIDE DEF doc, up
  <2> QED
    BY <1>2, <1>3, <2>1 DEF Live, Socket
<1> HIDE DEF doc, up
<1>9. /\ new \in Live /\ new.doc = doc /\ new.base = Shown /\ new.seen = rooms[r].seen
      /\ new.clients = rooms[r].clients
  <2>1. Shown \in Nat
    BY <1>4
  <2>2. new = [[rooms[r] EXCEPT !.doc = doc] EXCEPT !.base = Shown]
    OBVIOUS
  <2> HIDE DEF new
  <2> QED
    BY <1>3, <1>6, <2>1, <2>2 DEF Live
<1>10. /\ sock \in Socket /\ sock.up = up /\ sock.down = sockets[s].down /\ sock.frame = doc
       /\ sock.todo = Others(s) \cup {s} /\ sock.client = sockets[s].client /\ sock.room = r
       /\ sock.open = sockets[s].open /\ sock.handler = sockets[s].handler
  BY <1>2, <1>6, <1>7 DEF Socket
<1> HIDE DEF new, sock
<1>11. sockets' \in [Slot -> Socket] /\ sockets'[s] = sock /\ OnlySocket(s)
  BY <1>2, <1>8, <1>10, SocketChange
<1>12. /\ rooms' \in [Room -> Live] /\ rooms'[r] = new /\ OnlyRoom(r)
       /\ \A q \in Room : rooms'[q].base <= Len(log')
  <2>1. log' = log /\ new.base \in 0..Len(log)
    BY <1>1, <1>4, <1>9 DEF store
  <2> QED
    BY <1>2, <1>8, <1>9, <2>1, RoomChange
<1>13. \A q \in Room : rooms'[q].clients = rooms[q].clients
  BY <1>9, <1>12 DEF OnlyRoom
<1>14. \A t \in Slot : Still(t)
  BY <1>10, <1>11 DEF Still, OnlySocket
<1>15. StoreTypes' /\ PeerTypes' /\ RoomTypes'
  BY <1>1, <1>5, <1>11, <1>12, StoreStays DEF Typed, PeerTypes, RoomTypes
<1>16. Handling'
  <2>1. Serves(s)' /\ sockets'[s].room # NoRoom /\ sockets'[s].handler # "free"
    BY <1>1, <1>10, <1>11 DEF Serves, Typed, Handling
  <2>2. lock' = s /\ busy'.slot = s /\ busy'.at = "persist" /\ s # NoSlot
    BY <1>1, RoomAssumption
  <2> QED
    BY <1>11, <2>1, <2>2, HandlingChange DEF Typed
<1> QED
  BY <1>1, <1>2, <1>9, <1>10, <1>11, <1>12, <1>13, <1>14, <1>15, <1>16 DEF Typed, doc, up

LEMMA ServeCommitEffect ==
    ASSUME Typed, NEW s \in Slot, ServeCommit(s)
    PROVE  /\ Typed' /\ UNCHANGED <<store, registered, rooms, writes, replica, typed>>
           /\ LoopFree /\ Serves(s) /\ sockets[s].up # <<>> /\ Head(sockets[s].up).type = "commit"
           /\ OnlySocket(s) /\ \A t \in Slot : Still(t) /\ Sends(t)
           /\ sockets'[s].up = Tail(sockets[s].up) /\ sockets'[s].down = sockets[s].down
           /\ busy' = busy \/ busy' = [slot |-> s, at |-> "commit"]
<1> DEFINE sock == [sockets[s] EXCEPT !.up = Tail(sockets[s].up)]
<1>1. /\ LoopFree /\ Serves(s) /\ sockets[s].up # <<>> /\ Head(sockets[s].up).type = "commit"
      /\ UNCHANGED <<store, registered, rooms, lock, writes, replica, typed>>
      /\ busy' = busy \/ busy' = [slot |-> s, at |-> "commit"]
      /\ sockets' = [sockets EXCEPT ![s] = sock]
  BY DEF ServeCommit, Serving, Serves
<1>2. /\ sockets \in [Slot -> Socket] /\ sockets[s] \in Socket /\ Tail(sockets[s].up) \in Seq(Frame)
  BY <1>1, SocketTypes, QueueFacts
<1>3. /\ sock \in Socket /\ SameBut(sock, sockets[s]) /\ sock.up = Tail(sockets[s].up)
      /\ sock.down = sockets[s].down
  BY <1>2 DEF Socket, SameBut
<1> HIDE DEF sock
<1>4. sockets' \in [Slot -> Socket] /\ sockets'[s] = sock /\ OnlySocket(s)
  BY <1>1, <1>2, <1>3, SocketChange
<1>5. \A t \in Slot : Still(t) /\ Sends(t)
  BY <1>3, <1>4 DEF Still, Sends, OnlySocket, SameBut
<1>6. Handling'
  <2>1. Serves(s)' /\ sockets'[s].room # NoRoom /\ sockets'[s].handler # "free"
    BY <1>1, <1>5 DEF Serves, Typed, Handling, Still
  <2>2. busy'.slot \in {busy.slot, s} /\ (busy'.slot = NoSlot <=> busy'.at = "free")
    BY <1>1, RoomAssumption DEF Typed, Handling
  <2> QED
    BY <1>1, <1>4, <2>1, <2>2, HandlingChange DEF Typed
<1>7. RoomTypes'
  BY <1>1 DEF Typed, RoomTypes, store
<1>8. StoreTypes' /\ PeerTypes'
  BY <1>1, <1>4, StoreStays DEF Typed, PeerTypes
<1> QED
  BY <1>1, <1>3, <1>4, <1>5, <1>6, <1>7, <1>8 DEF Typed

\* The loop goes on: whoever blocked it serves.
LEMMA BusyFacts ==
    ASSUME Typed, NEW s \in Slot, busy.slot = s
    PROVE  Serves(s) /\ sockets[s].room \in Room
BY ServingFacts DEF Typed, Handling

LEMMA LoopGoesOn ==
    ASSUME Handling, UNCHANGED <<sockets, lock>>, busy' = [slot |-> NoSlot, at |-> "free"]
    PROVE  Handling'
BY RoomAssumption DEF Handling, Serves

LEMMA StoreCommitEffect ==
    ASSUME Typed, NEW s \in Slot, StoreCommit(s)
    PROVE  LET r == sockets[s].room IN
           /\ Typed' /\ UNCHANGED <<tentative, lost, saved, registered, sockets, lock, writes, replica, typed>>
           /\ r \in Room /\ Serves(s) /\ tentative = 0 /\ busy.at = "commit"
           /\ \/ /\ head = rooms[r].base
                 /\ log' = Append(log, [text |-> Text(rooms[r].doc), parent |-> head])
                 /\ Text(rooms[r].doc) \in SUBSET Word
                 /\ head' = Len(log) + 1 /\ busy'.at = "persist"
                 /\ OnlyRoom(r) /\ rooms'[r].base = head' /\ rooms'[r].doc = rooms[r].doc
                 /\ rooms'[r].seen = rooms[r].seen /\ rooms'[r].clients = rooms[r].clients
              \/ UNCHANGED <<log, head, rooms>> /\ busy'.at = "free"
<1> DEFINE r == sockets[s].room
           text == Text(rooms[r].doc)
           commit == [text |-> text, parent |-> head]
<1>1. /\ busy.slot = s /\ busy.at = "commit" /\ tentative = 0
      /\ UNCHANGED <<tentative, lost, saved, registered, sockets, lock, writes, replica, typed>>
  BY DEF StoreCommit
<1>2. Serves(s) /\ r \in Room
  BY <1>1, BusyFacts
<1>3. /\ rooms \in [Room -> Live] /\ rooms[r] \in Live /\ rooms[r].doc \in Docs
      /\ \A q \in Room : rooms[q].base \in 0..Len(log)
  BY <1>2, LiveTypes DEF Typed, RoomTypes
<1>4. text \in SUBSET Word
  BY <1>3 DEF Text, Docs, Item
<1>5. /\ Len(log) \in Nat /\ log \in Seq([text : SUBSET Word, parent : Nat]) /\ head \in 1..Len(log)
  BY ShownFacts DEF Typed, StoreTypes
<1>6. PeerTypes'
  BY <1>1 DEF Typed, PeerTypes
<1>7. CASE /\ log' = Append(log, commit) /\ head' = Len(log') /\ head = rooms[r].base
           /\ rooms' = [rooms EXCEPT ![r].base = head']
           /\ busy' = [slot |-> s, at |-> "persist"]
  <2> DEFINE new == [rooms[r] EXCEPT !.base = head']
  <2>1. commit \in [text : SUBSET Word, parent : Nat] /\ commit.parent = head
    BY <1>4, <1>5
  <2> HIDE DEF commit
  <2>2. /\ log' \in Seq([text : SUBSET Word, parent : Nat]) /\ Len(log') = Len(log) + 1
        /\ \A i \in 1..Len(log) : log'[i] = log[i]
        /\ log'[Len(log) + 1] = commit
    BY <1>5, <1>7, <2>1, AppendProperties
  <2>3. head' = Len(log) + 1 /\ head' \in Nat
    BY <1>5, <1>7, <2>2
  <2>4. /\ new \in Live /\ new.base = head' /\ new.doc = rooms[r].doc /\ new.seen = rooms[r].seen
        /\ new.clients = rooms[r].clients
    BY <1>3, <2>3 DEF Live
  <2>5. rooms' = [rooms EXCEPT ![r] = new]
    BY <1>7
  <2> HIDE DEF new
  <2>6. rooms' \in [Room -> Live] /\ rooms'[r] = new /\ \A q \in Room \ {r} : rooms'[q] = rooms[q]
    BY <1>2, <1>3, <2>4, <2>5
  <2>7. \A i \in 1..Len(log') : log'[i].parent \in 0..i - 1
    <3> SUFFICES ASSUME NEW i \in 1..Len(log) + 1 PROVE log'[i].parent \in 0..i - 1
      BY <2>2
    <3>1. CASE i \in 1..Len(log)
      BY <2>2, <3>1 DEF Typed, StoreTypes
    <3>2. CASE i = Len(log) + 1
      BY <1>5, <2>1, <2>2, <3>2
    <3> QED
      BY <1>5, <3>1, <3>2
  <2>8. StoreTypes'
    BY <1>1, <1>5, <2>2, <2>3, <2>7 DEF Typed, StoreTypes
  <2>9. \A q \in Room : rooms'[q].base <= Len(log')
    <3> SUFFICES ASSUME NEW q \in Room PROVE rooms'[q].base <= Len(log) + 1
      BY <2>2
    <3>1. CASE q = r
      BY <1>5, <2>3, <2>4, <2>6, <3>1
    <3>2. CASE q # r
      BY <1>3, <1>5, <2>6, <3>2
    <3> QED
      BY <3>1, <3>2
  <2>10. RoomTypes'
    BY <1>1, <1>7, <2>6, <2>9 DEF Typed, RoomTypes
  <2>11. Handling'
    BY <1>1, <1>7 DEF Typed, Handling, Serves
  <2> QED
    BY <1>1, <1>2, <1>4, <1>6, <1>7, <2>3, <2>4, <2>6, <2>8, <2>10, <2>11 DEF Typed, OnlyRoom, commit
<1>8. CASE busy' = [slot |-> NoSlot, at |-> "free"] /\ UNCHANGED <<log, head, rooms>>
  <2>1. StoreTypes' /\ RoomTypes'
    BY <1>1, <1>8 DEF Typed, StoreTypes, RoomTypes
  <2>2. Handling'
    BY <1>1, <1>8, LoopGoesOn DEF Typed
  <2> QED
    BY <1>1, <1>2, <1>6, <1>8, <2>1, <2>2 DEF Typed
<1> QED
  BY <1>7, <1>8, Zenon DEF StoreCommit

LEMMA PersistEffect ==
    ASSUME Typed, NEW s \in Slot, PersistRoom(s)
    PROVE  LET r == sockets[s].room IN
           /\ Typed' /\ UNCHANGED <<log, head, tentative, lost, registered, rooms, sockets, lock,
                                    writes, replica, typed>>
           /\ r \in Room /\ Serves(s) /\ tentative = 0 /\ busy.at = "persist" /\ busy'.at = "free"
           /\ saved' = [doc |-> rooms[r].doc, base |-> rooms[r].base]
<1> DEFINE r == sockets[s].room
<1>1. /\ busy.slot = s /\ busy.at = "persist" /\ tentative = 0
      /\ saved' = [doc |-> rooms[r].doc, base |-> rooms[r].base]
      /\ busy' = [slot |-> NoSlot, at |-> "free"]
      /\ UNCHANGED <<log, head, tentative, lost, registered, rooms, sockets, lock, writes, replica, typed>>
  BY DEF PersistRoom
<1>2. Serves(s) /\ r \in Room
  BY <1>1, BusyFacts
<1>3. saved' \in [doc : Docs, base : 0..Len(log)]
  BY <1>1, <1>2, LiveTypes
<1>4. StoreTypes' /\ RoomTypes' /\ PeerTypes'
  BY <1>1, <1>3 DEF Typed, StoreTypes, RoomTypes, PeerTypes
<1>5. Handling'
  BY <1>1, LoopGoesOn DEF Typed
<1> QED
  BY <1>1, <1>2, <1>4, <1>5 DEF Typed

LEMMA HangupEffect ==
    ASSUME Typed, NEW s \in Slot, Hangup(s)
    PROVE  LET r == sockets[s].room IN
           /\ Typed' /\ UNCHANGED <<store, busy, writes, replica, typed>>
           /\ LoopFree /\ ~sockets[s].open /\ sockets[s].todo = {}
           /\ OnlySocket(s) /\ Freed(s)
           /\ \/ /\ Serves(s) /\ r \in Room /\ \A q \in Room : SameContents(q)
                 /\ Forgets(r, s)
                 /\ \/ registered' = registered
                    \/ registered' = NoRoom /\ registered # r
              \/ sockets[s].handler = "new" /\ UNCHANGED <<registered, rooms>>
<1> DEFINE r == sockets[s].room
           sock == [Closed EXCEPT !.client = sockets[s].client]
<1>1. /\ LoopFree /\ UNCHANGED <<store, busy, writes, replica, typed>>
      /\ ~sockets[s].open /\ sockets[s].todo = {}
  BY DEF Hangup
<1>2. CASE Serves(s) /\ Quit(s, rooms)
  <2>1. rooms \in [Room -> Live] /\ \A q \in Room : rooms[q].base \in 0..Len(log)
    BY LiveTypes DEF Typed, RoomTypes
  <2>2. /\ rooms' \in [Room -> Live] /\ \A q \in Room : rooms'[q].base \in 0..Len(log)
        /\ \A q \in Room : /\ rooms'[q].doc = rooms[q].doc /\ rooms'[q].base = rooms[q].base
                           /\ rooms'[q].seen = rooms[q].seen
        /\ rooms'[r].clients = [rooms[r].clients EXCEPT ![sockets[s].client] = NoSlot]
        /\ \A q \in Room \ {r} : rooms'[q].clients = rooms[q].clients
        /\ \/ registered' = registered
           \/ registered' = NoRoom /\ registered # r
        /\ sockets' \in [Slot -> Socket] /\ OnlySocket(s) /\ Freed(s)
        /\ lock' \in {lock, NoSlot} /\ lock' # s
    BY <1>2, <2>1, QuitEffect
  <2>3. RoomTypes' /\ Handling'
    BY <1>1, <1>2, <2>2, QuitTypes DEF store
  <2>4. StoreTypes' /\ PeerTypes'
    BY <1>1, <2>2, StoreStays DEF Typed, PeerTypes
  <2>5. r \in Room
    BY <1>2, ServingFacts
  <2> QED
    BY <1>1, <1>2, <2>2, <2>3, <2>4, <2>5 DEF Typed, SameContents, Forgets
<1>3. CASE /\ sockets[s].handler = "new" /\ sockets' = [sockets EXCEPT ![s] = sock]
           /\ UNCHANGED <<registered, rooms, lock>>
  <2>1. /\ sock \in Socket /\ sock.client = sockets[s].client /\ sock.room = NoRoom /\ sock.open = FALSE
        /\ sock.handler = "free" /\ sock.up = <<>> /\ sock.down = <<>> /\ sock.todo = {}
    BY SocketTypes, ClosedFacts DEF Socket
  <2> HIDE DEF sock
  <2>2. sockets' \in [Slot -> Socket] /\ sockets'[s] = sock /\ OnlySocket(s)
    BY <1>3, <2>1, SocketTypes, SocketChange
  <2>3. Freed(s)
    BY <2>1, <2>2 DEF Freed
  <2>4. Handling'
    <3>1. lock # s /\ busy.slot # s /\ (busy.slot = NoSlot <=> busy.at = "free")
      BY <1>3 DEF Typed, Handling, Serves
    <3> QED
      BY <1>1, <1>3, <2>2, <2>3, <3>1, HandlingChange DEF Typed, Freed, Serves
  <2>5. StoreTypes' /\ RoomTypes' /\ PeerTypes'
    BY <1>1, <1>3, <2>2, StoreStays DEF Typed, PeerTypes, RoomTypes, store
  <2> QED
    BY <1>1, <1>3, <2>2, <2>3, <2>4, <2>5 DEF Typed
<1> QED
  BY <1>2, <1>3 DEF Hangup, Serves

-----------------------------------------------------------------------------
LEMMA LogGrows ==
    ASSUME StoreTypes, NEW text \in SUBSET Word,
           log' = Append(log, [text |-> text, parent |-> head])
    PROVE  /\ log' \in Seq([text : SUBSET Word, parent : Nat]) /\ Len(log') = Len(log) + 1
           /\ \A i \in 1..Len(log) : log'[i] = log[i]
           /\ log'[Len(log) + 1].text = text
           /\ \A i \in 1..Len(log') : log'[i].parent \in 0..i - 1
           /\ Len(log) \in Nat
<1> DEFINE commit == [text |-> text, parent |-> head]
<1>1. /\ Len(log) \in Nat /\ head \in 1..Len(log) /\ log \in Seq([text : SUBSET Word, parent : Nat])
  BY ShownFacts DEF StoreTypes
<1>2. commit \in [text : SUBSET Word, parent : Nat] /\ commit.parent = head /\ commit.text = text
  BY <1>1
<1>3. log' = Append(log, commit)
  OBVIOUS
<1> HIDE DEF commit
<1>4. /\ log' \in Seq([text : SUBSET Word, parent : Nat]) /\ Len(log') = Len(log) + 1
      /\ \A i \in 1..Len(log) : log'[i] = log[i]
      /\ log'[Len(log) + 1] = commit
  BY <1>1, <1>2, <1>3, AppendProperties
<1>5. ASSUME NEW i \in 1..Len(log) + 1 PROVE log'[i].parent \in 0..i - 1
  <2>1. CASE i \in 1..Len(log)
    BY <1>4, <2>1 DEF StoreTypes
  <2>2. CASE i = Len(log) + 1
    BY <1>1, <1>2, <1>4, <2>2
  <2> QED
    BY <1>1, <2>1, <2>2
<1> QED
  BY <1>1, <1>2, <1>4, <1>5

LEMMA RestBeginEffect ==
    ASSUME Typed, RestBegin
    PROVE  /\ Typed' /\ UNCHANGED <<head, lost, saved, server, sockets, replica>>
           /\ tentative = 0 /\ tentative' = Len(log) + 1
           /\ Len(log) \in Nat /\ Len(log') = Len(log) + 1
           /\ \A i \in 1..Len(log) : log'[i] = log[i]
           /\ \E w \in Word :
                 LET text == log[head].text IN
                 /\ typed' = typed \cup {w}
                 /\ \/ w \in text /\ log'[Len(log) + 1].text = text \ {w}
                    \/ w \notin typed /\ log'[Len(log) + 1].text = text \cup {w}
<1>1. PICK w \in Word :
        /\ w \in log[head].text \/ w \notin typed
        /\ log' = Append(log, [text |-> IF w \in log[head].text THEN log[head].text \ {w}
                                        ELSE log[head].text \cup {w}, parent |-> head])
        /\ typed' = typed \cup {w}
  BY DEF RestBegin
<1> DEFINE text == IF w \in log[head].text THEN log[head].text \ {w} ELSE log[head].text \cup {w}
<1>2. /\ tentative = 0 /\ tentative' = Len(log')
      /\ UNCHANGED <<head, lost, saved, server, sockets, replica>>
  BY DEF RestBegin
<1>3. head \in 1..Len(log) /\ log[head].text \in SUBSET Word /\ StoreTypes
  BY ShownFacts DEF Typed, StoreTypes
<1>4. text \in SUBSET Word
  BY <1>3
<1>5. log' = Append(log, [text |-> text, parent |-> head])
  BY <1>1
<1>6. \/ w \in log[head].text /\ text = log[head].text \ {w}
      \/ w \notin typed /\ text = log[head].text \cup {w}
  BY <1>1
<1> HIDE DEF text
<1>7. /\ log' \in Seq([text : SUBSET Word, parent : Nat]) /\ Len(log') = Len(log) + 1
      /\ \A i \in 1..Len(log) : log'[i] = log[i]
      /\ log'[Len(log) + 1].text = text
      /\ \A i \in 1..Len(log') : log'[i].parent \in 0..i - 1
      /\ Len(log) \in Nat
  BY <1>3, <1>4, <1>5, LogGrows
<1>8. StoreTypes'
  <2>1. saved \in [doc : Docs, base : 0..Len(log)] /\ lost \subseteq 1..Len(log) /\ head \in 1..Len(log)
    BY <1>3 DEF StoreTypes
  <2>2. /\ 0..Len(log) \subseteq 0..Len(log') /\ 1..Len(log) \subseteq 1..Len(log')
        /\ tentative' \in 0..Len(log') /\ tentative' \notin 1..Len(log)
    BY <1>2, <1>7
  <2>3. saved \in [doc : Docs, base : 0..Len(log')]
    BY <2>1, <2>2
  <2> QED
    BY <1>2, <1>3, <1>7, <2>1, <2>2, <2>3 DEF StoreTypes
<1>9. RoomTypes'
  <2>1. \A r \in Room : rooms[r].base \in 0..Len(log)
    BY LiveTypes
  <2>2. \A r \in Room : rooms[r].base <= Len(log')
    BY <1>7, <2>1
  <2> QED
    BY <1>2, <2>2 DEF Typed, RoomTypes, server
<1>10. PeerTypes' /\ Handling'
  BY <1>1, <1>2 DEF Typed, PeerTypes, Handling, Serves, server
<1> QED
  BY <1>1, <1>2, <1>6, <1>7, <1>8, <1>9, <1>10 DEF Typed

LEMMA RestEndEffect ==
    ASSUME Typed, RestEnd
    PROVE  /\ Typed' /\ UNCHANGED <<log, saved, server, sockets, replica, typed>>
           /\ tentative # 0 /\ tentative' = 0 /\ lost \subseteq lost'
<1>1. /\ tentative # 0 /\ tentative' = 0 /\ UNCHANGED <<log, saved, server, sockets, replica, typed>>
      /\ \/ head' = tentative /\ UNCHANGED lost
         \/ lost' = lost \cup {tentative} /\ UNCHANGED head
  BY DEF RestEnd
<1>2. Len(log) \in Nat
  BY ShownFacts DEF Typed
<1>3. StoreTypes'
  <2>1. /\ log \in Seq([text : SUBSET Word, parent : Nat]) /\ \A i \in 1..Len(log) : log[i].parent \in 0..i - 1
        /\ head \in 1..Len(log) /\ tentative \in 0..Len(log) /\ tentative # head
        /\ lost \subseteq 1..Len(log) /\ head \notin lost /\ tentative \notin lost
        /\ saved \in [doc : Docs, base : 0..Len(log)]
    BY DEF Typed, StoreTypes
  <2>2. head' \in 1..Len(log) /\ lost' \subseteq 1..Len(log) /\ head' \notin lost'
    <3>1. tentative \in 1..Len(log)
      BY <1>1, <1>2, <2>1
    <3>2. CASE head' = tentative /\ lost' = lost
      BY <2>1, <3>1, <3>2
    <3>3. CASE lost' = lost \cup {tentative} /\ head' = head
      BY <2>1, <3>1, <3>3
    <3> QED
      BY <1>1, <3>2, <3>3
  <2>3. tentative' \in 0..Len(log) /\ tentative' # head' /\ tentative' \notin lost'
    BY <1>1, <1>2, <2>2
  <2> QED
    BY <1>1, <2>1, <2>2, <2>3 DEF StoreTypes
<1>4. RoomTypes' /\ PeerTypes' /\ Handling'
  BY <1>1 DEF Typed, RoomTypes, PeerTypes, Handling, Serves, server
<1> QED
  BY <1>1, <1>3, <1>4 DEF Typed

LEMMA NewRoomFacts ==
    /\ NewRoom \in Live /\ NewRoom.doc = EmptyDoc /\ NewRoom.base = 0 /\ NewRoom.seen = {}
    /\ NewRoom.clients = Nobody /\ \A c \in Client : Nobody[c] = NoSlot
<1>1. Nobody \in [Client -> Slot \cup {NoSlot}] /\ \A c \in Client : Nobody[c] = NoSlot
  BY DEF Nobody
<1> QED
  BY <1>1, DocFacts DEF NewRoom, Live

\* No handler runs and no room is known.
Afresh ==
    /\ registered = NoRoom /\ busy.at = "free" /\ lock = NoSlot
    /\ \A r \in Room : rooms[r].doc = EmptyDoc /\ rooms[r].base = 0 /\ rooms[r].clients = Nobody
    /\ \A s \in Slot : /\ sockets[s].handler = "free" /\ sockets[s].room = NoRoom /\ ~sockets[s].open
                       /\ sockets[s].up = <<>> /\ sockets[s].down = <<>> /\ sockets[s].todo = {}

LEMMA RestartEffect ==
    ASSUME Typed, Restart
    PROVE  /\ Typed' /\ Afresh' /\ UNCHANGED <<log, head, saved, replica, typed, writes>>
           /\ lost \subseteq lost'
<1>1. /\ lost' = lost \cup ({tentative} \ {0}) /\ tentative' = 0
      /\ registered' = NoRoom /\ rooms' = [r \in Room |-> NewRoom]
      /\ sockets' = [s \in Slot |-> Closed] /\ lock' = NoSlot
      /\ busy' = [slot |-> NoSlot, at |-> "free"]
      /\ UNCHANGED <<log, head, saved, replica, typed, writes>>
  BY DEF Restart
<1>2. Len(log) \in Nat
  BY ShownFacts DEF Typed
<1>3. StoreTypes'
  BY <1>1, <1>2 DEF Typed, StoreTypes
<1>4. RoomTypes'
  BY <1>1, <1>2, NewRoomFacts DEF Typed, RoomTypes
<1>5. PeerTypes'
  BY <1>1, ClosedFacts DEF Typed, PeerTypes
<1>6. Handling'
  BY <1>1, ClosedFacts, RoomAssumption DEF Handling, Serves
<1>7. Afresh'
  BY <1>1, ClosedFacts, NewRoomFacts DEF Afresh
<1> QED
  BY <1>1, <1>3, <1>4, <1>5, <1>6, <1>7 DEF Typed

LEMMA InitTyped == Init => Typed /\ Afresh
<1> SUFFICES ASSUME Init PROVE Typed /\ Afresh
  OBVIOUS
<1> DEFINE commit == [text |-> InitialText, parent |-> 0]
<1>1. /\ log \in Seq([text : SUBSET Word, parent : Nat]) /\ Len(log) = 1 /\ log[1] = commit
  <2>1. log = <<commit>> /\ commit \in [text : SUBSET Word, parent : Nat]
    BY RoomAssumption DEF Init
  <2> HIDE DEF commit
  <2> QED
    BY <2>1
<1>2. StoreTypes
  <2>1. saved = [doc |-> EmptyDoc, base |-> 0] /\ EmptyDoc \in Docs
    BY DocFacts DEF Init
  <2>2. \A i \in 1..Len(log) : log[i].parent \in 0..i - 1
    BY <1>1
  <2> QED
    BY <1>1, <2>1, <2>2 DEF Init, StoreTypes
<1>3. RoomTypes
  BY <1>1, NewRoomFacts, RoomAssumption DEF Init, RoomTypes
<1>4. PeerTypes
  BY ClosedFacts, DocFacts, RoomAssumption DEF Init, PeerTypes
<1>5. Handling
  BY ClosedFacts, RoomAssumption DEF Init, Handling, Serves
<1>6. Afresh
  BY ClosedFacts, NewRoomFacts DEF Init, Afresh
<1> QED
  BY <1>2, <1>3, <1>4, <1>5, <1>6 DEF Typed

-----------------------------------------------------------------------------
LEMMA TypeChange ==
    ASSUME Typed, NEW c \in Client, NEW w \in Word, Type(c, w)
    PROVE  Doc({<<c, w>>}, {}) \in Docs /\ Edit(c, Doc({<<c, w>>}, {})) /\ UNCHANGED <<store, server>>
<1>1. {<<c, w>>} \in SUBSET Item /\ {} \in SUBSET Item
  BY DEF Item, Origin
<1> QED
  BY <1>1, DocFacts DEF Type

LEMMA EraseChange ==
    ASSUME Typed, NEW c \in Client, NEW x \in replica[c].items, Erase(c, x)
    PROVE  Doc({}, {x}) \in Docs /\ Edit(c, Doc({}, {x})) /\ UNCHANGED <<store, server>>
<1>1. replica[c].items \in SUBSET Item
  BY DEF Typed, PeerTypes, Docs
<1>2. {x} \in SUBSET Item /\ {} \in SUBSET Item
  BY <1>1
<1> QED
  BY <1>2, DocFacts DEF Erase

LEMMA TypeTyped == ASSUME Typed, NEW c \in Client, NEW w \in Word, Type(c, w) PROVE Typed'
<1>1. StoreTypes' /\ RoomTypes' /\ Handling' /\ sockets' \in [Slot -> Socket] /\ replica' \in [Client -> Docs]
  BY TypeChange, EditEffect
<1>2. typed' \subseteq Word
  BY DEF Typed, PeerTypes, Type
<1> QED
  BY <1>1, <1>2 DEF Typed, PeerTypes

LEMMA EraseTyped == ASSUME Typed, NEW c \in Client, NEW x \in replica[c].items, Erase(c, x) PROVE Typed'
<1>1. StoreTypes' /\ RoomTypes' /\ Handling' /\ sockets' \in [Slot -> Socket] /\ replica' \in [Client -> Docs]
  BY EraseChange, EditEffect
<1>2. typed' \subseteq Word
  BY DEF Typed, PeerTypes, Erase
<1> QED
  BY <1>1, <1>2 DEF Typed, PeerTypes

LEMMA TypedStays == Typed /\ UNCHANGED vars => Typed'
<1> SUFFICES ASSUME Typed, UNCHANGED vars PROVE Typed'
  OBVIOUS
<1>1. StoreTypes' /\ RoomTypes'
  BY StoreStays, RoomsStay DEF Typed, vars, store
<1>2. PeerTypes' /\ Handling'
  BY DEF Typed, PeerTypes, Handling, Serves, vars, server
<1> QED
  BY <1>1, <1>2 DEF Typed

LEMMA StepTyped == Typed /\ [Next]_vars => Typed'
<1> SUFFICES ASSUME Typed, [Next]_vars PROVE Typed'
  OBVIOUS
<1>1. CASE \E c \in Client : \/ Connect(c)
                             \/ \E w \in Word : Type(c, w)
                             \/ \E x \in replica[c].items : Erase(c, x)
                             \/ \E kind \in {"commit", "reset"} : Ask(c, kind)
  BY <1>1, ConnectEffect, TypeTyped, EraseTyped, AskEffect
<1>2. ASSUME NEW s \in Slot, ClientRead(s) \/ Drop(s) \/ Serve(s) PROVE Typed'
  <2>1. CASE ClientRead(s)
    BY <2>1, ClientReadEffect
  <2>2. CASE Drop(s)
    BY <2>2, DropEffect
  <2>3. CASE Accept(s)
    BY <2>3, AcceptEffect
  <2>4. CASE ServeSync(s)
    BY <2>4, ServeSyncEffect
  <2>5. CASE ServeUpdate(s)
    BY <2>5, ServeUpdateEffect
  <2>6. CASE Relay(s)
    BY <2>6, RelayEffect
  <2>7. CASE ServeReset(s)
    BY <2>7, ServeResetEffect
  <2>8. CASE ServeCommit(s)
    BY <2>8, ServeCommitEffect
  <2>9. CASE StoreCommit(s)
    BY <2>9, StoreCommitEffect
  <2>10. CASE PersistRoom(s)
    BY <2>10, PersistEffect
  <2>11. CASE Hangup(s)
    BY <2>11, HangupEffect
  <2> QED
    BY <1>2, <2>1, <2>2, <2>3, <2>4, <2>5, <2>6, <2>7, <2>8, <2>9, <2>10, <2>11 DEF Serve
<1>3. CASE RestBegin \/ RestEnd \/ Restart
  BY <1>3, RestBeginEffect, RestEndEffect, RestartEffect
<1>4. CASE UNCHANGED vars
  BY <1>4, TypedStays
<1> QED
  BY <1>1, <1>2, <1>3, <1>4 DEF Next

LEMMA AlwaysTyped == Spec => []Typed
<1>1. Init => Typed
  BY InitTyped
<1> QED
  BY <1>1, StepTyped, PTL DEF Spec

LEMMA DocIsDoc == ASSUME NEW d \in Docs PROVE IsDoc(d)
BY DEF Docs, IsDoc

\* Every variable keeps its type, and only a serving handler has a room, relays, holds the
\* artifact lock or blocks the event loop, whatever breaks. (realtime/ws.py's handlers)
THEOREM RoomsAlwaysTyped == Spec => []TypeOK
<1>1. ASSUME Typed PROVE TypeOK
  <2>1. head \in Rows /\ tentative \in 0..Len(log) /\ lost \subseteq 1..Len(log)
    BY <1>1 DEF Typed, StoreTypes, Rows
  <2>2. \A i \in 1..Len(log) : log[i].text \subseteq Word /\ log[i].parent \in 0..(i - 1)
    BY <1>1, ShownFacts DEF Typed, StoreTypes
  <2>3. IsDoc(saved.doc) /\ saved.base \in 0..Len(log)
    BY <1>1, DocIsDoc DEF Typed, StoreTypes
  <2>4. registered \in Room \cup {NoRoom}
    BY <1>1 DEF Typed, RoomTypes
  <2>5. \A r \in Room : IsDoc(rooms[r].doc) /\ rooms[r].clients \in [Client -> Slot \cup {NoSlot}]
    BY <1>1, LiveTypes, DocIsDoc
  <2>6. \A c \in Client : IsDoc(replica[c])
    BY <1>1, DocIsDoc DEF Typed, PeerTypes
  <2>7. \A s \in Slot : sockets[s].handler \in Handlers
    BY <1>1, SocketTypes
  <2>8. \A s \in Slot : /\ (sockets[s].handler = "serving") = (sockets[s].room # NoRoom)
                        /\ sockets[s].todo # {} \/ lock = s \/ busy.slot = s => sockets[s].handler = "serving"
    BY <1>1 DEF Typed, Handling, Serves
  <2> QED
    BY <2>1, <2>2, <2>3, <2>4, <2>5, <2>6, <2>7, <2>8 DEF TypeOK
<1> QED
  BY <1>1, AlwaysTyped, PTL

-----------------------------------------------------------------------------
(* One room.                                                               *)

Taken(s) == sockets[s].handler # "free" \/ Listed(s)

\* Unless Overlap: the room that is served lists the sockets it serves and no other, and
\* a browser has one socket that anybody still knows.
Hub ==
    /\ \A s \in Slot : Serves(s) => sockets[s].room = registered
    /\ \A r \in Room, c \in Client, t \in Slot :
          rooms[r].clients[c] = t => Serves(t) /\ sockets[t].client = c /\ sockets[t].room = r
    /\ \A s \in Slot : Serves(s) /\ sockets[s].open =>
          rooms[registered].clients[sockets[s].client] = s
    /\ \A s, t \in Slot : s # t /\ sockets[s].client = sockets[t].client /\ Taken(s) => ~Taken(t)

\* Nobody comes, nobody is freed.
Remains(s) ==
    /\ sockets'[s].client = sockets[s].client /\ sockets'[s].room = sockets[s].room
    /\ sockets'[s].handler = sockets[s].handler /\ (sockets'[s].open => sockets[s].open)

LEMMA HubStays ==
    ASSUME Hub, \A s \in Slot : Remains(s) /\ (Taken(s)' => Taken(s)), registered' = registered,
           \A r \in Room : rooms'[r].clients = rooms[r].clients, Typed
    PROVE  Hub'
<1>1. \A s \in Slot : Serves(s)' => sockets'[s].room = registered'
  BY DEF Hub, Remains, Serves
<1>2. \A r \in Room, c \in Client, t \in Slot :
         rooms'[r].clients[c] = t => Serves(t)' /\ sockets'[t].client = c /\ sockets'[t].room = r
  BY DEF Hub, Remains, Serves
<1>3. \A s \in Slot : Serves(s)' /\ sockets'[s].open => rooms'[registered'].clients[sockets'[s].client] = s
  <2>1. \A s \in Slot : Serves(s) => registered \in Room
    BY ServingFacts DEF Hub
  <2> QED
    BY <2>1 DEF Hub, Remains, Serves
<1>4. \A s, t \in Slot : s # t /\ sockets'[s].client = sockets'[t].client /\ Taken(s)' => ~Taken(t)'
  BY DEF Hub, Remains
<1> QED
  BY <1>1, <1>2, <1>3, <1>4 DEF Hub

LEMMA StillRemains ==
    ASSUME \A s \in Slot : Still(s) /\ sockets'[s].todo \subseteq sockets[s].todo
    PROVE  \A s \in Slot : Remains(s) /\ (Taken(s)' => Taken(s))
BY DEF Still, Remains, Taken, Listed

LEMMA OthersServe ==
    ASSUME Typed, Hub, NEW s \in Slot, Serves(s)
    PROVE  \A t \in Others(s) : t \in Slot /\ Serves(t) /\ sockets[t].room = sockets[s].room /\ Taken(t)
<1>1. sockets[s].room \in Room
  BY ServingFacts
<1>2. ASSUME NEW t \in Others(s)
      PROVE  t \in Slot /\ Serves(t) /\ sockets[t].room = sockets[s].room /\ Taken(t)
  <2>1. PICK c \in Client : t = rooms[sockets[s].room].clients[c] /\ t # NoSlot
    BY DEF Others
  <2>2. t \in Slot
    BY <1>1, <2>1, LiveTypes
  <2>3. Serves(t) /\ sockets[t].room = sockets[s].room
    BY <1>1, <2>1, <2>2 DEF Hub
  <2> QED
    BY <2>2, <2>3 DEF Taken, Serves
<1> QED
  BY <1>2

\* s leaves the room it serves.
LEMMA HubQuits ==
    ASSUME Typed, Hub, NEW s \in Slot, Serves(s), Freed(s), OnlySocket(s), Forgets(sockets[s].room, s),
           \/ registered' = registered
           \/ registered' = NoRoom /\ registered # sockets[s].room
    PROVE  Hub' /\ registered' = registered
<1> DEFINE r == sockets[s].room
<1>1. r \in Room /\ r = registered /\ registered' = registered /\ sockets[s].client \in Client
  BY ServingFacts, SocketTypes DEF Hub
<1>2. \A t \in Slot : Serves(t)' => t # s /\ Serves(t) /\ sockets'[t] = sockets[t]
  BY DEF Freed, OnlySocket, Serves
<1>3. \A t \in Slot : Serves(t)' => sockets'[t].room = registered'
  BY <1>1, <1>2 DEF Hub
<1>4. ASSUME NEW q \in Room, NEW c \in Client, NEW t \in Slot, rooms'[q].clients[c] = t
      PROVE  Serves(t)' /\ sockets'[t].client = c /\ sockets'[t].room = q
  <2>1. rooms[r].clients \in [Client -> Slot \cup {NoSlot}] /\ NoSlot \notin Slot
    BY <1>1, LiveTypes, RoomAssumption
  <2>2. rooms[q].clients[c] = t /\ ~(q = r /\ c = sockets[s].client)
    BY <1>1, <1>4, <2>1 DEF Forgets
  <2>3. Serves(t) /\ sockets[t].client = c /\ sockets[t].room = q
    BY <2>2 DEF Hub
  <2>4. t # s
    BY <2>2, <2>3
  <2> QED
    BY <2>2, <2>3, <2>4 DEF OnlySocket, Serves
<1>5. ASSUME NEW t \in Slot, Serves(t)', sockets'[t].open
      PROVE  rooms'[registered'].clients[sockets'[t].client] = t
  <2>1. t # s /\ Serves(t) /\ sockets[t].open /\ sockets'[t] = sockets[t]
    BY <1>2, <1>5
  <2>2. sockets[t].client # sockets[s].client
    BY <2>1 DEF Hub, Taken, Serves
  <2>3. rooms[r].clients[sockets[t].client] = t
    BY <1>1, <2>1 DEF Hub
  <2>4. rooms[r].clients \in [Client -> Slot \cup {NoSlot}] /\ sockets[t].client \in Client
    BY <1>1, LiveTypes, SocketTypes
  <2> QED
    BY <1>1, <2>1, <2>2, <2>3, <2>4 DEF Forgets
<1>6. \A t, u \in Slot : t # u /\ sockets'[t].client = sockets'[u].client /\ Taken(t)' => ~Taken(u)'
  <2>1. \A t \in Slot : Taken(t)' => Taken(t)
    BY DEF Taken, Listed, Freed, OnlySocket
  <2>2. \A t \in Slot : sockets'[t].client = sockets[t].client
    BY DEF Freed, OnlySocket
  <2> QED
    BY <2>1, <2>2 DEF Hub
<1> QED
  BY <1>1, <1>3, <1>4, <1>5, <1>6 DEF Hub

LEMMA HubAfresh == ASSUME Afresh PROVE Hub
BY NewRoomFacts, RoomAssumption DEF Afresh, Hub, Serves, Taken, Listed

LEMMA ConnectHub == ASSUME Typed, Hub, ~Overlap, NEW c \in Client, Connect(c) PROVE Hub'
<1>1. PICK s \in Slot :
        /\ sockets[s].handler = "free" /\ ~Listed(s) /\ OnlySocket(s)
        /\ sockets'[s].client = c /\ sockets'[s].open /\ sockets'[s].handler = "new"
        /\ sockets'[s].room = NoRoom /\ sockets'[s].todo = {}
  BY ConnectEffect
<1>2. /\ UNCHANGED <<store, server, replica, typed>>
      /\ \A t \in Slot : sockets[t].client = c => sockets[t].handler = "free" /\ ~Listed(t)
  BY ConnectEffect
<1>3. \A t \in Slot : Serves(t)' <=> Serves(t)
  BY <1>1 DEF Serves, OnlySocket
<1>4. \A t \in Slot : Serves(t) => t # s /\ sockets'[t] = sockets[t]
  BY <1>1 DEF Serves, OnlySocket
<1>5. \A t \in Slot : Serves(t)' => sockets'[t].room = registered'
  BY <1>2, <1>3, <1>4 DEF Hub, server
<1>6. ASSUME NEW q \in Room, NEW d \in Client, NEW t \in Slot, rooms'[q].clients[d] = t
      PROVE  Serves(t)' /\ sockets'[t].client = d /\ sockets'[t].room = q
  <2>1. rooms[q].clients[d] = t
    BY <1>2, <1>6 DEF server
  <2> QED
    BY <1>3, <1>4, <2>1 DEF Hub
<1>7. \A t \in Slot : Serves(t)' /\ sockets'[t].open => rooms'[registered'].clients[sockets'[t].client] = t
  BY <1>2, <1>3, <1>4 DEF Hub, server
<1>8. \A t, u \in Slot : t # u /\ sockets'[t].client = sockets'[u].client /\ Taken(t)' => ~Taken(u)'
  <2>1. \A t \in Slot \ {s} : Taken(t)' => Taken(t)
    BY <1>1 DEF Taken, Listed, OnlySocket
  <2>2. \A t \in Slot \ {s} : sockets'[t].client = c => ~Taken(t)'
    BY <1>1, <1>2, <2>1 DEF Taken, OnlySocket
  <2>3. \A t \in Slot \ {s} : sockets'[t].client = sockets[t].client
    BY <1>1 DEF OnlySocket
  <2> QED
    BY <1>1, <2>1, <2>2, <2>3 DEF Hub
<1> QED
  BY <1>5, <1>6, <1>7, <1>8 DEF Hub

\* A room is made when nobody serves.
LEMMA FreshMeansIdle ==
    ASSUME Typed, Hub, registered = NoRoom \/ Idle(registered, rooms)
    PROVE  \A t \in Slot : ~Serves(t)
<1> SUFFICES ASSUME NEW t \in Slot, Serves(t) PROVE FALSE
  OBVIOUS
<1>1. sockets[t].room \in Room /\ sockets[t].room = registered /\ sockets[t].client \in Client
  BY ServingFacts, SocketTypes DEF Hub
<1>2. Idle(registered, rooms)
  BY <1>1, RoomAssumption
<1>3. sockets[t].open /\ rooms[registered].clients = Nobody
  BY <1>1, <1>2 DEF Idle
<1>4. rooms[registered].clients[sockets[t].client] = t
  BY <1>3 DEF Hub
<1> QED
  BY <1>1, <1>3, <1>4, NewRoomFacts, RoomAssumption

LEMMA AcceptHub == ASSUME Typed, Hub, NEW s \in Slot, Accept(s) PROVE Hub'
<1>1. /\ sockets[s].handler = "new" /\ OnlySocket(s)
      /\ sockets'[s].client = sockets[s].client /\ sockets'[s].open = sockets[s].open
      /\ sockets'[s].handler = "serving" /\ sockets[s].todo = {} /\ sockets'[s].todo = {}
  BY AcceptEffect
<1>2. PICK r \in Room, fresh \in BOOLEAN :
        /\ registered' = r /\ OnlyRoom(r) /\ Makes(s, r, fresh)
        /\ sockets'[s].room = r
  BY AcceptEffect
<1> DEFINE c == sockets[s].client
<1>3. c \in Client /\ Serves(s)' /\ s # NoSlot
  BY <1>1, SocketTypes, RoomAssumption DEF Serves
<1>4. \A t \in Slot \ {s} : (Serves(t)' <=> Serves(t)) /\ sockets'[t] = sockets[t]
  BY <1>1 DEF Serves, OnlySocket
<1>5. \A t, u \in Slot : t # u /\ sockets'[t].client = sockets'[u].client /\ Taken(t)' => ~Taken(u)'
  <2>1. \A t \in Slot : Taken(t)' => Taken(t)
    BY <1>1 DEF Taken, Listed, OnlySocket
  <2>2. \A t \in Slot : sockets'[t].client = sockets[t].client
    BY <1>1 DEF OnlySocket
  <2> QED
    BY <2>1, <2>2 DEF Hub
<1>6. CASE fresh
  <2>1. \A t \in Slot \ {s} : ~Serves(t)'
    BY <1>2, <1>4, <1>6, FreshMeansIdle DEF Makes
  <2>2. rooms'[r].clients = [Nobody EXCEPT ![c] = s]
    BY <1>2, <1>6 DEF Makes
  <2>3. rooms'[r].clients[c] = s /\ \A d \in Client \ {c} : rooms'[r].clients[d] = NoSlot
    BY <1>3, <2>2, NewRoomFacts DEF Nobody
  <2>4. \A q \in Room \ {r}, d \in Client : rooms'[q].clients[d] = NoSlot
    <3>1. \A t \in Slot : ~Serves(t)
      BY <1>2, <1>6, FreshMeansIdle DEF Makes
    <3>2. \A q \in Room, d \in Client : rooms[q].clients[d] \in Slot \cup {NoSlot}
      BY LiveTypes
    <3> QED
      BY <1>2, <3>1, <3>2 DEF Hub, OnlyRoom
  <2> QED
    <3>1. \A t \in Slot : Serves(t)' => t = s /\ sockets'[t].room = registered'
      BY <1>1, <1>2, <2>1
    <3>2. \A q \in Room, d \in Client, t \in Slot :
             rooms'[q].clients[d] = t => q = r /\ d = c /\ t = s
      BY <1>3, <2>3, <2>4, RoomAssumption
    <3>3. rooms'[registered'].clients[sockets'[s].client] = s
      BY <1>1, <1>2, <2>3
    <3> QED
      BY <1>1, <1>2, <1>3, <1>5, <3>1, <3>2, <3>3 DEF Hub
<1>7. CASE ~fresh
  <2>1. r = registered /\ rooms'[r].clients = [rooms[r].clients EXCEPT ![c] = s]
    BY <1>2, <1>7 DEF Makes
  <2>2. \A q \in Room, d \in Client : rooms[q].clients[d] \in Slot \cup {NoSlot}
    BY LiveTypes
  <2>3. rooms'[r].clients[c] = s /\ \A d \in Client \ {c} : rooms'[r].clients[d] = rooms[r].clients[d]
    BY <1>3, <2>1, LiveTypes
  <2>4. \A t \in Slot : Serves(t)' => sockets'[t].room = registered'
    BY <1>2, <1>4, <2>1 DEF Hub
  <2>5. ASSUME NEW q \in Room, NEW d \in Client, NEW t \in Slot, rooms'[q].clients[d] = t
        PROVE  Serves(t)' /\ sockets'[t].client = d /\ sockets'[t].room = q
    <3>1. CASE q = r /\ d = c
      BY <1>1, <1>2, <1>3, <2>3, <2>5, <3>1
    <3>2. CASE ~(q = r /\ d = c)
      <4>1. rooms[q].clients[d] = t
        BY <1>2, <2>3, <2>5, <3>2 DEF OnlyRoom
      <4>2. Serves(t) /\ sockets[t].client = d /\ sockets[t].room = q
        BY <4>1 DEF Hub
      <4>3. t # s
        BY <1>1, <4>2 DEF Serves
      <4> QED
        BY <1>4, <4>1, <4>2, <4>3
    <3> QED
      BY <3>1, <3>2
  <2>6. ASSUME NEW t \in Slot, Serves(t)', sockets'[t].open
        PROVE  rooms'[registered'].clients[sockets'[t].client] = t
    <3>1. CASE t = s
      BY <1>1, <1>2, <2>3, <3>1
    <3>2. CASE t # s
      <4>1. Serves(t) /\ sockets[t].open /\ sockets'[t] = sockets[t] /\ sockets[t].client \in Client
        BY <1>4, <2>6, <3>2, SocketTypes
      <4>2. sockets[t].client # c
        BY <1>1, <3>2, <4>1 DEF Hub, Taken, Serves
      <4>3. rooms[r].clients[sockets[t].client] = t
        BY <2>1, <4>1 DEF Hub
      <4> QED
        BY <1>2, <2>3, <4>1, <4>2, <4>3
    <3> QED
      BY <3>1, <3>2
  <2> QED
    BY <1>5, <2>4, <2>5, <2>6 DEF Hub
<1> QED
  BY <1>6, <1>7

-----------------------------------------------------------------------------
LEMMA QuietHub ==
    ASSUME Typed, Hub, \A s \in Slot : Still(s) /\ sockets'[s].todo \subseteq sockets[s].todo,
           registered' = registered, \A r \in Room : rooms'[r].clients = rooms[r].clients
    PROVE  Hub'
BY HubStays, StillRemains

LEMMA ServeUpdateHub == ASSUME Typed, Hub, NEW s \in Slot, ServeUpdate(s) PROVE Hub' /\ registered' = registered
<1> DEFINE r == sockets[s].room
<1>1. /\ Serves(s) /\ OnlySocket(s) /\ r \in Room /\ sockets[s].todo = {}
      /\ \A q \in Room \ {r} : rooms'[q].clients = rooms[q].clients
  BY ServeUpdateEffect
<1>2. CASE /\ \A t \in Slot : Still(t)
           /\ registered' = registered /\ rooms'[r].clients = rooms[r].clients
           /\ Sends(s) \/ sockets'[s].todo = Others(s)
  <2>1. sockets'[s].todo \subseteq Others(s)
    BY <1>1, <1>2 DEF Sends
  <2>2. \A t \in Slot : Taken(t)' => Taken(t)
    BY <1>1, <1>2, <2>1, OthersServe DEF Taken, Listed, OnlySocket, Still
  <2>3. \A t \in Slot : Remains(t)
    BY <1>2 DEF Still, Remains
  <2> QED
    BY <1>1, <1>2, <2>2, <2>3, HubStays
<1>3. CASE /\ Freed(s) /\ Forgets(r, s)
           /\ \/ registered' = registered
              \/ registered' = NoRoom /\ registered # r
  BY <1>1, <1>3, HubQuits
<1> QED
  BY <1>1, <1>2, <1>3, ServeUpdateEffect DEF Forgets

LEMMA RelayHub == ASSUME Typed, Hub, NEW s \in Slot, Relay(s) PROVE Hub' /\ registered' = registered
<1> DEFINE r == sockets[s].room
<1>1. Serves(s) /\ r \in Room
  BY RelayEffect
<1>2. PICK p \in sockets[s].todo :
         \/ SendsOn(s, p) /\ UNCHANGED rooms
         \/ SendsOn(s, p) /\ Forgets(r, p) /\ ~sockets[p].open
         \/ /\ Freed(s) /\ OnlySocket(s) /\ Forgets(r, s)
            /\ \/ registered' = registered
               \/ registered' = NoRoom /\ registered # r
  BY RelayEffect
<1>3. p \in Slot /\ sockets[p].client \in Client /\ Taken(p)
  BY SocketTypes DEF Taken, Listed
<1>4. SendsOn(s, p) => /\ \A t \in Slot : Still(t) /\ sockets'[t].todo \subseteq sockets[t].todo
                       /\ registered' = registered
  BY DEF SendsOn, Sends
<1>5. CASE SendsOn(s, p) /\ UNCHANGED rooms
  BY <1>4, <1>5, QuietHub
<1>6. CASE SendsOn(s, p) /\ Forgets(r, p) /\ ~sockets[p].open
  <2>1. /\ \A t \in Slot : Still(t) /\ Remains(t) /\ (Taken(t)' => Taken(t))
        /\ registered' = registered
    BY <1>4, <1>6, StillRemains
  <2>2. rooms[r].clients \in [Client -> Slot \cup {NoSlot}] /\ NoSlot \notin Slot
    BY <1>1, LiveTypes, RoomAssumption
  <2>3. \A t \in Slot : Serves(t)' => sockets'[t].room = registered'
    BY <2>1 DEF Hub, Serves, Still
  <2>4. ASSUME NEW q \in Room, NEW d \in Client, NEW t \in Slot, rooms'[q].clients[d] = t
        PROVE  Serves(t)' /\ sockets'[t].client = d /\ sockets'[t].room = q
    <3>1. rooms[q].clients[d] = t
      BY <1>1, <1>3, <1>6, <2>2, <2>4 DEF Forgets
    <3> QED
      BY <2>1, <3>1 DEF Hub, Serves, Still
  <2>5. ASSUME NEW t \in Slot, Serves(t)', sockets'[t].open
        PROVE  rooms'[registered'].clients[sockets'[t].client] = t
    <3>1. Serves(t) /\ sockets[t].open /\ sockets'[t].client = sockets[t].client
      BY <2>1, <2>5 DEF Serves, Still
    <3>2. sockets[t].client # sockets[p].client /\ sockets[t].client \in Client
      BY <1>3, <1>6, <3>1, SocketTypes DEF Hub, Taken, Serves
    <3>3. rooms[registered].clients[sockets[t].client] = t /\ registered = r
      BY <1>1, <3>1 DEF Hub
    <3> QED
      BY <1>6, <2>1, <2>2, <3>1, <3>2, <3>3 DEF Forgets
  <2>6. \A t, u \in Slot : t # u /\ sockets'[t].client = sockets'[u].client /\ Taken(t)' => ~Taken(u)'
    BY <2>1 DEF Hub, Still
  <2> QED
    BY <2>1, <2>3, <2>4, <2>5, <2>6 DEF Hub
<1>7. CASE /\ Freed(s) /\ OnlySocket(s) /\ Forgets(r, s)
           /\ \/ registered' = registered
              \/ registered' = NoRoom /\ registered # r
  BY <1>1, <1>7, HubQuits
<1> QED
  BY <1>2, <1>4, <1>5, <1>6, <1>7

LEMMA ServeResetHub == ASSUME Typed, Hub, NEW s \in Slot, ServeReset(s) PROVE Hub'
<1>1. /\ Serves(s) /\ OnlySocket(s) /\ registered' = registered
      /\ \A t \in Slot : Still(t)
      /\ \A q \in Room : rooms'[q].clients = rooms[q].clients
      /\ sockets'[s].todo = Others(s) \cup {s}
  BY ServeResetEffect
<1>2. \A t \in Slot : Taken(t)' => Taken(t)
  <2>1. Taken(s)
    BY <1>1 DEF Taken, Serves
  <2> QED
    BY <1>1, <2>1, OthersServe DEF Taken, Listed, OnlySocket, Still
<1>3. \A t \in Slot : Remains(t)
  BY <1>1 DEF Still, Remains
<1> QED
  BY <1>1, <1>2, <1>3, HubStays

LEMMA HangupHub == ASSUME Typed, Hub, NEW s \in Slot, Hangup(s) PROVE Hub' /\ registered' = registered
<1> DEFINE r == sockets[s].room
<1>1. OnlySocket(s) /\ Freed(s)
  BY HangupEffect
<1>2. CASE /\ Serves(s) /\ Forgets(r, s)
           /\ \/ registered' = registered
              \/ registered' = NoRoom /\ registered # r
  BY <1>1, <1>2, HubQuits
<1>3. CASE sockets[s].handler = "new" /\ UNCHANGED <<registered, rooms>>
  <2>1. \A t \in Slot : (Serves(t)' <=> Serves(t)) /\ (Serves(t) => sockets'[t] = sockets[t])
    BY <1>1, <1>3 DEF Serves, Freed, OnlySocket
  <2>2. \A t \in Slot : Taken(t)' => Taken(t)
    BY <1>1, <1>3 DEF Taken, Listed, Freed, OnlySocket
  <2>3. \A t \in Slot : sockets'[t].client = sockets[t].client
    BY <1>1 DEF Freed, OnlySocket
  <2>4. \A t, u \in Slot : t # u /\ sockets'[t].client = sockets'[u].client /\ Taken(t)' => ~Taken(u)'
    BY <2>2, <2>3 DEF Hub
  <2>5. /\ \A t \in Slot : Serves(t)' => sockets'[t].room = registered'
        /\ \A q \in Room, c \in Client, t \in Slot :
              rooms'[q].clients[c] = t => Serves(t)' /\ sockets'[t].client = c /\ sockets'[t].room = q
        /\ \A t \in Slot : Serves(t)' /\ sockets'[t].open => rooms'[registered'].clients[sockets'[t].client] = t
    BY <1>3, <2>1 DEF Hub
  <2> QED
    BY <1>3, <2>4, <2>5 DEF Hub
<1> QED
  BY <1>2, <1>3, HangupEffect

LEMMA StepHub == ~Overlap /\ Typed /\ Hub /\ [Next]_vars => Hub'
<1> SUFFICES ASSUME ~Overlap, Typed, Hub, [Next]_vars PROVE Hub'
  OBVIOUS
<1>1. ASSUME NEW c \in Client, NEW change \in Docs, Edit(c, change), UNCHANGED <<store, server>> PROVE Hub'
  <2>1. \A s \in Slot : Still(s) /\ Sends(s)
    BY <1>1, EditEffect
  <2> QED
    BY <1>1, <2>1, QuietHub DEF Sends, server
<1>2. CASE \E c \in Client : \/ Connect(c)
                             \/ \E w \in Word : Type(c, w)
                             \/ \E x \in replica[c].items : Erase(c, x)
                             \/ \E kind \in {"commit", "reset"} : Ask(c, kind)
  <2>1. ASSUME NEW c \in Client, NEW kind \in {"commit", "reset"}, Ask(c, kind) PROVE Hub'
    <3>1. UNCHANGED server /\ \A s \in Slot : Still(s) /\ Sends(s)
      BY <2>1, AskEffect
    <3> QED
      BY <3>1, QuietHub DEF Sends, server
  <2> QED
    BY <1>1, <1>2, <2>1, ConnectHub, TypeChange, EraseChange
<1>3. ASSUME NEW s \in Slot, ClientRead(s) \/ Drop(s) \/ Serve(s) PROVE Hub'
  <2>1. CASE ClientRead(s)
    <3>1. UNCHANGED server /\ \A t \in Slot : Still(t) /\ Sends(t)
      BY <2>1, ClientReadEffect
    <3> QED
      BY <3>1, QuietHub DEF Sends, server
  <2>2. CASE Drop(s)
    <3>1. \A t \in Slot : Remains(t) /\ (Taken(t)' => Taken(t))
      BY <2>2, DropEffect DEF Remains, Taken, Listed, OnlySocket, Sends
    <3>2. UNCHANGED server
      BY <2>2, DropEffect
    <3> QED
      BY <3>1, <3>2, HubStays DEF server
  <2>3. CASE Accept(s)
    BY <2>3, AcceptHub
  <2>4. CASE ServeSync(s)
    <3>1. UNCHANGED server /\ \A t \in Slot : Still(t) /\ Sends(t)
      BY <2>4, ServeSyncEffect
    <3> QED
      BY <3>1, QuietHub DEF Sends, server
  <2>5. CASE ServeUpdate(s)
    BY <2>5, ServeUpdateHub
  <2>6. CASE Relay(s)
    BY <2>6, RelayHub
  <2>7. CASE ServeReset(s)
    BY <2>7, ServeResetHub
  <2>8. CASE ServeCommit(s)
    <3>1. UNCHANGED <<registered, rooms>> /\ \A t \in Slot : Still(t) /\ Sends(t)
      BY <2>8, ServeCommitEffect
    <3> QED
      BY <3>1, QuietHub DEF Sends
  <2>9. CASE StoreCommit(s)
    <3>1. UNCHANGED <<registered, sockets>> /\ \A q \in Room : rooms'[q].clients = rooms[q].clients
      BY <2>9, StoreCommitEffect DEF OnlyRoom
    <3> QED
      BY <3>1, UnchangedSockets, QuietHub DEF Sends
  <2>10. CASE PersistRoom(s)
    <3>1. UNCHANGED <<registered, rooms, sockets>>
      BY <2>10, PersistEffect
    <3> QED
      BY <3>1, UnchangedSockets, QuietHub DEF Sends
  <2>11. CASE Hangup(s)
    BY <2>11, HangupHub
  <2> QED
    BY <1>3, <2>1, <2>2, <2>3, <2>4, <2>5, <2>6, <2>7, <2>8, <2>9, <2>10, <2>11 DEF Serve
<1>4. CASE RestBegin \/ RestEnd \/ UNCHANGED vars
  <2>1. UNCHANGED <<registered, rooms, sockets>>
    BY <1>4, RestBeginEffect, RestEndEffect DEF vars, server
  <2> QED
    BY <2>1, UnchangedSockets, QuietHub DEF Sends
<1>5. CASE Restart
  <2>1. Afresh'
    BY <1>5, RestartEffect
  <2> QED
    BY <2>1, NewRoomFacts, RoomAssumption DEF Afresh, Hub, Serves, Taken, Listed
<1> QED
  BY <1>2, <1>3, <1>4, <1>5 DEF Next

LEMMA AlwaysHub == ~Overlap => (Spec => [](Typed /\ Hub))
<1>1. Init => Typed /\ Hub
  BY InitTyped, HubAfresh
<1>2. ~Overlap /\ Typed /\ Hub /\ [Next]_vars => Typed' /\ Hub'
  BY StepTyped, StepHub
<1> SUFFICES ASSUME ~Overlap PROVE Spec => [](Typed /\ Hub)
  OBVIOUS
<1>3. (Typed /\ Hub) /\ [Next]_vars => (Typed /\ Hub)'
  BY <1>2
<1> QED
  BY <1>1, <1>3, PTL DEF Spec

\* Every handler serves the room the hub hands out, unless a browser reconnects while the
\* server still knows its old socket: a reconnect, an idle room's cleanup, a failed
\* update or a restart never leaves two rooms serving one branch. (rooms.py:178)
THEOREM OneRoomIsServed == ~Overlap => (Spec => []OneRoom)
<1>1. Typed /\ Hub => OneRoom
  BY DEF Hub, OneRoom, Attached, Serves
<1> QED
  BY <1>1, AlwaysHub, PTL

-----------------------------------------------------------------------------
(* What is shown is stored.                                                *)

\* Two documents: what one has, the other has.
Within(d, e) == d.items \subseteq e.items /\ d.dead \subseteq e.dead

Stored == saved.base = 0 => saved.doc = EmptyDoc

\* The served document is stored but for what the loop is about to store, and has all
\* its op log has.
Draft ==
    registered # NoRoom =>
        /\ rooms[registered].base # 0 /\ Within(saved.doc, rooms[registered].doc)
        /\ busy.at # "persist" => /\ rooms[registered].doc = saved.doc
                                  /\ rooms[registered].base = saved.base
        /\ \A e \in rooms[registered].seen : Within(e, rooms[registered].doc)

Framed == \A s \in Slot : sockets[s].todo # {} => Within(sockets[s].frame, rooms[registered].doc)

Flown == \A s \in Slot : \A f \in Frames(sockets[s].down) :
            f.type = "update" => Within(f.doc, saved.doc)

Readers == \A c \in Client : \A x \in replica[c].items : x[1] = c \/ x \in saved.doc.items

\* Unless Overlap or Faults.
Drafts == Stored /\ Draft /\ Framed /\ Flown /\ Readers

\* Frames and replicas only gain what is stored.
LEMMA DraftsStep ==
    ASSUME Drafts, Stored', Draft', Framed', Within(saved.doc, saved'.doc),
           \A s \in Slot : \A f \in Frames(sockets'[s].down) :
              f \in Frames(sockets[s].down) \/ f.type # "update" \/ Within(f.doc, saved'.doc),
           \A c \in Client : \A x \in replica'[c].items :
              x \in replica[c].items \/ x[1] = c \/ x \in saved'.doc.items
    PROVE  Drafts'
<1>1. Flown'
  BY DEF Drafts, Flown, Within
<1>2. Readers'
  BY DEF Drafts, Readers, Within
<1> QED
  BY <1>1, <1>2 DEF Drafts

LEMMA SendersServe ==
    ASSUME Typed, Hub, NEW s \in Slot, Serves(s) \/ sockets[s].todo # {}
    PROVE  /\ Serves(s) /\ sockets[s].room = registered /\ registered \in Room
           /\ registered # NoRoom /\ rooms[registered].doc \in Docs
<1>1. Serves(s)
  BY DEF Typed, Handling
<1>2. sockets[s].room = registered /\ sockets[s].room \in Room
  BY <1>1, ServingFacts DEF Hub
<1> QED
  BY <1>1, <1>2, LiveTypes, RoomAssumption

\* Whatever else happens, the store and the room stay.
LEMMA DraftStays ==
    ASSUME Typed, Hub, Drafts, saved' = saved, registered' = registered,
           \A q \in Room : SameContents(q),
           busy'.at = "persist" => busy.at = "persist",
           busy.at = "persist" => busy'.at = "persist",
           \A s \in Slot : sockets'[s].todo # {} =>
              sockets[s].todo # {} /\ sockets'[s].frame = sockets[s].frame
    PROVE  Stored' /\ Draft' /\ Framed' /\ Within(saved.doc, saved'.doc)
<1>1. registered # NoRoom => registered \in Room
  BY DEF Typed, RoomTypes
<1>2. Stored' /\ Within(saved.doc, saved'.doc)
  BY DEF Drafts, Stored, Within
<1>3. Draft'
  BY <1>1 DEF Drafts, Draft, SameContents
<1>4. Framed'
  BY SendersServe DEF Drafts, Framed, SameContents
<1> QED
  BY <1>2, <1>3, <1>4

\* ... and nobody reads or is sent anything new either.
LEMMA DraftsStay ==
    ASSUME Typed, Hub, Drafts, saved' = saved, registered' = registered,
           \A q \in Room : SameContents(q),
           busy'.at = "persist" <=> busy.at = "persist",
           \A s \in Slot : sockets'[s].todo # {} =>
              sockets[s].todo # {} /\ sockets'[s].frame = sockets[s].frame,
           \A s \in Slot : Frames(sockets'[s].down) \subseteq Frames(sockets[s].down),
           replica' = replica
    PROVE  Drafts'
<1>1. Stored' /\ Draft' /\ Framed' /\ Within(saved.doc, saved'.doc)
  BY DraftStays
<1> QED
  BY <1>1, DraftsStep

LEMMA SameRooms == ASSUME UNCHANGED rooms PROVE \A q \in Room : SameContents(q)
BY DEF SameContents

LEMMA NoFrames == Frames(<<>>) = {}
BY QueueFacts

LEMMA ConnectDrafts == ASSUME Typed, Hub, Drafts, NEW c \in Client, Connect(c) PROVE Drafts'
<1>1. PICK s \in Slot : OnlySocket(s) /\ sockets'[s].todo = {} /\ sockets'[s].down = <<>>
  BY ConnectEffect
<1>2. UNCHANGED <<store, server, replica, typed>>
  BY ConnectEffect
<1>3. \A q \in Room : SameContents(q)
  BY <1>2, SameRooms DEF server
<1>4. \A t \in Slot : /\ sockets'[t].todo # {} => sockets[t].todo # {} /\ sockets'[t].frame = sockets[t].frame
                      /\ Frames(sockets'[t].down) \subseteq Frames(sockets[t].down)
  BY <1>1, NoFrames DEF OnlySocket
<1> QED
  BY <1>2, <1>3, <1>4, DraftsStay DEF store, server

LEMMA EditDrafts ==
    ASSUME Typed, Hub, Drafts, NEW c \in Client, NEW change \in Docs, Edit(c, change),
           UNCHANGED <<store, server>>, \A x \in change.items : x[1] = c
    PROVE  Drafts'
<1>1. /\ \A s \in Slot : Still(s) /\ Sends(s) /\ sockets'[s].down = sockets[s].down
      /\ replica'[c] = Merge(replica[c], change)
      /\ \A d \in Client \ {c} : replica'[d] = replica[d]
  BY EditEffect
<1>2. replica[c] \in Docs
  BY DEF Typed, PeerTypes
<1>3. replica'[c].items = replica[c].items \cup change.items
  BY <1>1, <1>2, DocFacts
<1>4. \A d \in Client : \A x \in replica'[d].items : x \in replica[d].items \/ x[1] = d
  BY <1>1, <1>3
<1>5. \A q \in Room : SameContents(q)
  BY SameRooms DEF server
<1>6. Stored' /\ Draft' /\ Framed' /\ Within(saved.doc, saved'.doc)
  BY <1>1, <1>5, DraftStays DEF store, server, Sends
<1> QED
  BY <1>1, <1>4, <1>6, DraftsStep

LEMMA ClientReadDrafts == ASSUME Typed, Hub, Drafts, NEW s \in Slot, ClientRead(s) PROVE Drafts'
<1> DEFINE c == sockets[s].client
           frame == Head(sockets[s].down)
<1>1. /\ UNCHANGED <<store, server, typed>> /\ sockets[s].down # <<>>
      /\ \A t \in Slot : Still(t) /\ Sends(t)
      /\ OnlySocket(s) /\ sockets'[s].down = Tail(sockets[s].down)
      /\ \/ UNCHANGED replica
         \/ /\ frame.type = "update" /\ replica'[c] = Merge(replica[c], frame.doc)
            /\ \A d \in Client \ {c} : replica'[d] = replica[d]
  BY ClientReadEffect
<1>2. frame \in Frame /\ Frames(sockets[s].down) = Frames(Tail(sockets[s].down)) \cup {frame}
  BY <1>1, SocketTypes, QueueFacts
<1>3. \A t \in Slot : Frames(sockets'[t].down) \subseteq Frames(sockets[t].down)
  BY <1>1, <1>2 DEF OnlySocket
<1>4. \A d \in Client : \A x \in replica'[d].items : x \in replica[d].items \/ x \in saved'.doc.items
  <2>1. CASE UNCHANGED replica
    BY <2>1
  <2>2. CASE /\ frame.type = "update" /\ replica'[c] = Merge(replica[c], frame.doc)
             /\ \A d \in Client \ {c} : replica'[d] = replica[d]
    <3>1. replica[c] \in Docs /\ frame.doc \in Docs
      BY <1>2, <2>2, FrameFacts, SocketTypes DEF Typed, PeerTypes
    <3>2. replica'[c].items = replica[c].items \cup frame.doc.items
      BY <2>2, <3>1, DocFacts
    <3>3. frame.doc.items \subseteq saved.doc.items
      BY <1>2, <2>2 DEF Drafts, Flown, Within
    <3> QED
      BY <1>1, <2>2, <3>2, <3>3 DEF store
  <2> QED
    BY <1>1, <2>1, <2>2
<1>5. \A q \in Room : SameContents(q)
  BY <1>1, SameRooms DEF server
<1>6. Stored' /\ Draft' /\ Framed' /\ Within(saved.doc, saved'.doc)
  BY <1>1, <1>5, DraftStays DEF store, server, Sends
<1> QED
  BY <1>3, <1>4, <1>6, DraftsStep

LEMMA DropDrafts == ASSUME Typed, Hub, Drafts, NEW s \in Slot, Drop(s) PROVE Drafts'
<1>1. /\ UNCHANGED <<store, server, replica, typed>> /\ OnlySocket(s) /\ Sends(s)
      /\ sockets'[s].down = <<>>
  BY DropEffect
<1>2. \A t \in Slot : /\ sockets'[t].todo # {} => sockets[t].todo # {} /\ sockets'[t].frame = sockets[t].frame
                      /\ Frames(sockets'[t].down) \subseteq Frames(sockets[t].down)
  BY <1>1, NoFrames DEF OnlySocket, Sends
<1>3. \A q \in Room : SameContents(q)
  BY <1>1, SameRooms DEF server
<1> QED
  BY <1>1, <1>2, <1>3, DraftsStay DEF store, server

LEMMA HangupDrafts == ASSUME Typed, Hub, Drafts, NEW s \in Slot, Hangup(s) PROVE Drafts'
<1>1. /\ UNCHANGED <<store, busy, writes, replica, typed>> /\ OnlySocket(s) /\ Freed(s)
      /\ registered' = registered /\ \A q \in Room : SameContents(q)
  BY HangupEffect, HangupHub, SameRooms
<1>2. \A t \in Slot : /\ sockets'[t].todo # {} => sockets[t].todo # {} /\ sockets'[t].frame = sockets[t].frame
                      /\ Frames(sockets'[t].down) \subseteq Frames(sockets[t].down)
  BY <1>1, NoFrames DEF OnlySocket, Freed
<1> QED
  BY <1>1, <1>2, DraftsStay DEF store

-----------------------------------------------------------------------------
LEMMA WithinFacts ==
    /\ \A d \in Docs : Within(d, d) /\ Within(EmptyDoc, d)
    /\ \A d, e, f \in Docs : Within(d, e) /\ Within(e, f) => Within(d, f)
    /\ \A d, e \in Docs : Within(d, Merge(d, e)) /\ Within(e, Merge(d, e))
    /\ \A d, e \in Docs : Within(e, d) => Merge(d, e) = d
<1>1. \A d \in Docs : d = [items |-> d.items, dead |-> d.dead]
  BY DEF Docs
<1>2. \A d, e \in Docs : Within(e, d) => Merge(d, e) = d
  BY <1>1 DEF Within, Merge, Doc
<1> QED
  BY <1>2, DocFacts DEF Within

LEMMA SetTextWithin ==
    ASSUME NEW d \in Docs, NEW text \in SUBSET Word, NEW n \in 1..MaxWrites
    PROVE  Within(d, SetText(d, text, n))
<1>1. /\ SetText(d, text, n).items = d.items \cup {<<n, w>> : w \in text}
      /\ SetText(d, text, n).dead = d.dead \cup d.items
  BY SetTextFacts
<1> QED
  BY <1>1 DEF Within

LEMMA WriteNumber == ASSUME Typed, writes < MaxWrites PROVE writes + 1 \in 1..MaxWrites
BY RoomAssumption DEF Typed, RoomTypes

\* What _seed makes of the saved document has everything of it.
LEMMA SeededWithin ==
    ASSUME Typed, Drafts, writes < MaxWrites \/ Seeded = saved
    PROVE  /\ Seeded.doc \in Docs /\ Seeded.base \in 1..Len(log) /\ Within(saved.doc, Seeded.doc)
<1>1. /\ Shown \in 1..Len(log) /\ log[Shown].text \in SUBSET Word /\ Len(log) \in Nat
      /\ saved.doc \in Docs /\ saved.base \in 0..Len(log) /\ EmptyDoc \in Docs
  BY ShownFacts, DocFacts DEF Typed, StoreTypes
<1>2. Seeded.doc \in Docs
  BY SeededFacts DEF Typed, RoomTypes
<1>3. CASE saved.base # 0 /\ Seeded = saved
  BY <1>1, <1>2, <1>3, WithinFacts
<1>4. CASE Seeded.base = Shown /\ saved.base = 0
  BY <1>1, <1>2, <1>4, WithinFacts DEF Drafts, Stored
<1>5. CASE /\ Seeded.base = Shown /\ saved.base # 0
           /\ Seeded.doc = SetText(saved.doc, log[Shown].text, writes + 1)
  <2>1. CASE writes < MaxWrites
    BY <1>1, <1>2, <1>5, <2>1, SetTextWithin, WriteNumber
  <2>2. CASE Seeded = saved
    BY <1>1, <1>2, <1>5, <2>2, WithinFacts
  <2> QED
    BY <2>1, <2>2
<1> QED
  BY <1>3, <1>4, <1>5, SeededFacts DEF Typed, RoomTypes

LEMMA LoopFreeFacts == ASSUME Typed, LoopFree PROVE busy.at = "free"
BY DEF Typed, Handling, LoopFree

LEMMA AcceptDrafts == ASSUME Typed, Hub, Drafts, NEW s \in Slot, Accept(s) PROVE Drafts'
<1>1. /\ Typed' /\ UNCHANGED <<store, lock, replica, typed>> /\ LoopFree
      /\ OnlySocket(s) /\ sockets'[s].todo = {}
  BY AcceptEffect
<1>2. PICK r \in Room, fresh \in BOOLEAN :
        /\ registered' = r /\ OnlyRoom(r) /\ Makes(s, r, fresh)
        /\ sockets'[s].down = Append(sockets[s].down, Sync(rooms'[r].doc.items))
  BY AcceptEffect
<1>3. /\ saved' = saved /\ replica' = replica /\ r # NoRoom /\ busy.at = "free"
  BY <1>1, RoomAssumption, LoopFreeFacts DEF store
<1>4. \A t \in Slot : \A f \in Frames(sockets'[t].down) : f \in Frames(sockets[t].down) \/ f.type # "update"
  <2>1. rooms'[r].doc.items \in SUBSET Item
    BY <1>1 DEF Typed, RoomTypes, Live, Docs
  <2>2. Sync(rooms'[r].doc.items) \in Frame /\ Sync(rooms'[r].doc.items).type = "sync"
    BY <2>1, FrameFacts
  <2>3. Frames(sockets'[s].down) = Frames(sockets[s].down) \cup {Sync(rooms'[r].doc.items)}
    BY <1>2, <2>2, SocketTypes, QueueFacts
  <2> QED
    BY <1>1, <2>2, <2>3 DEF OnlySocket
<1>5. Stored' /\ Within(saved.doc, saved'.doc)
  BY <1>3 DEF Drafts, Stored, Within
<1>6. CASE fresh
  <2>1. /\ \A t \in Slot : ~Serves(t)
        /\ rooms'[r].doc = Seeded.doc /\ rooms'[r].base = Seeded.base /\ rooms'[r].seen = {}
        /\ \/ Seeded = saved /\ busy' = busy
           \/ writes < MaxWrites /\ busy'.at = "persist"
    BY <1>2, <1>6, FreshMeansIdle DEF Makes
  <2>2. Seeded.base \in 1..Len(log) /\ Within(saved.doc, Seeded.doc)
    BY <2>1, SeededWithin
  <2>3. Draft'
    BY <1>2, <1>3, <2>1, <2>2 DEF Draft
  <2>4. Framed'
    BY <1>1, <2>1, SendersServe DEF Framed, OnlySocket
  <2> QED
    BY <1>3, <1>4, <1>5, <2>3, <2>4, DraftsStep
<1>7. CASE ~fresh
  <2>1. r = registered /\ SameContents(r) /\ busy' = busy
    BY <1>2, <1>7 DEF Makes
  <2>2. Draft'
    BY <1>2, <1>3, <2>1 DEF Drafts, Draft, SameContents
  <2>3. Framed'
    BY <1>1, <1>2, <2>1 DEF Drafts, Framed, OnlySocket, SameContents
  <2> QED
    BY <1>3, <1>4, <1>5, <2>2, <2>3, DraftsStep
<1> QED
  BY <1>6, <1>7

\* While the loop is free, the document that is served is stored.
LEMMA ServedIsStored ==
    ASSUME Typed, Hub, Drafts, NEW s \in Slot, Serves(s), busy.at # "persist"
    PROVE  /\ rooms[sockets[s].room].doc = saved.doc /\ rooms[sockets[s].room].base = saved.base
           /\ saved.doc \in Docs
BY SendersServe DEF Drafts, Draft

LEMMA ServeSyncDrafts == ASSUME Typed, Hub, Drafts, NEW s \in Slot, ServeSync(s) PROVE Drafts'
<1> DEFINE doc == rooms[sockets[s].room].doc
           have == Head(sockets[s].up).items
           part == Doc(doc.items \ have, doc.dead)
<1>1. /\ UNCHANGED <<store, server, replica, typed>> /\ LoopFree /\ Serves(s)
      /\ \A t \in Slot : Still(t) /\ Sends(t)
      /\ OnlySocket(s) /\ sockets'[s].down = Answer(s, Update(part))
  BY ServeSyncEffect
<1>2. doc = saved.doc /\ doc \in Docs
  BY <1>1, ServedIsStored, LoopFreeFacts
<1>3. part \in Docs /\ Within(part, saved.doc)
  <2>1. doc.items \ have \in SUBSET Item /\ doc.dead \in SUBSET Item
    BY <1>2 DEF Docs
  <2>2. part \in Docs /\ part.items = doc.items \ have /\ part.dead = doc.dead
    BY <2>1, DocFacts
  <2> QED
    BY <1>2, <2>2 DEF Within
<1> HIDE DEF part
<1>4. Update(part) \in Frame /\ Update(part).doc = part
  BY <1>3, FrameFacts
<1>5. Frames(sockets'[s].down) \subseteq Frames(sockets[s].down) \cup {Update(part)}
  BY <1>1, <1>4, AnswerFacts
<1>6. \A q \in Room : SameContents(q)
  BY <1>1, SameRooms DEF server
<1>7. Stored' /\ Draft' /\ Framed' /\ Within(saved.doc, saved'.doc)
  BY <1>1, <1>6, DraftStays DEF store, server, Sends
<1> QED
  BY <1>1, <1>3, <1>4, <1>5, <1>7, DraftsStep DEF OnlySocket, store

LEMMA ServeUpdateDrafts == ASSUME ~Faults, Typed, Hub, Drafts, NEW s \in Slot, ServeUpdate(s) PROVE Drafts'
<1> DEFINE r == sockets[s].room
           change == Head(sockets[s].up).doc
<1>1. /\ UNCHANGED <<busy, replica>> /\ LoopFree /\ Serves(s) /\ OnlySocket(s)
      /\ r \in Room /\ change \in Docs /\ sockets[s].todo = {}
      /\ rooms'[r].doc = Merge(rooms[r].doc, change) /\ rooms'[r].base = rooms[r].base
      /\ rooms'[r].seen = rooms[r].seen \cup {change}
      /\ registered' = registered /\ sockets'[s].down = sockets[s].down
      /\ \/ change \in rooms[r].seen /\ saved' = saved /\ Sends(s)
         \/ /\ saved' = [doc |-> rooms'[r].doc, base |-> rooms[r].base]
            /\ sockets'[s].todo = Others(s)
            /\ Others(s) # {} => sockets'[s].frame = change
  BY ServeUpdateEffect
<1>2. r = registered /\ registered # NoRoom /\ busy.at = "free" /\ saved.doc \in Docs
      /\ rooms[r].doc = saved.doc /\ rooms[r].base = saved.base /\ rooms[r].base # 0
  BY <1>1, SendersServe, ServedIsStored, LoopFreeFacts DEF Drafts, Draft
<1>3. /\ Within(rooms[r].doc, rooms'[r].doc) /\ Within(change, rooms'[r].doc) /\ rooms'[r].doc \in Docs
  <2>1. rooms[r].doc \in Docs /\ Merge(rooms[r].doc, change) \in Docs
    BY <1>1, <1>2, DocFacts
  <2> QED
    BY <1>1, <2>1, WithinFacts
<1>4. saved'.doc = rooms'[r].doc /\ saved'.base = rooms[r].base
  <2>1. CASE change \in rooms[r].seen /\ saved' = saved
    BY <1>1, <1>2, <2>1, WithinFacts DEF Drafts, Draft
  <2>2. CASE saved' = [doc |-> rooms'[r].doc, base |-> rooms[r].base]
    BY <2>2
  <2> QED
    BY <1>1, <2>1, <2>2
<1>5. \A e \in rooms'[r].seen : Within(e, rooms'[r].doc)
  <2>1. rooms[r].seen \in SUBSET Docs
    BY <1>1, LiveTypes
  <2>2. \A e \in rooms[r].seen : Within(e, rooms[r].doc)
    BY <1>2 DEF Drafts, Draft
  <2> QED
    BY <1>1, <1>2, <1>3, <2>1, <2>2, WithinFacts
<1>6. Draft'
  BY <1>1, <1>2, <1>3, <1>4, <1>5, WithinFacts DEF Draft
<1>7. Framed'
  <2>1. ASSUME NEW t \in Slot, sockets'[t].todo # {} PROVE Within(sockets'[t].frame, rooms'[r].doc)
    <3>1. CASE t = s
      BY <1>1, <1>3, <2>1, <3>1 DEF Sends
    <3>2. CASE t # s
      <4>1. sockets'[t] = sockets[t] /\ sockets[t].frame \in Docs
        BY <1>1, <3>2, SocketTypes DEF OnlySocket
      <4>2. Within(sockets[t].frame, rooms[r].doc)
        BY <1>2, <2>1, <4>1 DEF Drafts, Framed
      <4> QED
        BY <1>2, <1>3, <4>1, <4>2, WithinFacts
    <3> QED
      BY <3>1, <3>2
  <2> QED
    BY <1>1, <1>2, <2>1 DEF Framed
<1>8. Stored' /\ Within(saved.doc, saved'.doc)
  BY <1>2, <1>3, <1>4 DEF Stored
<1>9. \A t \in Slot : Frames(sockets'[t].down) \subseteq Frames(sockets[t].down)
  BY <1>1 DEF OnlySocket
<1> QED
  BY <1>1, <1>6, <1>7, <1>8, <1>9, DraftsStep

LEMMA RelayDrafts == ASSUME Typed, Hub, Drafts, NEW s \in Slot, Relay(s) PROVE Drafts'
<1>1. /\ UNCHANGED <<store, busy, writes, replica, typed>> /\ LoopFree /\ Serves(s)
      /\ registered' = registered /\ \A q \in Room : SameContents(q)
  BY RelayEffect, RelayHub
<1>2. PICK p \in sockets[s].todo :
        \/ SendsOn(s, p) /\ sockets'[p].down \in {Answer(p, Update(sockets[s].frame)), sockets[p].down}
        \/ Freed(s) /\ OnlySocket(s)
  BY RelayEffect
<1>3. p \in Slot /\ sockets[s].frame \in Docs
  BY SocketTypes
<1>4. Within(sockets[s].frame, saved.doc)
  BY <1>1, ServedIsStored, LoopFreeFacts, SendersServe DEF Drafts, Framed
<1>5. \A t \in Slot : sockets'[t].todo # {} => sockets[t].todo # {} /\ sockets'[t].frame = sockets[t].frame
  BY <1>2 DEF SendsOn, Sends, Freed, OnlySocket
<1>6. Stored' /\ Draft' /\ Framed' /\ Within(saved.doc, saved'.doc)
  BY <1>1, <1>5, DraftStays DEF store
<1>7. \A t \in Slot : Frames(sockets'[t].down) \subseteq Frames(sockets[t].down) \cup {Update(sockets[s].frame)}
  <2>1. Update(sockets[s].frame) \in Frame
    BY <1>3, FrameFacts
  <2>2. CASE SendsOn(s, p) /\ sockets'[p].down \in {Answer(p, Update(sockets[s].frame)), sockets[p].down}
    BY <1>3, <2>1, <2>2, AnswerFacts DEF SendsOn
  <2>3. CASE Freed(s) /\ OnlySocket(s)
    BY <2>3, NoFrames DEF Freed, OnlySocket
  <2> QED
    BY <1>2, <2>2, <2>3
<1>8. Update(sockets[s].frame).doc = sockets[s].frame
  BY <1>3, FrameFacts
<1> QED
  BY <1>1, <1>4, <1>6, <1>7, <1>8, DraftsStep DEF store

LEMMA ServeResetDrafts == ASSUME Typed, Hub, Drafts, NEW s \in Slot, ServeReset(s) PROVE Drafts'
<1> DEFINE r == sockets[s].room
           doc == SetText(rooms[r].doc, log[Shown].text, writes + 1)
<1>1. /\ UNCHANGED <<store, registered, replica, typed>> /\ Serves(s) /\ r \in Room
      /\ writes < MaxWrites /\ rooms'[r].doc = doc /\ rooms'[r].base = Shown
      /\ rooms'[r].seen = rooms[r].seen /\ OnlyRoom(r) /\ OnlySocket(s)
      /\ sockets'[s].down = sockets[s].down /\ sockets'[s].frame = doc /\ busy'.at = "persist"
  BY ServeResetEffect
<1>2. /\ r = registered /\ registered # NoRoom /\ rooms[r].doc \in Docs /\ rooms[r].seen \in SUBSET Docs
      /\ saved.doc \in Docs
  BY <1>1, SendersServe, LiveTypes DEF Typed, StoreTypes
<1>3. Shown \in 1..Len(log) /\ log[Shown].text \in SUBSET Word /\ writes + 1 \in 1..MaxWrites /\ Len(log) \in Nat
  BY <1>1, ShownFacts, WriteNumber DEF Typed
<1>4. doc \in Docs /\ Within(rooms[r].doc, doc)
  BY <1>2, <1>3, SetTextFacts, SetTextWithin
<1> HIDE DEF doc
<1>5. Within(saved.doc, doc) /\ \A e \in rooms[r].seen : Within(e, doc)
  BY <1>2, <1>4, WithinFacts DEF Drafts, Draft
<1>6. Draft'
  BY <1>1, <1>2, <1>3, <1>5 DEF Draft, store
<1>7. Framed'
  <2>1. ASSUME NEW t \in Slot, sockets'[t].todo # {} PROVE Within(sockets'[t].frame, doc)
    <3>1. CASE t = s
      BY <1>1, <1>4, <3>1, WithinFacts
    <3>2. CASE t # s
      <4>1. sockets'[t] = sockets[t] /\ sockets[t].frame \in Docs
        BY <1>1, <3>2, SocketTypes DEF OnlySocket
      <4>2. Within(sockets[t].frame, rooms[r].doc)
        BY <1>2, <2>1, <4>1 DEF Drafts, Framed
      <4> QED
        BY <1>2, <1>4, <4>1, <4>2, WithinFacts
    <3> QED
      BY <3>1, <3>2
  <2> QED
    BY <1>1, <1>2, <2>1 DEF Framed
<1>8. Stored' /\ Within(saved.doc, saved'.doc)
  BY <1>1 DEF Drafts, Stored, Within, store
<1>9. \A t \in Slot : Frames(sockets'[t].down) \subseteq Frames(sockets[t].down)
  BY <1>1 DEF OnlySocket
<1> QED
  BY <1>1, <1>6, <1>7, <1>8, <1>9, DraftsStep

-----------------------------------------------------------------------------
\* Sockets keep what they send and receive.
SameTraffic(t) == Sends(t) /\ sockets'[t].down = sockets[t].down

LEMMA TrafficStays ==
    ASSUME \A t \in Slot : SameTraffic(t)
    PROVE  \A t \in Slot : /\ sockets'[t].todo # {} =>
                                sockets[t].todo # {} /\ sockets'[t].frame = sockets[t].frame
                           /\ Frames(sockets'[t].down) \subseteq Frames(sockets[t].down)
BY DEF SameTraffic, Sends

LEMMA ServeCommitDrafts == ASSUME Typed, Hub, Drafts, NEW s \in Slot, ServeCommit(s) PROVE Drafts'
<1>1. /\ UNCHANGED <<store, registered, rooms, writes, replica, typed>> /\ LoopFree
      /\ OnlySocket(s) /\ \A t \in Slot : Sends(t)
      /\ sockets'[s].down = sockets[s].down
      /\ busy' = busy \/ busy' = [slot |-> s, at |-> "commit"]
  BY ServeCommitEffect
<1>2. \A t \in Slot : SameTraffic(t)
  BY <1>1 DEF SameTraffic, OnlySocket
<1>3. busy'.at # "persist" /\ busy.at # "persist" /\ saved' = saved
  BY <1>1, LoopFreeFacts DEF store
<1>4. \A q \in Room : SameContents(q)
  BY <1>1, SameRooms
<1> QED
  BY <1>1, <1>2, <1>3, <1>4, TrafficStays, DraftsStay

LEMMA StoreCommitDrafts == ASSUME Typed, Hub, Drafts, NEW s \in Slot, StoreCommit(s) PROVE Drafts'
<1> DEFINE r == sockets[s].room
<1>1. /\ UNCHANGED <<saved, registered, sockets, replica>>
      /\ r \in Room /\ Serves(s) /\ busy.at = "commit"
      /\ \/ /\ head' = Len(log) + 1 /\ busy'.at = "persist"
            /\ OnlyRoom(r) /\ rooms'[r].base = head' /\ rooms'[r].doc = rooms[r].doc
            /\ rooms'[r].seen = rooms[r].seen
         \/ UNCHANGED rooms /\ busy'.at = "free"
  BY StoreCommitEffect
<1>2. r = registered /\ registered # NoRoom /\ Len(log) \in Nat
  BY <1>1, SendersServe, ShownFacts DEF Typed
<1>3. Draft'
  BY <1>1, <1>2 DEF Drafts, Draft
<1>4. Framed'
  BY <1>1, <1>2 DEF Drafts, Framed
<1>5. Stored' /\ Within(saved.doc, saved'.doc)
  BY <1>1 DEF Drafts, Stored, Within
<1> QED
  BY <1>1, <1>3, <1>4, <1>5, DraftsStep

LEMMA PersistDrafts == ASSUME Typed, Hub, Drafts, NEW s \in Slot, PersistRoom(s) PROVE Drafts'
<1> DEFINE r == sockets[s].room
<1>1. /\ UNCHANGED <<registered, rooms, sockets, replica>> /\ r \in Room /\ Serves(s)
      /\ saved' = [doc |-> rooms[r].doc, base |-> rooms[r].base]
  BY PersistEffect
<1>2. r = registered /\ registered # NoRoom /\ rooms[r].doc \in Docs
  BY <1>1, SendersServe
<1>3. saved'.doc = rooms[r].doc /\ saved'.base = rooms[r].base
  BY <1>1
<1>4. Within(saved.doc, saved'.doc) /\ saved'.base # 0
  BY <1>2, <1>3 DEF Drafts, Draft
<1>5. Draft' /\ Stored'
  BY <1>1, <1>2, <1>3, <1>4, WithinFacts DEF Drafts, Draft, Stored
<1>6. Framed'
  BY <1>1 DEF Drafts, Framed
<1> QED
  BY <1>1, <1>4, <1>5, <1>6, DraftsStep

LEMMA StoreOnlyDrafts ==
    ASSUME Typed, Hub, Drafts, UNCHANGED <<saved, server, sockets, replica>>
    PROVE  Drafts'
<1>1. \A t \in Slot : SameTraffic(t)
  BY DEF SameTraffic, Sends
<1>2. \A q \in Room : SameContents(q)
  BY SameRooms DEF server
<1> QED
  BY <1>1, <1>2, TrafficStays, DraftsStay DEF server

LEMMA RestartDrafts == ASSUME Typed, Drafts, Restart PROVE Drafts'
<1>1. Afresh' /\ UNCHANGED <<saved, replica>>
  BY RestartEffect
<1>2. Stored' /\ Draft' /\ Framed' /\ Within(saved.doc, saved'.doc)
  BY <1>1 DEF Afresh, Drafts, Stored, Draft, Framed, Within
<1>3. \A t \in Slot : Frames(sockets'[t].down) = {}
  BY <1>1, NoFrames DEF Afresh
<1> QED
  BY <1>1, <1>2, <1>3, DraftsStep

LEMMA InitDrafts == Init => Drafts
<1> SUFFICES ASSUME Init PROVE Drafts
  OBVIOUS
<1>1. Afresh
  BY InitTyped
<1>2. saved.doc = EmptyDoc /\ \A c \in Client : replica[c].items = {}
  BY DocFacts DEF Init
<1>3. Stored /\ Draft /\ Framed /\ Readers
  BY <1>1, <1>2 DEF Afresh, Stored, Draft, Framed, Readers
<1>4. Flown
  BY <1>1, NoFrames DEF Afresh, Flown
<1> QED
  BY <1>3, <1>4 DEF Drafts

LEMMA TypeOwn == ASSUME NEW c \in Client, NEW w \in Word
                 PROVE \A x \in Doc({<<c, w>>}, {}).items : x[1] = c
BY DEF Doc

LEMMA EraseOwn == ASSUME NEW c, NEW x PROVE \A y \in Doc({}, {x}).items : y[1] = c
BY DEF Doc

LEMMA StepDrafts == ~Faults /\ Typed /\ Hub /\ Drafts /\ [Next]_vars => Drafts'
<1> SUFFICES ASSUME ~Faults, Typed, Hub, Drafts, [Next]_vars PROVE Drafts'
  OBVIOUS
<1>1. CASE \E c \in Client : \/ Connect(c)
                             \/ \E w \in Word : Type(c, w)
                             \/ \E x \in replica[c].items : Erase(c, x)
                             \/ \E kind \in {"commit", "reset"} : Ask(c, kind)
  <2>1. ASSUME NEW c \in Client, NEW w \in Word, Type(c, w) PROVE Drafts'
    BY <2>1, TypeChange, TypeOwn, EditDrafts
  <2>2. ASSUME NEW c \in Client, NEW x \in replica[c].items, Erase(c, x) PROVE Drafts'
    BY <2>2, EraseChange, EraseOwn, EditDrafts
  <2>3. ASSUME NEW c \in Client, NEW kind \in {"commit", "reset"}, Ask(c, kind) PROVE Drafts'
    <3>1. /\ UNCHANGED <<store, server, replica, typed>>
          /\ \A t \in Slot : Sends(t) /\ sockets'[t].down = sockets[t].down
      BY <2>3, AskEffect
    <3>2. \A q \in Room : SameContents(q)
      BY <3>1, SameRooms DEF server
    <3> QED
      BY <3>1, <3>2, TrafficStays, DraftsStay DEF SameTraffic, store, server
  <2> QED
    BY <1>1, <2>1, <2>2, <2>3, ConnectDrafts
<1>2. ASSUME NEW s \in Slot, ClientRead(s) \/ Drop(s) \/ Serve(s) PROVE Drafts'
  BY <1>2, ClientReadDrafts, DropDrafts, AcceptDrafts, ServeSyncDrafts, ServeUpdateDrafts, RelayDrafts,
     ServeResetDrafts, ServeCommitDrafts, StoreCommitDrafts, PersistDrafts, HangupDrafts DEF Serve
<1>3. CASE RestBegin \/ RestEnd \/ UNCHANGED vars
  <2>1. UNCHANGED <<saved, server, sockets, replica>>
    BY <1>3, RestBeginEffect, RestEndEffect DEF vars, store
  <2> QED
    BY <2>1, StoreOnlyDrafts
<1>4. CASE Restart
  BY <1>4, RestartDrafts
<1> QED
  BY <1>1, <1>2, <1>3, <1>4 DEF Next

LEMMA AlwaysDrafts == ~Overlap /\ ~Faults => (Spec => [](Typed /\ Hub /\ Drafts))
<1>1. Init => Typed /\ Hub /\ Drafts
  BY InitTyped, HubAfresh, InitDrafts
<1> SUFFICES ASSUME ~Overlap, ~Faults PROVE Spec => [](Typed /\ Hub /\ Drafts)
  OBVIOUS
<1>2. (Typed /\ Hub /\ Drafts) /\ [Next]_vars => (Typed /\ Hub /\ Drafts)'
  BY StepTyped, StepHub, StepDrafts
<1> QED
  BY <1>1, <1>2, PTL DEF Spec

\* What a browser got to see of another's edits is stored, and what is sent is stored
\* before it is sent, through crashes, idle rooms, resets and rolled back commits.
\* (persist before relay, ws.py:173-182)
THEOREM ShownIsStored == ~Overlap /\ ~Faults => (Spec => []NothingShownIsLost)
<1>1. ASSUME Typed, Drafts PROVE NothingShownIsLost
  <2>1. \A s \in Slot : InFlight(s) = Frames(sockets[s].down)
    BY DEF InFlight, Frames
  <2> QED
    BY <1>1, <2>1 DEF Drafts, Readers, Flown, Within, NothingShownIsLost
<1> QED
  BY <1>1, AlwaysDrafts, PTL

\* Between two stretches of the event loop the stored document and base are those of the
\* live room, as long as no write of a draft fails. (persist_room after every change)
THEOREM DraftAlwaysPersisted == ~Overlap /\ ~Faults => (Spec => []DraftIsPersisted)
<1>1. ASSUME Typed, Drafts PROVE DraftIsPersisted
  <2>1. ASSUME LoopFree, registered # NoRoom
        PROVE  saved = [doc |-> rooms[registered].doc, base |-> rooms[registered].base]
    <3>1. rooms[registered].doc = saved.doc /\ rooms[registered].base = saved.base
      BY <1>1, <2>1, LoopFreeFacts DEF Drafts, Draft
    <3>2. saved \in [doc : Docs, base : 0..Len(log)]
      BY <1>1 DEF Typed, StoreTypes
    <3> QED
      BY <3>1, <3>2
  <2> QED
    BY <2>1 DEF DraftIsPersisted
<1> QED
  BY <1>1, AlwaysDrafts, PTL

-----------------------------------------------------------------------------
(* Whose words there are.                                                  *)

\* c typed x.
Mine(c, x) == x \in replica[c].items /\ x[1] = c

\* Each browser types its words once, and no other browser types them.
Authors ==
    /\ \A c \in Client : \A x : Mine(c, x) => x[2] \in typed
    /\ \A b, c \in Client : \A x, y : Mine(b, x) /\ Mine(c, y) /\ x[2] = y[2] => x = y

\* A word the server may write anew: whoever typed it, his item is stored.
Settled(w) == w \in typed /\ \A c \in Client : \A x : Mine(c, x) /\ x[2] = w => x \in saved.doc.items

\* Where an item comes from: a browser that still has it, or the server.
Written(x) == x[1] \in Nat /\ Settled(x[2])
Owned(x) == (\E c \in Client : Mine(c, x)) \/ Written(x)

Sources == \A x \in saved.doc.items : Owned(x)

Servers == registered # NoRoom =>
               \A x \in rooms[registered].doc.items : x \in saved.doc.items \/ Written(x)

Sent == \A s \in Slot : \A f \in Frames(sockets[s].up) : f.type = "update" =>
            \A x \in f.doc.items : x \in saved.doc.items \/ Mine(sockets[s].client, x)

Logged == \A i \in 1..Len(log) : \A w \in log[i].text : Settled(w)

Words == Authors /\ Sources /\ Servers /\ Sent /\ Logged

\* Nothing a browser typed and nothing stored is ever forgotten.
Grows ==
    /\ saved.doc.items \subseteq saved'.doc.items /\ typed \subseteq typed'
    /\ \A c \in Client : \A x : Mine(c, x) => x \in replica'[c].items
    /\ \A c \in Client : \A x : x \in replica'[c].items /\ x[1] = c => Mine(c, x) \/ x[2] \notin typed

LEMMA SettledGrows == ASSUME Grows, NEW w, Settled(w) PROVE Settled(w)'
BY DEF Grows, Settled, Mine

LEMMA OwnedGrows == ASSUME Grows, NEW x, Owned(x) PROVE Owned(x)'
<1>1. CASE Written(x)
  BY <1>1, SettledGrows DEF Written, Owned
<1>2. CASE \E c \in Client : Mine(c, x)
  BY <1>2 DEF Grows, Mine, Owned
<1> QED
  BY <1>1, <1>2 DEF Owned

LEMMA SourcesStep ==
    ASSUME Grows, Sources, \A x \in saved'.doc.items : x \in saved.doc.items \/ Owned(x)
    PROVE  Sources'
BY OwnedGrows DEF Sources

LEMMA ServersStep ==
    ASSUME Grows, registered' # NoRoom =>
              \A x \in rooms'[registered'].doc.items : x \in saved'.doc.items \/ Written(x)
    PROVE  Servers'
BY SettledGrows DEF Servers, Written

LEMMA SentStep ==
    ASSUME Grows, Sent, Typed,
           \A s \in Slot : \A f \in Frames(sockets'[s].up) : f.type = "update" =>
              \/ f \in Frames(sockets[s].up) /\ sockets'[s].client = sockets[s].client
              \/ /\ sockets'[s].client \in Client
                 /\ \A x \in f.doc.items :
                       \/ x \in saved.doc.items
                       \/ x \in replica'[sockets'[s].client].items /\ x[1] = sockets'[s].client
    PROVE  Sent'
<1> SUFFICES ASSUME NEW s \in Slot, NEW f \in Frames(sockets'[s].up), f.type = "update",
                    NEW x \in f.doc.items
             PROVE  \/ x \in saved'.doc.items
                    \/ x \in replica'[sockets'[s].client].items /\ x[1] = sockets'[s].client
  BY DEF Sent, Mine
<1>1. CASE f \in Frames(sockets[s].up) /\ sockets'[s].client = sockets[s].client
  BY <1>1, SocketTypes DEF Sent, Grows, Mine
<1>2. CASE \A y \in f.doc.items :
              \/ y \in saved.doc.items
              \/ y \in replica'[sockets'[s].client].items /\ y[1] = sockets'[s].client
  BY <1>2 DEF Grows
<1> QED
  BY <1>1, <1>2

LEMMA LoggedStep ==
    ASSUME Grows, Logged, \A i \in 1..Len(log') : \A w \in log'[i].text :
              Settled(w) \/ \E j \in 1..Len(log) : w \in log[j].text
    PROVE  Logged'
BY SettledGrows DEF Logged

\* What most steps leave alone.
LEMMA ReplicasStay ==
    ASSUME replica' = replica, typed \subseteq typed', saved.doc.items \subseteq saved'.doc.items
    PROVE  Grows
BY DEF Grows, Mine

LEMMA AuthorsStay ==
    ASSUME Authors, typed \subseteq typed',
           \A c \in Client : \A x : x \in replica'[c].items /\ x[1] = c => Mine(c, x)
    PROVE  Authors'
<1>1. \A c \in Client : \A x : Mine(c, x)' => Mine(c, x)
  BY DEF Mine
<1> QED
  BY <1>1 DEF Authors

\* Only typing makes items of one's own.
LEMMA TypeWords ==
    ASSUME Typed, Authors, NEW c \in Client, NEW w \in Word, Type(c, w)
    PROVE  Grows /\ Authors'
<1>1. /\ w \notin typed /\ typed' = typed \cup {w} /\ UNCHANGED <<store, server>>
      /\ Doc({<<c, w>>}, {}) \in Docs /\ Edit(c, Doc({<<c, w>>}, {}))
  BY TypeChange DEF Type
<1>2. /\ replica'[c] = Merge(replica[c], Doc({<<c, w>>}, {}))
      /\ \A d \in Client \ {c} : replica'[d] = replica[d]
  BY <1>1, EditEffect
<1>3. replica'[c].items = replica[c].items \cup {<<c, w>>}
  <2> DEFINE change == Doc({<<c, w>>}, {})
  <2>1. replica[c] \in Docs /\ change \in Docs /\ change.items = {<<c, w>>}
    BY <1>1 DEF Typed, PeerTypes, Doc
  <2>2. replica'[c] = Merge(replica[c], change)
    BY <1>2
  <2> HIDE DEF change
  <2> QED
    BY <2>1, <2>2, DocFacts
<1>4. \A d \in Client : \A x : x \in replica'[d].items /\ x[1] = d <=>
         Mine(d, x) \/ (d = c /\ x = <<c, w>>)
  <2> SUFFICES ASSUME NEW d \in Client, NEW x
               PROVE  x \in replica'[d].items /\ x[1] = d <=> Mine(d, x) \/ (d = c /\ x = <<c, w>>)
    OBVIOUS
  <2>1. CASE d = c
    <3>1. <<c, w>>[1] = c
      OBVIOUS
    <3> QED
      BY <1>3, <2>1, <3>1 DEF Mine
  <2>2. CASE d # c
    BY <1>2, <2>2 DEF Mine
  <2> QED
    BY <2>1, <2>2
<1>5. Grows
  BY <1>1, <1>4 DEF Grows, Mine, store
<1>6. Authors'
  <2>1. \A d \in Client : \A x : Mine(d, x)' <=> Mine(d, x) \/ (d = c /\ x = <<c, w>>)
    BY <1>4 DEF Mine
  <2> QED
    BY <1>1, <2>1 DEF Authors
<1> QED
  BY <1>5, <1>6

LEMMA EraseWords ==
    ASSUME Typed, Authors, NEW c \in Client, NEW x \in replica[c].items, Erase(c, x)
    PROVE  Grows /\ Authors'
<1>1. /\ typed' = typed /\ UNCHANGED <<store, server>>
      /\ Doc({}, {x}) \in Docs /\ Edit(c, Doc({}, {x}))
  BY EraseChange DEF Erase
<1>2. /\ replica'[c] = Merge(replica[c], Doc({}, {x}))
      /\ \A d \in Client \ {c} : replica'[d] = replica[d]
  BY <1>1, EditEffect
<1>3. replica'[c].items = replica[c].items
  <2> DEFINE change == Doc({}, {x})
  <2>1. replica[c] \in Docs /\ change \in Docs /\ change.items = {}
    BY <1>1 DEF Typed, PeerTypes, Doc
  <2>2. replica'[c] = Merge(replica[c], change)
    BY <1>2
  <2> HIDE DEF change
  <2>3. replica'[c].items = replica[c].items \cup change.items
    BY <2>1, <2>2, MergeFacts
  <2> QED
    BY <2>1, <2>3
<1>4. \A d \in Client : replica'[d].items = replica[d].items
  BY <1>2, <1>3
<1>5. Grows
  BY <1>1, <1>4 DEF Grows, Mine, store
<1>6. Authors'
  BY <1>1, <1>4, AuthorsStay DEF Mine
<1> QED
  BY <1>5, <1>6

LEMMA OwnedIsMine ==
    ASSUME NEW c \in Client, NEW x, Owned(x), x[1] = c
    PROVE  Mine(c, x)
BY RoomAssumption DEF Owned, Mine, Written

LEMMA ClientReadWords ==
    ASSUME Typed, Drafts, Authors, Sources, NEW s \in Slot, ClientRead(s)
    PROVE  Grows /\ Authors'
<1> DEFINE c == sockets[s].client
           frame == Head(sockets[s].down)
<1>1. /\ UNCHANGED <<store, server, typed>> /\ sockets[s].down # <<>>
      /\ \/ UNCHANGED replica
         \/ /\ frame.type = "update" /\ replica'[c] = Merge(replica[c], frame.doc)
            /\ \A d \in Client \ {c} : replica'[d] = replica[d]
  BY ClientReadEffect
<1>2. \A d \in Client : /\ replica[d].items \subseteq replica'[d].items
                        /\ \A x \in replica'[d].items : x \in replica[d].items \/ x \in saved.doc.items
  <2>1. CASE UNCHANGED replica
    BY <2>1
  <2>2. CASE /\ frame.type = "update" /\ replica'[c] = Merge(replica[c], frame.doc)
             /\ \A d \in Client \ {c} : replica'[d] = replica[d]
    <3>1. replica[c] \in Docs /\ frame.doc \in Docs /\ frame \in Frames(sockets[s].down)
      BY <1>1, <2>2, FrameFacts, SocketTypes, QueueFacts DEF Typed, PeerTypes
    <3>2. replica'[c].items = replica[c].items \cup frame.doc.items
      BY <2>2, <3>1, DocFacts
    <3>3. frame.doc.items \subseteq saved.doc.items
      BY <2>2, <3>1 DEF Drafts, Flown, Within
    <3> QED
      BY <2>2, <3>2, <3>3
  <2> QED
    BY <1>1, <2>1, <2>2
<1>3. \A d \in Client : \A x : x \in replica'[d].items /\ x[1] = d => Mine(d, x)
  BY <1>2, OwnedIsMine DEF Sources, Mine
<1>4. Grows
  BY <1>1, <1>2, <1>3 DEF Grows, Mine, store
<1>5. Authors'
  BY <1>1, <1>3, AuthorsStay
<1> QED
  BY <1>4, <1>5

-----------------------------------------------------------------------------
LEMMA SentStays ==
    ASSUME Grows, Sent, Typed,
           \A s \in Slot : \A f \in Frames(sockets'[s].up) :
              f.type # "update" \/ (f \in Frames(sockets[s].up) /\ sockets'[s].client = sockets[s].client)
    PROVE  Sent'
BY SentStep

LEMMA WordsStay ==
    ASSUME Typed, Words, replica' = replica, typed' = typed, log' = log, saved' = saved,
           registered' = registered, \A q \in Room : SameContents(q),
           \A s \in Slot : \A f \in Frames(sockets'[s].up) :
              f.type # "update" \/ (f \in Frames(sockets[s].up) /\ sockets'[s].client = sockets[s].client)
    PROVE  Words'
<1>1. Grows
  BY ReplicasStay
<1>2. Authors'
  BY DEF Words, Authors, Mine
<1>3. Sources'
  BY <1>1, SourcesStep DEF Words
<1>4. Servers'
  <2>1. registered # NoRoom => registered \in Room
    BY DEF Typed, RoomTypes
  <2> QED
    BY <1>1, <2>1, ServersStep DEF Words, Servers, SameContents
<1>5. Sent'
  BY <1>1, SentStays DEF Words
<1>6. Logged'
  BY <1>1, LoggedStep DEF Words
<1> QED
  BY <1>2, <1>3, <1>4, <1>5, <1>6 DEF Words

\* Frames that are read or lost.
UpShrinks(s) ==
    /\ sockets'[s].client = sockets[s].client
    /\ Frames(sockets'[s].up) \subseteq Frames(sockets[s].up)

LEMMA TailShrinks ==
    ASSUME Typed, NEW s \in Slot, sockets[s].up # <<>>, sockets'[s].up = Tail(sockets[s].up),
           OnlySocket(s), sockets'[s].client = sockets[s].client
    PROVE  \A t \in Slot : UpShrinks(t)
<1>1. Frames(sockets'[s].up) \subseteq Frames(sockets[s].up)
  BY SocketTypes, QueueFacts
<1> QED
  BY <1>1 DEF UpShrinks, OnlySocket

LEMMA LostShrinks ==
    ASSUME NEW s \in Slot, sockets'[s].up = <<>>, OnlySocket(s), sockets'[s].client = sockets[s].client
    PROVE  \A t \in Slot : UpShrinks(t)
BY NoFrames DEF UpShrinks, OnlySocket

LEMMA SameUps ==
    ASSUME \A t \in Slot : sockets'[t].up = sockets[t].up /\ sockets'[t].client = sockets[t].client
    PROVE  \A t \in Slot : UpShrinks(t)
BY DEF UpShrinks

LEMMA WordsShrink ==
    ASSUME Typed, Words, replica' = replica, typed' = typed, log' = log, saved' = saved,
           registered' = registered, \A q \in Room : SameContents(q), \A s \in Slot : UpShrinks(s)
    PROVE  Words'
BY WordsStay DEF UpShrinks

LEMMA ConnectWords == ASSUME Typed, Words, NEW c \in Client, Connect(c) PROVE Words'
<1>1. UNCHANGED <<store, server, replica, typed>>
  BY DEF Connect
<1>2. PICK s \in Slot : OnlySocket(s) /\ sockets'[s].up = <<Sync(replica[c].items)>>
  BY ConnectEffect
<1>3. \A f \in Frames(sockets'[s].up) : f.type # "update"
  BY <1>2 DEF Frames, Sync
<1>4. \A q \in Room : SameContents(q)
  BY <1>1, SameRooms DEF server
<1>5. \A t \in Slot : \A f \in Frames(sockets'[t].up) :
         f.type # "update" \/ (f \in Frames(sockets[t].up) /\ sockets'[t].client = sockets[t].client)
  BY <1>2, <1>3 DEF OnlySocket
<1> QED
  BY <1>1, <1>4, <1>5, WordsStay DEF store, server

LEMMA AskWords ==
    ASSUME Typed, Words, NEW c \in Client, NEW kind \in {"commit", "reset"}, Ask(c, kind)
    PROVE  Words'
<1>1. /\ UNCHANGED <<store, server, replica, typed>> /\ \A s \in Slot : Still(s)
      /\ \E s \in Slot : OnlySocket(s) /\ sockets'[s].up = Append(sockets[s].up, Control(kind))
  BY AskEffect
<1>2. PICK s \in Slot : OnlySocket(s) /\ sockets'[s].up = Append(sockets[s].up, Control(kind))
  BY <1>1
<1>3. Control(kind) \in Frame /\ Control(kind).type # "update"
  BY FrameFacts
<1>4. Frames(sockets'[s].up) = Frames(sockets[s].up) \cup {Control(kind)}
  BY <1>2, <1>3, SocketTypes, QueueFacts
<1>5. \A q \in Room : SameContents(q)
  BY <1>1, SameRooms DEF server
<1>6. \A t \in Slot : \A f \in Frames(sockets'[t].up) :
         f.type # "update" \/ (f \in Frames(sockets[t].up) /\ sockets'[t].client = sockets[t].client)
  BY <1>1, <1>2, <1>3, <1>4 DEF OnlySocket, Still
<1> QED
  BY <1>1, <1>5, <1>6, WordsStay DEF store, server

\* The store and the rooms are left alone, whatever a browser does.
LEMMA PeerWords ==
    ASSUME Typed, Words, Grows, Authors', Sent', UNCHANGED <<store, server>>
    PROVE  Words'
<1>1. Sources'
  BY SourcesStep DEF Words, store
<1>2. Servers'
  BY ServersStep DEF Words, Servers, store, server
<1>3. Logged'
  BY LoggedStep DEF Words, store
<1> QED
  BY <1>1, <1>2, <1>3 DEF Words

\* A change that is sent has only items of its browser.
LEMMA EditSent ==
    ASSUME Typed, Words, Grows, NEW c \in Client, NEW change \in Docs, Edit(c, change),
           UNCHANGED <<store, server>>, \A x \in change.items : x[1] = c
    PROVE  Sent'
<1>1. /\ replica'[c] = Merge(replica[c], change)
      /\ \A t \in Slot : Still(t)
      /\ \/ UNCHANGED sockets
         \/ /\ SocketOf(c) \in Slot /\ sockets[SocketOf(c)].client = c
            /\ OnlySocket(SocketOf(c))
            /\ sockets'[SocketOf(c)].up = Append(sockets[SocketOf(c)].up, Update(change))
  BY EditEffect
<1>2. CASE UNCHANGED sockets
  BY <1>2, SentStays DEF Words
<1>3. ASSUME NEW s \in Slot, sockets[s].client = c, OnlySocket(s),
             sockets'[s].up = Append(sockets[s].up, Update(change))
      PROVE  Sent'
  <2>1. Update(change) \in Frame /\ Update(change).doc = change
    BY FrameFacts
  <2>2. Frames(sockets'[s].up) = Frames(sockets[s].up) \cup {Update(change)}
    BY <1>3, <2>1, SocketTypes, QueueFacts
  <2>3. change.items \subseteq replica'[c].items
    <3>1. replica[c] \in Docs
      BY DEF Typed, PeerTypes
    <3> QED
      BY <1>1, <3>1, MergeFacts
  <2>4. \A t \in Slot : sockets'[t].client = sockets[t].client
    BY <1>1 DEF Still
  <2>5. \A t \in Slot : \A f \in Frames(sockets'[t].up) :
           f \in Frames(sockets[t].up) \/ (t = s /\ f = Update(change))
    BY <1>3, <2>2 DEF OnlySocket
  <2>6. \A t \in Slot : \A f \in Frames(sockets'[t].up) : f.type = "update" =>
           \/ f \in Frames(sockets[t].up) /\ sockets'[t].client = sockets[t].client
           \/ /\ sockets'[t].client \in Client
              /\ \A x \in f.doc.items :
                    \/ x \in saved.doc.items
                    \/ x \in replica'[sockets'[t].client].items /\ x[1] = sockets'[t].client
    BY <1>3, <2>1, <2>3, <2>4, <2>5
  <2> QED
    BY <2>6, SentStep DEF Words
<1> QED
  BY <1>1, <1>2, <1>3

LEMMA ClientReadSent ==
    ASSUME Typed, Drafts, Words, Grows, NEW s \in Slot, ClientRead(s)
    PROVE  Sent'
<1> DEFINE c == sockets[s].client
           frame == Head(sockets[s].down)
           lacking == Lacking(s, frame)
<1>1. /\ \A t \in Slot : Still(t)
      /\ OnlySocket(s)
      /\ \/ sockets'[s].up = sockets[s].up
         \/ UNCHANGED replica /\ sockets'[s].up = Append(sockets[s].up, Update(lacking))
  BY ClientReadEffect
<1>2. \A t \in Slot : sockets'[t].client = sockets[t].client
  BY <1>1 DEF Still
<1>3. CASE sockets'[s].up = sockets[s].up
  BY <1>1, <1>2, <1>3, SentStays DEF Words, OnlySocket
<1>4. CASE UNCHANGED replica /\ sockets'[s].up = Append(sockets[s].up, Update(lacking))
  <2>1. c \in Client /\ replica[c] \in Docs
    BY SocketTypes DEF Typed, PeerTypes
  <2>2. lacking \in Docs /\ lacking.items = replica[c].items \ frame.items
    <3>1. replica[c].items \ frame.items \in SUBSET Item /\ replica[c].dead \in SUBSET Item
      BY <2>1 DEF Docs
    <3> QED
      BY <3>1, DocFacts DEF Lacking
  <2> HIDE DEF lacking
  <2>3. Update(lacking) \in Frame /\ Update(lacking).doc = lacking
    BY <2>2, FrameFacts
  <2>4. Frames(sockets'[s].up) = Frames(sockets[s].up) \cup {Update(lacking)}
    BY <1>4, <2>3, SocketTypes, QueueFacts
  <2>5. \A x \in lacking.items : x \in saved.doc.items \/ (x \in replica'[c].items /\ x[1] = c)
    BY <1>4, <2>1, <2>2 DEF Drafts, Readers
  <2>6. \A t \in Slot : \A f \in Frames(sockets'[t].up) :
           f \in Frames(sockets[t].up) \/ (t = s /\ f = Update(lacking))
    BY <1>1, <2>4 DEF OnlySocket
  <2>7. \A t \in Slot : \A f \in Frames(sockets'[t].up) : f.type = "update" =>
           \/ f \in Frames(sockets[t].up) /\ sockets'[t].client = sockets[t].client
           \/ /\ sockets'[t].client \in Client
              /\ \A x \in f.doc.items :
                    \/ x \in saved.doc.items
                    \/ x \in replica'[sockets'[t].client].items /\ x[1] = sockets'[t].client
    BY <1>2, <2>1, <2>3, <2>5, <2>6
  <2> QED
    BY <2>7, SentStep DEF Words
<1> QED
  BY <1>1, <1>3, <1>4

-----------------------------------------------------------------------------
LEMMA TypeAllWords == ASSUME Typed, Words, NEW c \in Client, NEW w \in Word, Type(c, w) PROVE Words'
<1> DEFINE change == Doc({<<c, w>>}, {})
<1>1. change \in Docs /\ Edit(c, change) /\ UNCHANGED <<store, server>> /\ \A x \in change.items : x[1] = c
  BY TypeChange, TypeOwn
<1>2. Grows /\ Authors'
  BY TypeWords DEF Words
<1> HIDE DEF change
<1>3. Sent'
  BY <1>1, <1>2, EditSent
<1> QED
  BY <1>1, <1>2, <1>3, PeerWords

LEMMA EraseAllWords ==
    ASSUME Typed, Words, NEW c \in Client, NEW x \in replica[c].items, Erase(c, x)
    PROVE  Words'
<1> DEFINE change == Doc({}, {x})
<1>1. change \in Docs /\ Edit(c, change) /\ UNCHANGED <<store, server>> /\ \A y \in change.items : y[1] = c
  BY EraseChange, EraseOwn
<1>2. Grows /\ Authors'
  BY EraseWords DEF Words
<1> HIDE DEF change
<1>3. Sent'
  BY <1>1, <1>2, EditSent
<1> QED
  BY <1>1, <1>2, <1>3, PeerWords

LEMMA ReadAllWords == ASSUME Typed, Drafts, Words, NEW s \in Slot, ClientRead(s) PROVE Words'
<1>1. UNCHANGED <<store, server>>
  BY ClientReadEffect
<1>2. Grows /\ Authors'
  BY ClientReadWords DEF Words
<1>3. Sent'
  BY <1>2, ClientReadSent
<1> QED
  BY <1>1, <1>2, <1>3, PeerWords

LEMMA DropWords == ASSUME Typed, Words, NEW s \in Slot, Drop(s) PROVE Words'
<1>1. /\ UNCHANGED <<store, server, replica, typed>> /\ OnlySocket(s)
      /\ sockets'[s].client = sockets[s].client /\ sockets'[s].up \in {sockets[s].up, <<>>}
  BY DropEffect
<1>2. \A t \in Slot : UpShrinks(t)
  BY <1>1, NoFrames DEF UpShrinks, OnlySocket
<1>3. \A q \in Room : SameContents(q)
  BY <1>1, SameRooms DEF server
<1> QED
  BY <1>1, <1>2, <1>3, WordsShrink DEF store, server

LEMMA ServeSyncWords == ASSUME Typed, Words, NEW s \in Slot, ServeSync(s) PROVE Words'
<1>1. /\ UNCHANGED <<store, server, replica, typed>> /\ OnlySocket(s) /\ Still(s)
      /\ sockets[s].up # <<>> /\ sockets'[s].up = Tail(sockets[s].up)
  BY ServeSyncEffect
<1>2. \A t \in Slot : UpShrinks(t)
  BY <1>1, TailShrinks DEF Still
<1>3. \A q \in Room : SameContents(q)
  BY <1>1, SameRooms DEF server
<1> QED
  BY <1>1, <1>2, <1>3, WordsShrink DEF store, server

LEMMA ServeCommitWords == ASSUME Typed, Words, NEW s \in Slot, ServeCommit(s) PROVE Words'
<1>1. /\ UNCHANGED <<store, registered, rooms, replica, typed>> /\ OnlySocket(s) /\ Still(s)
      /\ sockets[s].up # <<>> /\ sockets'[s].up = Tail(sockets[s].up)
  BY ServeCommitEffect
<1>2. \A t \in Slot : UpShrinks(t)
  BY <1>1, TailShrinks DEF Still
<1>3. \A q \in Room : SameContents(q)
  BY <1>1, SameRooms
<1> QED
  BY <1>1, <1>2, <1>3, WordsShrink DEF store

LEMMA RelayWords == ASSUME Typed, Hub, Words, NEW s \in Slot, Relay(s) PROVE Words'
<1>1. /\ UNCHANGED <<store, replica, typed>> /\ registered' = registered
      /\ \A q \in Room : SameContents(q)
  BY RelayEffect, RelayHub
<1>2. PICK p \in sockets[s].todo : SendsOn(s, p) \/ (Freed(s) /\ OnlySocket(s))
  BY RelayEffect
<1>3. \A t \in Slot : UpShrinks(t)
  BY <1>2, LostShrinks, SameUps DEF SendsOn, Still, Freed
<1> QED
  BY <1>1, <1>3, WordsShrink DEF store

LEMMA HangupWords == ASSUME Typed, Hub, Words, NEW s \in Slot, Hangup(s) PROVE Words'
<1>1. /\ UNCHANGED <<store, replica, typed>> /\ registered' = registered
      /\ OnlySocket(s) /\ Freed(s) /\ \A q \in Room : SameContents(q)
  BY HangupEffect, HangupHub, SameRooms
<1>2. \A t \in Slot : UpShrinks(t)
  BY <1>1, LostShrinks DEF Freed
<1> QED
  BY <1>1, <1>2, WordsShrink DEF store

LEMMA StoreOnlyWords == ASSUME Typed, Words, UNCHANGED <<log, saved, server, sockets, replica, typed>>
                        PROVE Words'
<1>1. \A t \in Slot : UpShrinks(t)
  BY SameUps
<1>2. \A q \in Room : SameContents(q)
  BY SameRooms DEF server
<1> QED
  BY <1>1, <1>2, WordsShrink DEF server

-----------------------------------------------------------------------------
\* The server makes no word but those of a commit.
LEMMA SetTextWords ==
    ASSUME Typed, Logged, NEW d \in Docs, writes < MaxWrites,
           NEW x \in SetText(d, log[Shown].text, writes + 1).items
    PROVE  x \in d.items \/ Written(x)
<1>1. Shown \in 1..Len(log) /\ log[Shown].text \in SUBSET Word /\ writes + 1 \in 1..MaxWrites
  BY ShownFacts, WriteNumber DEF Typed
<1>2. x \in d.items \/ \E w \in log[Shown].text : x = <<writes + 1, w>>
  <2> DEFINE n == writes + 1
             text == log[Shown].text
  <2>1. n \in 1..MaxWrites /\ text \in SUBSET Word /\ x \in SetText(d, text, n).items
    BY <1>1
  <2> HIDE DEF n, text
  <2>2. SetText(d, text, n).items = d.items \cup {<<n, w>> : w \in text}
    BY <2>1, SetTextFacts
  <2>3. x \in d.items \/ \E w \in text : x = <<n, w>>
    BY <2>1, <2>2
  <2> QED
    BY <2>3 DEF n, text
<1>3. ASSUME NEW w \in log[Shown].text, x = <<writes + 1, w>> PROVE Written(x)
  BY <1>1, <1>3 DEF Logged, Written
<1> QED
  BY <1>2, <1>3

LEMMA SeededWords ==
    ASSUME Typed, Drafts, Logged, writes < MaxWrites \/ Seeded = saved, NEW x \in Seeded.doc.items
    PROVE  x \in saved.doc.items \/ Written(x)
<1>1. CASE Seeded = saved
  BY <1>1
<1>2. CASE writes < MaxWrites
  <2>1. /\ saved.doc \in Docs /\ EmptyDoc \in Docs /\ EmptyDoc.items = {}
        /\ \/ Seeded = saved
           \/ Seeded.doc = SetText(EmptyDoc, log[Shown].text, writes + 1)
           \/ Seeded.doc = SetText(saved.doc, log[Shown].text, writes + 1)
    BY <1>2, SeededFacts, DocFacts DEF Typed, StoreTypes, RoomTypes
  <2> QED
    BY <1>2, <2>1, SetTextWords
<1> QED
  BY <1>1, <1>2

\* The server changes its rooms.
LEMMA ServerWords ==
    ASSUME Typed, Words, UNCHANGED <<log, saved, replica, typed>>, \A s \in Slot : UpShrinks(s),
           registered' # NoRoom =>
              \A x \in rooms'[registered'].doc.items : x \in saved.doc.items \/ Written(x)
    PROVE  Words'
<1>1. Grows
  BY ReplicasStay
<1>2. Authors'
  BY DEF Words, Authors, Mine
<1>3. Sources' /\ Servers' /\ Logged'
  BY <1>1, SourcesStep, ServersStep, LoggedStep DEF Words
<1>4. Sent'
  BY <1>1, SentStays DEF Words, UpShrinks
<1> QED
  BY <1>2, <1>3, <1>4 DEF Words

LEMMA AcceptWords == ASSUME Typed, Hub, Drafts, Words, NEW s \in Slot, Accept(s) PROVE Words'
<1>1. /\ UNCHANGED <<store, replica, typed>> /\ OnlySocket(s)
      /\ sockets'[s].client = sockets[s].client /\ sockets'[s].up = sockets[s].up
  BY AcceptEffect
<1>2. PICK r \in Room, fresh \in BOOLEAN : registered' = r /\ Makes(s, r, fresh)
  BY AcceptEffect
<1>3. \A t \in Slot : UpShrinks(t)
  BY <1>1, SameUps DEF OnlySocket
<1>4. ASSUME NEW x \in rooms'[r].doc.items PROVE x \in saved.doc.items \/ Written(x)
  <2>1. CASE fresh
    BY <1>2, <1>4, <2>1, SeededWords DEF Makes, Words
  <2>2. CASE ~fresh
    BY <1>2, <1>4, <2>2, RoomAssumption DEF Makes, SameContents, Words, Servers
  <2> QED
    BY <2>1, <2>2
<1> QED
  BY <1>1, <1>2, <1>3, <1>4, ServerWords DEF store

LEMMA ServeResetWords == ASSUME Typed, Hub, Words, NEW s \in Slot, ServeReset(s) PROVE Words'
<1> DEFINE r == sockets[s].room
<1>1. /\ UNCHANGED <<store, registered, replica, typed>> /\ Serves(s) /\ OnlySocket(s) /\ Still(s)
      /\ sockets[s].up # <<>> /\ sockets'[s].up = Tail(sockets[s].up) /\ writes < MaxWrites
      /\ rooms'[r].doc = SetText(rooms[r].doc, log[Shown].text, writes + 1)
  BY ServeResetEffect
<1>2. r = registered /\ registered # NoRoom /\ rooms[r].doc \in Docs
  BY <1>1, SendersServe
<1>3. \A t \in Slot : UpShrinks(t)
  BY <1>1, TailShrinks DEF Still
<1>4. ASSUME NEW x \in rooms'[r].doc.items PROVE x \in saved.doc.items \/ Written(x)
  BY <1>1, <1>2, <1>4, SetTextWords DEF Words, Servers
<1> QED
  BY <1>1, <1>2, <1>3, <1>4, ServerWords DEF store

LEMMA ServeUpdateWords ==
    ASSUME ~Faults, Typed, Hub, Drafts, Words, NEW s \in Slot, ServeUpdate(s)
    PROVE  Words'
<1> DEFINE r == sockets[s].room
           change == Head(sockets[s].up).doc
<1>1. /\ UNCHANGED <<log, replica, typed, busy>> /\ LoopFree /\ Serves(s) /\ OnlySocket(s) /\ Still(s)
      /\ registered' = registered
      /\ sockets[s].up # <<>> /\ sockets'[s].up = Tail(sockets[s].up)
      /\ Head(sockets[s].up).type = "update" /\ change \in Docs
      /\ rooms'[r].doc = Merge(rooms[r].doc, change)
  BY ServeUpdateEffect
<1>2. r = registered /\ registered # NoRoom /\ rooms[r].doc \in Docs /\ rooms[r].doc = saved.doc
  BY <1>1, SendersServe, ServedIsStored, LoopFreeFacts
<1>3. saved'.doc = rooms'[r].doc
  BY <1>1, <1>2, ServeUpdateDrafts, LoopFreeFacts DEF Drafts, Draft
<1>4. saved'.doc.items = saved.doc.items \cup change.items
  BY <1>1, <1>2, <1>3, MergeFacts
<1>5. \A x \in change.items : x \in saved.doc.items \/ Owned(x)
  <2>1. Head(sockets[s].up) \in Frames(sockets[s].up) /\ sockets[s].client \in Client
    BY <1>1, SocketTypes, QueueFacts
  <2> QED
    BY <1>1, <2>1 DEF Words, Sent, Owned
<1>6. Grows
  BY <1>1, <1>4, ReplicasStay
<1>7. Authors'
  BY <1>1 DEF Words, Authors, Mine
<1>8. Sources'
  BY <1>4, <1>5, <1>6, SourcesStep DEF Words
<1>9. Servers'
  BY <1>1, <1>2, <1>3, <1>6, ServersStep
<1>10. Sent'
  <2>1. \A t \in Slot : UpShrinks(t)
    BY <1>1, TailShrinks DEF Still
  <2> QED
    BY <1>6, <2>1, SentStays DEF Words, UpShrinks
<1>11. Logged'
  BY <1>1, <1>6, LoggedStep DEF Words
<1> QED
  BY <1>7, <1>8, <1>9, <1>10, <1>11 DEF Words

\* A stored word is settled.
LEMMA OwnedSettled ==
    ASSUME Authors, NEW x \in saved.doc.items, Owned(x)
    PROVE  Settled(x[2])
BY DEF Authors, Owned, Written, Settled

LEMMA StoreCommitWords == ASSUME Typed, Hub, Drafts, Words, NEW s \in Slot, StoreCommit(s) PROVE Words'
<1> DEFINE r == sockets[s].room
           text == Text(rooms[r].doc)
<1>1. /\ UNCHANGED <<saved, registered, sockets, replica, typed>> /\ Serves(s) /\ busy.at = "commit"
      /\ \/ /\ log' = Append(log, [text |-> text, parent |-> head]) /\ text \in SUBSET Word
            /\ OnlyRoom(r) /\ rooms'[r].doc = rooms[r].doc
         \/ UNCHANGED <<log, rooms>>
  BY StoreCommitEffect
<1>2. r = registered /\ registered # NoRoom /\ rooms[r].doc = saved.doc
  BY <1>1, SendersServe, ServedIsStored
<1>3. Grows
  BY <1>1, ReplicasStay
<1>4. Authors' /\ Sources'
  BY <1>1, <1>3, SourcesStep DEF Words, Authors, Mine
<1>5. Servers'
  BY <1>1, <1>2, <1>3, ServersStep
<1>6. Sent'
  BY <1>1, <1>3, SentStays DEF Words
<1>7. Logged'
  <2>1. CASE UNCHANGED log
    BY <1>3, <2>1, LoggedStep DEF Words
  <2>2. CASE log' = Append(log, [text |-> text, parent |-> head]) /\ text \in SUBSET Word
    <3>1. /\ Len(log) \in Nat /\ Len(log') = Len(log) + 1 /\ log'[Len(log) + 1].text = text
          /\ \A i \in 1..Len(log) : log'[i] = log[i]
      BY <2>2, LogGrows DEF Typed
    <3>2. \A w \in text : Settled(w)
      BY <1>2, OwnedSettled DEF Text, Words, Sources
    <3> QED
      BY <1>3, <3>1, <3>2, LoggedStep DEF Words
  <2> QED
    BY <1>1, <2>1, <2>2
<1> QED
  BY <1>4, <1>5, <1>6, <1>7 DEF Words

LEMMA PersistWords == ASSUME Typed, Hub, Drafts, Words, NEW s \in Slot, PersistRoom(s) PROVE Words'
<1> DEFINE r == sockets[s].room
<1>1. /\ UNCHANGED <<log, registered, rooms, sockets, replica, typed>> /\ Serves(s)
      /\ saved' = [doc |-> rooms[r].doc, base |-> rooms[r].base]
  BY PersistEffect
<1>2. r = registered /\ registered # NoRoom
  BY <1>1, SendersServe
<1>3. saved'.doc = rooms[r].doc
  BY <1>1
<1>4. Grows
  BY <1>1, <1>2, <1>3, ReplicasStay DEF Drafts, Draft, Within
<1>5. Sources'
  BY <1>2, <1>3, <1>4, SourcesStep DEF Words, Servers, Owned
<1>6. Servers'
  BY <1>1, <1>2, <1>3, <1>4, ServersStep
<1>7. Authors' /\ Sent' /\ Logged'
  BY <1>1, <1>4, SentStays, LoggedStep DEF Words, Authors, Mine
<1> QED
  BY <1>5, <1>6, <1>7 DEF Words

LEMMA RestBeginWords == ASSUME Typed, Words, RestBegin PROVE Words'
<1>1. /\ UNCHANGED <<saved, server, sockets, replica>>
      /\ Len(log) \in Nat /\ Len(log') = Len(log) + 1 /\ \A i \in 1..Len(log) : log'[i] = log[i]
      /\ head \in 1..Len(log)
  BY RestBeginEffect DEF Typed, StoreTypes
<1>2. PICK w \in Word :
        /\ typed' = typed \cup {w}
        /\ \/ w \in log[head].text /\ log'[Len(log) + 1].text = log[head].text \ {w}
           \/ w \notin typed /\ log'[Len(log) + 1].text = log[head].text \cup {w}
  BY RestBeginEffect
<1>3. Grows
  BY <1>1, <1>2, ReplicasStay
<1>4. w \notin typed => Settled(w)'
  BY <1>1, <1>2 DEF Settled, Mine, Words, Authors
<1>5. Logged'
  <2>1. \A i \in 1..Len(log) : \A v \in log[i].text : Settled(v)'
    BY <1>3, SettledGrows DEF Words, Logged
  <2> QED
    BY <1>1, <1>2, <1>4, <2>1 DEF Logged
<1>6. Authors' /\ Sent' /\ Sources'
  BY <1>1, <1>2, <1>3, SentStays, SourcesStep, AuthorsStay DEF Words, Mine
<1>7. Servers'
  BY <1>1, <1>3, ServersStep DEF Words, Servers, server
<1> QED
  BY <1>5, <1>6, <1>7 DEF Words

LEMMA RestartWords == ASSUME Typed, Words, Restart PROVE Words'
<1>1. Afresh' /\ UNCHANGED <<log, saved, replica, typed>>
  BY RestartEffect
<1>2. Grows
  BY <1>1, ReplicasStay
<1>3. Sent'
  BY <1>1, NoFrames DEF Afresh, Sent
<1>4. Servers'
  BY <1>1 DEF Afresh, Servers
<1>5. Authors' /\ Sources' /\ Logged'
  BY <1>1, <1>2, SourcesStep, LoggedStep DEF Words, Authors, Mine
<1> QED
  BY <1>3, <1>4, <1>5 DEF Words

LEMMA InitWords == Init => Words
<1> SUFFICES ASSUME Init PROVE Words
  OBVIOUS
<1>1. Afresh
  BY InitTyped
<1>2. /\ saved.doc.items = {} /\ \A c \in Client : replica[c].items = {}
      /\ Len(log) = 1 /\ log[1].text = typed
  BY DocFacts DEF Init
<1>3. Authors /\ Sources /\ Servers /\ Logged
  BY <1>1, <1>2 DEF Authors, Sources, Servers, Logged, Settled, Mine, Afresh
<1>4. Sent
  BY <1>1, NoFrames DEF Afresh, Sent
<1> QED
  BY <1>3, <1>4 DEF Words

LEMMA StepWords == ~Faults /\ Typed /\ Hub /\ Drafts /\ Words /\ [Next]_vars => Words'
<1> SUFFICES ASSUME ~Faults, Typed, Hub, Drafts, Words, [Next]_vars PROVE Words'
  OBVIOUS
<1>1. CASE \E c \in Client : \/ Connect(c)
                             \/ \E w \in Word : Type(c, w)
                             \/ \E x \in replica[c].items : Erase(c, x)
                             \/ \E kind \in {"commit", "reset"} : Ask(c, kind)
  BY <1>1, ConnectWords, TypeAllWords, EraseAllWords, AskWords
<1>2. ASSUME NEW s \in Slot, ClientRead(s) \/ Drop(s) \/ Serve(s) PROVE Words'
  BY <1>2, ReadAllWords, DropWords, AcceptWords, ServeSyncWords, ServeUpdateWords, RelayWords,
     ServeResetWords, ServeCommitWords, StoreCommitWords, PersistWords, HangupWords DEF Serve
<1>3. CASE RestEnd \/ UNCHANGED vars
  <2>1. UNCHANGED <<log, saved, server, sockets, replica, typed>>
    BY <1>3, RestEndEffect DEF vars, store
  <2> QED
    BY <2>1, StoreOnlyWords
<1> QED
  BY <1>1, <1>2, <1>3, RestBeginWords, RestartWords DEF Next
-----------------------------------------------------------------------------
(* What the documents are: no word twice, and the draft's base with edits. *)

Single(d) == \A x, y \in d.items \ d.dead : x[2] = y[2] => x = y

\* Commits l but those gone: d is the text of the commit base, edited.
Extends(l, gone, base, d) ==
    base \in (1..Len(l)) \ gone =>
        /\ l[base].text \subseteq {x[2] : x \in d.items}
        /\ \A x \in d.items \ d.dead : x[1] \in Client \/ x[2] \in l[base].text

Based(l, gone, base, d) == Single(d) /\ Extends(l, gone, base, d)

\* Unless Overlap or Faults.
Bases ==
    /\ Based(log, lost, saved.base, saved.doc)
    /\ \A r \in Room : Based(log, lost, rooms[r].base, rooms[r].doc)

LEMMA BasedStays ==
    ASSUME NEW l, NEW m, NEW gone, NEW away, NEW base \in 0..Len(l), NEW d, Based(l, gone, base, d),
           Len(l) \in Nat, \A i \in 1..Len(l) : m[i] = l[i], gone \subseteq away
    PROVE  Based(m, away, base, d)
<1> SUFFICES ASSUME base \in (1..Len(m)) \ away
             PROVE  /\ m[base].text \subseteq {x[2] : x \in d.items}
                    /\ \A x \in d.items \ d.dead : x[1] \in Client \/ x[2] \in m[base].text
  BY DEF Based, Extends
<1>1. base \in (1..Len(l)) \ gone /\ m[base] = l[base]
  OBVIOUS
<1> QED
  BY <1>1 DEF Based, Extends

LEMMA BasedSetText ==
    ASSUME NEW d \in Docs, NEW text \in SUBSET Word, NEW n \in 1..MaxWrites,
           NEW l, NEW gone, NEW base, l[base].text = text
    PROVE  Based(l, gone, base, SetText(d, text, n))
<1> DEFINE e == SetText(d, text, n)
<1>1. e.items = d.items \cup {<<n, w>> : w \in text} /\ e.dead = d.dead \cup d.items
  BY SetTextFacts
<1> HIDE DEF e
<1>2. \A x \in e.items \ e.dead : \E w \in text : x = <<n, w>>
  BY <1>1
<1>3. \A w \in text : <<n, w>> \in e.items /\ <<n, w>>[2] = w
  BY <1>1
<1>4. Single(e)
  BY <1>2 DEF Single
<1>5. Extends(l, gone, base, e)
  BY <1>2, <1>3 DEF Extends
<1> QED
  BY <1>4, <1>5 DEF Based, e

LEMMA BasedEmpty == ASSUME NEW l, NEW gone, Len(l) \in Nat PROVE Based(l, gone, 0, EmptyDoc)
BY DocFacts DEF Based, Single, Extends

\* A new commit of the document's own text.
LEMMA BasedCommit ==
    ASSUME NEW l, NEW gone, NEW base, NEW d, Single(d), l[base].text = Text(d)
    PROVE  Based(l, gone, base, d)
BY DEF Based, Extends, Text

\* An update brings only words that nobody else wrote.
LEMMA BasedMerge ==
    ASSUME Authors, Sources, saved.doc \in Docs, NEW change \in Docs, NEW c \in Client,
           \A x \in change.items : x \in saved.doc.items \/ Mine(c, x),
           NEW l, NEW gone, NEW base, Based(l, gone, base, saved.doc)
    PROVE  Based(l, gone, base, Merge(saved.doc, change))
<1> DEFINE e == Merge(saved.doc, change)
<1>1. e.items = saved.doc.items \cup change.items /\ e.dead = saved.doc.dead \cup change.dead
  BY MergeFacts
<1> HIDE DEF e
<1>2. \A x \in e.items \ e.dead :
         \/ x \in saved.doc.items \ saved.doc.dead
         \/ x \notin saved.doc.items /\ Mine(c, x)
  BY <1>1
<1>3. \A x, y : Mine(c, x) /\ x \notin saved.doc.items /\ y \in saved.doc.items => x[2] # y[2]
  <2> SUFFICES ASSUME NEW x, NEW y \in saved.doc.items, Mine(c, x), x \notin saved.doc.items, x[2] = y[2]
               PROVE  FALSE
    OBVIOUS
  <2>1. Owned(y)
    BY DEF Sources
  <2>2. Settled(y[2])
    BY <2>1, OwnedSettled
  <2> QED
    BY <2>2 DEF Settled
<1>4. \A x, y : Mine(c, x) /\ Mine(c, y) /\ x[2] = y[2] => x = y
  BY DEF Authors
<1>5. Single(e)
  BY <1>2, <1>3, <1>4 DEF Single, Based
<1>6. Extends(l, gone, base, e)
  <2> SUFFICES ASSUME base \in (1..Len(l)) \ gone
               PROVE  /\ l[base].text \subseteq {x[2] : x \in e.items}
                      /\ \A x \in e.items \ e.dead : x[1] \in Client \/ x[2] \in l[base].text
    BY DEF Extends
  <2>1. l[base].text \subseteq {x[2] : x \in saved.doc.items}
    BY DEF Based, Extends
  <2>2. \A x \in saved.doc.items \ saved.doc.dead : x[1] \in Client \/ x[2] \in l[base].text
    BY DEF Based, Extends
  <2>3. l[base].text \subseteq {x[2] : x \in e.items}
    BY <1>1, <2>1
  <2>4. \A x \in e.items \ e.dead : x[1] \in Client \/ x[2] \in l[base].text
    BY <1>2, <2>2 DEF Mine
  <2> QED
    BY <2>3, <2>4
<1> QED
  BY <1>5, <1>6 DEF Based, e

-----------------------------------------------------------------------------
LEMMA BasesStay ==
    ASSUME Bases, UNCHANGED <<log, lost, saved>>, \A q \in Room : SameContents(q)
    PROVE  Bases'
BY DEF Bases, SameContents

\* Commits come and go.
LEMMA LogBases ==
    ASSUME Typed, Bases, UNCHANGED saved, \A q \in Room : SameContents(q),
           \A i \in 1..Len(log) : log'[i] = log[i], lost \subseteq lost'
    PROVE  Bases'
<1>1. Len(log) \in Nat /\ saved.base \in 0..Len(log) /\ \A q \in Room : rooms[q].base \in 0..Len(log)
  BY ShownFacts, LiveTypes DEF Typed, StoreTypes
<1>2. Based(log', lost', saved.base, saved.doc)
  BY <1>1, BasedStays DEF Bases
<1>3. \A q \in Room : Based(log', lost', rooms[q].base, rooms[q].doc)
  BY <1>1, BasedStays DEF Bases
<1> QED
  BY <1>2, <1>3 DEF Bases, SameContents

LEMMA SeededBased ==
    ASSUME Typed, Drafts, Bases, writes < MaxWrites \/ Seeded = saved
    PROVE  Based(log, lost, Seeded.base, Seeded.doc)
<1>1. CASE Seeded = saved
  BY <1>1 DEF Bases
<1>2. CASE writes < MaxWrites
  <2>1. /\ saved.doc \in Docs /\ EmptyDoc \in Docs /\ log[Shown].text \in SUBSET Word
        /\ writes + 1 \in 1..MaxWrites
    BY <1>2, ShownFacts, DocFacts, WriteNumber DEF Typed, StoreTypes
  <2>2. \/ Seeded = saved
        \/ Seeded.base = Shown /\ Seeded.doc = SetText(EmptyDoc, log[Shown].text, writes + 1)
        \/ Seeded.base = Shown /\ Seeded.doc = SetText(saved.doc, log[Shown].text, writes + 1)
    BY <1>2, SeededFacts DEF Typed, RoomTypes
  <2> QED
    BY <1>1, <2>1, <2>2, BasedSetText
<1> QED
  BY <1>1, <1>2

LEMMA AcceptBases == ASSUME Typed, Hub, Drafts, Bases, NEW s \in Slot, Accept(s) PROVE Bases'
<1>1. UNCHANGED store
  BY AcceptEffect
<1>2. PICK r \in Room, fresh \in BOOLEAN : OnlyRoom(r) /\ Makes(s, r, fresh)
  BY AcceptEffect
<1>3. Based(log, lost, rooms'[r].base, rooms'[r].doc)
  <2>1. CASE fresh
    BY <1>2, <2>1, SeededBased DEF Makes
  <2>2. CASE ~fresh
    BY <1>2, <2>2 DEF Makes, SameContents, Bases
  <2> QED
    BY <2>1, <2>2
<1> QED
  BY <1>1, <1>2, <1>3 DEF Bases, OnlyRoom, store

LEMMA ServeResetBases == ASSUME Typed, Hub, Bases, NEW s \in Slot, ServeReset(s) PROVE Bases'
<1> DEFINE r == sockets[s].room
<1>1. /\ UNCHANGED store /\ r \in Room /\ OnlyRoom(r) /\ writes < MaxWrites
      /\ rooms'[r].doc = SetText(rooms[r].doc, log[Shown].text, writes + 1) /\ rooms'[r].base = Shown
  BY ServeResetEffect
<1>2. rooms[r].doc \in Docs /\ log[Shown].text \in SUBSET Word /\ writes + 1 \in 1..MaxWrites
  BY <1>1, LiveTypes, ShownFacts, WriteNumber DEF Typed
<1>3. Based(log, lost, rooms'[r].base, rooms'[r].doc)
  BY <1>1, <1>2, BasedSetText
<1> QED
  BY <1>1, <1>3 DEF Bases, OnlyRoom, store

LEMMA ServeUpdateBases ==
    ASSUME ~Faults, Typed, Hub, Drafts, Words, Bases, NEW s \in Slot, ServeUpdate(s)
    PROVE  Bases'
<1> DEFINE r == sockets[s].room
           change == Head(sockets[s].up).doc
<1>1. /\ UNCHANGED <<log, lost, busy>> /\ LoopFree /\ Serves(s) /\ r \in Room
      /\ sockets[s].up # <<>> /\ Head(sockets[s].up).type = "update" /\ change \in Docs
      /\ rooms'[r].doc = Merge(rooms[r].doc, change) /\ rooms'[r].base = rooms[r].base
      /\ registered' = registered /\ \A q \in Room \ {r} : SameContents(q)
  BY ServeUpdateEffect
<1>2. /\ r = registered /\ registered # NoRoom /\ rooms[r].doc = saved.doc
      /\ rooms[r].base = saved.base /\ saved.doc \in Docs
  BY <1>1, SendersServe, ServedIsStored, LoopFreeFacts
<1>3. saved'.doc = rooms'[r].doc /\ saved'.base = rooms'[r].base
  BY <1>1, <1>2, ServeUpdateDrafts, LoopFreeFacts DEF Drafts, Draft
<1>4. /\ sockets[s].client \in Client
      /\ \A x \in change.items : x \in saved.doc.items \/ Mine(sockets[s].client, x)
  <2>1. Head(sockets[s].up) \in Frames(sockets[s].up) /\ sockets[s].client \in Client
    BY <1>1, SocketTypes, QueueFacts
  <2> QED
    BY <1>1, <2>1 DEF Words, Sent
<1>5. Based(log, lost, saved.base, Merge(saved.doc, change))
  BY <1>1, <1>2, <1>4, BasedMerge DEF Bases, Words
<1> QED
  BY <1>1, <1>2, <1>3, <1>5 DEF Bases, SameContents

LEMMA StoreCommitBases == ASSUME Typed, Bases, NEW s \in Slot, StoreCommit(s) PROVE Bases'
<1> DEFINE r == sockets[s].room
           text == Text(rooms[r].doc)
<1>1. /\ UNCHANGED <<lost, saved>> /\ r \in Room
      /\ \/ /\ log' = Append(log, [text |-> text, parent |-> head]) /\ text \in SUBSET Word
            /\ OnlyRoom(r) /\ rooms'[r].doc = rooms[r].doc /\ rooms'[r].base = Len(log) + 1
         \/ UNCHANGED <<log, rooms>>
  BY StoreCommitEffect
<1>2. CASE UNCHANGED <<log, rooms>>
  BY <1>1, <1>2, SameRooms, BasesStay
<1>3. CASE /\ log' = Append(log, [text |-> text, parent |-> head]) /\ text \in SUBSET Word
           /\ OnlyRoom(r) /\ rooms'[r].doc = rooms[r].doc /\ rooms'[r].base = Len(log) + 1
  <2>1. /\ Len(log) \in Nat /\ log'[Len(log) + 1].text = text
        /\ \A i \in 1..Len(log) : log'[i] = log[i]
    BY <1>3, LogGrows DEF Typed
  <2>2. Single(rooms[r].doc)
    BY <1>1 DEF Bases, Based
  <2>3. Based(log', lost, rooms'[r].base, rooms'[r].doc)
    BY <1>3, <2>1, <2>2, BasedCommit
  <2>4. Based(log', lost, saved.base, saved.doc)
    BY <2>1, BasedStays DEF Bases, Typed, StoreTypes
  <2>5. \A q \in Room \ {r} : Based(log', lost, rooms[q].base, rooms[q].doc)
    BY <2>1, BasedStays, LiveTypes DEF Bases
  <2> QED
    BY <1>1, <1>3, <2>3, <2>4, <2>5 DEF Bases, OnlyRoom
<1> QED
  BY <1>1, <1>2, <1>3

LEMMA PersistBases == ASSUME Typed, Bases, NEW s \in Slot, PersistRoom(s) PROVE Bases'
<1> DEFINE r == sockets[s].room
<1>1. /\ UNCHANGED <<log, lost, rooms>> /\ r \in Room
      /\ saved' = [doc |-> rooms[r].doc, base |-> rooms[r].base]
  BY PersistEffect
<1>2. saved'.doc = rooms[r].doc /\ saved'.base = rooms[r].base
  BY <1>1
<1> QED
  BY <1>1, <1>2 DEF Bases

LEMMA RestartBases == ASSUME Typed, Bases, Restart PROVE Bases'
<1>1. Afresh' /\ UNCHANGED <<log, saved>> /\ lost \subseteq lost'
  BY RestartEffect
<1>2. Len(log) \in Nat /\ saved.base \in 0..Len(log)
  BY ShownFacts DEF Typed, StoreTypes
<1>3. Based(log, lost', saved.base, saved.doc)
  BY <1>1, <1>2, BasedStays DEF Bases
<1>4. Based(log, lost', 0, EmptyDoc)
  BY <1>2, BasedEmpty
<1> QED
  BY <1>1, <1>3, <1>4 DEF Bases, Afresh

LEMMA InitBases == Init => Bases
<1> SUFFICES ASSUME Init PROVE Bases
  OBVIOUS
<1>1. Afresh /\ Len(log) \in Nat
  BY InitTyped, ShownFacts DEF Typed
<1>2. saved.base = 0 /\ saved.doc = EmptyDoc
  BY DEF Init
<1>3. Based(log, lost, 0, EmptyDoc)
  BY <1>1, BasedEmpty
<1> QED
  BY <1>1, <1>2, <1>3 DEF Bases, Afresh

LEMMA StepBases == ~Faults /\ Typed /\ Hub /\ Drafts /\ Words /\ Bases /\ [Next]_vars => Bases'
<1> SUFFICES ASSUME ~Faults, Typed, Hub, Drafts, Words, Bases, [Next]_vars PROVE Bases'
  OBVIOUS
<1>1. CASE \E c \in Client : \/ Connect(c)
                             \/ \E w \in Word : Type(c, w)
                             \/ \E x \in replica[c].items : Erase(c, x)
                             \/ \E kind \in {"commit", "reset"} : Ask(c, kind)
  <2>1. UNCHANGED <<store, server>>
    BY <1>1 DEF Connect, Type, Erase, Ask
  <2> QED
    BY <2>1, SameRooms, BasesStay DEF store, server
<1>2. ASSUME NEW s \in Slot, ClientRead(s) \/ Drop(s) \/ Serve(s) PROVE Bases'
  <2>1. CASE ClientRead(s) \/ Drop(s) \/ ServeSync(s) \/ ServeCommit(s) \/ Relay(s) \/ Hangup(s)
    <3>1. UNCHANGED store /\ \A q \in Room : SameContents(q)
      BY <2>1, ClientReadEffect, DropEffect, ServeSyncEffect, ServeCommitEffect, RelayEffect,
         HangupEffect, SameRooms DEF server
    <3> QED
      BY <3>1, BasesStay DEF store
  <2> QED
    BY <1>2, <2>1, AcceptBases, ServeUpdateBases, ServeResetBases, StoreCommitBases, PersistBases
       DEF Serve
<1>3. CASE RestBegin \/ RestEnd \/ UNCHANGED vars
  <2>1. /\ UNCHANGED <<saved, server>> /\ \A i \in 1..Len(log) : log'[i] = log[i]
        /\ lost \subseteq lost'
    BY <1>3, RestBeginEffect, RestEndEffect DEF vars, store
  <2> QED
    BY <2>1, SameRooms, LogBases DEF server
<1> QED
  BY <1>1, <1>2, <1>3, RestartBases DEF Next

LEMMA AlwaysBases == ~Overlap /\ ~Faults => (Spec => [](Typed /\ Hub /\ Drafts /\ Words /\ Bases))
<1>1. Init => Typed /\ Hub /\ Drafts /\ Words /\ Bases
  BY InitTyped, HubAfresh, InitDrafts, InitWords, InitBases
<1>2. /\ ~Overlap /\ ~Faults /\ Typed /\ Hub /\ Drafts /\ Words /\ Bases /\ [Next]_vars
      => Typed' /\ Hub' /\ Drafts' /\ Words' /\ Bases'
  BY StepTyped, StepHub, StepDrafts, StepWords, StepBases
<1> SUFFICES ASSUME ~Overlap, ~Faults PROVE Spec => [](Typed /\ Hub /\ Drafts /\ Words /\ Bases)
  OBVIOUS
<1>3. (Typed /\ Hub /\ Drafts /\ Words /\ Bases) /\ [Next]_vars => (Typed /\ Hub /\ Drafts /\ Words /\ Bases)'
  BY <1>2
<1> QED
  BY <1>1, <1>3, PTL DEF Spec

\* No word is ever live twice in a draft: whatever is typed, relayed, reset, committed
\* or seeded again after a restart, the text is inserted once. (persist_room's docstring,
\* rooms.py:353)
THEOREM WordsAreSingle == ~Overlap /\ ~Faults => (Spec => []NoDuplicates)
<1>1. Bases => NoDuplicates
  BY DEF Bases, Based, Single, NoDuplicates
<1> QED
  BY <1>1, AlwaysBases, PTL

\* A draft is always its base commit with edits, so that committing it never silently
\* reverts the commit it builds on, also when the base was seeded, rebased or reset.
THEOREM DraftsBuildOnBase == ~Overlap /\ ~Faults => (Spec => []DraftExtendsBase)
<1>1. Bases => DraftExtendsBase
  BY DEF Bases, Based, Extends, DraftExtendsBase, Rows
<1> QED
  BY <1>1, AlwaysBases, PTL

-----------------------------------------------------------------------------
(* What is on its way.                                                     *)

\* The documents of the updates in a queue.
Carried(q) == {f.doc : f \in {f \in Frames(q) : f.type = "update"}}

\* A sync request is on its way, from somebody whose items d has.
Asked(q, d) == \E f \in Frames(q) : f.type = "sync" /\ f.items \subseteq d.items

\* What others are about to relay to s.
Due(s) == {sockets[t].frame : t \in {t \in Slot : s \in sockets[t].todo}}

\* d is in e, or on its way.
Reaches(d, e, docs) ==
    /\ \A x \in d.items : x \in e.items \/ \E g \in docs : x \in g.items
    /\ \A x \in d.dead : x \in e.dead \/ \E g \in docs : x \in g.dead

\* What one side has, the other has, gets, or is about to be asked for.
Agrees(mine, doc, up, down, due) ==
    /\ Asked(down, doc) \/ Reaches(mine, doc, Carried(up))
    /\ Asked(up, mine) \/ Reaches(doc, mine, Carried(down) \cup due)

Converges(s) ==
    sockets[s].open =>
        LET mine == replica[sockets[s].client] IN
        /\ \A d \in Carried(sockets[s].up) : Within(d, mine)
        /\ sockets[s].handler = "new" => Asked(sockets[s].up, mine)
        /\ Serves(s) => Agrees(mine, rooms[registered].doc, sockets[s].up, sockets[s].down, Due(s))

\* Unless Overlap, Faults or BrokenReset.
Converging == \A s \in Slot : Converges(s)

LEMMA TailCarried ==
    ASSUME NEW q \in Seq(Frame), q # <<>>
    PROVE  /\ Carried(Tail(q)) \subseteq Carried(q)
           /\ \A d \in Carried(q) : d \in Carried(Tail(q)) \/ (Head(q).type = "update" /\ d = Head(q).doc)
           /\ Head(q).type = "update" => Head(q).doc \in Carried(q)
<1>1. Frames(q) = Frames(Tail(q)) \cup {Head(q)}
  BY QueueFacts
<1> QED
  BY <1>1 DEF Carried

LEMMA AppendCarried ==
    ASSUME NEW q \in Seq(Frame), NEW f \in Frame
    PROVE  /\ Carried(q) \subseteq Carried(Append(q, f))
           /\ \A d \in Carried(Append(q, f)) : d \in Carried(q) \/ (f.type = "update" /\ d = f.doc)
           /\ f.type = "update" => f.doc \in Carried(Append(q, f))
<1>1. Frames(Append(q, f)) = Frames(q) \cup {f}
  BY QueueFacts
<1> QED
  BY <1>1 DEF Carried

LEMMA TailAsked ==
    ASSUME NEW q \in Seq(Frame), q # <<>>, NEW d, Asked(q, d)
    PROVE  Asked(Tail(q), d) \/ (Head(q).type = "sync" /\ Head(q).items \subseteq d.items)
<1>1. Frames(q) = Frames(Tail(q)) \cup {Head(q)}
  BY QueueFacts
<1> QED
  BY <1>1 DEF Asked

LEMMA AppendAsked ==
    ASSUME NEW q \in Seq(Frame), NEW f \in Frame, NEW d
    PROVE  /\ Asked(q, d) => Asked(Append(q, f), d)
           /\ f.type = "sync" /\ f.items \subseteq d.items => Asked(Append(q, f), d)
<1>1. Frames(Append(q, f)) = Frames(q) \cup {f}
  BY QueueFacts
<1> QED
  BY <1>1 DEF Asked

LEMMA AskedMore ==
    ASSUME NEW q, NEW d, NEW e, Within(d, e), Asked(q, d)
    PROVE  Asked(q, e)
BY DEF Within, Asked

LEMMA NothingAsked == ASSUME NEW d PROVE ~Asked(<<>>, d) /\ Carried(<<>>) = {}
BY NoFrames DEF Asked, Carried

\* Both sides and their queues grow, or hand on what they had.
LEMMA AgreesGrows ==
    ASSUME NEW mine, NEW doc, NEW up, NEW down, NEW due,
           NEW mine2, NEW doc2, NEW up2, NEW down2, NEW due2,
           Agrees(mine, doc, up, down, due), Within(mine, mine2), Within(doc, doc2),
           Asked(up, mine2) => Asked(up2, mine2), Asked(down, doc2) => Asked(down2, doc2),
           \A d \in Carried(up) : d \in Carried(up2) \/ Within(d, doc2),
           \A d \in Carried(down) \cup due : d \in Carried(down2) \cup due2 \/ Within(d, mine2),
           Reaches(mine2, Merge(mine, doc2), Carried(up2)),
           Reaches(doc2, Merge(doc, mine2), Carried(down2) \cup due2)
    PROVE  Agrees(mine2, doc2, up2, down2, due2)
<1>1. ASSUME Reaches(mine, doc, Carried(up)) PROVE Reaches(mine2, doc2, Carried(up2))
  BY <1>1 DEF Reaches, Within, Merge, Doc
<1>2. ASSUME Reaches(doc, mine, Carried(down) \cup due) PROVE Reaches(doc2, mine2, Carried(down2) \cup due2)
  BY <1>2 DEF Reaches, Within, Merge, Doc
<1>3. Asked(down2, doc2) \/ Reaches(mine2, doc2, Carried(up2))
  BY <1>1, AskedMore DEF Agrees
<1>4. Asked(up2, mine2) \/ Reaches(doc2, mine2, Carried(down2) \cup due2)
  BY <1>2, AskedMore DEF Agrees
<1> QED
  BY <1>3, <1>4 DEF Agrees

LEMMA ReachesOwn ==
    ASSUME NEW d, NEW e, NEW docs
    PROVE  Reaches(d, Merge(d, e), docs)
BY DEF Reaches, Merge, Doc

LEMMA WithinItself == ASSUME NEW d PROVE Within(d, d)
BY DEF Within

\* Nothing is taken off the list of who gets a frame.
LEMMA DueGrows ==
    ASSUME NEW t \in Slot,
           \A u \in Slot : t \in sockets[u].todo => t \in sockets'[u].todo /\ sockets'[u].frame = sockets[u].frame
    PROVE  \A d \in Due(t) : d \in Due(t)'
BY DEF Due

\* A socket that the step leaves alone, its browser too.
LEMMA OtherConverges ==
    ASSUME NEW t \in Slot, Converges(t), sockets'[t].open => sockets[t].open,
           sockets'[t].client = sockets[t].client, sockets'[t].handler = sockets[t].handler,
           sockets'[t].up = sockets[t].up, sockets'[t].down = sockets[t].down,
           replica'[sockets[t].client] = replica[sockets[t].client],
           Serves(t) => /\ Within(rooms[registered].doc, rooms'[registered'].doc)
                        /\ \A d \in Due(t) : d \in Due(t)'
                        /\ Reaches(rooms'[registered'].doc,
                                   Merge(rooms[registered].doc, replica[sockets[t].client]),
                                   Carried(sockets[t].down) \cup Due(t)')
    PROVE  Converges(t)'
<1> SUFFICES ASSUME sockets[t].open, Serves(t)
             PROVE  Agrees(replica[sockets[t].client], rooms'[registered'].doc, sockets[t].up,
                           sockets[t].down, Due(t)')
  BY DEF Converges, Serves
<1> DEFINE mine == replica[sockets[t].client]
           doc == rooms[registered].doc
           doc2 == rooms'[registered'].doc
           up == sockets[t].up
           down == sockets[t].down
           due == Due(t)
           due2 == Due(t)'
<1>1. Agrees(mine, doc, up, down, due)
  BY DEF Converges
<1>2. /\ Within(mine, mine) /\ Within(doc, doc2)
      /\ \A d \in Carried(down) \cup due : d \in Carried(down) \cup due2
      /\ Reaches(mine, Merge(mine, doc2), Carried(up))
      /\ Reaches(doc2, Merge(doc, mine), Carried(down) \cup due2)
  BY ReachesOwn, WithinItself
<1> HIDE DEF mine, doc, doc2, up, down, due, due2
<1>3. Agrees(mine, doc2, up, down, due2)
  BY <1>1, <1>2, AgreesGrows
<1> QED
  BY <1>3 DEF mine, doc2, up, down, due2

\* ... and the room's document as well.
LEMMA SameConverges ==
    ASSUME NEW t \in Slot, Converges(t), sockets'[t].open => sockets[t].open,
           sockets'[t].client = sockets[t].client, sockets'[t].handler = sockets[t].handler,
           sockets'[t].up = sockets[t].up, sockets'[t].down = sockets[t].down,
           replica'[sockets[t].client] = replica[sockets[t].client],
           Serves(t) => /\ rooms'[registered'].doc = rooms[registered].doc
                        /\ \A d \in Due(t) : d \in Due(t)'
    PROVE  Converges(t)'
BY OtherConverges, ReachesOwn, WithinItself

\* A socket that is closed.
LEMMA ClosedConverges == ASSUME NEW t \in Slot, ~sockets'[t].open PROVE Converges(t)'
BY DEF Converges

LEMMA OpenAlone ==
    ASSUME Typed, Hub, NEW s \in Slot, NEW t \in Slot, sockets[s].open, sockets[t].open, s # t
    PROVE  sockets[s].client # sockets[t].client
BY DEF Typed, Handling, Hub, Taken
-----------------------------------------------------------------------------
\* A socket whose browser or handler takes the step.
LEMMA SelfConverges ==
    ASSUME NEW t \in Slot, Converges(t), sockets[t].open, Still(t),
           Within(replica[sockets[t].client], replica'[sockets[t].client]),
           \A d \in Carried(sockets'[t].up) :
              d \in Carried(sockets[t].up) \/ Within(d, replica'[sockets[t].client]),
           sockets[t].handler = "new" /\ Asked(sockets[t].up, replica'[sockets[t].client]) =>
              Asked(sockets'[t].up, replica'[sockets[t].client]),
           Serves(t) => Agrees(replica'[sockets[t].client], rooms'[registered'].doc, sockets'[t].up,
                               sockets'[t].down, Due(t)')
    PROVE  Converges(t)'
<1> DEFINE mine == replica[sockets[t].client]
           mine2 == replica'[sockets[t].client]
<1>1. \A d \in Carried(sockets'[t].up) : Within(d, mine2)
  BY DEF Converges, Within
<1>2. sockets[t].handler = "new" => Asked(sockets'[t].up, mine2)
  BY AskedMore DEF Converges
<1> QED
  BY <1>1, <1>2 DEF Converges, Still, Serves

\* Sends(t) for all, and for those who send nothing.
LEMMA SendersGrow ==
    ASSUME NEW t \in Slot, \A u \in Slot : sockets[u].todo # {} => Sends(u)
    PROVE  \A d \in Due(t) : d \in Due(t)'
BY DueGrows DEF Sends

LEMMA ConnectConverging == ASSUME Typed, Converging, NEW c \in Client, Connect(c) PROVE Converging'
<1>1. UNCHANGED <<server, replica>>
  BY DEF Connect
<1>2. PICK s \in Slot :
        /\ sockets[s].handler = "free" /\ OnlySocket(s)
        /\ sockets'[s].client = c /\ sockets'[s].handler = "new"
        /\ sockets'[s].todo = {} /\ sockets'[s].up = <<Sync(replica[c].items)>>
  BY ConnectEffect
<1>3. sockets[s].todo = {}
  BY <1>2 DEF Typed, Handling, Serves
<1>4. \A u \in Slot : sockets[u].todo # {} => Sends(u)
  BY <1>2, <1>3 DEF Sends, OnlySocket
<1>5. Converges(s)'
  <2> DEFINE f == Sync(replica[c].items)
  <2>1. f \in Frame /\ f.type = "sync" /\ f.items = replica[c].items
    <3>1. replica[c].items \in SUBSET Item
      BY DEF Typed, PeerTypes, Docs
    <3> QED
      BY <3>1, FrameFacts
  <2> HIDE DEF f
  <2>2. Frames(<<f>>) = {f}
    BY DEF Frames
  <2>3. Asked(<<f>>, replica[c]) /\ Carried(<<f>>) = {}
    BY <2>1, <2>2 DEF Asked, Carried
  <2>4. sockets'[s].up = <<f>>
    BY <1>2 DEF f
  <2> QED
    BY <1>1, <1>2, <2>3, <2>4 DEF Converges, Serves
<1>6. ASSUME NEW t \in Slot, t # s PROVE Converges(t)'
  BY <1>1, <1>2, <1>4, <1>6, SendersGrow, SameConverges DEF Converging, OnlySocket, server
<1> QED
  BY <1>5, <1>6 DEF Converging

LEMMA EditConverging ==
    ASSUME Typed, Hub, Converging, NEW c \in Client, NEW change \in Docs, Edit(c, change),
           UNCHANGED <<store, server>>
    PROVE  Converging'
<1>1. /\ replica'[c] = Merge(replica[c], change) /\ \A d \in Client \ {c} : replica'[d] = replica[d]
      /\ \A t \in Slot : Still(t) /\ Sends(t) /\ sockets'[t].down = sockets[t].down
      /\ \/ ~Connected(c) /\ UNCHANGED sockets
         \/ /\ SocketOf(c) \in Slot /\ sockets[SocketOf(c)].client = c /\ sockets[SocketOf(c)].open
            /\ OnlySocket(SocketOf(c))
            /\ sockets'[SocketOf(c)].up = Append(sockets[SocketOf(c)].up, Update(change))
  BY EditEffect
<1>2. Within(replica[c], replica'[c]) /\ Within(change, replica'[c])
  <2>1. replica[c] \in Docs
    BY DEF Typed, PeerTypes
  <2> QED
    BY <1>1, <2>1, WithinFacts
<1>3. ASSUME NEW t \in Slot, sockets[t].client # c PROVE Converges(t)'
  <2>1. sockets'[t] = sockets[t] /\ replica'[sockets[t].client] = replica[sockets[t].client]
    BY <1>1, <1>3, SocketTypes DEF OnlySocket
  <2> QED
    BY <1>1, <2>1, SendersGrow, SameConverges DEF Converging, server
<1>4. ASSUME NEW t \in Slot, sockets[t].client = c, sockets[t].open PROVE Converges(t)'
  <2> DEFINE up == sockets[t].up
             mine == replica[c]
             mine2 == replica'[c]
             doc == rooms[registered].doc
  <2>1. t = SocketOf(c) /\ sockets'[t].up = Append(up, Update(change))
    <3>1. Connected(c)
      BY <1>4 DEF Connected
    <3> QED
      BY <1>1, <1>4, <3>1, OpenAlone
  <2>2. Update(change) \in Frame /\ Update(change).type = "update" /\ Update(change).doc = change /\ up \in Seq(Frame)
    BY FrameFacts, SocketTypes
  <2>3. /\ Carried(up) \subseteq Carried(sockets'[t].up) /\ change \in Carried(sockets'[t].up)
        /\ \A d \in Carried(sockets'[t].up) : d \in Carried(up) \/ d = change
        /\ Asked(up, mine2) => Asked(sockets'[t].up, mine2)
    BY <2>1, <2>2, AppendCarried, AppendAsked
  <2>4. ASSUME Serves(t) PROVE Agrees(mine2, doc, sockets'[t].up, sockets[t].down, Due(t)')
    <3>1. Agrees(mine, doc, up, sockets[t].down, Due(t))
      BY <1>4, <2>4 DEF Converging, Converges
    <3>2. \A d \in Due(t) : d \in Due(t)'
      BY <1>1, SendersGrow
    <3>3. Reaches(mine2, Merge(mine, doc), Carried(sockets'[t].up))
      <4>1. mine2 = Doc(mine.items \cup change.items, mine.dead \cup change.dead)
        BY <1>1 DEF Merge
      <4> QED
        BY <2>3, <4>1 DEF Reaches, Merge, Doc
    <3>4. Reaches(doc, Merge(doc, mine2), Carried(sockets[t].down) \cup Due(t)') /\ Within(doc, doc)
      BY ReachesOwn, WithinItself
    <3>5. /\ \A d \in Carried(up) : d \in Carried(sockets'[t].up)
          /\ \A d \in Carried(sockets[t].down) \cup Due(t) : d \in Carried(sockets[t].down) \cup Due(t)'
      BY <2>3, <3>2
    <3> HIDE DEF mine, mine2, doc, up
    <3> QED
      BY <1>2, <2>3, <3>1, <3>3, <3>4, <3>5, AgreesGrows DEF mine, mine2
  <2> QED
    BY <1>1, <1>2, <1>4, <2>3, <2>4, SelfConverges DEF Converging, server
<1>5. ASSUME NEW t \in Slot, ~sockets[t].open PROVE Converges(t)'
  BY <1>1, <1>5, ClosedConverges DEF Still
<1> QED
  BY <1>3, <1>4, <1>5 DEF Converging

LEMMA AskConverging ==
    ASSUME Typed, Converging, NEW c \in Client, NEW kind \in {"commit", "reset"}, Ask(c, kind)
    PROVE  Converging'
<1>1. /\ UNCHANGED <<server, replica>>
      /\ \A t \in Slot : Still(t) /\ Sends(t) /\ sockets'[t].down = sockets[t].down
  BY AskEffect
<1>2. PICK s \in Slot : OnlySocket(s) /\ sockets'[s].up = Append(sockets[s].up, Control(kind))
  BY AskEffect
<1>3. ASSUME NEW t \in Slot, t # s PROVE Converges(t)'
  BY <1>1, <1>2, <1>3, SendersGrow, SameConverges DEF Converging, OnlySocket, server
<1>4. ASSUME sockets[s].open PROVE Converges(s)'
  <2> DEFINE up == sockets[s].up
             up2 == sockets'[s].up
             down == sockets[s].down
             mine == replica[sockets[s].client]
             doc == rooms[registered].doc
  <2>1. Control(kind) \in Frame /\ Control(kind).type # "update" /\ up \in Seq(Frame)
    BY FrameFacts, SocketTypes
  <2>2. /\ Carried(up) \subseteq Carried(up2) /\ \A d \in Carried(up2) : d \in Carried(up)
        /\ Asked(up, mine) => Asked(up2, mine)
    BY <1>2, <2>1, AppendCarried, AppendAsked
  <2>3. ASSUME Serves(s) PROVE Agrees(mine, doc, up2, down, Due(s)')
    <3>1. Agrees(mine, doc, up, down, Due(s))
      BY <1>4, <2>3 DEF Converging, Converges
    <3>2. \A d \in Due(s) : d \in Due(s)'
      BY <1>1, SendersGrow
    <3>3. /\ Reaches(mine, Merge(mine, doc), Carried(up2)) /\ Within(mine, mine) /\ Within(doc, doc)
          /\ Reaches(doc, Merge(doc, mine), Carried(down) \cup Due(s)')
          /\ \A d \in Carried(up) : d \in Carried(up2)
          /\ \A d \in Carried(down) \cup Due(s) : d \in Carried(down) \cup Due(s)'
      BY <2>2, <3>2, ReachesOwn, WithinItself
    <3> HIDE DEF mine, doc, up, up2, down
    <3> QED
      BY <2>2, <3>1, <3>3, AgreesGrows
  <2> QED
    BY <1>1, <1>4, <2>2, <2>3, WithinItself, SelfConverges DEF Converging, server
<1>5. ~sockets[s].open => Converges(s)'
  BY <1>1, ClosedConverges DEF Still
<1> QED
  BY <1>3, <1>4, <1>5 DEF Converging
-----------------------------------------------------------------------------
\* A step of one socket, if the room stays.
LEMMA OneSocket ==
    ASSUME Typed, Hub, Converging, NEW s \in Slot, OnlySocket(s), \A t \in Slot : Sends(t),
           UNCHANGED server, \A d \in Client \ {sockets[s].client} : replica'[d] = replica[d],
           sockets[s].open \/ UNCHANGED replica, \A t \in Slot : Still(t),
           sockets[s].open => Converges(s)'
    PROVE  Converging'
<1>1. ASSUME NEW t \in Slot, t # s, sockets[s].open, sockets[t].open PROVE Converges(t)'
  <2>1. replica'[sockets[t].client] = replica[sockets[t].client]
    BY <1>1, OpenAlone, SocketTypes
  <2> QED
    BY <1>1, <2>1, SendersGrow, SameConverges DEF Converging, OnlySocket, server
<1>2. ASSUME NEW t \in Slot, ~sockets[t].open PROVE Converges(t)'
  BY <1>2, ClosedConverges DEF Still
<1>3. ASSUME ~sockets[s].open, UNCHANGED replica, NEW t \in Slot, t # s PROVE Converges(t)'
  BY <1>3, SendersGrow, SameConverges DEF Converging, OnlySocket, server
<1> QED
  BY <1>1, <1>2, <1>3 DEF Converging

\* What the server sends is in the document it serves.
LEMMA FlownServed ==
    ASSUME Typed, Hub, Drafts, NEW s \in Slot, Serves(s), NEW f \in Frames(sockets[s].down),
           f.type = "update"
    PROVE  Within(f.doc, rooms[registered].doc)
BY SendersServe DEF Drafts, Flown, Draft, Within

LEMMA ReadUpdateConverges ==
    ASSUME Typed, Hub, Drafts, Converging, NEW s \in Slot, ClientRead(s),
           Head(sockets[s].down).type = "update"
    PROVE  Converges(s)'
<1> DEFINE c == sockets[s].client
           frame == Head(sockets[s].down)
           up == sockets[s].up
           down == sockets[s].down
           mine == replica[c]
           mine2 == replica'[c]
           doc == rooms[registered].doc
<1>1. /\ UNCHANGED server /\ Still(s) /\ sockets[s].open /\ down # <<>> /\ \A t \in Slot : Sends(t)
      /\ sockets'[s].down = Tail(down) /\ sockets'[s].up = up
      /\ mine2 = Merge(mine, frame.doc)
  BY ClientReadEffect
<1>2. /\ c \in Client /\ mine \in Docs /\ down \in Seq(Frame) /\ frame \in Frames(down)
      /\ frame.doc \in Docs
  BY <1>1, SocketTypes, QueueFacts, FrameFacts DEF Typed, PeerTypes
<1>3. Within(mine, mine2) /\ Within(frame.doc, mine2)
  BY <1>1, <1>2, WithinFacts
<1>4. ASSUME Serves(s) PROVE Agrees(mine2, doc, up, Tail(down), Due(s)')
  <2>1. Agrees(mine, doc, up, down, Due(s))
    BY <1>1, <1>4 DEF Converging, Converges
  <2>2. \A d \in Due(s) : d \in Due(s)'
    BY <1>1, SendersGrow
  <2>3. Within(frame.doc, doc)
    BY <1>2, <1>4, FlownServed
  <2>4. Asked(down, doc) => Asked(Tail(down), doc)
    BY <1>1, <1>2, TailAsked
  <2>5. \A d \in Carried(down) \cup Due(s) : d \in Carried(Tail(down)) \cup Due(s)' \/ Within(d, mine2)
    BY <1>1, <1>2, <1>3, <2>2, TailCarried
  <2>6. Reaches(mine2, Merge(mine, doc), Carried(up))
    <3>1. mine2.items = mine.items \cup frame.doc.items /\ mine2.dead = mine.dead \cup frame.doc.dead
      BY <1>1, <1>2, MergeFacts
    <3> QED
      BY <2>3, <3>1 DEF Reaches, Merge, Doc, Within
  <2>7. /\ Reaches(doc, Merge(doc, mine2), Carried(Tail(down)) \cup Due(s)') /\ Within(doc, doc)
        /\ \A d \in Carried(up) : d \in Carried(up)
    BY ReachesOwn, WithinItself
  <2> HIDE DEF mine, mine2, doc, up, down, frame
  <2> QED
    BY <1>3, <2>1, <2>4, <2>5, <2>6, <2>7, AgreesGrows
<1> QED
  BY <1>1, <1>3, <1>4, SelfConverges DEF Converging, server

LEMMA ReadSyncConverges ==
    ASSUME Typed, Hub, Converging, NEW s \in Slot, ClientRead(s), Head(sockets[s].down).type = "sync"
    PROVE  Converges(s)'
<1> DEFINE c == sockets[s].client
           frame == Head(sockets[s].down)
           up == sockets[s].up
           up2 == sockets'[s].up
           down == sockets[s].down
           mine == replica[c]
           doc == rooms[registered].doc
           lacking == Lacking(s, frame)
<1>1. /\ UNCHANGED server /\ Still(s) /\ sockets[s].open /\ down # <<>> /\ \A t \in Slot : Sends(t)
      /\ sockets'[s].down = Tail(down) /\ replica' = replica
      /\ \/ lacking = EmptyDoc /\ up2 = up
         \/ up2 = Append(up, Update(lacking))
  BY ClientReadEffect
<1>2. c \in Client /\ mine \in Docs /\ down \in Seq(Frame) /\ up \in Seq(Frame)
  BY <1>1, SocketTypes DEF Typed, PeerTypes
<1>3. lacking \in Docs /\ lacking.items = mine.items \ frame.items /\ lacking.dead = mine.dead
  <2>1. mine.items \ frame.items \in SUBSET Item /\ mine.dead \in SUBSET Item
    BY <1>2 DEF Docs
  <2> QED
    BY <2>1, DocFacts DEF Lacking
<1>4. /\ \A d \in Carried(up) : d \in Carried(up2)
      /\ \A d \in Carried(up2) : d \in Carried(up) \/ d = lacking
      /\ \A d : Asked(up, d) => Asked(up2, d)
      /\ lacking = EmptyDoc \/ lacking \in Carried(up2)
  <2> HIDE DEF lacking
  <2>1. CASE lacking = EmptyDoc /\ up2 = up
    BY <2>1
  <2>2. CASE up2 = Append(up, Update(lacking))
    <3>1. Update(lacking) \in Frame /\ Update(lacking).type = "update" /\ Update(lacking).doc = lacking
      BY <1>3, FrameFacts
    <3> QED
      BY <1>2, <2>2, <3>1, AppendCarried, AppendAsked
  <2> QED
    BY <1>1, <2>1, <2>2
<1>5. /\ \A x \in mine.items : x \in frame.items \/ \E g \in Carried(up2) : x \in g.items
      /\ \A x \in mine.dead : \E g \in Carried(up2) : x \in g.dead
  <2> HIDE DEF lacking
  <2> QED
    BY <1>3, <1>4, DocFacts
<1>6. ASSUME Serves(s) PROVE Agrees(mine, doc, up2, Tail(down), Due(s)')
  <2>1. Agrees(mine, doc, up, down, Due(s))
    BY <1>1, <1>6 DEF Converging, Converges
  <2>2. \A d \in Due(s) : d \in Due(s)'
    BY <1>1, SendersGrow
  <2>3. Carried(down) \subseteq Carried(Tail(down))
    BY <1>1, <1>2, TailCarried
  <2>4. Asked(down, doc) => Asked(Tail(down), doc) \/ frame.items \subseteq doc.items
    BY <1>1, <1>2, TailAsked
  <2> HIDE DEF mine, doc, up, up2, down, frame, lacking
  <2>5. Asked(Tail(down), doc) \/ Reaches(mine, doc, Carried(up2))
    BY <1>4, <1>5, <2>1, <2>4 DEF Agrees, Reaches
  <2>6. Asked(up2, mine) \/ Reaches(doc, mine, Carried(Tail(down)) \cup Due(s)')
    BY <1>4, <2>1, <2>2, <2>3 DEF Agrees, Reaches
  <2> QED
    BY <2>5, <2>6 DEF Agrees
<1>7. Within(lacking, mine)
  BY <1>3 DEF Within
<1> QED
  BY <1>1, <1>4, <1>6, <1>7, WithinItself, SelfConverges DEF Converging, server

LEMMA ClientReadConverging ==
    ASSUME Typed, Hub, Drafts, Converging, NEW s \in Slot, ClientRead(s)
    PROVE  Converging'
<1>1. /\ UNCHANGED server /\ OnlySocket(s) /\ \A t \in Slot : Sends(t) /\ Still(t)
      /\ \A d \in Client \ {sockets[s].client} : replica'[d] = replica[d]
      /\ Head(sockets[s].down).type \in {"sync", "update"} /\ sockets[s].open
  BY ClientReadEffect
<1>2. Converges(s)'
  BY <1>1, ReadUpdateConverges, ReadSyncConverges
<1> QED
  BY <1>1, <1>2, OneSocket

LEMMA ServeSyncConverging ==
    ASSUME Typed, Hub, Converging, NEW s \in Slot, ServeSync(s)
    PROVE  Converging'
<1> DEFINE up == sockets[s].up
           down == sockets[s].down
           down2 == sockets'[s].down
           mine == replica[sockets[s].client]
           doc == rooms[registered].doc
           have == Head(up).items
           part == Doc(doc.items \ have, doc.dead)
<1>1. /\ UNCHANGED <<server, replica>> /\ OnlySocket(s) /\ \A t \in Slot : Sends(t) /\ Still(t)
      /\ Serves(s) /\ up # <<>> /\ Head(up).type = "sync" /\ sockets'[s].up = Tail(up)
      /\ down2 = Answer(s, Update(Doc(rooms[sockets[s].room].doc.items \ have,
                                      rooms[sockets[s].room].doc.dead)))
  BY ServeSyncEffect
<1>2. ASSUME sockets[s].open PROVE Converges(s)'
  <2>1. /\ sockets[s].room = registered /\ doc \in Docs /\ up \in Seq(Frame) /\ down \in Seq(Frame)
    BY <1>1, SendersServe, SocketTypes
  <2>2. part \in Docs /\ part.items = doc.items \ have /\ part.dead = doc.dead
    <3>1. doc.items \ have \in SUBSET Item /\ doc.dead \in SUBSET Item
      BY <2>1 DEF Docs
    <3> QED
      BY <3>1, DocFacts
  <2>3. down2 = Append(down, Update(part))
    BY <1>1, <1>2, <2>1 DEF Answer
  <2> HIDE DEF part
  <2>4. /\ \A d \in Carried(down) : d \in Carried(down2)
        /\ part \in Carried(down2) /\ \A d : Asked(down, d) => Asked(down2, d)
    <3>1. Update(part) \in Frame /\ Update(part).type = "update" /\ Update(part).doc = part
      BY <2>2, FrameFacts
    <3> QED
      BY <2>1, <2>3, <3>1, AppendCarried, AppendAsked
  <2>5. /\ Carried(Tail(up)) \subseteq Carried(up) /\ Carried(up) \subseteq Carried(Tail(up))
        /\ Asked(up, mine) => Asked(Tail(up), mine) \/ have \subseteq mine.items
    BY <1>1, <2>1, TailCarried, TailAsked
  <2>6. Agrees(mine, doc, Tail(up), down2, Due(s)')
    <3>1. Agrees(mine, doc, up, down, Due(s))
      BY <1>1, <1>2 DEF Converging, Converges
    <3>2. \A d \in Due(s) : d \in Due(s)'
      BY <1>1, SendersGrow
    <3> HIDE DEF mine, doc, up, down, down2, have
    <3>3. Asked(down2, doc) \/ Reaches(mine, doc, Carried(Tail(up)))
      BY <2>4, <2>5, <3>1 DEF Agrees, Reaches
    <3>4. Asked(Tail(up), mine) \/ Reaches(doc, mine, Carried(down2) \cup Due(s)')
      BY <2>2, <2>4, <2>5, <3>1, <3>2 DEF Agrees, Reaches
    <3> QED
      BY <3>3, <3>4 DEF Agrees
  <2> QED
    BY <1>1, <1>2, <2>5, <2>6, WithinItself, SelfConverges DEF Converging, server, Serves
<1> QED
  BY <1>1, <1>2, OneSocket

LEMMA ServeCommitConverging ==
    ASSUME Typed, Converging, Hub, NEW s \in Slot, ServeCommit(s)
    PROVE  Converging'
<1> DEFINE up == sockets[s].up
           down == sockets[s].down
           mine == replica[sockets[s].client]
           doc == rooms[registered].doc
<1>1. /\ UNCHANGED <<registered, rooms, replica>> /\ OnlySocket(s) /\ \A t \in Slot : Sends(t) /\ Still(t)
      /\ Serves(s) /\ up # <<>> /\ Head(up).type = "commit" /\ sockets'[s].up = Tail(up)
      /\ sockets'[s].down = down
  BY ServeCommitEffect
<1>2. ASSUME sockets[s].open PROVE Converges(s)'
  <2>1. /\ Carried(Tail(up)) \subseteq Carried(up) /\ \A d \in Carried(up) : d \in Carried(Tail(up))
        /\ Asked(up, mine) => Asked(Tail(up), mine)
    BY <1>1, SocketTypes, TailCarried, TailAsked
  <2>2. Agrees(mine, doc, up, down, Due(s))
    BY <1>1, <1>2 DEF Converging, Converges
  <2>3. /\ Reaches(mine, Merge(mine, doc), Carried(Tail(up))) /\ Within(mine, mine) /\ Within(doc, doc)
        /\ Reaches(doc, Merge(doc, mine), Carried(down) \cup Due(s)')
        /\ \A d \in Carried(down) \cup Due(s) : d \in Carried(down) \cup Due(s)'
    BY <1>1, SendersGrow, ReachesOwn, WithinItself
  <2> HIDE DEF mine, doc, up, down
  <2>4. Agrees(mine, doc, Tail(up), down, Due(s)')
    BY <2>1, <2>2, <2>3, AgreesGrows
  <2> QED
    BY <1>1, <1>2, <2>1, <2>4, WithinItself, SelfConverges DEF Converging, Serves, mine, doc, up, down
<1>3. ASSUME NEW t \in Slot, t # s PROVE Converges(t)'
  BY <1>1, <1>3, SendersGrow, SameConverges DEF Converging, OnlySocket
<1> QED
  BY <1>1, <1>2, <1>3, ClosedConverges DEF Converging, Still
-----------------------------------------------------------------------------
\* Whoever is connected to the room is listed in it.
LEMMA PeersListed ==
    ASSUME Typed, Hub, NEW s \in Slot, NEW t \in Slot, Serves(s), Serves(t), sockets[t].open, t # s
    PROVE  t \in Others(s)
<1>1. /\ sockets[t].client \in Client /\ sockets[s].room = registered
      /\ rooms[registered].clients[sockets[t].client] = t /\ t # NoSlot
  BY SocketTypes, RoomAssumption DEF Hub
<1> QED
  BY <1>1 DEF Others

\* The room of a serving socket keeps its document.
LEMMA ServedStays ==
    ASSUME Typed, Hub, NEW t \in Slot, Serves(t), registered' = registered,
           \A q \in Room : SameContents(q)
    PROVE  rooms'[registered'].doc = rooms[registered].doc
BY SendersServe DEF SameContents

\* No socket and no browser changes but s, which is closed.
LEMMA ClosingConverging ==
    ASSUME Typed, Hub, Converging, NEW s \in Slot, OnlySocket(s), ~sockets'[s].open,
           UNCHANGED replica, registered' = registered, \A q \in Room : SameContents(q),
           \A u \in Slot : sockets[u].todo # {} => Sends(u)
    PROVE  Converging'
<1>1. ASSUME NEW t \in Slot, t # s PROVE Converges(t)'
  BY <1>1, ServedStays, SendersGrow, SameConverges DEF Converging, OnlySocket
<1> QED
  BY <1>1, ClosedConverges DEF Converging

LEMMA DropConverging == ASSUME Typed, Hub, Converging, NEW s \in Slot, Drop(s) PROVE Converging'
<1>1. UNCHANGED <<server, replica>> /\ OnlySocket(s) /\ Sends(s) /\ ~sockets'[s].open
  BY DropEffect
<1>2. \A u \in Slot : Sends(u)
  BY <1>1 DEF OnlySocket, Sends
<1> QED
  BY <1>1, <1>2, SameRooms, ClosingConverging DEF server

LEMMA HangupConverging == ASSUME Typed, Hub, Converging, NEW s \in Slot, Hangup(s) PROVE Converging'
<1>1. /\ UNCHANGED replica /\ OnlySocket(s) /\ ~sockets'[s].open /\ sockets[s].todo = {}
      /\ registered' = registered /\ \A q \in Room : SameContents(q)
  BY HangupEffect, HangupHub, SameRooms DEF Freed
<1>2. \A u \in Slot : sockets[u].todo # {} => Sends(u)
  BY <1>1 DEF OnlySocket, Sends
<1> QED
  BY <1>1, <1>2, ClosingConverging

\* Sockets, browsers and what the rooms hold stay.
LEMMA ConvergingStays ==
    ASSUME Typed, Hub, Converging, UNCHANGED <<registered, sockets, replica>>,
           \A q \in Room : rooms'[q].doc = rooms[q].doc
    PROVE  Converging'
<1>1. \A u \in Slot : Sends(u)
  BY DEF Sends
<1>2. ASSUME NEW t \in Slot PROVE Converges(t)'
  <2>1. Serves(t) => rooms'[registered'].doc = rooms[registered].doc
    BY SendersServe
  <2> QED
    BY <1>1, <2>1, SendersGrow, SameConverges DEF Converging
<1> QED
  BY <1>2 DEF Converging

LEMMA StoreCommitConverging ==
    ASSUME Typed, Hub, Converging, NEW s \in Slot, StoreCommit(s)
    PROVE  Converging'
<1>1. /\ UNCHANGED <<registered, sockets, replica>>
      /\ \/ /\ OnlyRoom(sockets[s].room)
            /\ rooms'[sockets[s].room].doc = rooms[sockets[s].room].doc
         \/ UNCHANGED rooms
  BY StoreCommitEffect
<1>2. \A q \in Room : rooms'[q].doc = rooms[q].doc
  BY <1>1 DEF OnlyRoom
<1> QED
  BY <1>1, <1>2, ConvergingStays

LEMMA AcceptConverging == ASSUME Typed, Hub, Converging, NEW s \in Slot, Accept(s) PROVE Converging'
<1>1. /\ Typed' /\ UNCHANGED replica /\ sockets[s].handler = "new" /\ OnlySocket(s)
      /\ sockets'[s].client = sockets[s].client /\ sockets'[s].open = sockets[s].open
      /\ sockets'[s].handler = "serving" /\ sockets[s].todo = {} /\ sockets'[s].up = sockets[s].up
  BY AcceptEffect
<1>2. PICK r \in Room, fresh \in BOOLEAN :
        /\ registered' = r /\ Makes(s, r, fresh)
        /\ sockets'[s].down = Append(sockets[s].down, Sync(rooms'[r].doc.items))
  BY AcceptEffect
<1>3. \A u \in Slot : sockets[u].todo # {} => Sends(u)
  BY <1>1 DEF Sends, OnlySocket
<1>4. ASSUME NEW t \in Slot, t # s PROVE Converges(t)'
  <2>1. ASSUME Serves(t) PROVE rooms'[registered'].doc = rooms[registered].doc
    <3>1. ~fresh
      BY <1>2, <2>1, FreshMeansIdle DEF Makes
    <3> QED
      BY <1>2, <3>1 DEF Makes, SameContents
  <2> QED
    BY <1>1, <1>3, <1>4, <2>1, SendersGrow, SameConverges DEF Converging, OnlySocket
<1>5. ASSUME sockets[s].open PROVE Converges(s)'
  <2> DEFINE mine == replica[sockets[s].client]
             up == sockets[s].up
             down2 == sockets'[s].down
             doc2 == rooms'[r].doc
  <2>1. doc2.items \in SUBSET Item
    BY <1>1 DEF Typed, RoomTypes, Live, Docs
  <2>2. Sync(doc2.items) \in Frame /\ Sync(doc2.items).type = "sync" /\ Sync(doc2.items).items = doc2.items
    BY <2>1, FrameFacts
  <2>3. Asked(down2, doc2)
    BY <1>2, <2>2, SocketTypes, AppendAsked
  <2>4. Asked(up, mine) /\ \A d \in Carried(up) : Within(d, mine)
    BY <1>1, <1>5 DEF Converging, Converges
  <2>5. Agrees(mine, doc2, up, down2, Due(s)')
    BY <2>3, <2>4 DEF Agrees
  <2> QED
    BY <1>1, <1>2, <2>4, <2>5 DEF Converges
<1>6. ~sockets[s].open => Converges(s)'
  BY <1>1, ClosedConverges
<1> QED
  BY <1>4, <1>5, <1>6 DEF Converging

-----------------------------------------------------------------------------
LEMMA ServeUpdateConverging ==
    ASSUME ~Faults, Typed, Hub, Drafts, Converging, NEW s \in Slot, ServeUpdate(s)
    PROVE  Converging'
<1> DEFINE r == sockets[s].room
           change == Head(sockets[s].up).doc
           doc == rooms[registered].doc
           doc2 == rooms'[registered'].doc
<1>1. /\ UNCHANGED replica /\ Serves(s) /\ OnlySocket(s) /\ sockets[s].todo = {}
      /\ sockets[s].up # <<>> /\ Head(sockets[s].up).type = "update" /\ change \in Docs
      /\ rooms'[r].doc = Merge(rooms[r].doc, change) /\ registered' = registered
      /\ sockets'[s].up = Tail(sockets[s].up) /\ sockets'[s].down = sockets[s].down
      /\ \A t \in Slot : Still(t)
      /\ \/ change \in rooms[r].seen
         \/ sockets'[s].todo = Others(s) /\ (Others(s) # {} => sockets'[s].frame = change)
  BY ServeUpdateEffect
<1>2. r = registered /\ registered # NoRoom /\ doc \in Docs
  BY <1>1, SendersServe
<1>3. doc2 = Merge(doc, change) /\ doc2.items = doc.items \cup change.items /\ doc2.dead = doc.dead \cup change.dead
  BY <1>1, <1>2, MergeFacts
<1>4. change \in rooms[r].seen => Within(change, doc)
  BY <1>2 DEF Drafts, Draft
<1>5. Within(doc, doc2) /\ Within(change, doc2)
  BY <1>3 DEF Within
<1>6. \A u \in Slot : sockets[u].todo # {} => Sends(u)
  BY <1>1 DEF Sends, OnlySocket
<1>7. ASSUME NEW t \in Slot, t # s, sockets[t].open PROVE Converges(t)'
  <2> DEFINE mine == replica[sockets[t].client]
             down == sockets[t].down
  <2>1. ASSUME Serves(t) PROVE Reaches(doc2, Merge(doc, mine), Carried(down) \cup Due(t)')
    <3>1. CASE change \in rooms[r].seen
      BY <1>3, <1>4, <3>1 DEF Reaches, Merge, Doc, Within
    <3>2. CASE sockets'[s].todo = Others(s) /\ (Others(s) # {} => sockets'[s].frame = change)
      <4>1. t \in Others(s)
        BY <1>1, <1>7, <2>1, PeersListed
      <4>2. change \in Due(t)'
        BY <3>2, <4>1 DEF Due
      <4> QED
        BY <1>3, <4>2 DEF Reaches, Merge, Doc
    <3> QED
      BY <1>1, <3>1, <3>2
  <2> QED
    BY <1>1, <1>5, <1>6, <1>7, <2>1, SendersGrow, OtherConverges DEF Converging, OnlySocket
<1>8. ASSUME sockets[s].open PROVE Converges(s)'
  <2> DEFINE up == sockets[s].up
             down == sockets[s].down
             mine == replica[sockets[s].client]
  <2>1. up \in Seq(Frame)
    BY SocketTypes
  <2>2. /\ Carried(Tail(up)) \subseteq Carried(up) /\ change \in Carried(up)
        /\ \A d \in Carried(up) : d \in Carried(Tail(up)) \/ Within(d, doc2)
        /\ Asked(up, mine) => Asked(Tail(up), mine)
    BY <1>1, <1>5, <2>1, TailCarried, TailAsked
  <2>3. Within(change, mine) /\ Agrees(mine, doc, up, down, Due(s))
    BY <1>1, <1>8, <2>2 DEF Converging, Converges
  <2>4. /\ Reaches(mine, Merge(mine, doc2), Carried(Tail(up))) /\ Within(mine, mine)
        /\ \A d \in Carried(down) \cup Due(s) : d \in Carried(down) \cup Due(s)'
    BY <1>6, SendersGrow, ReachesOwn, WithinItself
  <2>5. Reaches(doc2, Merge(doc, mine), Carried(down) \cup Due(s)')
    BY <1>3, <2>3 DEF Reaches, Merge, Doc, Within
  <2> HIDE DEF doc, doc2, change, up, down, mine
  <2>6. Agrees(mine, doc2, Tail(up), down, Due(s)')
    BY <1>5, <2>2, <2>3, <2>4, <2>5, AgreesGrows
  <2> QED
    BY <1>1, <1>8, <2>2, <2>6, WithinItself, SelfConverges
       DEF Converging, Serves, doc2, up, down, mine
<1>9. ASSUME NEW t \in Slot, ~sockets[t].open PROVE Converges(t)'
  BY <1>1, <1>9, ClosedConverges DEF Still
<1> QED
  BY <1>7, <1>8, <1>9 DEF Converging

LEMMA ServeResetConverging ==
    ASSUME Typed, Hub, Converging, NEW s \in Slot, ServeReset(s)
    PROVE  Converging'
<1> DEFINE r == sockets[s].room
           doc == rooms[registered].doc
           doc2 == rooms'[registered'].doc
<1>1. /\ UNCHANGED <<registered, replica>> /\ Serves(s) /\ OnlySocket(s) /\ sockets[s].todo = {}
      /\ sockets[s].up # <<>> /\ Head(sockets[s].up).type = "reset" /\ writes < MaxWrites
      /\ rooms'[r].doc = SetText(rooms[r].doc, log[Shown].text, writes + 1)
      /\ sockets'[s].up = Tail(sockets[s].up) /\ sockets'[s].down = sockets[s].down
      /\ sockets'[s].frame = rooms'[r].doc /\ sockets'[s].todo = Others(s) \cup {s}
      /\ \A t \in Slot : Still(t)
  BY ServeResetEffect
<1>2. r = registered /\ doc \in Docs
  BY <1>1, SendersServe
<1>3. Within(doc, doc2)
  <2>1. log[Shown].text \in SUBSET Word /\ writes + 1 \in 1..MaxWrites
    BY <1>1, ShownFacts, WriteNumber DEF Typed
  <2> QED
    BY <1>1, <1>2, <2>1, SetTextWithin
<1>4. \A u \in Slot : sockets[u].todo # {} => Sends(u)
  BY <1>1 DEF Sends, OnlySocket
<1>5. \A t \in Slot : Serves(t) /\ sockets[t].open => doc2 \in Due(t)'
  <2>1. \A t \in Slot : Serves(t) /\ sockets[t].open => t \in sockets'[s].todo
    BY <1>1, PeersListed
  <2>2. sockets'[s].frame = doc2
    BY <1>1, <1>2
  <2> QED
    BY <2>1, <2>2 DEF Due
<1>6. \A t \in Slot : \A e, docs : Serves(t) /\ sockets[t].open => Reaches(doc2, e, docs \cup Due(t)')
  BY <1>5 DEF Reaches
<1>7. ASSUME NEW t \in Slot, t # s, sockets[t].open PROVE Converges(t)'
  BY <1>1, <1>3, <1>4, <1>6, <1>7, SendersGrow, OtherConverges DEF Converging, OnlySocket
<1>8. ASSUME sockets[s].open PROVE Converges(s)'
  <2> DEFINE up == sockets[s].up
             down == sockets[s].down
             mine == replica[sockets[s].client]
  <2>1. up \in Seq(Frame)
    BY SocketTypes
  <2>2. /\ Carried(Tail(up)) \subseteq Carried(up)
        /\ \A d \in Carried(up) : d \in Carried(Tail(up))
        /\ Asked(up, mine) => Asked(Tail(up), mine)
    BY <1>1, <2>1, TailCarried, TailAsked
  <2>3. Agrees(mine, doc, up, down, Due(s))
    BY <1>1, <1>8 DEF Converging, Converges
  <2>4. /\ Reaches(mine, Merge(mine, doc2), Carried(Tail(up))) /\ Within(mine, mine)
        /\ \A d \in Carried(down) \cup Due(s) : d \in Carried(down) \cup Due(s)'
    BY <1>4, SendersGrow, ReachesOwn, WithinItself
  <2>5. Reaches(doc2, Merge(doc, mine), Carried(down) \cup Due(s)')
    BY <1>1, <1>6, <1>8
  <2> HIDE DEF doc, doc2, up, down, mine
  <2>6. Agrees(mine, doc2, Tail(up), down, Due(s)')
    BY <1>3, <2>2, <2>3, <2>4, <2>5, AgreesGrows
  <2> QED
    BY <1>1, <1>8, <2>2, <2>6, WithinItself, SelfConverges
       DEF Converging, Serves, doc2, up, down, mine
<1>9. ASSUME NEW t \in Slot, ~sockets[t].open PROVE Converges(t)'
  BY <1>1, <1>9, ClosedConverges DEF Still
<1> QED
  BY <1>7, <1>8, <1>9 DEF Converging

LEMMA RelayConverging ==
    ASSUME ~BrokenReset, Typed, Hub, Converging, NEW s \in Slot, Relay(s)
    PROVE  Converging'
<1>1. /\ UNCHANGED replica /\ registered' = registered /\ \A q \in Room : SameContents(q) /\ Serves(s)
  BY RelayEffect, RelayHub
<1>2. PICK p \in sockets[s].todo :
        /\ SendsOn(s, p)
        /\ sockets'[p].down = Answer(p, Update(sockets[s].frame)) \/ ~sockets[p].open
  BY RelayEffect
<1>3. p \in Slot /\ \A t \in Slot : Still(t) /\ sockets'[t].up = sockets[t].up
  BY <1>2, SocketTypes DEF SendsOn
<1>4. ASSUME NEW t \in Slot, t # p PROVE Converges(t)'
  <2>1. \A d \in Due(t) : d \in Due(t)'
    <3>1. \A u \in Slot : t \in sockets[u].todo => t \in sockets'[u].todo /\ sockets'[u].frame = sockets[u].frame
      BY <1>2, <1>4 DEF SendsOn, Sends
    <3> QED
      BY <3>1, DueGrows
  <2>2. sockets'[t].down = sockets[t].down
    BY <1>2, <1>4 DEF SendsOn
  <2> QED
    BY <1>1, <1>3, <2>1, <2>2, ServedStays, SameConverges DEF Converging, Still
<1>5. ASSUME sockets[p].open PROVE Converges(p)'
  <2> DEFINE up == sockets[p].up
             down == sockets[p].down
             down2 == sockets'[p].down
             mine == replica[sockets[p].client]
             doc == rooms[registered].doc
             frame == sockets[s].frame
  <2>1. Update(frame) \in Frame /\ Update(frame).type = "update" /\ Update(frame).doc = frame /\ down \in Seq(Frame)
    BY <1>3, FrameFacts, SocketTypes
  <2>2. down2 = Append(down, Update(frame))
    BY <1>2, <1>5 DEF Answer
  <2>3. /\ \A d \in Carried(down) : d \in Carried(down2)
        /\ frame \in Carried(down2) /\ (Asked(down, doc) => Asked(down2, doc))
    BY <2>1, <2>2, AppendCarried, AppendAsked
  <2>4. \A d \in Due(p) : d \in Due(p)' \/ d = frame
    <3>1. \A u \in Slot \ {s} : sockets'[u].todo = sockets[u].todo /\ sockets'[u].frame = sockets[u].frame
      BY <1>2 DEF SendsOn, Sends
    <3> QED
      BY <3>1 DEF Due
  <2>5. ASSUME Serves(p) PROVE Agrees(mine, doc, up, down2, Due(p)')
    <3>1. Agrees(mine, doc, up, down, Due(p))
      BY <1>3, <1>5, <2>5 DEF Converging, Converges
    <3>2. \A d \in Carried(down) \cup Due(p) : d \in Carried(down2) \cup Due(p)'
      BY <2>3, <2>4
    <3>3. /\ Reaches(mine, Merge(mine, doc), Carried(up)) /\ Within(mine, mine) /\ Within(doc, doc)
          /\ Reaches(doc, Merge(doc, mine), Carried(down2) \cup Due(p)')
      BY ReachesOwn, WithinItself
    <3> HIDE DEF up, down, down2, mine, doc, frame
    <3> QED
      BY <2>3, <3>1, <3>2, <3>3, AgreesGrows
  <2>6. Serves(p) => rooms'[registered'].doc = doc
    BY <1>1, <1>3, ServedStays
  <2> QED
    BY <1>1, <1>3, <1>5, <2>5, <2>6, WithinItself, SelfConverges DEF Converging
<1>6. ~sockets[p].open => Converges(p)'
  BY <1>3, ClosedConverges DEF Still
<1> QED
  BY <1>4, <1>5, <1>6 DEF Converging

-----------------------------------------------------------------------------
LEMMA AfreshConverging == ASSUME Afresh PROVE Converging
BY DEF Afresh, Converging, Converges

LEMMA RestartConverging == ASSUME Typed, Restart PROVE Converging'
<1>1. \A t \in Slot : ~sockets'[t].open
  BY RestartEffect DEF Afresh
<1> QED
  BY <1>1, ClosedConverges DEF Converging

LEMMA StepConverging ==
    ~Faults /\ ~BrokenReset /\ Typed /\ Hub /\ Drafts /\ Converging /\ [Next]_vars => Converging'
<1> SUFFICES ASSUME ~Faults, ~BrokenReset, Typed, Hub, Drafts, Converging, [Next]_vars
             PROVE  Converging'
  OBVIOUS
<1>1. CASE \E c \in Client : \/ Connect(c)
                             \/ \E w \in Word : Type(c, w)
                             \/ \E x \in replica[c].items : Erase(c, x)
                             \/ \E kind \in {"commit", "reset"} : Ask(c, kind)
  <2>1. ASSUME NEW c \in Client, NEW w \in Word, Type(c, w) PROVE Converging'
    BY <2>1, TypeChange, EditConverging
  <2>2. ASSUME NEW c \in Client, NEW x \in replica[c].items, Erase(c, x) PROVE Converging'
    BY <2>2, EraseChange, EditConverging
  <2> QED
    BY <1>1, <2>1, <2>2, ConnectConverging, AskConverging
<1>2. ASSUME NEW s \in Slot, ClientRead(s) \/ Drop(s) \/ Serve(s) PROVE Converging'
  <2>1. CASE PersistRoom(s)
    BY <2>1, PersistEffect, ConvergingStays
  <2> QED
    BY <1>2, <2>1, ClientReadConverging, DropConverging, AcceptConverging, ServeSyncConverging,
       ServeUpdateConverging, RelayConverging, ServeResetConverging, ServeCommitConverging,
       StoreCommitConverging, HangupConverging DEF Serve
<1>3. CASE RestBegin \/ RestEnd \/ UNCHANGED vars
  <2>1. UNCHANGED <<server, sockets, replica>>
    BY <1>3, RestBeginEffect, RestEndEffect DEF vars
  <2> QED
    BY <2>1, ConvergingStays DEF server
<1> QED
  BY <1>1, <1>2, <1>3, RestartConverging DEF Next

\* Nothing on its way any more, and both sides have the same.
LEMMA QuietConverged == ASSUME Typed, Hub, Converging PROVE QuietMeansConverged
<1> SUFFICES ASSUME Quiet, NEW s \in Slot, sockets[s].open
             PROVE  replica[sockets[s].client] = rooms[sockets[s].room].doc
  BY DEF QuietMeansConverged
<1> DEFINE mine == replica[sockets[s].client]
           doc == rooms[registered].doc
<1>1. Serves(s) /\ sockets[s].up = <<>> /\ sockets[s].down = <<>> /\ \A t \in Slot : sockets[t].todo = {}
  BY SocketTypes DEF Quiet, Serves, Handlers
<1>2. Agrees(mine, doc, <<>>, <<>>, Due(s))
  BY <1>1 DEF Converging, Converges
<1>3. Due(s) = {}
  BY <1>1 DEF Due
<1>4. Reaches(mine, doc, {}) /\ Reaches(doc, mine, {})
  <2> HIDE DEF mine, doc
  <2> QED
    BY <1>2, <1>3, NothingAsked DEF Agrees
<1>5. sockets[s].room = registered /\ mine \in Docs /\ doc \in Docs
  BY <1>1, SendersServe, SocketTypes DEF Typed, PeerTypes
<1>6. mine.items = doc.items /\ mine.dead = doc.dead
  BY <1>4, <1>5 DEF Reaches, Docs
<1> QED
  BY <1>5, <1>6 DEF Docs

\* When nothing is under way any more, every connected browser shows exactly its room's
\* document, for any number of browsers, of words and of reconnects and restarts: the two
\* sync requests and the relays of realtime/ws.py lose no edit and no deletion.
THEOREM ReplicasConverge ==
    ~Overlap /\ ~Faults /\ ~BrokenReset => (Spec => []QuietMeansConverged)
<1>1. Init => Typed /\ Hub /\ Drafts /\ Converging
  BY InitTyped, HubAfresh, InitDrafts, AfreshConverging
<1>2. /\ ~Overlap /\ ~Faults /\ ~BrokenReset /\ Typed /\ Hub /\ Drafts /\ Converging /\ [Next]_vars
      => Typed' /\ Hub' /\ Drafts' /\ Converging'
  BY StepTyped, StepHub, StepDrafts, StepConverging
<1>3. Typed /\ Hub /\ Converging => QuietMeansConverged
  BY QuietConverged
<1> SUFFICES ASSUME ~Overlap, ~Faults, ~BrokenReset PROVE Spec => []QuietMeansConverged
  OBVIOUS
<1>4. (Typed /\ Hub /\ Drafts /\ Converging) /\ [Next]_vars => (Typed /\ Hub /\ Drafts /\ Converging)'
  BY <1>2
<1> QED
  BY <1>1, <1>3, <1>4, PTL DEF Spec

-----------------------------------------------------------------------------
=============================================================================
