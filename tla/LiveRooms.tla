----------------------------- MODULE LiveRooms -----------------------------
(***************************************************************************)
(* Live editing of one (artifact, branch): core/collaboration/rooms.py and *)
(* realtime/ws.py with the browsers' CollabClient as its peers.            *)
(*                                                                         *)
(* Websocket handlers are coroutines of one event loop: a handler runs     *)
(* from one await to the next, so an action here is such a stretch.  A     *)
(* store transaction blocks the whole loop while a REST thread has the     *)
(* store's lock; `busy` is the handler the loop is blocked in.             *)
(*                                                                         *)
(* A CRDT document is abstracted to what the properties need: items that   *)
(* were ever inserted, each with who inserted it and its word, and those   *)
(* that were deleted.  Applying an update is a union; a text is the set of *)
(* live words (NoDuplicates says no word is live twice, so a set is exact).*)
(***************************************************************************)
EXTENDS Naturals, Sequences, FiniteSets

CONSTANTS
    Client,       \* browsers; each is one user
    Erasers,      \* browsers that also delete text
    Slot, NoSlot, \* server-side websockets
    Room, NoRoom, \* LiveRoom objects
    Word,         \* what clients and REST commits write, each word once
    InitialText,  \* text of the first commit
    Overlap,      \* may a browser reconnect before the server forgot its old socket?
    Rollbacks,    \* may a REST transaction roll back after it moved the head?
    BrokenReset,  \* may the requester's connection break while its reset is sent out?
    Faults,       \* may a write to crdt_ops / crdt_documents fail?
    MaxCommits,   \* bound on commits
    MaxWrites,    \* bound on set_text calls
    MaxQueue      \* bound on frames a socket buffers each way

ASSUME RoomAssumption ==
    /\ NoSlot \notin Slot /\ NoRoom \notin Room
    /\ Client # {} /\ Client \cap Nat = {}
    /\ InitialText \subseteq Word /\ Erasers \subseteq Client
    /\ {Overlap, Rollbacks, BrokenReset, Faults} \subseteq BOOLEAN
    /\ {MaxCommits, MaxWrites, MaxQueue} \subseteq Nat

VARIABLES
    log,         \* commits of the branch, by number: text and parent
    head,        \* the branch head
    tentative,   \* a REST commit inside its open transaction, or 0
    lost,        \* commits whose transaction never committed
    saved,       \* the crdt_documents row: document and base_commit (0: no row)
    registered,  \* the hub's room
    rooms,       \* LiveRoom: doc, base_commit, clients by user, op log
    sockets,     \* per websocket: its two queues and its handler
    replica,     \* each browser's document
    typed,       \* words used so far
    writes,      \* number of set_text calls so far
    lock,        \* the handler that holds the artifact lock
    busy         \* the handler that blocks the event loop, and where

store == <<log, head, tentative, lost, saved>>
server == <<registered, rooms, lock, busy, writes>>
vars == <<store, server, sockets, replica, typed>>

Doc(items, dead) == [items |-> items, dead |-> dead]
EmptyDoc == Doc({}, {})
Merge(d, e) == Doc(d.items \cup e.items, d.dead \cup e.dead)
Text(d) == {x[2] : x \in d.items \ d.dead}

\* set_text: clear, then insert the value; number n is the new items' origin.
SetText(d, text, n) == Doc(d.items \cup {<<n, w>> : w \in text}, d.dead \cup d.items)

Nobody == [c \in Client |-> NoSlot]
NewRoom == [doc |-> EmptyDoc, base |-> 0, clients |-> Nobody, seen |-> {}]
Closed == [client |-> CHOOSE c \in Client : TRUE, room |-> NoRoom, open |-> FALSE,
           handler |-> "free", up |-> <<>>, down |-> <<>>, todo |-> {}, frame |-> EmptyDoc]

Sync(items) == [type |-> "sync", items |-> items]
Update(d) == [type |-> "update", doc |-> d]
Control(kind) == [type |-> kind]

\* head() sees the row as the shared connection shows it.
Shown == IF tentative # 0 THEN tentative ELSE head
Rows == (1..Len(log)) \ lost

Connected(c) == \E s \in Slot : sockets[s].client = c /\ sockets[s].open
SocketOf(c) == CHOOSE s \in Slot : sockets[s].client = c /\ sockets[s].open
Listed(s) == \E h \in Slot : s \in sockets[h].todo
Unused(r) == r # registered /\ \A s \in Slot : sockets[s].room # r

\* cleanup_idle_rooms: no user has been listed for the TTL, minutes in which any
\* handler whose connection is closed has long ended.
Idle(r, memory) ==
    r # NoRoom /\ memory[r].clients = Nobody /\ \A s \in Slot : sockets[s].room = r => sockets[s].open

-----------------------------------------------------------------------------
Init ==
    /\ log = <<[text |-> InitialText, parent |-> 0]>>
    /\ head = 1 /\ tentative = 0 /\ lost = {}
    /\ saved = [doc |-> EmptyDoc, base |-> 0]
    /\ registered = NoRoom
    /\ rooms = [r \in Room |-> NewRoom]
    /\ sockets = [s \in Slot |-> Closed]
    /\ replica = [c \in Client |-> EmptyDoc]
    /\ typed = InitialText
    /\ writes = 0 /\ lock = NoSlot
    /\ busy = [slot |-> NoSlot, at |-> "free"]

-----------------------------------------------------------------------------
(* The browser: CollabClient.                                              *)

\* A (re)connected client sends sync step 1.
Connect(c) ==
    /\ ~Connected(c)
    /\ Overlap \/ \A s \in Slot : sockets[s].client = c =>
                      sockets[s].handler = "free" /\ ~Listed(s)
    /\ \E s \in Slot :
          /\ sockets[s].handler = "free" /\ ~Listed(s)
          /\ sockets' = [sockets EXCEPT ![s] =
                [Closed EXCEPT !.client = c, !.open = TRUE, !.handler = "new",
                               !.up = <<Sync(replica[c].items)>>]]
    /\ UNCHANGED <<store, server, replica, typed>>

\* Local changes are sent if the socket is open, else kept for the next sync.
Edit(c, change) ==
    /\ replica' = [replica EXCEPT ![c] = Merge(@, change)]
    /\ IF Connected(c)
       THEN /\ Len(sockets[SocketOf(c)].up) < MaxQueue
            /\ sockets' = [sockets EXCEPT ![SocketOf(c)].up = Append(@, Update(change))]
       ELSE UNCHANGED sockets

Type(c, w) ==
    /\ w \notin typed
    /\ Edit(c, Doc({<<c, w>>}, {}))
    /\ typed' = typed \cup {w}
    /\ UNCHANGED <<store, server>>

Erase(c, x) ==
    /\ c \in Erasers /\ x \in replica[c].items \ replica[c].dead
    /\ Edit(c, Doc({}, {x}))
    /\ UNCHANGED <<store, server, typed>>

\* requestCommit and resetDraft.
Ask(c, kind) ==
    /\ Connected(c)
    /\ Len(sockets[SocketOf(c)].up) < MaxQueue
    /\ IF kind = "reset" THEN writes < MaxWrites ELSE Len(log) < MaxCommits
    /\ sockets' = [sockets EXCEPT ![SocketOf(c)].up = Append(@, Control(kind))]
    /\ UNCHANGED <<store, server, replica, typed>>

\* Sync step 1 of the server is answered with what it lacks; updates apply.
ClientRead(s) ==
    /\ sockets[s].open /\ sockets[s].down # <<>>
    /\ LET c == sockets[s].client
           frame == Head(sockets[s].down)
           lacking == Doc(replica[c].items \ frame.items, replica[c].dead) IN
       \/ /\ frame.type = "sync"
          /\ sockets' = [sockets EXCEPT
                ![s].down = Tail(@),
                ![s].up = IF lacking = EmptyDoc THEN @ ELSE Append(@, Update(lacking))]
          /\ UNCHANGED replica
       \/ /\ frame.type = "update"
          /\ sockets' = [sockets EXCEPT ![s].down = Tail(@)]
          /\ replica' = [replica EXCEPT ![c] = Merge(@, frame.doc)]
    /\ UNCHANGED <<store, server, typed>>

\* The connection breaks or the tab closes; frames in flight may be lost.  The
\* server learns of it later (Hangup).
Drop(s) ==
    /\ sockets[s].open
    /\ \E up \in {sockets[s].up, <<>>} :
          sockets' = [sockets EXCEPT ![s].open = FALSE, ![s].down = <<>>, ![s].up = up]
    /\ UNCHANGED <<store, server, replica, typed>>

-----------------------------------------------------------------------------
(* The server's handlers: collaborate, _on_binary, _on_text.               *)

LoopFree == busy.slot = NoSlot

\* Mutant of Seeded: the saved document is ignored, the text inserted anew.
SeededAfresh == [doc |-> SetText(EmptyDoc, log[Shown].text, writes + 1), base |-> Shown]

\* Mutant of Seeded: a draft follows the head whether it is pending or not.
SeededRebased ==
    IF saved.base = 0
    THEN [doc |-> SetText(EmptyDoc, log[Shown].text, writes + 1), base |-> Shown]
    ELSE [doc |-> saved.doc, base |-> Shown]

\* _seed from nothing, or from the saved document.  A saved draft that still
\* equals its base follows a newer head; a pending draft is never replaced.
Seeded ==
    LET previous == IF saved.base \in Rows THEN log[saved.base].text ELSE {} IN
    IF saved.base = 0
    THEN [doc |-> SetText(EmptyDoc, log[Shown].text, writes + 1), base |-> Shown]
    ELSE IF Shown # saved.base /\ Text(saved.doc) = previous
    THEN [doc |-> SetText(saved.doc, log[Shown].text, writes + 1), base |-> Shown]
    ELSE saved

\* collaborate up to its receive loop: get_room drops a room that was empty for
\* longer than the TTL, finds or makes and seeds the room; then join, and the
\* server's sync step 1.
Accept(s) ==
    /\ LoopFree /\ sockets[s].handler = "new"
    /\ \E dropped \in BOOLEAN :
       LET found == IF dropped THEN NoRoom ELSE registered IN
       /\ dropped => Idle(registered, rooms)
       /\ \E r \in Room :
          LET made == IF found = NoRoom
                      THEN [NewRoom EXCEPT !.doc = Seeded.doc, !.base = Seeded.base]
                      ELSE rooms[r] IN
          /\ IF found = NoRoom THEN r = registered \/ Unused(r) ELSE r = found
          /\ found = NoRoom /\ Seeded # saved => writes < MaxWrites
          /\ \A t \in Slot : dropped /\ r = registered => sockets[t].room # r
          /\ registered' = r
          /\ rooms' = [rooms EXCEPT ![r] = [made EXCEPT !.clients[sockets[s].client] = s]]
          /\ sockets' = [sockets EXCEPT ![s].handler = "serving", ![s].room = r,
                                        ![s].down = Append(@, Sync(made.doc.items))]
          /\ writes' = IF found = NoRoom /\ Seeded # saved THEN writes + 1 ELSE writes
          /\ busy' = IF found = NoRoom /\ Seeded # saved
                     THEN [slot |-> s, at |-> "persist"] ELSE busy
    /\ UNCHANGED <<store, lock, replica, typed>>

\* A handler at its receive, with a frame to handle.
Serving(s, type) ==
    /\ LoopFree
    /\ sockets[s].handler = "serving" /\ sockets[s].todo = {}
    /\ sockets[s].up # <<>> /\ Head(sockets[s].up).type = type

Answer(s, frame) == IF sockets[s].open THEN Append(sockets[s].down, frame) ELSE <<>>

\* Mutant of ServeSync: the answer has the missing items but no deletions.
ServeSyncItems(s) ==
    /\ Serving(s, "sync")
    /\ LET have == Head(sockets[s].up).items IN
       sockets' = [sockets EXCEPT
            ![s].up = Tail(@),
            ![s].down = Answer(s, Update(Doc(rooms[sockets[s].room].doc.items \ have, {})))]
    /\ UNCHANGED <<store, server, replica, typed>>

ServeSync(s) ==
    /\ Serving(s, "sync")
    /\ LET doc == rooms[sockets[s].room].doc
           have == Head(sockets[s].up).items IN
       sockets' = [sockets EXCEPT ![s].up = Tail(@),
                                  ![s].down = Answer(s, Update(Doc(doc.items \ have, doc.dead)))]
    /\ UNCHANGED <<store, server, replica, typed>>

\* Mutant of Quit: whoever leaves drops the hub's room.
QuitDropping(s, memory) ==
    /\ rooms' = [memory EXCEPT ![sockets[s].room].clients[sockets[s].client] = NoSlot]
    /\ registered' = NoRoom
    /\ lock' = IF lock = s THEN NoSlot ELSE lock
    /\ sockets' = [sockets EXCEPT ![s] = [Closed EXCEPT !.client = sockets[s].client]]

\* Mutant of Quit: an exception leaves the artifact lock taken.
QuitHolding(s, memory) ==
    /\ rooms' = [memory EXCEPT ![sockets[s].room].clients[sockets[s].client] = NoSlot]
    /\ sockets' = [sockets EXCEPT ![s] = [Closed EXCEPT !.client = sockets[s].client]]
    /\ UNCHANGED <<registered, lock>>

\* leave(user) forgets the user's socket, whichever it is; cleanup_idle_rooms
\* may drop the hub's room if that is another one and empty.
Quit(s, memory) ==
    LET r == sockets[s].room
        gone == [memory EXCEPT ![r].clients[sockets[s].client] = NoSlot] IN
    /\ rooms' = gone
    /\ \/ UNCHANGED registered
       \/ /\ registered # r /\ Idle(registered, gone)
          /\ registered' = NoRoom
    /\ lock' = IF lock = s THEN NoSlot ELSE lock
    /\ sockets' = [sockets EXCEPT ![s] = [Closed EXCEPT !.client = sockets[s].client]]

Others(s) == {rooms[sockets[s].room].clients[c] : c \in Client} \ {s, NoSlot}

\* Mutant of ServeUpdate: relayed without being stored.
ServeUpdateUnstored(s) ==
    LET r == sockets[s].room
        change == Head(sockets[s].up).doc IN
    /\ Serving(s, "update")
    /\ rooms' = [rooms EXCEPT ![r].doc = Merge(@, change), ![r].seen = @ \cup {change}]
    /\ sockets' = [sockets EXCEPT
            ![s].up = Tail(@),
            ![s].todo = IF change \in rooms[r].seen THEN {} ELSE Others(s),
            ![s].frame = IF change \in rooms[r].seen THEN EmptyDoc ELSE change]
    /\ UNCHANGED <<store, registered, lock, busy, writes, replica, typed>>

\* An update is applied and logged in memory, then stored with the document in
\* one transaction and relayed if the log did not have it.  If the transaction
\* raises, the connection is closed with 4003.
ServeUpdate(s) ==
    LET r == sockets[s].room
        change == Head(sockets[s].up).doc
        memory == [rooms EXCEPT ![r].doc = Merge(@, change), ![r].seen = @ \cup {change}] IN
    /\ Serving(s, "update")
    /\ tentative = 0
    /\ \/ /\ change \in rooms[r].seen
          /\ rooms' = memory
          /\ sockets' = [sockets EXCEPT ![s].up = Tail(@)]
          /\ UNCHANGED <<saved, registered, lock>>
       \/ /\ change \notin rooms[r].seen
          /\ rooms' = memory
          /\ saved' = [doc |-> memory[r].doc, base |-> memory[r].base]
          /\ sockets' = [sockets EXCEPT ![s].up = Tail(@), ![s].todo = Others(s),
                                        ![s].frame = IF Others(s) = {} THEN EmptyDoc ELSE change]
          /\ UNCHANGED <<registered, lock>>
       \/ /\ Faults /\ change \notin rooms[r].seen
          /\ Quit(s, memory)
          /\ UNCHANGED saved
    /\ UNCHANGED <<log, head, tentative, lost, busy, writes, replica, typed>>

\* One peer of a broadcast, after the sender itself if it is addressed (reset).
\* A send waits for room in the peer's buffer; to a socket whose handler has ended it
\* raises, into a broken connection it may.  Then the peer's user is forgotten;
\* if it was the sender's own, the handler ends.
Relay(s) ==
    LET r == sockets[s].room IN
    /\ LoopFree
    /\ \E p \in sockets[s].todo :
       LET left == sockets[s].todo \ {p}
           rest == IF left = {} THEN EmptyDoc ELSE sockets[s].frame
           freed == IF lock = s /\ left = {} THEN NoSlot ELSE lock IN
       /\ s \in sockets[s].todo => p = s
       /\ Len(sockets[p].down) < MaxQueue
       /\ \/ /\ sockets[p].handler = "serving"
             /\ sockets' = [sockets EXCEPT ![s].todo = left, ![s].frame = rest,
                                           ![p].down = Answer(p, Update(sockets[s].frame))]
             /\ lock' = freed
             /\ UNCHANGED <<registered, rooms>>
          \/ /\ ~sockets[p].open /\ p # s
             /\ sockets' = [sockets EXCEPT ![s].todo = left, ![s].frame = rest]
             /\ rooms' = [rooms EXCEPT ![r].clients[sockets[p].client] = NoSlot]
             /\ lock' = freed
             /\ UNCHANGED registered
          \/ /\ BrokenReset /\ ~sockets[p].open /\ p = s
             /\ Quit(s, rooms)
    /\ UNCHANGED <<store, busy, writes, replica, typed>>

\* reset_request, under the artifact lock until the last peer has the document.
ServeReset(s) ==
    LET r == sockets[s].room
        doc == SetText(rooms[r].doc, log[Shown].text, writes + 1) IN
    /\ Serving(s, "reset")
    /\ lock = NoSlot /\ writes < MaxWrites
    /\ rooms' = [rooms EXCEPT ![r].doc = doc, ![r].base = Shown]
    /\ writes' = writes + 1
    /\ sockets' = [sockets EXCEPT ![s].up = Tail(@), ![s].frame = doc,
                                  ![s].todo = Others(s) \cup {s}]
    /\ lock' = s
    /\ busy' = [slot |-> s, at |-> "persist"]
    /\ UNCHANGED <<store, registered, replica, typed>>

\* commit_live: the head is compared with the draft's base ...
ServeCommit(s) ==
    /\ Serving(s, "commit")
    /\ lock = NoSlot
    /\ Len(log) < MaxCommits
    /\ busy' = IF Shown = rooms[sockets[s].room].base THEN [slot |-> s, at |-> "commit"] ELSE busy
    /\ sockets' = [sockets EXCEPT ![s].up = Tail(@)]
    /\ UNCHANGED <<store, registered, rooms, lock, writes, replica, typed>>

\* ... then store.commit moves it, guarded by the head that was read ...
StoreCommit(s) ==
    LET r == sockets[s].room IN
    /\ busy = [slot |-> s, at |-> "commit"]
    /\ tentative = 0
    /\ \/ /\ head = rooms[r].base
          /\ log' = Append(log, [text |-> Text(rooms[r].doc), parent |-> head])
          /\ head' = Len(log')
          /\ rooms' = [rooms EXCEPT ![r].base = head']
          /\ busy' = [slot |-> s, at |-> "persist"]
       \/ /\ head # rooms[r].base
          /\ busy' = [slot |-> NoSlot, at |-> "free"]
          /\ UNCHANGED <<log, head, rooms>>
    /\ UNCHANGED <<tentative, lost, saved, registered, sockets, lock, writes, replica, typed>>

\* ... and persist_room stores the document with its base.
PersistRoom(s) ==
    LET r == sockets[s].room IN
    /\ busy = [slot |-> s, at |-> "persist"]
    /\ tentative = 0
    /\ saved' = [doc |-> rooms[r].doc, base |-> rooms[r].base]
    /\ busy' = [slot |-> NoSlot, at |-> "free"]
    /\ UNCHANGED <<log, head, tentative, lost, registered, rooms, sockets, lock, writes,
                   replica, typed>>

\* The handler finds its connection closed and ends.
Hangup(s) ==
    /\ LoopFree
    /\ ~sockets[s].open /\ sockets[s].up = <<>> /\ sockets[s].todo = {}
    /\ \/ /\ sockets[s].handler = "serving"
          /\ Quit(s, rooms)
       \/ /\ sockets[s].handler = "new"
          /\ sockets' = [sockets EXCEPT ![s] = [Closed EXCEPT !.client = sockets[s].client]]
          /\ UNCHANGED <<registered, rooms, lock>>
    /\ UNCHANGED <<store, busy, writes, replica, typed>>

-----------------------------------------------------------------------------
(* Everything else that touches the branch, and crashes.                   *)

\* A REST thread commits to the branch: the new head shows before it commits.
RestBegin ==
    /\ tentative = 0 /\ Len(log) < MaxCommits
    /\ \E w \in Word :
       LET text == log[head].text IN
       /\ w \in text \/ w \notin typed
       /\ log' = Append(log, [text |-> IF w \in text THEN text \ {w} ELSE text \cup {w},
                              parent |-> head])
       /\ typed' = typed \cup {w}
    /\ tentative' = Len(log')
    /\ UNCHANGED <<head, lost, saved, server, sockets, replica>>

RestEnd ==
    /\ tentative # 0
    /\ \/ head' = tentative /\ UNCHANGED lost
       \/ Rollbacks /\ lost' = lost \cup {tentative} /\ UNCHANGED head
    /\ tentative' = 0
    /\ UNCHANGED <<log, saved, server, sockets, replica, typed>>

\* The server restarts: rooms, sockets and an open transaction are gone.
Restart ==
    /\ lost' = lost \cup ({tentative} \ {0})
    /\ tentative' = 0
    /\ registered' = NoRoom
    /\ rooms' = [r \in Room |-> NewRoom]
    /\ sockets' = [s \in Slot |-> Closed]
    /\ lock' = NoSlot
    /\ busy' = [slot |-> NoSlot, at |-> "free"]
    /\ UNCHANGED <<log, head, saved, replica, typed, writes>>

Serve(s) ==
    \/ Accept(s) \/ ServeSync(s) \/ ServeUpdate(s) \/ Relay(s) \/ ServeReset(s)
    \/ ServeCommit(s) \/ StoreCommit(s) \/ PersistRoom(s) \/ Hangup(s)

Next ==
    \/ \E c \in Client :
          \/ Connect(c)
          \/ \E w \in Word : Type(c, w)
          \/ \E x \in replica[c].items : Erase(c, x)
          \/ \E kind \in {"commit", "reset"} : Ask(c, kind)
    \/ \E s \in Slot : ClientRead(s) \/ Drop(s) \/ Serve(s)
    \/ RestBegin \/ RestEnd \/ Restart

Spec == Init /\ [][Next]_vars

\* The event loop runs every ready handler, a REST transaction ends, and a browser
\* reads its socket or loses it (the server's keepalive closes dead peers).
FairSpec == Spec /\ WF_vars(RestEnd)
                 /\ \A s \in Slot : WF_vars(Serve(s)) /\ WF_vars(ClientRead(s))

-----------------------------------------------------------------------------
(* Properties.                                                             *)

Origin == Client \cup (1..MaxWrites)
Item == Origin \X Word
IsDoc(d) == DOMAIN d = {"items", "dead"} /\ d.items \subseteq Item /\ d.dead \subseteq Item
Handlers == {"free", "new", "serving"}

\* The type invariant, with the bookkeeping of handlers: only a serving handler
\* has a room, relays or holds the lock, and the loop is blocked in a live one.
TypeOK ==
    /\ head \in Rows /\ tentative \in 0..Len(log) /\ lost \subseteq 1..Len(log)
    /\ \A i \in 1..Len(log) : log[i].text \subseteq Word /\ log[i].parent \in 0..(i - 1)
    /\ IsDoc(saved.doc) /\ saved.base \in 0..Len(log)
    /\ registered \in Room \cup {NoRoom}
    /\ \A r \in Room : IsDoc(rooms[r].doc) /\ rooms[r].clients \in [Client -> Slot \cup {NoSlot}]
    /\ \A c \in Client : IsDoc(replica[c])
    /\ \A s \in Slot :
          /\ sockets[s].handler \in Handlers
          /\ (sockets[s].handler = "serving") = (sockets[s].room # NoRoom)
          /\ sockets[s].todo # {} \/ lock = s \/ busy.slot = s => sockets[s].handler = "serving"

Attached(s) == sockets[s].handler = "serving"
InFlight(s) == {sockets[s].down[i] : i \in DOMAIN sockets[s].down}

Quiet ==
    /\ LoopFree
    /\ \A s \in Slot :
          /\ sockets[s].handler = "free" <=> ~sockets[s].open
          /\ sockets[s].handler # "new"
          /\ sockets[s].up = <<>> /\ sockets[s].down = <<>> /\ sockets[s].todo = {}

\* When nothing is under way any more, every connected browser shows exactly the
\* document of its room: no edit is missing, whatever was typed, erased, reset,
\* reconnected or restarted.  (the sync handshake and relays of realtime/ws.py)
QuietMeansConverged ==
    Quiet => \A s \in Slot : sockets[s].open =>
                 replica[sockets[s].client] = rooms[sockets[s].room].doc

\* Whatever one browser got to see of another's edits is stored: a crash cannot
\* take back what a reader has read.  (persist before relay, ws.py:173-182)
NothingShownIsLost ==
    /\ \A c \in Client : \A x \in replica[c].items : x[1] = c \/ x \in saved.doc.items
    /\ \A s \in Slot : \A f \in InFlight(s) :
          f.type = "update" /\ LoopFree => f.doc.items \subseteq saved.doc.items

\* Between two stretches of the event loop the stored document and base are
\* those of the live room.  (persist_room after every change)
DraftIsPersisted ==
    LoopFree /\ registered # NoRoom =>
        saved = [doc |-> rooms[registered].doc, base |-> rooms[registered].base]

\* No word is live twice: restarts and reseeding keep CRDT identities instead of
\* inserting the text anew.  (persist_room's docstring, rooms.py:353)
NoDuplicates ==
    \A r \in Room : \A x, y \in rooms[r].doc.items \ rooms[r].doc.dead : x[2] = y[2] => x = y

\* A draft is its base commit plus edits: a word of the base is in the document,
\* live or erased by someone, and a live word the server wrote is in the base.
\* So committing a draft never silently reverts the commit it builds on.
DraftExtendsBase ==
    \A r \in Room : rooms[r].base \in Rows =>
        LET text == log[rooms[r].base].text
            doc == rooms[r].doc IN
        /\ text \subseteq {x[2] : x \in doc.items}
        /\ \A x \in doc.items \ doc.dead : x[1] \in Client \/ x[2] \in text

\* There is one room: every handler serves the room the hub hands out.
\* ("Doc registry: one LiveRoom per (artifact_id, branch)", rooms.py:178)
OneRoom == \A s \in Slot : Attached(s) => sockets[s].room = registered

\* A draft's base is a commit of the branch, so a live commit is refused only
\* when the branch really moved.  (rooms.py:295-296)
DraftBaseExists ==
    registered # NoRoom => rooms[registered].base \in Rows

\* A reset gives the artifact lock back although peers vanish while it is sent
\* to them, so commits and resets of the artifact are never blocked for good.
LockIsFreed == lock # NoSlot ~> lock = NoSlot
=============================================================================
