------------------------- MODULE ForwardRelayProofs -------------------------
(***************************************************************************)
(* Proofs about the sessions of the forward relays, for any number of      *)
(* readers, outside callers, Stops, targets, sessions and items, and for   *)
(* every transport and policy.                                             *)
(***************************************************************************)
EXTENDS ForwardRelay, TLAPS

-----------------------------------------------------------------------------
(* The inductive invariant: who owns a session. *)

\* The goroutine that has yet to register session s, or closes it.
Carries(p, s) == held[p] = s /\ pc[p] \in {"register", "close", "closeChan", "closeWait"}

\* A session has one owner: the map, under the address it was opened for; a
\* goroutine that registers or closes it; or a Stop that took it out of the map.
OneOwner ==
    /\ \A a \in Addresses, s \in Sessions : streams[a] = s =>
         /\ target[s] = a
         /\ \A p \in Processes : ~Carries(p, s)
         /\ \A p \in Stoppers : s \notin todo[p]
    /\ \A s \in Sessions, p, q \in Processes : Carries(p, s) /\ Carries(q, s) => p = q
    /\ \A s \in Sessions, p \in Processes, q \in Stoppers : Carries(p, s) => s \notin todo[q]
    /\ \A s \in Sessions, p, q \in Stoppers : s \in todo[p] /\ s \in todo[q] => p = q

\* Nobody knows a session that has not been opened, and every Stop closes what it took.
Unknown ==
    /\ \A s \in Sessions : loop[s] = "unborn" =>
         /\ \A a \in Addresses : streams[a] # s
         /\ \A p \in Processes : held[p] # s /\ s \notin todo[p]
    /\ \A p \in Stoppers : pc[p] \in {"idle", "take", "gone"} => todo[p] = {}

\* A sendCh is closed by the last step of its owner but one.
ClosedByOwner ==
    \A s \in Sessions : closed[s] =>
        /\ loop[s] # "unborn"
        /\ \A a \in Addresses : streams[a] # s
        /\ \A p \in Processes : Carries(p, s) => pc[p] = "closeWait"
        /\ \A p \in Stoppers : s \notin todo[p]

\* A session is taken for dead only when its send loop has ended, and one that is to be
\* registered was opened for the target of its opener.
HandsKnown ==
    \A c \in Callers :
        /\ pc[c] = "purge" => loop[held[c]] = "done"
        /\ pc[c] = "register" => target[held[c]] = Address(c)

\* Until Stop is called, the map is there once a Submit has seen to it, and a session
\* that a Submit may send on is neither closed nor being closed.
Users == {"check", "purge", "enqueue"}
UsableBeforeStop ==
    ~ctxDone =>
        /\ crashed = "no"
        /\ \A p \in Stoppers : pc[p] = "idle"
        /\ \A c \in Callers :
             /\ pc[c] \in {"lookup", "check", "purge", "open", "register"} => ~isNil
             /\ pc[c] \in Users => ~closed[held[c]] /\ \A p \in Processes : ~Carries(p, held[c])
             /\ \A s \in todo[c] : ~closed[s] /\ \A p \in Processes : ~Carries(p, s)

\* Every process has a place. TypeOK, part by part.
ProcsTyped ==
    /\ pc \in [Processes -> CallerPlaces \cup StopperPlaces]
    /\ \A p \in Processes : pc[p] \in IF p \in Callers THEN CallerPlaces ELSE StopperPlaces
    /\ held \in [Processes -> Sessions \cup {None}]
    /\ \A p \in Processes : (held[p] # None) <=> (pc[p] \in InHand)
    /\ todo \in [Processes -> SUBSET Sessions]
MapTyped ==
    /\ streams \in [Addresses -> Sessions \cup {None}]
    /\ isNil => \A a \in Addresses : streams[a] = None
LoopsTyped ==
    loop \in [Sessions -> {"unborn", "running", "done"}] /\ target \in [Sessions -> Addresses]
ChannelsTyped ==
    /\ sendCh \in [Sessions -> Seq(Envelopes)]
    /\ \A s \in Sessions : Len(sendCh[s]) <= SendBuf
RestTyped ==
    /\ isNil \in BOOLEAN /\ isRunning \in BOOLEAN /\ ctxDone \in BOOLEAN
    /\ <<transport, policy>> \in Variants /\ startDone \in BOOLEAN
    /\ seq \in 0..MaxSeq /\ crashed \in Panics \cup {"no"}
    /\ nth \in [Callers -> DOMAIN Targets]
ClosedTyped == closed \in [Sessions -> BOOLEAN]

Typed == ProcsTyped /\ MapTyped /\ LoopsTyped /\ ChannelsTyped /\ RestTyped /\ ClosedTyped

SessionInv ==
    /\ Typed /\ OneOwner /\ Unknown /\ ClosedByOwner /\ HandsKnown
    /\ UsableBeforeStop /\ NoOrphanSession /\ ClosedOnce

-----------------------------------------------------------------------------
(* The steps. *)

\* Process p goes to a place with session h in hand and t to deal with next.
Move(p, place, h, t) ==
    /\ pc' = [pc EXCEPT ![p] = place]
    /\ held' = [held EXCEPT ![p] = h]
    /\ todo' = [todo EXCEPT ![p] = t]
Moved(p, place, h, t) ==
    /\ pc'[p] = place /\ held'[p] = h /\ todo'[p] = t
    /\ \A q \in Processes : q # p => pc'[q] = pc[q] /\ held'[q] = held[q] /\ todo'[q] = todo[q]

\* The ends of a turn at a target: the caller lets go of what it holds.
Release(c) ==
    \/ Enqueue(c) \/ BufferFull(c) \/ SendDatagram(c) \/ RelayCancelled(c) \/ CallerCancelled(c)
    \/ OpenFails(c)

LEMMA MoveTyped ==
    ASSUME ProcsTyped, NEW p \in Processes, NEW place, NEW h \in Sessions \cup {None},
           NEW t \in SUBSET Sessions, Move(p, place, h, t),
           p \in Callers => place \in CallerPlaces, p \notin Callers => place \in StopperPlaces,
           (h # None) <=> (place \in InHand)
    PROVE  ProcsTyped' /\ Moved(p, place, h, t)
<1>1. Moved(p, place, h, t)
  BY DEF ProcsTyped, Move, Moved
<1>2. pc' \in [Processes -> CallerPlaces \cup StopperPlaces]
  BY DEF ProcsTyped, Move
<1>3. held' \in [Processes -> Sessions \cup {None}] /\ todo' \in [Processes -> SUBSET Sessions]
  BY DEF ProcsTyped, Move
<1>4. \A q \in Processes : pc'[q] \in IF q \in Callers THEN CallerPlaces ELSE StopperPlaces
  BY <1>1 DEF ProcsTyped, Moved
<1>5. \A q \in Processes : (held'[q] # None) <=> (pc'[q] \in InHand)
  BY <1>1 DEF ProcsTyped, Moved
<1> QED BY <1>1, <1>2, <1>3, <1>4, <1>5 DEF ProcsTyped

LEMMA SessionInvNext == SessionInv /\ [Next]_vars => SessionInv'
<1> SUFFICES ASSUME SessionInv, [Next]_vars PROVE SessionInv'
  OBVIOUS
<1>types. ProcsTyped /\ MapTyped /\ LoopsTyped /\ ChannelsTyped /\ RestTyped /\ ClosedTyped
  BY DEF SessionInv, Typed
<1>inv. OneOwner /\ Unknown /\ ClosedByOwner /\ HandsKnown /\ UsableBeforeStop /\ NoOrphanSession /\ ClosedOnce
  BY DEF SessionInv
<1>sets. /\ \A c \in Callers : c \in Processes /\ c \notin Stoppers
         /\ \A p \in Stoppers : p \in Processes /\ p \notin Callers
         /\ \A r \in Readers : r \in Callers
         /\ None \notin Sessions /\ \A p \in Processes : p \in Callers \/ p \in Stoppers
  BY ConstantsAssumption DEF Callers, Processes, Sessions
<1>hand. /\ \A p \in Processes : held[p] \in Sessions \cup {None} /\ ((held[p] # None) <=> (pc[p] \in InHand))
         /\ \A p \in Processes : todo[p] \in SUBSET Sessions
  BY <1>types DEF ProcsTyped
<1>panics. ASSUME ctxDone, crashed' \in Panics \ {"close of closed channel"},
                  UNCHANGED <<relayState, sessionState, processState>>
           PROVE  SessionInv'
  <2> USE DEF relayState, sessionState, processState, settings
  <2>1. RestTyped'
    BY <1>panics, <1>types DEF RestTyped
  <2>2. Typed'
    BY <1>panics, <2>1, <1>types DEF Typed, ProcsTyped, MapTyped, LoopsTyped, ChannelsTyped, ClosedTyped
  <2>3. UNCHANGED <<streams, loop, target, closed, pc, held, todo, nth>>
    BY <1>panics
  <2>6. OneOwner'
    BY <2>3, <1>inv DEF OneOwner, Carries
  <2>7. Unknown'
    BY <2>3, <1>inv DEF Unknown
  <2>8. ClosedByOwner'
    BY <2>3, <1>inv DEF ClosedByOwner, Carries
  <2>5. HandsKnown'
    BY <2>3, <1>inv DEF HandsKnown, Address
  <2>4. UsableBeforeStop' /\ NoOrphanSession' /\ ClosedOnce'
    BY <1>panics DEF UsableBeforeStop, NoOrphanSession, ClosedOnce, Alive, Panics
  <2> QED BY <2>2, <2>4, <2>5, <2>6, <2>7, <2>8 DEF SessionInv
<1>address. \A c \in Callers : Address(c) \in Addresses
  BY <1>types DEF RestTyped, Address, Addresses

<1>1. ASSUME NEW p \in Readers, ReaderExits(p) PROVE SessionInv'
  <2>1. /\ Move(p, "gone", held[p], todo[p])
       /\ UNCHANGED <<isNil, streams, seq, isRunning, ctxDone, transport, policy, startDone, loop, target, sendCh, closed, nth, crashed>>
       /\ pc[p] = "idle"
    BY <1>1, <1>types, <1>sets DEF ReaderExits, At, GoTo, Alive, ProcsTyped, Move, relayState, sessionState, settings, processState
  <2>2. ProcsTyped' /\ Moved(p, "gone", held[p], todo[p])
    BY <2>1, <1>types, <1>sets, <1>hand, <1>address, MoveTyped DEF CallerPlaces, StopperPlaces, InHand, MapTyped
  <2>3. Typed'
    BY <2>1, <2>2, <1>types DEF Typed, MapTyped, LoopsTyped, ChannelsTyped, RestTyped, ClosedTyped
  <2>4. OneOwner'
    BY <2>1, <2>2, <1>inv, <1>sets, <1>hand DEF Moved, Carries, InHand, OneOwner, Unknown, ClosedByOwner
  <2>5. Unknown'
    BY <2>1, <2>2, <1>inv, <1>sets, <1>hand DEF Moved, Carries, InHand, Unknown
  <2>6. ClosedByOwner'
    BY <2>1, <2>2, <1>inv, <1>sets, <1>hand DEF Moved, Carries, InHand, ClosedByOwner, Unknown, OneOwner
  <2>7. HandsKnown'
    BY <2>1, <2>2, <1>inv, <1>sets, <1>hand DEF Moved, Carries, InHand, HandsKnown, Unknown, Address
  <2>8. UsableBeforeStop'
    BY <2>1, <2>2, <1>inv, <1>sets, <1>hand DEF Moved, Carries, InHand, UsableBeforeStop, Users, OneOwner, Unknown, ClosedByOwner
  <2>9. NoOrphanSession'
    BY <2>1, <2>2, <1>inv, <1>sets, <1>hand DEF Moved, Carries, InHand, NoOrphanSession, Accounted, Closing, OneOwner, Unknown, Alive
  <2>10. ClosedOnce'
    BY <2>1, <2>2, <1>inv, <1>sets, <1>hand DEF Moved, Carries, InHand, ClosedOnce, ClosedByOwner
  <2> QED BY <2>3, <2>4, <2>5, <2>6, <2>7, <2>8, <2>9, <2>10 DEF SessionInv
<1>2. ASSUME NEW p \in Callers, Submit(p) PROVE SessionInv'
  <2>1. /\ Move(p, "ensure", held[p], todo[p])
       /\ UNCHANGED <<isNil, streams, isRunning, ctxDone, transport, policy, startDone, loop, target, sendCh, closed, nth, crashed>>
       /\ pc[p] = "idle"
       /\ seq < MaxSeq /\ seq' = seq + 1
    BY <1>2, <1>types, <1>sets DEF Submit, At, GoTo, Alive, ProcsTyped, Move, relayState, sessionState, settings, processState
  <2>2. ProcsTyped' /\ Moved(p, "ensure", held[p], todo[p])
    BY <2>1, <1>types, <1>sets, <1>hand, <1>address, MoveTyped DEF CallerPlaces, StopperPlaces, InHand, MapTyped
  <2>3. RestTyped'
    BY <2>1, ConstantsAssumption, <1>types, <1>sets, <1>hand, <1>address DEF RestTyped
  <2>4. Typed'
    BY <2>1, <2>2, <2>3, <1>types DEF Typed, MapTyped, LoopsTyped, ChannelsTyped, ClosedTyped
  <2>5. OneOwner'
    BY <2>1, <2>2, <1>inv, <1>sets, <1>hand DEF Moved, Carries, InHand, OneOwner, Unknown, ClosedByOwner
  <2>6. Unknown'
    BY <2>1, <2>2, <1>inv, <1>sets, <1>hand DEF Moved, Carries, InHand, Unknown
  <2>7. ClosedByOwner'
    BY <2>1, <2>2, <1>inv, <1>sets, <1>hand DEF Moved, Carries, InHand, ClosedByOwner, Unknown, OneOwner
  <2>8. HandsKnown'
    BY <2>1, <2>2, <1>inv, <1>sets, <1>hand DEF Moved, Carries, InHand, HandsKnown, Unknown, Address
  <2>9. UsableBeforeStop'
    BY <2>1, <2>2, <1>inv, <1>sets, <1>hand DEF Moved, Carries, InHand, UsableBeforeStop, Users, OneOwner, Unknown, ClosedByOwner
  <2>10. NoOrphanSession'
    BY <2>1, <2>2, <1>inv, <1>sets, <1>hand DEF Moved, Carries, InHand, NoOrphanSession, Accounted, Closing, OneOwner, Unknown, Alive
  <2>11. ClosedOnce'
    BY <2>1, <2>2, <1>inv, <1>sets, <1>hand DEF Moved, Carries, InHand, ClosedOnce, ClosedByOwner
  <2> QED BY <2>4, <2>5, <2>6, <2>7, <2>8, <2>9, <2>10, <2>11 DEF SessionInv
<1>3. ASSUME NEW p \in Callers, EnsureStreamsInit(p) PROVE SessionInv'
  <2>1. /\ Move(p, "lookup", held[p], todo[p])
       /\ UNCHANGED <<streams, seq, isRunning, ctxDone, transport, policy, startDone, loop, target, sendCh, closed, nth, crashed>>
       /\ pc[p] = "ensure"
       /\ isNil' = FALSE
    BY <1>3, <1>types, <1>sets DEF EnsureStreamsInit, At, GoTo, Alive, ProcsTyped, Move, relayState, sessionState, settings, processState
  <2>2. ProcsTyped' /\ Moved(p, "lookup", held[p], todo[p])
    BY <2>1, <1>types, <1>sets, <1>hand, <1>address, MoveTyped DEF CallerPlaces, StopperPlaces, InHand, MapTyped
  <2>3. MapTyped'
    BY <2>1, ConstantsAssumption, <1>types, <1>sets, <1>hand, <1>address DEF MapTyped
  <2>4. RestTyped'
    BY <2>1, ConstantsAssumption, <1>types, <1>sets, <1>hand, <1>address DEF RestTyped
  <2>5. Typed'
    BY <2>1, <2>2, <2>3, <2>4, <1>types DEF Typed, LoopsTyped, ChannelsTyped, ClosedTyped
  <2>6. OneOwner'
    BY <2>1, <2>2, <1>inv, <1>sets, <1>hand DEF Moved, Carries, InHand, OneOwner, Unknown, ClosedByOwner
  <2>7. Unknown'
    BY <2>1, <2>2, <1>inv, <1>sets, <1>hand DEF Moved, Carries, InHand, Unknown
  <2>8. ClosedByOwner'
    BY <2>1, <2>2, <1>inv, <1>sets, <1>hand DEF Moved, Carries, InHand, ClosedByOwner, Unknown, OneOwner
  <2>9. HandsKnown'
    BY <2>1, <2>2, <1>inv, <1>sets, <1>hand DEF Moved, Carries, InHand, HandsKnown, Unknown, Address
  <2>10. UsableBeforeStop'
    BY <2>1, <2>2, <1>inv, <1>sets, <1>hand DEF Moved, Carries, InHand, UsableBeforeStop, Users, OneOwner, Unknown, ClosedByOwner
  <2>11. NoOrphanSession'
    BY <2>1, <2>2, <1>inv, <1>sets, <1>hand DEF Moved, Carries, InHand, NoOrphanSession, Accounted, Closing, OneOwner, Unknown, Alive
  <2>12. ClosedOnce'
    BY <2>1, <2>2, <1>inv, <1>sets, <1>hand DEF Moved, Carries, InHand, ClosedOnce, ClosedByOwner
  <2> QED BY <2>5, <2>6, <2>7, <2>8, <2>9, <2>10, <2>11, <2>12 DEF SessionInv
<1>4. ASSUME NEW p \in Callers, Lookup(p) PROVE SessionInv'
  <2>1. CASE streams[Address(p)] = None
    <3>1. /\ Move(p, "open", None, todo[p])
         /\ UNCHANGED <<isNil, streams, seq, isRunning, ctxDone, transport, policy, startDone, loop, target, sendCh, closed, nth, crashed>>
         /\ pc[p] = "lookup"
      BY <1>4, <2>1, <1>types, <1>sets DEF Lookup, At, GoTo, Alive, ProcsTyped, Move, relayState, sessionState, settings, processState
    <3>2. ProcsTyped' /\ Moved(p, "open", None, todo[p])
      BY <3>1, <1>types, <1>sets, <1>hand, <1>address, MoveTyped DEF CallerPlaces, StopperPlaces, InHand, MapTyped
    <3>3. Typed'
      BY <3>1, <3>2, <1>types DEF Typed, MapTyped, LoopsTyped, ChannelsTyped, RestTyped, ClosedTyped
    <3>4. OneOwner'
      BY <3>1, <3>2, <1>inv, <1>sets, <1>hand DEF Moved, Carries, InHand, OneOwner, Unknown, ClosedByOwner
    <3>5. Unknown'
      BY <3>1, <3>2, <1>inv, <1>sets, <1>hand DEF Moved, Carries, InHand, Unknown
    <3>6. ClosedByOwner'
      BY <3>1, <3>2, <1>inv, <1>sets, <1>hand DEF Moved, Carries, InHand, ClosedByOwner, Unknown, OneOwner
    <3>7. HandsKnown'
      BY <3>1, <3>2, <1>inv, <1>sets, <1>hand DEF Moved, Carries, InHand, HandsKnown, Unknown, Address
    <3>8. UsableBeforeStop'
      BY <3>1, <3>2, <1>inv, <1>sets, <1>hand DEF Moved, Carries, InHand, UsableBeforeStop, Users, OneOwner, Unknown, ClosedByOwner
    <3>9. NoOrphanSession'
      BY <3>1, <3>2, <1>inv, <1>sets, <1>hand DEF Moved, Carries, InHand, NoOrphanSession, Accounted, Closing, OneOwner, Unknown, Alive
    <3>10. ClosedOnce'
      BY <3>1, <3>2, <1>inv, <1>sets, <1>hand DEF Moved, Carries, InHand, ClosedOnce, ClosedByOwner
    <3> QED BY <3>3, <3>4, <3>5, <3>6, <3>7, <3>8, <3>9, <3>10 DEF SessionInv
  <2>2. CASE streams[Address(p)] # None
    <3>1. /\ Move(p, "check", streams[Address(p)], todo[p])
         /\ UNCHANGED <<isNil, streams, seq, isRunning, ctxDone, transport, policy, startDone, loop, target, sendCh, closed, nth, crashed>>
         /\ pc[p] = "lookup"
         /\ streams[Address(p)] # None
      BY <1>4, <2>2, <1>types, <1>sets DEF Lookup, At, GoTo, Alive, ProcsTyped, Move, relayState, sessionState, settings, processState
    <3>2. ProcsTyped' /\ Moved(p, "check", streams[Address(p)], todo[p])
      BY <3>1, <1>types, <1>sets, <1>hand, <1>address, MoveTyped DEF CallerPlaces, StopperPlaces, InHand, MapTyped
    <3>3. Typed'
      BY <3>1, <3>2, <1>types DEF Typed, MapTyped, LoopsTyped, ChannelsTyped, RestTyped, ClosedTyped
    <3>4. streams[Address(p)] \in Sessions /\ Address(p) \in Addresses
      BY <3>1, <1>types, <1>inv, <1>sets, <1>hand, <1>address DEF MapTyped
    <3>5. OneOwner'
      BY <3>1, <3>2, <3>4, <1>inv, <1>sets, <1>hand DEF Moved, Carries, InHand, OneOwner, Unknown, ClosedByOwner
    <3>6. Unknown'
      BY <3>1, <3>2, <3>4, <1>inv, <1>sets, <1>hand DEF Moved, Carries, InHand, Unknown
    <3>7. ClosedByOwner'
      BY <3>1, <3>2, <3>4, <1>inv, <1>sets, <1>hand DEF Moved, Carries, InHand, ClosedByOwner, Unknown, OneOwner
    <3>8. HandsKnown'
      BY <3>1, <3>2, <3>4, <1>inv, <1>sets, <1>hand DEF Moved, Carries, InHand, HandsKnown, Unknown, Address
    <3>9. UsableBeforeStop'
      BY <3>1, <3>2, <3>4, <1>inv, <1>sets, <1>hand DEF Moved, Carries, InHand, UsableBeforeStop, Users, OneOwner, Unknown, ClosedByOwner
    <3>10. NoOrphanSession'
      BY <3>1, <3>2, <3>4, <1>inv, <1>sets, <1>hand DEF Moved, Carries, InHand, NoOrphanSession, Accounted, Closing, OneOwner, Unknown, Alive
    <3>11. ClosedOnce'
      BY <3>1, <3>2, <3>4, <1>inv, <1>sets, <1>hand DEF Moved, Carries, InHand, ClosedOnce, ClosedByOwner
    <3> QED BY <3>3, <3>5, <3>6, <3>7, <3>8, <3>9, <3>10, <3>11 DEF SessionInv
  <2> QED BY <2>1, <2>2
<1>5. ASSUME NEW p \in Callers, CheckDone(p) PROVE SessionInv'
  <2>1. CASE loop[held[p]] = "done"
    <3>1. /\ Move(p, "purge", held[p], todo[p])
         /\ UNCHANGED <<isNil, streams, seq, isRunning, ctxDone, transport, policy, startDone, loop, target, sendCh, closed, nth, crashed>>
         /\ pc[p] = "check"
         /\ loop[held[p]] = "done"
      BY <1>5, <2>1, <1>types, <1>sets DEF CheckDone, At, GoTo, Alive, ProcsTyped, Move, relayState, sessionState, settings, processState
    <3>2. ProcsTyped' /\ Moved(p, "purge", held[p], todo[p])
      BY <3>1, <1>types, <1>sets, <1>hand, <1>address, MoveTyped DEF CallerPlaces, StopperPlaces, InHand, MapTyped
    <3>3. Typed'
      BY <3>1, <3>2, <1>types DEF Typed, MapTyped, LoopsTyped, ChannelsTyped, RestTyped, ClosedTyped
    <3>4. OneOwner'
      BY <3>1, <3>2, <1>inv, <1>sets, <1>hand DEF Moved, Carries, InHand, OneOwner, Unknown, ClosedByOwner
    <3>5. Unknown'
      BY <3>1, <3>2, <1>inv, <1>sets, <1>hand DEF Moved, Carries, InHand, Unknown
    <3>6. ClosedByOwner'
      BY <3>1, <3>2, <1>inv, <1>sets, <1>hand DEF Moved, Carries, InHand, ClosedByOwner, Unknown, OneOwner
    <3>7. HandsKnown'
      BY <3>1, <3>2, <1>inv, <1>sets, <1>hand DEF Moved, Carries, InHand, HandsKnown, Unknown, Address
    <3>8. UsableBeforeStop'
      BY <3>1, <3>2, <1>inv, <1>sets, <1>hand DEF Moved, Carries, InHand, UsableBeforeStop, Users, OneOwner, Unknown, ClosedByOwner
    <3>9. NoOrphanSession'
      BY <3>1, <3>2, <1>inv, <1>sets, <1>hand DEF Moved, Carries, InHand, NoOrphanSession, Accounted, Closing, OneOwner, Unknown, Alive
    <3>10. ClosedOnce'
      BY <3>1, <3>2, <1>inv, <1>sets, <1>hand DEF Moved, Carries, InHand, ClosedOnce, ClosedByOwner
    <3> QED BY <3>3, <3>4, <3>5, <3>6, <3>7, <3>8, <3>9, <3>10 DEF SessionInv
  <2>2. CASE loop[held[p]] # "done"
    <3>1. /\ Move(p, "enqueue", held[p], todo[p])
         /\ UNCHANGED <<isNil, streams, seq, isRunning, ctxDone, transport, policy, startDone, loop, target, sendCh, closed, nth, crashed>>
         /\ pc[p] = "check"
         /\ loop[held[p]] # "done"
      BY <1>5, <2>2, <1>types, <1>sets DEF CheckDone, At, GoTo, Alive, ProcsTyped, Move, relayState, sessionState, settings, processState
    <3>2. ProcsTyped' /\ Moved(p, "enqueue", held[p], todo[p])
      BY <3>1, <1>types, <1>sets, <1>hand, <1>address, MoveTyped DEF CallerPlaces, StopperPlaces, InHand, MapTyped
    <3>3. Typed'
      BY <3>1, <3>2, <1>types DEF Typed, MapTyped, LoopsTyped, ChannelsTyped, RestTyped, ClosedTyped
    <3>4. OneOwner'
      BY <3>1, <3>2, <1>inv, <1>sets, <1>hand DEF Moved, Carries, InHand, OneOwner, Unknown, ClosedByOwner
    <3>5. Unknown'
      BY <3>1, <3>2, <1>inv, <1>sets, <1>hand DEF Moved, Carries, InHand, Unknown
    <3>6. ClosedByOwner'
      BY <3>1, <3>2, <1>inv, <1>sets, <1>hand DEF Moved, Carries, InHand, ClosedByOwner, Unknown, OneOwner
    <3>7. HandsKnown'
      BY <3>1, <3>2, <1>inv, <1>sets, <1>hand DEF Moved, Carries, InHand, HandsKnown, Unknown, Address
    <3>8. UsableBeforeStop'
      BY <3>1, <3>2, <1>inv, <1>sets, <1>hand DEF Moved, Carries, InHand, UsableBeforeStop, Users, OneOwner, Unknown, ClosedByOwner
    <3>9. NoOrphanSession'
      BY <3>1, <3>2, <1>inv, <1>sets, <1>hand DEF Moved, Carries, InHand, NoOrphanSession, Accounted, Closing, OneOwner, Unknown, Alive
    <3>10. ClosedOnce'
      BY <3>1, <3>2, <1>inv, <1>sets, <1>hand DEF Moved, Carries, InHand, ClosedOnce, ClosedByOwner
    <3> QED BY <3>3, <3>4, <3>5, <3>6, <3>7, <3>8, <3>9, <3>10 DEF SessionInv
  <2> QED BY <2>1, <2>2
<1>6. ASSUME NEW p \in Callers, Purge(p) PROVE SessionInv'
  <2>1. /\ Move(p, "open", None, todo[p])
       /\ UNCHANGED <<isNil, seq, isRunning, ctxDone, transport, policy, startDone, loop, target, sendCh, closed, nth, crashed>>
       /\ pc[p] = "purge"
       /\ streams' = [streams EXCEPT ![Address(p)] = IF streams[Address(p)] = held[p] THEN None ELSE streams[Address(p)]]
    BY <1>6, <1>types, <1>sets DEF Purge, At, GoTo, Alive, ProcsTyped, Move, relayState, sessionState, settings, processState
  <2>2. ProcsTyped' /\ Moved(p, "open", None, todo[p])
    BY <2>1, <1>types, <1>sets, <1>hand, <1>address, MoveTyped DEF CallerPlaces, StopperPlaces, InHand, MapTyped
  <2>3. MapTyped'
    BY <2>1, ConstantsAssumption, <1>types, <1>sets, <1>hand, <1>address DEF MapTyped
  <2>4. Typed'
    BY <2>1, <2>2, <2>3, <1>types DEF Typed, LoopsTyped, ChannelsTyped, RestTyped, ClosedTyped
  <2>5. \A a \in Addresses : streams'[a] = streams[a] \/ (streams'[a] = None /\ streams[a] = held[p] /\ a = Address(p))
    BY <2>1, <1>types, <1>inv, <1>sets, <1>hand, <1>address DEF MapTyped
  <2>6. held[p] \in Sessions /\ loop[held[p]] = "done"
    BY <2>1, <1>types, <1>inv, <1>sets, <1>hand, <1>address DEF InHand, HandsKnown
  <2>7. OneOwner'
    BY <2>1, <2>2, <2>5, <2>6, <1>inv, <1>sets, <1>hand DEF Moved, Carries, InHand, OneOwner, Unknown, ClosedByOwner
  <2>8. Unknown'
    BY <2>1, <2>2, <2>5, <2>6, <1>inv, <1>sets, <1>hand DEF Moved, Carries, InHand, Unknown
  <2>9. ClosedByOwner'
    BY <2>1, <2>2, <2>5, <2>6, <1>inv, <1>sets, <1>hand DEF Moved, Carries, InHand, ClosedByOwner, Unknown, OneOwner
  <2>10. HandsKnown'
    BY <2>1, <2>2, <2>5, <2>6, <1>inv, <1>sets, <1>hand DEF Moved, Carries, InHand, HandsKnown, Unknown, Address
  <2>11. UsableBeforeStop'
    BY <2>1, <2>2, <2>5, <2>6, <1>inv, <1>sets, <1>hand DEF Moved, Carries, InHand, UsableBeforeStop, Users, OneOwner, Unknown, ClosedByOwner
  <2>12. NoOrphanSession'
    BY <2>1, <2>2, <2>5, <2>6, <1>inv, <1>sets, <1>hand DEF Moved, Carries, InHand, NoOrphanSession, Accounted, Closing, OneOwner, Unknown, Alive
  <2>13. ClosedOnce'
    BY <2>1, <2>2, <2>5, <2>6, <1>inv, <1>sets, <1>hand DEF Moved, Carries, InHand, ClosedOnce, ClosedByOwner
  <2> QED BY <2>4, <2>7, <2>8, <2>9, <2>10, <2>11, <2>12, <2>13 DEF SessionInv
<1>7. ASSUME NEW p \in Callers, NEW s \in Sessions, OpenStreamSession(p, s) PROVE SessionInv'
  <2>1. /\ Move(p, "register", s, todo[p])
       /\ UNCHANGED <<isNil, streams, seq, isRunning, ctxDone, transport, policy, startDone, sendCh, closed, nth, crashed>>
       /\ pc[p] = "open" /\ loop[s] = "unborn"
       /\ loop' = [loop EXCEPT ![s] = "running"]
       /\ target' = [target EXCEPT ![s] = Address(p)]
    BY <1>7, <1>types, <1>sets DEF OpenStreamSession, At, GoTo, Alive, ProcsTyped, Move, relayState, sessionState, settings, processState
  <2>2. ProcsTyped' /\ Moved(p, "register", s, todo[p])
    BY <2>1, <1>types, <1>sets, <1>hand, <1>address, MoveTyped DEF CallerPlaces, StopperPlaces, InHand, MapTyped
  <2>3. LoopsTyped'
    BY <2>1, ConstantsAssumption, <1>types, <1>sets, <1>hand, <1>address DEF LoopsTyped
  <2>4. Typed'
    BY <2>1, <2>2, <2>3, <1>types DEF Typed, MapTyped, ChannelsTyped, RestTyped, ClosedTyped
  <2>5. loop'[s] = "running" /\ \A t \in Sessions : t # s => loop'[t] = loop[t] /\ target'[t] = target[t]
    BY <2>1, <1>types, <1>inv, <1>sets, <1>hand, <1>address DEF LoopsTyped
  <2>6. target'[s] = Address(p) /\ \A q \in Callers : Address(q)' = Address(q)
    BY <2>1, <1>types, <1>inv, <1>sets, <1>hand, <1>address DEF LoopsTyped, Address
  <2>7. OneOwner'
    BY <2>1, <2>2, <2>5, <2>6, <1>inv, <1>sets, <1>hand DEF Moved, Carries, InHand, OneOwner, Unknown, ClosedByOwner
  <2>8. Unknown'
    BY <2>1, <2>2, <2>5, <2>6, <1>inv, <1>sets, <1>hand DEF Moved, Carries, InHand, Unknown
  <2>9. ClosedByOwner'
    BY <2>1, <2>2, <2>5, <2>6, <1>inv, <1>sets, <1>hand DEF Moved, Carries, InHand, ClosedByOwner, Unknown, OneOwner
  <2>10. HandsKnown'
    BY <2>1, <2>2, <2>5, <2>6, <1>inv, <1>sets, <1>hand DEF Moved, Carries, InHand, HandsKnown, Unknown, Address
  <2>11. UsableBeforeStop'
    BY <2>1, <2>2, <2>5, <2>6, <1>inv, <1>sets, <1>hand DEF Moved, Carries, InHand, UsableBeforeStop, Users, OneOwner, Unknown, ClosedByOwner
  <2>12. NoOrphanSession'
    BY <2>1, <2>2, <2>5, <2>6, <1>inv, <1>sets, <1>hand DEF Moved, Carries, InHand, NoOrphanSession, Accounted, Closing, OneOwner, Unknown, Alive
  <2>13. ClosedOnce'
    BY <2>1, <2>2, <2>5, <2>6, <1>inv, <1>sets, <1>hand DEF Moved, Carries, InHand, ClosedOnce, ClosedByOwner
  <2> QED BY <2>4, <2>7, <2>8, <2>9, <2>10, <2>11, <2>12, <2>13 DEF SessionInv
<1>8. ASSUME NEW p \in Callers, Register(p) PROVE SessionInv'
  <2>1. CASE streams[Address(p)] # None
    <3>1. /\ Move(p, "close", held[p], {streams[Address(p)]})
         /\ UNCHANGED <<isNil, streams, seq, isRunning, ctxDone, transport, policy, startDone, loop, target, sendCh, closed, nth, crashed>>
         /\ pc[p] = "register" /\ streams[Address(p)] # None
      BY <1>8, <2>1, <1>types, <1>sets DEF Register, At, GoTo, Alive, ProcsTyped, Move, relayState, sessionState, settings, processState
    <3>2. ProcsTyped' /\ Moved(p, "close", held[p], {streams[Address(p)]})
      BY <3>1, <1>types, <1>sets, <1>hand, <1>address, MoveTyped DEF CallerPlaces, StopperPlaces, InHand, MapTyped
    <3>3. Typed'
      BY <3>1, <3>2, <1>types DEF Typed, MapTyped, LoopsTyped, ChannelsTyped, RestTyped, ClosedTyped
    <3>4. streams[Address(p)] \in Sessions /\ Address(p) \in Addresses
      BY <3>1, <1>types, <1>inv, <1>sets, <1>hand, <1>address DEF MapTyped
    <3>5. OneOwner'
      BY <3>1, <3>2, <3>4, <1>inv, <1>sets, <1>hand DEF Moved, Carries, InHand, OneOwner, Unknown, ClosedByOwner
    <3>6. Unknown'
      BY <3>1, <3>2, <3>4, <1>inv, <1>sets, <1>hand DEF Moved, Carries, InHand, Unknown
    <3>7. ClosedByOwner'
      BY <3>1, <3>2, <3>4, <1>inv, <1>sets, <1>hand DEF Moved, Carries, InHand, ClosedByOwner, Unknown, OneOwner
    <3>8. HandsKnown'
      BY <3>1, <3>2, <3>4, <1>inv, <1>sets, <1>hand DEF Moved, Carries, InHand, HandsKnown, Unknown, Address
    <3>9. UsableBeforeStop'
      BY <3>1, <3>2, <3>4, <1>inv, <1>sets, <1>hand DEF Moved, Carries, InHand, UsableBeforeStop, Users, OneOwner, Unknown, ClosedByOwner
    <3>10. NoOrphanSession'
      BY <3>1, <3>2, <3>4, <1>inv, <1>sets, <1>hand DEF Moved, Carries, InHand, NoOrphanSession, Accounted, Closing, OneOwner, Unknown, Alive
    <3>11. ClosedOnce'
      BY <3>1, <3>2, <3>4, <1>inv, <1>sets, <1>hand DEF Moved, Carries, InHand, ClosedOnce, ClosedByOwner
    <3> QED BY <3>3, <3>5, <3>6, <3>7, <3>8, <3>9, <3>10, <3>11 DEF SessionInv
  <2>2. CASE streams[Address(p)] = None /\ isNil
    <3>1. ctxDone
      BY <1>8, <2>2, <1>inv DEF Register, At, UsableBeforeStop
    <3>2. crashed' = "assignment to nil map" /\ UNCHANGED <<relayState, sessionState, processState>>
      BY <1>8, <2>2 DEF Register, relayState, sessionState, processState, settings
    <3> QED BY <3>1, <3>2, <1>panics DEF Panics
  <2>3. CASE streams[Address(p)] = None /\ ~isNil
    <3>1. /\ Move(p, "enqueue", held[p], todo[p])
         /\ UNCHANGED <<isNil, seq, isRunning, ctxDone, transport, policy, startDone, loop, target, sendCh, closed, nth, crashed>>
         /\ pc[p] = "register" /\ ~isNil
         /\ streams[Address(p)] = None
         /\ streams' = [streams EXCEPT ![Address(p)] = held[p]]
      BY <1>8, <2>3, <1>types, <1>sets DEF Register, At, GoTo, Alive, ProcsTyped, Move, relayState, sessionState, settings, processState
    <3>2. ProcsTyped' /\ Moved(p, "enqueue", held[p], todo[p])
      BY <3>1, <1>types, <1>sets, <1>hand, <1>address, MoveTyped DEF CallerPlaces, StopperPlaces, InHand, MapTyped
    <3>3. MapTyped'
      BY <3>1, ConstantsAssumption, <1>types, <1>sets, <1>hand, <1>address DEF MapTyped, InHand
    <3>4. Typed'
      BY <3>1, <3>2, <3>3, <1>types DEF Typed, LoopsTyped, ChannelsTyped, RestTyped, ClosedTyped
    <3>5. \A a \in Addresses : a # Address(p) => streams'[a] = streams[a]
      BY <3>1, <1>types, <1>inv, <1>sets, <1>hand, <1>address DEF MapTyped
    <3>6. streams'[Address(p)] = held[p] /\ held[p] \in Sessions
      BY <3>1, <1>types, <1>inv, <1>sets, <1>hand, <1>address DEF InHand, MapTyped
    <3>7. target[held[p]] = Address(p)
      BY <3>1, <1>types, <1>inv, <1>sets, <1>hand, <1>address DEF HandsKnown
    <3>8. OneOwner'
      BY <3>1, <3>2, <3>5, <3>6, <3>7, <1>inv, <1>sets, <1>hand DEF Moved, Carries, InHand, OneOwner, Unknown, ClosedByOwner
    <3>9. Unknown'
      BY <3>1, <3>2, <3>5, <3>6, <3>7, <1>inv, <1>sets, <1>hand DEF Moved, Carries, InHand, Unknown
    <3>10. ClosedByOwner'
      BY <3>1, <3>2, <3>5, <3>6, <3>7, <1>inv, <1>sets, <1>hand DEF Moved, Carries, InHand, ClosedByOwner, Unknown, OneOwner
    <3>11. HandsKnown'
      BY <3>1, <3>2, <3>5, <3>6, <3>7, <1>inv, <1>sets, <1>hand DEF Moved, Carries, InHand, HandsKnown, Unknown, Address
    <3>12. UsableBeforeStop'
      BY <3>1, <3>2, <3>5, <3>6, <3>7, <1>inv, <1>sets, <1>hand DEF Moved, Carries, InHand, UsableBeforeStop, Users, OneOwner, Unknown, ClosedByOwner
    <3>13. NoOrphanSession'
      BY <3>1, <3>2, <3>5, <3>6, <3>7, <1>inv, <1>sets, <1>hand DEF Moved, Carries, InHand, NoOrphanSession, Accounted, Closing, OneOwner, Unknown, Alive
    <3>14. ClosedOnce'
      BY <3>1, <3>2, <3>5, <3>6, <3>7, <1>inv, <1>sets, <1>hand DEF Moved, Carries, InHand, ClosedOnce, ClosedByOwner
    <3> QED BY <3>4, <3>8, <3>9, <3>10, <3>11, <3>12, <3>13, <3>14 DEF SessionInv
  <2> QED BY <2>1, <2>2, <2>3
<1>9. ASSUME NEW p \in Callers, Release(p) PROVE SessionInv'
  <2>1. /\ pc[p] \in {"enqueue", "open"} /\ \E place \in {"ensure", "idle"} : Move(p, place, None, todo[p])
        /\ \E n \in DOMAIN Targets : nth' = [nth EXCEPT ![p] = n]
        /\ UNCHANGED <<isNil, streams, seq, isRunning, ctxDone, transport, policy, startDone, loop, target, closed, crashed>>
    <3>1. Len(Targets) \in Nat \ {0} /\ DOMAIN Targets = 1..Len(Targets) /\ nth[p] \in 1..Len(Targets)
      BY ConstantsAssumption, <1>types DEF RestTyped
    <3>2. todo' = [todo EXCEPT ![p] = todo[p]]
      BY <1>9, <1>types, <1>sets DEF Release, Enqueue, BufferFull, SendDatagram, RelayCancelled, CallerCancelled,
         OpenFails, Skip, Abandon, ProcsTyped
    <3>3. NextTarget(p) => \E n \in DOMAIN Targets : nth' = [nth EXCEPT ![p] = n]
      BY <3>1 DEF NextTarget
    <3>4. Abandon(p) => \E n \in DOMAIN Targets : nth' = [nth EXCEPT ![p] = n]
      <4>1. 1 \in DOMAIN Targets
        BY <3>1
      <4>2. Abandon(p) => nth' = [nth EXCEPT ![p] = 1]
        BY DEF Abandon
      <4> QED BY <4>1, <4>2
    <3>5. \/ NextTarget(p) /\ UNCHANGED relayState
          \/ Abandon(p)
      BY <1>9 DEF Release, Enqueue, BufferFull, SendDatagram, RelayCancelled, CallerCancelled, OpenFails, Skip
    <3>6. \E place \in {"ensure", "idle"} : pc' = [pc EXCEPT ![p] = place] /\ held' = [held EXCEPT ![p] = None]
      BY <3>5 DEF NextTarget, Abandon, GoTo
    <3>7. pc[p] \in {"enqueue", "open"} /\ UNCHANGED <<loop, target, closed, crashed>>
      BY <1>9 DEF Release, Enqueue, BufferFull, SendDatagram, RelayCancelled, CallerCancelled,
         OpenFails, Skip, Abandon, At, sessionState
    <3>8. UNCHANGED relayState
      BY <3>5 DEF Abandon
    <3> QED BY <3>2, <3>3, <3>4, <3>5, <3>6, <3>7, <3>8 DEF Move, relayState, settings
  <2>2. PICK place \in {"ensure", "idle"} : Move(p, place, None, todo[p])
    BY <2>1
  <2>3. ProcsTyped' /\ Moved(p, place, None, todo[p])
    BY <2>2, <1>types, <1>sets, <1>hand, MoveTyped DEF CallerPlaces, InHand
  <2>4. ChannelsTyped'
    <3>1. CASE sendCh' = sendCh
      BY <3>1, <1>types DEF ChannelsTyped
    <3>2. CASE Enqueue(p)
      <4>1. /\ held[p] \in Sessions /\ Room(held[p])
            /\ sendCh' = [sendCh EXCEPT ![held[p]] = Append(sendCh[held[p]], "payload")]
        BY <3>2, <1>hand, <1>sets DEF Enqueue, At, InHand
      <4>2. /\ sendCh[held[p]] \in Seq(Envelopes) /\ Append(sendCh[held[p]], "payload") \in Seq(Envelopes)
            /\ Len(Append(sendCh[held[p]], "payload")) = Len(sendCh[held[p]]) + 1
        BY <4>1, <1>types DEF ChannelsTyped, Envelopes
      <4> QED BY <4>1, <4>2, <1>types, ConstantsAssumption DEF ChannelsTyped, Room
    <3> QED BY <1>9, <3>1, <3>2 DEF Release, BufferFull, SendDatagram, RelayCancelled, CallerCancelled,
               OpenFails, Skip, Abandon, sessionState
  <2>5. RestTyped'
    BY <2>1, <1>types DEF RestTyped
  <2>6. Typed'
    BY <2>1, <2>3, <2>4, <2>5, <1>types DEF Typed, MapTyped, LoopsTyped, ClosedTyped
  <2>7. \A c \in Callers : c # p => Address(c)' = Address(c)
    BY <2>1, <1>types DEF RestTyped, Address

  <2>8. OneOwner'
    BY <2>1, <2>3, <2>7, <1>inv, <1>sets, <1>hand DEF Moved, Carries, InHand, OneOwner, Unknown, ClosedByOwner
  <2>9. Unknown'
    BY <2>1, <2>3, <2>7, <1>inv, <1>sets, <1>hand DEF Moved, Carries, InHand, Unknown
  <2>10. ClosedByOwner'
    BY <2>1, <2>3, <2>7, <1>inv, <1>sets, <1>hand DEF Moved, Carries, InHand, ClosedByOwner, Unknown, OneOwner
  <2>11. HandsKnown'
    BY <2>1, <2>3, <2>7, <1>inv, <1>sets, <1>hand DEF Moved, Carries, InHand, HandsKnown, Unknown
  <2>12. UsableBeforeStop'
    BY <2>1, <2>3, <2>7, <1>inv, <1>sets, <1>hand DEF Moved, Carries, InHand, UsableBeforeStop, Users, OneOwner, Unknown, ClosedByOwner
  <2>13. NoOrphanSession'
    BY <2>1, <2>3, <2>7, <1>inv, <1>sets, <1>hand DEF Moved, Carries, InHand, NoOrphanSession, Accounted, Closing, OneOwner, Unknown, Alive
  <2>14. ClosedOnce'
    BY <2>1, <2>3, <2>7, <1>inv, <1>sets, <1>hand DEF Moved, Carries, InHand, ClosedOnce, ClosedByOwner
  <2> QED BY <2>6, <2>8, <2>9, <2>10, <2>11, <2>12, <2>13, <2>14 DEF SessionInv
<1>10. ASSUME NEW p \in Callers, EnqueuePanics(p) PROVE SessionInv'
  <2>1. ctxDone
    BY <1>10, <1>inv DEF EnqueuePanics, At, UsableBeforeStop, Users
  <2>2. crashed' = "send on closed channel" /\ UNCHANGED <<relayState, sessionState, processState>>
    BY <1>10 DEF EnqueuePanics, Panic
  <2> QED BY <2>1, <2>2, <1>panics DEF Panics
<1>11. ASSUME NEW s \in Sessions, SendLoop(s) PROVE SessionInv'
  <2>1. /\ UNCHANGED <<relayState, target, closed, processState, crashed>>
        /\ loop[s] = "running" /\ loop' \in {loop, [loop EXCEPT ![s] = "done"]}
        /\ sendCh' = sendCh \/ (sendCh[s] # << >> /\ sendCh' = [sendCh EXCEPT ![s] = Tail(sendCh[s])])
    BY <1>11 DEF SendLoop, SendOK, SendFails, SendLoopEnds
  <2>2. ChannelsTyped'
    <3>1. sendCh[s] \in Seq(Envelopes) /\ Len(sendCh[s]) <= SendBuf /\ SendBuf \in Nat
      BY <1>types, ConstantsAssumption DEF ChannelsTyped
    <3>2. sendCh[s] # << >> => Tail(sendCh[s]) \in Seq(Envelopes) /\ Len(Tail(sendCh[s])) <= SendBuf
      BY <3>1
    <3> QED BY <2>1, <3>2, <1>types DEF ChannelsTyped
  <2>3. LoopsTyped'
    BY <2>1, <1>types DEF LoopsTyped
  <2>4. Typed'
    BY <2>1, <2>2, <2>3, <1>types DEF Typed, ProcsTyped, MapTyped, RestTyped, ClosedTyped, relayState, processState, settings
  <2>5. /\ \A t \in Sessions : loop'[t] = loop[t] \/ (loop[t] = "running" /\ loop'[t] = "done")
        /\ UNCHANGED <<streams, isNil, ctxDone, target, closed, crashed, pc, held, todo, nth>>
    BY <2>1, <1>types DEF LoopsTyped, relayState, processState
  <2>6. OneOwner' /\ Unknown' /\ ClosedByOwner'
    BY <2>5, <1>inv DEF OneOwner, Unknown, ClosedByOwner, Carries
  <2>7. HandsKnown'
    BY <2>5, <1>inv, <1>hand, <1>sets DEF HandsKnown, Address, InHand
  <2>8. UsableBeforeStop' /\ ClosedOnce'
    BY <2>5, <1>inv DEF UsableBeforeStop, ClosedOnce, Carries
  <2>9. NoOrphanSession'
    BY <2>5, <1>inv DEF NoOrphanSession, Accounted, Alive
  <2> QED BY <2>4, <2>6, <2>7, <2>8, <2>9 DEF SessionInv
<1>12. ASSUME NEW p \in Processes, Close(p) PROVE SessionInv'
  <2>types. ChannelsTyped'
    <3>1. CASE sendCh' = sendCh
      BY <3>1, <1>types DEF ChannelsTyped
    <3>2. CASE Room(held[p]) /\ sendCh' = [sendCh EXCEPT ![held[p]] = Append(sendCh[held[p]], "close")]
      <4>1. held[p] \in Sessions
        BY <1>12, <1>hand DEF Close, At, InHand
      <4>2. /\ sendCh[held[p]] \in Seq(Envelopes) /\ Append(sendCh[held[p]], "close") \in Seq(Envelopes)
            /\ Len(Append(sendCh[held[p]], "close")) = Len(sendCh[held[p]]) + 1
        BY <4>1, <1>types DEF ChannelsTyped, Envelopes
      <4> QED BY <3>2, <4>1, <4>2, <1>types, ConstantsAssumption DEF ChannelsTyped, Room
    <3> QED BY <1>12, <3>1, <3>2 DEF Close
  <2>1. ASSUME p \in Callers, pc[p] = "close", loop[held[p]] = "done", NEW s \in todo[p], held' = [held EXCEPT ![p] = s],
               todo' = [todo EXCEPT ![p] = {}], GoTo(p, "enqueue")
        PROVE  SessionInv'
    <3>1. /\ Move(p, "enqueue", s, {})
         /\ UNCHANGED <<isNil, streams, seq, isRunning, ctxDone, transport, policy, startDone, loop, target, closed, nth, crashed>>
      BY <1>12, <2>1, <1>types, <1>sets DEF Close, At, GoTo, ProcsTyped, Move, relayState, sessionState, settings, processState
    <3>2. ProcsTyped' /\ Moved(p, "enqueue", s, {})
      BY <1>12, <2>1, <3>1, <1>types, <1>sets, <1>hand, MoveTyped DEF CallerPlaces, StopperPlaces, InHand, Close, At, CloseChan, CloseWait
    <3>3. Typed'
      BY <3>1, <3>2, <2>types, <1>types DEF Typed, MapTyped, LoopsTyped, RestTyped, ClosedTyped
    <3>4. OneOwner'
      BY <2>1, <3>1, <3>2, <1>inv, <1>sets, <1>hand DEF Moved, Carries, InHand, OneOwner, Unknown, ClosedByOwner
    <3>5. Unknown'
      BY <2>1, <3>1, <3>2, <1>inv, <1>sets, <1>hand DEF Moved, Carries, InHand, Unknown
    <3>6. ClosedByOwner'
      BY <2>1, <3>1, <3>2, <1>inv, <1>sets, <1>hand DEF Moved, Carries, InHand, ClosedByOwner, Unknown, OneOwner
    <3>7. HandsKnown'
      BY <2>1, <3>1, <3>2, <1>inv, <1>sets, <1>hand DEF Moved, Carries, InHand, HandsKnown, Unknown, Address
    <3>8. UsableBeforeStop'
      BY <2>1, <3>1, <3>2, <1>inv, <1>sets, <1>hand DEF Moved, Carries, InHand, UsableBeforeStop, Users, OneOwner, Unknown, ClosedByOwner
    <3>9. NoOrphanSession'
      BY <2>1, <3>1, <3>2, <1>inv, <1>sets, <1>hand DEF Moved, Carries, InHand, NoOrphanSession, Accounted, Closing, OneOwner, Unknown, Alive
    <3>10. ClosedOnce'
      BY <2>1, <3>1, <3>2, <1>inv, <1>sets, <1>hand DEF Moved, Carries, InHand, ClosedOnce, ClosedByOwner
    <3> QED BY <3>3, <3>4, <3>5, <3>6, <3>7, <3>8, <3>9, <3>10 DEF SessionInv
  <2>2. ASSUME p \in Stoppers, pc[p] = "close", loop[held[p]] = "done", AfterClose(p) PROVE SessionInv'
    <3>1. /\ Move(p, "each", None, todo[p])
         /\ UNCHANGED <<isNil, streams, seq, isRunning, ctxDone, transport, policy, startDone, loop, target, closed, nth, crashed>>
      BY <1>12, <2>2, <1>types, <1>sets DEF Close, AfterClose, At, GoTo, ProcsTyped, Move, relayState, sessionState, settings, processState
    <3>2. ProcsTyped' /\ Moved(p, "each", None, todo[p])
      BY <1>12, <2>2, <3>1, <1>types, <1>sets, <1>hand, MoveTyped DEF CallerPlaces, StopperPlaces, InHand, Close, At, CloseChan, CloseWait
    <3>3. Typed'
      BY <3>1, <3>2, <2>types, <1>types DEF Typed, MapTyped, LoopsTyped, RestTyped, ClosedTyped
    <3>4. OneOwner'
      BY <2>2, <3>1, <3>2, <1>inv, <1>sets, <1>hand DEF Moved, Carries, InHand, OneOwner, Unknown, ClosedByOwner
    <3>5. Unknown'
      BY <2>2, <3>1, <3>2, <1>inv, <1>sets, <1>hand DEF Moved, Carries, InHand, Unknown
    <3>6. ClosedByOwner'
      BY <2>2, <3>1, <3>2, <1>inv, <1>sets, <1>hand DEF Moved, Carries, InHand, ClosedByOwner, Unknown, OneOwner
    <3>7. HandsKnown'
      BY <2>2, <3>1, <3>2, <1>inv, <1>sets, <1>hand DEF Moved, Carries, InHand, HandsKnown, Unknown, Address
    <3>8. UsableBeforeStop'
      BY <2>2, <3>1, <3>2, <1>inv, <1>sets, <1>hand DEF Moved, Carries, InHand, UsableBeforeStop, Users, OneOwner, Unknown, ClosedByOwner
    <3>9. NoOrphanSession'
      BY <2>2, <3>1, <3>2, <1>inv, <1>sets, <1>hand DEF Moved, Carries, InHand, NoOrphanSession, Accounted, Closing, OneOwner, Unknown, Alive
    <3>10. ClosedOnce'
      BY <2>2, <3>1, <3>2, <1>inv, <1>sets, <1>hand DEF Moved, Carries, InHand, ClosedOnce, ClosedByOwner
    <3> QED BY <3>3, <3>4, <3>5, <3>6, <3>7, <3>8, <3>9, <3>10 DEF SessionInv
  <2>3. CASE loop[held[p]] # "done"
    <3>1. /\ Move(p, "closeChan", held[p], todo[p])
         /\ UNCHANGED <<isNil, streams, seq, isRunning, ctxDone, transport, policy, startDone, loop, target, closed, nth, crashed>>
         /\ pc[p] = "close"
      BY <1>12, <2>3, <1>types, <1>sets DEF Close, At, GoTo, ProcsTyped, Move, relayState, sessionState, settings, processState
    <3>2. ProcsTyped' /\ Moved(p, "closeChan", held[p], todo[p])
      BY <1>12, <2>3, <3>1, <1>types, <1>sets, <1>hand, MoveTyped DEF CallerPlaces, StopperPlaces, InHand, Close, At, CloseChan, CloseWait
    <3>3. Typed'
      BY <3>1, <3>2, <2>types, <1>types DEF Typed, MapTyped, LoopsTyped, RestTyped, ClosedTyped
    <3>4. OneOwner'
      BY <2>3, <3>1, <3>2, <1>inv, <1>sets, <1>hand DEF Moved, Carries, InHand, OneOwner, Unknown, ClosedByOwner
    <3>5. Unknown'
      BY <2>3, <3>1, <3>2, <1>inv, <1>sets, <1>hand DEF Moved, Carries, InHand, Unknown
    <3>6. ClosedByOwner'
      BY <2>3, <3>1, <3>2, <1>inv, <1>sets, <1>hand DEF Moved, Carries, InHand, ClosedByOwner, Unknown, OneOwner
    <3>7. HandsKnown'
      BY <2>3, <3>1, <3>2, <1>inv, <1>sets, <1>hand DEF Moved, Carries, InHand, HandsKnown, Unknown, Address
    <3>8. UsableBeforeStop'
      BY <2>3, <3>1, <3>2, <1>inv, <1>sets, <1>hand DEF Moved, Carries, InHand, UsableBeforeStop, Users, OneOwner, Unknown, ClosedByOwner
    <3>9. NoOrphanSession'
      BY <2>3, <3>1, <3>2, <1>inv, <1>sets, <1>hand DEF Moved, Carries, InHand, NoOrphanSession, Accounted, Closing, OneOwner, Unknown, Alive
    <3>10. ClosedOnce'
      BY <2>3, <3>1, <3>2, <1>inv, <1>sets, <1>hand DEF Moved, Carries, InHand, ClosedOnce, ClosedByOwner
    <3> QED BY <3>3, <3>4, <3>5, <3>6, <3>7, <3>8, <3>9, <3>10 DEF SessionInv
  <2> QED BY <1>12, <2>1, <2>2, <2>3, <1>sets DEF Close, AfterClose, At
<1>13. ASSUME NEW p \in Processes, CloseChan(p) PROVE SessionInv'
  <2>1. pc[p] = "closeChan" /\ held[p] \in Sessions
    BY <1>13, <1>hand DEF CloseChan, At, InHand
  <2>2. ~closed[held[p]]
    BY <2>1, <1>inv DEF ClosedByOwner, Carries
  <2>types. ChannelsTyped'
    BY <1>13, <1>types DEF CloseChan, ChannelsTyped
  <2>3. closed' = [closed EXCEPT ![held[p]] = TRUE]
    BY <1>13, <2>2 DEF CloseChan
  <2>4. loop[held[p]] # "unborn"
    BY <2>1, <1>inv DEF Unknown
  <2>5. SessionInv'
    <3>1. /\ Move(p, "closeWait", held[p], todo[p]) /\ pc[p] = "closeChan" /\ loop[held[p]] # "unborn"
          /\ UNCHANGED <<isNil, streams, seq, isRunning, ctxDone, transport, policy, startDone, loop, target, nth, crashed>>
      BY <1>13, <2>1, <2>2, <2>4, <1>types DEF CloseChan, GoTo, ProcsTyped, Move, relayState, settings
    <3>2. ProcsTyped' /\ Moved(p, "closeWait", held[p], todo[p])
      BY <2>1, <3>1, <1>types, <1>sets, <1>hand, MoveTyped DEF CallerPlaces, StopperPlaces, InHand
    <3>3. ClosedTyped' /\ \A t \in Sessions : closed'[t] => closed[t] \/ t = held[p]
      BY <2>1, <2>3, <1>types DEF ClosedTyped
    <3>4. Typed'
      BY <3>1, <3>2, <3>3, <2>types, <1>types DEF Typed, MapTyped, LoopsTyped, RestTyped
    <3>5. OneOwner'
      BY <3>1, <3>2, <3>3, <2>1, <1>inv, <1>sets, <1>hand DEF Moved, Carries, InHand, OneOwner, Unknown, ClosedByOwner
    <3>6. Unknown'
      BY <3>1, <3>2, <3>3, <2>1, <1>inv, <1>sets, <1>hand DEF Moved, Carries, InHand, Unknown
    <3>7. ClosedByOwner'
      BY <3>1, <3>2, <3>3, <2>1, <1>inv, <1>sets, <1>hand DEF Moved, Carries, InHand, ClosedByOwner, Unknown, OneOwner
    <3>8. HandsKnown'
      BY <3>1, <3>2, <3>3, <2>1, <1>inv, <1>sets, <1>hand DEF Moved, Carries, InHand, HandsKnown, Unknown, Address
    <3>9. UsableBeforeStop'
      BY <3>1, <3>2, <3>3, <2>1, <1>inv, <1>sets, <1>hand DEF Moved, Carries, InHand, UsableBeforeStop, Users, OneOwner, Unknown, ClosedByOwner
    <3>10. NoOrphanSession'
      BY <3>1, <3>2, <3>3, <2>1, <1>inv, <1>sets, <1>hand DEF Moved, Carries, InHand, NoOrphanSession, Accounted, Closing, OneOwner, Unknown, Alive
    <3>11. ClosedOnce'
      BY <3>1, <3>2, <3>3, <2>1, <1>inv, <1>sets, <1>hand DEF Moved, Carries, InHand, ClosedOnce, ClosedByOwner
    <3> QED BY <3>4, <3>5, <3>6, <3>7, <3>8, <3>9, <3>10, <3>11 DEF SessionInv
  <2> QED BY <2>5
<1>14. ASSUME NEW p \in Processes, CloseWait(p) PROVE SessionInv'
  <2>types. ChannelsTyped'
    BY <1>14, <1>types DEF CloseWait, sessionState, ChannelsTyped
  <2>1. ASSUME p \in Callers, pc[p] = "closeWait", loop[held[p]] = "done", NEW s \in todo[p], held' = [held EXCEPT ![p] = s],
               todo' = [todo EXCEPT ![p] = {}], GoTo(p, "enqueue")
        PROVE  SessionInv'
    <3>1. /\ Move(p, "enqueue", s, {})
         /\ UNCHANGED <<isNil, streams, seq, isRunning, ctxDone, transport, policy, startDone, loop, target, closed, nth, crashed>>
      BY <1>14, <2>1, <1>types, <1>sets DEF CloseWait, At, GoTo, ProcsTyped, Move, relayState, sessionState, settings, processState
    <3>2. ProcsTyped' /\ Moved(p, "enqueue", s, {})
      BY <1>14, <2>1, <3>1, <1>types, <1>sets, <1>hand, MoveTyped DEF CallerPlaces, StopperPlaces, InHand, Close, At, CloseChan, CloseWait
    <3>3. Typed'
      BY <3>1, <3>2, <2>types, <1>types DEF Typed, MapTyped, LoopsTyped, RestTyped, ClosedTyped
    <3>4. OneOwner'
      BY <2>1, <3>1, <3>2, <1>inv, <1>sets, <1>hand DEF Moved, Carries, InHand, OneOwner, Unknown, ClosedByOwner
    <3>5. Unknown'
      BY <2>1, <3>1, <3>2, <1>inv, <1>sets, <1>hand DEF Moved, Carries, InHand, Unknown
    <3>6. ClosedByOwner'
      BY <2>1, <3>1, <3>2, <1>inv, <1>sets, <1>hand DEF Moved, Carries, InHand, ClosedByOwner, Unknown, OneOwner
    <3>7. HandsKnown'
      BY <2>1, <3>1, <3>2, <1>inv, <1>sets, <1>hand DEF Moved, Carries, InHand, HandsKnown, Unknown, Address
    <3>8. UsableBeforeStop'
      BY <2>1, <3>1, <3>2, <1>inv, <1>sets, <1>hand DEF Moved, Carries, InHand, UsableBeforeStop, Users, OneOwner, Unknown, ClosedByOwner
    <3>9. NoOrphanSession'
      BY <2>1, <3>1, <3>2, <1>inv, <1>sets, <1>hand DEF Moved, Carries, InHand, NoOrphanSession, Accounted, Closing, OneOwner, Unknown, Alive
    <3>10. ClosedOnce'
      BY <2>1, <3>1, <3>2, <1>inv, <1>sets, <1>hand DEF Moved, Carries, InHand, ClosedOnce, ClosedByOwner
    <3> QED BY <3>3, <3>4, <3>5, <3>6, <3>7, <3>8, <3>9, <3>10 DEF SessionInv
  <2>2. ASSUME p \in Stoppers, pc[p] = "closeWait", loop[held[p]] = "done", AfterClose(p) PROVE SessionInv'
    <3>1. /\ Move(p, "each", None, todo[p])
         /\ UNCHANGED <<isNil, streams, seq, isRunning, ctxDone, transport, policy, startDone, loop, target, closed, nth, crashed>>
      BY <1>14, <2>2, <1>types, <1>sets DEF CloseWait, AfterClose, At, GoTo, ProcsTyped, Move, relayState, sessionState, settings, processState
    <3>2. ProcsTyped' /\ Moved(p, "each", None, todo[p])
      BY <1>14, <2>2, <3>1, <1>types, <1>sets, <1>hand, MoveTyped DEF CallerPlaces, StopperPlaces, InHand, Close, At, CloseChan, CloseWait
    <3>3. Typed'
      BY <3>1, <3>2, <2>types, <1>types DEF Typed, MapTyped, LoopsTyped, RestTyped, ClosedTyped
    <3>4. OneOwner'
      BY <2>2, <3>1, <3>2, <1>inv, <1>sets, <1>hand DEF Moved, Carries, InHand, OneOwner, Unknown, ClosedByOwner
    <3>5. Unknown'
      BY <2>2, <3>1, <3>2, <1>inv, <1>sets, <1>hand DEF Moved, Carries, InHand, Unknown
    <3>6. ClosedByOwner'
      BY <2>2, <3>1, <3>2, <1>inv, <1>sets, <1>hand DEF Moved, Carries, InHand, ClosedByOwner, Unknown, OneOwner
    <3>7. HandsKnown'
      BY <2>2, <3>1, <3>2, <1>inv, <1>sets, <1>hand DEF Moved, Carries, InHand, HandsKnown, Unknown, Address
    <3>8. UsableBeforeStop'
      BY <2>2, <3>1, <3>2, <1>inv, <1>sets, <1>hand DEF Moved, Carries, InHand, UsableBeforeStop, Users, OneOwner, Unknown, ClosedByOwner
    <3>9. NoOrphanSession'
      BY <2>2, <3>1, <3>2, <1>inv, <1>sets, <1>hand DEF Moved, Carries, InHand, NoOrphanSession, Accounted, Closing, OneOwner, Unknown, Alive
    <3>10. ClosedOnce'
      BY <2>2, <3>1, <3>2, <1>inv, <1>sets, <1>hand DEF Moved, Carries, InHand, ClosedOnce, ClosedByOwner
    <3> QED BY <3>3, <3>4, <3>5, <3>6, <3>7, <3>8, <3>9, <3>10 DEF SessionInv
  <2> QED BY <1>14, <2>1, <2>2, <1>sets DEF CloseWait, AfterClose, At
<1>15. ASSUME NEW p \in Stoppers, Stop(p) PROVE SessionInv'
  <2>1. /\ Move(p, "take", held[p], todo[p])
       /\ UNCHANGED <<isNil, streams, seq, isRunning, transport, policy, startDone, loop, target, sendCh, closed, nth, crashed>>
       /\ pc[p] = "idle"
       /\ ctxDone' = TRUE
    BY <1>15, <1>types, <1>sets DEF Stop, At, GoTo, Alive, ProcsTyped, Move, relayState, sessionState, settings, processState
  <2>2. ProcsTyped' /\ Moved(p, "take", held[p], todo[p])
    BY <2>1, <1>types, <1>sets, <1>hand, <1>address, MoveTyped DEF CallerPlaces, StopperPlaces, InHand, MapTyped
  <2>3. RestTyped'
    BY <2>1, ConstantsAssumption, <1>types, <1>sets, <1>hand, <1>address DEF RestTyped
  <2>4. Typed'
    BY <2>1, <2>2, <2>3, <1>types DEF Typed, MapTyped, LoopsTyped, ChannelsTyped, ClosedTyped
  <2>5. OneOwner'
    BY <2>1, <2>2, <1>inv, <1>sets, <1>hand DEF Moved, Carries, InHand, OneOwner, Unknown, ClosedByOwner
  <2>6. Unknown'
    BY <2>1, <2>2, <1>inv, <1>sets, <1>hand DEF Moved, Carries, InHand, Unknown
  <2>7. ClosedByOwner'
    BY <2>1, <2>2, <1>inv, <1>sets, <1>hand DEF Moved, Carries, InHand, ClosedByOwner, Unknown, OneOwner
  <2>8. HandsKnown'
    BY <2>1, <2>2, <1>inv, <1>sets, <1>hand DEF Moved, Carries, InHand, HandsKnown, Unknown, Address
  <2>9. UsableBeforeStop'
    BY <2>1, <2>2, <1>inv, <1>sets, <1>hand DEF Moved, Carries, InHand, UsableBeforeStop, Users, OneOwner, Unknown, ClosedByOwner
  <2>10. NoOrphanSession'
    BY <2>1, <2>2, <1>inv, <1>sets, <1>hand DEF Moved, Carries, InHand, NoOrphanSession, Accounted, Closing, OneOwner, Unknown, Alive
  <2>11. ClosedOnce'
    BY <2>1, <2>2, <1>inv, <1>sets, <1>hand DEF Moved, Carries, InHand, ClosedOnce, ClosedByOwner
  <2> QED BY <2>4, <2>5, <2>6, <2>7, <2>8, <2>9, <2>10, <2>11 DEF SessionInv
<1>16. ASSUME NEW p \in Stoppers, TakeStreams(p) PROVE SessionInv'
  <2>1. /\ Move(p, "each", held[p], ({streams[a] : a \in Addresses} \ {None}))
       /\ UNCHANGED <<seq, isRunning, ctxDone, transport, policy, startDone, loop, target, sendCh, closed, nth, crashed>>
       /\ pc[p] = "take"
       /\ isNil' = TRUE
       /\ streams' = [a \in Addresses |-> None]
    BY <1>16, <1>types, <1>sets DEF TakeStreams, At, GoTo, Alive, ProcsTyped, Move, relayState, sessionState, settings, processState
  <2>2. ProcsTyped' /\ Moved(p, "each", held[p], ({streams[a] : a \in Addresses} \ {None}))
    BY <2>1, <1>types, <1>sets, <1>hand, <1>address, MoveTyped DEF CallerPlaces, StopperPlaces, InHand, MapTyped
  <2>3. MapTyped'
    BY <2>1, ConstantsAssumption, <1>types, <1>sets, <1>hand, <1>address DEF MapTyped
  <2>4. RestTyped'
    BY <2>1, ConstantsAssumption, <1>types, <1>sets, <1>hand, <1>address DEF RestTyped
  <2>5. Typed'
    BY <2>1, <2>2, <2>3, <2>4, <1>types DEF Typed, LoopsTyped, ChannelsTyped, ClosedTyped
  <2>6. \A a \in Addresses : streams'[a] = None
    BY <2>1, <1>types, <1>inv, <1>sets, <1>hand, <1>address DEF MapTyped
  <2>7. ctxDone
    BY <2>1, <1>types, <1>inv, <1>sets, <1>hand, <1>address DEF UsableBeforeStop
  <2>8. \A s \in Sessions : target[s] \in Addresses /\ (streams[target[s]] = s => s \in todo'[p])
    BY <2>1, <1>types, <1>inv, <1>sets, <1>hand, <1>address DEF LoopsTyped, Move, ProcsTyped
  <2>9. todo[p] = {}
    BY <2>1, <1>types, <1>inv, <1>sets, <1>hand, <1>address DEF Unknown
  <2>10. OneOwner'
    BY <2>1, <2>2, <2>6, <2>7, <2>8, <2>9, <1>inv, <1>sets, <1>hand DEF Moved, Carries, InHand, OneOwner, Unknown, ClosedByOwner
  <2>11. Unknown'
    BY <2>1, <2>2, <2>6, <2>7, <2>8, <2>9, <1>inv, <1>sets, <1>hand DEF Moved, Carries, InHand, Unknown
  <2>12. ClosedByOwner'
    BY <2>1, <2>2, <2>6, <2>7, <2>8, <2>9, <1>inv, <1>sets, <1>hand DEF Moved, Carries, InHand, ClosedByOwner, Unknown, OneOwner
  <2>13. HandsKnown'
    BY <2>1, <2>2, <2>6, <2>7, <2>8, <2>9, <1>inv, <1>sets, <1>hand DEF Moved, Carries, InHand, HandsKnown, Unknown, Address
  <2>14. UsableBeforeStop'
    BY <2>1, <2>2, <2>6, <2>7, <2>8, <2>9, <1>inv, <1>sets, <1>hand DEF Moved, Carries, InHand, UsableBeforeStop, Users, OneOwner, Unknown, ClosedByOwner
  <2>15. NoOrphanSession'
    BY <2>1, <2>2, <2>6, <2>7, <2>8, <2>9, <1>inv, <1>sets, <1>hand DEF Moved, Carries, InHand, NoOrphanSession, Accounted, Closing, OneOwner, Unknown, Alive
  <2>16. ClosedOnce'
    BY <2>1, <2>2, <2>6, <2>7, <2>8, <2>9, <1>inv, <1>sets, <1>hand DEF Moved, Carries, InHand, ClosedOnce, ClosedByOwner
  <2> QED BY <2>5, <2>10, <2>11, <2>12, <2>13, <2>14, <2>15, <2>16 DEF SessionInv
<1>17. ASSUME NEW p \in Stoppers, NEW s \in Sessions, CloseNext(p, s) PROVE SessionInv'
  <2>1. /\ Move(p, "close", s, (todo[p] \ {s}))
       /\ UNCHANGED <<isNil, streams, seq, isRunning, ctxDone, transport, policy, startDone, loop, target, sendCh, closed, nth, crashed>>
       /\ pc[p] = "each" /\ s \in todo[p]
    BY <1>17, <1>types, <1>sets DEF CloseNext, At, GoTo, Alive, ProcsTyped, Move, relayState, sessionState, settings, processState
  <2>2. ProcsTyped' /\ Moved(p, "close", s, (todo[p] \ {s}))
    BY <2>1, <1>types, <1>sets, <1>hand, <1>address, MoveTyped DEF CallerPlaces, StopperPlaces, InHand, MapTyped
  <2>3. Typed'
    BY <2>1, <2>2, <1>types DEF Typed, MapTyped, LoopsTyped, ChannelsTyped, RestTyped, ClosedTyped
  <2>4. OneOwner'
    BY <2>1, <2>2, <1>inv, <1>sets, <1>hand DEF Moved, Carries, InHand, OneOwner, Unknown, ClosedByOwner
  <2>5. Unknown'
    BY <2>1, <2>2, <1>inv, <1>sets, <1>hand DEF Moved, Carries, InHand, Unknown
  <2>6. ClosedByOwner'
    BY <2>1, <2>2, <1>inv, <1>sets, <1>hand DEF Moved, Carries, InHand, ClosedByOwner, Unknown, OneOwner
  <2>7. HandsKnown'
    BY <2>1, <2>2, <1>inv, <1>sets, <1>hand DEF Moved, Carries, InHand, HandsKnown, Unknown, Address
  <2>8. UsableBeforeStop'
    BY <2>1, <2>2, <1>inv, <1>sets, <1>hand DEF Moved, Carries, InHand, UsableBeforeStop, Users, OneOwner, Unknown, ClosedByOwner
  <2>9. NoOrphanSession'
    BY <2>1, <2>2, <1>inv, <1>sets, <1>hand DEF Moved, Carries, InHand, NoOrphanSession, Accounted, Closing, OneOwner, Unknown, Alive
  <2>10. ClosedOnce'
    BY <2>1, <2>2, <1>inv, <1>sets, <1>hand DEF Moved, Carries, InHand, ClosedOnce, ClosedByOwner
  <2> QED BY <2>3, <2>4, <2>5, <2>6, <2>7, <2>8, <2>9, <2>10 DEF SessionInv
<1>18. ASSUME NEW p \in Stoppers, StopReturns(p) PROVE SessionInv'
  <2>1. /\ Move(p, "gone", held[p], todo[p])
       /\ UNCHANGED <<isNil, streams, seq, ctxDone, transport, policy, startDone, loop, target, sendCh, closed, nth, crashed>>
       /\ pc[p] = "each" /\ todo[p] = {}
       /\ isRunning' = FALSE
    BY <1>18, <1>types, <1>sets DEF StopReturns, At, GoTo, Alive, ProcsTyped, Move, relayState, sessionState, settings, processState
  <2>2. ProcsTyped' /\ Moved(p, "gone", held[p], todo[p])
    BY <2>1, <1>types, <1>sets, <1>hand, <1>address, MoveTyped DEF CallerPlaces, StopperPlaces, InHand, MapTyped
  <2>3. RestTyped'
    BY <2>1, ConstantsAssumption, <1>types, <1>sets, <1>hand, <1>address DEF RestTyped
  <2>4. Typed'
    BY <2>1, <2>2, <2>3, <1>types DEF Typed, MapTyped, LoopsTyped, ChannelsTyped, ClosedTyped
  <2>5. OneOwner'
    BY <2>1, <2>2, <1>inv, <1>sets, <1>hand DEF Moved, Carries, InHand, OneOwner, Unknown, ClosedByOwner
  <2>6. Unknown'
    BY <2>1, <2>2, <1>inv, <1>sets, <1>hand DEF Moved, Carries, InHand, Unknown
  <2>7. ClosedByOwner'
    BY <2>1, <2>2, <1>inv, <1>sets, <1>hand DEF Moved, Carries, InHand, ClosedByOwner, Unknown, OneOwner
  <2>8. HandsKnown'
    BY <2>1, <2>2, <1>inv, <1>sets, <1>hand DEF Moved, Carries, InHand, HandsKnown, Unknown, Address
  <2>9. UsableBeforeStop'
    BY <2>1, <2>2, <1>inv, <1>sets, <1>hand DEF Moved, Carries, InHand, UsableBeforeStop, Users, OneOwner, Unknown, ClosedByOwner
  <2>10. NoOrphanSession'
    BY <2>1, <2>2, <1>inv, <1>sets, <1>hand DEF Moved, Carries, InHand, NoOrphanSession, Accounted, Closing, OneOwner, Unknown, Alive
  <2>11. ClosedOnce'
    BY <2>1, <2>2, <1>inv, <1>sets, <1>hand DEF Moved, Carries, InHand, ClosedOnce, ClosedByOwner
  <2> QED BY <2>4, <2>5, <2>6, <2>7, <2>8, <2>9, <2>10, <2>11 DEF SessionInv
<1>19. CASE Start
  <2>1. /\ pc' = [p \in Processes |-> IF p \in Readers THEN "idle" ELSE pc[p]]
        /\ \A r \in Readers : pc[r] = "off"
        /\ isRunning' = TRUE
        /\ UNCHANGED <<transport, policy, startDone, isNil, streams, seq, ctxDone, loop, target, sendCh, closed,
                       held, todo, nth, crashed>>
    BY <1>19 DEF Start, settings, sessionState
  <2>2. /\ \A p \in Processes : pc'[p] = pc[p] \/ (pc[p] = "off" /\ pc'[p] = "idle" /\ p \in Callers /\ held[p] = None)
        /\ pc' \in [Processes -> CallerPlaces \cup StopperPlaces]
    BY <2>1, <1>types, <1>sets, <1>hand DEF ProcsTyped, InHand, CallerPlaces
  <2>3. ProcsTyped'
    BY <2>1, <2>2, <1>types DEF ProcsTyped, CallerPlaces, InHand
  <2>4. RestTyped'
    BY <2>1, <1>types DEF RestTyped
  <2>5. Typed'
    BY <2>1, <2>3, <2>4, <1>types DEF Typed, MapTyped, LoopsTyped, ChannelsTyped, ClosedTyped
  <2>6. OneOwner' /\ Unknown'
    BY <2>1, <2>2, <1>inv, <1>sets DEF OneOwner, Unknown, Carries
  <2>7. ClosedByOwner' /\ HandsKnown'
    BY <2>1, <2>2, <1>inv, <1>sets DEF ClosedByOwner, HandsKnown, Carries, Address
  <2>8. UsableBeforeStop'
    BY <2>1, <2>2, <1>inv, <1>sets DEF UsableBeforeStop, Users, Carries
  <2>c. ClosedOnce'
    BY <2>1, <2>2, <1>inv, <1>sets DEF ClosedOnce, Carries
  <2>9. NoOrphanSession'
    BY <2>1, <2>2, <1>inv, <1>sets DEF NoOrphanSession, Accounted, Alive, Closing
  <2> QED BY <2>5, <2>6, <2>7, <2>8, <2>c, <2>9 DEF SessionInv
<1>20. CASE StartCtxCancelled \/ UNCHANGED vars
  <2>1. /\ startDone' \in BOOLEAN
        /\ UNCHANGED <<transport, policy, isNil, streams, seq, isRunning, ctxDone, loop, target, sendCh, closed,
                       pc, held, todo, nth, crashed>>
    BY <1>20, <1>types DEF StartCtxCancelled, vars, RestTyped, relayState, settings, sessionState, processState
  <2>2. RestTyped'
    BY <2>1, <1>types DEF RestTyped
  <2>3. Typed'
    BY <2>1, <2>2, <1>types DEF Typed, ProcsTyped, MapTyped, LoopsTyped, ChannelsTyped, ClosedTyped
  <2>4. OneOwner' /\ Unknown'
    BY <2>1, <1>inv DEF OneOwner, Unknown, Carries
  <2>5. ClosedByOwner' /\ HandsKnown'
    BY <2>1, <1>inv DEF ClosedByOwner, HandsKnown, Carries, Address
  <2>6. UsableBeforeStop' /\ ClosedOnce'
    BY <2>1, <1>inv DEF UsableBeforeStop, ClosedOnce, Carries
  <2>7. NoOrphanSession'
    BY <2>1, <1>inv DEF NoOrphanSession, Accounted, Alive
  <2> QED BY <2>3, <2>4, <2>5, <2>6, <2>7 DEF SessionInv
<1>21. ASSUME NEW c \in Callers, AnySubmit(c) \/ AnySubmitStep(c) PROVE SessionInv'
  <2>1. \/ Submit(c) \/ GetOrCreate(c) \/ Open(c) \/ Deliver(c) \/ CallerCancelled(c)
    BY <1>21 DEF AnySubmit, AnySubmitStep, GrpcSubmit, QuicSubmit, WsSubmit, WtSubmit, GrpcSubmitStep,
       QuicGetOrCreateStreamSession, QuicOpenStreamSession, QuicDeliver, WsGetOrCreateSession, WsOpenSession,
       WsDeliver, WtGetOrCreateSession, WtOpenSession, WtDeliver
  <2> QED BY <2>1, <1>2, <1>3, <1>4, <1>5, <1>6, <1>7, <1>8, <1>9, <1>10 DEF GetOrCreate, Open, Deliver, Release
<1>22. ASSUME NEW p \in Processes, AnyClose(p) PROVE SessionInv'
  BY <1>22, <1>12, <1>13, <1>14 DEF AnyClose, GrpcClose, QuicSessionClose, WsSessionClose, WtSessionClose, CloseStep
<1>23. ASSUME NEW p \in Stoppers, GrpcStop(p) \/ QuicStop(p) \/ WsStop(p) \/ WtStop(p) \/ AnyCloseAll(p)
       PROVE SessionInv'
  BY <1>23, <1>15, <1>16, <1>17, <1>18 DEF GrpcStop, QuicStop, WsStop, WtStop, AnyCloseAll, GrpcCloseAllStreams,
     QuicCloseAllStreams, WsCloseAllStreams, WtCloseAllSessions, StopStep
<1>24. ASSUME NEW s \in Sessions, AnySendLoop(s) PROVE SessionInv'
  BY <1>24, <1>11 DEF AnySendLoop, GrpcSendLoop, QuicStreamSendLoop, WsSessionSendLoop, WtSessionSendLoop
<1>25. ASSUME NEW r \in Readers, AnyReader(r) PROVE SessionInv'
  BY <1>25, <1>1 DEF AnyReader, GrpcReadFromInput, QuicReadFromInput, WsReader, WtReader
<1> QED
  BY <1>19, <1>20, <1>21, <1>22, <1>23, <1>24, <1>25
     DEF Next, GrpcStart, QuicStart, WsStart, WtStart

LEMMA SessionInvInit == Init => SessionInv
<1> SUFFICES ASSUME Init PROVE SessionInv
  OBVIOUS
<1>1. Len(Targets) \in Nat \ {0} /\ Targets[1] \in Addresses /\ 1 \in DOMAIN Targets
  <2>1. Len(Targets) \in Nat \ {0} /\ DOMAIN Targets = 1..Len(Targets)
    BY ConstantsAssumption
  <2>2. 1 \in DOMAIN Targets
    BY <2>1
  <2> QED BY <2>1, <2>2 DEF Addresses
<1>2. ProcsTyped
  BY ConstantsAssumption DEF Init, ProcsTyped, CallerPlaces, StopperPlaces, InHand, Processes, Callers
<1>3. MapTyped /\ LoopsTyped /\ ClosedTyped
  BY <1>1 DEF Init, MapTyped, LoopsTyped, ClosedTyped
<1>4. ChannelsTyped
  BY ConstantsAssumption DEF Init, ChannelsTyped
<1>5. RestTyped
  <2>1. <<transport, policy>> \in Variants
    <3>1. PICK v \in Variants : transport = v[1] /\ policy = v[2]
      BY DEF Init
    <3>2. v = <<v[1], v[2]>>
      BY ConstantsAssumption
    <3> QED BY <3>1, <3>2
  <2>2. isNil \in BOOLEAN /\ isRunning \in BOOLEAN /\ ctxDone \in BOOLEAN /\ startDone \in BOOLEAN
    BY DEF Init
  <2>3. nth \in [Callers -> DOMAIN Targets]
    BY <1>1 DEF Init
  <2>4. seq \in 0..MaxSeq /\ crashed \in Panics \cup {"no"}
    BY ConstantsAssumption DEF Init
  <2> QED BY <2>1, <2>2, <2>3, <2>4 DEF RestTyped
<1>6. /\ \A p \in Processes : held[p] = None /\ todo[p] = {} /\ pc[p] \in {"off", "idle"}
      /\ \A a \in Addresses : streams[a] = None
      /\ \A s \in Sessions : ~closed[s] /\ loop[s] = "unborn" /\ s # None
      /\ \A c \in Callers : c \in Processes
      /\ \A p \in Stoppers : p \in Processes /\ pc[p] = "idle"
      /\ crashed = "no"
  BY ConstantsAssumption DEF Init, Processes, Callers, Sessions
<1>7. OneOwner /\ Unknown /\ ClosedByOwner
  BY <1>6 DEF OneOwner, Unknown, ClosedByOwner, Carries
<1>8. HandsKnown /\ UsableBeforeStop
  BY <1>6 DEF HandsKnown, UsableBeforeStop, Users, Carries
<1>9. NoOrphanSession /\ ClosedOnce
  BY <1>6 DEF NoOrphanSession, ClosedOnce
<1> QED BY <1>2, <1>3, <1>4, <1>5, <1>7, <1>8, <1>9 DEF SessionInv, Typed

\* However many callers, targets, sessions and overlapping Stops there are, no relay leaves
\* a running send loop that nobody will close, closes a channel twice, or panics before
\* Stop is called.
THEOREM SessionsSafe == Spec => []SessionsSound
<1>1. SessionInv => SessionsSound
  <2> SUFFICES ASSUME SessionInv PROVE SessionsSound
    OBVIOUS
  <2>1. TypeOK
    BY DEF SessionInv, Typed, ProcsTyped, MapTyped, LoopsTyped, ChannelsTyped, RestTyped, ClosedTyped, TypeOK
  <2>2. PanicOnlyByStop
    BY DEF SessionInv, UsableBeforeStop, PanicOnlyByStop
  <2> QED BY <2>1, <2>2 DEF SessionInv, SessionsSound
<1> QED BY <1>1, SessionInvInit, SessionInvNext, PTL DEF Spec
=============================================================================
