------------------------ MODULE CircuitBreakerProofs ------------------------
(***************************************************************************)
(* Proofs about CircuitBreaker for any finite set of callers, any          *)
(* threshold and window, and any bound on the time spent waiting for the   *)
(* lock.                                                                   *)
(***************************************************************************)
EXTENDS CircuitBreaker, FiniteSetTheorems, TLAPS

USE DEF NoTime, Calls, Notices

\* The clamp of NewCircuitBreaker makes the window a natural number.
LEMMA WindowNat == timeWindow \in Nat
BY PolicyAssumption DEF timeWindow

-----------------------------------------------------------------------------
\* The two Boolean fields of TypeOK, and the rest.
Flags == allowed \in BOOLEAN /\ resetOwed \in BOOLEAN
Fields ==
    /\ clock \in Nat
    /\ errorCount \in Nat
    /\ lastErrorTime \in Nat \cup {NoTime}
    /\ lastTripped \in Nat \cup {NoTime}
    /\ debounce \in Nat
    /\ resetNotifyChan \in {0, 1}
    /\ pc \in [Callers -> {"idle"} \cup Calls \cup Notices]
    /\ now \in [Callers -> Nat]
    /\ deb \in [Callers -> Nat]
    /\ balance \in Int
    /\ openedAt \in Nat
    /\ \A c \in Callers :
        /\ now[c] <= clock
        /\ pc[c] \in Calls => clock - now[c] <= MaxDelay

LEMMA TypeParts == TypeOK <=> Flags /\ Fields
BY DEF TypeOK, Flags, Fields

LEMMA FlagsInductive == Flags /\ [Next]_vars => Flags'
<1> SUFFICES ASSUME Flags, [Next]_vars PROVE Flags'
  OBVIOUS
<1> USE DEF Flags, state, history
<1>1. ASSUME NEW c \in Callers, AllowLocked(c) \/ ResetLocked(c) PROVE Flags'
  BY <1>1 DEF AllowLocked, ResetLocked, Close
<1>2. ASSUME NEW c \in Callers, RecordErrorLocked(c) \/ TripLocked(c) PROVE Flags'
  BY <1>2 DEF RecordErrorLocked, TripLocked, Open
<1>3. CASE AwaitReset
  BY <1>3 DEF AwaitReset
<1>4. CASE UNCHANGED <<allowed, resetOwed>>
  BY <1>4
<1> QED
  BY <1>1, <1>2, <1>3, <1>4 DEF Next, Begin, NotifyTrip, NotifyReset, SignalReset,
     SetDebouncePeriod, Tick, vars

LEMMA FieldsInductive == Fields /\ [Next]_vars => Fields'
<1> SUFFICES ASSUME Fields, [Next]_vars PROVE Fields'
  OBVIOUS
<1> USE BoundsAssumption, PolicyAssumption DEF Fields, state, history
<1>1. ASSUME NEW c \in Callers, NEW call \in Calls, Begin(c, call) PROVE Fields'
  BY <1>1 DEF Begin
<1>2. ASSUME NEW c \in Callers, AllowLocked(c) PROVE Fields'
  BY <1>2 DEF AllowLocked, Close, Leave
<1>3. ASSUME NEW c \in Callers, RecordErrorLocked(c) PROVE Fields'
  BY <1>3 DEF RecordErrorLocked, Open, Leave
<1>4. ASSUME NEW c \in Callers, ResetLocked(c) PROVE Fields'
  BY <1>4 DEF ResetLocked, Close, Leave
<1>5. ASSUME NEW c \in Callers, TripLocked(c) PROVE Fields'
  BY <1>5 DEF TripLocked, Open, Leave
<1>6. ASSUME NEW c \in Callers, NotifyTrip(c) \/ NotifyReset(c) \/ SignalReset(c)
      PROVE Fields'
  BY <1>6 DEF NotifyTrip, NotifyReset, SignalReset
<1>7. CASE AwaitReset
  BY <1>7 DEF AwaitReset
<1>8. ASSUME NEW seconds \in DebouncePeriods, SetDebouncePeriod(seconds) PROVE Fields'
  BY <1>8 DEF SetDebouncePeriod
<1>9. CASE Tick
  BY <1>9 DEF Tick
<1>10. CASE UNCHANGED vars
  BY <1>10 DEF vars
<1> QED BY <1>1, <1>2, <1>3, <1>4, <1>5, <1>6, <1>7, <1>8, <1>9, <1>10 DEF Next

\* Every method of the breaker keeps the fields and the callers' locals typed.
THEOREM TypeCorrect == Spec => []TypeOK
<1>1. Init => Flags
  BY DEF Init, Flags
<1>2. Init => Fields
  BY BoundsAssumption DEF Init, Fields
<1> QED BY <1>1, <1>2, FlagsInductive, FieldsInductive, TypeParts, PTL DEF Spec

-----------------------------------------------------------------------------
\* A closed breaker always has its error budget intact, for every threshold,
\* zero and negative ones included.
THEOREM ThresholdSafe == Spec => []ClosedBelowThreshold
<1>1. Init => ClosedBelowThreshold
  BY DEF Init, ClosedBelowThreshold
<1>2. TypeOK /\ ClosedBelowThreshold /\ [Next]_vars => ClosedBelowThreshold'
  <2> SUFFICES ASSUME TypeOK, ClosedBelowThreshold, [Next]_vars PROVE ClosedBelowThreshold'
    OBVIOUS
  <2>0. errorCount \in Nat
    BY DEF TypeOK
  <2> USE <2>0, PolicyAssumption DEF ClosedBelowThreshold
  <2>1. ASSUME NEW c \in Callers, RecordErrorLocked(c) PROVE ClosedBelowThreshold'
    <3>1. ASSUME allowed'
          PROVE  \/ errorCount' = errorCount /\ allowed
                 \/ errorCount' = errorCount + 1 /\ allowed /\ ~ShouldTrip
      BY <2>1, <3>1 DEF RecordErrorLocked, Open, state
    <3> QED BY <3>1 DEF ShouldTrip
  <2>2. ASSUME NEW c \in Callers, AllowLocked(c) \/ ResetLocked(c) \/ TripLocked(c)
        PROVE ClosedBelowThreshold'
    BY <2>2 DEF AllowLocked, ResetLocked, TripLocked, Open, Close, state
  <2>3. CASE UNCHANGED state
    BY <2>3 DEF state
  <2> QED
    BY <2>1, <2>2, <2>3 DEF Next, Begin, NotifyTrip, NotifyReset, SignalReset, AwaitReset,
       SetDebouncePeriod, Tick, vars
<1> QED BY <1>1, <1>2, TypeCorrect, PTL DEF Spec

-----------------------------------------------------------------------------
\* No reset goes unsignalled although signalReset drops signals when the
\* channel is full.
THEOREM ResetSignalled == Spec => []ResetSignalNotLost
<1>1. Init => ResetSignalNotLost
  BY DEF Init, ResetSignalNotLost
<1>2. TypeOK /\ ResetSignalNotLost /\ [Next]_vars => ResetSignalNotLost'
  <2> SUFFICES ASSUME TypeOK, ResetSignalNotLost, [Next]_vars PROVE ResetSignalNotLost'
    OBVIOUS
  <2> USE DEF ResetSignalNotLost, TypeOK
  <2>1. ASSUME NEW c \in Callers, NEW call \in Calls, Begin(c, call)
        PROVE ResetSignalNotLost'
    BY <2>1 DEF Begin, history
  <2>2. ASSUME NEW c \in Callers, AllowLocked(c) \/ ResetLocked(c) PROVE ResetSignalNotLost'
    BY <2>2 DEF AllowLocked, ResetLocked, Close, Leave, history
  <2>3. ASSUME NEW c \in Callers, RecordErrorLocked(c) \/ TripLocked(c)
        PROVE ResetSignalNotLost'
    BY <2>3 DEF RecordErrorLocked, TripLocked, Open, Leave, history
  <2>4. ASSUME NEW c \in Callers, NotifyTrip(c) \/ NotifyReset(c) \/ SignalReset(c)
        PROVE ResetSignalNotLost'
    BY <2>4 DEF NotifyTrip, NotifyReset, SignalReset, history
  <2>5. CASE AwaitReset
    BY <2>5 DEF AwaitReset
  <2>6. CASE UNCHANGED <<resetNotifyChan, pc, history>>
    BY <2>6 DEF history
  <2> QED
    BY <2>1, <2>2, <2>3, <2>4, <2>5, <2>6 DEF Next, SetDebouncePeriod, Tick, vars
<1> QED BY <1>1, <1>2, TypeCorrect, PTL DEF Spec

-----------------------------------------------------------------------------
\* The trip time the breaker holds while it is open is at most MaxDelay
\* older than the moment it opened: the caller that opened it read the clock
\* before it got the lock.
OpenSince ==
    /\ openedAt <= clock
    /\ ~allowed => lastTripped \in Nat /\ openedAt - lastTripped <= MaxDelay

LEMMA OpenSinceInvariant == Spec => []OpenSince
<1>1. Init => OpenSince
  BY DEF Init, OpenSince
<1>2. TypeOK /\ OpenSince /\ [Next]_vars => OpenSince'
  <2> SUFFICES ASSUME TypeOK, OpenSince, [Next]_vars PROVE OpenSince'
    OBVIOUS
  <2> USE BoundsAssumption DEF OpenSince, TypeOK
  <2>1. ASSUME NEW c \in Callers, RecordErrorLocked(c) \/ TripLocked(c) PROVE OpenSince'
    BY <2>1 DEF RecordErrorLocked, TripLocked, Open, Leave, state, history
  <2>2. ASSUME NEW c \in Callers, AllowLocked(c) \/ ResetLocked(c) PROVE OpenSince'
    BY <2>2 DEF AllowLocked, ResetLocked, Close, Leave, state, history
  <2>3. CASE UNCHANGED <<clock, state, openedAt>>
    BY <2>3 DEF state
  <2>4. CASE Tick
    BY <2>4 DEF Tick, state, history
  <2> QED
    BY <2>1, <2>2, <2>3, <2>4 DEF Next, Begin, NotifyTrip, NotifyReset, SignalReset,
       AwaitReset, SetDebouncePeriod, vars, history
<1> QED BY <1>1, <1>2, TypeCorrect, PTL DEF Spec

\* Allow never closes the breaker before its cooldown is over, up to the lock
\* wait of the call that opened it.
THEOREM CooldownSafe == Spec => CooldownHonoured
<1>1. TypeOK /\ OpenSince /\ [Next]_vars =>
        [\A c \in Callers : AllowLocked(c) /\ ~allowed /\ allowed'
              => clock - openedAt >= timeWindow - MaxDelay]_vars
  <2> SUFFICES ASSUME TypeOK, OpenSince, NEW c \in Callers, AllowLocked(c), ~allowed, allowed'
               PROVE clock - openedAt >= timeWindow - MaxDelay
    OBVIOUS
  <2>1. WindowElapsed(c)
    BY DEF AllowLocked, state
  <2> QED
    BY <2>1, WindowNat, BoundsAssumption DEF WindowElapsed, OpenSince, TypeOK
<1> QED BY <1>1, TypeCorrect, OpenSinceInvariant, PTL DEF Spec, CooldownHonoured

-----------------------------------------------------------------------------
\* Moving one caller changes the population of a step by at most that caller.
LEMMA Finite == \A u : IsFiniteSet(At(u)) /\ Cardinality(At(u)) \in Nat
BY CallersAssumption, FS_Subset, FS_CardinalityType DEF At

LEMMA Unmoved ==
  ASSUME TypeOK, NEW c \in Callers, NEW CONSTANT t, NEW CONSTANT u, pc[c] # u, u # t,
         pc' = [pc EXCEPT ![c] = t]
  PROVE  Cardinality(At(u)') = Cardinality(At(u))
<1>1. At(u)' = At(u)
  BY DEF At, TypeOK
<1> QED BY <1>1

LEMMA Left ==
  ASSUME TypeOK, NEW c \in Callers, NEW CONSTANT s, NEW CONSTANT t, pc[c] = s, s # t,
         pc' = [pc EXCEPT ![c] = t]
  PROVE  Cardinality(At(s)') = Cardinality(At(s)) - 1
<1>1. At(s)' = At(s) \ {c} /\ c \in At(s)
  BY DEF At, TypeOK
<1> QED BY <1>1, Finite, FS_RemoveElement

LEMMA Entered ==
  ASSUME TypeOK, NEW c \in Callers, NEW CONSTANT t, pc[c] # t, pc' = [pc EXCEPT ![c] = t]
  PROVE  Cardinality(At(t)') = Cardinality(At(t)) + 1
<1>1. At(t)' = At(t) \cup {c} /\ c \notin At(t)
  BY DEF At, TypeOK
<1> QED BY <1>1, Finite, FS_AddElement

\* The sensors' view and the calls still under way always add up to the
\* breaker's state: every transition is announced exactly once.
THEOREM Balanced == Spec => []NotificationBalance
<1>1. Init => NotificationBalance
  <2> SUFFICES ASSUME Init PROVE NotificationBalance
    OBVIOUS
  <2>1. At("notifyTrip") = {} /\ At("notifyReset") = {}
    BY DEF Init, At
  <2> QED BY <2>1, FS_EmptySet DEF Init, NotificationBalance
<1>2. TypeOK /\ NotificationBalance /\ [Next]_vars => NotificationBalance'
  <2> SUFFICES ASSUME TypeOK, NotificationBalance, [Next]_vars PROVE NotificationBalance'
    OBVIOUS
  <2> DEFINE T == Cardinality(At("notifyTrip"))
             R == Cardinality(At("notifyReset"))
  <2>0. balance \in Int /\ allowed \in BOOLEAN
    BY DEF TypeOK
  <2>a. ASSUME NEW c \in Callers, NEW s \in Calls, pc[c] = s,
               pc' = [pc EXCEPT ![c] = "idle"], UNCHANGED <<balance, allowed>>
        PROVE NotificationBalance'
    <3>1. T' = T /\ R' = R
      BY <2>a, Unmoved
    <3> QED BY <3>1, <2>a DEF NotificationBalance
  <2>b. ASSUME NEW c \in Callers, NEW s \in Calls, pc[c] = s, ~allowed, allowed',
               pc' = [pc EXCEPT ![c] = "notifyReset"], UNCHANGED balance
        PROVE NotificationBalance'
    <3>1. T' = T /\ R' = R + 1 /\ T \in Nat /\ R \in Nat
      BY <2>b, Unmoved, Entered, Finite
    <3> QED BY <3>1, <2>b, <2>0 DEF NotificationBalance
  <2>c. ASSUME NEW c \in Callers, NEW s \in Calls, pc[c] = s, allowed, ~allowed',
               pc' = [pc EXCEPT ![c] = "notifyTrip"], UNCHANGED balance
        PROVE NotificationBalance'
    <3>1. T' = T + 1 /\ R' = R /\ T \in Nat /\ R \in Nat
      BY <2>c, Unmoved, Entered, Finite
    <3> QED BY <3>1, <2>c, <2>0 DEF NotificationBalance
  <2>1. ASSUME NEW c \in Callers, NEW call \in Calls, Begin(c, call)
        PROVE NotificationBalance'
    <3>1. T' = T /\ R' = R
      BY <2>1, Unmoved DEF Begin
    <3> QED BY <3>1, <2>1 DEF Begin, state, NotificationBalance
  <2>2. ASSUME NEW c \in Callers, AllowLocked(c) PROVE NotificationBalance'
    BY <2>2, <2>a, <2>b DEF AllowLocked, Close, Leave, state
  <2>3. ASSUME NEW c \in Callers, RecordErrorLocked(c) PROVE NotificationBalance'
    BY <2>3, <2>a, <2>c DEF RecordErrorLocked, ShouldTrip, Open, Leave, state
  <2>4. ASSUME NEW c \in Callers, ResetLocked(c) PROVE NotificationBalance'
    BY <2>4, <2>a, <2>b DEF ResetLocked, Close, Leave, state
  <2>5. ASSUME NEW c \in Callers, TripLocked(c) PROVE NotificationBalance'
    BY <2>5, <2>a, <2>c DEF TripLocked, Open, Leave, state
  <2>6. ASSUME NEW c \in Callers, NotifyTrip(c) PROVE NotificationBalance'
    <3>1. T' = T - 1 /\ R' = R /\ T \in Nat /\ R \in Nat
      BY <2>6, Unmoved, Left, Finite DEF NotifyTrip
    <3> QED BY <3>1, <2>6, <2>0 DEF NotifyTrip, state, NotificationBalance
  <2>7. ASSUME NEW c \in Callers, NotifyReset(c) PROVE NotificationBalance'
    <3>1. T' = T /\ R' = R - 1 /\ T \in Nat /\ R \in Nat
      BY <2>7, Unmoved, Left, Finite DEF NotifyReset
    <3> QED BY <3>1, <2>7, <2>0 DEF NotifyReset, state, NotificationBalance
  <2>8. ASSUME NEW c \in Callers, SignalReset(c) PROVE NotificationBalance'
    <3>1. T' = T /\ R' = R
      BY <2>8, Unmoved DEF SignalReset
    <3> QED BY <3>1, <2>8 DEF SignalReset, state, NotificationBalance
  <2>9. CASE UNCHANGED <<pc, balance, allowed>>
    BY <2>9 DEF NotificationBalance, At
  <2> QED
    BY <2>1, <2>2, <2>3, <2>4, <2>5, <2>6, <2>7, <2>8, <2>9
       DEF Next, AwaitReset, SetDebouncePeriod, Tick, vars, state
<1> QED BY <1>1, <1>2, TypeCorrect, PTL DEF Spec
=============================================================================
