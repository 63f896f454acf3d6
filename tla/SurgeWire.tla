------------------------------ MODULE SurgeWire ------------------------------
(***************************************************************************)
(* A surge protector and the wires that share it: wire/submit.go,          *)
(* surgeprotector/submit.go and wire/resister.go together. The protector   *)
(* and the wire call each other: Wire.Submit hands an element it may not   *)
(* take to SurgeProtector.Submit, which submits to its managed components, *)
(* the wires themselves. Each goroutine therefore has a stack of frames.   *)
(* Beside the submitters every wire runs a drain loop that releases queued *)
(* elements at the pace of the rate limit.                                 *)
(*                                                                         *)
(* A single wire manages itself; the wires of a conduit are all managed by *)
(* the one protector, each wire's output being the next one's input.       *)
(* The resister is a set (Resister models its order), the token bucket is  *)
(* reduced to the tokens left and whether a refill is due (RateLimiter     *)
(* models its clock). The wires have no circuit breaker and are running.   *)
(***************************************************************************)
EXTENDS Integers, Sequences, FiniteSets, SequencesExt

CONSTANTS
    Elements,      \* data, one top-level Submit each
    Goroutines,    \* submitting goroutines
    Components,    \* the managed wires, in the order they were connected
    Buffer,        \* capacity of each wire's inChan
    RateLimited, Capacity,
    HasResister,
    Backups,       \* the backup submitters AttachBackup is called with, in order
    MayTrip,       \* Trip and Reset are called
    MaxDepth,      \* exploration bound on the call stack
    MaxCuts        \* exploration bound on the rounds of backups cut short, per element

\* The backups are different submitters. The markers of spc and drain are not
\* names of goroutines or elements.
ASSUME ShapeAssumption ==
    /\ Components \in Seq(ToSet(Components)) /\ Len(Components) > 0
    /\ Backups \in Seq(ToSet(Backups)) /\ IsInjective(Backups)
    /\ Buffer \in Nat \ {0} /\ Capacity \in Nat
    /\ {RateLimited, HasResister, MayTrip} \subseteq BOOLEAN
    /\ Goroutines \cap {"new", "nil", "err"} = {}
    /\ Elements \cap {"select", "taken", "missed", "exited"} = {}

VARIABLES
    stack,     \* each goroutine's frames, the innermost last
    ret,       \* the result just returned to the innermost frame, or "none"
    spc,       \* each element: "new", the goroutine submitting it, or the result "nil" or "err"
    tripped,
    surgeTokens, due,
    surgeQueue,     \* the elements in the resister
    inChan,    \* each wire's input: items carry the stages they have been through
    out,       \* history: items the last wire emitted
    attached,  \* the backups are attached
    backedUp,  \* how often each backup has taken each element
    cuts,      \* history: rounds in which a backup refused the element after another took it
    drain      \* each wire's drain loop: where it is, or the element it releases

limiter == <<surgeTokens, due>>
store == <<surgeQueue, inChan, out, backedUp, cuts>>
surgeVars == <<stack, ret, spc, tripped, limiter, store, attached, drain>>

Wires == ToSet(Components)
CountIf(condition) == IF condition THEN 1 ELSE 0
Position(w) == CHOOSE i \in DOMAIN Components : Components[i] = w

\* A call frame: which function, its element and where it is; a protector's
\* frame also has the element it is submitting to the components and the
\* next component.
Frame(fn, w, e) == [fn |-> fn, wire |-> w, elem |-> e, at |-> "enter", item |-> e, next |-> 1]

SurgeInit ==
    /\ stack = [g \in Goroutines |-> <<>>]
    /\ ret = [g \in Goroutines |-> "none"]
    /\ spc = [e \in Elements |-> "new"]
    /\ tripped = FALSE
    /\ surgeTokens = Capacity /\ due = FALSE
    /\ surgeQueue = {}
    /\ inChan = [w \in Wires |-> <<>>]
    /\ out = <<>>
    /\ attached = FALSE
    /\ backedUp = [b \in ToSet(Backups) |-> [e \in Elements |-> 0]]
    /\ cuts = [e \in Elements |-> 0]
    /\ drain = [w \in Wires |-> IF HasResister THEN "select" ELSE "exited"]

-----------------------------------------------------------------------------

\* TryTake: refill when due, then take a token if there is one.
TryTake(answer) ==
    IF ~RateLimited
    THEN answer /\ UNCHANGED limiter
    ELSE LET full == IF due THEN Capacity ELSE surgeTokens
         IN  /\ answer <=> full > 0
             /\ surgeTokens' = IF answer THEN full - 1 ELSE full
             /\ due' = FALSE

\* The refill period passes.
SurgeTick ==
    /\ RateLimited /\ ~due
    /\ due' = TRUE
    /\ UNCHANGED <<stack, ret, spc, tripped, surgeTokens, store, attached, drain>>

Trip ==
    /\ MayTrip /\ ~tripped
    /\ tripped' = TRUE
    /\ UNCHANGED <<stack, ret, spc, limiter, store, attached, drain>>

\* The managed wires are running, so Reset restarts none.
Reset ==
    /\ tripped
    /\ tripped' = FALSE
    /\ UNCHANGED <<stack, ret, spc, limiter, store, attached, drain>>

\* AttachBackup and DetachBackups, at any time.
AttachBackup ==
    /\ Backups # <<>> /\ ~attached
    /\ attached' = TRUE
    /\ UNCHANGED <<stack, ret, spc, tripped, limiter, store, drain>>

DetachBackups ==
    /\ attached
    /\ attached' = FALSE
    /\ UNCHANGED <<stack, ret, spc, tripped, limiter, store, drain>>

-----------------------------------------------------------------------------
Top(g) == stack[g][Len(stack[g])]
Running(g, fn, at) ==
    /\ stack[g] # <<>> /\ ret[g] = "none"
    /\ Top(g).fn = fn /\ Top(g).at = at
SetTop(g, frame) == stack' = [stack EXCEPT ![g][Len(stack[g])] = frame]
SurgeGoto(g, at) == SetTop(g, [Top(g) EXCEPT !.at = at])

\* The innermost frame moves to `at` and calls `frame`.
Invoke(g, at, frame) ==
    /\ Len(stack[g]) < MaxDepth
    /\ stack' = [stack EXCEPT ![g] = Append(SubSeq(@, 1, Len(@) - 1), [Top(g) EXCEPT !.at = at])
                                     \o <<frame>>]

\* The innermost frame returns r.
Return(g, r) ==
    /\ stack' = [stack EXCEPT ![g] = Front(@)]
    /\ ret' = [ret EXCEPT ![g] = r]

\* A goroutine calls Submit on the first wire.
Call(g, e) ==
    /\ stack[g] = <<>> /\ ret[g] = "none" /\ spc[e] = "new"
    /\ stack' = [stack EXCEPT ![g] = <<Frame("wire", Components[1], e)>>]
    /\ spc' = [spc EXCEPT ![e] = g]
    /\ UNCHANGED <<ret, tripped, limiter, store, attached, drain>>

\* Wire.Submit: a tripped protector, or one without a token, gets the element.
WireSubmit(g) ==
    /\ Running(g, "wire", "enter")
    /\ \/ /\ tripped
          /\ Invoke(g, "tail", Frame("protector", Top(g).wire, Top(g).elem))
          /\ UNCHANGED limiter
       \/ /\ ~tripped /\ RateLimited /\ TryTake(FALSE)
          /\ Invoke(g, "tail", Frame("protector", Top(g).wire, Top(g).elem))
       \/ /\ ~tripped /\ TryTake(TRUE)
          /\ SurgeGoto(g, "send")
    /\ UNCHANGED <<ret, spc, tripped, store, attached, drain>>

Put(w, e) ==
    /\ Len(inChan[w]) < Buffer
    /\ inChan' = [inChan EXCEPT ![w] = Append(@, [elem |-> e, path |-> <<>>])]

\* submitNormally: the send, or the caller's context is done.
WireSend(g) ==
    /\ Running(g, "wire", "send")
    /\ \/ Put(Top(g).wire, Top(g).elem) /\ Return(g, "nil")
       \/ UNCHANGED inChan /\ Return(g, "err")
    /\ UNCHANGED <<spc, tripped, limiter, surgeQueue, out, backedUp, cuts, attached, drain>>

\* SurgeProtector.Submit with backups: each gets the element until one fails.
\* The ones before it keep what they took.
SubmitToBackups(g) ==
    /\ Running(g, "protector", "enter") /\ attached
    /\ \E k \in 0..Len(Backups) :
        LET e == Top(g).elem
            cut == k \in 1..Len(Backups) - 1
        IN  /\ cut => cuts[e] < MaxCuts
            /\ cuts' = [cuts EXCEPT ![e] = @ + CountIf(cut)]
            /\ backedUp' = [b \in DOMAIN backedUp |->
                    [backedUp[b] EXCEPT ![e] = @ + CountIf(b \in ToSet(SubSeq(Backups, 1, k)))]]
            /\ Return(g, IF k = Len(Backups) THEN "nil" ELSE "err")
    /\ UNCHANGED <<spc, tripped, limiter, surgeQueue, inChan, out, attached, drain>>

\* SurgeProtector.Submit without backups: straight to the components, or to
\* the loop that first empties the resister.
ProtectorSubmit(g) ==
    /\ Running(g, "protector", "enter") /\ ~attached
    /\ SurgeGoto(g, IF HasResister THEN "loop" ELSE "own")
    /\ UNCHANGED <<ret, spc, tripped, limiter, store, attached, drain>>

\* for resister.Len() > 0 && s.TryTake()
LoopTest(g) ==
    /\ Running(g, "protector", "loop")
    /\ \/ surgeQueue # {} /\ TryTake(TRUE) /\ SurgeGoto(g, "pop")
       \/ surgeQueue # {} /\ TryTake(FALSE) /\ SurgeGoto(g, "take")
       \/ surgeQueue = {} /\ UNCHANGED limiter /\ SurgeGoto(g, "take")
    /\ UNCHANGED <<ret, spc, tripped, store, attached, drain>>

\* Somebody else may have emptied the queue: then the token taken is lost.
LoopPop(g) ==
    /\ Running(g, "protector", "pop")
    /\ \/ \E x \in surgeQueue :
            /\ surgeQueue' = surgeQueue \ {x}
            /\ SetTop(g, [Top(g) EXCEPT !.at = "popped", !.item = x, !.next = 1])
       \/ surgeQueue = {} /\ UNCHANGED surgeQueue /\ SurgeGoto(g, "take")
    /\ UNCHANGED <<ret, spc, tripped, limiter, inChan, out, backedUp, cuts, attached, drain>>

\* After the loop: a token admits the element itself, otherwise it is queued.
TakeOrQueue(g) ==
    /\ Running(g, "protector", "take")
    /\ \/ TryTake(TRUE) /\ SurgeGoto(g, "own") /\ UNCHANGED <<ret, surgeQueue>>
       \/ TryTake(FALSE) /\ surgeQueue' = surgeQueue \cup {Top(g).elem} /\ Return(g, "nil")
    /\ UNCHANGED <<spc, tripped, inChan, out, backedUp, cuts, attached, drain>>

\* submitToComponents: the next component's Submit, until all have been called.
ToComponents(g) ==
    /\ Running(g, "protector", "own") \/ Running(g, "protector", "popped")
    /\ LET f == Top(g)
           item == IF f.at = "own" THEN f.elem ELSE f.item
       IN  IF f.next <= Len(Components)
           THEN Invoke(g, f.at, Frame("wire", Components[f.next], item)) /\ UNCHANGED ret
           ELSE IF f.at = "own" THEN Return(g, "nil")
                                ELSE /\ SetTop(g, [f EXCEPT !.at = "loop", !.item = f.elem, !.next = 1])
                                     /\ UNCHANGED ret
    /\ UNCHANGED <<spc, tripped, limiter, store, attached, drain>>

MutForgetRequeue(g) ==
    /\ ret[g] # "none" /\ stack[g] # <<>>
    /\ LET f == Top(g)
       IN  IF f.fn = "wire" \/ ret[g] = "err"
           THEN stack' = [stack EXCEPT ![g] = Front(@)] /\ UNCHANGED ret
           ELSE SetTop(g, [f EXCEPT !.next = @ + 1]) /\ ret' = [ret EXCEPT ![g] = "none"]
    /\ UNCHANGED <<spc, surgeQueue, tripped, limiter, inChan, out, backedUp, cuts, attached, drain>>

\* A call returned to the innermost frame: Wire.Submit passes the result on;
\* the protector goes to the next component, or gives up on an error, after
\* it has put an element it had popped back into the resister.
Resume(g) ==
    /\ ret[g] # "none" /\ stack[g] # <<>>
    /\ LET f == Top(g)
       IN  \/ /\ f.fn = "wire" \/ (ret[g] = "err" /\ f.at = "own")
              /\ stack' = [stack EXCEPT ![g] = Front(@)]
              /\ UNCHANGED <<ret, surgeQueue>>
           \/ /\ f.fn = "protector" /\ ret[g] = "err" /\ f.at = "popped"
              /\ surgeQueue' = surgeQueue \cup {f.item}
              /\ stack' = [stack EXCEPT ![g] = Front(@)]
              /\ UNCHANGED ret
           \/ /\ f.fn = "protector" /\ ret[g] = "nil"
              /\ SetTop(g, [f EXCEPT !.next = @ + 1])
              /\ ret' = [ret EXCEPT ![g] = "none"]
              /\ UNCHANGED surgeQueue
    /\ UNCHANGED <<spc, tripped, limiter, inChan, out, backedUp, cuts, attached, drain>>

\* The outermost Submit returns to its caller.
Done(g, e) ==
    /\ ret[g] # "none" /\ stack[g] = <<>> /\ spc[e] = g
    /\ spc' = [spc EXCEPT ![e] = ret[g]]
    /\ ret' = [ret EXCEPT ![g] = "none"]
    /\ UNCHANGED <<stack, tripped, limiter, store, attached, drain>>

-----------------------------------------------------------------------------
\* A tick of drainResisterQueue takes a token if there is one.
DrainTick(w) ==
    /\ drain[w] = "select"
    /\ \/ TryTake(TRUE) /\ drain' = [drain EXCEPT ![w] = "taken"]
       \/ TryTake(FALSE) /\ drain' = [drain EXCEPT ![w] = "missed"]
    /\ UNCHANGED <<stack, ret, spc, tripped, store, attached>>

\* Dequeue, which fails on an empty queue: the token is lost.
DrainPop(w) ==
    /\ drain[w] = "taken"
    /\ \/ \E x \in surgeQueue : surgeQueue' = surgeQueue \ {x} /\ drain' = [drain EXCEPT ![w] = x]
       \/ surgeQueue = {} /\ UNCHANGED surgeQueue /\ drain' = [drain EXCEPT ![w] = "missed"]
    /\ UNCHANGED <<stack, ret, spc, tripped, limiter, inChan, out, backedUp, cuts, attached>>

\* Without a token or an element the loop goes on, or ends for good if it
\* finds the queue empty.
DrainMissed(w) ==
    /\ drain[w] = "missed"
    /\ drain' = [drain EXCEPT ![w] = IF surgeQueue = {} THEN "exited" ELSE "select"]
    /\ UNCHANGED <<stack, ret, spc, tripped, limiter, store, attached>>

\* submitFromResisterQueue on a running wire.
DrainSend(w) ==
    /\ drain[w] \in Elements
    /\ Put(w, drain[w])
    /\ drain' = [drain EXCEPT ![w] = "select"]
    /\ UNCHANGED <<stack, ret, spc, tripped, limiter, surgeQueue, out, backedUp, cuts, attached>>

\* A wire's worker: on to the next wire of the chain, or to the output.
Work(w) ==
    /\ inChan[w] # <<>>
    /\ LET item == [Head(inChan[w]) EXCEPT !.path = Append(@, w)]
           i == Position(w)
       IN  IF i = Len(Components)
           THEN /\ out' = Append(out, item)
                /\ inChan' = [inChan EXCEPT ![w] = Tail(@)]
           ELSE /\ Len(inChan[Components[i + 1]]) < Buffer
                /\ inChan' = [inChan EXCEPT ![w] = Tail(@), ![Components[i + 1]] = Append(@, item)]
                /\ UNCHANGED out
    /\ UNCHANGED <<stack, ret, spc, tripped, limiter, surgeQueue, backedUp, cuts, attached, drain>>

Step(g) ==
    \/ \E e \in Elements : Done(g, e)
    \/ WireSubmit(g) \/ WireSend(g)
    \/ SubmitToBackups(g) \/ ProtectorSubmit(g) \/ LoopTest(g) \/ LoopPop(g)
    \/ TakeOrQueue(g) \/ ToComponents(g) \/ Resume(g)

SurgeNext ==
    \/ \E g \in Goroutines : Step(g) \/ \E e \in Elements : Call(g, e)
    \/ \E w \in Wires : DrainTick(w) \/ DrainPop(w) \/ DrainMissed(w) \/ DrainSend(w) \/ Work(w)
    \/ SurgeTick \/ Trip \/ Reset \/ AttachBackup \/ DetachBackups

SurgeSpec == SurgeInit /\ [][SurgeNext]_surgeVars

-----------------------------------------------------------------------------
\* The fields are typed; a drain loop holds at most one element.
SurgeTypeOK ==
    /\ ret \in [Goroutines -> {"none", "nil", "err"}]
    /\ spc \in [Elements -> {"new", "nil", "err"} \cup Goroutines]
    /\ tripped \in BOOLEAN
    /\ surgeTokens \in 0..Capacity /\ due \in BOOLEAN
    /\ surgeQueue \subseteq Elements
    /\ \A w \in Wires : Len(inChan[w]) <= Buffer
    /\ drain \in [Wires -> {"select", "taken", "missed", "exited"} \cup Elements]
    /\ attached \in BOOLEAN

CountIn(s, e) == Cardinality({i \in DOMAIN s : s[i].elem = e})
Copies(e) ==
    CountIf(e \in surgeQueue) + CountIn(out, e)
        + Cardinality({p \in Wires \X (1..Buffer) :
                            p[2] <= Len(inChan[p[1]]) /\ inChan[p[1]][p[2]].elem = e})
        + Cardinality({w \in Wires : drain[w] = e})
        + IF Backups = <<>> THEN 0 ELSE backedUp[Last(Backups)][e]
InFlight(e) ==
    \/ spc[e] \in Goroutines
    \/ \E g \in Goroutines : \E i \in DOMAIN stack[g] : e \in {stack[g][i].elem, stack[g][i].item}

\* However Wire.Submit, the protector, the resister and the drain loop pass
\* an element around, nested calls of other goroutines' elements included:
\*   the queue, the wire, its output and the last backup hold one copy of it at
\*   most, and once nobody is handling it one exactly if its Submit returned nil;
\*   with several backups there can be more, although Submit failed or the element
\*   went back to the queue: any other backup holds one for every round in which it
\*   took the element and a later one refused it, and no more.  One backup has none.
AcceptedOnce ==
    \A e \in Elements :
        /\ Copies(e) <= 1
        /\ ~InFlight(e) => Copies(e) = CountIf(spc[e] = "nil")
        /\ \A b \in DOMAIN backedUp :
              LET whole == backedUp[Last(Backups)][e]
              IN  whole <= backedUp[b][e] /\ backedUp[b][e] <= whole + cuts[e]
        /\ Len(Backups) < 2 => cuts[e] = 0

\* The same with the types of the state, as it is checked.
SurgeSound == SurgeTypeOK /\ AcceptedOnce

\* "Submit handles the incoming data by deciding whether to process it
\* normally or divert it": a submission does not come back to the protector
\* for the element the protector is already handling.
DecidedOnce ==
    \A g \in Goroutines : \A i, j \in DOMAIN stack[g] :
        i < j /\ stack[g][i].fn = "protector" /\ stack[g][j].fn = "protector"
            => stack[g][i].elem # stack[g][j].elem
=============================================================================
