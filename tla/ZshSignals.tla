----------------------------- MODULE ZshSignals -----------------------------
(***************************************************************************)
(* The signals of zsh 4.0.6 (signals.h, zhandler in signals.c), as the     *)
(* NeXT port builds them (BSD_SIGNALS): critical sections, the ring of     *)
(* signals caught inside them, the signal mask stored with each, and the   *)
(* suspension of the shell while it waits for a job (zwaitjob in jobs.c).  *)
(*                                                                         *)
(* The shell has one thread.  stack holds the code under way, the main     *)
(* program at the bottom; a signal that is not masked pushes a call of     *)
(* zhandler on top of whatever is there.  What a handler does (reap        *)
(* children, run a trap) is reduced to the critical sections and the waits *)
(* it may go through.                                                      *)
(*                                                                         *)
(* Bounds: MaxCaught signals are caught, and a frame nests MaxDepth        *)
(* critical sections.  The kernel's own merging of pending signals comes   *)
(* before a signal is caught, and is not modelled.                         *)
(***************************************************************************)
EXTENDS Integers, Sequences, FiniteSets

CONSTANTS
  Signals,         \* the signals zsh catches
  SIGCHLD,         \* the one that ends a wait
  Critical,        \* those whose handling goes through critical sections
  MAX_QUEUE_SIZE,  \* places in the ring, one of which stays empty
  MaxCaught, MaxDepth,
  Overflow,        \* signals are caught although the ring is full
  DrainWindow      \* signals are caught between the statements of run_queued_signals

ASSUME SignalsAssumption == SIGCHLD \in Signals /\ Critical \subseteq Signals
ASSUME SizesAssumption == /\ MAX_QUEUE_SIZE \in Nat \ {0, 1}
                          /\ MaxCaught \in Nat /\ MaxDepth \in Nat
                          /\ Overflow \in BOOLEAN /\ DrainWindow \in BOOLEAN

VARIABLES
  queueing_enabled, queue_front, queue_rear, signal_queue, signal_mask_queue,
  mask,     \* the process's signal mask
  stack,    \* the frames under way, the running one last
  caught,   \* history: the signals caught; an event is an index into it
  queued,   \* history: the events put into the ring, in order
  handled   \* history: the events whose handling has begun, in order

ring == <<queue_front, queue_rear, signal_queue, signal_mask_queue>>
vars == <<queueing_enabled, ring, mask, stack, caught, queued, handled>>

Slots == 0 .. MAX_QUEUE_SIZE - 1
Events == 1 .. MaxCaught
Main == 0   \* the main program, which handles no event

\* event: what a handler handles; direct: called from run_queued_signals and not by
\* the kernel; at: the place in its code; depth: the critical sections it is in;
\* waiting, q: it is in zwaitjob, and the level put back at its end; saved: the mask
\* the kernel puts back when the handler returns; oset, next: of run_queued_signals.
NewFrame == [event |-> Main, direct |-> FALSE, at |-> "run", depth |-> 0,
             waiting |-> FALSE, q |-> 0, saved |-> {}, oset |-> {}, next |-> 0]
Handler(e, isDirect, old) ==
  [NewFrame EXCEPT !.event = e, !.direct = isDirect, !.at = "entry", !.saved = old]

Init ==
  /\ queueing_enabled = 0 /\ queue_front = 0 /\ queue_rear = 0
  /\ signal_queue = [i \in Slots |-> Main]
  /\ signal_mask_queue = [i \in Slots |-> {}]
  /\ mask = {}
  /\ stack = <<NewFrame>>
  /\ caught = <<>> /\ queued = <<>> /\ handled = <<>>

Top == stack[Len(stack)]
Below == SubSeq(stack, 1, Len(stack) - 1)
Run(frame) == stack' = Append(Below, frame)
At(place) == Top.at = place
\* There is a place for one more signal beside those in the ring and on their way to it.
Room == ((queue_rear - queue_front) % MAX_QUEUE_SIZE)
          + Cardinality({i \in DOMAIN stack : stack[i].at = "entry"}) < MAX_QUEUE_SIZE - 1
\* Between two statements of run_queued_signals that read or move the front.
InWindow == Top.at \in {"store", "mask", "call"}

\* The main program and the handlers of Critical signals run code of the shell.
RunsShellCode ==
  At("run") /\ Top.event \in {Main} \cup {e \in DOMAIN caught : caught[e] \in Critical}

-----------------------------------------------------------------------------
(* The handler.                                                            *)

\* The kernel calls zhandler with its signal blocked.  A signal during sigpause is
\* handled under the mask of the wait and ends it; the mask put back is the one before.
Catch(s) ==
  /\ s \notin mask /\ Len(caught) < MaxCaught
  /\ DrainWindow \/ ~InWindow
  /\ Overflow \/ queueing_enabled = 0 \/ Room
  /\ caught' = Append(caught, s)
  /\ mask' = mask \cup {s}
  /\ LET e == Len(caught) + 1
     IN  stack' = IF At("suspended")
                  THEN Append(Append(Below, [Top EXCEPT !.at = "loop", !.oset = {}]),
                              Handler(e, FALSE, Top.oset))
                  ELSE Append(stack, Handler(e, FALSE, mask))
  /\ UNCHANGED <<queueing_enabled, ring, queued, handled>>

\* Mutants.  An operator whose comment starts with Wrong is not part of the model: it
\* is the definition after it with a bug, which a mutant run puts in its place.

\* Wrong: run_queued_signals goes on with the mask of the signal it has dealt with.
ReturnWithMask(frame) ==
  IF frame.direct
  THEN /\ stack' = Append(SubSeq(stack, 1, Len(stack) - 2),
                         [Below[Len(Below)] EXCEPT !.at = "drain", !.oset = {}])
       /\ UNCHANGED mask
  ELSE mask' = frame.saved /\ stack' = Below

\* Leave the handler: the kernel puts the mask back, or run_queued_signals does.
ReturnFrom(frame) ==
  IF frame.direct
  THEN LET caller == Below[Len(Below)]
       IN  /\ mask' = caller.oset
           /\ stack' = Append(SubSeq(stack, 1, Len(stack) - 2), [caller EXCEPT !.at = "drain", !.oset = {}])
  ELSE /\ mask' = frame.saved
       /\ stack' = Below

\* Wrong: the handler does not return once it has queued its signal.
QueueAndDispatch ==
  /\ At("entry") /\ queueing_enabled > 0 /\ (queue_rear + 1) % MAX_QUEUE_SIZE # queue_front
  /\ queue_rear' = (queue_rear + 1) % MAX_QUEUE_SIZE
  /\ signal_queue' = [signal_queue EXCEPT ![queue_rear'] = Top.event]
  /\ signal_mask_queue' = [signal_mask_queue EXCEPT ![queue_rear'] = mask]
  /\ queued' = Append(queued, Top.event)
  /\ handled' = Append(handled, Top.event)
  /\ Run([Top EXCEPT !.at = "run"])
  /\ UNCHANGED <<queueing_enabled, queue_front, mask, caught>>

\* zhandler in a critical section: ++queue_rear has happened when the ring is found
\* to be full.
Queue ==
  LET temp_rear == (queue_rear + 1) % MAX_QUEUE_SIZE IN
  /\ At("entry") /\ queueing_enabled > 0
  /\ IF temp_rear # queue_front
     THEN /\ queue_rear' = temp_rear
          /\ signal_queue' = [signal_queue EXCEPT ![temp_rear] = Top.event]
          /\ signal_mask_queue' = [signal_mask_queue EXCEPT ![temp_rear] = mask]
          /\ queued' = Append(queued, Top.event)
     ELSE /\ queue_rear' = queue_rear + 1
          /\ UNCHANGED <<signal_queue, signal_mask_queue, queued>>
  /\ ReturnFrom(Top)
  /\ UNCHANGED <<queueing_enabled, queue_front, caught, handled>>

\* zhandler outside: everything is unblocked again that was not blocked before, and the
\* signal is dealt with.
Dispatch ==
  /\ At("entry") /\ queueing_enabled = 0
  /\ handled' = Append(handled, Top.event)
  /\ Run([Top EXCEPT !.at = "run"])
  /\ UNCHANGED <<queueing_enabled, ring, mask, caught, queued>>

Return ==
  /\ At("run") /\ Top.event # Main /\ Top.depth = 0
  /\ ReturnFrom(Top)
  /\ UNCHANGED <<queueing_enabled, ring, caught, queued, handled>>

-----------------------------------------------------------------------------
(* Critical sections and the wait for a job, in the main program or in the *)
(* handler that runs.                                                      *)

queue_signals ==
  /\ RunsShellCode /\ Top.depth < MaxDepth
  /\ queueing_enabled' = queueing_enabled + 1
  /\ Run([Top EXCEPT !.depth = @ + 1])
  /\ UNCHANGED <<ring, mask, caught, queued, handled>>

\* Wrong: the end of the last critical section does not look at the ring.
unqueue_signals_only ==
  /\ RunsShellCode /\ Top.depth > 0
  /\ queueing_enabled' = queueing_enabled - 1
  /\ Run([Top EXCEPT !.depth = @ - 1])
  /\ UNCHANGED <<ring, mask, caught, queued, handled>>

unqueue_signals ==
  /\ RunsShellCode /\ Top.depth > 0
  /\ queueing_enabled' = queueing_enabled - 1
  /\ Run([Top EXCEPT !.depth = @ - 1, !.at = IF queueing_enabled = 1 THEN "drain" ELSE "run"])
  /\ UNCHANGED <<ring, mask, caught, queued, handled>>

\* zwaitjob and waitforpid: what has been queued is dealt with before the wait, and
\* nothing is queued during it.
dont_queue_signals ==
  /\ RunsShellCode
  /\ queueing_enabled' = 0
  /\ Run([Top EXCEPT !.waiting = TRUE, !.q = queueing_enabled, !.at = "drain"])
  /\ UNCHANGED <<ring, mask, caught, queued, handled>>

\* sigpause: everything is masked but SIGCHLD, until a signal has been handled.
child_suspend ==
  /\ At("loop") /\ Len(caught) < MaxCaught
  /\ mask' = Signals \ {SIGCHLD}
  /\ Run([Top EXCEPT !.at = "suspended", !.oset = mask])
  /\ UNCHANGED <<queueing_enabled, ring, caught, queued, handled>>

\* Wrong: the sections the wait was called from are forgotten.
restore_to_zero ==
  /\ At("loop")
  /\ mask' = mask \ {SIGCHLD}
  /\ Run([Top EXCEPT !.waiting = FALSE, !.q = 0, !.at = "run"])
  /\ UNCHANGED <<queueing_enabled, ring, caught, queued, handled>>

\* The job is done, or was before: child_unblock, restore_queue_signals.
restore_queue_signals ==
  /\ At("loop")
  /\ mask' = mask \ {SIGCHLD}
  /\ queueing_enabled' = Top.q
  /\ Run([Top EXCEPT !.waiting = FALSE, !.q = 0, !.at = "run"])
  /\ UNCHANGED <<ring, caught, queued, handled>>

-----------------------------------------------------------------------------
(* run_queued_signals, statement by statement.                             *)

\* Before a wait, child_block comes next.
DrainIsOver ==
  /\ At("drain") /\ queue_front = queue_rear
  /\ mask' = IF Top.waiting THEN mask \cup {SIGCHLD} ELSE mask
  /\ Run([Top EXCEPT !.at = IF Top.waiting THEN "loop" ELSE "run"])
  /\ UNCHANGED <<queueing_enabled, ring, caught, queued, handled>>

LoadFront ==
  /\ At("drain") /\ queue_front # queue_rear
  /\ Run([Top EXCEPT !.at = "store", !.next = (queue_front + 1) % MAX_QUEUE_SIZE])
  /\ UNCHANGED <<queueing_enabled, ring, mask, caught, queued, handled>>

\* Wrong: the front is not taken round the end of the ring.
StorePastEnd ==
  /\ At("store")
  /\ queue_front' = queue_front + 1
  /\ Run([Top EXCEPT !.at = "mask", !.next = 0])
  /\ UNCHANGED <<queueing_enabled, queue_rear, signal_queue, signal_mask_queue, mask, caught,
                 queued, handled>>

StoreFront ==
  /\ At("store")
  /\ queue_front' = Top.next
  /\ Run([Top EXCEPT !.at = "mask", !.next = 0])
  /\ UNCHANGED <<queueing_enabled, queue_rear, signal_queue, signal_mask_queue, mask, caught,
                 queued, handled>>

SetStoredMask ==
  /\ At("mask")
  /\ mask' = signal_mask_queue[queue_front]
  /\ Run([Top EXCEPT !.at = "call", !.oset = mask])
  /\ UNCHANGED <<queueing_enabled, ring, caught, queued, handled>>

CallHandler ==
  /\ At("call")
  /\ stack' = Append(stack, Handler(signal_queue[queue_front], TRUE, {}))
  /\ UNCHANGED <<queueing_enabled, ring, mask, caught, queued, handled>>

-----------------------------------------------------------------------------
Handling == Queue \/ Dispatch \/ Return
Draining == DrainIsOver \/ LoadFront \/ StoreFront \/ SetStoredMask \/ CallHandler
Waiting == child_suspend \/ restore_queue_signals
Enter == queue_signals \/ dont_queue_signals
Next == (\E s \in Signals : Catch(s)) \/ Handling \/ Enter \/ unqueue_signals \/ Draining \/ Waiting
Spec == Init /\ [][Next]_vars

\* The shell runs when it can, leaves the critical sections it enters, and its handlers
\* come to an end; a child it is suspended for ends.  Nothing else is assumed of signals.
Fairness == /\ WF_vars(Handling \/ Draining \/ restore_queue_signals)
            /\ \A n \in 1 .. MaxDepth : SF_vars(unqueue_signals /\ queueing_enabled = n)
            /\ SF_vars(Return)
            /\ WF_vars(At("suspended") /\ Catch(SIGCHLD))
FairSpec == Spec /\ Fairness

-----------------------------------------------------------------------------
(* Properties.                                                             *)

EventsOf(seq) == {seq[i] : i \in DOMAIN seq}
Frames == [event : {Main} \cup Events, direct : BOOLEAN,
           at : {"entry", "run", "drain", "store", "mask", "call", "loop", "suspended"},
           depth : Nat, waiting : BOOLEAN, q : Nat, saved : SUBSET Signals,
           oset : SUBSET Signals, next : Slots]

\* Every variable holds a value its C type and the code allow; the indices stay
\* inside the ring.
TypeOK ==
  /\ queueing_enabled \in Nat
  /\ queue_front \in Slots /\ queue_rear \in Slots
  /\ signal_queue \in [Slots -> {Main} \cup Events]
  /\ signal_mask_queue \in [Slots -> SUBSET Signals]
  /\ mask \subseteq Signals
  /\ stack \in Seq(Frames) /\ stack # <<>>
  /\ caught \in Seq(Signals) /\ queued \in Seq(Events) /\ handled \in Seq(Events)

\* A frame may be interrupted by the handling of a signal: it is in no critical
\* section, or it has opened them all for a wait.
Open(frame) == frame.depth = 0 \/ frame.waiting

\* What critical sections are for: whenever a signal is being dealt with, none of the
\* code it interrupted, at any depth of nesting, is inside one.
NotInside == \A i \in 1 .. Len(stack) - 1 : stack[Len(stack)].at # "entry" => Open(stack[i])

\* No signal is dealt with twice, however many drains of the ring run inside each other.
HandledOnce == \A i, j \in DOMAIN handled : handled[i] = handled[j] => i = j

\* The masks put on for queued signals and for waits are taken off again: when no
\* handler runs, no signal is blocked for the main program.
MaskRestored == Len(stack) = 1 /\ At("run") => mask = {}

\* A signal put into the ring is dealt with some day: none is lost.
QueuedHandled == \A e \in Events : e \in EventsOf(queued) ~> e \in EventsOf(handled)

-----------------------------------------------------------------------------
(* The inductive invariant.                                                *)

\* TypeOK, but for the ring when it may be full: an index past its end, and places read
\* that nothing was written to.
LooseTypes ==
  /\ queueing_enabled \in Nat
  /\ queue_front \in Slots /\ queue_rear \in Nat
  /\ signal_queue \in [Slots -> {Main} \cup Events]
  /\ signal_mask_queue \in [Slots -> SUBSET Signals]
  /\ mask \subseteq Signals
  /\ stack \in Seq(Frames) /\ stack # <<>>
  /\ caught \in Seq(Signals) /\ Len(caught) <= MaxCaught
  /\ queued \in Seq({Main} \cup Events) /\ handled \in Seq({Main} \cup Events)

\* A frame drains the ring, or waits, outside of its critical sections only, and the
\* level it puts back after a wait is its own.
FrameInv(frame) ==
  /\ frame.at = "entry" => frame.depth = 0
  /\ frame.at \in {"entry", "run"} => ~frame.waiting
  /\ frame.at \in {"drain", "store", "mask", "call"} => Open(frame)
  /\ frame.at \in {"loop", "suspended"} => frame.waiting
  /\ frame.waiting => frame.q = frame.depth

\* queueing_enabled counts the critical sections of the one frame that is inside some;
\* above it there are only handlers about to queue their signals.
NestInv ==
  /\ \A i \in 1 .. Len(stack) : FrameInv(stack[i])
  /\ \A i \in 1 .. Len(stack) : ~Open(stack[i]) =>
       /\ queueing_enabled = stack[i].depth
       /\ \A j \in i + 1 .. Len(stack) : stack[j].at = "entry"
  /\ (\A i \in 1 .. Len(stack) : Open(stack[i])) => queueing_enabled = 0

\* Who called whom: a direct call of the handler comes from run_queued_signals.
CallInv ==
  /\ stack[1].event = Main /\ stack[1].at # "entry" /\ ~stack[1].direct
  /\ \A i \in 2 .. Len(stack) : stack[i].direct => stack[i - 1].at = "call"
  /\ \A i \in 1 .. Len(stack) - 1 : stack[i].at # "suspended"
  /\ ~DrainWindow => \A i \in 1 .. Len(stack) - 1 :
       stack[i].at \notin {"store", "mask"} /\ (stack[i].at = "call" => stack[i + 1].direct)

\* The mask the main program runs with, or gets back from the handler above it.
MainMask == IF stack[1].at = "loop" THEN {SIGCHLD} ELSE {}
MaskInv ==
  /\ stack[1].at = "call" => stack[1].oset = {}
  /\ stack[1].at = "suspended" => stack[1].oset = {SIGCHLD}
  /\ Len(stack) = 1 /\ stack[1].at \notin {"call", "suspended"} => mask = MainMask
  /\ Len(stack) > 1 /\ ~stack[2].direct /\ stack[1].at # "call" => stack[2].saved = MainMask

\* Unless signals are caught although the ring is full, there is a place for each of
\* those on their way to it.
RoomInv ==
  ~Overflow =>
    /\ queue_rear \in Slots
    /\ \A k \in 1 .. Len(stack) : ~Open(stack[k]) =>
         ((queue_rear - queue_front) % MAX_QUEUE_SIZE) + (Len(stack) - k) < MAX_QUEUE_SIZE

\* The places of the ring that hold a signal to be dealt with, the one that has been
\* taken out but whose handler has not been called included.
InRing(i) == IF queue_front <= queue_rear THEN queue_front < i /\ i <= queue_rear
                                          ELSE queue_front < i \/ i <= queue_rear
LiveSlots == {i \in Slots : InRing(i) \/ (i = queue_front /\ Top.at \in {"mask", "call"})}
Entering == {i \in 1 .. Len(stack) : stack[i].at = "entry"}

\* Every signal caught is in one place at a time: in a handler about to queue it or deal
\* with it, in the ring, or dealt with.
OnePlaceInv ==
  ~Overflow /\ ~DrainWindow =>
    /\ At("store") => queue_front # queue_rear /\ Top.next = (queue_front + 1) % MAX_QUEUE_SIZE
    /\ EventsOf(handled) \cup EventsOf(queued) \subseteq 1 .. Len(caught)
    /\ \A i \in LiveSlots : signal_queue[i] \in (1 .. Len(caught)) \ EventsOf(handled)
    /\ \A i \in Entering : stack[i].event \in (1 .. Len(caught)) \ EventsOf(handled)
    /\ \A i, j \in LiveSlots : signal_queue[i] = signal_queue[j] => i = j
    /\ \A i, j \in Entering : stack[i].event = stack[j].event => i = j
    /\ \A i \in LiveSlots, j \in Entering : signal_queue[i] # stack[j].event
    /\ HandledOnce

\* The conjunction the safety theorems rest on (ZshSignals_proofs).
SInv == LooseTypes /\ NestInv /\ CallInv /\ MaskInv /\ RoomInv /\ OnePlaceInv
=============================================================================
