-------------------------- MODULE ZshSignals_proofs --------------------------
(***************************************************************************)
(* The queue of signals of ZshSignals, for every set of signals, size of   *)
(* the ring, depth of nesting and number of signals caught: SInv is an     *)
(* inductive invariant, and the safety properties follow from it.          *)
(*                                                                         *)
(* One lemma per conjunct of SInv says that every step keeps it.  The      *)
(* actions do one of three things to the stack of frames (replace the      *)
(* running one, put a handler on top of it, take it away), and for each    *)
(* conjunct there is a lemma for each of the three.                        *)
(***************************************************************************)
EXTENDS ZshSignals, FiniteSetTheorems, SequenceTheorems, TLAPS

-----------------------------------------------------------------------------
(* The ring's arithmetic, and what an action does to the stack of frames.  *)

\* The place after a place of the ring.
LEMMA NextSlot ==
  \A x \in Slots : (x + 1) % MAX_QUEUE_SIZE = IF x + 1 = MAX_QUEUE_SIZE THEN 0 ELSE x + 1
<1> SUFFICES ASSUME NEW x \in Slots
             PROVE  (x + 1) % MAX_QUEUE_SIZE = IF x + 1 = MAX_QUEUE_SIZE THEN 0 ELSE x + 1
  OBVIOUS
<1>1. CASE x + 1 = MAX_QUEUE_SIZE
  BY <1>1, SizesAssumption DEF Slots
<1>2. CASE x + 1 < MAX_QUEUE_SIZE
  BY <1>2, SizesAssumption DEF Slots
<1>3. QED
  BY <1>1, <1>2, SizesAssumption DEF Slots

\* How many places there are from one place of the ring to another.
LEMMA Distance ==
  \A r, f \in Slots : (r - f) % MAX_QUEUE_SIZE = IF r >= f THEN r - f ELSE r - f + MAX_QUEUE_SIZE
<1> SUFFICES ASSUME NEW r \in Slots, NEW f \in Slots
             PROVE  (r - f) % MAX_QUEUE_SIZE = IF r >= f THEN r - f ELSE r - f + MAX_QUEUE_SIZE
  OBVIOUS
<1>1. CASE r >= f
  BY <1>1, SizesAssumption DEF Slots
<1>2. CASE r < f
  BY <1>2, SizesAssumption DEF Slots
<1>3. QED
  BY <1>1, <1>2, SizesAssumption DEF Slots

\* An index taken modulo the size is a place of the ring.
LEMMA InSlots == 0 \in Slots /\ \A x \in Nat : (x + 1) % MAX_QUEUE_SIZE \in Slots
BY SizesAssumption DEF Slots

\* The first elements of a sequence.
LEMMA FirstOf ==
  ASSUME NEW S, NEW seq \in Seq(S), NEW k \in 0 .. Len(seq)
  PROVE  /\ SubSeq(seq, 1, k) \in Seq(S) /\ Len(SubSeq(seq, 1, k)) = k
         /\ \A i \in 1 .. k : SubSeq(seq, 1, k)[i] = seq[i]
<1>1. Len(seq) \in Nat /\ k \in Int /\ \A i \in 1 .. k : seq[i] \in S
  OBVIOUS
<1>2. /\ SubSeq(seq, 1, k) \in Seq(S)
      /\ Len(SubSeq(seq, 1, k)) = IF 1 <= k THEN k - 1 + 1 ELSE 0
      /\ \A i \in 1 .. k - 1 + 1 : SubSeq(seq, 1, k)[i] = seq[1 + i - 1]
  BY <1>1, SubSeqProperties
<1>3. QED
  BY <1>1, <1>2

\* The running frame.
LEMMA TopFrame ==
  ASSUME stack \in Seq(Frames), stack # <<>>
  PROVE  /\ Len(stack) \in Nat \ {0} /\ Top \in Frames /\ Top = stack[Len(stack)]
         /\ \A i \in 1 .. Len(stack) : stack[i] \in Frames
BY DEF Top

\* The frames under the running one.
LEMMA LowerFrames ==
  ASSUME stack \in Seq(Frames), stack # <<>>
  PROVE  /\ Below \in Seq(Frames) /\ Len(Below) = Len(stack) - 1
         /\ \A i \in 1 .. Len(stack) - 1 : Below[i] = stack[i]
<1>1. Len(stack) - 1 \in 0 .. Len(stack)
  BY TopFrame
<1>2. QED
  BY <1>1, FirstOf DEF Below

\* The running frame is replaced, and the others stay.
LEMMA RunShape ==
  ASSUME stack \in Seq(Frames), stack # <<>>, NEW frame \in Frames, Run(frame)
  PROVE  /\ stack' \in Seq(Frames) /\ stack' # <<>> /\ Len(stack') = Len(stack)
         /\ stack'[Len(stack)] = frame /\ Top' = frame
         /\ \A i \in 1 .. Len(stack) - 1 : stack'[i] = stack[i]
<1>1. stack' = Append(Below, frame)
  BY DEF Run
<1>2. QED
  BY <1>1, LowerFrames, AppendProperties, TopFrame DEF Top

\* A frame is put on top of the others.
LEMMA PushShape ==
  ASSUME stack \in Seq(Frames), stack # <<>>, NEW frame \in Frames, stack' = Append(stack, frame)
  PROVE  /\ stack' \in Seq(Frames) /\ stack' # <<>> /\ Len(stack') = Len(stack) + 1
         /\ stack'[Len(stack) + 1] = frame /\ Top' = frame
         /\ \A i \in 1 .. Len(stack) : stack'[i] = stack[i]
BY TopFrame DEF Top

\* A handler leaves: its caller goes on, at the head of the loop if it is
\* run_queued_signals, with the mask it had.
Resumed(frame) == IF Top.direct THEN [frame EXCEPT !.at = "drain", !.oset = {}] ELSE frame
LEMMA ReturnShape ==
  ASSUME stack \in Seq(Frames), Len(stack) > 1, ReturnFrom(Top)
  PROVE  /\ stack' \in Seq(Frames) /\ stack' # <<>> /\ Len(stack') = Len(stack) - 1
         /\ stack'[Len(stack) - 1] = Resumed(stack[Len(stack) - 1])
         /\ Top' = stack'[Len(stack) - 1]
         /\ \A i \in 1 .. Len(stack) - 2 : stack'[i] = stack[i]
         /\ mask' = IF Top.direct THEN stack[Len(stack) - 1].oset ELSE Top.saved
<1>0. /\ Len(stack) \in Nat /\ Len(stack) - 1 \in 1 .. Len(stack)
      /\ stack[Len(stack) - 1] \in Frames
  OBVIOUS
<1>1. /\ Below \in Seq(Frames) /\ Len(Below) = Len(stack) - 1
      /\ \A i \in 1 .. Len(stack) - 1 : Below[i] = stack[i]
  BY <1>0, LowerFrames
<1>2. CASE Top.direct
  <2> DEFINE rest == SubSeq(stack, 1, Len(stack) - 2)
             frame == [stack[Len(stack) - 1] EXCEPT !.at = "drain", !.oset = {}]
  <2>1. /\ rest \in Seq(Frames) /\ Len(rest) = Len(stack) - 2
        /\ \A i \in 1 .. Len(stack) - 2 : rest[i] = stack[i]
    <3>1. Len(stack) - 2 \in 0 .. Len(stack)
      BY <1>0
    <3>2. QED
      BY <3>1, FirstOf
  <2>2. frame \in Frames
    BY <1>0 DEF Frames
  <2>3. stack' = Append(rest, frame) /\ mask' = stack[Len(stack) - 1].oset
    <3>1. Below[Len(Below)] = stack[Len(stack) - 1]
      BY <1>0, <1>1
    <3>2. QED
      BY <1>2, <3>1 DEF ReturnFrom
  <2> HIDE DEF rest, frame
  <2>4. /\ stack' \in Seq(Frames) /\ Len(stack') = Len(stack) - 1
        /\ stack'[Len(stack) - 1] = frame
        /\ \A i \in 1 .. Len(stack) - 2 : stack'[i] = stack[i]
    BY <1>0, <2>1, <2>2, <2>3, AppendProperties
  <2>5. QED
    BY <1>0, <1>2, <2>3, <2>4 DEF Resumed, Top, frame
<1>3. CASE ~Top.direct
  <2>1. stack' = Below /\ mask' = Top.saved
    BY <1>3 DEF ReturnFrom
  <2>2. QED
    BY <1>0, <1>1, <1>3, <2>1 DEF Resumed, Top
<1>4. QED
  BY <1>2, <1>3

\* The frame the kernel calls the handler in.
LEMMA HandlerFrame ==
  ASSUME NEW e \in {Main} \cup Events, NEW d \in BOOLEAN, NEW old \in SUBSET Signals
  PROVE  /\ Handler(e, d, old) \in Frames /\ FrameInv(Handler(e, d, old))
         /\ Open(Handler(e, d, old))
         /\ Handler(e, d, old).at = "entry" /\ Handler(e, d, old).event = e
         /\ Handler(e, d, old).direct = d /\ Handler(e, d, old).saved = old
BY InSlots DEF Handler, NewFrame, Frames, FrameInv, Open

\* A signal is caught on top of the running frame; one that waits is woken.
Woken == IF At("suspended") THEN [Top EXCEPT !.at = "loop", !.oset = {}] ELSE Top
Caller == IF At("suspended") THEN Top.oset ELSE mask
LEMMA CatchShape ==
  ASSUME LooseTypes, NEW s \in Signals, Catch(s)
  PROVE  /\ stack' \in Seq(Frames) /\ stack' # <<>> /\ Len(stack') = Len(stack) + 1
         /\ stack'[Len(stack) + 1] = Handler(Len(caught) + 1, FALSE, Caller)
         /\ Top' = Handler(Len(caught) + 1, FALSE, Caller)
         /\ stack'[Len(stack)] = Woken /\ Woken \in Frames
         /\ \A i \in 1 .. Len(stack) - 1 : stack'[i] = stack[i]
         /\ Len(caught) + 1 \in Events /\ Caller \in SUBSET Signals
<1>1. Len(caught) \in Nat /\ Len(caught) + 1 \in Events
  BY SizesAssumption DEF Catch, Events, LooseTypes
<1>2. Top \in Frames /\ Caller \in SUBSET Signals
  BY TopFrame DEF LooseTypes, Caller, Frames
<1>3. Woken \in Frames
  BY <1>2 DEF Woken, Frames
<1> DEFINE h == Handler(Len(caught) + 1, FALSE, Caller)
<1>4. h \in Frames
  BY <1>1, <1>2, HandlerFrame
<1>5. stack' = IF At("suspended") THEN Append(Append(Below, Woken), h) ELSE Append(stack, h)
  BY DEF Catch, Woken, Caller
<1>6. /\ Below \in Seq(Frames) /\ Len(Below) = Len(stack) - 1
      /\ \A i \in 1 .. Len(stack) - 1 : Below[i] = stack[i]
      /\ Len(stack) \in Nat \ {0}
  BY LowerFrames, TopFrame DEF LooseTypes
<1> HIDE DEF h
<1>7. CASE At("suspended")
  <2> DEFINE low == Append(Below, Woken)
  <2>1. /\ low \in Seq(Frames) /\ Len(low) = Len(stack) /\ low[Len(stack)] = Woken
        /\ \A i \in 1 .. Len(stack) - 1 : low[i] = stack[i]
    BY <1>3, <1>6
  <2>2. stack' = Append(low, h)
    BY <1>5, <1>7
  <2> HIDE DEF low
  <2>3. QED
    <3>1. /\ stack' \in Seq(Frames) /\ stack' # <<>> /\ Len(stack') = Len(stack) + 1
          /\ stack'[Len(stack) + 1] = h /\ \A i \in 1 .. Len(stack) : stack'[i] = low[i]
      BY <1>4, <2>1, <2>2, AppendProperties
    <3>2. QED
      BY <1>1, <1>2, <1>3, <1>6, <2>1, <3>1 DEF Top, h
<1>8. CASE ~At("suspended")
  <2>1. stack' = Append(stack, h) /\ Woken = Top
    BY <1>5, <1>8 DEF Woken
  <2>2. QED
    <3>1. /\ stack' \in Seq(Frames) /\ stack' # <<>> /\ Len(stack') = Len(stack) + 1
          /\ stack'[Len(stack) + 1] = h /\ \A i \in 1 .. Len(stack) : stack'[i] = stack[i]
      BY <1>4, <2>1, AppendProperties DEF LooseTypes
    <3>2. stack'[Len(stack)] = Woken
      BY <1>6, <2>1, <3>1 DEF Top
    <3>3. Top' = h
      BY <1>6, <3>1 DEF Top
    <3>4. \A i \in 1 .. Len(stack) - 1 : stack'[i] = stack[i]
      BY <1>6, <3>1
    <3>5. QED
      BY <1>1, <1>2, <1>3, <3>1, <3>2, <3>3, <3>4 DEF h
<1>9. QED
  BY <1>7, <1>8

-----------------------------------------------------------------------------
(* Types, and who is inside a critical section.                            *)

\* A handler, and only a handler, returns or queues its signal.
LEMMA HandlerOnTop ==
  ASSUME stack \in Seq(Frames), stack # <<>>, CallInv, At("entry") \/ Top.event # Main
  PROVE  Len(stack) > 1
BY TopFrame DEF CallInv, At

\* Every step keeps the types.
LEMMA TypesStep == LooseTypes /\ NestInv /\ CallInv /\ [Next]_vars => LooseTypes'
<1> SUFFICES ASSUME LooseTypes, NestInv, CallInv, [Next]_vars PROVE LooseTypes'
  OBVIOUS
<1>1. /\ Top \in Frames /\ Len(stack) \in Nat \ {0} /\ Top = stack[Len(stack)]
      /\ Main \in Nat /\ 0 \in Slots /\ stack \in Seq(Frames) /\ stack # <<>>
  BY TopFrame, InSlots DEF LooseTypes, Main
<1>2. ASSUME NEW s \in Signals, Catch(s) PROVE LooseTypes'
  <2>1. stack' \in Seq(Frames) /\ stack' # <<>>
    BY <1>2, CatchShape
  <2>2. caught' \in Seq(Signals) /\ Len(caught') = Len(caught) + 1
    BY <1>2, AppendProperties DEF Catch, LooseTypes
  <2>3. Len(caught') <= MaxCaught
    BY <1>2, <2>2, SizesAssumption DEF Catch, LooseTypes
  <2>4. mask' \subseteq Signals
    BY <1>2 DEF Catch, LooseTypes
  <2>5. QED
    BY <1>2, <2>1, <2>2, <2>3, <2>4 DEF Catch, LooseTypes, ring
<1>3. CASE Queue
  <2>1. stack' \in Seq(Frames) /\ stack' # <<>> /\ mask' \subseteq Signals
    <3>1. Len(stack) > 1 /\ ReturnFrom(Top)
      BY <1>1, <1>3, HandlerOnTop DEF Queue
    <3>2. stack[Len(stack) - 1] \in Frames
      BY <1>1, <3>1, TopFrame
    <3>3. QED
      BY <1>1, <3>1, <3>2, ReturnShape DEF Frames
  <2>2. (queue_rear + 1) % MAX_QUEUE_SIZE \in Slots /\ queue_rear + 1 \in Nat
    BY InSlots DEF LooseTypes
  <2>3. Top.event \in {Main} \cup Events
    BY <1>1 DEF Frames
  <2>4. /\ queue_rear' \in Nat /\ signal_queue' \in [Slots -> {Main} \cup Events]
        /\ signal_mask_queue' \in [Slots -> SUBSET Signals]
        /\ queued' \in Seq({Main} \cup Events)
    <3>1. CASE (queue_rear + 1) % MAX_QUEUE_SIZE # queue_front
      <4>1. /\ queue_rear' = (queue_rear + 1) % MAX_QUEUE_SIZE
            /\ signal_queue' = [signal_queue EXCEPT ![queue_rear'] = Top.event]
            /\ signal_mask_queue' = [signal_mask_queue EXCEPT ![queue_rear'] = mask]
            /\ queued' = Append(queued, Top.event)
        BY <1>3, <3>1 DEF Queue
      <4>2. queue_rear' \in Slots /\ queue_rear' \in Nat
        BY <2>2, <4>1 DEF Slots
      <4>3. queued' \in Seq({Main} \cup Events)
        BY <2>3, <4>1, AppendProperties DEF LooseTypes
      <4>4. QED
        BY <2>3, <4>1, <4>2, <4>3 DEF LooseTypes
    <3>2. CASE (queue_rear + 1) % MAX_QUEUE_SIZE = queue_front
      BY <1>3, <2>2, <3>2 DEF Queue, LooseTypes
    <3>3. QED
      BY <3>1, <3>2
  <2>5. QED
    BY <1>3, <2>1, <2>4 DEF Queue, LooseTypes
<1>4. CASE Dispatch
  <2>1. [Top EXCEPT !.at = "run"] \in Frames /\ Top.event \in {Main} \cup Events
    BY <1>1 DEF Frames
  <2>2. stack' \in Seq(Frames) /\ stack' # <<>>
    BY <1>1, <1>4, <2>1, RunShape DEF Dispatch
  <2>3. QED
    BY <1>4, <2>1, <2>2, AppendProperties DEF Dispatch, LooseTypes, ring
<1>5. CASE Return
  <2>1. Len(stack) > 1 /\ ReturnFrom(Top)
    BY <1>1, <1>5, HandlerOnTop DEF Return
  <2>2. stack[Len(stack) - 1] \in Frames
    BY <1>1, <2>1, TopFrame
  <2>3. stack' \in Seq(Frames) /\ stack' # <<>> /\ mask' \subseteq Signals
    BY <1>1, <2>1, <2>2, ReturnShape DEF Frames
  <2>4. QED
    BY <1>5, <2>3 DEF Return, LooseTypes, ring
<1>6. CASE queue_signals
  <2>1. [Top EXCEPT !.depth = @ + 1] \in Frames
    <3>1. Top.depth + 1 \in Nat
      BY <1>1 DEF Frames
    <3>2. QED
      BY <1>1, <3>1 DEF Frames
  <2>2. stack' \in Seq(Frames) /\ stack' # <<>>
    BY <1>1, <1>6, <2>1, RunShape DEF queue_signals
  <2>3. QED
    BY <1>6, <2>2 DEF queue_signals, LooseTypes, ring
<1>7. CASE unqueue_signals
  <2>1. Top.depth \in Nat \ {0} /\ ~Open(Top) /\ queueing_enabled = Top.depth
    <3>1. Top.depth \in Nat \ {0} /\ At("run") /\ FrameInv(Top)
      BY <1>1, <1>7 DEF unqueue_signals, RunsShellCode, NestInv, Frames
    <3>2. ~Open(Top)
      BY <3>1 DEF Open, FrameInv, At
    <3>3. QED
      BY <1>1, <3>1, <3>2 DEF NestInv
  <2>2. [Top EXCEPT !.depth = @ - 1, !.at = IF queueing_enabled = 1 THEN "drain" ELSE "run"]
          \in Frames
    <3>1. Top.depth - 1 \in Nat
      BY <2>1
    <3>2. QED
      BY <1>1, <3>1 DEF Frames
  <2>3. stack' \in Seq(Frames) /\ stack' # <<>>
    BY <1>1, <1>7, <2>2, RunShape DEF unqueue_signals
  <2>4. QED
    BY <1>7, <2>1, <2>3 DEF unqueue_signals, LooseTypes, ring
<1>8. CASE dont_queue_signals
  <2>1. [Top EXCEPT !.waiting = TRUE, !.q = queueing_enabled, !.at = "drain"] \in Frames
    BY <1>1 DEF Frames, LooseTypes
  <2>2. stack' \in Seq(Frames) /\ stack' # <<>>
    BY <1>1, <1>8, <2>1, RunShape DEF dont_queue_signals
  <2>3. QED
    BY <1>8, <2>2 DEF dont_queue_signals, LooseTypes, ring
<1>9. CASE child_suspend
  <2>1. [Top EXCEPT !.at = "suspended", !.oset = mask] \in Frames
    BY <1>1 DEF Frames, LooseTypes
  <2>2. stack' \in Seq(Frames) /\ stack' # <<>>
    BY <1>1, <1>9, <2>1, RunShape DEF child_suspend
  <2>3. QED
    BY <1>9, <2>2 DEF child_suspend, LooseTypes, ring
<1>10. CASE restore_queue_signals
  <2>1. [Top EXCEPT !.waiting = FALSE, !.q = 0, !.at = "run"] \in Frames /\ Top.q \in Nat
    BY <1>1 DEF Frames
  <2>2. stack' \in Seq(Frames) /\ stack' # <<>>
    BY <1>1, <1>10, <2>1, RunShape DEF restore_queue_signals
  <2>3. QED
    BY <1>10, <2>1, <2>2 DEF restore_queue_signals, LooseTypes, ring
<1>11. CASE DrainIsOver
  <2>1. [Top EXCEPT !.at = IF Top.waiting THEN "loop" ELSE "run"] \in Frames
    BY <1>1 DEF Frames
  <2>2. stack' \in Seq(Frames) /\ stack' # <<>>
    BY <1>1, <1>11, <2>1, RunShape DEF DrainIsOver
  <2>3. QED
    BY <1>11, <2>2, SignalsAssumption DEF DrainIsOver, LooseTypes, ring
<1>12. CASE LoadFront
  <2>1. (queue_front + 1) % MAX_QUEUE_SIZE \in Slots
    BY InSlots DEF LooseTypes, Slots
  <2>2. [Top EXCEPT !.at = "store", !.next = (queue_front + 1) % MAX_QUEUE_SIZE] \in Frames
    BY <1>1, <2>1 DEF Frames
  <2>3. stack' \in Seq(Frames) /\ stack' # <<>>
    BY <1>1, <1>12, <2>2, RunShape DEF LoadFront
  <2>4. QED
    BY <1>12, <2>3 DEF LoadFront, LooseTypes, ring
<1>13. CASE StoreFront
  <2>1. [Top EXCEPT !.at = "mask", !.next = 0] \in Frames /\ Top.next \in Slots
    BY <1>1 DEF Frames
  <2>2. stack' \in Seq(Frames) /\ stack' # <<>>
    BY <1>1, <1>13, <2>1, RunShape DEF StoreFront
  <2>3. QED
    BY <1>13, <2>1, <2>2 DEF StoreFront, LooseTypes
<1>14. CASE SetStoredMask
  <2>1. [Top EXCEPT !.at = "call", !.oset = mask] \in Frames
    BY <1>1 DEF Frames, LooseTypes
  <2>2. stack' \in Seq(Frames) /\ stack' # <<>>
    BY <1>1, <1>14, <2>1, RunShape DEF SetStoredMask
  <2>3. QED
    BY <1>14, <2>2 DEF SetStoredMask, LooseTypes, ring
<1>15. CASE CallHandler
  <2>1. Handler(signal_queue[queue_front], TRUE, {}) \in Frames
    BY HandlerFrame DEF LooseTypes
  <2>2. stack' \in Seq(Frames) /\ stack' # <<>>
    BY <1>1, <1>15, <2>1, PushShape DEF CallHandler
  <2>3. QED
    BY <1>15, <2>2 DEF CallHandler, LooseTypes, ring
<1>16. CASE UNCHANGED vars
  BY <1>16 DEF vars, ring, LooseTypes
<1>17. QED
  BY <1>2, <1>3, <1>4, <1>5, <1>6, <1>7, <1>8, <1>9, <1>10, <1>11, <1>12, <1>13, <1>14, <1>15,
     <1>16 DEF Next, Handling, Draining, Waiting, Enter

\* Under a frame that runs code of its own nobody is inside a critical section.
LEMMA LowerOpen ==
  ASSUME LooseTypes, NestInv, Top.at # "entry" \/ queueing_enabled = 0
  PROVE  /\ \A i \in 1 .. Len(stack) - 1 : Open(stack[i])
         /\ queueing_enabled = IF Open(Top) THEN 0 ELSE Top.depth
<1>1. Len(stack) \in Nat \ {0} /\ Top = stack[Len(stack)]
  BY TopFrame DEF LooseTypes
<1>2. ASSUME NEW i \in 1 .. Len(stack) - 1 PROVE Open(stack[i])
  <2>1. CASE Top.at # "entry"
    BY <1>1, <2>1 DEF NestInv
  <2>2. CASE queueing_enabled = 0
    <3>1. i \in 1 .. Len(stack)
      BY <1>1
    <3>2. QED
      BY <2>2, <3>1 DEF NestInv, Open
  <2>3. QED
    BY <2>1, <2>2
<1>3. CASE Open(Top)
  <2>1. \A i \in 1 .. Len(stack) : Open(stack[i])
    BY <1>1, <1>2, <1>3
  <2>2. QED
    BY <1>2, <1>3, <2>1 DEF NestInv
<1>4. CASE ~Open(Top)
  BY <1>1, <1>2, <1>4 DEF NestInv
<1>5. QED
  BY <1>3, <1>4

\* The running frame goes on, and the level is its own.
LEMMA NestRun ==
  ASSUME LooseTypes, NestInv, NEW frame \in Frames, Run(frame), FrameInv(frame),
         Top.at # "entry" \/ queueing_enabled = 0,
         queueing_enabled' = IF Open(frame) THEN 0 ELSE frame.depth
  PROVE  NestInv'
<1>1. Len(stack) \in Nat \ {0} /\ \A i \in 1 .. Len(stack) - 1 : Open(stack[i])
  BY TopFrame, LowerOpen DEF LooseTypes
<1>2. /\ Len(stack') = Len(stack) /\ stack'[Len(stack)] = frame
      /\ \A i \in 1 .. Len(stack) - 1 : stack'[i] = stack[i]
  BY RunShape DEF LooseTypes
<1>3. \A i \in 1 .. Len(stack') : FrameInv(stack'[i])
  BY <1>1, <1>2 DEF NestInv
<1>4. \A i \in 1 .. Len(stack') : ~Open(stack'[i]) => i = Len(stack)
  BY <1>1, <1>2
<1>5. \A i \in 1 .. Len(stack') : ~Open(stack'[i]) =>
        /\ queueing_enabled' = stack'[i].depth
        /\ \A j \in i + 1 .. Len(stack') : stack'[j].at = "entry"
  BY <1>1, <1>2, <1>4
<1>6. (\A i \in 1 .. Len(stack') : Open(stack'[i])) => queueing_enabled' = 0
  BY <1>1, <1>2
<1>7. QED
  BY <1>3, <1>5, <1>6 DEF NestInv

\* A handler leaves.
LEMMA NestReturn ==
  ASSUME LooseTypes, NestInv, CallInv, Len(stack) > 1, ReturnFrom(Top), Open(Top),
         UNCHANGED queueing_enabled
  PROVE  NestInv'
<1> DEFINE n == Len(stack)
<1>1. /\ n \in Nat \ {0, 1} /\ n - 1 \in 1 .. n /\ Top = stack[n]
      /\ \A i \in 1 .. n : stack[i] \in Frames
  BY TopFrame DEF LooseTypes
<1>2. /\ Len(stack') = n - 1 /\ stack'[n - 1] = Resumed(stack[n - 1])
      /\ \A i \in 1 .. n - 2 : stack'[i] = stack[i]
  BY ReturnShape DEF LooseTypes
<1>3. Top.direct => stack[n - 1].at = "call"
  BY <1>1 DEF CallInv
<1>4. /\ FrameInv(stack'[n - 1]) /\ (Open(stack'[n - 1]) <=> Open(stack[n - 1]))
      /\ stack'[n - 1].depth = stack[n - 1].depth
      /\ stack[n - 1].at = "entry" => stack'[n - 1].at = "entry"
  <2>1. FrameInv(stack[n - 1]) /\ stack[n - 1] \in Frames
    BY <1>1 DEF NestInv
  <2>2. CASE ~Top.direct
    BY <1>2, <2>1, <2>2 DEF Resumed
  <2>3. CASE Top.direct
    <3>1. stack'[n - 1] = [stack[n - 1] EXCEPT !.at = "drain", !.oset = {}]
      BY <1>2, <2>3 DEF Resumed
    <3>2. QED
      BY <1>3, <2>1, <2>3, <3>1 DEF FrameInv, Open, Frames
  <2>4. QED
    BY <2>2, <2>3
<1> HIDE DEF n
<1>5. ASSUME NEW i \in 1 .. n - 1
      PROVE  /\ FrameInv(stack'[i]) /\ (Open(stack'[i]) <=> Open(stack[i]))
             /\ stack'[i].depth = stack[i].depth
             /\ stack[i].at = "entry" => stack'[i].at = "entry"
  <2>1. CASE i = n - 1
    BY <1>4, <2>1
  <2>2. CASE i \in 1 .. n - 2
    BY <1>1, <1>2, <2>2 DEF NestInv, n
  <2>3. QED
    BY <1>1, <2>1, <2>2
<1>6. \A i \in 1 .. n - 1 : ~Open(stack'[i]) =>
        /\ queueing_enabled' = stack'[i].depth
        /\ \A j \in i + 1 .. n - 1 : stack'[j].at = "entry"
  <2> SUFFICES ASSUME NEW i \in 1 .. n - 1, ~Open(stack'[i])
               PROVE  /\ queueing_enabled' = stack'[i].depth
                      /\ \A j \in i + 1 .. n - 1 : stack'[j].at = "entry"
    OBVIOUS
  <2>1. i \in 1 .. n /\ ~Open(stack[i]) /\ stack'[i].depth = stack[i].depth
    BY <1>1, <1>5
  <2>2. /\ queueing_enabled = stack[i].depth
        /\ \A j \in i + 1 .. n : stack[j].at = "entry"
    BY <1>1, <2>1 DEF NestInv, n
  <2>3. ASSUME NEW j \in i + 1 .. n - 1
        PROVE  stack'[j].at = "entry"
    <3>1. j \in 1 .. n - 1 /\ j \in i + 1 .. n
      BY <1>1
    <3>2. QED
      BY <1>5, <2>2, <3>1
  <2>4. QED
    BY <1>1, <2>1, <2>2, <2>3
<1>7. (\A i \in 1 .. n - 1 : Open(stack'[i])) => queueing_enabled' = 0
  <2>1. (\A i \in 1 .. n - 1 : Open(stack'[i])) => \A i \in 1 .. n : Open(stack[i])
    BY <1>1, <1>5
  <2>2. QED
    BY <2>1 DEF NestInv, n
<1>8. QED
  BY <1>2, <1>5, <1>6, <1>7 DEF NestInv

\* A handler is put on top.
LEMMA NestPush ==
  ASSUME LooseTypes, NestInv, NEW handler \in Frames, NEW woken \in Frames,
         Len(stack') = Len(stack) + 1, stack'[Len(stack) + 1] = handler,
         stack'[Len(stack)] = woken, \A i \in 1 .. Len(stack) - 1 : stack'[i] = stack[i],
         FrameInv(handler), Open(handler), handler.at = "entry",
         FrameInv(woken), Open(woken) <=> Open(Top), woken.depth = Top.depth,
         Top.at = "entry" => woken.at = "entry", UNCHANGED queueing_enabled
  PROVE  NestInv'
<1> DEFINE n == Len(stack)
<1>1. n \in Nat \ {0} /\ Top = stack[n]
  BY TopFrame DEF LooseTypes
<1>2. ASSUME NEW i \in 1 .. n
      PROVE  /\ FrameInv(stack'[i]) /\ (Open(stack'[i]) <=> Open(stack[i]))
             /\ stack'[i].depth = stack[i].depth
             /\ stack[i].at = "entry" => stack'[i].at = "entry"
  <2>1. CASE i = n
    BY <1>1, <2>1
  <2>2. CASE i \in 1 .. n - 1
    BY <1>1, <2>2 DEF NestInv
  <2>3. QED
    BY <1>1, <2>1, <2>2
<1>3. \A i \in 1 .. n + 1 : FrameInv(stack'[i])
  BY <1>1, <1>2
<1>4. \A i \in 1 .. n + 1 : ~Open(stack'[i]) =>
        /\ queueing_enabled' = stack'[i].depth
        /\ \A j \in i + 1 .. n + 1 : stack'[j].at = "entry"
  <2> SUFFICES ASSUME NEW i \in 1 .. n + 1, ~Open(stack'[i])
               PROVE  /\ queueing_enabled' = stack'[i].depth
                      /\ \A j \in i + 1 .. n + 1 : stack'[j].at = "entry"
    OBVIOUS
  <2>1. i \in 1 .. n
    BY <1>1
  <2>2. /\ queueing_enabled = stack[i].depth
        /\ \A j \in i + 1 .. n : stack[j].at = "entry"
    BY <1>2, <2>1 DEF NestInv
  <2>3. QED
    BY <1>1, <1>2, <2>1, <2>2
<1>5. (\A i \in 1 .. n + 1 : Open(stack'[i])) => queueing_enabled' = 0
  <2>1. (\A i \in 1 .. n + 1 : Open(stack'[i])) => \A i \in 1 .. n : Open(stack[i])
    BY <1>1, <1>2
  <2>2. QED
    BY <2>1 DEF NestInv
<1>6. QED
  BY <1>3, <1>4, <1>5 DEF NestInv

\* Every step keeps the level of queueing_enabled.
LEMMA NestStep == LooseTypes /\ NestInv /\ CallInv /\ [Next]_vars => NestInv'
<1> SUFFICES ASSUME LooseTypes, NestInv, CallInv, [Next]_vars PROVE NestInv'
  OBVIOUS
<1>1. /\ Top \in Frames /\ FrameInv(Top) /\ queueing_enabled \in Nat
      /\ Top.depth \in Nat /\ Top.q \in Nat /\ stack \in Seq(Frames) /\ stack # <<>>
  BY TopFrame DEF LooseTypes, NestInv, Frames
<1>2. Top.at # "entry" => queueing_enabled = IF Open(Top) THEN 0 ELSE Top.depth
  BY LowerOpen
<1>3. ASSUME NEW s \in Signals, Catch(s) PROVE NestInv'
  <2>1. /\ Woken \in Frames /\ FrameInv(Woken) /\ (Open(Woken) <=> Open(Top))
        /\ Woken.depth = Top.depth /\ (Top.at = "entry" => Woken.at = "entry")
    <3>1. CASE At("suspended")
      <4>1. Woken = [Top EXCEPT !.at = "loop", !.oset = {}] /\ Top.at = "suspended"
        BY <3>1 DEF Woken, At
      <4>2. QED
        BY <1>1, <4>1 DEF FrameInv, Open, Frames
    <3>2. CASE ~At("suspended")
      BY <1>1, <3>2 DEF Woken
    <3>3. QED
      BY <3>1, <3>2
  <2>2. UNCHANGED queueing_enabled
    BY <1>3 DEF Catch
  <2> DEFINE h == Handler(Len(caught) + 1, FALSE, Caller)
  <2>3. h \in Frames /\ FrameInv(h) /\ Open(h) /\ h.at = "entry"
    <3>1. Len(caught) + 1 \in Events /\ Caller \in SUBSET Signals
      BY <1>3, CatchShape
    <3>2. h \in Frames
      BY <3>1, HandlerFrame
    <3>3. QED
      BY <3>2 DEF Handler, NewFrame, FrameInv, Open
  <2>4. /\ Len(stack') = Len(stack) + 1 /\ stack'[Len(stack) + 1] = h
        /\ stack'[Len(stack)] = Woken
        /\ \A i \in 1 .. Len(stack) - 1 : stack'[i] = stack[i]
    BY <1>3, CatchShape
  <2> HIDE DEF h
  <2>5. QED
    BY <2>1, <2>2, <2>3, <2>4, NestPush
<1>4. CASE Queue
  <2>1. Len(stack) > 1 /\ ReturnFrom(Top) /\ UNCHANGED queueing_enabled
    BY <1>1, <1>4, HandlerOnTop DEF Queue
  <2>2. Open(Top)
    BY <1>1, <1>4 DEF Queue, FrameInv, Open, At
  <2>3. QED
    BY <2>1, <2>2, NestReturn
<1>5. CASE Return
  <2>1. Len(stack) > 1 /\ ReturnFrom(Top) /\ UNCHANGED queueing_enabled
    BY <1>1, <1>5, HandlerOnTop DEF Return
  <2>2. Open(Top)
    BY <1>5 DEF Return, Open
  <2>3. QED
    BY <2>1, <2>2, NestReturn
<1>6. CASE Dispatch
  <2> DEFINE frame == [Top EXCEPT !.at = "run"]
  <2>1. /\ frame \in Frames /\ FrameInv(frame) /\ Open(frame) /\ Run(frame)
        /\ queueing_enabled = 0 /\ queueing_enabled' = 0
    BY <1>1, <1>6 DEF Dispatch, At, FrameInv, Open, Frames
  <2> HIDE DEF frame
  <2>2. QED
    BY <2>1, NestRun
<1>7. CASE queue_signals
  <2> DEFINE frame == [Top EXCEPT !.depth = @ + 1]
  <2>1. At("run") /\ Run(frame) /\ queueing_enabled' = queueing_enabled + 1
    BY <1>7 DEF queue_signals, RunsShellCode
  <2>2. ~Top.waiting
    BY <1>1, <2>1 DEF FrameInv, At
  <2>3. Top.depth + 1 \in Nat /\ Top.depth + 1 # 0
    BY <1>1
  <2>4. /\ frame \in Frames /\ FrameInv(frame) /\ ~Open(frame) /\ frame.depth = Top.depth + 1
    BY <1>1, <2>1, <2>2, <2>3 DEF At, FrameInv, Open, Frames
  <2>5. queueing_enabled = Top.depth /\ Top.at # "entry"
    BY <1>2, <2>1, <2>2 DEF Open, At
  <2> HIDE DEF frame
  <2>6. QED
    BY <2>1, <2>4, <2>5, NestRun
<1>8. CASE unqueue_signals
  <2> DEFINE frame == [Top EXCEPT !.depth = @ - 1,
                                  !.at = IF queueing_enabled = 1 THEN "drain" ELSE "run"]
  <2>1. At("run") /\ Run(frame) /\ queueing_enabled' = queueing_enabled - 1 /\ Top.depth > 0
    BY <1>8 DEF unqueue_signals, RunsShellCode
  <2>2. ~Top.waiting
    BY <1>1, <2>1 DEF FrameInv, At
  <2>3. queueing_enabled = Top.depth /\ Top.at # "entry" /\ Top.depth - 1 \in Nat
    BY <1>1, <1>2, <2>1, <2>2 DEF Open, At
  <2>4. /\ frame \in Frames /\ FrameInv(frame)
        /\ frame.depth = Top.depth - 1 /\ ~frame.waiting
    <3>1. CASE queueing_enabled = 1
      <4>1. Top.depth - 1 = 0
        BY <2>3, <3>1
      <4>2. QED
        BY <1>1, <2>1, <2>2, <2>3, <3>1, <4>1 DEF At, FrameInv, Open, Frames
    <3>2. CASE queueing_enabled # 1
      BY <1>1, <2>1, <2>2, <2>3, <3>2 DEF At, FrameInv, Open, Frames
    <3>3. QED
      BY <3>1, <3>2
  <2> HIDE DEF frame
  <2>5. QED
    BY <2>1, <2>3, <2>4, NestRun DEF Open
<1>9. CASE dont_queue_signals
  <2> DEFINE frame == [Top EXCEPT !.waiting = TRUE, !.q = queueing_enabled, !.at = "drain"]
  <2>1. At("run") /\ Run(frame) /\ queueing_enabled' = 0
    BY <1>9 DEF dont_queue_signals, RunsShellCode
  <2>2. queueing_enabled = Top.depth /\ Top.at # "entry"
    BY <1>1, <1>2, <2>1 DEF FrameInv, Open, At
  <2>3. frame \in Frames /\ FrameInv(frame) /\ Open(frame)
    BY <1>1, <2>1, <2>2 DEF At, FrameInv, Open, Frames
  <2> HIDE DEF frame
  <2>4. QED
    BY <2>1, <2>2, <2>3, NestRun
<1>10. CASE child_suspend
  <2> DEFINE frame == [Top EXCEPT !.at = "suspended", !.oset = mask]
  <2>1. At("loop") /\ Run(frame) /\ UNCHANGED queueing_enabled
    BY <1>10 DEF child_suspend
  <2>2. Top.waiting /\ Top.at # "entry" /\ queueing_enabled = 0
    BY <1>1, <1>2, <2>1 DEF FrameInv, Open, At
  <2>3. frame \in Frames /\ FrameInv(frame) /\ Open(frame)
    BY <1>1, <2>1, <2>2 DEF At, FrameInv, Open, Frames, LooseTypes
  <2> HIDE DEF frame
  <2>4. QED
    BY <2>1, <2>2, <2>3, NestRun
<1>11. CASE restore_queue_signals
  <2> DEFINE frame == [Top EXCEPT !.waiting = FALSE, !.q = 0, !.at = "run"]
  <2>1. At("loop") /\ Run(frame) /\ queueing_enabled' = Top.q
    BY <1>11 DEF restore_queue_signals
  <2>2. Top.waiting /\ Top.at # "entry" /\ Top.q = Top.depth
    BY <1>1, <2>1 DEF FrameInv, At
  <2>3. frame \in Frames /\ FrameInv(frame) /\ ~frame.waiting /\ frame.depth = Top.depth
    BY <1>1, <2>1, <2>2 DEF At, FrameInv, Frames
  <2> HIDE DEF frame
  <2>4. QED
    BY <2>1, <2>2, <2>3, NestRun DEF Open
<1>12. CASE DrainIsOver
  <2> DEFINE frame == [Top EXCEPT !.at = IF Top.waiting THEN "loop" ELSE "run"]
  <2>1. At("drain") /\ Run(frame) /\ UNCHANGED queueing_enabled
    BY <1>12 DEF DrainIsOver
  <2>2. Open(Top) /\ Top.at # "entry" /\ queueing_enabled = 0
    BY <1>1, <1>2, <2>1 DEF FrameInv, At
  <2>3. frame \in Frames /\ FrameInv(frame) /\ Open(frame)
    BY <1>1, <2>1, <2>2 DEF At, FrameInv, Open, Frames
  <2> HIDE DEF frame
  <2>4. QED
    BY <2>1, <2>2, <2>3, NestRun
<1>13. CASE LoadFront
  <2> DEFINE frame == [Top EXCEPT !.at = "store", !.next = (queue_front + 1) % MAX_QUEUE_SIZE]
  <2>1. At("drain") /\ Run(frame) /\ UNCHANGED queueing_enabled
    BY <1>13 DEF LoadFront
  <2>2. Open(Top) /\ Top.at # "entry" /\ queueing_enabled = 0
    BY <1>1, <1>2, <2>1 DEF FrameInv, At
  <2>3. frame \in Frames /\ FrameInv(frame) /\ Open(frame)
    <3>1. (queue_front + 1) % MAX_QUEUE_SIZE \in Slots
      BY InSlots DEF LooseTypes, Slots
    <3>2. QED
      BY <1>1, <2>1, <2>2, <3>1 DEF At, FrameInv, Open, Frames
  <2> HIDE DEF frame
  <2>4. QED
    BY <2>1, <2>2, <2>3, NestRun
<1>14. CASE StoreFront
  <2> DEFINE frame == [Top EXCEPT !.at = "mask", !.next = 0]
  <2>1. At("store") /\ Run(frame) /\ UNCHANGED queueing_enabled
    BY <1>14 DEF StoreFront
  <2>2. Open(Top) /\ Top.at # "entry" /\ queueing_enabled = 0
    BY <1>1, <1>2, <2>1 DEF FrameInv, At
  <2>3. frame \in Frames /\ FrameInv(frame) /\ Open(frame)
    BY <1>1, <2>1, <2>2, InSlots DEF At, FrameInv, Open, Frames
  <2> HIDE DEF frame
  <2>4. QED
    BY <2>1, <2>2, <2>3, NestRun
<1>15. CASE SetStoredMask
  <2> DEFINE frame == [Top EXCEPT !.at = "call", !.oset = mask]
  <2>1. At("mask") /\ Run(frame) /\ UNCHANGED queueing_enabled
    BY <1>15 DEF SetStoredMask
  <2>2. Open(Top) /\ Top.at # "entry" /\ queueing_enabled = 0
    BY <1>1, <1>2, <2>1 DEF FrameInv, At
  <2>3. frame \in Frames /\ FrameInv(frame) /\ Open(frame)
    BY <1>1, <2>1, <2>2 DEF At, FrameInv, Open, Frames, LooseTypes
  <2> HIDE DEF frame
  <2>4. QED
    BY <2>1, <2>2, <2>3, NestRun
<1>16. CASE CallHandler
  <2> DEFINE h == Handler(signal_queue[queue_front], TRUE, {})
  <2>1. h \in Frames /\ FrameInv(h) /\ Open(h) /\ h.at = "entry"
    <3>1. h \in Frames
      BY HandlerFrame DEF LooseTypes
    <3>2. QED
      BY <3>1 DEF Handler, NewFrame, FrameInv, Open
  <2>2. stack' = Append(stack, h) /\ UNCHANGED queueing_enabled
    BY <1>16 DEF CallHandler
  <2> HIDE DEF h
  <2>3. /\ Len(stack') = Len(stack) + 1 /\ stack'[Len(stack) + 1] = h
        /\ \A i \in 1 .. Len(stack) : stack'[i] = stack[i]
    BY <1>1, <2>1, <2>2, PushShape
  <2>4. stack'[Len(stack)] = Top /\ \A i \in 1 .. Len(stack) - 1 : stack'[i] = stack[i]
    BY <1>1, <2>3, TopFrame
  <2>5. QED
    BY <1>1, <2>1, <2>2, <2>3, <2>4, NestPush
<1>17. CASE UNCHANGED vars
  BY <1>17 DEF vars, NestInv
<1>18. QED
  BY <1>3, <1>4, <1>5, <1>6, <1>7, <1>8, <1>9, <1>10, <1>11, <1>12, <1>13, <1>14, <1>15, <1>16,
     <1>17 DEF Next, Handling, Draining, Waiting, Enter

-----------------------------------------------------------------------------
(* Who called whom, and the masks they get back.                           *)

\* The running frame goes on; the main program keeps to the mask of its place.
LEMMA CallsRun ==
  ASSUME LooseTypes, CallInv, MaskInv, NEW frame \in Frames, Run(frame),
         frame.event = Top.event, frame.direct = Top.direct, frame.saved = Top.saved,
         frame.at # "entry",
         Len(stack) = 1 =>
           /\ frame.at = "call" => frame.oset = {}
           /\ frame.at = "suspended" => frame.oset = {SIGCHLD}
           /\ frame.at \notin {"call", "suspended"} =>
                mask' = IF frame.at = "loop" THEN {SIGCHLD} ELSE {}
  PROVE  CallInv' /\ MaskInv'
<1> DEFINE n == Len(stack)
<1>1. n \in Nat \ {0} /\ Top = stack[n]
  BY TopFrame DEF LooseTypes
<1>2. /\ Len(stack') = n /\ stack'[n] = frame
      /\ \A i \in 1 .. n - 1 : stack'[i] = stack[i]
  BY RunShape DEF LooseTypes
<1> HIDE DEF n
<1>3. \A i \in 1 .. n : /\ stack'[i].event = stack[i].event
                        /\ stack'[i].direct = stack[i].direct
                        /\ stack'[i].saved = stack[i].saved
  BY <1>1, <1>2
<1>4. CallInv'
  <2>1. stack'[1].event = Main /\ stack'[1].at # "entry" /\ ~stack'[1].direct
    BY <1>1, <1>2, <1>3 DEF CallInv, n
  <2>2. \A i \in 2 .. n : stack'[i].direct => stack'[i - 1].at = "call"
    BY <1>1, <1>2, <1>3 DEF CallInv, n
  <2>3. \A i \in 1 .. n - 1 : stack'[i].at # "suspended"
    BY <1>1, <1>2 DEF CallInv, n
  <2>4. ~DrainWindow => \A i \in 1 .. n - 1 :
          stack'[i].at \notin {"store", "mask"} /\ (stack'[i].at = "call" => stack'[i + 1].direct)
    BY <1>1, <1>2, <1>3 DEF CallInv, n
  <2>5. QED
    BY <1>2, <2>1, <2>2, <2>3, <2>4 DEF CallInv
<1>5. MaskInv'
  <2>1. CASE n = 1
    BY <1>2, <2>1 DEF MaskInv, MainMask, n
  <2>2. CASE n > 1
    <3>1. stack'[1] = stack[1] /\ stack'[2].saved = stack[2].saved
          /\ stack'[2].direct = stack[2].direct
      BY <1>1, <1>2, <1>3, <2>2
    <3>2. QED
      BY <1>2, <2>2, <3>1 DEF MaskInv, MainMask, n
  <2>3. QED
    BY <1>1, <2>1, <2>2
<1>6. QED
  BY <1>4, <1>5

\* A handler leaves, and its caller has the mask it had.
LEMMA CallsReturn ==
  ASSUME LooseTypes, CallInv, MaskInv, Len(stack) > 1, ReturnFrom(Top)
  PROVE  CallInv' /\ MaskInv'
<1> DEFINE n == Len(stack)
<1>1. /\ n \in Nat \ {0, 1} /\ Top = stack[n]
      /\ \A i \in 1 .. n : stack[i] \in Frames
  BY TopFrame DEF LooseTypes
<1>2. /\ Len(stack') = n - 1 /\ stack'[n - 1] = Resumed(stack[n - 1])
      /\ \A i \in 1 .. n - 2 : stack'[i] = stack[i]
      /\ mask' = IF Top.direct THEN stack[n - 1].oset ELSE Top.saved
  BY ReturnShape DEF LooseTypes
<1>3. Top.direct => stack[n - 1].at = "call"
  BY <1>1 DEF CallInv
<1>4. stack[n - 1].at # "suspended"
  BY <1>1 DEF CallInv
<1> HIDE DEF n
<1>5. /\ stack'[n - 1].event = stack[n - 1].event
      /\ stack'[n - 1].direct = stack[n - 1].direct
      /\ stack'[n - 1].saved = stack[n - 1].saved
      /\ stack'[n - 1].at = IF Top.direct THEN "drain" ELSE stack[n - 1].at
      /\ ~Top.direct => stack'[n - 1].oset = stack[n - 1].oset
  <2>1. stack[n - 1] \in Frames
    BY <1>1
  <2>2. QED
    BY <1>2, <2>1 DEF Resumed, Frames
<1>6. \A i \in 1 .. n - 1 : /\ stack'[i].event = stack[i].event
                            /\ stack'[i].direct = stack[i].direct
                            /\ stack'[i].saved = stack[i].saved
  BY <1>1, <1>2, <1>5
<1>7. CallInv'
  <2>1. stack'[1].event = Main /\ stack'[1].at # "entry" /\ ~stack'[1].direct
    <3>1. stack'[1].at # "entry"
      BY <1>1, <1>2, <1>5 DEF CallInv, n
    <3>2. QED
      BY <1>1, <1>6, <3>1 DEF CallInv, n
  <2>2. ASSUME NEW i \in 2 .. n - 1, stack'[i].direct
        PROVE  stack'[i - 1].at = "call"
    <3>1. i \in 1 .. n - 1 /\ i \in 2 .. n /\ i - 1 \in 1 .. n - 2
      BY <1>1
    <3>2. stack[i].direct /\ stack'[i - 1] = stack[i - 1]
      BY <1>2, <1>6, <2>2, <3>1
    <3>3. QED
      BY <3>1, <3>2 DEF CallInv, n
  <2>3. \A i \in 1 .. n - 2 : stack'[i].at # "suspended"
    BY <1>1, <1>2 DEF CallInv, n
  <2>4. ASSUME ~DrainWindow, NEW i \in 1 .. n - 2
        PROVE  stack'[i].at \notin {"store", "mask"} /\ (stack'[i].at = "call" => stack'[i + 1].direct)
    <3>1. i \in 1 .. n - 1 /\ i + 1 \in 1 .. n - 1 /\ stack'[i] = stack[i]
      BY <1>1, <1>2
    <3>2. stack'[i + 1].direct = stack[i + 1].direct
      BY <1>6, <3>1
    <3>3. QED
      BY <2>4, <3>1, <3>2 DEF CallInv, n
  <2>5. n - 1 - 1 = n - 2
    BY <1>1
  <2>6. QED
    BY <1>2, <2>1, <2>2, <2>3, <2>4, <2>5 DEF CallInv
<1>8. MaskInv'
  <2>1. CASE n = 2
    <3>1. CASE Top.direct
      BY <1>1, <1>2, <1>3, <1>5, <2>1, <3>1 DEF MaskInv, MainMask, n
    <3>2. CASE ~Top.direct
      BY <1>1, <1>2, <1>4, <1>5, <2>1, <3>2 DEF MaskInv, MainMask, n
    <3>3. QED
      BY <3>1, <3>2
  <2>2. CASE n > 2
    <3>1. stack'[1] = stack[1] /\ stack'[2].saved = stack[2].saved
          /\ stack'[2].direct = stack[2].direct /\ Len(stack') > 1
      BY <1>1, <1>2, <1>6, <2>2
    <3>2. QED
      BY <2>2, <3>1 DEF MaskInv, MainMask, n
  <2>3. QED
    BY <1>1, <2>1, <2>2
<1>9. QED
  BY <1>7, <1>8

\* A handler is put on top; it will put back the mask its caller has.
LEMMA CallsPush ==
  ASSUME LooseTypes, CallInv, MaskInv, NEW handler \in Frames, NEW woken \in Frames,
         Len(stack') = Len(stack) + 1, stack'[Len(stack) + 1] = handler,
         stack'[Len(stack)] = woken, \A i \in 1 .. Len(stack) - 1 : stack'[i] = stack[i],
         woken.event = Top.event, woken.direct = Top.direct, woken.saved = Top.saved,
         woken.at # "suspended", woken.at = "entry" => Top.at = "entry",
         handler.direct => woken.at = "call",
         ~DrainWindow => woken.at \notin {"store", "mask"} /\ (woken.at = "call" => handler.direct),
         Len(stack) = 1 =>
           /\ woken.at = "call" => woken.oset = {}
           /\ ~handler.direct /\ woken.at # "call" =>
                handler.saved = IF woken.at = "loop" THEN {SIGCHLD} ELSE {}
  PROVE  CallInv' /\ MaskInv'
<1> DEFINE n == Len(stack)
<1>1. n \in Nat \ {0} /\ Top = stack[n]
  BY TopFrame DEF LooseTypes
<1>2. /\ Len(stack') = n + 1 /\ stack'[n + 1] = handler /\ stack'[n] = woken
      /\ \A i \in 1 .. n - 1 : stack'[i] = stack[i]
  OBVIOUS
<1> HIDE DEF n
<1>3. \A i \in 1 .. n : /\ stack'[i].event = stack[i].event
                        /\ stack'[i].direct = stack[i].direct
                        /\ stack'[i].saved = stack[i].saved
  BY <1>1, <1>2
<1>4. CallInv'
  <2>1. stack'[1].event = Main /\ stack'[1].at # "entry" /\ ~stack'[1].direct
    BY <1>1, <1>2, <1>3 DEF CallInv, n
  <2>2. ASSUME NEW i \in 2 .. n + 1, stack'[i].direct PROVE stack'[i - 1].at = "call"
    <3>1. CASE i = n + 1
      BY <1>1, <1>2, <2>2, <3>1
    <3>2. CASE i \in 2 .. n
      BY <1>1, <1>2, <1>3, <2>2, <3>2 DEF CallInv, n
    <3>3. QED
      BY <1>1, <3>1, <3>2
  <2>3. \A i \in 1 .. n : stack'[i].at # "suspended"
    BY <1>1, <1>2 DEF CallInv, n
  <2>4. ASSUME ~DrainWindow, NEW i \in 1 .. n
        PROVE  stack'[i].at \notin {"store", "mask"} /\ (stack'[i].at = "call" => stack'[i + 1].direct)
    <3>1. CASE i = n
      BY <1>1, <1>2, <2>4, <3>1
    <3>2. CASE i \in 1 .. n - 1
      BY <1>1, <1>2, <1>3, <2>4, <3>2 DEF CallInv, n
    <3>3. QED
      BY <1>1, <3>1, <3>2
  <2>5. Len(stack') - 1 = n
    BY <1>1, <1>2
  <2>6. QED
    BY <1>2, <2>1, <2>2, <2>3, <2>4, <2>5 DEF CallInv
<1>5. MaskInv'
  <2>1. CASE n = 1
    BY <1>2, <2>1 DEF MaskInv, MainMask, n
  <2>2. CASE n > 1
    <3>1. stack'[1] = stack[1] /\ stack'[2].saved = stack[2].saved
          /\ stack'[2].direct = stack[2].direct /\ Len(stack') > 1
      BY <1>1, <1>2, <1>3, <2>2
    <3>2. QED
      BY <2>2, <3>1 DEF MaskInv, MainMask, n
  <2>3. QED
    BY <1>1, <2>1, <2>2
<1>6. QED
  BY <1>4, <1>5

\* Every step keeps the order of calls, and the masks to be put back.
LEMMA CallsStep == LooseTypes /\ NestInv /\ CallInv /\ MaskInv /\ [Next]_vars
  => CallInv' /\ MaskInv'
<1> SUFFICES ASSUME LooseTypes, NestInv, CallInv, MaskInv, [Next]_vars PROVE CallInv' /\ MaskInv'
  OBVIOUS
<1>1. /\ Top \in Frames /\ FrameInv(Top) /\ stack \in Seq(Frames) /\ stack # <<>>
      /\ Len(stack) \in Nat \ {0} /\ Top = stack[Len(stack)]
  BY TopFrame DEF LooseTypes, NestInv
<1>2. Len(stack) = 1 =>
        /\ Top.at = "call" => Top.oset = {}
        /\ Top.at = "suspended" => Top.oset = {SIGCHLD}
        /\ Top.at \notin {"call", "suspended"} =>
             mask = IF Top.at = "loop" THEN {SIGCHLD} ELSE {}
  BY <1>1 DEF MaskInv, MainMask
<1>3. ASSUME NEW s \in Signals, Catch(s) PROVE CallInv' /\ MaskInv'
  <2> DEFINE h == Handler(Len(caught) + 1, FALSE, Caller)
  <2>1. Len(caught) + 1 \in Events /\ Caller \in SUBSET Signals
    BY <1>3, CatchShape
  <2>2. h \in Frames /\ ~h.direct /\ h.saved = Caller
    <3>1. h \in Frames
      BY <2>1, HandlerFrame
    <3>2. QED
      BY <3>1 DEF Handler, NewFrame
  <2>3. /\ Len(stack') = Len(stack) + 1 /\ stack'[Len(stack) + 1] = h
        /\ stack'[Len(stack)] = Woken /\ Woken \in Frames
        /\ \A i \in 1 .. Len(stack) - 1 : stack'[i] = stack[i]
    BY <1>3, CatchShape
  <2>4. /\ Woken.event = Top.event /\ Woken.direct = Top.direct /\ Woken.saved = Top.saved
        /\ Woken.at = (IF Top.at = "suspended" THEN "loop" ELSE Top.at)
        /\ Top.at # "suspended" => Woken.oset = Top.oset
    BY <1>1 DEF Woken, At, Frames
  <2>5. ~DrainWindow => Top.at \notin {"store", "mask", "call"}
    BY <1>3 DEF Catch, InWindow
  <2>6. Caller = IF Top.at = "suspended" THEN Top.oset ELSE mask
    BY DEF Caller, At
  <2> HIDE DEF h
  <2>7. /\ Woken.at # "suspended" /\ (Woken.at = "entry" => Top.at = "entry")
        /\ h.direct => Woken.at = "call"
        /\ ~DrainWindow => Woken.at \notin {"store", "mask"} /\ (Woken.at = "call" => h.direct)
    BY <2>2, <2>4, <2>5
  <2>8. Len(stack) = 1 =>
          /\ Woken.at = "call" => Woken.oset = {}
          /\ Woken.at # "call" => h.saved = IF Woken.at = "loop" THEN {SIGCHLD} ELSE {}
    BY <1>2, <2>2, <2>4, <2>6
  <2>9. QED
    BY <2>2, <2>3, <2>4, <2>7, <2>8, CallsPush
<1>4. CASE Queue
  BY <1>1, <1>4, HandlerOnTop, CallsReturn DEF Queue
<1>5. CASE Return
  BY <1>1, <1>5, HandlerOnTop, CallsReturn DEF Return
<1>6. CASE Dispatch
  <2> DEFINE frame == [Top EXCEPT !.at = "run"]
  <2>1. Run(frame) /\ Len(stack) # 1
    BY <1>1, <1>6, HandlerOnTop DEF Dispatch
  <2>2. /\ frame \in Frames /\ frame.event = Top.event /\ frame.direct = Top.direct
        /\ frame.saved = Top.saved /\ frame.at = "run"
    BY <1>1 DEF Frames
  <2> HIDE DEF frame
  <2>3. QED
    BY <2>1, <2>2, CallsRun
<1>7. CASE queue_signals
  <2> DEFINE frame == [Top EXCEPT !.depth = @ + 1]
  <2>1. Run(frame) /\ Top.at = "run" /\ UNCHANGED mask
    BY <1>7 DEF queue_signals, RunsShellCode, At
  <2>2. Top.depth + 1 \in Nat
    BY <1>1 DEF Frames
  <2>3. /\ frame \in Frames /\ frame.event = Top.event /\ frame.direct = Top.direct
        /\ frame.saved = Top.saved /\ frame.at = "run"
    BY <1>1, <2>1, <2>2 DEF Frames
  <2> HIDE DEF frame
  <2>4. QED
    BY <1>2, <2>1, <2>3, CallsRun
<1>8. CASE unqueue_signals
  <2> DEFINE frame == [Top EXCEPT !.depth = @ - 1,
                                  !.at = IF queueing_enabled = 1 THEN "drain" ELSE "run"]
  <2>1. Run(frame) /\ Top.at = "run" /\ UNCHANGED mask /\ Top.depth > 0
    BY <1>8 DEF unqueue_signals, RunsShellCode, At
  <2>2. Top.depth - 1 \in Nat
    BY <1>1, <2>1 DEF Frames
  <2>3. /\ frame \in Frames /\ frame.event = Top.event /\ frame.direct = Top.direct
        /\ frame.saved = Top.saved /\ frame.at \in {"drain", "run"}
    BY <1>1, <2>1, <2>2 DEF Frames
  <2> HIDE DEF frame
  <2>4. QED
    BY <1>2, <2>1, <2>3, CallsRun
<1>9. CASE dont_queue_signals
  <2> DEFINE frame == [Top EXCEPT !.waiting = TRUE, !.q = queueing_enabled, !.at = "drain"]
  <2>1. Run(frame) /\ Top.at = "run" /\ UNCHANGED mask
    BY <1>9 DEF dont_queue_signals, RunsShellCode, At
  <2>2. /\ frame \in Frames /\ frame.event = Top.event /\ frame.direct = Top.direct
        /\ frame.saved = Top.saved /\ frame.at = "drain"
    BY <1>1 DEF Frames, LooseTypes
  <2> HIDE DEF frame
  <2>3. QED
    BY <1>2, <2>1, <2>2, CallsRun
<1>10. CASE child_suspend
  <2> DEFINE frame == [Top EXCEPT !.at = "suspended", !.oset = mask]
  <2>1. Run(frame) /\ Top.at = "loop"
    BY <1>10 DEF child_suspend, At
  <2>2. /\ frame \in Frames /\ frame.event = Top.event /\ frame.direct = Top.direct
        /\ frame.saved = Top.saved /\ frame.at = "suspended" /\ frame.oset = mask
    BY <1>1 DEF Frames, LooseTypes
  <2> HIDE DEF frame
  <2>3. QED
    BY <1>2, <2>1, <2>2, CallsRun
<1>11. CASE restore_queue_signals
  <2> DEFINE frame == [Top EXCEPT !.waiting = FALSE, !.q = 0, !.at = "run"]
  <2>1. Run(frame) /\ Top.at = "loop" /\ mask' = mask \ {SIGCHLD}
    BY <1>11 DEF restore_queue_signals, At
  <2>2. /\ frame \in Frames /\ frame.event = Top.event /\ frame.direct = Top.direct
        /\ frame.saved = Top.saved /\ frame.at = "run"
    BY <1>1 DEF Frames
  <2>3. Len(stack) = 1 => mask' = {}
    BY <1>2, <2>1
  <2> HIDE DEF frame
  <2>4. QED
    BY <2>1, <2>2, <2>3, CallsRun
<1>12. CASE DrainIsOver
  <2> DEFINE frame == [Top EXCEPT !.at = IF Top.waiting THEN "loop" ELSE "run"]
  <2>1. /\ Run(frame) /\ Top.at = "drain"
        /\ mask' = IF Top.waiting THEN mask \cup {SIGCHLD} ELSE mask
    BY <1>12 DEF DrainIsOver, At
  <2>2. /\ frame \in Frames /\ frame.event = Top.event /\ frame.direct = Top.direct
        /\ frame.saved = Top.saved /\ frame.at = IF Top.waiting THEN "loop" ELSE "run"
    BY <1>1 DEF Frames
  <2>3. Len(stack) = 1 => mask' = IF Top.waiting THEN {SIGCHLD} ELSE {}
    BY <1>2, <2>1
  <2> HIDE DEF frame
  <2>4. QED
    BY <2>1, <2>2, <2>3, CallsRun
<1>13. CASE LoadFront
  <2> DEFINE frame == [Top EXCEPT !.at = "store", !.next = (queue_front + 1) % MAX_QUEUE_SIZE]
  <2>1. Run(frame) /\ Top.at = "drain" /\ UNCHANGED mask
    BY <1>13 DEF LoadFront, At
  <2>2. (queue_front + 1) % MAX_QUEUE_SIZE \in Slots
    BY InSlots DEF LooseTypes, Slots
  <2>3. /\ frame \in Frames /\ frame.event = Top.event /\ frame.direct = Top.direct
        /\ frame.saved = Top.saved /\ frame.at = "store"
    BY <1>1, <2>2 DEF Frames
  <2> HIDE DEF frame
  <2>4. QED
    BY <1>2, <2>1, <2>3, CallsRun
<1>14. CASE StoreFront
  <2> DEFINE frame == [Top EXCEPT !.at = "mask", !.next = 0]
  <2>1. Run(frame) /\ Top.at = "store" /\ UNCHANGED mask
    BY <1>14 DEF StoreFront, At
  <2>2. /\ frame \in Frames /\ frame.event = Top.event /\ frame.direct = Top.direct
        /\ frame.saved = Top.saved /\ frame.at = "mask"
    BY <1>1, InSlots DEF Frames
  <2> HIDE DEF frame
  <2>3. QED
    BY <1>2, <2>1, <2>2, CallsRun
<1>15. CASE SetStoredMask
  <2> DEFINE frame == [Top EXCEPT !.at = "call", !.oset = mask]
  <2>1. Run(frame) /\ Top.at = "mask"
    BY <1>15 DEF SetStoredMask, At
  <2>2. /\ frame \in Frames /\ frame.event = Top.event /\ frame.direct = Top.direct
        /\ frame.saved = Top.saved /\ frame.at = "call" /\ frame.oset = mask
    BY <1>1 DEF Frames, LooseTypes
  <2> HIDE DEF frame
  <2>3. QED
    BY <1>2, <2>1, <2>2, CallsRun
<1>16. CASE CallHandler
  <2> DEFINE h == Handler(signal_queue[queue_front], TRUE, {})
  <2>1. h \in Frames /\ h.direct
    <3>1. h \in Frames
      BY HandlerFrame DEF LooseTypes
    <3>2. QED
      BY <3>1 DEF Handler, NewFrame
  <2>2. stack' = Append(stack, h) /\ Top.at = "call"
    BY <1>16 DEF CallHandler, At
  <2> HIDE DEF h
  <2>3. /\ Len(stack') = Len(stack) + 1 /\ stack'[Len(stack) + 1] = h
        /\ \A i \in 1 .. Len(stack) : stack'[i] = stack[i]
    BY <1>1, <2>1, <2>2, PushShape
  <2>4. stack'[Len(stack)] = Top /\ \A i \in 1 .. Len(stack) - 1 : stack'[i] = stack[i]
    BY <1>1, <2>3
  <2>5. QED
    BY <1>1, <1>2, <2>1, <2>2, <2>3, <2>4, CallsPush
<1>17. CASE UNCHANGED vars
  BY <1>17 DEF vars, CallInv, MaskInv, MainMask
<1>18. QED
  BY <1>3, <1>4, <1>5, <1>6, <1>7, <1>8, <1>9, <1>10, <1>11, <1>12, <1>13, <1>14, <1>15, <1>16,
     <1>17 DEF Next, Handling, Draining, Waiting, Enter

-----------------------------------------------------------------------------
(* There is room in the ring.                                              *)

\* While one place is free beside the one that stays empty, a signal can be queued.
LEMMA NotFull ==
  ASSUME NEW f \in Slots, NEW r \in Slots, ((r - f) % MAX_QUEUE_SIZE) + 1 < MAX_QUEUE_SIZE
  PROVE  /\ (r + 1) % MAX_QUEUE_SIZE \in Slots /\ (r + 1) % MAX_QUEUE_SIZE # f
         /\ (((r + 1) % MAX_QUEUE_SIZE) - f) % MAX_QUEUE_SIZE = ((r - f) % MAX_QUEUE_SIZE) + 1
<1> DEFINE next == (r + 1) % MAX_QUEUE_SIZE
<1>1. next \in Slots /\ next = IF r + 1 = MAX_QUEUE_SIZE THEN 0 ELSE r + 1
  BY NextSlot, InSlots DEF Slots
<1>2. (r - f) % MAX_QUEUE_SIZE = IF r >= f THEN r - f ELSE r - f + MAX_QUEUE_SIZE
  BY Distance
<1>3. (next - f) % MAX_QUEUE_SIZE = IF next >= f THEN next - f ELSE next - f + MAX_QUEUE_SIZE
  BY <1>1, Distance
<1> HIDE DEF next
<1>4. /\ next # f
      /\ (next - f) % MAX_QUEUE_SIZE = ((r - f) % MAX_QUEUE_SIZE) + 1
  BY <1>1, <1>2, <1>3, SizesAssumption DEF Slots
<1>5. QED
  BY <1>1, <1>4 DEF next

\* There are less places between two places than in the ring.
LEMMA DistanceRange == \A r, f \in Slots : (r - f) % MAX_QUEUE_SIZE \in 0 .. MAX_QUEUE_SIZE - 1
<1> SUFFICES ASSUME NEW r \in Slots, NEW f \in Slots
             PROVE  (r - f) % MAX_QUEUE_SIZE \in 0 .. MAX_QUEUE_SIZE - 1
  OBVIOUS
<1>1. CASE r >= f
  BY <1>1, SizesAssumption, Distance DEF Slots
<1>2. CASE r < f
  BY <1>2, SizesAssumption, Distance DEF Slots
<1>3. QED
  BY <1>1, <1>2 DEF Slots

\* Outside of all critical sections there is nothing to make room for.
LEMMA RoomOutside ==
  ASSUME NestInv', queueing_enabled' = 0, queue_rear' = queue_rear, RoomInv
  PROVE  RoomInv'
BY DEF RoomInv, NestInv, Open

\* One that has just entered or left a critical section has the whole ring.
LEMMA RoomOnTop ==
  ASSUME LooseTypes', NestInv', UNCHANGED queue_rear, Top'.at \in {"run", "drain"}, RoomInv
  PROVE  RoomInv'
<1> SUFFICES ASSUME ~Overflow, NEW k \in 1 .. Len(stack'), ~Open(stack'[k]), queue_rear \in Slots
             PROVE  ((queue_rear' - queue_front') % MAX_QUEUE_SIZE) + (Len(stack') - k) < MAX_QUEUE_SIZE
  BY DEF RoomInv
<1>1. Len(stack') \in Nat \ {0} /\ stack'[Len(stack')].at # "entry"
  BY EmptySeq DEF LooseTypes, Top
<1>2. k = Len(stack')
  BY <1>1 DEF NestInv
<1>3. (queue_rear' - queue_front') % MAX_QUEUE_SIZE \in 0 .. MAX_QUEUE_SIZE - 1
  BY DistanceRange DEF LooseTypes
<1>4. QED
  BY <1>1, <1>2, <1>3, SizesAssumption

\* A signal to be queued finds a place.
LEMMA QueueFits ==
  ASSUME LooseTypes, NestInv, CallInv, RoomInv, ~Overflow, Queue
  PROVE  /\ queue_rear' = (queue_rear + 1) % MAX_QUEUE_SIZE /\ queue_front' = queue_front
         /\ queue_rear' # queue_front /\ queue_rear' \in Slots
         /\ (queue_rear' - queue_front') % MAX_QUEUE_SIZE =
              ((queue_rear - queue_front) % MAX_QUEUE_SIZE) + 1
         /\ signal_queue' = [signal_queue EXCEPT ![queue_rear'] = Top.event]
         /\ queued' = Append(queued, Top.event)
<1> DEFINE d == (queue_rear - queue_front) % MAX_QUEUE_SIZE
<1>0. At("entry") /\ queueing_enabled > 0
  BY DEF Queue
<1>1. /\ Len(stack) > 1 /\ Top \in Frames /\ FrameInv(Top) /\ Top.at = "entry"
      /\ Len(stack) \in Nat \ {0} /\ Top = stack[Len(stack)] /\ queueing_enabled > 0
      /\ queue_front \in Slots /\ queue_rear \in Slots
  <2>1. stack \in Seq(Frames) /\ stack # <<>> /\ queue_front \in Slots
    BY DEF LooseTypes
  <2>2. Len(stack) \in Nat \ {0} /\ Top \in Frames /\ Top = stack[Len(stack)]
    BY <2>1, TopFrame
  <2>3. Len(stack) > 1
    BY <1>0, <2>1, HandlerOnTop
  <2>4. FrameInv(Top)
    BY <2>2 DEF NestInv
  <2>5. queue_rear \in Slots
    BY DEF RoomInv
  <2>6. QED
    BY <1>0, <2>1, <2>2, <2>3, <2>4, <2>5 DEF At
<1>2. d \in Nat
  BY <1>1, DistanceRange, SizesAssumption
<1>3. \E k \in 1 .. Len(stack) - 1 : ~Open(stack[k])
  <2>1. Open(Top)
    BY <1>1 DEF FrameInv, Open
  <2>2. QED
    BY <1>1, <2>1 DEF NestInv
<1>4. \A k \in 1 .. Len(stack) - 1 : ~Open(stack[k]) => d + (Len(stack) - k) < MAX_QUEUE_SIZE
  BY <1>1 DEF RoomInv
<1>5. d + 1 < MAX_QUEUE_SIZE
  BY <1>1, <1>2, <1>3, <1>4, SizesAssumption
<1>6. /\ (queue_rear + 1) % MAX_QUEUE_SIZE \in Slots
      /\ (queue_rear + 1) % MAX_QUEUE_SIZE # queue_front
      /\ (((queue_rear + 1) % MAX_QUEUE_SIZE) - queue_front) % MAX_QUEUE_SIZE = d + 1
  BY <1>1, <1>5, NotFull
<1>7. QED
  BY <1>6 DEF Queue

\* Every step keeps the room, unless signals are caught although the ring is full.
LEMMA RoomStep ==
  LooseTypes /\ NestInv /\ CallInv /\ RoomInv /\ [Next]_vars => RoomInv'
<1> SUFFICES ASSUME LooseTypes, NestInv, CallInv, RoomInv, [Next]_vars PROVE RoomInv'
  OBVIOUS
<1>1. LooseTypes' /\ NestInv'
  BY TypesStep, NestStep
<1>2. /\ Top \in Frames /\ FrameInv(Top) /\ stack \in Seq(Frames) /\ stack # <<>>
      /\ Len(stack) \in Nat \ {0} /\ Top = stack[Len(stack)] /\ queueing_enabled \in Nat
      /\ queue_front \in Slots
  BY TopFrame DEF LooseTypes, NestInv
<1>3. ASSUME NEW s \in Signals, Catch(s) PROVE RoomInv'
  <2> SUFFICES ASSUME ~Overflow, NEW k \in 1 .. Len(stack'), ~Open(stack'[k])
               PROVE  ((queue_rear - queue_front) % MAX_QUEUE_SIZE) + (Len(stack') - k) < MAX_QUEUE_SIZE
    BY <1>3 DEF RoomInv, Catch, ring
  <2>1. /\ Len(stack') = Len(stack) + 1 /\ stack'[Len(stack)] = Woken
        /\ stack'[Len(stack) + 1] = Handler(Len(caught) + 1, FALSE, Caller)
        /\ \A i \in 1 .. Len(stack) - 1 : stack'[i] = stack[i]
    BY <1>3, CatchShape
  <2>2. k \in 1 .. Len(stack) /\ ~Open(stack[k])
    <3>1. Open(stack'[Len(stack) + 1])
      BY <2>1 DEF Handler, NewFrame, Open
    <3>2. Open(Top) => Open(Woken)
      BY <1>2 DEF Woken, Open, Frames
    <3>3. k # Len(stack) + 1 /\ k \in 1 .. Len(stack)
      <4>1. k # Len(stack) + 1
        BY <3>1
      <4>2. k \in 1 .. Len(stack) + 1
        BY <2>1
      <4>3. QED
        BY <1>2, <4>1, <4>2
    <3>4. CASE k = Len(stack)
      BY <1>2, <2>1, <3>2, <3>3, <3>4
    <3>5. CASE k # Len(stack)
      BY <1>2, <2>1, <3>3, <3>5
    <3>6. QED
      BY <3>3, <3>4, <3>5
  <2>3. queueing_enabled > 0 /\ \A j \in k + 1 .. Len(stack) : stack[j].at = "entry"
    <3>1. stack[k].depth \in Nat /\ stack[k].depth # 0
      BY <1>2, <2>2, TopFrame DEF Open, Frames
    <3>2. QED
      BY <1>2, <2>2, <3>1 DEF NestInv
  <2> DEFINE E == {i \in DOMAIN stack : stack[i].at = "entry"}
             d == (queue_rear - queue_front) % MAX_QUEUE_SIZE
  <2>4. d + Cardinality(E) < MAX_QUEUE_SIZE - 1
    BY <1>3, <2>3 DEF Catch, Room
  <2>5. d \in Nat
    BY <1>2, Distance, SizesAssumption DEF RoomInv, Slots
  <2>6. Len(stack) - k <= Cardinality(E) /\ Cardinality(E) \in Nat
    <3>1. IsFiniteSet(E)
      <4>1. E \subseteq 1 .. Len(stack)
        BY <1>2
      <4>2. IsFiniteSet(1 .. Len(stack))
        BY <1>2, FS_Interval
      <4>3. QED
        BY <4>1, <4>2, FS_Subset
    <3>2. k + 1 .. Len(stack) \subseteq E
      BY <1>2, <2>2, <2>3
    <3>3. Cardinality(k + 1 .. Len(stack)) = Len(stack) - k
      <4>1. /\ k + 1 \in Int /\ Len(stack) \in Int
            /\ Len(stack) - (k + 1) + 1 = Len(stack) - k
            /\ k + 1 > Len(stack) => Len(stack) - k = 0
        BY <1>2, <2>2
      <4>2. QED
        BY <4>1, FS_Interval
    <3>4. QED
      BY <3>1, <3>2, <3>3, FS_Subset, FS_CardinalityType
  <2> HIDE DEF E, d
  <2>7. d + (Len(stack) + 1 - k) < MAX_QUEUE_SIZE
    BY <1>2, <2>2, <2>4, <2>5, <2>6, SizesAssumption
  <2>8. QED
    BY <2>1, <2>7 DEF d
<1>4. CASE Queue
  <2> SUFFICES ASSUME ~Overflow PROVE RoomInv'
    BY DEF RoomInv
  <2>1. Len(stack) > 1 /\ ReturnFrom(Top)
    BY <1>2, <1>4, HandlerOnTop DEF Queue
  <2>2. /\ Len(stack') = Len(stack) - 1 /\ stack'[Len(stack) - 1] = Resumed(stack[Len(stack) - 1])
        /\ \A i \in 1 .. Len(stack) - 2 : stack'[i] = stack[i]
    BY <1>2, <2>1, ReturnShape
  <2>3. \A i \in 1 .. Len(stack) - 1 : Open(stack[i]) => Open(stack'[i])
    <3>1. stack[Len(stack) - 1] \in Frames
      BY <1>2, <2>1
    <3>2. Open(stack[Len(stack) - 1]) => Open(stack'[Len(stack) - 1])
      BY <2>2, <3>1 DEF Resumed, Open, Frames
    <3>3. QED
      BY <1>2, <2>1, <2>2, <3>2
  <2> DEFINE d == (queue_rear - queue_front) % MAX_QUEUE_SIZE
  <2>4. queue_rear \in Slots /\ d \in Nat
    <3>1. queue_rear \in Slots
      BY DEF RoomInv
    <3>2. QED
      BY <1>2, <3>1, DistanceRange, SizesAssumption
  <2>5. /\ queue_rear' \in Slots /\ queue_front' = queue_front
        /\ (queue_rear' - queue_front') % MAX_QUEUE_SIZE = d + 1
    BY <1>4, QueueFits
  <2>6. \A k \in 1 .. Len(stack) - 1 : ~Open(stack[k]) => d + (Len(stack) - k) < MAX_QUEUE_SIZE
    BY <1>2 DEF RoomInv
  <2> HIDE DEF d
  <2>7. ASSUME NEW k \in 1 .. Len(stack'), ~Open(stack'[k])
        PROVE  ((queue_rear' - queue_front') % MAX_QUEUE_SIZE) + (Len(stack') - k) < MAX_QUEUE_SIZE
    <3>1. k \in 1 .. Len(stack) - 1 /\ ~Open(stack[k])
      BY <2>2, <2>3, <2>7
    <3>2. d + (Len(stack) - k) < MAX_QUEUE_SIZE
      BY <2>6, <3>1
    <3>3. QED
      BY <1>2, <2>2, <2>4, <2>5, <3>1, <3>2, SizesAssumption
  <2>8. QED
    BY <2>5, <2>7 DEF RoomInv
<1>5. CASE Return
  <2>1. queueing_enabled = 0
    <3>1. Open(Top) /\ Top.at # "entry"
      BY <1>5 DEF Return, Open, At
    <3>2. QED
      BY <3>1, LowerOpen
  <2>2. QED
    BY <1>1, <1>5, <2>1, RoomOutside DEF Return, ring
<1>6. CASE queue_signals
  <2>1. Top.depth + 1 \in Nat
    BY <1>2 DEF Frames
  <2>2. [Top EXCEPT !.depth = @ + 1] \in Frames /\ [Top EXCEPT !.depth = @ + 1].at = Top.at
    BY <1>2, <2>1 DEF Frames
  <2>3. Top'.at = "run"
    BY <1>2, <1>6, <2>2, RunShape DEF queue_signals, RunsShellCode, At
  <2>4. QED
    BY <1>1, <1>6, <2>3, RoomOnTop DEF queue_signals, ring
<1>7. CASE unqueue_signals
  <2> DEFINE frame == [Top EXCEPT !.depth = @ - 1,
                                  !.at = IF queueing_enabled = 1 THEN "drain" ELSE "run"]
  <2>1. Top.depth - 1 \in Nat /\ Run(frame)
    BY <1>2, <1>7 DEF Frames, unqueue_signals
  <2>2. frame \in Frames /\ frame.at \in {"drain", "run"}
    BY <1>2, <2>1 DEF Frames
  <2> HIDE DEF frame
  <2>3. Top'.at \in {"drain", "run"}
    BY <1>2, <2>1, <2>2, RunShape
  <2>4. QED
    BY <1>1, <1>7, <2>3, RoomOnTop DEF unqueue_signals, ring
<1>8. CASE restore_queue_signals
  <2>1. [Top EXCEPT !.waiting = FALSE, !.q = 0, !.at = "run"] \in Frames
    BY <1>2 DEF Frames
  <2>2. Top'.at = "run"
    BY <1>2, <1>8, <2>1, RunShape DEF restore_queue_signals, Frames
  <2>3. QED
    BY <1>1, <1>8, <2>2, RoomOnTop DEF restore_queue_signals, ring
<1>9. CASE Dispatch \/ dont_queue_signals
  BY <1>1, <1>9, RoomOutside DEF Dispatch, dont_queue_signals, ring
<1>10. CASE child_suspend \/ Draining
  <2>1. queueing_enabled = 0
    <3>1. Top.at \in {"loop", "drain", "store", "mask", "call"}
      BY <1>10 DEF child_suspend, Draining, DrainIsOver, LoadFront, StoreFront, SetStoredMask,
                   CallHandler, At
    <3>2. Open(Top) /\ Top.at # "entry"
      BY <1>2, <3>1 DEF FrameInv, Open
    <3>3. QED
      BY <3>2, LowerOpen
  <2>2. UNCHANGED <<queueing_enabled, queue_rear>>
    BY <1>10 DEF child_suspend, Draining, DrainIsOver, LoadFront, StoreFront, SetStoredMask,
                 CallHandler, ring
  <2>3. QED
    BY <1>1, <2>1, <2>2, RoomOutside
<1>11. CASE UNCHANGED vars
  BY <1>11 DEF vars, ring, RoomInv
<1>12. QED
  BY <1>3, <1>4, <1>5, <1>6, <1>7, <1>8, <1>9, <1>10, <1>11 DEF Next, Handling, Waiting, Enter

-----------------------------------------------------------------------------
(* Every signal is in one place.                                           *)

\* What a sequence holds once an element has been appended.
LEMMA AppendEvents ==
  ASSUME NEW S, NEW seq \in Seq(S), NEW e \in S
  PROVE  /\ EventsOf(Append(seq, e)) = EventsOf(seq) \cup {e}
         /\ (\A i, j \in DOMAIN seq : seq[i] = seq[j] => i = j) /\ e \notin EventsOf(seq) =>
              \A i, j \in DOMAIN Append(seq, e) : Append(seq, e)[i] = Append(seq, e)[j] => i = j
<1> DEFINE new == Append(seq, e)
<1>1. /\ Len(seq) \in Nat /\ DOMAIN seq = 1 .. Len(seq) /\ DOMAIN new = 1 .. Len(seq) + 1
      /\ \A i \in 1 .. Len(seq) : new[i] = seq[i]
      /\ new[Len(seq) + 1] = e
  BY AppendProperties
<1> HIDE DEF new
<1>2. \A i \in DOMAIN new : i \in DOMAIN seq \/ i = Len(seq) + 1
  BY <1>1
<1>3. EventsOf(new) = EventsOf(seq) \cup {e}
  <2>1. ASSUME NEW x \in EventsOf(new) PROVE x \in EventsOf(seq) \cup {e}
    BY <1>1, <1>2 DEF EventsOf
  <2>2. ASSUME NEW x \in EventsOf(seq) PROVE x \in EventsOf(new)
    <3>1. PICK i \in 1 .. Len(seq) : x = seq[i]
      BY <1>1 DEF EventsOf
    <3>2. i \in DOMAIN new /\ new[i] = x
      BY <1>1, <3>1
    <3>3. QED
      BY <3>2 DEF EventsOf
  <2>3. e \in EventsOf(new)
    <3>1. Len(seq) + 1 \in DOMAIN new
      BY <1>1
    <3>2. QED
      BY <1>1, <3>1 DEF EventsOf
  <2>4. QED
    BY <2>1, <2>2, <2>3
<1>4. ASSUME \A i, j \in DOMAIN seq : seq[i] = seq[j] => i = j, e \notin EventsOf(seq),
             NEW i \in DOMAIN new, NEW j \in DOMAIN new, new[i] = new[j]
      PROVE  i = j
  <2>1. \A k \in 1 .. Len(seq) : new[k] # e
    BY <1>1, <1>4 DEF EventsOf
  <2>2. CASE i \in DOMAIN seq /\ j \in DOMAIN seq
    BY <1>1, <1>4, <2>2
  <2>3. CASE i \notin DOMAIN seq \/ j \notin DOMAIN seq
    BY <1>1, <1>2, <1>4, <2>1, <2>3
  <2>4. QED
    BY <2>2, <2>3
<1>5. QED
  BY <1>3, <1>4 DEF new

\* A place put behind the rear comes into the ring, and none else.
LEMMA PutInRing ==
  ASSUME queue_front \in Slots, queue_rear \in Slots,
         queue_rear' = (queue_rear + 1) % MAX_QUEUE_SIZE,
         queue_rear' # queue_front, queue_front' = queue_front
  PROVE  \A i \in Slots : /\ InRing(i)' <=> InRing(i) \/ i = queue_rear'
                          /\ i = queue_rear' => ~InRing(i)
<1>1. queue_rear' = IF queue_rear + 1 = MAX_QUEUE_SIZE THEN 0 ELSE queue_rear + 1
  BY NextSlot
<1> SUFFICES ASSUME NEW i \in Slots
             PROVE  /\ InRing(i)' <=> InRing(i) \/ i = queue_rear'
                    /\ i = queue_rear' => ~InRing(i)
  OBVIOUS
<1>2. CASE queue_rear + 1 = MAX_QUEUE_SIZE
  BY <1>1, <1>2, SizesAssumption DEF InRing, Slots
<1>3. CASE queue_rear + 1 # MAX_QUEUE_SIZE
  BY <1>1, <1>3, SizesAssumption DEF InRing, Slots
<1>4. QED
  BY <1>2, <1>3

\* The place after the front leaves the ring, and none else.
LEMMA TakeFromRing ==
  ASSUME queue_front \in Slots, queue_rear \in Slots, queue_front # queue_rear,
         queue_front' = (queue_front + 1) % MAX_QUEUE_SIZE, queue_rear' = queue_rear
  PROVE  \A i \in Slots : InRing(i) <=> InRing(i)' \/ i = queue_front'
<1>1. queue_front' = IF queue_front + 1 = MAX_QUEUE_SIZE THEN 0 ELSE queue_front + 1
  BY NextSlot
<1> SUFFICES ASSUME NEW i \in Slots PROVE InRing(i) <=> InRing(i)' \/ i = queue_front'
  OBVIOUS
<1>2. CASE queue_front + 1 = MAX_QUEUE_SIZE
  BY <1>1, <1>2, SizesAssumption DEF InRing, Slots
<1>3. CASE queue_front + 1 # MAX_QUEUE_SIZE
  BY <1>1, <1>3, SizesAssumption DEF InRing, Slots
<1>4. QED
  BY <1>2, <1>3

\* The front is not in the ring.
LEMMA FrontIsOut ==
  ASSUME queue_front \in Slots, queue_rear \in Slots
  PROVE  ~InRing(queue_front)
BY SizesAssumption DEF InRing, Slots

\* A step that moves no signal.
LEMMA NothingMoves ==
  ASSUME OnePlaceInv, ~Overflow, ~DrainWindow,
         UNCHANGED <<signal_queue, caught, queued, handled>>,
         LiveSlots' = LiveSlots, Entering' = Entering,
         \A i \in Entering : stack'[i].event = stack[i].event,
         At("store")' => queue_front' # queue_rear' /\ Top'.next = (queue_front' + 1) % MAX_QUEUE_SIZE
  PROVE  OnePlaceInv'
BY DEF OnePlaceInv, HandledOnce, EventsOf

\* The running frame goes on without having been, or being, in the handler's first lines.
LEMMA RunsOn ==
  ASSUME LooseTypes, NEW frame \in Frames, Run(frame), Top.at # "entry", frame.at # "entry"
  PROVE  /\ Entering' = Entering
         /\ \A i \in Entering : stack'[i].event = stack[i].event
<1>1. Len(stack) \in Nat \ {0} /\ Top = stack[Len(stack)]
  BY TopFrame DEF LooseTypes
<1>2. /\ Len(stack') = Len(stack) /\ stack'[Len(stack)] = frame
      /\ \A i \in 1 .. Len(stack) - 1 : stack'[i] = stack[i]
  BY RunShape DEF LooseTypes
<1>3. ASSUME NEW i \in 1 .. Len(stack)
      PROVE  /\ stack'[i].at = "entry" <=> stack[i].at = "entry"
             /\ stack[i].at = "entry" => stack'[i].event = stack[i].event
  <2>1. CASE i = Len(stack)
    BY <1>1, <1>2, <2>1
  <2>2. CASE i # Len(stack)
    BY <1>1, <1>2, <2>2
  <2>3. QED
    BY <2>1, <2>2
<1>4. QED
  BY <1>2, <1>3 DEF Entering

\* A handler leaves: the signals about to be queued are those of the others, and the one
\* below is not between two statements of run_queued_signals.
LEMMA Leaves ==
  ASSUME LooseTypes, NestInv, CallInv, ~DrainWindow, Len(stack) > 1, ReturnFrom(Top)
  PROVE  /\ Entering' = Entering \ {Len(stack)}
         /\ \A i \in Entering' : stack'[i].event = stack[i].event
         /\ Top'.at \notin {"store", "mask", "call"}
<1> DEFINE n == Len(stack)
<1>1. /\ n \in Nat \ {0, 1} /\ Top = stack[n]
      /\ \A i \in 1 .. n : stack[i] \in Frames
  BY TopFrame DEF LooseTypes
<1>2. /\ Len(stack') = n - 1 /\ stack'[n - 1] = Resumed(stack[n - 1])
      /\ Top' = stack'[n - 1]
      /\ \A i \in 1 .. n - 2 : stack'[i] = stack[i]
  BY ReturnShape DEF LooseTypes
<1>3. /\ Top.direct <=> stack[n - 1].at = "call"
      /\ stack[n - 1].at \notin {"store", "mask"}
  BY <1>1 DEF CallInv
<1> HIDE DEF n
<1>4. /\ stack'[n - 1].event = stack[n - 1].event
      /\ stack'[n - 1].at = IF Top.direct THEN "drain" ELSE stack[n - 1].at
  <2>1. stack[n - 1] \in Frames
    BY <1>1
  <2>2. QED
    BY <1>2, <2>1 DEF Resumed, Frames
<1>5. ASSUME NEW i \in 1 .. n - 1
      PROVE  /\ stack'[i].at = "entry" <=> stack[i].at = "entry"
             /\ stack'[i].event = stack[i].event
  <2>1. CASE i = n - 1
    BY <1>3, <1>4, <2>1
  <2>2. CASE i # n - 1
    BY <1>1, <1>2, <2>2
  <2>3. QED
    BY <2>1, <2>2
<1>6. Entering' = Entering \ {n}
  <2>1. Entering' = {i \in 1 .. n - 1 : stack'[i].at = "entry"}
    BY <1>2 DEF Entering
  <2>2. Entering = {i \in 1 .. n : stack[i].at = "entry"}
    BY DEF Entering, n
  <2>3. QED
    BY <1>1, <1>5, <2>1, <2>2
<1>7. \A i \in Entering' : i \in 1 .. n - 1
  BY <1>2 DEF Entering
<1>8. QED
  BY <1>2, <1>3, <1>4, <1>5, <1>6, <1>7 DEF n

\* A handler is put on top.
LEMMA Enters ==
  ASSUME LooseTypes, NEW handler \in Frames, NEW woken \in Frames,
         Len(stack') = Len(stack) + 1, stack'[Len(stack) + 1] = handler,
         stack'[Len(stack)] = woken, \A i \in 1 .. Len(stack) - 1 : stack'[i] = stack[i],
         handler.at = "entry", woken.at = "entry" <=> Top.at = "entry", woken.event = Top.event
  PROVE  /\ Entering' = Entering \cup {Len(stack) + 1} /\ Len(stack) + 1 \notin Entering
         /\ \A i \in Entering : stack'[i].event = stack[i].event
<1> DEFINE n == Len(stack)
<1>1. n \in Nat \ {0} /\ Top = stack[n]
  BY TopFrame DEF LooseTypes
<1>2. ASSUME NEW i \in 1 .. n
      PROVE  /\ stack'[i].at = "entry" <=> stack[i].at = "entry"
             /\ stack'[i].event = stack[i].event
  <2>1. CASE i = n
    BY <1>1, <2>1
  <2>2. CASE i # n
    BY <1>1, <2>2
  <2>3. QED
    BY <2>1, <2>2
<1>3. Entering' = {i \in 1 .. n + 1 : stack'[i].at = "entry"}
  BY DEF Entering
<1>4. Entering = {i \in 1 .. n : stack[i].at = "entry"}
  BY DEF Entering
<1> HIDE DEF n
<1>5. Entering' = Entering \cup {n + 1} /\ n + 1 \notin Entering
  <2>1. stack'[n + 1].at = "entry"
    BY DEF n
  <2>2. QED
    BY <1>1, <1>2, <1>3, <1>4, <2>1
<1>6. QED
  BY <1>2, <1>4, <1>5 DEF n

\* Every step leaves every signal in one place.
LEMMA OnePlaceStep ==
  LooseTypes /\ NestInv /\ CallInv /\ RoomInv /\ OnePlaceInv /\ [Next]_vars => OnePlaceInv'
<1> SUFFICES ASSUME LooseTypes, NestInv, CallInv, RoomInv, OnePlaceInv, [Next]_vars,
                    ~Overflow, ~DrainWindow
             PROVE  OnePlaceInv'
  BY DEF OnePlaceInv
<1>1. /\ Top \in Frames /\ FrameInv(Top) /\ stack \in Seq(Frames) /\ stack # <<>>
      /\ Len(stack) \in Nat \ {0} /\ Top = stack[Len(stack)]
      /\ queue_front \in Slots /\ queue_rear \in Slots /\ Len(caught) \in Nat
      /\ signal_queue \in [Slots -> {Main} \cup Events]
      /\ handled \in Seq({Main} \cup Events) /\ queued \in Seq({Main} \cup Events)
      /\ Main \notin 1 .. Len(caught)
  BY TopFrame DEF LooseTypes, NestInv, RoomInv, Main
<1>2. LiveSlots = {i \in Slots : InRing(i) \/ (i = queue_front /\ Top.at \in {"mask", "call"})}
  BY DEF LiveSlots
<1>3. LiveSlots' = {i \in Slots : InRing(i)' \/ (i = queue_front' /\ Top'.at \in {"mask", "call"})}
  BY DEF LiveSlots
<1>4. UNCHANGED <<queue_front, queue_rear>> => \A i \in Slots : InRing(i)' <=> InRing(i)
  BY DEF InRing
<1>5. Top.at = "entry" => Len(stack) \in Entering
  BY <1>1 DEF Entering
<1>6. ASSUME NEW s \in Signals, Catch(s) PROVE OnePlaceInv'
  <2> DEFINE h == Handler(Len(caught) + 1, FALSE, Caller)
  <2>1. /\ Len(stack') = Len(stack) + 1 /\ stack'[Len(stack) + 1] = h /\ Top' = h
        /\ stack'[Len(stack)] = Woken /\ Woken \in Frames
        /\ \A i \in 1 .. Len(stack) - 1 : stack'[i] = stack[i]
        /\ Len(caught) + 1 \in Events /\ Caller \in SUBSET Signals
    BY <1>6, CatchShape
  <2>2. h \in Frames /\ h.at = "entry" /\ h.event = Len(caught) + 1
    <3>1. h \in Frames
      BY <2>1, HandlerFrame
    <3>2. QED
      BY <3>1 DEF Handler, NewFrame
  <2>3. Woken.event = Top.event /\ (Woken.at = "entry" <=> Top.at = "entry")
    BY <1>1 DEF Woken, At, Frames
  <2> HIDE DEF h
  <2>4. /\ Entering' = Entering \cup {Len(stack) + 1} /\ Len(stack) + 1 \notin Entering
        /\ \A i \in Entering : stack'[i].event = stack[i].event
    BY <2>1, <2>2, <2>3, Enters
  <2>5. Top.at \notin {"store", "mask", "call"} /\ Top'.at = "entry"
    BY <1>6, <2>1, <2>2 DEF Catch, InWindow
  <2>6. UNCHANGED <<queue_front, queue_rear, signal_queue, queued, handled>>
    BY <1>6 DEF Catch, ring
  <2>7. LiveSlots' = LiveSlots
    BY <1>2, <1>3, <1>4, <2>5, <2>6
  <2>8. Len(caught') = Len(caught) + 1
    BY <1>6 DEF Catch, LooseTypes
  <2>9. /\ stack'[Len(stack) + 1].event = Len(caught) + 1
        /\ Len(caught) + 1 \notin 1 .. Len(caught)
        /\ \A e \in 1 .. Len(caught) : e \in 1 .. Len(caught')
        /\ Len(caught) + 1 \in 1 .. Len(caught')
    BY <1>1, <2>1, <2>2, <2>8
  <2>10. EventsOf(handled') = EventsOf(handled) /\ EventsOf(queued') = EventsOf(queued)
    BY <2>6
  <2>11. HandledOnce'
    BY <2>6 DEF OnePlaceInv, HandledOnce
  <2>12. ~At("store")'
    BY <2>5 DEF At
  <2>13. EventsOf(handled') \cup EventsOf(queued') \subseteq 1 .. Len(caught')
    BY <2>9, <2>10 DEF OnePlaceInv
  <2>14. \A i \in LiveSlots' : signal_queue'[i] \in (1 .. Len(caught')) \ EventsOf(handled')
    BY <2>6, <2>7, <2>9, <2>10 DEF OnePlaceInv
  <2>15. \A i \in Entering' : stack'[i].event \in (1 .. Len(caught')) \ EventsOf(handled')
    BY <2>4, <2>9, <2>10 DEF OnePlaceInv
  <2>16. \A i, j \in LiveSlots' : signal_queue'[i] = signal_queue'[j] => i = j
    BY <2>6, <2>7 DEF OnePlaceInv
  <2>17. \A i, j \in Entering' : stack'[i].event = stack'[j].event => i = j
    BY <2>4, <2>9 DEF OnePlaceInv
  <2>18. \A i \in LiveSlots', j \in Entering' : signal_queue'[i] # stack'[j].event
    BY <2>4, <2>6, <2>7, <2>9 DEF OnePlaceInv
  <2>19. QED
    BY <2>11, <2>12, <2>13, <2>14, <2>15, <2>16, <2>17, <2>18 DEF OnePlaceInv
<1>7. CASE Queue
  <2>1. Len(stack) > 1 /\ ReturnFrom(Top) /\ Top.at = "entry"
    BY <1>1, <1>7, HandlerOnTop DEF Queue, At
  <2>2. /\ Entering' = Entering \ {Len(stack)}
        /\ \A i \in Entering' : stack'[i].event = stack[i].event
        /\ Top'.at \notin {"store", "mask", "call"}
    BY <2>1, Leaves
  <2>3. /\ queue_rear' = (queue_rear + 1) % MAX_QUEUE_SIZE /\ queue_front' = queue_front
        /\ queue_rear' # queue_front /\ queue_rear' \in Slots
        /\ signal_queue' = [signal_queue EXCEPT ![queue_rear'] = Top.event]
        /\ queued' = Append(queued, Top.event)
    BY <1>7, QueueFits
  <2>4. \A i \in Slots : /\ InRing(i)' <=> InRing(i) \/ i = queue_rear'
                         /\ i = queue_rear' => ~InRing(i)
    BY <1>1, <2>3, PutInRing
  <2>5. LiveSlots' = LiveSlots \cup {queue_rear'} /\ queue_rear' \notin LiveSlots
    BY <1>2, <1>3, <2>1, <2>2, <2>3, <2>4
  <2>6. /\ signal_queue'[queue_rear'] = Top.event
        /\ \A i \in LiveSlots : signal_queue'[i] = signal_queue[i]
    BY <1>1, <1>2, <2>3, <2>5
  <2>7. UNCHANGED <<caught, handled>>
    BY <1>7 DEF Queue
  <2>8. EventsOf(queued') = EventsOf(queued) \cup {Top.event} /\ EventsOf(handled') = EventsOf(handled)
    <3>1. Top.event \in {Main} \cup Events
      BY <1>1 DEF Frames
    <3>2. EventsOf(Append(queued, Top.event)) = EventsOf(queued) \cup {Top.event}
      BY <1>1, <3>1, AppendEvents
    <3>3. QED
      BY <2>3, <2>7, <3>2
  <2>9. /\ Len(stack) \in Entering /\ Top.event = stack[Len(stack)].event
        /\ Top.event \in (1 .. Len(caught)) \ EventsOf(handled)
        /\ \A i \in Entering \ {Len(stack)} : stack[i].event # Top.event
        /\ \A i \in LiveSlots : signal_queue[i] # Top.event
    BY <1>1, <1>5, <2>1 DEF OnePlaceInv
  <2>10. HandledOnce' /\ ~At("store")'
    BY <2>2, <2>7 DEF OnePlaceInv, HandledOnce, At
  <2>11. EventsOf(handled') \cup EventsOf(queued') \subseteq 1 .. Len(caught')
    BY <2>7, <2>8, <2>9 DEF OnePlaceInv
  <2>12. \A i \in LiveSlots' : signal_queue'[i] \in (1 .. Len(caught')) \ EventsOf(handled')
    BY <2>5, <2>6, <2>7, <2>9 DEF OnePlaceInv
  <2>13. \A i \in Entering' : stack'[i].event \in (1 .. Len(caught')) \ EventsOf(handled')
    BY <2>2, <2>7 DEF OnePlaceInv
  <2>14. \A i, j \in LiveSlots' : signal_queue'[i] = signal_queue'[j] => i = j
    BY <2>5, <2>6, <2>9 DEF OnePlaceInv
  <2>15. \A i, j \in Entering' : stack'[i].event = stack'[j].event => i = j
    BY <2>2 DEF OnePlaceInv
  <2>16. \A i \in LiveSlots', j \in Entering' : signal_queue'[i] # stack'[j].event
    BY <2>2, <2>5, <2>6, <2>9 DEF OnePlaceInv
  <2>17. QED
    BY <2>10, <2>11, <2>12, <2>13, <2>14, <2>15, <2>16 DEF OnePlaceInv
<1>8. CASE Dispatch
  <2> DEFINE frame == [Top EXCEPT !.at = "run"]
  <2>1. /\ frame \in Frames /\ frame.at = "run" /\ Run(frame) /\ Top.at = "entry"
        /\ Top.event \in {Main} \cup Events
    BY <1>1, <1>8 DEF Dispatch, Frames, At
  <2> HIDE DEF frame
  <2>2. /\ Len(stack') = Len(stack) /\ stack'[Len(stack)] = frame /\ Top' = frame
        /\ \A i \in 1 .. Len(stack) - 1 : stack'[i] = stack[i]
    BY <1>1, <2>1, RunShape
  <2>3. /\ Entering' = Entering \ {Len(stack)}
        /\ \A i \in Entering' : stack'[i] = stack[i]
    <3>1. Entering' = {i \in 1 .. Len(stack) : stack'[i].at = "entry"}
      BY <2>2 DEF Entering
    <3>2. \A i \in 1 .. Len(stack) : i # Len(stack) => stack'[i] = stack[i]
      BY <1>1, <2>2
    <3>3. stack'[Len(stack)].at # "entry"
      BY <2>1, <2>2
    <3>4. QED
      BY <1>1, <3>1, <3>2, <3>3 DEF Entering
  <2>4. handled' = Append(handled, Top.event)
        /\ UNCHANGED <<queue_front, queue_rear, signal_queue, caught, queued>>
    BY <1>8 DEF Dispatch, ring
  <2>5. LiveSlots' = LiveSlots
    BY <1>2, <1>3, <1>4, <2>1, <2>2, <2>4
  <2>6. /\ Len(stack) \in Entering /\ Top.event = stack[Len(stack)].event
        /\ Top.event \in (1 .. Len(caught)) \ EventsOf(handled)
        /\ \A i \in Entering \ {Len(stack)} : stack[i].event # Top.event
        /\ \A i \in LiveSlots : signal_queue[i] # Top.event
    BY <1>1, <1>5, <2>1 DEF OnePlaceInv
  <2>7. EventsOf(handled') = EventsOf(handled) \cup {Top.event} /\ HandledOnce'
    <3>1. EventsOf(Append(handled, Top.event)) = EventsOf(handled) \cup {Top.event}
      BY <1>1, <2>1, AppendEvents
    <3>2. /\ \A i, j \in DOMAIN handled : handled[i] = handled[j] => i = j
          /\ Top.event \notin EventsOf(handled)
      BY <2>6 DEF OnePlaceInv, HandledOnce
    <3>3. \A i, j \in DOMAIN Append(handled, Top.event) :
            Append(handled, Top.event)[i] = Append(handled, Top.event)[j] => i = j
      BY <1>1, <2>1, <3>2, AppendEvents
    <3>4. HandledOnce'
      BY <2>4, <3>3 DEF HandledOnce
    <3>5. QED
      BY <2>4, <3>1, <3>4
  <2>8. ~At("store")'
    BY <2>1, <2>2 DEF At
  <2>9. EventsOf(handled') \cup EventsOf(queued') \subseteq 1 .. Len(caught')
    BY <2>4, <2>6, <2>7 DEF OnePlaceInv
  <2>10. \A i \in LiveSlots' : signal_queue'[i] \in (1 .. Len(caught')) \ EventsOf(handled')
    BY <2>4, <2>5, <2>6, <2>7 DEF OnePlaceInv
  <2>11. \A i \in Entering' : stack'[i].event \in (1 .. Len(caught')) \ EventsOf(handled')
    BY <2>3, <2>4, <2>6, <2>7 DEF OnePlaceInv
  <2>12. \A i, j \in LiveSlots' : signal_queue'[i] = signal_queue'[j] => i = j
    BY <2>4, <2>5 DEF OnePlaceInv
  <2>13. \A i, j \in Entering' : stack'[i].event = stack'[j].event => i = j
    BY <2>3 DEF OnePlaceInv
  <2>14. \A i \in LiveSlots', j \in Entering' : signal_queue'[i] # stack'[j].event
    BY <2>3, <2>4, <2>5 DEF OnePlaceInv
  <2>15. QED
    BY <2>7, <2>8, <2>9, <2>10, <2>11, <2>12, <2>13, <2>14 DEF OnePlaceInv
<1>9. CASE Return
  <2>1. Len(stack) > 1 /\ ReturnFrom(Top) /\ Top.at = "run"
    BY <1>1, <1>9, HandlerOnTop DEF Return, At
  <2>2. /\ Entering' = Entering \ {Len(stack)}
        /\ \A i \in Entering' : stack'[i].event = stack[i].event
        /\ Top'.at \notin {"store", "mask", "call"}
    BY <2>1, Leaves
  <2>3. Entering' = Entering
    BY <1>1, <2>1, <2>2 DEF Entering
  <2>4. UNCHANGED <<queue_front, queue_rear, signal_queue, caught, queued, handled>>
    BY <1>9 DEF Return, ring
  <2>5. LiveSlots' = LiveSlots
    BY <1>2, <1>3, <1>4, <2>1, <2>2, <2>4
  <2>6. ~At("store")'
    BY <2>2 DEF At
  <2>7. QED
    BY <2>2, <2>3, <2>4, <2>5, <2>6, NothingMoves
<1>10. ASSUME NEW frame \in Frames, Run(frame), Top.at \notin {"entry", "mask", "call"},
              frame.at \notin {"entry", "mask", "call"}, UNCHANGED <<ring, caught, queued, handled>>,
              frame.at = "store" =>
                queue_front # queue_rear /\ frame.next = (queue_front + 1) % MAX_QUEUE_SIZE
       PROVE  OnePlaceInv'
  <2>1. Entering' = Entering /\ \A i \in Entering : stack'[i].event = stack[i].event
    BY <1>10, RunsOn
  <2>2. Top' = frame /\ UNCHANGED <<queue_front, queue_rear, signal_queue, caught, queued, handled>>
    BY <1>1, <1>10, RunShape DEF ring
  <2>3. LiveSlots' = LiveSlots
    BY <1>2, <1>3, <1>4, <1>10, <2>2
  <2>4. At("store")' => queue_front' # queue_rear' /\ Top'.next = (queue_front' + 1) % MAX_QUEUE_SIZE
    BY <1>10, <2>2 DEF At
  <2>5. QED
    BY <2>1, <2>2, <2>3, <2>4, NothingMoves
<1>11. CASE queue_signals
  <2> DEFINE frame == [Top EXCEPT !.depth = @ + 1]
  <2>1. Run(frame) /\ Top.at = "run" /\ UNCHANGED <<ring, caught, queued, handled>>
    BY <1>11 DEF queue_signals, RunsShellCode, At
  <2>2. Top.depth + 1 \in Nat
    BY <1>1 DEF Frames
  <2>3. frame \in Frames /\ frame.at = "run"
    BY <1>1, <2>1, <2>2 DEF Frames
  <2> HIDE DEF frame
  <2>4. QED
    BY <1>10, <2>1, <2>3
<1>12. CASE unqueue_signals
  <2> DEFINE frame == [Top EXCEPT !.depth = @ - 1,
                                  !.at = IF queueing_enabled = 1 THEN "drain" ELSE "run"]
  <2>1. /\ Run(frame) /\ Top.at = "run" /\ Top.depth > 0
        /\ UNCHANGED <<ring, caught, queued, handled>>
    BY <1>12 DEF unqueue_signals, RunsShellCode, At
  <2>2. Top.depth - 1 \in Nat
    BY <1>1, <2>1 DEF Frames
  <2>3. frame \in Frames /\ frame.at \in {"drain", "run"}
    BY <1>1, <2>1, <2>2 DEF Frames
  <2> HIDE DEF frame
  <2>4. QED
    BY <1>10, <2>1, <2>3
<1>13. CASE dont_queue_signals
  <2> DEFINE frame == [Top EXCEPT !.waiting = TRUE, !.q = queueing_enabled, !.at = "drain"]
  <2>1. Run(frame) /\ Top.at = "run" /\ UNCHANGED <<ring, caught, queued, handled>>
    BY <1>13 DEF dont_queue_signals, RunsShellCode, At
  <2>2. frame \in Frames /\ frame.at = "drain"
    BY <1>1 DEF Frames, LooseTypes
  <2> HIDE DEF frame
  <2>3. QED
    BY <1>10, <2>1, <2>2
<1>14. CASE child_suspend
  <2> DEFINE frame == [Top EXCEPT !.at = "suspended", !.oset = mask]
  <2>1. Run(frame) /\ Top.at = "loop" /\ UNCHANGED <<ring, caught, queued, handled>>
    BY <1>14 DEF child_suspend, At
  <2>2. frame \in Frames /\ frame.at = "suspended"
    BY <1>1 DEF Frames, LooseTypes
  <2> HIDE DEF frame
  <2>3. QED
    BY <1>10, <2>1, <2>2
<1>15. CASE restore_queue_signals
  <2> DEFINE frame == [Top EXCEPT !.waiting = FALSE, !.q = 0, !.at = "run"]
  <2>1. Run(frame) /\ Top.at = "loop" /\ UNCHANGED <<ring, caught, queued, handled>>
    BY <1>15 DEF restore_queue_signals, At
  <2>2. frame \in Frames /\ frame.at = "run"
    BY <1>1 DEF Frames
  <2> HIDE DEF frame
  <2>3. QED
    BY <1>10, <2>1, <2>2
<1>16. CASE DrainIsOver
  <2> DEFINE frame == [Top EXCEPT !.at = IF Top.waiting THEN "loop" ELSE "run"]
  <2>1. Run(frame) /\ Top.at = "drain" /\ UNCHANGED <<ring, caught, queued, handled>>
    BY <1>16 DEF DrainIsOver, At
  <2>2. frame \in Frames /\ frame.at \in {"loop", "run"}
    BY <1>1 DEF Frames
  <2> HIDE DEF frame
  <2>3. QED
    BY <1>10, <2>1, <2>2
<1>17. CASE LoadFront
  <2> DEFINE frame == [Top EXCEPT !.at = "store", !.next = (queue_front + 1) % MAX_QUEUE_SIZE]
  <2>1. /\ Run(frame) /\ Top.at = "drain" /\ queue_front # queue_rear
        /\ UNCHANGED <<ring, caught, queued, handled>>
    BY <1>17 DEF LoadFront, At
  <2>2. (queue_front + 1) % MAX_QUEUE_SIZE \in Slots
    BY <1>1, InSlots DEF Slots
  <2>3. /\ frame \in Frames /\ frame.at = "store"
        /\ frame.next = (queue_front + 1) % MAX_QUEUE_SIZE
    BY <1>1, <2>2 DEF Frames
  <2> HIDE DEF frame
  <2>4. QED
    BY <1>10, <2>1, <2>3
<1>18. CASE StoreFront
  <2> DEFINE frame == [Top EXCEPT !.at = "mask", !.next = 0]
  <2>1. /\ Run(frame) /\ Top.at = "store" /\ queue_front' = Top.next
        /\ UNCHANGED <<queue_rear, signal_queue, caught, queued, handled>>
    BY <1>18 DEF StoreFront, At
  <2>2. queue_front # queue_rear /\ Top.next = (queue_front + 1) % MAX_QUEUE_SIZE
    BY <2>1 DEF OnePlaceInv, At
  <2>3. frame \in Frames /\ frame.at = "mask" /\ queue_front' \in Slots
    BY <1>1, <2>1, InSlots DEF Frames
  <2> HIDE DEF frame
  <2>4. Entering' = Entering /\ \A i \in Entering : stack'[i].event = stack[i].event
    BY <2>1, <2>3, RunsOn
  <2>5. Top' = frame
    BY <1>1, <2>1, <2>3, RunShape
  <2>6. \A i \in Slots : InRing(i) <=> InRing(i)' \/ i = queue_front'
    BY <1>1, <2>1, <2>2, TakeFromRing
  <2>7. LiveSlots' = LiveSlots
    BY <1>2, <1>3, <2>1, <2>3, <2>5, <2>6
  <2>8. ~At("store")'
    BY <2>3, <2>5 DEF At
  <2>9. QED
    BY <2>1, <2>4, <2>7, <2>8, NothingMoves
<1>19. CASE SetStoredMask
  <2> DEFINE frame == [Top EXCEPT !.at = "call", !.oset = mask]
  <2>1. Run(frame) /\ Top.at = "mask" /\ UNCHANGED <<ring, caught, queued, handled>>
    BY <1>19 DEF SetStoredMask, At
  <2>2. frame \in Frames /\ frame.at = "call"
    BY <1>1 DEF Frames, LooseTypes
  <2> HIDE DEF frame
  <2>3. Entering' = Entering /\ \A i \in Entering : stack'[i].event = stack[i].event
    BY <2>1, <2>2, RunsOn
  <2>4. Top' = frame /\ UNCHANGED <<queue_front, queue_rear, signal_queue>>
    BY <1>1, <2>1, <2>2, RunShape DEF ring
  <2>5. LiveSlots' = LiveSlots
    BY <1>2, <1>3, <1>4, <2>1, <2>2, <2>4
  <2>6. ~At("store")'
    BY <2>2, <2>4 DEF At
  <2>7. QED
    BY <2>1, <2>3, <2>4, <2>5, <2>6, NothingMoves
<1>20. CASE CallHandler
  <2> DEFINE h == Handler(signal_queue[queue_front], TRUE, {})
  <2>1. h \in Frames /\ h.at = "entry" /\ h.event = signal_queue[queue_front]
    <3>1. h \in Frames
      BY HandlerFrame DEF LooseTypes
    <3>2. QED
      BY <3>1 DEF Handler, NewFrame
  <2>2. /\ stack' = Append(stack, h) /\ Top.at = "call"
        /\ UNCHANGED <<queue_front, queue_rear, signal_queue, caught, queued, handled>>
    BY <1>20 DEF CallHandler, At, ring
  <2> HIDE DEF h
  <2>3. /\ Len(stack') = Len(stack) + 1 /\ stack'[Len(stack) + 1] = h /\ Top' = h
        /\ \A i \in 1 .. Len(stack) : stack'[i] = stack[i]
    BY <1>1, <2>1, <2>2, PushShape
  <2>4. stack'[Len(stack)] = Top /\ \A i \in 1 .. Len(stack) - 1 : stack'[i] = stack[i]
    BY <1>1, <2>3
  <2>5. /\ Entering' = Entering \cup {Len(stack) + 1} /\ Len(stack) + 1 \notin Entering
        /\ \A i \in Entering : stack'[i].event = stack[i].event
    BY <1>1, <2>1, <2>3, <2>4, Enters
  <2>6. /\ LiveSlots' = LiveSlots \ {queue_front} /\ queue_front \in LiveSlots
    <3>1. ~InRing(queue_front)
      BY <1>1, FrontIsOut
    <3>2. QED
      BY <1>1, <1>2, <1>3, <1>4, <2>1, <2>2, <2>3, <3>1
  <2>7. /\ stack'[Len(stack) + 1].event = signal_queue[queue_front]
        /\ signal_queue[queue_front] \in (1 .. Len(caught)) \ EventsOf(handled)
        /\ \A i \in Entering : stack[i].event # signal_queue[queue_front]
        /\ \A i \in LiveSlots \ {queue_front} : signal_queue[i] # signal_queue[queue_front]
    BY <2>1, <2>3, <2>6 DEF OnePlaceInv
  <2>8. HandledOnce' /\ ~At("store")'
    BY <2>1, <2>2, <2>3 DEF OnePlaceInv, HandledOnce, At
  <2>9. EventsOf(handled') \cup EventsOf(queued') \subseteq 1 .. Len(caught')
    BY <2>2 DEF OnePlaceInv
  <2>10. \A i \in LiveSlots' : signal_queue'[i] \in (1 .. Len(caught')) \ EventsOf(handled')
    BY <2>2, <2>6 DEF OnePlaceInv
  <2>11. \A i \in Entering' : stack'[i].event \in (1 .. Len(caught')) \ EventsOf(handled')
    BY <2>2, <2>5, <2>7 DEF OnePlaceInv
  <2>12. \A i, j \in LiveSlots' : signal_queue'[i] = signal_queue'[j] => i = j
    BY <2>2, <2>6 DEF OnePlaceInv
  <2>13. \A i, j \in Entering' : stack'[i].event = stack'[j].event => i = j
    BY <2>5, <2>7 DEF OnePlaceInv
  <2>14. \A i \in LiveSlots', j \in Entering' : signal_queue'[i] # stack'[j].event
    <3> SUFFICES ASSUME NEW i \in LiveSlots', NEW j \in Entering'
                 PROVE  signal_queue[i] # stack'[j].event
      BY <2>2
    <3>1. i \in LiveSlots \ {queue_front}
      BY <2>6
    <3>2. CASE j = Len(stack) + 1
      BY <2>7, <3>1, <3>2
    <3>3. CASE j \in Entering
      BY <2>5, <3>1, <3>3 DEF OnePlaceInv
    <3>4. QED
      BY <2>5, <3>2, <3>3
  <2>15. QED
    BY <2>8, <2>9, <2>10, <2>11, <2>12, <2>13, <2>14 DEF OnePlaceInv
<1>21. CASE UNCHANGED vars
  <2>1. LiveSlots' = LiveSlots /\ Entering' = Entering /\ Top' = Top /\ stack' = stack
        /\ UNCHANGED <<queue_front, queue_rear, signal_queue, caught, queued, handled>>
    BY <1>21 DEF vars, ring, LiveSlots, InRing, Entering, Top
  <2>2. At("store")' => queue_front' # queue_rear' /\ Top'.next = (queue_front' + 1) % MAX_QUEUE_SIZE
    BY <2>1 DEF OnePlaceInv, At
  <2>3. QED
    BY <2>1, <2>2, NothingMoves
<1>22. QED
  BY <1>6, <1>7, <1>8, <1>9, <1>11, <1>12, <1>13, <1>14, <1>15, <1>16, <1>17, <1>18, <1>19,
     <1>20, <1>21 DEF Next, Handling, Draining, Waiting, Enter

-----------------------------------------------------------------------------
(* The theorems.                                                           *)

LEMMA SInvInit == Init => SInv
<1> SUFFICES ASSUME Init PROVE SInv
  OBVIOUS
<1>1. NewFrame \in Frames
  BY InSlots DEF NewFrame, Frames, Main
<1>2. stack = <<NewFrame>> /\ Len(stack) = 1 /\ stack[1] = NewFrame /\ Top = NewFrame
  BY DEF Init, Top
<1>3. 0 \in Slots /\ stack \in Seq(Frames) /\ stack # <<>>
  BY <1>1, <1>2, InSlots
<1>4. LooseTypes
  BY <1>3, SizesAssumption DEF Init, LooseTypes
<1>5. NestInv
  BY <1>2 DEF Init, NestInv, FrameInv, Open, NewFrame
<1>6. CallInv
  BY <1>2 DEF CallInv, NewFrame, Main
<1>7. MaskInv
  BY <1>2 DEF Init, MaskInv, MainMask, NewFrame
<1>8. RoomInv
  BY <1>2, <1>3 DEF Init, RoomInv, Open, NewFrame
<1>9. OnePlaceInv
  <2>1. handled = <<>> /\ queued = <<>> /\ ~At("store")
    BY <1>2 DEF Init, At, NewFrame
  <2>2. EventsOf(handled) = {} /\ EventsOf(queued) = {} /\ HandledOnce
    BY <2>1 DEF EventsOf, HandledOnce
  <2>3. LiveSlots = {}
    BY <1>2 DEF Init, LiveSlots, InRing, Slots, NewFrame
  <2>4. Entering = {}
    BY <1>2 DEF Entering, NewFrame
  <2>5. QED
    BY <2>1, <2>2, <2>3, <2>4 DEF OnePlaceInv
<1>10. QED
  BY <1>4, <1>5, <1>6, <1>7, <1>8, <1>9 DEF SInv

LEMMA SInvStep == SInv /\ [Next]_vars => SInv'
BY TypesStep, NestStep, CallsStep, RoomStep, OnePlaceStep DEF SInv

\* The inductive invariant of the queue of signals (zhandler, run_queued_signals, the
\* critical sections, zwaitjob) holds whatever is caught, and whenever.
THEOREM SignalsInvariance == Spec => []SInv
BY SInvInit, SInvStep, PTL DEF Spec

\* While a signal is being dealt with, none of the code under its handler is inside a
\* critical section (queue_signals .. unqueue_signals) it has not opened for a wait:
\* also with a full ring, and with signals between the statements of run_queued_signals.
THEOREM SignalsStayOutside == Spec => []NotInside
<1>1. SInv => NotInside
  <2> SUFFICES ASSUME SInv, NEW i \in 1 .. Len(stack) - 1, Top.at # "entry" PROVE Open(stack[i])
    BY DEF NotInside, Top
  <2>1. LooseTypes /\ NestInv
    BY DEF SInv
  <2>2. QED
    BY <2>1, LowerOpen
<1>2. QED
  BY <1>1, SignalsInvariance, PTL

\* Whenever no handler runs and the main program is not waiting, every mask put on by
\* zhandler, run_queued_signals or child_block has been taken off again.
THEOREM MasksComeOff == Spec => []MaskRestored
<1>1. SInv => MaskRestored
  <2> SUFFICES ASSUME SInv, Len(stack) = 1, At("run") PROVE mask = {}
    BY DEF MaskRestored
  <2>1. stack[1].at = "run"
    BY DEF At, Top
  <2>2. QED
    BY <2>1 DEF SInv, MaskInv, MainMask
<1>2. QED
  BY <1>1, SignalsInvariance, PTL

\* Unless signals are caught although the ring is full, zhandler never leaves the rear of
\* the ring past its end, even with signals in the window of run_queued_signals.
THEOREM RearInRing == ~Overflow => (Spec => [](queue_rear \in Slots))
<1> SUFFICES ASSUME ~Overflow PROVE Spec => [](queue_rear \in Slots)
  OBVIOUS
<1>1. SInv => queue_rear \in Slots
  BY DEF SInv, RoomInv
<1>2. QED
  BY <1>1, SignalsInvariance, PTL

\* No signal is dealt with twice (the drains of run_queued_signals nest), unless one is
\* caught with the ring full or between the statements that take one out of it.
THEOREM DealtWithOnce == ~Overflow /\ ~DrainWindow => (Spec => []HandledOnce)
<1> SUFFICES ASSUME ~Overflow, ~DrainWindow PROVE Spec => []HandledOnce
  OBVIOUS
<1>1. SInv => HandledOnce
  BY DEF SInv, OnePlaceInv
<1>2. QED
  BY <1>1, SignalsInvariance, PTL

\* On the same condition every variable has its type: the indices stay in the ring, and
\* nothing but signals that were caught is queued or dealt with.
THEOREM TypeCorrect == ~Overflow /\ ~DrainWindow => (Spec => []TypeOK)
<1> SUFFICES ASSUME ~Overflow, ~DrainWindow PROVE Spec => []TypeOK
  OBVIOUS
<1>1. ASSUME SInv PROVE TypeOK
  <2>1. LooseTypes /\ queue_rear \in Slots
    BY <1>1 DEF SInv, RoomInv
  <2>2. EventsOf(handled) \cup EventsOf(queued) \subseteq 1 .. Len(caught)
    BY <1>1 DEF SInv, OnePlaceInv
  <2>3. 1 .. Len(caught) \subseteq Events
    BY <2>1, SizesAssumption DEF LooseTypes, Events
  <2>4. ASSUME NEW seq \in Seq({Main} \cup Events), EventsOf(seq) \subseteq Events
        PROVE  seq \in Seq(Events)
    <3>1. \A i \in 1 .. Len(seq) : seq[i] \in Events
      BY <2>4 DEF EventsOf
    <3>2. Len(seq) \in Nat /\ seq = [i \in 1 .. Len(seq) |-> seq[i]]
      OBVIOUS
    <3>3. QED
      BY <3>1, <3>2
  <2>5. handled \in Seq(Events) /\ queued \in Seq(Events)
    BY <2>1, <2>2, <2>3, <2>4 DEF LooseTypes
  <2>6. QED
    BY <2>1, <2>5 DEF TypeOK, LooseTypes
<1>2. QED
  BY <1>1, SignalsInvariance, PTL
=============================================================================
