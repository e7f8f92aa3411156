----------------------------- MODULE NmeaFrames -----------------------------
(***************************************************************************)
(* The NMEA frames of the two programs that have this event handler. The   *)
(* handler runs in interrupt context: it allocates a frame, has the modem  *)
(* fill it, and hands a pointer to main through a queue; main frees what   *)
(* it took. A frame is the number of its block of the heap.                *)
(***************************************************************************)
EXTENDS Integers, Sequences, Functions

CONSTANTS NmeaQueue,  \* capacity of nmea_queue: 10
          NmeaHeap    \* NMEA frames the heap has room for

ASSUME NmeaAssumption == NmeaQueue \in Nat /\ NmeaHeap \in Nat

VARIABLES
  nmeaMem,       \* allocated frames
  nmeaPtrs,      \* the pointers in nmea_queue
  handlerFrame,  \* nmea_data of the handler while it runs
  mainFrame      \* nmea_data of main between k_msgq_get and k_free

nmeaVars == <<nmeaMem, nmeaPtrs, handlerFrame, mainFrame>>

NoFrame == 0
Frames == 1..NmeaHeap

\* k_malloc; without room the handler leaves everything as it is.
NmeaMalloc ==
  /\ handlerFrame = NoFrame
  /\ \E f \in Frames \ nmeaMem : nmeaMem' = nmeaMem \cup {f} /\ handlerFrame' = f
  /\ UNCHANGED <<nmeaPtrs, mainFrame>>

\* The frame was read and there is room for its pointer.
NmeaQueued ==
  /\ handlerFrame # NoFrame /\ Len(nmeaPtrs) < NmeaQueue
  /\ nmeaPtrs' = Append(nmeaPtrs, handlerFrame)
  /\ handlerFrame' = NoFrame
  /\ UNCHANGED <<nmeaMem, mainFrame>>

\* Mutant: a frame that is not queued is forgotten.
NmeaNotQueuedLeaks ==
  /\ handlerFrame # NoFrame /\ handlerFrame' = NoFrame
  /\ UNCHANGED <<nmeaMem, nmeaPtrs, mainFrame>>

\* Reading failed, or the queue is full: the frame is freed.
NmeaNotQueued ==
  /\ handlerFrame # NoFrame
  /\ nmeaMem' = nmeaMem \ {handlerFrame} /\ handlerFrame' = NoFrame
  /\ UNCHANGED <<nmeaPtrs, mainFrame>>

\* k_msgq_get and k_free of main.
NmeaGet ==
  /\ nmeaPtrs # <<>>
  /\ mainFrame' = Head(nmeaPtrs) /\ nmeaPtrs' = Tail(nmeaPtrs)
  /\ UNCHANGED <<nmeaMem, handlerFrame>>

NmeaFree ==
  /\ nmeaMem' = nmeaMem \ {mainFrame} /\ mainFrame' = NoFrame
  /\ UNCHANGED <<nmeaPtrs, handlerFrame>>

NoFrames == nmeaMem = {} /\ nmeaPtrs = <<>> /\ handlerFrame = NoFrame /\ mainFrame = NoFrame
-----------------------------------------------------------------------------
NmeaTypeOK ==
  /\ nmeaMem \subseteq Frames /\ nmeaPtrs \in Seq(Frames) /\ Len(nmeaPtrs) <= NmeaQueue
  /\ {handlerFrame, mainFrame} \subseteq Frames \cup {NoFrame}

\* Each allocated frame is in one place: in the queue, in the handler's hand or in
\* main's. Nothing is leaked however reading, allocating or queueing fails, nothing is
\* used after it was freed, and nothing is freed twice, while the handler interrupts
\* main between k_msgq_get and k_free.
FramesOwned ==
  /\ nmeaMem = Range(nmeaPtrs) \cup ({handlerFrame, mainFrame} \ {NoFrame})
  /\ IsInjective(nmeaPtrs)
  /\ \A f \in {handlerFrame, mainFrame} \ {NoFrame} : f \notin Range(nmeaPtrs)
  /\ handlerFrame = mainFrame => handlerFrame = NoFrame
=============================================================================
