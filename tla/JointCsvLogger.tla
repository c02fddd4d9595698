--------------------------- MODULE JointCsvLogger ---------------------------
(***************************************************************************)
(* The CSV logger of one joint (actuator_test/logging.cpp): the control    *)
(* thread fills a batch of samples, hands it over through a buffer of one  *)
(* batch, and a writer thread empties that buffer into the file.  Both     *)
(* threads wait on the same condition variable, each for a predicate of    *)
(* its own, and each wakes one waiter after it has released the mutex.     *)
(* What is done under the mutex is one step; a wait whose predicate fails  *)
(* goes to sleep in the step that tests it.                                *)
(***************************************************************************)
EXTENDS Naturals, Sequences

CONSTANTS
  BatchSize,   \* k_log_batch_samples
  MaxSamples   \* bound: samples written between open() and close()

ASSUME LoggerAssumption == BatchSize \in Nat \ {0} /\ MaxSamples \in Nat

VARIABLES
  open,      \* m_file # nullptr
  caller,    \* where the control thread is in write() or close()
  closing,   \* the control thread is inside close()
  writer,    \* where writer_main is
  asleep,    \* the threads asleep on m_cv
  active,    \* m_active_samples
  pending,   \* m_pending_samples
  ready,     \* m_pending_ready
  stop,      \* m_stop_requested
  batch,     \* the writer's own batch
  stored,    \* what has been written to the file
  accepted   \* history: samples taken since open()

vars == <<open, caller, closing, writer, asleep, active, pending, ready, stop,
          batch, stored, accepted>>

Threads == {"caller", "writer"}

Init ==
  /\ open = FALSE /\ caller = "idle" /\ closing = FALSE /\ writer = "exited"
  /\ asleep = {} /\ active = <<>> /\ pending = <<>> /\ ready = FALSE
  /\ stop = FALSE /\ batch = <<>> /\ stored = <<>> /\ accepted = 0
-----------------------------------------------------------------------------
(* notify_one: wake some sleeping thread, if there is one.                 *)
NotifyOne ==
  IF asleep = {} THEN UNCHANGED asleep
  ELSE \E t \in asleep : asleep' = asleep \ {t}

Sleep(t) == asleep' = asleep \cup {t}

(* open() when the file can be created: a truncated file, empty buffers    *)
(* and a new writer thread.                                                *)
Open ==
  /\ caller = "idle" /\ ~open
  /\ open' = TRUE /\ writer' = "loop"
  /\ active' = <<>> /\ pending' = <<>> /\ ready' = FALSE /\ stop' = FALSE
  /\ batch' = <<>> /\ stored' = <<>> /\ accepted' = 0
  /\ UNCHANGED <<caller, closing, asleep>>

(* Mutant of Write: a full batch is handed over one sample late.           *)
WriteFlushLate ==
  /\ caller = "idle" /\ open /\ accepted < MaxSamples
  /\ accepted' = accepted + 1
  /\ active' = Append(active, accepted')
  /\ caller' = IF Len(active') > BatchSize THEN "flush" ELSE "idle"
  /\ UNCHANGED <<open, closing, writer, asleep, pending, ready, stop, batch, stored>>

(* write(): a full batch is handed over at once.                           *)
Write ==
  /\ caller = "idle" /\ open /\ accepted < MaxSamples
  /\ accepted' = accepted + 1
  /\ active' = Append(active, accepted')
  /\ caller' = IF Len(active') >= BatchSize THEN "flush" ELSE "idle"
  /\ UNCHANGED <<open, closing, writer, asleep, pending, ready, stop, batch, stored>>

(* close(): hand over what is left, then let the writer finish.            *)
Close ==
  /\ caller = "idle" /\ open
  /\ closing' = TRUE
  /\ caller' = IF active = <<>> THEN "drain" ELSE "flush"
  /\ UNCHANGED <<open, writer, asleep, active, pending, ready, stop, batch, stored, accepted>>

(* Mutant of FlushSwap: hand over without waiting for the buffer.          *)
FlushSwapAtOnce ==
  /\ caller = "flush" /\ "caller" \notin asleep
  /\ pending' = active /\ active' = pending /\ ready' = TRUE
  /\ caller' = "flushed"
  /\ UNCHANGED <<open, closing, writer, asleep, stop, batch, stored, accepted>>

(* flush_active_batch once the buffer is free.                             *)
FlushSwap ==
  /\ caller = "flush" /\ "caller" \notin asleep /\ ~ready
  /\ pending' = active /\ active' = pending /\ ready' = TRUE
  /\ caller' = "flushed"
  /\ UNCHANGED <<open, closing, writer, asleep, stop, batch, stored, accepted>>

(* Mutant of FlushNotify: the writer is not woken.                         *)
FlushSilently ==
  /\ caller = "flushed"
  /\ caller' = IF closing THEN "drain" ELSE "idle"
  /\ UNCHANGED <<open, closing, writer, asleep, active, pending, ready, stop, batch, stored, accepted>>

FlushNotify ==
  /\ caller = "flushed" /\ NotifyOne
  /\ caller' = IF closing THEN "drain" ELSE "idle"
  /\ UNCHANGED <<open, closing, writer, active, pending, ready, stop, batch, stored, accepted>>

DrainStop ==
  /\ caller = "drain" /\ "caller" \notin asleep /\ ~ready
  /\ stop' = TRUE /\ caller' = "stopping"
  /\ UNCHANGED <<open, closing, writer, asleep, active, pending, ready, batch, stored, accepted>>

(* Mutant of StopNotify: the writer is not told to stop.                   *)
StopSilently ==
  /\ caller = "stopping"
  /\ caller' = "join"
  /\ UNCHANGED <<open, closing, writer, asleep, active, pending, ready, stop, batch, stored, accepted>>

StopNotify ==
  /\ caller = "stopping" /\ NotifyOne
  /\ caller' = "join"
  /\ UNCHANGED <<open, closing, writer, active, pending, ready, stop, batch, stored, accepted>>

(* Mutant of Join: the file is closed under a writer that is not done.     *)
CloseWithoutJoin ==
  /\ caller = "join"
  /\ caller' = "idle" /\ open' = FALSE /\ closing' = FALSE
  /\ UNCHANGED <<writer, asleep, active, pending, ready, stop, batch, stored, accepted>>

Join ==
  /\ caller = "join" /\ writer = "exited"
  /\ caller' = "idle" /\ open' = FALSE /\ closing' = FALSE
  /\ UNCHANGED <<writer, asleep, active, pending, ready, stop, batch, stored, accepted>>

(* Both waits of the caller are for the buffer to be free.                 *)
CallerSleeps ==
  /\ caller \in {"flush", "drain"} /\ "caller" \notin asleep /\ ready
  /\ Sleep("caller")
  /\ UNCHANGED <<open, caller, closing, writer, active, pending, ready, stop, batch, stored, accepted>>
-----------------------------------------------------------------------------
(* writer_main.                                                            *)
WriterTake ==
  /\ writer = "loop" /\ "writer" \notin asleep /\ ready
  /\ batch' = pending /\ pending' = <<>> /\ ready' = FALSE
  /\ writer' = "took"
  /\ UNCHANGED <<open, caller, closing, asleep, active, stop, stored, accepted>>

WriterExit ==
  /\ writer = "loop" /\ "writer" \notin asleep /\ ~ready /\ stop
  /\ writer' = "exited"
  /\ UNCHANGED <<open, caller, closing, asleep, active, pending, ready, stop, batch, stored, accepted>>

WriterSleeps ==
  /\ writer = "loop" /\ "writer" \notin asleep /\ ~ready /\ ~stop
  /\ Sleep("writer")
  /\ UNCHANGED <<open, caller, closing, writer, active, pending, ready, stop, batch, stored, accepted>>

WriterNotify ==
  /\ writer = "took" /\ NotifyOne
  /\ writer' = "writing"
  /\ UNCHANGED <<open, caller, closing, active, pending, ready, stop, batch, stored, accepted>>

WriteBatch ==
  /\ writer = "writing"
  /\ stored' = stored \o batch /\ batch' = <<>>
  /\ writer' = "loop"
  /\ UNCHANGED <<open, caller, closing, asleep, active, pending, ready, stop, accepted>>

(* A wait on a condition variable may also end for no reason.              *)
SpuriousWakeup ==
  /\ \E t \in asleep : asleep' = asleep \ {t}
  /\ UNCHANGED <<open, caller, closing, writer, active, pending, ready, stop, batch,
                 stored, accepted>>

CallerStep == FlushSwap \/ FlushNotify \/ DrainStop \/ StopNotify \/ Join \/ CallerSleeps
WriterStep == WriterTake \/ WriterExit \/ WriterSleeps \/ WriterNotify \/ WriteBatch

Next == Open \/ Write \/ Close \/ CallerStep \/ WriterStep \/ SpuriousWakeup

Spec == Init /\ [][Next]_vars

(* Two threads that the scheduler runs; nobody has to write or to close.   *)
FairSpec == Spec /\ WF_vars(CallerStep) /\ WF_vars(WriterStep)
-----------------------------------------------------------------------------
(* The buffers never outgrow one batch each, whatever the disk's speed.    *)
TypeOK ==
  /\ open \in BOOLEAN /\ closing \in BOOLEAN /\ ready \in BOOLEAN /\ stop \in BOOLEAN
  /\ caller \in {"idle", "flush", "flushed", "drain", "stopping", "join"}
  /\ writer \in {"exited", "loop", "took", "writing"}
  /\ asleep \subseteq Threads
  /\ active \in Seq(Nat) /\ Len(active) <= BatchSize
  /\ pending \in Seq(Nat) /\ Len(pending) <= BatchSize
  /\ batch \in Seq(Nat) /\ Len(batch) <= BatchSize
  /\ stored \in Seq(Nat)
  /\ accepted \in Nat

(* Every sample taken is in exactly one place, and the places in order     *)
(* from the file to the batch being filled hold them in order: swapping    *)
(* the buffers never loses, repeats or reorders one.                       *)
InOrder ==
  stored \o batch \o pending \o active = [i \in 1 .. accepted |-> i]

(* Never both asleep, and no thread asleep on a predicate that holds with  *)
(* no notification on its way: one condition variable serves two           *)
(* predicates and each change wakes one waiter only.                       *)
NoLostWakeup ==
  /\ asleep # Threads
  /\ "writer" \in asleep /\ ready => caller = "flushed"
  /\ "writer" \in asleep /\ stop => caller = "stopping"
  /\ "caller" \in asleep /\ ~ready => writer = "took"

(* The logger implements the log its callers count on.                     *)
Log == INSTANCE SampleLog
ImplementsLog == Log!Spec

(* write() and close() return: the control loop is never stuck behind the  *)
(* writer thread.                                                          *)
CallsReturn == caller # "idle" ~> caller = "idle"
=============================================================================
