---------------------------- MODULE CallbackPromise ----------------------------
(***************************************************************************)
(* What QueueSignal promises about the callbacks it accepts: "optional      *)
(* callbacks execute FIFO on a worker after completion", one at a time,     *)
(* each at most once, and once delivery is cancelled none begins and none   *)
(* is accepted.  Callbacks are numbered by the calls that bring them.       *)
(***************************************************************************)
EXTENDS Naturals, Sequences

CONSTANTS MaxCalls     \* bound on the number of QueueSignal calls

VARIABLES
  waiting,     \* the accepted callbacks that have not begun, oldest first
  current,     \* the callback that runs, or 0
  done,        \* the last one that returned
  cancelled

promise == <<waiting, current, done, cancelled>>

PromiseInit == waiting = <<>> /\ current = 0 /\ done = 0 /\ cancelled = FALSE

\* A call is accepted; all callbacks accepted before it came with earlier calls.
Accept(c) ==
  /\ ~cancelled
  /\ \A i \in 1..Len(waiting) : waiting[i] < c
  /\ current < c /\ done < c
  /\ waiting' = Append(waiting, c)
  /\ UNCHANGED <<current, done, cancelled>>

Begin ==
  /\ ~cancelled /\ current = 0 /\ waiting # <<>>
  /\ current' = Head(waiting)
  /\ waiting' = Tail(waiting)
  /\ UNCHANGED <<done, cancelled>>

Return ==
  /\ current # 0
  /\ done' = current
  /\ current' = 0
  /\ UNCHANGED <<waiting, cancelled>>

Cancel ==
  /\ cancelled' = TRUE
  /\ UNCHANGED <<waiting, current, done>>

PromiseNext == (\E c \in 1..MaxCalls : Accept(c)) \/ Begin \/ Return \/ Cancel

PromiseSpec == PromiseInit /\ [][PromiseNext]_promise

=============================================================================
