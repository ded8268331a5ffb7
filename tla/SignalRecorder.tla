--------------------------- MODULE SignalRecorder ---------------------------
(***************************************************************************)
(* The recorder of giljobe.emit.sink: it turns the stream of signals of a  *)
(* turn, in completion order, into records, each of which every sink is    *)
(* offered once.                                                           *)
(*                                                                         *)
(* The nv and the stt signal of a window become one record.  The first to  *)
(* come waits in a slot for the other; what still waits when the TurnEnd   *)
(* comes is written as a partial record.  A slot is found by the middle of *)
(* the window, which signals carry as t; here mid is start + end, that is  *)
(* twice t, so that it is an integer.                                      *)
(***************************************************************************)
EXTENDS Integers, Sequences, SequencesExt

VARIABLES
  slots,   \* _pending
  log      \* the records fanned out so far

recorder == <<slots, log>>

Both == {"nv", "stt"}

\* A window record, and with it a slot: its window and the lanes it has.
WindowRecord(mid, width, lanes) ==
  [kind |-> "window", mid |-> mid, width |-> width, lanes |-> lanes]
EvalRecord(mid, width) ==
  [kind |-> "eval", mid |-> mid, width |-> width, lanes |-> {"eval"}]
TurnEndRecord(end) ==
  [kind |-> "turn_end", mid |-> end, width |-> 0, lanes |-> {}]

\* Faulty variant: every signal opens a slot of its own.
SlotFresh(sig) == WindowRecord(sig.mid, sig.width, {})

\* The slot a signal belongs to, with the lanes it had before.
SlotOf(sig) ==
  IF \E s \in slots : s.mid = sig.mid
  THEN CHOOSE s \in slots : s.mid = sig.mid
  ELSE WindowRecord(sig.mid, sig.width, {})

\* Faulty variants: the merged slot stays; the swept slots stay.
MergedStays(slot) == slots \cup {slot}
SweptStay == slots

\* What is left of the slots when one is merged, and after the sweep.
Without(slot) == slots \ {slot}
Swept == {}

\* _on_window_signal, under _lock.
OnWindowSignal(sig) ==
  LET slot == SlotOf(sig)
      joined == [slot EXCEPT !.lanes = @ \cup {sig.lane}]
  IN  /\ sig.lane \in Both
      /\ \/ /\ joined.lanes = Both
            /\ slots' = Without(slot)
            /\ log' = Append(log, joined)
         \/ /\ joined.lanes # Both
            /\ slots' = (slots \ {slot}) \cup {joined}
            /\ UNCHANGED log

\* A full evaluation is not paired.
OnEvaluation(sig) ==
  /\ sig.lane = "eval"
  /\ log' = Append(log, EvalRecord(sig.mid, sig.width))
  /\ UNCHANGED slots

\* The partial records, by t, in front of the record of the TurnEnd.
Leftovers ==
  {q \in SetToSeqs(slots) : \A i, j \in 1..Len(q) : i < j => q[i].mid <= q[j].mid}

\* _on_turn_end.
OnTurnEnd(sig) ==
  /\ sig.lane = "end"
  /\ \E rest \in Leftovers : log' = log \o rest \o <<TurnEndRecord(sig.mid)>>
  /\ slots' = Swept

OnSignal(sig) ==
  \/ OnWindowSignal(sig)
  \/ OnEvaluation(sig)
  \/ OnTurnEnd(sig)

RecorderInit == slots = {} /\ log = <<>>
=============================================================================
