------------------------------ MODULE TurnLog -------------------------------
(***************************************************************************)
(* What a consumer of the record stream of a turn (the JSONL file, the SSE *)
(* stream, the memory sink behind /signals) may rely on, in whatever order *)
(* the inferences finish:                                                  *)
(*   - records are only appended, one signal at a time;                    *)
(*   - a window has at most one window record, with both of its lanes, or, *)
(*     in the block in front of the turn_end, with one;                    *)
(*   - a full evaluation has at most one record;                           *)
(*   - there is at most one turn_end, and the partial records in front of  *)
(*     it are in the order of t.                                           *)
(***************************************************************************)
EXTENDS Integers, Sequences

CONSTANTS Mids, Widths   \* the values of mid and width records may carry

VARIABLE log

Written(kind, mid) == \E i \in 1..Len(log) : log[i].kind = kind /\ log[i].mid = mid
Ended == \E i \in 1..Len(log) : log[i].kind = "turn_end"

LogInit == log = <<>>

WriteMerged(m, d) ==
  /\ ~ Written("window", m)
  /\ log' = Append(log, [kind |-> "window", mid |-> m, width |-> d,
                         lanes |-> {"nv", "stt"}])

WriteEval(m, d) ==
  /\ ~ Written("eval", m)
  /\ log' = Append(log, [kind |-> "eval", mid |-> m, width |-> d,
                         lanes |-> {"eval"}])

\* The turn_end, whatever its place in the stream, behind the partial records
\* of windows that have no record yet.
WriteTurnEnd(n) ==
  /\ ~ Ended
  /\ Len(log') = Len(log) + n + 1
  /\ SubSeq(log', 1, Len(log)) = log
  /\ log'[Len(log')].kind = "turn_end"
  /\ \A i \in (Len(log) + 1)..(Len(log) + n) :
       /\ log'[i].kind = "window" /\ log'[i].mid \in Mids /\ log'[i].width \in Widths
       /\ log'[i].lanes \in {{"nv"}, {"stt"}}
       /\ ~ Written("window", log'[i].mid)
       /\ i > Len(log) + 1 => log'[i - 1].mid < log'[i].mid

LogNext ==
  \/ \E m \in Mids, d \in Widths : WriteMerged(m, d) \/ WriteEval(m, d)
  \/ \E n \in 0..Len(log') : WriteTurnEnd(n)

LogSpec == LogInit /\ [][LogNext]_log
=============================================================================
