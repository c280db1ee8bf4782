---------------------------- MODULE MCFileWal ----------------------------
(* FileWal for TLC: callers of the same kind are interchangeable, and what *)
(* the locals of a returned call still hold does not matter.               *)
EXTENDS FileWal, TLC

AppenderSymmetry == Permutations(Appenders)

InCall(local, none) == [c \in Callers |-> IF pc[c] = "idle" THEN none ELSE local[c]]
LiveState ==
    <<nextEntryId, pc, InCall(entry, 0), InCall(dur, "Async"), InCall(at, 0),
      segmentVars, markVars, fpc,
      [s \in Shards |-> IF fpc[s] \in {"picked", "synced", "failed"} THEN target[s] ELSE 0],
      acked, overtaken, late, InCall(before, {})>>
=============================================================================
