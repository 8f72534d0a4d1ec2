------------------------------ MODULE Failover ------------------------------
(***************************************************************************)
(* What the relay promises about its programme output, without the         *)
(* channels, processes and timers that provide it: one pipeline is on air  *)
(* at a time, a live episode starts from the fallback, is guarded by a     *)
(* watchdog for as long as it lasts, may be promoted from the transcoding  *)
(* bridge to direct passthrough but never the other way, and ends by a     *)
(* return to the fallback or by the shutdown of the relay, which is not    *)
(* put off for ever once it was asked for.                                 *)
(*                                                                         *)
(* Switcher.tla implements this specification.                             *)
(***************************************************************************)

VARIABLES
  source,   \* the pipeline on air: "fallback", "srt" or "bridge"
  guarded,  \* is a watchdog counting towards the return to fallback?
  closing,  \* the shutdown was asked for
  halted    \* the relay has stopped

failoverVars == <<source, guarded, closing, halted>>

Pipelines == {"fallback", "srt", "bridge"}

Init ==
  /\ source = "fallback"
  /\ guarded \in BOOLEAN
  /\ closing = FALSE
  /\ halted = FALSE

\* A live episode starts, and its watchdog with it.
Begin ==
  /\ ~halted
  /\ source = "fallback"
  /\ source' \in {"srt", "bridge"}
  /\ guarded' = TRUE
  /\ UNCHANGED <<closing, halted>>

\* The natural keyframe lets the bridge go.
Promote ==
  /\ ~halted
  /\ source = "bridge"
  /\ source' = "srt"
  /\ UNCHANGED <<guarded, closing, halted>>

\* The episode ends; whatever is left of its watchdog no longer matters.
End ==
  /\ ~halted
  /\ source # "fallback"
  /\ source' = "fallback"
  /\ guarded' \in BOOLEAN
  /\ UNCHANGED <<closing, halted>>

\* On the fallback the watchdog may run out unnoticed.
Lapse ==
  /\ source = "fallback"
  /\ guarded' \in BOOLEAN
  /\ UNCHANGED <<source, closing, halted>>

Close ==
  /\ closing' = TRUE
  /\ UNCHANGED <<source, guarded, halted>>

Halt ==
  /\ closing
  /\ ~halted
  /\ halted' = TRUE
  /\ UNCHANGED <<source, guarded, closing>>

Next == Begin \/ Promote \/ End \/ Lapse \/ Close \/ Halt

Spec == Init /\ [][Next]_failoverVars /\ WF_failoverVars(Halt)
=============================================================================
