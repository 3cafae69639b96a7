------------------------------ MODULE MCRuntime ------------------------------
(***************************************************************************)
(* Instances of Runtime for TLC.                                           *)
(*                                                                         *)
(* One tick stands for about 25 ms: the 50 ms lease is 2 ticks, the 70 ms  *)
(* pause of the demonstration 3, and its pauses of 2 to 8 ms none.         *)
(***************************************************************************)
EXTENDS Runtime, TLC

At(delay, event) == [delay |-> delay, events |-> {event}]

\* The schedule in Runtime::run.
DemoSchedule ==
    <<At(0, "BEGIN"), At(0, "COMMIT"), At(0, "BEGIN"), At(0, "RESET"),
      At(0, "COMMIT"), At(0, "PROBE"), At(0, "BEGIN"), At(0, "COMMIT"),
      At(0, "BEGIN"), At(3, "COMMIT"), At(0, "PROBE"), At(0, "BEGIN"),
      At(0, "COMMIT"), At(0, "STOP")>>

(* Every sequence of n events.  A delay is only a lower bound, so          *)
(* schedules without delays allow everything others do.                    *)
AnySchedule(n) == [i \in 1 .. n |-> [delay |-> 0, events |-> Events]]

Any5 == AnySchedule(5)
=============================================================================
