-------------------------------- MODULE MCRtc --------------------------------
(***************************************************************************)
(* The RTC driver with a few processes and the interesting frequencies: 0  *)
(* stops the clock, 1 is a power of two without a rate, 3 is not one, 1024 *)
(* is the fastest.                                                         *)
(***************************************************************************)
EXTENDS Rtc

MCFrequency == {0, 1, 3, 1024}
=============================================================================
