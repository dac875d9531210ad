-------------------------- MODULE CompressorTrain --------------------------
(***************************************************************************)
(* The process units of a section and the ProcessPipelineRunner over them, *)
(* with integer charts.  A train has a choke (before the first stage or    *)
(* after the last), and per stage a mixer, a compressor and a splitter     *)
(* (one mixer before and one splitter after the whole train under          *)
(* COMMON_ASV).                                                            *)
(*                                                                         *)
(* The charts are the parameter: a stage is a record of the surge and      *)
(* stonewall rates and of the pressure rise as functions of speed, and of  *)
(* the speeds at which the flash of the outlet stream fails.               *)
(***************************************************************************)
EXTENDS PipelineSection

CONSTANTS
  MinimumFlow(_, _, _),  \* (train, i, speed) |-> surge rate, actual
  MaximumFlow(_, _, _),  \* (train, i, speed) |-> stonewall rate, actual
  Head(_, _, _, _),      \* (train, i, speed, actual rate) |-> pressure rise
  FlashFails(_, _, _, _) \* (train, i, speed, suction pressure)

Stream(p, q) == [status |-> "ok", pressure |-> p, rate |-> q]
Error(e)     == [status |-> e, pressure |-> 0, rate |-> 0]

\* Gas is denser at higher pressure, so the same standard rate is a smaller
\* actual rate; the two conversions are inverse to each other.
Density(p)         == p \div 3
ActualRate(p, q)   == q - Density(p)
StandardRate(p, a) == a + Density(p)

Larger(a, b) == IF a > b THEN a ELSE b

\* Choke.propagate_stream
Choked(stream, drop) ==
  IF stream.status # "ok" \/ drop = 0 THEN stream
  ELSE IF stream.pressure - drop < 0 THEN Error("OutsideCapacity")
  ELSE Stream(stream.pressure - drop, stream.rate)

\* The recirculation that DirectMixer adds before compressor i, and that the
\* DirectSplitter of the same loop takes out again.
LoopRate(section, plant, i) ==
  IF section.control = "COMMON_ASV" THEN plant[1] ELSE plant[i]

\* Compressor.propagate_stream, between the mixer and the splitter of its loop.
Compressed(section, plant, i, stream) ==
  LET speed  == plant[Shaft]
      mixed  == stream.rate + LoopRate(section, plant, i)
      actual == ActualRate(stream.pressure, mixed)
  IN  IF stream.status # "ok" THEN stream
      ELSE IF speed = 0 THEN Error("ValueError")
      ELSE IF actual < MinimumFlow(section.train, i, speed) THEN Error("RateTooLow")
      ELSE IF actual > MaximumFlow(section.train, i, speed) THEN Error("RateTooHigh")
      ELSE IF FlashFails(section.train, i, speed, stream.pressure) THEN Error("Eos")
      ELSE Stream(stream.pressure + Head(section.train, i, speed, actual), stream.rate)

\* ProcessPipelineRunner.run: the stream that reaches compressor i, with the
\* recirculation of its loop mixed in, or leaves the section (i = Stages + 1).
TrainRunTo(section, plant, inlet, i) ==
  LET entry == Choked(Stream(inlet.pressure, inlet.rate),
                      IF section.control = "UPSTREAM_CHOKE" THEN plant[Choke] ELSE 0)
      after[n \in 0 .. Stages] ==
        IF n = 0 THEN entry ELSE Compressed(section, plant, n, after[n - 1])
      reached == after[i - 1]
  IN  IF i = Stages + 1
      THEN Choked(reached, IF section.control = "DOWNSTREAM_CHOKE" THEN plant[Choke] ELSE 0)
      ELSE IF reached.status = "ok"
           THEN Stream(reached.pressure, reached.rate + LoopRate(section, plant, i))
           ELSE reached

\* Compressor.get_recirculation_range: the rates that can be added to a stream
\* before the compressor reaches surge from below and stonewall.
TrainRecirculationRange(train, i, speed, stream) ==
  [min |-> Larger(0, StandardRate(stream.pressure, MinimumFlow(train, i, speed)) - stream.rate),
   max |-> Larger(0, StandardRate(stream.pressure, MaximumFlow(train, i, speed)) - stream.rate)]
=============================================================================
