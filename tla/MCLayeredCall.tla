--------------------------- MODULE MCLayeredCall ---------------------------
EXTENDS LayeredCall

Names == {"timeout_ms", "io_timeout_ms", "max_times", "min_delay_ms", "max_delay_ms"}

MCOptions ==
  {o \in [enabled : [{"timeout", "retry"} -> BOOLEAN], value : [Names -> 1 .. 3]] :
     /\ o.value["min_delay_ms"] <= o.value["max_delay_ms"]
     /\ o.value["max_times"] <= 2 /\ o.value["max_delay_ms"] <= 2}
=============================================================================
