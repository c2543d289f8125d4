----------------------------- MODULE MCSampler -----------------------------
(* Values of the constants of Sampler for the model checker. *)
EXTENDS Sampler, TLC

CONSTANTS a, b

Ask(mode, submode, suppress, heartbeat) ==
    [mode |-> mode, submode |-> submode, suppress |-> suppress, heartbeat |-> heartbeat]

All ==
    {Ask("STREAM", "SAMPLE", FALSE, FALSE), Ask("STREAM", "SAMPLE", TRUE, TRUE),
     Ask("STREAM", "ON_CHANGE", FALSE, FALSE), Ask("STREAM", "ON_CHANGE", FALSE, TRUE),
     Ask("POLL", "SAMPLE", FALSE, FALSE), Ask("POLL", "ON_CHANGE", FALSE, FALSE)}

OneTree == {(a :> "u") @@ (b :> Absent)}
=============================================================================
