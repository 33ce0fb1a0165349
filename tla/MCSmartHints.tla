---------------------------- MODULE MCSmartHints ----------------------------
(* Two disks: a bridge that passes every answer on, and one that must be     *)
(* addressed by its own name and makes up a verdict otherwise.               *)
EXTENDS SmartTransport

HealthOfDisk == "passed"
Says(json, text, incomplete, table) ==
    [json |-> json, text |-> text, incomplete |-> incomplete, table |-> table,
     values |-> "valid"]
Good == Says("passed", "passed", FALSE, TRUE)
MadeUp == Says("failed", "bare", TRUE, FALSE)
BridgeSet == {[t \in Types |-> Good],
              [t \in Types |-> IF t = "usb" THEN Good ELSE MadeUp]}
=============================================================================
