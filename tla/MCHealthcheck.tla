--------------------------- MODULE MCHealthcheck ---------------------------
(* Two workers, two peers that change three times, and one fault.          *)
EXTENDS Healthcheck
============================================================================
