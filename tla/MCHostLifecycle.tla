--------------------------- MODULE MCHostLifecycle ---------------------------
(* Two workers, and up to two clean-up steps that fail.                    *)
EXTENDS HostLifecycle
==============================================================================
