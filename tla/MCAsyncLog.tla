----------------------------- MODULE MCAsyncLog -----------------------------
(* Two workers share two slots and a ring with room for one.               *)
EXTENDS AsyncLog
=============================================================================
