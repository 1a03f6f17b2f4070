------------------------------- MODULE Parts -------------------------------
(***************************************************************************)
(* Components that share no state are checked and composed side by side: a *)
(* behaviour is one of the component that it starts in.                    *)
(***************************************************************************)
VARIABLE part  \* which of the components the behaviour is of
============================================================================
