------------------------------- MODULE DsmLink -------------------------------
(***************************************************************************)
(* What module GlobalSyscall relies on for dsm_call: one call at a time    *)
(* goes to the DSM thread of the other PU, is taken there once, answered   *)
(* once, and the caller returns with the answer to this very call.         *)
(***************************************************************************)
EXTENDS Naturals

VARIABLES
  link,   \* idle, request (on its way), handling, response (on its way)
  no,     \* number of the call that is being made, or was made last
  ans     \* the call whose answer the caller got last

linkVars == <<link, no, ans>>

LinkInit == link = "idle" /\ no = 0 /\ ans = 0

Call == /\ link = "idle"
        /\ link' = "request"
        /\ no' = no + 1
        /\ UNCHANGED ans

Take == link = "request" /\ link' = "handling" /\ UNCHANGED <<no, ans>>

Answer == link = "handling" /\ link' = "response" /\ UNCHANGED <<no, ans>>

Return == /\ link = "response"
          /\ link' = "idle"
          /\ ans' = no
          /\ UNCHANGED no

LinkNext == Call \/ Take \/ Answer \/ Return

LinkSpec == LinkInit /\ [][LinkNext]_linkVars
=============================================================================
