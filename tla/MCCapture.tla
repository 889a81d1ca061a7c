----------------------------- MODULE MCCapture -----------------------------
(***************************************************************************)
(* Instances of Capture at the smallest budget the YAML admits (4096), with *)
(* 128-byte symbols: a two-symbol event costs 1588 bytes in its pair, so     *)
(* two or three events fill the budget and a session of four exceeds it.     *)
(***************************************************************************)
EXTENDS Capture

CONSTANTS MaxSessions,  \* sessions started
          MaxTaken,     \* symbols recorded in one session
          MaxDrops      \* drops counted

\* One symbol, a full event, and a payload that needs two events.
MCPayloads == { <<"x">>, <<"x", "y">>, <<"x", "y", "z">> }

MCBounds == /\ fileSeq' <= MaxSessions
            /\ Len(ledger'.taken) <= MaxTaken
            /\ store'.drops <= MaxDrops

MCNext == CaptureNext /\ MCBounds

MCSpec == CaptureInit /\ [][MCNext]_captureVars
=============================================================================
