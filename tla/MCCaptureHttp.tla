--------------------------- MODULE MCCaptureHttp ---------------------------
(***************************************************************************)
(* The store of MCCapture, smaller, with a web client that asks for the      *)
(* listing, for each file the store may hold, and for names it refuses.      *)
(***************************************************************************)
EXTENDS CaptureHttp

CONSTANTS MaxSessions,  \* sessions started
          MaxTaken      \* symbols recorded in one session

\* A full event.
MCPayloads == { <<"x", "y">> }

MCNames == [seq : 1..MaxSessions, ext : {"bin", "txt"}, plain : {TRUE}]
             \cup { [seq |-> 1, ext |-> "BIN", plain |-> TRUE],
                    [seq |-> 1, ext |-> "exe", plain |-> TRUE],
                    [seq |-> 1, ext |-> "bin", plain |-> FALSE] }

MCBounds == fileSeq' <= MaxSessions /\ Len(ledger'.taken) <= MaxTaken

MCNext == HttpNext /\ MCBounds

MCSpec == HttpInit /\ [][MCNext]_httpVars /\ HttpFairness
=============================================================================
