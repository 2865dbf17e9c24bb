----------------------------- MODULE Downloads -----------------------------
(***************************************************************************)
(* What a sync cycle gets from the downloads it asks for, whatever fails:  *)
(* a job is done at most once; the answer is an error only if nothing was  *)
(* done or the sync is cancelled; without an error something was done, and *)
(* all of it unless a worker gave up or the sync is cancelled; and a pool  *)
(* that was asked for does answer.  This is what the code gives, and of a  *)
(* cancelled sync docs/parallel-downloads.md:127 promises more, "All       *)
(* workers exit; `ctx.Err()` returned": the nil that Answer allows then is *)
(* the code's, and CancelReported of module Transfers, the promise of the  *)
(* docs, does not hold.                                                    *)
(***************************************************************************)
CONSTANT Jobs

VARIABLES
  done,         \* jobs whose file has been downloaded
  trouble,      \* whether a worker has given up, or the sync was cancelled
  answer        \* "unasked", then "none" until there is one, "nil" or "error"

downloadVars == <<done, trouble, answer>>

Init == done = {} /\ trouble = "none" /\ answer = "unasked"

(* The sync may be cancelled before the pool starts.                       *)
Ask == /\ answer = "unasked"
       /\ answer' = "none"
       /\ trouble' \in {"none", "cancelled"}
       /\ UNCHANGED done

Do(j) == /\ answer = "none" /\ j \notin done
         /\ done' = done \cup {j}
         /\ UNCHANGED <<trouble, answer>>

GiveUp == /\ answer = "none" /\ trouble = "none"
          /\ trouble' = "worker"
          /\ UNCHANGED <<done, answer>>

Cancel == /\ answer = "none" /\ trouble # "cancelled"
          /\ trouble' = "cancelled"
          /\ UNCHANGED <<done, answer>>

Answer == /\ answer = "none"
          /\ \/ /\ done = Jobs \/ (trouble # "none" /\ done # {})
                /\ answer' = "nil"
             \/ /\ trouble = "cancelled" \/ (trouble = "worker" /\ done = {})
                /\ answer' = "error"
          /\ UNCHANGED <<done, trouble>>

Works == (\E j \in Jobs : Do(j)) \/ Answer

Next == Ask \/ Works \/ GiveUp \/ Cancel

Spec == Init /\ [][Next]_downloadVars /\ WF_downloadVars(Works)

=============================================================================
