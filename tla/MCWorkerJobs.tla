---------------------------- MODULE MCWorkerJobs ----------------------------
(***************************************************************************)
(* Two workers on a small instance.  The jobs share neither a row nor a    *)
(* lock, so the workers of a behaviour run one job only.                   *)
(***************************************************************************)
EXTENDS WorkerJobs

VARIABLE job        \* the job that is run

MCJobs == {INTEGRITY, ANCHOR_STAMP, ANCHOR_UPGRADE}

MCInit == Init /\ job \in Jobs

MCNext ==
    /\ UNCHANGED job
    /\ \/ \E w \in Workers : Step(<<w, job>>) \/ WriteFails(<<w, job>>) \/ Crash(w)
       \/ job = INTEGRITY /\ Tamper

MCVars == <<vars, job>>

MCSpec ==
    /\ MCInit /\ [][MCNext]_MCVars
    /\ \A w \in Workers : WF_MCVars(Step(<<w, job>>) /\ UNCHANGED job)
=============================================================================
