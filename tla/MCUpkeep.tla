------------------------------ MODULE MCUpkeep ------------------------------
(***************************************************************************)
(* What runs on a clock: the sweep, with one account of the first day, one *)
(* invited later, a page one of them makes and the requests on them, and   *)
(* the pusher of backups.  The two share no state, and a behaviour is of   *)
(* one of them.                                                            *)
(***************************************************************************)
EXTENDS Erasure, Backup

CONSTANTS ada, eve, old, t1, h1, p1

VARIABLE clock

upkeepVars == <<clock, erasureVars, backupVars>>

Sweeps(A) == clock = "sweep" /\ A /\ UNCHANGED <<clock, backupVars>>
Pushes(A) == clock = "push" /\ A /\ UNCHANGED <<clock, erasureVars>>

UpkeepInit ==
    /\ ErasureInit /\ BackupInit
    /\ clock = IF mode = "off" THEN "sweep" ELSE "push"
    /\ mode = "off" => \A t \in 1..Tables : typed[t] = 0

UpkeepNext ==
    \/ clock = "sweep" /\ ErasureNext /\ UNCHANGED <<clock, backupVars>>
    \/ clock = "push" /\ BackupNext /\ UNCHANGED <<clock, erasureVars>>

\* That of Erasure and that of Backup, under which the pusher steps for ever.
UpkeepFairness ==
    /\ []<><<Sweeps(CollectsAll) \/ Pushes(OncePasses)>>_upkeepVars
    /\ \A a \in Accounts :
           /\ SF_upkeepVars(Sweeps(Noted(PagesOf(a)))) /\ SF_upkeepVars(Sweeps(Noted(EraseAccount(a))))
           /\ WF_upkeepVars(Sweeps(Noted(FallsDue(a) /\ UNCHANGED <<page, derivedVars>>)))
    /\ WF_upkeepVars(Pushes(OncePasses)) /\ WF_upkeepVars(Pushes(PeriodPasses))

UpkeepSpec == UpkeepInit /\ [][UpkeepNext]_upkeepVars /\ UpkeepFairness

\* What either of them keeps stays within its types.
UpkeepTypeOK == ErasureTypeOK /\ BackupTypeOK
=============================================================================
