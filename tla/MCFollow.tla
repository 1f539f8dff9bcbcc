------------------------------- MODULE MCFollow --------------------------------
(***************************************************************************)
(* The two things that go on by themselves for ever: the sweeper that      *)
(* pushes invoices to the malls, and the ticks and sheets that follow TMS. *)
(* They share no table; each is a scene, chosen in the initial state.      *)
(***************************************************************************)
EXTENDS InvoicePush, TmsSync

VARIABLE scene

followVars == <<pushVars, syncVars, scene>>

InPush(A) == A /\ scene = "push" /\ UNCHANGED <<syncVars, scene>>
InSync(A) == A /\ scene = "sync" /\ UNCHANGED <<pushVars, scene>>

FollowInit ==
  /\ PushInit /\ SyncInit
  /\ scene \in {"push", "sync"}
  /\ scene = "sync" => atOnce

\* bound: a row of TMS keeps its category, and is sold or rented out in one step
SyncChange(n) ==
  \/ \E v \in 0..MaxValue : ChangeRow(n, v, tms[n].cat, tms[n].kind)
  \/ \E kind \in {"out", "rented"} : ChangeRow(n, tms[n].value, tms[n].cat, kind)
  \/ DeleteRow(n) \/ RestoreRow(n)

SyncScene ==
  \/ \E r \in Runners : TickStep(r) \/ FailTick(r)
  \/ Export \/ ApplySheet
  \/ \E n \in Numbers : SyncChange(n) \/ HandStep(n)

FollowNext ==
  \/ InPush(PushNext)
  \/ InSync(SyncScene)

\* the sweeper's thread and its calls go on; TMS is asked and its sheets are exported again and
\* again, and a sheet in the folder is applied
FollowSpec ==
  /\ FollowInit /\ [][FollowNext]_followVars
  /\ WF_followVars(InPush(Sweep))
  /\ WF_followVars(InPush(Calls(Sweeper)))
  /\ \A r \in Runners : WF_followVars(InSync(TickStep(r)))
  /\ WF_followVars(InSync(Export /\ sheet = NoSheet))
  /\ WF_followVars(InSync(ApplySheet))
-----------------------------------------------------------------------------
\* The rows of the two are rows their tables can hold
FollowOK == PushesOK /\ SyncOK

\* In the scene of TMS: once it and the ticks come to rest, a machine that staff left alone is as
\* TMS has it, however ticks failed on the way and old sheets came late (sync_once)
TmsIsFollowedThere == scene = "sync" => TmsIsFollowed
=============================================================================
