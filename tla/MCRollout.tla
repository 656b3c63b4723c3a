----------------------------- MODULE MCRollout -----------------------------
(***************************************************************************)
(* Small fleets for the model checker: two wave groups, a one-device test  *)
(* group and an office of two or three.                                    *)
(***************************************************************************)
EXTENDS Rollout

Wave(g, soak, approval, cap) ==
    [group |-> g, groups |-> <<>>, soak |-> soak, minHealthyPercent |-> 0,
     requireApproval |-> approval, minDevices |-> 0, maxDevices |-> cap]

MCGroups  == {"test", "office"}
MCMembers == [test |-> Devices \cap {1}, office |-> Devices \ {1}]

\* A manual gate after the test wave, then the office at once.
GatedLadder  == <<Wave("test", 1, TRUE, 0), Wave("office", 1, FALSE, 0)>>
\* The office in cohorts of one.
SoakedOffice == <<Wave("office", 2, FALSE, 1)>>
CappedOffice == <<Wave("office", 0, FALSE, 1)>>
PlainLadder  == <<Wave("test", 0, FALSE, 0), Wave("office", 1, FALSE, 0)>>

PlansGated  == {GatedLadder}
PlansSoaked == {SoakedOffice}
PlansOffice == {CappedOffice}
PlansPlain  == {PlainLadder, Reverse(PlainLadder)}
PlansLadder == {Reverse(PlainLadder)}

OneCommit  == <<"edit">>
TwoCommits == <<"edit", "edit">>
ScopesAll    == {<<>>, <<"office">>}
ScopesLadder == {<<>>}
=============================================================================
